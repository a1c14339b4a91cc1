------------------------------- MODULE MCSync -------------------------------
(* Two devices and a list of two records.                                    *)
EXTENDS DeviceSync

CONSTANTS d1, d2, r1, r2
==============================================================================
