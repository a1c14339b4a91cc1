----------------------------- MODULE MCVpnManager -----------------------------
(* Consumers with keys of their own, and two sessions to one server.         *)
EXTENDS VpnManager

CONSTANTS u1, u2, k1, k2

OwnKey  == [u \in Users |-> IF u = u1 THEN k1 ELSE k2]
SameKey == [u \in Users |-> k1]
===============================================================================
