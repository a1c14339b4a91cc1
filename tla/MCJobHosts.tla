----------------------------- MODULE MCJobHosts ------------------------------
(* A job of one wave: several steps, several hosts, repeated crashes. *)
EXTENDS JobRunner

OneWave == [h \in Hosts |-> 1]
==============================================================================
