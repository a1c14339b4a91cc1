----------------------------- MODULE MCJobWaves ------------------------------
(* A staged job: one host in each of two waves, with a gate between them. *)
EXTENDS JobRunner, TLC

CONSTANTS h1, h2

OneByOne == (h1 :> 1) @@ (h2 :> 2)
==============================================================================
