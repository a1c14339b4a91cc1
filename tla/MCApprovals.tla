----------------------------- MODULE MCApprovals -----------------------------
(* A build that one call starts and another cancels, and a read of two       *)
(* workspaces that either may ask for.                                       *)
EXTENDS Approvals, TLC

CONSTANTS c1, c2

Trigger == [cap |-> "ci", on |-> "builds", stops |-> FALSE, perCall |-> TRUE]
Cancel  == [cap |-> "ci", on |-> "builds", stops |-> TRUE, perCall |-> TRUE]
Fleet(w) == [cap |-> "fleet", on |-> w, stops |-> FALSE, perCall |-> FALSE]

Wide  == <<Fleet("w1"), Fleet("w2")>>
Both  == (c1 :> {Wide, <<Cancel>>}) @@ (c2 :> {<<Trigger>>, <<Cancel>>})
==============================================================================
