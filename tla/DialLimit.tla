------------------------------ MODULE DialLimit ------------------------------
(***************************************************************************)
(* What the reconnect gate promises the watches of detached commands       *)
(* (src/main/services/jobDetached.ts, "A global cap on hosts dialling at    *)
(* once"): no more than Max of them redial at a time, and every one that    *)
(* wants to gets its turn.  How the turns are handed out is not said here.  *)
(***************************************************************************)
EXTENDS Naturals, FiniteSets

CONSTANTS
  Watches,  \* the watches of one executor, one per host
  Max       \* JOB_RECONNECT_GLOBAL_MAX

VARIABLES
  wanting,  \* watches that want to redial
  dialling  \* watches that are redialling

vars == <<wanting, dialling>>

Init == wanting = {} /\ dialling = {}

Ask(w) ==
  /\ w \notin wanting \cup dialling
  /\ wanting' = wanting \cup {w}
  /\ UNCHANGED dialling

Dial(w) ==
  /\ w \in wanting /\ Cardinality(dialling) < Max
  /\ wanting' = wanting \ {w}
  /\ dialling' = dialling \cup {w}

Done(w) ==
  /\ w \in dialling
  /\ dialling' = dialling \ {w}
  /\ UNCHANGED wanting

Next == \E w \in Watches : Ask(w) \/ Dial(w) \/ Done(w)

Spec == Init /\ [][Next]_vars

(* Strong fairness: others that dial again and again starve nobody. *)
FairSpec == Spec /\ \A w \in Watches : SF_vars(Dial(w))
==============================================================================
