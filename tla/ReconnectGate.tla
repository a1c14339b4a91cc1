----------------------------- MODULE ReconnectGate -----------------------------
(***************************************************************************)
(* The gate of the detached executor (class Gate in                        *)
(* src/main/services/jobDetached.ts) under the loops that use it: one      *)
(* watch() per host, of which only those whose last poll failed go through  *)
(* the gate before they dial again.                                        *)
(*                                                                         *)
(* acquire() and releaseOne() run in one turn of the event loop; the watch  *)
(* that was given a slot goes on in a later one, after its await.  Times    *)
(* are not modelled: a delay is a step that may be taken at any moment.     *)
(***************************************************************************)
EXTENDS Naturals, FiniteSets, Sequences

CONSTANTS
  Watches,  \* the hosts with a detached command
  Max       \* JOB_RECONNECT_GLOBAL_MAX, the gate's `max`

ASSUME WatchesAssumption == IsFiniteSet(Watches)
ASSUME MaxAssumption     == Max \in Nat \ {0}

VARIABLES
  inFlight,  \* Gate.inFlight
  waiting,   \* Gate.waiting, the watch that each resolver belongs to
  at,        \* where each watch is in its loop
  retry      \* attempts > 0: the watch's last poll failed

vars == <<inFlight, waiting, at, retry>>

(* "off": there is no watch.  "granted": acquire() has resolved and the     *)
(* watch has not gone on yet.                                               *)
Places == {"off", "parked", "sleeping", "queued", "granted", "dialling"}

TypeOK ==
  /\ inFlight \in Nat
  /\ waiting \in Seq(Watches)
  /\ at \in [Watches -> Places]
  /\ retry \in [Watches -> BOOLEAN]

Init ==
  /\ inFlight = 0
  /\ waiting = <<>>
  /\ at = [w \in Watches |-> "off"]
  /\ retry = [w \in Watches |-> FALSE]

(* A launch has answered, or reclaim() rejoins a marker: `attempts` is 0. *)
Watch(w) ==
  /\ at[w] = "off"
  /\ retry' = [retry EXCEPT ![w] = FALSE]
  /\ \E p \in {"parked", "sleeping"} : at' = [at EXCEPT ![w] = p]
  /\ UNCHANGED <<inFlight, waiting>>

(* The top of the loop after a wait for the vault: the run may be gone, the  *)
(* vault may be open.                                                       *)
Unparks(w) ==
  /\ at[w] = "parked"
  /\ \E p \in {"off", "sleeping"} : at' = [at EXCEPT ![w] = p]
  /\ UNCHANGED <<inFlight, waiting, retry>>

(* The poll of a watch in good standing does not go through the gate. *)
Polls(w) ==
  /\ at[w] = "sleeping" /\ ~retry[w]
  /\ at' = [at EXCEPT ![w] = "dialling"]
  /\ UNCHANGED <<inFlight, waiting, retry>>

SlotFree == inFlight < Max

(* acquire(): a slot if one is free, and a place in the line otherwise. *)
Acquire(w) ==
  /\ at[w] = "sleeping" /\ retry[w]
  /\ \/ /\ SlotFree
        /\ inFlight' = inFlight + 1
        /\ at' = [at EXCEPT ![w] = "granted"]
        /\ UNCHANGED waiting
     \/ /\ ~SlotFree
        /\ waiting' = Append(waiting, w)
        /\ at' = [at EXCEPT ![w] = "queued"]
        /\ UNCHANGED inFlight
  /\ UNCHANGED retry

(* The watch goes on with its slot and dials. *)
Redials(w) ==
  /\ at[w] = "granted"
  /\ at' = [at EXCEPT ![w] = "dialling"]
  /\ UNCHANGED <<inFlight, waiting, retry>>

PassOnAndFree(w, p) ==
  IF waiting = <<>>
  THEN inFlight' = inFlight - 1 /\ at' = [at EXCEPT ![w] = p] /\ UNCHANGED waiting
  ELSE /\ waiting' = Tail(waiting) /\ inFlight' = inFlight - 1
       /\ at' = [at EXCEPT ![w] = p, ![Head(waiting)] = "granted"]

PassOnToLast(w, p) ==
  IF waiting = <<>>
  THEN inFlight' = inFlight - 1 /\ at' = [at EXCEPT ![w] = p] /\ UNCHANGED waiting
  ELSE /\ waiting' = SubSeq(waiting, 1, Len(waiting) - 1) /\ UNCHANGED inFlight
       /\ at' = [at EXCEPT ![w] = p, ![waiting[Len(waiting)]] = "granted"]

PassOnNever(w, p) ==
  inFlight' = inFlight - 1 /\ at' = [at EXCEPT ![w] = p] /\ UNCHANGED waiting

(* releaseOne(), as the watch goes on to p: the slot is handed to the first  *)
(* in the line, and goes back on the counter only if nobody waits.           *)
PassOn(w, p) ==
  IF waiting = <<>>
  THEN inFlight' = inFlight - 1 /\ at' = [at EXCEPT ![w] = p] /\ UNCHANGED waiting
  ELSE /\ waiting' = Tail(waiting) /\ UNCHANGED inFlight
       /\ at' = [at EXCEPT ![w] = p, ![Head(waiting)] = "granted"]

(* The `finally` of the poll: a watch that went through the gate releases.   *)
GivesBack(w, p) ==
  IF retry[w] THEN PassOn(w, p)
  ELSE at' = [at EXCEPT ![w] = p] /\ UNCHANGED <<inFlight, waiting>>

(* The poll is answered: the watch has its verdict, or `attempts` is 0 and   *)
(* the loop goes on.                                                        *)
Answered(w) ==
  /\ at[w] = "dialling"
  /\ \E p \in {"off", "parked", "sleeping"} : GivesBack(w, p)
  /\ retry' = [retry EXCEPT ![w] = FALSE]

(* The poll failed, threw or timed out: `attempts` grows and the loop goes   *)
(* on, unless the run is gone.                                              *)
Fails(w) ==
  /\ at[w] = "dialling"
  /\ \E p \in {"off", "parked", "sleeping"} : GivesBack(w, p)
  /\ retry' = [retry EXCEPT ![w] = TRUE]

Next ==
  \E w \in Watches :
    Watch(w) \/ Unparks(w) \/ Polls(w) \/ Acquire(w) \/ Redials(w) \/ Answered(w) \/ Fails(w)

Spec == Init /\ [][Next]_vars

(* Continuations of resolved promises run, and a poll ends within            *)
(* pollTimeoutMs.                                                           *)
Fairness == \A w \in Watches : WF_vars(Redials(w)) /\ WF_vars(Answered(w) \/ Fails(w))

FairSpec == Spec /\ Fairness

------------------------------------------------------------------------------
(* Properties *)

(* The watches that own a slot: they were given one and have not ended the   *)
(* poll it was for.                                                         *)
Holders == {w \in Watches : at[w] = "granted" \/ (at[w] = "dialling" /\ retry[w])}

(* inFlight counts the slots that are out, through every handover: none is   *)
(* lost to a watch that throws or is told to stop, and none counted twice.   *)
SlotsCounted == inFlight = Cardinality(Holders)

(* "A global cap on hosts dialling at once": at most Max hosts redial. *)
AtMostMax == Cardinality(Holders) <= Max

(* Nobody stands in line while a slot is free. *)
LineMeansFull == waiting # <<>> => inFlight = Max

(* A host that arrives later does not "overtake one that has been waiting":  *)
(* whoever is given a slot is the first of the line, if there is one.        *)
NoOvertaking ==
  [][\A w \in Watches :
       at[w] # "granted" /\ at'[w] = "granted" => waiting = <<>> \/ w = Head(waiting)]_vars

(* The gate does what DialLimit promises; a watch wants to redial from its   *)
(* call of acquire() on.                                                    *)
Limit == INSTANCE DialLimit WITH
  wanting  <- {w \in Watches : at[w] \in {"queued", "granted"}},
  dialling <- {w \in Watches : at[w] = "dialling" /\ retry[w]}

(* The promise, with its fairness: fifteen hosts drain in order, none waits  *)
(* for ever behind the others' attempts.                                    *)
KeepsThePromise == Limit!FairSpec

==============================================================================
