------------------------ MODULE ReconnectGate_proofs -------------------------
(***************************************************************************)
(* The reconnect gate counts its slots right and implements the safety of   *)
(* DialLimit, for any finite set of watches and any number of slots.        *)
(***************************************************************************)
EXTENDS ReconnectGate, FiniteSetTheorems, TLAPS

(* Who stands in line: watches that wait for their turn, each once. *)
LineOK ==
  /\ \A i \in 1..Len(waiting) : at[waiting[i]] = "queued"
  /\ \A i, j \in 1..Len(waiting) : waiting[i] = waiting[j] => i = j

(* Only a watch that retries is in line or has been given a slot. *)
RetriesOnly == \A w \in Watches : at[w] \in {"queued", "granted"} => retry[w]

GateInv ==
  /\ TypeOK /\ LineOK /\ RetriesOnly
  /\ SlotsCounted /\ inFlight <= Max /\ LineMeansFull

(* The set of slot owners is finite, so that counting it makes sense. *)
LEMMA HoldersFinite == IsFiniteSet(Holders)
  BY FS_Subset, WatchesAssumption DEF Holders

(* Before the first watch no slot is out. *)
LEMMA InitGateInv == Init => GateInv
<1> SUFFICES ASSUME Init PROVE GateInv
  OBVIOUS
<1>1. Holders = {}
  BY DEF Init, Holders
<1>2. SlotsCounted
  BY <1>1, FS_EmptySet DEF Init, SlotsCounted
<1> QED
  BY <1>2, MaxAssumption DEF Init, GateInv, TypeOK, LineOK, RetriesOnly, LineMeansFull, Places

(* The first of the line leaves a line in which everybody stands once. *)
LEMMA TailOfLine ==
  ASSUME GateInv, waiting # <<>>
  PROVE  /\ Head(waiting) \in Watches
         /\ at[Head(waiting)] = "queued"
         /\ Tail(waiting) \in Seq(Watches)
         /\ \A i \in 1..Len(Tail(waiting)) :
              /\ Tail(waiting)[i] = waiting[i + 1] /\ i + 1 \in 1..Len(waiting)
              /\ Tail(waiting)[i] # Head(waiting)
<1> USE DEF GateInv, TypeOK, LineOK
<1>1. Len(waiting) \in Nat /\ Len(waiting) >= 1 /\ Head(waiting) = waiting[1]
  OBVIOUS
<1>2. Len(Tail(waiting)) = Len(waiting) - 1
  BY <1>1
<1>3. \A i \in 1..Len(Tail(waiting)) : Tail(waiting)[i] = waiting[i + 1] /\ i + 1 \in 1..Len(waiting)
  BY <1>1, <1>2
<1>4. \A i \in 1..Len(Tail(waiting)) : waiting[i + 1] # waiting[1]
  BY <1>1, <1>3
<1> QED
  BY <1>1, <1>3, <1>4

(* A watch that ends its poll gives back the slot it has and no other: it    *)
(* goes to the first of the line or back on the counter.                    *)
LEMMA GivesBackKeeps ==
  ASSUME GateInv, NEW w \in Watches, NEW p \in {"off", "parked", "sleeping"}, NEW b \in BOOLEAN,
         at[w] = "dialling", GivesBack(w, p), retry' = [retry EXCEPT ![w] = b]
  PROVE  GateInv'
<1> USE DEF GateInv
<1>0. IsFiniteSet(Holders) /\ Cardinality(Holders) = inFlight /\ inFlight \in Nat /\ Max \in Nat
  BY HoldersFinite, MaxAssumption DEF SlotsCounted, TypeOK
<1>1. CASE ~retry[w]
  <2>1. at' = [at EXCEPT ![w] = p] /\ UNCHANGED <<inFlight, waiting>>
    BY <1>1 DEF GivesBack
  <2>2. Holders' = Holders
    BY <1>1, <2>1 DEF Holders, TypeOK
  <2>3. TypeOK' /\ LineOK' /\ RetriesOnly'
    BY <2>1 DEF TypeOK, LineOK, RetriesOnly, Places
  <2> QED
    BY <2>1, <2>2, <2>3, <1>0 DEF SlotsCounted, LineMeansFull
<1>2. CASE retry[w] /\ waiting = <<>>
  <2>1. at' = [at EXCEPT ![w] = p] /\ inFlight' = inFlight - 1 /\ UNCHANGED waiting
    BY <1>2 DEF GivesBack, PassOn
  <2>2. w \in Holders /\ Holders' = Holders \ {w}
    BY <1>2, <2>1 DEF Holders, TypeOK
  <2>3. Cardinality(Holders') = inFlight' /\ inFlight' \in Nat
    <3>1. /\ IsFiniteSet(Holders \ {w})
          /\ Cardinality(Holders \ {w}) = inFlight - 1
      BY <1>0, <2>2, FS_RemoveElement
    <3>2. Cardinality(Holders \ {w}) \in Nat
      BY <3>1, FS_CardinalityType
    <3> QED
      BY <2>1, <2>2, <3>1, <3>2
  <2>4. TypeOK' /\ LineOK' /\ RetriesOnly'
    BY <1>2, <2>1, <2>3 DEF TypeOK, LineOK, RetriesOnly, Places
  <2> QED
    BY <1>0, <1>2, <2>1, <2>3, <2>4 DEF SlotsCounted, LineMeansFull
<1>3. CASE retry[w] /\ waiting # <<>>
  <2> DEFINE first == Head(waiting)
  <2>1. /\ at' = [at EXCEPT ![w] = p, ![first] = "granted"]
        /\ waiting' = Tail(waiting) /\ UNCHANGED inFlight
    BY <1>3 DEF GivesBack, PassOn
  <2>2. first \in Watches /\ at[first] = "queued" /\ retry[first] /\ first # w
    BY <1>3, TailOfLine DEF RetriesOnly
  <2> HIDE DEF first
  <2>3. w \in Holders /\ first \notin Holders /\ Holders' = (Holders \ {w}) \cup {first}
    BY <1>3, <2>1, <2>2 DEF Holders, TypeOK
  <2>4. IsFiniteSet(Holders \ {w}) /\ Cardinality(Holders \ {w}) = inFlight - 1
    BY <1>0, <2>3, FS_RemoveElement
  <2>5. Cardinality((Holders \ {w}) \cup {first}) = inFlight - 1 + 1
    BY <2>3, <2>4, FS_AddElement
  <2>6. SlotsCounted'
    BY <1>0, <2>1, <2>3, <2>5 DEF SlotsCounted
  <2>7. TypeOK'
    BY <1>3, <2>1, <2>2, TailOfLine DEF TypeOK, Places
  <2>8. \A i \in 1..Len(waiting') : at'[waiting'[i]] = "queued"
    <3> SUFFICES ASSUME NEW i \in 1..Len(waiting') PROVE at'[waiting'[i]] = "queued"
      OBVIOUS
    <3>1. /\ waiting'[i] = waiting[i + 1] /\ i + 1 \in 1..Len(waiting)
          /\ waiting'[i] # first
      BY <1>3, <2>1, TailOfLine DEF first
    <3>2. waiting'[i] \in Watches /\ at[waiting'[i]] = "queued"
      BY <3>1 DEF LineOK, TypeOK
    <3> QED
      BY <2>1, <2>2, <3>1, <3>2 DEF TypeOK
  <2>9. \A i, j \in 1..Len(waiting') : waiting'[i] = waiting'[j] => i = j
    BY <1>3, <2>1, TailOfLine DEF LineOK
  <2>10. RetriesOnly'
    BY <2>1, <2>2 DEF RetriesOnly, TypeOK
  <2> QED
    BY <1>3, <2>1, <2>6, <2>7, <2>8, <2>9, <2>10 DEF LineOK, LineMeansFull
<1> QED
  BY <1>1, <1>2, <1>3

(* A watch that asks for a slot takes a free one or the last place in line.  *)
LEMMA AcquireKeeps ==
  ASSUME GateInv, NEW w \in Watches, Acquire(w)
  PROVE  GateInv'
<1> USE DEF GateInv
<1>0. IsFiniteSet(Holders) /\ Cardinality(Holders) = inFlight /\ inFlight \in Nat /\ Max \in Nat
  BY HoldersFinite, MaxAssumption DEF SlotsCounted, TypeOK
<1>1. CASE SlotFree
  <2>1. inFlight' = inFlight + 1 /\ at' = [at EXCEPT ![w] = "granted"] /\ UNCHANGED <<waiting, retry>>
    BY <1>1 DEF Acquire
  <2>2. w \notin Holders /\ Holders' = Holders \cup {w}
    BY <2>1 DEF Acquire, Holders, TypeOK
  <2>3. Cardinality(Holders') = inFlight'
    BY <1>0, <2>1, <2>2, FS_AddElement
  <2>4. waiting = <<>>
    BY <1>0, <1>1 DEF SlotFree, LineMeansFull
  <2>5. TypeOK' /\ LineOK' /\ RetriesOnly'
    BY <2>1, <2>4 DEF Acquire, TypeOK, LineOK, RetriesOnly, Places
  <2> QED
    BY <1>0, <1>1, <2>1, <2>3, <2>4, <2>5 DEF SlotFree, SlotsCounted, LineMeansFull
<1>2. CASE ~SlotFree
  <2>1. /\ waiting' = Append(waiting, w) /\ at' = [at EXCEPT ![w] = "queued"]
        /\ UNCHANGED <<inFlight, retry>>
    BY <1>2 DEF Acquire
  <2>2. Holders' = Holders
    BY <2>1 DEF Acquire, Holders, TypeOK
  <2>3. TypeOK' /\ RetriesOnly'
    BY <2>1 DEF Acquire, TypeOK, RetriesOnly, Places
  <2>4. Len(waiting) \in Nat /\ \A i \in 1..Len(waiting) : waiting[i] \in Watches /\ waiting[i] # w
    BY DEF Acquire, LineOK, TypeOK
  <2>5. \A i \in 1..Len(waiting') : waiting'[i] = IF i = Len(waiting) + 1 THEN w ELSE waiting[i]
    BY <2>1, <2>4 DEF TypeOK
  <2>6. Len(waiting') = Len(waiting) + 1
    BY <2>1, <2>4 DEF TypeOK
  <2>7. LineOK'
    BY <2>1, <2>4, <2>5, <2>6 DEF LineOK, TypeOK
  <2> QED
    BY <1>0, <1>2, <2>1, <2>2, <2>3, <2>7 DEF SlotFree, SlotsCounted, LineMeansFull
<1> QED
  BY <1>1, <1>2

(* A watch that moves on without a call of the gate changes nothing there. *)
LEMMA MovesKeep ==
  ASSUME GateInv, NEW w \in Watches, Watch(w) \/ Unparks(w) \/ Polls(w) \/ Redials(w)
  PROVE  GateInv'
<1> USE DEF GateInv
<1>1. Holders' = Holders
  BY DEF Watch, Unparks, Polls, Redials, Holders, TypeOK, RetriesOnly
<1>2. UNCHANGED <<inFlight, waiting>>
  BY DEF Watch, Unparks, Polls, Redials
<1>3. TypeOK' /\ RetriesOnly'
  BY DEF Watch, Unparks, Polls, Redials, TypeOK, RetriesOnly, Places
<1>4. \A v \in Watches : at[v] = "queued" => at'[v] = "queued"
  BY DEF Watch, Unparks, Polls, Redials, TypeOK
<1>5. LineOK'
  BY <1>2, <1>4 DEF LineOK, TypeOK
<1> QED
  BY <1>1, <1>2, <1>3, <1>5 DEF SlotsCounted, LineMeansFull

(* Every step of the watches keeps the gate's invariant. *)
LEMMA NextGateInv == GateInv /\ [Next]_vars => GateInv'
<1> SUFFICES ASSUME GateInv, [Next]_vars PROVE GateInv'
  OBVIOUS
<1>1. CASE UNCHANGED vars
  BY <1>1 DEF vars, GateInv, TypeOK, LineOK, RetriesOnly, SlotsCounted, Holders, LineMeansFull
<1>2. ASSUME NEW w \in Watches, Watch(w) \/ Unparks(w) \/ Polls(w) \/ Redials(w) PROVE GateInv'
  BY <1>2, MovesKeep
<1>3. ASSUME NEW w \in Watches, Acquire(w) PROVE GateInv'
  BY <1>3, AcquireKeeps
<1>4. ASSUME NEW w \in Watches, Answered(w) \/ Fails(w) PROVE GateInv'
  BY <1>4, GivesBackKeeps DEF Answered, Fails
<1> QED
  BY <1>1, <1>2, <1>3, <1>4 DEF Next

(* At every moment the counter of the gate is the number of slots that are   *)
(* out: no failed poll, dispose or handover loses or duplicates one.        *)
THEOREM NoSlotIsLost == Spec => []SlotsCounted
<1>1. GateInv => SlotsCounted
  BY DEF GateInv
<1> QED
  BY <1>1, InitGateInv, NextGateInv, PTL DEF Spec

(* The gate's counter, its line and its watches keep their types (acquire,   *)
(* release, leave).                                                          *)
THEOREM GateTypes == Spec => []TypeOK
<1>1. GateInv => TypeOK
  BY DEF GateInv
<1> QED
  BY <1>1, InitGateInv, NextGateInv, PTL DEF Spec

(* Nobody waits for a slot while one is free (release hands it over).        *)
THEOREM NobodyWaitsForNothing == Spec => []LineMeansFull
<1>1. GateInv => LineMeansFull
  BY DEF GateInv
<1> QED
  BY <1>1, InitGateInv, NextGateInv, PTL DEF Spec

(* No more hosts redial at once than the cap allows. *)
THEOREM CapHolds == Spec => []AtMostMax
<1>1. GateInv => AtMostMax
  BY DEF GateInv, SlotsCounted, AtMostMax
<1> QED
  BY <1>1, InitGateInv, NextGateInv, PTL DEF Spec

(* A slot is handed to the first of the line and to nobody who came later.   *)
THEOREM InOrder == Spec => NoOvertaking
<1> DEFINE Fair(w) == at[w] # "granted" /\ at'[w] = "granted" => waiting = <<>> \/ w = Head(waiting)
<1>1. ASSUME GateInv, [Next]_vars, NEW v \in Watches PROVE Fair(v)
  <2> USE DEF GateInv
  <2>1. CASE UNCHANGED vars
    BY <1>1, <2>1 DEF vars
  <2>2. ASSUME NEW w \in Watches, Watch(w) \/ Unparks(w) \/ Polls(w) PROVE Fair(v)
    BY <1>1, <2>2 DEF Watch, Unparks, Polls, TypeOK
  <2>3. ASSUME NEW w \in Watches, Redials(w) PROVE Fair(v)
    BY <1>1, <2>3 DEF Redials, TypeOK
  <2>4. ASSUME NEW w \in Watches, Acquire(w) PROVE Fair(v)
    <3>1. inFlight < Max => waiting = <<>>
      BY <1>1, MaxAssumption DEF TypeOK, LineMeansFull
    <3> QED
      BY <1>1, <2>4, <3>1 DEF Acquire, SlotFree, TypeOK
  <2>5. ASSUME NEW w \in Watches, NEW p \in {"off", "parked", "sleeping"}, GivesBack(w, p)
        PROVE  Fair(v)
    BY <1>1, <2>5 DEF GivesBack, PassOn, TypeOK
  <2> QED
    BY <1>1, <2>1, <2>2, <2>3, <2>4, <2>5 DEF Next, Answered, Fails
<1>2. GateInv /\ [Next]_vars => [\A w \in Watches : Fair(w)]_vars
  BY <1>1
<1> QED
  BY <1>2, InitGateInv, NextGateInv, PTL DEF Spec, NoOvertaking

------------------------------------------------------------------------------
(* The refinement *)

(* A watch that waits or has a slot leaves the two sets of DialLimit as a    *)
(* whole: a step of the gate is one of its steps or changes neither set.     *)
LEMMA StepRefines ==
  ASSUME GateInv, [Next]_vars
  PROVE  [Limit!Next]_(Limit!vars)
<1> DEFINE wanting  == {w \in Watches : at[w] \in {"queued", "granted"}}
           dialling == {w \in Watches : at[w] = "dialling" /\ retry[w]}
<1> USE DEF GateInv
<1>1. CASE UNCHANGED vars
  BY <1>1 DEF vars, Limit!vars
<1>2. ASSUME NEW w \in Watches, Watch(w) \/ Unparks(w) \/ Polls(w)
      PROVE  wanting' = wanting /\ dialling' = dialling
  BY <1>2 DEF Watch, Unparks, Polls, TypeOK
<1>3. ASSUME NEW w \in Watches, Acquire(w) PROVE Limit!Ask(w)
  BY <1>3 DEF Acquire, TypeOK, Limit!Ask
<1>4. ASSUME NEW w \in Watches, Redials(w) PROVE Limit!Dial(w)
  <2>1. w \in wanting /\ wanting' = wanting \ {w} /\ dialling' = dialling \cup {w}
    BY <1>4 DEF Redials, TypeOK, RetriesOnly
  <2>2. w \in Holders /\ dialling \in SUBSET (Holders \ {w})
    BY <1>4 DEF Redials, Holders
  <2>3. /\ IsFiniteSet(Holders \ {w})
        /\ Cardinality(Holders \ {w}) = Cardinality(Holders) - 1
    BY <2>2, HoldersFinite, FS_RemoveElement
  <2>4. IsFiniteSet(dialling) /\ Cardinality(dialling) <= Cardinality(Holders \ {w})
    BY <2>2, <2>3, FS_Subset
  <2>5. Cardinality(dialling) \in Nat /\ Cardinality(Holders) = inFlight
    BY <2>4, FS_CardinalityType DEF SlotsCounted
  <2>6. Cardinality(dialling) < Max
    BY <2>3, <2>4, <2>5, MaxAssumption DEF TypeOK
  <2>7. Limit!Cardinality(dialling) < Max
    BY <2>6 DEF Cardinality, Limit!Cardinality
  <2> QED
    BY <2>1, <2>7 DEF Limit!Dial
<1>5. ASSUME NEW w \in Watches, NEW p \in {"off", "parked", "sleeping"}, NEW b \in BOOLEAN,
             at[w] = "dialling", GivesBack(w, p), retry' = [retry EXCEPT ![w] = b]
      PROVE  Limit!Done(w) \/ (wanting' = wanting /\ dialling' = dialling)
  <2>1. CASE ~retry[w]
    BY <1>5, <2>1 DEF GivesBack, TypeOK
  <2>2. CASE retry[w] /\ waiting = <<>>
    BY <1>5, <2>2 DEF GivesBack, PassOn, TypeOK, Limit!Done
  <2>3. CASE retry[w] /\ waiting # <<>>
    <3> DEFINE first == Head(waiting)
    <3>1. at' = [at EXCEPT ![w] = p, ![first] = "granted"]
      BY <1>5, <2>3 DEF GivesBack, PassOn
    <3>2. first \in Watches /\ at[first] = "queued" /\ first # w
      BY <1>5, <2>3, TailOfLine
    <3> HIDE DEF first
    <3> QED
      BY <1>5, <2>3, <3>1, <3>2 DEF TypeOK, Limit!Done
  <2> QED
    BY <2>1, <2>2, <2>3
<1> QED
  BY <1>1, <1>2, <1>3, <1>4, <1>5 DEF Next, Answered, Fails, Limit!Next, Limit!vars

(* The gate implements the cap that DialLimit states: every step of it is a  *)
(* step of DialLimit, or one DialLimit does not see.                        *)
THEOREM GateImplementsLimit == Spec => Limit!Spec
<1>1. Init => Limit!Init
  BY DEF Init, Limit!Init
<1>2. GateInv /\ [Next]_vars => [Limit!Next]_(Limit!vars)
  BY StepRefines
<1> QED
  BY <1>1, <1>2, InitGateInv, NextGateInv, PTL DEF Spec, Limit!Spec
==============================================================================
