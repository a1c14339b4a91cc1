------------------------- MODULE DeviceSync_proofs -------------------------
(***************************************************************************)
(* What is proved of DeviceSync for any devices and records, and however    *)
(* many edits and faults.                                                   *)
(***************************************************************************)
EXTENDS DeviceSync, TLAPS

(* What a pass that waits for a request has to ask with. *)
Ready(p) ==
  /\ p.at \in {"fresh", "put", "keep"} => p.body \in Docs
  /\ p.at \in {"put", "keep", "land"} => p.doc \in Docs

(* What a pass agreed to, and what it is about to agree to, is not below the *)
(* floor it was given.                                                       *)
AboveFloor(p) ==
  /\ p.entry.etag # 0 => p.entry.counter >= p.floor
  /\ p.at \in {"put", "keep", "land"} => p.counter >= Floor(p.entry, p.floor)

(* An agreement that was saved is at the floor, and the floor of a pass is    *)
(* the saved one, unless the state was forgotten since.                      *)
FloorIsSaved(d) ==
  /\ saved[d].entry.etag # 0 => saved[d].entry.counter = saved[d].floor
  /\ pass[d].at # "idle" /\ ~pass[d].forgot => pass[d].floor = saved[d].floor

IInv == TypeOK /\ \A d \in Devices : Ready(pass[d]) /\ AboveFloor(pass[d]) /\ FloorIsSaved(d)

(* A pass that goes on keeps its floor, and knows whether it was forgotten.  *)
Follows(d, p) ==
  /\ p \in PassStates /\ Ready(p) /\ AboveFloor(p)
  /\ p.floor = pass[d].floor /\ p.forgot = pass[d].forgot

------------------------------------------------------------------------------
(* The merge *)

(* mergeCollections(): what it does not refuse is the three-way merge: a     *)
(* record this side left alone is as the other side has it, and one that     *)
(* this side changed is as this side has it.                                 *)
THEOREM MergeIsThreeWay ==
  ASSUME NEW base \in Docs, NEW here \in Docs, NEW there \in Docs,
         Merges(base, here, there), NEW r \in Records
  PROVE  Merge(base, here, there)[r] = IF here[r] = base[r] THEN there[r] ELSE here[r]
<1>1. ~OverlapsAt(base, here, there, r)
  BY DEF Merges
<1>2. Merge(base, here, there)[r] = MergedAt(base, here, there, r)
  BY DEF Merge
<1> QED
  BY <1>1, <1>2, SMT DEF MergedAt, OverlapsAt, Changed, Gone

(* Two devices that merge the same copies from the same agreement, each from *)
(* its own side, get the same document: neither side is favoured.            *)
THEOREM MergeIsSymmetric ==
  ASSUME NEW base \in Docs, NEW here \in Docs, NEW there \in Docs
  PROVE  /\ Merges(base, here, there) <=> Merges(base, there, here)
         /\ Merges(base, here, there) => Merge(base, here, there) = Merge(base, there, here)
<1>1. ASSUME NEW r \in Records
      PROVE  OverlapsAt(base, here, there, r) <=> OverlapsAt(base, there, here, r)
  BY SMT DEF OverlapsAt, Changed, Gone
<1>2. ASSUME NEW r \in Records, ~OverlapsAt(base, here, there, r)
      PROVE  MergedAt(base, here, there, r) = MergedAt(base, there, here, r)
  BY <1>2, SMT DEF OverlapsAt, MergedAt, Changed, Gone
<1> QED
  BY <1>1, <1>2 DEF Merges, Merge

LEMMA MergeType ==
  ASSUME made \in Nat, NEW base \in Docs, NEW here \in Docs, NEW there \in Docs
  PROVE  Merge(base, here, there) \in Docs
  BY DEF Docs, Merge, MergedAt, Gone

------------------------------------------------------------------------------
(* The steps a pass is made of *)

LEMMA FloorIs ==
  ASSUME NEW m \in Nat, NEW n \in Nat
  PROVE  Bigger(m, n) \in Nat /\ Bigger(m, n) >= m /\ Bigger(m, n) >= n
  BY DEF Bigger

LEMMA PassParts ==
  ASSUME IInv, NEW d \in Devices
  PROVE  /\ pass[d] \in PassStates /\ pass[d].entry \in Entries /\ pass[d].floor \in Nat
         /\ pass[d].entry.counter \in Nat
         /\ PassFloor(d) \in Nat /\ PassFloor(d) >= pass[d].floor
         /\ made \in Nat /\ Ready(pass[d]) /\ AboveFloor(pass[d])
<1>1. pass[d] \in PassStates /\ pass[d].entry \in Entries /\ pass[d].floor \in Nat
      /\ pass[d].entry.counter \in Nat
  BY DEF IInv, TypeOK, PassStates, Entries
<1>2. PassFloor(d) \in Nat /\ PassFloor(d) >= pass[d].floor
  BY <1>1, FloorIs DEF PassFloor, Floor
<1>3. made \in Nat
  BY BoundsAssumption DEF IInv, TypeOK
<1> QED
  BY <1>1, <1>2, <1>3 DEF IInv

LEMMA ObjectParts ==
  ASSUME IInv, NEW i \in Tags, i # 0
  PROVE  i \in 1..Len(log) /\ log[i].doc \in Docs /\ log[i].counter \in Nat
<1> DEFINE Objects == [counter : Nat, doc : Docs]
<1>1. log \in Seq(Objects)
  BY DEF IInv, TypeOK
<1>2. i \in 1..Len(log)
  BY <1>1 DEF Tags
<1>3. log[i] \in Objects
  <2> HIDE DEF Objects
  <2> QED
    BY <1>1, <1>2
<1> QED
  BY <1>2, <1>3

LEMMA EmptyIsADoc == made \in Nat => Empty \in Docs
  BY DEF Empty, Docs, Gone

LEMMA EntryType ==
  ASSUME NEW etag \in Tags, NEW counter \in Nat, NEW doc \in Docs \cup {NoDoc}
  PROVE  /\ Entry(etag, counter, doc) \in Entries
         /\ Entry(etag, counter, doc).counter = counter /\ Entry(etag, counter, doc).etag = etag
  BY DEF Entry, Entries, Tags

LEMMA EndsFollows ==
  ASSUME IInv, NEW d \in Devices, NEW entry \in Entries,
         entry.etag # 0 => entry.counter >= pass[d].floor, Ends(d, entry)
  PROVE  \E p : Follows(d, p) /\ Goes(d, p)
<1> DEFINE p == [NoPass EXCEPT !.at = "save", !.entry = entry, !.floor = pass[d].floor,
                               !.forgot = pass[d].forgot]
<1>1. p \in PassStates /\ p.at = "save" /\ p.entry = entry /\ p.floor = pass[d].floor
      /\ p.forgot = pass[d].forgot
  <2>1. 0 \in Tags
    BY DEF IInv, TypeOK, Tags
  <2> QED
    BY <2>1, PassParts DEF NoPass, PassStates
<1>2. Follows(d, p)
  BY <1>1 DEF Follows, Ready, AboveFloor
<1> QED
  BY <1>2 DEF Ends

LEMMA FailsFollows ==
  ASSUME IInv, NEW d \in Devices, Fails(d)
  PROVE  \E p : Follows(d, p) /\ Goes(d, p)
  BY EndsFollows, PassParts DEF Fails, AboveFloor

LEMMA GoalFollows ==
  ASSUME IInv, NEW d \in Devices, NEW at \in {"put", "keep", "land"},
         NEW why \in {"create", "union", "push", "merge", "conflict", "first", "bulk", "pull", "noted"},
         NEW doc \in Docs, NEW counter \in Nat, NEW etag \in Tags,
         counter >= PassFloor(d), at # "land" => pass[d].body \in Docs,
         Goal(d, at, why, doc, counter, etag)
  PROVE  \E p : Follows(d, p) /\ Goes(d, p)
<1> DEFINE p == [pass[d] EXCEPT !.at = at, !.why = why, !.doc = doc, !.counter = counter, !.etag = etag]
<1>1. /\ p \in PassStates /\ p.at = at /\ p.entry = pass[d].entry /\ p.floor = pass[d].floor
      /\ p.forgot = pass[d].forgot /\ p.doc = doc /\ p.counter = counter /\ p.body = pass[d].body
  BY PassParts DEF PassStates
<1>2. Follows(d, p)
  BY <1>1, PassParts DEF Follows, Ready, AboveFloor, PassFloor
<1> QED
  BY <1>2 DEF Goal

LEMMA RereadsFollows ==
  ASSUME IInv, NEW d \in Devices, NEW why \in {"merge", "conflict"},
         pass[d].body \in Docs, Rereads(d, why)
  PROVE  \E p : Follows(d, p) /\ Goes(d, p)
<1> DEFINE p == [pass[d] EXCEPT !.at = "fresh", !.why = why]
<1>1. /\ p \in PassStates /\ p.at = "fresh" /\ p.entry = pass[d].entry /\ p.floor = pass[d].floor
      /\ p.forgot = pass[d].forgot /\ p.body = pass[d].body
  BY PassParts DEF PassStates
<1>2. Follows(d, p)
  BY <1>1, PassParts DEF Follows, Ready, AboveFloor
<1> QED
  BY <1>2 DEF Rereads

(* A step of a pass: what may change beside the pass, and what of it is kept. *)
LEMMA StepKeeps ==
  ASSUME IInv, NEW d \in Devices, pass[d].at # "idle",
         NEW p, p \in PassStates', Ready(p), AboveFloor(p),
         p.floor = pass[d].floor, p.forgot = pass[d].forgot, Goes(d, p),
         UNCHANGED <<saved, made, past>>, faults' \in 0..MaxFaults,
         log' \in Seq([counter : Nat, doc : Docs]), Len(log') >= Len(log),
         copies' \subseteq Docs, disk' \in [Devices -> Docs \cup {NoDoc}]
  PROVE  IInv'
<1>1. Docs' = Docs /\ Tags \subseteq Tags'
  <2>1. Len(log) \in Nat /\ Len(log') \in Nat
    <3> DEFINE Objects == [counter : Nat, doc : Docs]
    <3>1. log \in Seq(Objects) /\ log' \in Seq(Objects)
      BY DEF IInv, TypeOK
    <3> HIDE DEF Objects
    <3> QED
      BY <3>1
  <2> QED
    BY <2>1 DEF Docs, Tags
<1>2. Entries \subseteq Entries' /\ PassStates \subseteq PassStates'
  <2>1. Entries \subseteq Entries'
    BY <1>1 DEF Entries
  <2> QED
    BY <1>1, <2>1 DEF PassStates
<1>3. pass' \in [Devices -> PassStates']
  BY <1>2 DEF Goes, IInv, TypeOK
<1>4. saved' \in [Devices -> [entry : Entries', floor : Nat]]
  BY <1>2 DEF IInv, TypeOK
<1>5. TypeOK'
  BY <1>1, <1>3, <1>4 DEF IInv, TypeOK, past
<1>6. ASSUME NEW e \in Devices
      PROVE  Ready(pass[e])' /\ AboveFloor(pass[e])' /\ FloorIsSaved(e)'
  <2>1. CASE e = d
    <3>1. pass'[e] = p
      BY <2>1 DEF Goes, IInv, TypeOK
    <3> QED
      BY <1>1, <2>1, <3>1 DEF IInv, Ready, AboveFloor, FloorIsSaved
  <2>2. CASE e # d
    <3>1. pass'[e] = pass[e]
      BY <2>2 DEF Goes, IInv, TypeOK
    <3> QED
      BY <1>1, <3>1 DEF IInv, Ready, AboveFloor, FloorIsSaved
  <2> QED
    BY <2>1, <2>2
<1> QED
  BY <1>5, <1>6 DEF IInv

(* An answer changes the pass alone. *)
LEMMA AnswerKeeps ==
  ASSUME IInv, NEW d \in Devices, pass[d].at # "idle",
         \E p : Follows(d, p) /\ Goes(d, p),
         UNCHANGED <<relay, disk, saved, made, past>>, faults' \in 0..MaxFaults
  PROVE  IInv'
<1>1. PICK p : Follows(d, p) /\ Goes(d, p)
  OBVIOUS
<1>2. log' = log /\ copies' = copies /\ disk' = disk
  BY DEF relay
<1>3. PassStates' = PassStates
  BY <1>2 DEF PassStates, Entries, Docs, Tags
<1>4. /\ log' \in Seq([counter : Nat, doc : Docs]) /\ Len(log') >= Len(log)
      /\ copies' \subseteq Docs /\ disk' \in [Devices -> Docs \cup {NoDoc}]
  <2>1. Len(log) \in Nat
    <3> DEFINE Objects == [counter : Nat, doc : Docs]
    <3>1. log \in Seq(Objects)
      BY DEF IInv, TypeOK
    <3> HIDE DEF Objects
    <3> QED
      BY <3>1
  <2> QED
    BY <1>2, <2>1 DEF IInv, TypeOK
<1> QED
  BY <1>1, <1>3, <1>4, StepKeeps DEF Follows

LEMMA FaultsType ==
  ASSUME IInv
  PROVE  /\ Faulty => faults' \in 0..MaxFaults
         /\ UNCHANGED faults => faults' \in 0..MaxFaults
  BY BoundsAssumption DEF IInv, TypeOK, Faulty

LEMMA GotKeeps ==
  ASSUME IInv, NEW d \in Devices, Got(d)
  PROVE  IInv'
<1> DEFINE q == pass[d]
<1>1. q.at = "get" /\ UNCHANGED <<relay, disk, saved, made, past>>
  BY DEF Got
<1>2. PICK i \in Tags :
        /\ Answers(i)
        /\ IF i = 0 THEN GotNone(d)
           ELSE IF q.body # NoDoc /\ q.entry.known THEN GotKnown(d, i)
           ELSE IF Opens(d, i) THEN GotFirst(d, i)
           ELSE Fails(d)
  BY DEF Got
<1>3. faults' \in 0..MaxFaults
  BY <1>2, FaultsType DEF Answers
<1>4. /\ q.body \in Docs \cup {NoDoc} /\ 0 \in Tags
      /\ PassFloor(d) + 1 \in Nat /\ PassFloor(d) + 1 >= PassFloor(d)
  BY PassParts DEF PassStates, IInv, TypeOK, Tags
<1>5. \E p : Follows(d, p) /\ Goes(d, p)
  <2>1. CASE i = 0
    <3>1. CASE Fails(d)
      BY <3>1, FailsFollows
    <3>2. CASE q.body # NoDoc /\ Puts(d, "create", q.body, PassFloor(d) + 1, 0)
      BY <3>2, <1>4, GoalFollows DEF Puts
    <3> QED
      BY <1>2, <2>1, <3>1, <3>2 DEF GotNone
  <2>2. CASE i # 0 /\ q.body # NoDoc /\ q.entry.known
    <3>0. GotKnown(d, i) /\ log[i].doc \in Docs /\ log[i].counter \in Nat /\ q.body \in Docs
      BY <1>2, <1>4, <2>2, ObjectParts
    <3>1. CASE Fails(d)
      BY <3>1, FailsFollows
    <3>2. CASE Puts(d, "push", q.body, PassFloor(d) + 1, i)
      BY <3>0, <3>2, <1>4, GoalFollows DEF Puts
    <3>3. CASE Opens(d, i) /\ Pulls(d, i)
      <4>1. log[i].counter >= PassFloor(d)
        BY <3>3 DEF Opens
      <4>2. CASE Keeps(d, "bulk", i, log[i].counter)
        BY <3>0, <4>1, <4>2, GoalFollows DEF Keeps
      <4>3. CASE Lands(d, "pull", i, log[i].counter)
        BY <3>0, <4>1, <4>3, GoalFollows DEF Lands
      <4> QED
        BY <3>3, <4>2, <4>3 DEF Pulls
    <3>4. CASE Rereads(d, "merge")
      BY <3>0, <3>4, RereadsFollows
    <3> QED
      BY <3>0, <3>1, <3>2, <3>3, <3>4 DEF GotKnown
  <2>3. CASE i # 0 /\ ~(q.body # NoDoc /\ q.entry.known)
    <3>0. log[i].doc \in Docs /\ log[i].counter \in Nat
      BY <2>3, ObjectParts
    <3>1. CASE Fails(d)
      BY <3>1, FailsFollows
    <3>2. CASE Opens(d, i) /\ GotFirst(d, i)
      <4>1. log[i].counter >= PassFloor(d) /\ log[i].counter >= q.floor
        BY <3>0, <3>2, PassParts DEF Opens
      <4>2. CASE Ends(d, Entry(i, log[i].counter, log[i].doc))
        <5>1. /\ Entry(i, log[i].counter, log[i].doc) \in Entries
              /\ Entry(i, log[i].counter, log[i].doc).counter = log[i].counter
          BY <3>0, EntryType
        <5> QED
          BY <4>1, <4>2, <5>1, EndsFollows
      <4>3. CASE Lands(d, "pull", i, log[i].counter)
        BY <3>0, <4>1, <4>3, GoalFollows DEF Lands
      <4>4. CASE q.body # NoDoc /\ Puts(d, "union", Merge(Empty, q.body, log[i].doc), log[i].counter + 1, i)
        <5>1. Merge(Empty, q.body, log[i].doc) \in Docs
          BY <3>0, <4>4, <1>4, PassParts, EmptyIsADoc, MergeType
        <5>2. log[i].counter + 1 \in Nat /\ log[i].counter + 1 >= PassFloor(d)
          BY <3>0, <4>1, PassParts
        <5> QED
          BY <1>4, <4>4, <5>1, <5>2, GoalFollows DEF Puts
      <4>5. CASE q.body # NoDoc /\ Keeps(d, "first", i, log[i].counter)
        BY <1>4, <3>0, <4>1, <4>5, GoalFollows DEF Keeps
      <4> QED
        BY <3>2, <4>2, <4>3, <4>4, <4>5 DEF GotFirst
    <3> QED
      BY <1>2, <2>3, <3>1, <3>2
  <2> QED
    BY <2>1, <2>2, <2>3
<1> QED
  BY <1>1, <1>3, <1>5, AnswerKeeps

LEMMA FreshKeeps ==
  ASSUME IInv, NEW d \in Devices, Fresh(d)
  PROVE  IInv'
<1> DEFINE q == pass[d]
<1>1. q.at = "fresh" /\ UNCHANGED <<relay, disk, saved, made, past>> /\ q.body \in Docs
  BY PassParts DEF Fresh, Ready
<1>2. PICK i \in Tags :
        /\ Answers(i)
        /\ IF q.why = "merge" THEN GotToMerge(d, i) ELSE GotToConflict(d, i)
  BY DEF Fresh
<1>3. faults' \in 0..MaxFaults
  BY <1>2, FaultsType DEF Answers
<1>4. /\ 0 \in Tags /\ PassFloor(d) \in Nat /\ PassFloor(d) >= q.floor
      /\ PassFloor(d) + 1 \in Nat /\ PassFloor(d) + 1 >= PassFloor(d)
  BY PassParts DEF IInv, TypeOK, Tags
<1>5. ASSUME i # 0
      PROVE  /\ log[i].doc \in Docs /\ log[i].counter \in Nat
             /\ Bigger(log[i].counter, PassFloor(d)) \in Nat
             /\ Bigger(log[i].counter, PassFloor(d)) >= PassFloor(d)
             /\ Bigger(log[i].counter, PassFloor(d)) >= q.floor
  <2>1. log[i].doc \in Docs /\ log[i].counter \in Nat
    BY <1>5, ObjectParts
  <2>2. /\ Bigger(log[i].counter, PassFloor(d)) \in Nat
        /\ Bigger(log[i].counter, PassFloor(d)) >= PassFloor(d)
    BY <2>1, <1>4, FloorIs
  <2> QED
    BY <2>1, <2>2, <1>4, PassParts
<1>6. ASSUME GotToMerge(d, i)
      PROVE  \E p : Follows(d, p) /\ Goes(d, p)
  <2> DEFINE counter == Bigger(log[i].counter, PassFloor(d)) + 1
  <2>1. CASE Rereads(d, "conflict")
    BY <2>1, <1>1, RereadsFollows
  <2>2. CASE i # 0 /\ Opens(d, i) /\ Ends(d, Entry(i, log[i].counter, q.body))
    <3>1. /\ Entry(i, log[i].counter, q.body) \in Entries
          /\ Entry(i, log[i].counter, q.body).counter = log[i].counter
      BY <1>1, <1>5, <2>2, EntryType
    <3>2. log[i].counter >= q.floor
      BY <1>4, <1>5, <2>2, PassParts DEF Opens
    <3> QED
      BY <2>2, <3>1, <3>2, EndsFollows
  <2>3. CASE i # 0 /\ Puts(d, "conflict", q.body, counter, i)
    <3>1. counter \in Nat /\ counter >= PassFloor(d)
      BY <1>4, <1>5, <2>3
    <3> QED
      BY <1>1, <2>3, <3>1, GoalFollows DEF Puts
  <2>4. CASE /\ i # 0 /\ Merges(q.entry.doc, q.body, log[i].doc)
             /\ Puts(d, "merge", Merge(q.entry.doc, q.body, log[i].doc), counter, i)
    <3>1. counter \in Nat /\ counter >= PassFloor(d)
      BY <1>4, <1>5, <2>4
    <3>2. q.entry.doc \in Docs
      BY <2>4, PassParts DEF Entries, Merges
    <3>3. Merge(q.entry.doc, q.body, log[i].doc) \in Docs
      BY <1>1, <1>5, <2>4, <3>2, PassParts, MergeType
    <3> QED
      BY <1>1, <2>4, <3>1, <3>3, GoalFollows DEF Puts
  <2> QED
    BY <1>6, <2>1, <2>2, <2>3, <2>4 DEF GotToMerge
<1>7. ASSUME GotToConflict(d, i)
      PROVE  \E p : Follows(d, p) /\ Goes(d, p)
  <2> DEFINE counter == Bigger(log[i].counter, PassFloor(d))
  <2>1. CASE Puts(d, "conflict", q.body, PassFloor(d) + 1, 0)
    BY <1>1, <1>4, <2>1, GoalFollows DEF Puts
  <2>2. CASE Fails(d)
    BY <2>2, FailsFollows
  <2>3. CASE i # 0 /\ Ends(d, Entry(i, counter, q.body))
    <3>1. /\ Entry(i, counter, q.body) \in Entries
          /\ Entry(i, counter, q.body).counter = counter
      BY <1>1, <1>5, <2>3, EntryType
    <3> QED
      BY <1>5, <2>3, <3>1, EndsFollows
  <2>4. CASE i # 0 /\ Keeps(d, "conflict", i, counter)
    BY <1>1, <1>5, <2>4, GoalFollows DEF Keeps
  <2>5. CASE i # 0 /\ Lands(d, "noted", i, counter)
    BY <1>1, <1>5, <2>5, GoalFollows DEF Lands
  <2> QED
    BY <1>7, <2>1, <2>2, <2>3, <2>4, <2>5 DEF GotToConflict
<1> QED
  BY <1>1, <1>2, <1>3, <1>6, <1>7, AnswerKeeps

(* What is put becomes the account's copy. *)
LEMMA GivenType ==
  ASSUME IInv, NEW d \in Devices, pass[d].at = "put", Given(d)
  PROVE  /\ log' \in Seq([counter : Nat, doc : Docs]) /\ Len(log') = Len(log) + 1
         /\ Len(log) \in Nat
<1> DEFINE Objects == [counter : Nat, doc : Docs]
           object == [counter |-> pass[d].counter, doc |-> pass[d].doc]
<1>1. log \in Seq(Objects)
  BY DEF IInv, TypeOK
<1>2. object \in Objects
  BY PassParts DEF Ready, PassStates
<1>3. log' = Append(log, object)
  BY DEF Given
<1> HIDE DEF Objects, object
<1>4. log' \in Seq(Objects) /\ Len(log') = Len(log) + 1 /\ Len(log) \in Nat
  BY <1>1, <1>2, <1>3
<1> QED
  BY <1>4 DEF Objects

LEMMA LogType ==
  ASSUME IInv
  PROVE  log \in Seq([counter : Nat, doc : Docs]) /\ Len(log) \in Nat /\ Len(log) >= Len(log)
<1> DEFINE Objects == [counter : Nat, doc : Docs]
<1>1. log \in Seq(Objects)
  BY DEF IInv, TypeOK
<1> HIDE DEF Objects
<1>2. Len(log) \in Nat
  BY <1>1
<1> QED
  BY <1>1, <1>2 DEF Objects

LEMMA PutKeeps ==
  ASSUME IInv, NEW d \in Devices, Put(d)
  PROVE  IInv'
<1> DEFINE q == pass[d]
           etag == Len(log) + 1
<1>1. /\ q.at = "put" /\ UNCHANGED <<copies, disk, saved, made, faults, past>>
      /\ q.body \in Docs /\ q.doc \in Docs
  BY PassParts DEF Put, Ready
<1>2. /\ copies' \subseteq Docs /\ disk' \in [Devices -> Docs \cup {NoDoc}]
      /\ faults' \in 0..MaxFaults
  BY <1>1 DEF IInv, TypeOK
<1>3. CASE Accepted(d)
  <2>0. Given(d)
    BY <1>3 DEF Put
  <2>1. /\ log' \in Seq([counter : Nat, doc : Docs]) /\ Len(log') = etag /\ Len(log) \in Nat
        /\ Len(log') >= Len(log)
    <3>1. /\ log' \in Seq([counter : Nat, doc : Docs]) /\ Len(log') = Len(log) + 1
          /\ Len(log) \in Nat
      BY <1>1, <2>0, GivenType
    <3>2. Len(log') >= Len(log)
      BY <3>1
    <3> QED
      BY <3>1, <3>2
  <2>2. Docs' = Docs /\ Tags \subseteq Tags' /\ etag \in Tags' /\ 0 \in Tags'
    BY <1>1, <2>1 DEF Docs, Tags
  <2>3. /\ q.counter \in Nat /\ q.counter >= PassFloor(d) /\ q.counter >= q.floor
        /\ q.floor \in Nat /\ q.forgot \in BOOLEAN
    BY <1>1, PassParts DEF PassStates, AboveFloor, PassFloor
  <2>4. CASE Goes(d, [q EXCEPT !.at = "land", !.etag = etag])
    <3> DEFINE p == [q EXCEPT !.at = "land", !.etag = etag]
    <3>0. Entries \subseteq Entries'
      BY <2>2 DEF Entries
    <3>1. /\ p \in PassStates' /\ p.at = "land" /\ p.entry = q.entry /\ p.floor = q.floor
          /\ p.forgot = q.forgot /\ p.counter = q.counter /\ p.doc = q.doc
      BY <2>2, <3>0, PassParts DEF PassStates
    <3>2. Ready(p) /\ AboveFloor(p)
      BY <1>1, <2>3, <3>1, PassParts DEF Ready, AboveFloor, PassFloor
    <3> HIDE DEF p
    <3> QED
      BY <1>1, <1>2, <2>1, <2>4, <3>1, <3>2, StepKeeps DEF p
  <2>5. CASE Ends(d, Entry(etag, q.counter, q.body))
    <3> DEFINE entry == Entry(etag, q.counter, q.body)
               p == [NoPass EXCEPT !.at = "save", !.entry = entry, !.floor = q.floor,
                                   !.forgot = q.forgot]
    <3>1. entry \in Entries' /\ entry.counter = q.counter
      BY <1>1, <2>2, <2>3 DEF Entry, Entries
    <3>2. /\ p \in PassStates' /\ p.at = "save" /\ p.entry = entry /\ p.floor = q.floor
          /\ p.forgot = q.forgot
      <4> HIDE DEF entry
      <4> QED
        BY <2>2, <2>3, <3>1 DEF NoPass, PassStates
    <3>3. Ready(p) /\ AboveFloor(p)
      BY <2>3, <3>1, <3>2 DEF Ready, AboveFloor
    <3>4. Goes(d, p)
      BY <2>5 DEF Ends
    <3> HIDE DEF p
    <3> QED
      BY <1>1, <1>2, <2>1, <3>2, <3>3, <3>4, StepKeeps
  <2> QED
    BY <1>3, <2>4, <2>5 DEF Put
<1>4. CASE UNCHANGED log /\ (Rereads(d, "conflict") \/ Rereads(d, "merge") \/ Fails(d))
  <2>1. \E p : Follows(d, p) /\ Goes(d, p)
    BY <1>1, <1>4, RereadsFollows, FailsFollows
  <2>2. UNCHANGED relay
    BY <1>1, <1>4 DEF relay
  <2> QED
    BY <1>1, <1>2, <2>1, <2>2, AnswerKeeps
<1> QED
  BY <1>3, <1>4 DEF Put

LEMMA KeepKeeps ==
  ASSUME IInv, NEW d \in Devices, Keep(d)
  PROVE  IInv'
<1> DEFINE q == pass[d]
           entry == IF q.why = "first" THEN q.entry ELSE [q.entry EXCEPT !.known = TRUE, !.copied = q.etag]
           p == [q EXCEPT !.at = "land", !.entry = entry]
<1>1. /\ q.at = "keep" /\ UNCHANGED <<log, disk, saved, made, faults, past>>
      /\ q.body \in Docs /\ q.doc \in Docs /\ copies' = copies \cup {q.body}
  BY PassParts DEF Keep, Ready
<1>2. /\ copies' \subseteq Docs /\ disk' \in [Devices -> Docs \cup {NoDoc}]
      /\ faults' \in 0..MaxFaults
  BY <1>1 DEF IInv, TypeOK
<1>3. log' \in Seq([counter : Nat, doc : Docs]) /\ Len(log') >= Len(log)
  BY <1>1, LogType
<1>4. PassStates' = PassStates
  BY <1>1 DEF PassStates, Entries, Docs, Tags
<1>5. q.etag \in Tags /\ entry \in Entries /\ entry.etag = q.entry.etag /\ entry.counter = q.entry.counter
  BY PassParts DEF PassStates, Entries
<1>6. Goes(d, p)
  BY DEF Keep
<1>7. /\ p \in PassStates /\ p.at = "land" /\ p.entry = entry /\ p.floor = q.floor
      /\ p.forgot = q.forgot /\ p.counter = q.counter /\ p.doc = q.doc
  <2> HIDE DEF entry
  <2> QED
    BY <1>5, PassParts DEF PassStates
<1>8. Ready(p) /\ AboveFloor(p)
  <2> HIDE DEF entry, p
  <2> QED
    BY <1>1, <1>5, <1>7, PassParts DEF Ready, AboveFloor, Floor
<1> HIDE DEF p
<1> QED
  BY <1>1, <1>2, <1>3, <1>4, <1>6, <1>7, <1>8, StepKeeps

LEMMA LandKeeps ==
  ASSUME IInv, NEW d \in Devices, Land(d)
  PROVE  IInv'
<1> DEFINE q == pass[d]
           agreed == Entry(q.etag, q.counter, q.doc)
           entry == IF q.why = "bulk" THEN [agreed EXCEPT !.copied = q.etag] ELSE agreed
<1>1. /\ q.at = "land" /\ UNCHANGED <<relay, saved, made, past>> /\ q.doc \in Docs
      /\ q.counter \in Nat /\ q.counter >= PassFloor(d) /\ q.counter >= q.floor /\ q.etag \in Tags
  BY PassParts DEF Land, Ready, PassStates, AboveFloor, PassFloor
<1>2. CASE disk' = [disk EXCEPT ![d] = q.doc] /\ Ends(d, entry) /\ UNCHANGED faults
  <2>1. entry \in Entries /\ entry.counter = q.counter
    <3>1. agreed \in Entries /\ agreed.counter = q.counter
      BY <1>1, EntryType
    <3> HIDE DEF agreed
    <3> QED
      BY <1>1, <3>1 DEF Entries
  <2>2. PICK p : Follows(d, p) /\ Goes(d, p)
    <3> HIDE DEF entry
    <3> QED
      BY <1>1, <1>2, <2>1, EndsFollows
  <2>3. log' = log /\ copies' = copies
    BY <1>1 DEF relay
  <2>4. log' \in Seq([counter : Nat, doc : Docs]) /\ Len(log') >= Len(log)
    BY <2>3, LogType
  <2>5. copies' \subseteq Docs /\ disk' \in [Devices -> Docs \cup {NoDoc}] /\ faults' \in 0..MaxFaults
    BY <1>1, <1>2, <2>3 DEF IInv, TypeOK
  <2>6. PassStates' = PassStates
    BY <1>1, <2>3 DEF PassStates, Entries, Docs, Tags
  <2> QED
    BY <1>1, <2>2, <2>4, <2>5, <2>6, StepKeeps DEF Follows
<1>3. CASE Faulty /\ UNCHANGED disk /\ Fails(d)
  BY <1>1, <1>3, FaultsType, FailsFollows, AnswerKeeps
<1> QED
  BY <1>2, <1>3 DEF Land

(* A pass begins over the state and the file as they are. *)
LEMMA BeginKeeps ==
  ASSUME IInv, NEW d \in Devices, Begin(d)
  PROVE  IInv'
<1> DEFINE p == [NoPass EXCEPT !.at = "get", !.body = disk[d], !.entry = saved[d].entry,
                               !.floor = saved[d].floor]
<1>1. /\ UNCHANGED <<relay, disk, saved, made, faults, replaced>> /\ Goes(d, p)
      /\ read' = read \cup Versions(disk[d])
  BY DEF Begin
<1>2. /\ saved[d].entry \in Entries /\ saved[d].floor \in Nat /\ disk[d] \in Docs \cup {NoDoc}
      /\ 0 \in Tags /\ saved[d].entry.counter \in Nat
  BY LogType DEF IInv, TypeOK, Tags, Entries
<1>3. /\ p \in PassStates /\ p.at = "get" /\ p.entry = saved[d].entry
      /\ p.floor = saved[d].floor
  BY <1>2 DEF NoPass, PassStates
<1>4. Docs' = Docs /\ Tags' = Tags /\ Entries' = Entries /\ PassStates' = PassStates
  BY <1>1 DEF Docs, Tags, Entries, PassStates, relay
<1>5. Versions(disk[d]) \subseteq 1..made
  BY <1>2, PassParts DEF Versions, Docs, NoDoc, Gone
<1>6. pass' = [pass EXCEPT ![d] = p]
  BY <1>1 DEF Goes
<1>7. TypeOK'
  <2> HIDE DEF p
  <2> QED
    BY <1>1, <1>3, <1>4, <1>5, <1>6 DEF IInv, TypeOK, relay
<1>8. ASSUME NEW e \in Devices
      PROVE  Ready(pass[e])' /\ AboveFloor(pass[e])' /\ FloorIsSaved(e)'
  <2> HIDE DEF p
  <2>1. CASE e = d
    <3>1. pass'[e] = p
      BY <1>6, <2>1 DEF IInv, TypeOK
    <3>2. saved[d].entry.etag # 0 => saved[d].entry.counter >= saved[d].floor
      BY <1>2 DEF IInv, FloorIsSaved
    <3> QED
      BY <1>1, <1>3, <2>1, <3>1, <3>2 DEF IInv, Ready, AboveFloor, FloorIsSaved
  <2>2. CASE e # d
    <3>1. pass'[e] = pass[e]
      BY <1>6, <2>2 DEF IInv, TypeOK
    <3> QED
      BY <1>1, <1>4, <3>1 DEF IInv, Ready, AboveFloor, FloorIsSaved
  <2> QED
    BY <2>1, <2>2
<1> QED
  BY <1>7, <1>8 DEF IInv

LEMMA NoPassType ==
  ASSUME IInv
  PROVE  NoPass \in PassStates /\ Ready(NoPass) /\ AboveFloor(NoPass) /\ NoPass.at = "idle"
<1>1. 0 \in Tags
  BY LogType DEF Tags
<1>2. NoEntry \in Entries /\ NoEntry.etag = 0
  BY <1>1 DEF NoEntry, Entries
<1> QED
  BY <1>1, <1>2 DEF NoPass, PassStates, Ready, AboveFloor

(* The pass is over, its state saved or lost. *)
LEMMA PassOver ==
  ASSUME IInv, NEW d \in Devices, Goes(d, NoPass),
         UNCHANGED <<relay, disk, made, past>>, faults' \in 0..MaxFaults,
         saved' \in [Devices -> [entry : Entries, floor : Nat]],
         \A e \in Devices \ {d} : saved'[e] = saved[e],
         saved'[d].floor >= saved'[d].entry.counter,
         saved'[d].entry.etag # 0 => saved'[d].entry.counter = saved'[d].floor
  PROVE  IInv'
<1>1. Docs' = Docs /\ Tags' = Tags /\ Entries' = Entries /\ PassStates' = PassStates
  BY DEF Docs, Tags, Entries, PassStates, relay
<1>2. pass' = [pass EXCEPT ![d] = NoPass]
  BY DEF Goes
<1>3. TypeOK'
  BY <1>1, <1>2, NoPassType DEF IInv, TypeOK, relay, past
<1>4. ASSUME NEW e \in Devices
      PROVE  Ready(pass[e])' /\ AboveFloor(pass[e])' /\ FloorIsSaved(e)'
  <2>1. CASE e = d
    <3>1. pass'[e] = NoPass
      BY <1>2, <2>1 DEF IInv, TypeOK
    <3> QED
      BY <1>1, <2>1, <3>1, NoPassType DEF Ready, AboveFloor, FloorIsSaved
  <2>2. CASE e # d
    <3>1. pass'[e] = pass[e]
      BY <1>2, <2>2 DEF IInv, TypeOK
    <3> QED
      BY <1>1, <2>2, <3>1 DEF IInv, Ready, AboveFloor, FloorIsSaved
  <2> QED
    BY <2>1, <2>2
<1> QED
  BY <1>3, <1>4 DEF IInv

(* What a pass that was not forgotten saves. *)
LEMMA SaveParts ==
  ASSUME IInv, NEW d \in Devices, Save(d), ~pass[d].forgot
  PROVE  /\ saved' = [saved EXCEPT ![d] = [entry |-> pass[d].entry, floor |-> PassFloor(d)]]
         /\ pass[d].floor = saved[d].floor
         /\ pass[d].entry \in Entries /\ PassFloor(d) \in Nat
         /\ PassFloor(d) >= saved[d].floor /\ PassFloor(d) >= pass[d].entry.counter
         /\ pass[d].entry.etag # 0 => /\ pass[d].entry.counter = PassFloor(d)
                                      /\ pass[d].entry.counter >= saved[d].floor
<1>1. /\ saved' = [saved EXCEPT ![d] = [entry |-> pass[d].entry, floor |-> PassFloor(d)]]
      /\ pass[d].floor = saved[d].floor
  BY DEF Save, IInv, FloorIsSaved
<1>2. /\ pass[d].entry.etag # 0 => pass[d].entry.counter >= pass[d].floor
      /\ PassFloor(d) = Bigger(pass[d].entry.counter, pass[d].floor)
  BY PassParts DEF AboveFloor, PassFloor, Floor
<1> QED
  BY <1>1, <1>2, PassParts, FloorIs DEF Bigger

LEMMA SaveKeeps ==
  ASSUME IInv, NEW d \in Devices, Save(d)
  PROVE  IInv'
<1>1. Goes(d, NoPass) /\ UNCHANGED <<relay, disk, made, faults, past>>
  BY DEF Save
<1>2. faults' \in 0..MaxFaults
  BY <1>1, FaultsType
<1>3. CASE pass[d].forgot
  <2>1. saved' = saved
    BY <1>3 DEF Save
  <2> QED
    BY <1>1, <1>2, <2>1, PassOver DEF IInv, TypeOK, FloorIsSaved
<1>4. CASE ~pass[d].forgot
  <2>1. /\ saved'[d] = [entry |-> pass[d].entry, floor |-> PassFloor(d)]
        /\ \A e \in Devices \ {d} : saved'[e] = saved[e]
        /\ saved' \in [Devices -> [entry : Entries, floor : Nat]]
    <3>1. saved \in [Devices -> [entry : Entries, floor : Nat]]
      BY DEF IInv, TypeOK
    <3>2. /\ saved' = [saved EXCEPT ![d] = [entry |-> pass[d].entry, floor |-> PassFloor(d)]]
          /\ [entry |-> pass[d].entry, floor |-> PassFloor(d)] \in [entry : Entries, floor : Nat]
      BY <1>4, SaveParts
    <3> QED
      BY <3>1, <3>2
  <2> QED
    BY <1>1, <1>2, <1>4, <2>1, SaveParts, PassOver
<1> QED
  BY <1>3, <1>4

LEMMA CrashKeeps ==
  ASSUME IInv, NEW d \in Devices, Crash(d)
  PROVE  IInv'
  BY FaultsType, PassOver DEF Crash, IInv, TypeOK, FloorIsSaved

LEMMA LostKeeps ==
  ASSUME IInv, NEW d \in Devices, Lost(d)
  PROVE  IInv'
<1>1. /\ UNCHANGED <<disk, saved, made, past>> /\ Fails(d) /\ faults' \in 0..MaxFaults
      /\ pass[d].at # "idle"
  BY FaultsType DEF Lost
<1>2. CASE UNCHANGED relay
  BY <1>1, <1>2, FailsFollows, AnswerKeeps
<1>3. PICK p : Follows(d, p) /\ Goes(d, p)
  BY <1>1, FailsFollows
<1>4. /\ disk' \in [Devices -> Docs \cup {NoDoc}] /\ copies \subseteq Docs /\ Docs' = Docs
  BY <1>1 DEF IInv, TypeOK, Docs
<1>5. CASE pass[d].at = "put" /\ Given(d) /\ UNCHANGED copies
  <2>1. /\ log' \in Seq([counter : Nat, doc : Docs]) /\ Len(log') = Len(log) + 1
        /\ Len(log) \in Nat
    BY <1>5, GivenType
  <2>2. Len(log') >= Len(log) /\ Tags \subseteq Tags'
    BY <2>1 DEF Tags
  <2>3. Entries \subseteq Entries'
    BY <1>4, <2>2 DEF Entries
  <2>4. PassStates \subseteq PassStates'
    BY <1>4, <2>2, <2>3 DEF PassStates
  <2> QED
    BY <1>1, <1>3, <1>4, <1>5, <2>1, <2>2, <2>4, StepKeeps DEF Follows
<1>6. CASE pass[d].at = "keep" /\ copies' = copies \cup {pass[d].body} /\ UNCHANGED log
  <2>1. copies' \subseteq Docs
    BY <1>4, <1>6, PassParts DEF Ready
  <2>2. log' \in Seq([counter : Nat, doc : Docs]) /\ Len(log') >= Len(log)
    BY <1>6, LogType
  <2>3. PassStates' = PassStates
    BY <1>4, <1>6 DEF PassStates, Entries, Tags
  <2> QED
    BY <1>1, <1>3, <1>4, <2>1, <2>2, <2>3, StepKeeps DEF Follows
<1> QED
  BY <1>2, <1>5, <1>6 DEF Lost

(* The floor stays when the agreement is forgotten. *)
LEMMA ForgetKeeps ==
  ASSUME IInv, NEW d \in Devices, Forget(d)
  PROVE  /\ IInv'
         /\ saved'[d].entry.etag = 0 /\ saved'[d].floor >= saved[d].floor
         /\ \A e \in Devices \ {d} : saved'[e] = saved[e]
<1> DEFINE floor == Floor(saved[d].entry, saved[d].floor)
           p == [pass[d] EXCEPT !.forgot = pass[d].at # "idle"]
<1>1. /\ UNCHANGED <<relay, disk, made, past>> /\ faults' \in 0..MaxFaults
      /\ saved' = [saved EXCEPT ![d] = [entry |-> NoEntry, floor |-> floor]]
      /\ pass' = [pass EXCEPT ![d] = p]
  BY FaultsType DEF Forget
<1>2. /\ saved \in [Devices -> [entry : Entries, floor : Nat]]
      /\ saved[d].entry.counter \in Nat /\ saved[d].floor \in Nat
  BY DEF IInv, TypeOK, Entries
<1>3. floor \in Nat /\ floor >= saved[d].floor
  BY <1>2, FloorIs DEF Floor
<1>4. NoEntry \in Entries /\ NoEntry.etag = 0 /\ NoEntry.counter = 0
  BY LogType DEF NoEntry, Entries, Tags
<1> HIDE DEF floor
<1>5. /\ saved' \in [Devices -> [entry : Entries, floor : Nat]]
      /\ saved'[d] = [entry |-> NoEntry, floor |-> floor]
      /\ \A e \in Devices \ {d} : saved'[e] = saved[e]
  BY <1>1, <1>2, <1>3, <1>4
<1>6. /\ p \in PassStates /\ Ready(p) /\ AboveFloor(p) /\ p.at = pass[d].at
      /\ p.at # "idle" => p.forgot
  BY PassParts DEF PassStates, Ready, AboveFloor
<1>7. Docs' = Docs /\ Tags' = Tags /\ Entries' = Entries /\ PassStates' = PassStates
  BY <1>1 DEF Docs, Tags, Entries, PassStates, relay
<1> HIDE DEF p
<1>8. TypeOK'
  <2>1. \A e \in Devices : saved'[e].floor >= saved'[e].entry.counter
    BY <1>3, <1>4, <1>5 DEF IInv, TypeOK
  <2>2. pass' \in [Devices -> PassStates']
    BY <1>1, <1>6, <1>7 DEF IInv, TypeOK
  <2> QED
    BY <1>1, <1>5, <1>7, <2>1, <2>2 DEF IInv, TypeOK, relay, past
<1>9. ASSUME NEW e \in Devices
      PROVE  Ready(pass[e])' /\ AboveFloor(pass[e])' /\ FloorIsSaved(e)'
  <2>1. CASE e = d
    <3>1. pass'[e] = p
      BY <1>1, <2>1 DEF IInv, TypeOK
    <3> QED
      BY <1>4, <1>5, <1>6, <1>7, <2>1, <3>1 DEF Ready, AboveFloor, FloorIsSaved
  <2>2. CASE e # d
    <3>1. pass'[e] = pass[e]
      BY <1>1, <2>2 DEF IInv, TypeOK
    <3> QED
      BY <1>5, <1>7, <2>2, <3>1 DEF IInv, Ready, AboveFloor, FloorIsSaved
  <2> QED
    BY <2>1, <2>2
<1> QED
  BY <1>3, <1>4, <1>5, <1>8, <1>9 DEF IInv

(* An edit makes one version more; what was made before stays what it was. *)
LEMMA EditKeeps ==
  ASSUME IInv, NEW d \in Devices, NEW r \in Records, NEW v \in 0..MaxEdits, Edit(d, r, v)
  PROVE  IInv'
<1> DEFINE was == IF disk[d] = NoDoc THEN Empty ELSE disk[d]
<1>1. /\ made' = made + 1 /\ v \in {Gone, made + 1} /\ made < MaxEdits
      /\ disk' = [disk EXCEPT ![d] = [was EXCEPT ![r] = v]]
      /\ replaced' = replaced \cup ({was[r]} \ {Gone}) \cup ({made + 1} \ {v})
      /\ UNCHANGED <<relay, saved, pass, faults, read>>
  BY DEF Edit
<1>2. made \in Nat /\ made' \in 0..MaxEdits
  BY <1>1, PassParts, BoundsAssumption
<1>3. was \in Docs
  BY <1>2, EmptyIsADoc DEF IInv, TypeOK
<1>4. Docs \subseteq Docs' /\ Tags' = Tags
  BY <1>1, <1>2 DEF Docs, Tags, relay
<1>5. [was EXCEPT ![r] = v] \in Docs'
  BY <1>1, <1>2, <1>3 DEF Docs, Gone
<1>6. was[r] \in 0..made
  BY <1>3 DEF Docs
<1> HIDE DEF was
<1>7. Entries \subseteq Entries'
  BY <1>4 DEF Entries
<1>8. PassStates \subseteq PassStates'
  BY <1>4, <1>7 DEF PassStates
<1>9. log' \in Seq([counter : Nat, doc : Docs'])
  <2> DEFINE Before == [counter : Nat, doc : Docs]
             After == [counter : Nat, doc : Docs']
  <2>1. log' = log /\ log \in Seq(Before) /\ Before \subseteq After
    BY <1>1, <1>4 DEF IInv, TypeOK, relay
  <2> HIDE DEF Before, After
  <2>2. log' \in Seq(After)
    BY <2>1
  <2> QED
    BY <2>2 DEF After
<1>10. replaced' \subseteq 1..made' /\ read' \subseteq 1..made'
  <2>1. read \subseteq 1..made /\ replaced \subseteq 1..made /\ read' = read
    BY <1>1 DEF IInv, TypeOK
  <2>2. 1..made \subseteq 1..made' /\ made + 1 \in 1..made' /\ {was[r]} \ {Gone} \subseteq 1..made
    BY <1>1, <1>2, <1>6 DEF Gone
  <2> QED
    BY <1>1, <2>1, <2>2
<1>11. TypeOK'
  <2>1. disk' \in [Devices -> Docs' \cup {NoDoc}]
    BY <1>1, <1>4, <1>5 DEF IInv, TypeOK
  <2>2. saved' \in [Devices -> [entry : Entries', floor : Nat]] /\ pass' \in [Devices -> PassStates']
    BY <1>1, <1>7, <1>8 DEF IInv, TypeOK
  <2> QED
    BY <1>1, <1>2, <1>4, <1>9, <1>10, <2>1, <2>2 DEF IInv, TypeOK, relay
<1>12. ASSUME NEW e \in Devices
       PROVE  Ready(pass[e])' /\ AboveFloor(pass[e])' /\ FloorIsSaved(e)'
  BY <1>1, <1>4 DEF IInv, Ready, AboveFloor, FloorIsSaved
<1> QED
  BY <1>11, <1>12 DEF IInv

------------------------------------------------------------------------------
(* The theorems *)

LEMMA InitInv == Init => IInv
<1> SUFFICES ASSUME Init PROVE IInv
  OBVIOUS
<1> USE DEF Init
<1>1. made = 0 /\ log = <<>> /\ 0 \in Tags /\ Empty \in Docs
  BY EmptyIsADoc DEF Tags
<1>2. NoEntry \in Entries /\ NoEntry.etag = 0 /\ NoEntry.counter = 0
  BY <1>1 DEF NoEntry, Entries
<1>3. NoPass \in PassStates /\ Ready(NoPass) /\ AboveFloor(NoPass) /\ NoPass.at = "idle"
  BY <1>1, <1>2 DEF NoPass, PassStates, Ready, AboveFloor
<1>4. TypeOK
  BY <1>1, <1>2, <1>3, BoundsAssumption DEF TypeOK
<1> QED
  BY <1>2, <1>3, <1>4 DEF IInv, FloorIsSaved

LEMMA UnchangedKeeps ==
  ASSUME IInv, UNCHANGED vars
  PROVE  IInv'
<1>1. Docs' = Docs /\ Tags' = Tags /\ Entries' = Entries /\ PassStates' = PassStates
  BY DEF Docs, Tags, Entries, PassStates, vars, relay
<1> QED
  BY <1>1 DEF IInv, TypeOK, Ready, AboveFloor, FloorIsSaved, vars, relay, past

LEMMA NextKeeps == IInv /\ [Next]_vars => IInv'
<1> SUFFICES ASSUME IInv, [Next]_vars PROVE IInv'
  OBVIOUS
<1>1. ASSUME NEW d \in Devices, Step(d)
      PROVE  IInv'
  BY <1>1, BeginKeeps, GotKeeps, FreshKeeps, PutKeeps, KeepKeeps, LandKeeps, SaveKeeps DEF Step
<1>2. ASSUME NEW d \in Devices, Forget(d) \/ Lost(d) \/ Crash(d)
      PROVE  IInv'
  BY <1>2, ForgetKeeps, LostKeeps, CrashKeeps
<1> QED
  BY <1>1, <1>2, EditKeeps, UnchangedKeeps DEF Next

LEMMA Inductive == Spec => []IInv
  BY InitInv, NextKeeps, PTL DEF Spec

(* Every document holds only versions that somebody made, every ETag that a  *)
(* device remembers is one the relay gave, and no saved floor is below the   *)
(* counter agreed to.                                                        *)
THEOREM SyncTypes == Spec => []TypeOK
  BY Inductive, PTL DEF IInv

(* Whatever the relay rewinds to and whatever is forgotten, lost or crashes, *)
(* the floor under a collection never falls and no agreement is saved below  *)
(* it: openObject() is asked with that floor on every path that leads to an  *)
(* agreement.                                                                *)
THEOREM FloorsHold == Spec => NeverGoesBack
<1> DEFINE Holds(d) ==
      /\ saved'[d].floor >= saved[d].floor
      /\ saved'[d].entry # saved[d].entry /\ saved'[d].entry.etag # 0
           => saved'[d].entry.counter >= saved[d].floor
<1>1. ASSUME IInv, Next, NEW e \in Devices
      PROVE  Holds(e)
  <2>0. saved[e].floor \in Nat
    BY <1>1 DEF IInv, TypeOK
  <2>1. CASE saved'[e] = saved[e]
    BY <2>0, <2>1
  <2>2. ASSUME NEW d \in Devices, Save(d)
        PROVE  Holds(e)
    <3>1. CASE pass[d].forgot
      BY <2>1, <2>2, <3>1 DEF Save
    <3>2. CASE ~pass[d].forgot /\ e # d
      <4>1. saved'[e] = saved[e]
        BY <1>1, <2>2, <3>2, SaveParts DEF IInv, TypeOK
      <4> QED
        BY <2>1, <4>1
    <3>3. CASE ~pass[d].forgot /\ e = d
      <4>1. saved'[e].entry = pass[d].entry /\ saved'[e].floor = PassFloor(d)
        BY <1>1, <2>2, <3>3, SaveParts DEF IInv, TypeOK
      <4> QED
        BY <1>1, <2>2, <3>3, <4>1, SaveParts
    <3> QED
      BY <3>1, <3>2, <3>3
  <2>3. ASSUME NEW d \in Devices, Forget(d)
        PROVE  Holds(e)
    BY <1>1, <2>1, <2>3, ForgetKeeps
  <2>4. ASSUME NEW d \in Devices,
               \/ Begin(d) \/ Got(d) \/ Fresh(d) \/ Put(d) \/ Keep(d) \/ Land(d)
               \/ Lost(d) \/ Crash(d) \/ \E r \in Records, v \in 0..MaxEdits : Edit(d, r, v)
        PROVE  Holds(e)
    <3>1. UNCHANGED saved
      BY <2>4 DEF Begin, Got, Fresh, Put, Keep, Land, Lost, Crash, Edit
    <3> QED
      BY <2>1, <3>1
  <2> QED
    BY <1>1, <2>2, <2>3, <2>4 DEF Next, Step
<1>2. IInv /\ [Next]_vars => [\A d \in Devices : Holds(d)]_vars
  BY <1>1
<1> QED
  BY <1>2, Inductive, PTL DEF Spec, NeverGoesBack

------------------------------------------------------------------------------
(* What becomes of the records *)

(* One document has what another has, but for what a person replaced. *)
Carries(a, b, lost) ==
  \A r \in DOMAIN a : a[r] = Gone \/ a[r] \in lost \/ (r \in DOMAIN b /\ b[r] = a[r])

(* The account's copies follow one another: counters rise, and each carries   *)
(* the ones before it.  What got to the relay, a pass had read.              *)
LogSound ==
  /\ \A i, j \in 1..Len(log) :
       /\ i < j => log[i].counter < log[j].counter
       /\ i <= j => Carries(log[i].doc, log[j].doc, replaced)
  /\ \A i \in 1..Len(log) : Versions(log[i].doc) \subseteq read
  /\ \A doc \in copies : Versions(doc) \subseteq read

(* An agreement is over an object of the relay's, at its counter or above. *)
EntrySound(e) ==
  /\ e.etag = 0 => e.doc = NoDoc
  /\ e.etag # 0 => e.doc = log[e.etag].doc /\ e.counter >= log[e.etag].counter

(* What is about to be put carries the object it names; what is about to      *)
(* land is the relay's, not older than the agreement, and what it overwrites *)
(* is kept or carried, unless a copy was noted already.                     *)
Aims(p) ==
  /\ p.at = "put" =>
       /\ Versions(p.doc) \subseteq read
       /\ p.etag # 0 => /\ p.counter > log[p.etag].counter
                        /\ Carries(log[p.etag].doc, p.doc, replaced)
       /\ IF p.why \in {"union", "merge"} THEN Carries(p.body, p.doc, replaced)
          ELSE p.doc = p.body
  /\ p.at \in {"keep", "land"} =>
       /\ p.etag # 0 /\ p.doc = log[p.etag].doc /\ p.counter >= log[p.etag].counter
       /\ p.entry.etag <= p.etag
  /\ p.at = "land" /\ p.why # "noted" => p.body \in copies \/ Carries(p.body, p.doc, replaced)

Running == {"get", "fresh", "put", "keep", "land"}

(* The file carries what the pass has read, which carries the agreement; what *)
(* the file has beside it was made since, and no pass has read it.           *)
Holding(p, file, etag) ==
  /\ p.at # "idle" => Carries(p.entry.doc, file, replaced)
  /\ p.at \in Running =>
       /\ Versions(p.body) \subseteq read
       /\ Carries(p.entry.doc, p.body, replaced) /\ Carries(p.body, file, replaced)
       /\ \A v \in Versions(file) : v \in read => v \in Versions(p.body)
       /\ etag \in {0, p.entry.etag}

PassSound(p, file, etag) ==
  /\ p.at # "idle" => EntrySound(p.entry)
  /\ Aims(p) /\ Holding(p, file, etag)

(* The file carries what was agreed to; what two devices have was read. *)
DeviceSound(d) ==
  /\ EntrySound(saved[d].entry) /\ Carries(saved[d].entry.doc, disk[d], replaced)
  /\ \A e \in Devices \ {d} : Versions(disk[d]) \cap Versions(disk[e]) \subseteq read
  /\ PassSound(pass[d], disk[d], saved[d].entry.etag)

Sound == LogSound /\ \A d \in Devices : DeviceSound(d)

(* A document carries itself, and what the one it carries does. *)
LEMMA CarriesOn ==
  ASSUME NEW a, NEW b, NEW c, NEW lost
  PROVE  /\ Carries(a, a, lost)
         /\ Carries(a, b, lost) /\ Carries(b, c, lost) => Carries(a, c, lost)
  BY DEF Carries

(* The more was replaced, the less there is to carry. *)
LEMMA CarriesMore ==
  ASSUME NEW a, NEW b, NEW lost, NEW more, lost \subseteq more, Carries(a, b, lost)
  PROVE  Carries(a, b, more)
  BY DEF Carries

(* What a document that carries another lacks of it was replaced. *)
LEMMA CarriesVersions ==
  ASSUME NEW a, NEW b, NEW lost, Carries(a, b, lost)
  PROVE  Versions(a) \ Versions(b) \subseteq lost
  BY DEF Carries, Versions

(* There is nothing to carry from no file, nor from an empty collection. *)
LEMMA CarriesNothing ==
  ASSUME NEW b, NEW lost
  PROVE  /\ Carries(NoDoc, b, lost) /\ Carries(Empty, b, lost)
         /\ Versions(NoDoc) = {} /\ Versions(Empty) = {}
  BY DEF Carries, NoDoc, Empty, Versions

(* A merge carries both sides, if they carry what they started from. *)
LEMMA MergeCarries ==
  ASSUME made \in Nat, NEW base \in Docs, NEW here \in Docs, NEW there \in Docs, NEW lost,
         Merges(base, here, there), Carries(base, here, lost), Carries(base, there, lost)
  PROVE  /\ Carries(here, Merge(base, here, there), lost)
         /\ Carries(there, Merge(base, here, there), lost)
         /\ Versions(Merge(base, here, there)) \subseteq Versions(here) \cup Versions(there)
<1> DEFINE m == Merge(base, here, there)
<1>1. m \in Docs
  BY MergeType
<1>2. ASSUME NEW r \in Records
      PROVE  /\ m[r] = IF here[r] = base[r] THEN there[r] ELSE here[r]
             /\ ~OverlapsAt(base, here, there, r)
             /\ base[r] = Gone \/ base[r] \in lost \/ here[r] = base[r]
             /\ base[r] = Gone \/ base[r] \in lost \/ there[r] = base[r]
  BY MergeIsThreeWay DEF Merges, Carries, Docs
<1> HIDE DEF m
<1>3. ASSUME NEW r \in Records
      PROVE  /\ here[r] = Gone \/ here[r] \in lost \/ m[r] = here[r]
             /\ there[r] = Gone \/ there[r] \in lost \/ m[r] = there[r]
  BY <1>2 DEF OverlapsAt, Changed, Gone
<1>4. DOMAIN m = Records /\ DOMAIN here = Records /\ DOMAIN there = Records
  BY <1>1 DEF Docs
<1>5. Carries(here, m, lost) /\ Carries(there, m, lost)
  BY <1>3, <1>4 DEF Carries
<1>6. Versions(m) \subseteq Versions(here) \cup Versions(there)
  BY <1>2, <1>4 DEF Versions
<1> QED
  BY <1>5, <1>6 DEF m

------------------------------------------------------------------------------
(* What a step leaves sound *)

(* The relay forgets nothing, and what was read or replaced stays so. *)
Grows ==
  /\ Len(log) <= Len(log') /\ \A i \in 1..Len(log) : log'[i] = log[i]
  /\ copies \subseteq copies' /\ read \subseteq read' /\ replaced \subseteq replaced'

(* An agreement stays over the object it was over. *)
LEMMA EntryStays ==
  ASSUME IInv, Grows, NEW e \in Entries, EntrySound(e)
  PROVE  EntrySound(e)'
<1>1. e.etag \in 0..Len(log) /\ Len(log) \in Nat
  BY LogType DEF Entries, Tags
<1>2. e.etag # 0 => log'[e.etag] = log[e.etag]
  BY <1>1 DEF Grows
<1> QED
  BY <1>2 DEF EntrySound

(* What is about to be put or to land stays what it was about to be. *)
LEMMA AimsStay ==
  ASSUME IInv, Grows, NEW p \in PassStates, Aims(p)
  PROVE  Aims(p)'
<1>1. p.etag \in 0..Len(log) /\ Len(log) \in Nat
  BY LogType DEF PassStates, Tags
<1>2. p.etag # 0 => log'[p.etag] = log[p.etag]
  BY <1>1 DEF Grows
<1>3. \A a, b : Carries(a, b, replaced) => Carries(a, b, replaced')
  BY CarriesMore DEF Grows
<1> QED
  BY <1>2, <1>3 DEF Aims, Grows

(* A pass goes on holding its file, if nothing else of the file was read. *)
LEMMA HoldingStays ==
  ASSUME Grows, NEW p, NEW file, NEW etag, Holding(p, file, etag),
         \A v \in Versions(file) : v \in read' => v \in read
  PROVE  Holding(p, file, etag)'
<1>1. \A a, b : Carries(a, b, replaced) => Carries(a, b, replaced')
  BY CarriesMore DEF Grows
<1> QED
  BY <1>1 DEF Holding, Grows

(* A pass stays sound while others take their steps. *)
LEMMA PassStays ==
  ASSUME IInv, Grows, NEW p \in PassStates, NEW file, NEW etag, PassSound(p, file, etag),
         \A v \in Versions(file) : v \in read' => v \in read
  PROVE  PassSound(p, file, etag)'
<1>1. p.entry \in Entries
  BY DEF PassStates
<1>2. p.at # "idle" => EntrySound(p.entry)'
  BY <1>1, EntryStays DEF PassSound
<1>3. Aims(p)' /\ Holding(p, file, etag)'
  BY AimsStay, HoldingStays DEF PassSound
<1> QED
  BY <1>2, <1>3 DEF PassSound

(* A step of one device's: its pass, its file and its agreement are sound     *)
(* after it, and it brings to the file, and reads, nothing that another      *)
(* device has and no pass has read.                                          *)
LEMMA StepSound ==
  ASSUME IInv, Sound, Grows, LogSound', NEW d \in Devices, NEW p, NEW file, NEW s,
         pass' = [pass EXCEPT ![d] = p], disk' = [disk EXCEPT ![d] = file],
         saved' = [saved EXCEPT ![d] = s],
         EntrySound(s.entry)', Carries(s.entry.doc, file, replaced'),
         PassSound(p, file, s.entry.etag)',
         \A e \in Devices \ {d} : \A v \in Versions(disk[e]) :
            /\ v \in read' => v \in read
            /\ v \in Versions(file) => v \in Versions(disk[d]) \/ v \in read'
  PROVE  Sound'
<1>1. /\ pass'[d] = p /\ disk'[d] = file /\ saved'[d] = s
      /\ \A e \in Devices \ {d} : pass'[e] = pass[e] /\ disk'[e] = disk[e] /\ saved'[e] = saved[e]
  BY DEF IInv, TypeOK
<1>2. ASSUME NEW e \in Devices \ {d}
      PROVE  /\ EntrySound(saved[e].entry)' /\ Carries(saved[e].entry.doc, disk[e], replaced)'
             /\ PassSound(pass[e], disk[e], saved[e].entry.etag)'
  <2>1. /\ EntrySound(saved[e].entry) /\ Carries(saved[e].entry.doc, disk[e], replaced)
        /\ PassSound(pass[e], disk[e], saved[e].entry.etag)
        /\ saved[e].entry \in Entries /\ pass[e] \in PassStates
    BY DEF Sound, DeviceSound, IInv, TypeOK
  <2>2. PICK q, f, t : q = pass[e] /\ f = disk[e] /\ t = saved[e].entry
    OBVIOUS
  <2>3. q = pass'[e] /\ f = disk'[e] /\ t = saved'[e].entry
    BY <1>1, <2>2
  <2>4. EntrySound(t)' /\ PassSound(q, f, t.etag)'
    BY <2>1, <2>2, EntryStays, PassStays
  <2>5. Carries(t.doc, f, replaced')
    BY <2>1, <2>2, CarriesMore DEF Grows
  <2> QED
    BY <2>3, <2>4, <2>5
<1>3. /\ EntrySound(saved[d].entry)' /\ Carries(saved[d].entry.doc, disk[d], replaced)'
      /\ PassSound(pass[d], disk[d], saved[d].entry.etag)'
  BY <1>1
<1>4. ASSUME NEW e \in Devices, NEW f \in Devices \ {e}
      PROVE  (Versions(disk[e]) \cap Versions(disk[f]) \subseteq read)'
  <2>1. Versions(disk[e]) \cap Versions(disk[f]) \subseteq read
    BY DEF Sound, DeviceSound
  <2>2. CASE e # d /\ f # d
    BY <1>1, <2>1, <2>2 DEF Grows
  <2>3. CASE e = d
    BY <1>1, <2>1, <2>3 DEF Grows
  <2>4. CASE f = d
    BY <1>1, <2>1, <2>4 DEF Grows
  <2> QED
    BY <2>2, <2>3, <2>4
<1>5. ASSUME NEW e \in Devices
      PROVE  DeviceSound(e)'
  <2>1. CASE e = d
    BY <1>3, <1>4, <2>1 DEF DeviceSound
  <2>2. CASE e # d
    BY <1>2, <1>4, <2>2 DEF DeviceSound
  <2> QED
    BY <2>1, <2>2
<1> QED
  BY <1>5 DEF Sound

(* What a pass has to go by. *)
LEMMA PassHas ==
  ASSUME IInv, Sound, NEW d \in Devices
  PROVE  /\ PassSound(pass[d], disk[d], saved[d].entry.etag)
         /\ pass[d] \in PassStates /\ pass[d].entry \in Entries
         /\ pass[d].at # "idle" =>
              EntrySound(pass[d].entry) /\ Carries(pass[d].entry.doc, disk[d], replaced)
         /\ pass[d].at \in Running =>
              /\ Versions(pass[d].body) \subseteq read
              /\ Carries(pass[d].entry.doc, pass[d].body, replaced)
              /\ Carries(pass[d].body, disk[d], replaced)
              /\ \A v \in Versions(disk[d]) : v \in read => v \in Versions(pass[d].body)
              /\ saved[d].entry.etag \in {0, pass[d].entry.etag}
<1>1. PassSound(pass[d], disk[d], saved[d].entry.etag)
  BY DEF Sound, DeviceSound
<1> QED
  BY <1>1, PassParts DEF PassSound, Holding

(* Nothing but the pass changes. *)
LEMMA AnswerSound ==
  ASSUME IInv, Sound, UNCHANGED <<relay, disk, saved, past>>, NEW d \in Devices, NEW p,
         Goes(d, p), PassSound(p, disk[d], saved[d].entry.etag)
  PROVE  Sound'
<1>1. log' = log /\ copies' = copies /\ read' = read /\ replaced' = replaced
  BY DEF relay, past
<1>2. Grows /\ LogSound'
  BY <1>1, LogType DEF Grows, Sound, LogSound
<1>3. PICK file, s : file = disk[d] /\ s = saved[d]
  OBVIOUS
<1>4. /\ pass' = [pass EXCEPT ![d] = p] /\ disk' = [disk EXCEPT ![d] = file]
      /\ saved' = [saved EXCEPT ![d] = s]
  BY <1>3 DEF Goes, IInv, TypeOK
<1>5. EntrySound(s.entry) /\ Carries(s.entry.doc, file, replaced)
  BY <1>3 DEF Sound, DeviceSound
<1>6. EntrySound(s.entry)' /\ Carries(s.entry.doc, file, replaced')
  BY <1>1, <1>5 DEF EntrySound
<1>7. PassSound(p, file, s.entry.etag)'
  <2>1. PassSound(p, file, s.entry.etag)
    BY <1>3
  <2> QED
    BY <1>1, <2>1 DEF PassSound, EntrySound, Aims, Holding
<1> QED
  BY <1>1, <1>2, <1>3, <1>4, <1>6, <1>7, StepSound

(* The collection is done with: what is agreed to is there, and carried. *)
LEMMA EndsSound ==
  ASSUME IInv, Sound, NEW d \in Devices, NEW entry, EntrySound(entry),
         Carries(entry.doc, disk[d], replaced), Ends(d, entry)
  PROVE  \E p : Goes(d, p) /\ PassSound(p, disk[d], saved[d].entry.etag)
<1> DEFINE p == [NoPass EXCEPT !.at = "save", !.entry = entry, !.floor = pass[d].floor,
                               !.forgot = pass[d].forgot]
<1>1. p.at = "save" /\ p.entry = entry
  BY DEF NoPass
<1>2. Goes(d, p)
  BY DEF Ends
<1> HIDE DEF p
<1>3. PassSound(p, disk[d], saved[d].entry.etag)
  BY <1>1 DEF PassSound, Aims, Holding, Running
<1> QED
  BY <1>2, <1>3

(* A pass that fails leaves the agreement it began with. *)
LEMMA FailsSound ==
  ASSUME IInv, Sound, NEW d \in Devices, pass[d].at # "idle", Fails(d)
  PROVE  \E p : Goes(d, p) /\ PassSound(p, disk[d], saved[d].entry.etag)
  BY PassHas, EndsSound DEF Fails

(* The pass goes on to another request. *)
LEMMA GoalSound ==
  ASSUME IInv, Sound, NEW d \in Devices, pass[d].at \in Running, NEW at \in Running,
         NEW why, NEW doc, NEW counter, NEW etag, Goal(d, at, why, doc, counter, etag),
         Aims([pass[d] EXCEPT !.at = at, !.why = why, !.doc = doc, !.counter = counter,
                              !.etag = etag])
  PROVE  \E p : Goes(d, p) /\ PassSound(p, disk[d], saved[d].entry.etag)
<1> DEFINE p == [pass[d] EXCEPT !.at = at, !.why = why, !.doc = doc, !.counter = counter, !.etag = etag]
<1>1. p.at = at /\ p.entry = pass[d].entry /\ p.body = pass[d].body
  BY PassParts DEF PassStates
<1>2. Goes(d, p) /\ Aims(p)
  BY DEF Goal
<1> HIDE DEF p
<1>3. at # "idle" /\ pass[d].at # "idle"
  BY DEF Running
<1>4. Holding(p, disk[d], saved[d].entry.etag)
  BY <1>1, <1>3, PassHas DEF Holding
<1>5. EntrySound(p.entry)
  BY <1>1, <1>3, PassHas
<1> QED
  BY <1>2, <1>4, <1>5 DEF PassSound

(* A pass that asks for the relay's object again has aimed at nothing yet. *)
LEMMA RereadsSound ==
  ASSUME IInv, Sound, NEW d \in Devices, pass[d].at \in Running, NEW why, Rereads(d, why)
  PROVE  \E p : Goes(d, p) /\ PassSound(p, disk[d], saved[d].entry.etag)
<1> DEFINE p == [pass[d] EXCEPT !.at = "fresh", !.why = why]
<1>1. p.at = "fresh" /\ p.entry = pass[d].entry /\ p.body = pass[d].body
  BY PassParts DEF PassStates
<1>2. Goes(d, p)
  BY DEF Rereads
<1> HIDE DEF p
<1>3. pass[d].at # "idle"
  BY DEF Running
<1>4. Holding(p, disk[d], saved[d].entry.etag) /\ EntrySound(p.entry)
  BY <1>1, <1>3, PassHas DEF Holding
<1> QED
  BY <1>1, <1>2, <1>4 DEF PassSound, Aims

(* An object that openObject() takes is not older than the agreement: its     *)
(* counter is not below the floor, and counters rise.                        *)
LEMMA OpensLater ==
  ASSUME IInv, Sound, NEW d \in Devices, pass[d].at # "idle", NEW i \in Tags, i # 0, Opens(d, i)
  PROVE  /\ pass[d].entry.etag <= i
         /\ Carries(pass[d].entry.doc, log[i].doc, replaced)
         /\ Versions(log[i].doc) \subseteq read
<1> DEFINE e == pass[d].entry
<1>1. /\ i \in 1..Len(log) /\ Len(log) \in Nat /\ log[i].counter \in Nat
      /\ EntrySound(e) /\ e.etag \in 0..Len(log) /\ e.counter \in Nat
  BY ObjectParts, LogType, PassHas DEF Entries, Tags
<1>2. PassFloor(d) \in Nat /\ PassFloor(d) >= e.counter
  BY PassParts, FloorIs DEF PassFloor, Floor
<1>3. log[i].counter >= e.counter
  BY <1>1, <1>2 DEF Opens
<1>4. ASSUME e.etag > i PROVE FALSE
  <2>1. e.etag \in 1..Len(log) /\ e.etag # 0 /\ log[e.etag].counter \in Nat
    BY <1>1, <1>4, ObjectParts DEF Tags
  <2>2. log[i].counter < log[e.etag].counter
    BY <1>1, <1>4, <2>1 DEF Sound, LogSound
  <2>3. e.counter >= log[e.etag].counter
    BY <1>1, <2>1 DEF EntrySound
  <2> QED
    BY <1>1, <1>3, <2>1, <2>2, <2>3
<1>5. e.etag <= i
  BY <1>1, <1>4
<1>6. Carries(e.doc, log[i].doc, replaced)
  <2>1. CASE e.etag = 0
    BY <1>1, <2>1, CarriesNothing DEF EntrySound
  <2>2. CASE e.etag # 0
    BY <1>1, <1>5, <2>2 DEF EntrySound, Sound, LogSound
  <2> QED
    BY <2>1, <2>2
<1> QED
  BY <1>1, <1>5, <1>6 DEF Sound, LogSound

(* What a goal has to be for it to be sound. *)
LEMMA PutAims ==
  ASSUME IInv, NEW d \in Devices,
         NEW why, NEW doc, NEW counter, NEW etag, Versions(doc) \subseteq read,
         etag # 0 => counter > log[etag].counter /\ Carries(log[etag].doc, doc, replaced),
         IF why \in {"union", "merge"} THEN Carries(pass[d].body, doc, replaced)
         ELSE doc = pass[d].body
  PROVE  Aims([pass[d] EXCEPT !.at = "put", !.why = why, !.doc = doc, !.counter = counter,
                              !.etag = etag])
<1> DEFINE p == [pass[d] EXCEPT !.at = "put", !.why = why, !.doc = doc, !.counter = counter, !.etag = etag]
<1>1. /\ p.at = "put" /\ p.why = why /\ p.doc = doc /\ p.counter = counter /\ p.etag = etag
      /\ p.body = pass[d].body
  BY PassParts DEF PassStates
<1> HIDE DEF p
<1>2. Aims(p)
  BY <1>1 DEF Aims
<1> QED
  BY <1>2 DEF p

(* The relay's object lands, or is kept against, at its own counter or above. *)
LEMMA LandAims ==
  ASSUME IInv, NEW d \in Devices, NEW at \in {"keep", "land"},
         NEW why, NEW counter, NEW i, i # 0, counter >= log[i].counter,
         pass[d].entry.etag <= i,
         at = "land" /\ why # "noted" => Carries(pass[d].body, log[i].doc, replaced)
  PROVE  Aims([pass[d] EXCEPT !.at = at, !.why = why, !.doc = log[i].doc, !.counter = counter,
                              !.etag = i])
<1> DEFINE p == [pass[d] EXCEPT !.at = at, !.why = why, !.doc = log[i].doc, !.counter = counter,
                                !.etag = i]
<1>1. /\ p.at = at /\ p.why = why /\ p.doc = log[i].doc /\ p.counter = counter /\ p.etag = i
      /\ p.body = pass[d].body /\ p.entry = pass[d].entry
  BY PassParts DEF PassStates
<1> HIDE DEF p
<1>2. Aims(p)
  BY <1>1 DEF Aims
<1> QED
  BY <1>2 DEF p

(* syncOnce() decides over the relay's answer. *)
LEMMA GotSound ==
  ASSUME IInv, Sound, NEW d \in Devices, Got(d)
  PROVE  Sound'
<1> DEFINE q == pass[d]
<1>1. q.at = "get" /\ UNCHANGED <<relay, disk, saved, made, past>> /\ q.at \in Running
      /\ q.at # "idle"
  BY DEF Got, Running
<1>2. PICK i \in Tags :
        IF i = 0 THEN GotNone(d)
        ELSE IF q.body # NoDoc /\ q.entry.known THEN GotKnown(d, i)
        ELSE IF Opens(d, i) THEN GotFirst(d, i)
        ELSE Fails(d)
  BY DEF Got
<1>3. /\ q.body \in Docs \cup {NoDoc} /\ made \in Nat /\ PassFloor(d) \in Nat
      /\ PassFloor(d) >= q.entry.counter /\ q.entry.counter \in Nat
      /\ PassFloor(d) + 1 > q.entry.counter
  <2>1. PassFloor(d) >= q.entry.counter
    BY PassParts, FloorIs DEF PassFloor, Floor
  <2> QED
    BY <2>1, PassParts DEF PassStates
<1>4. /\ Versions(q.body) \subseteq read /\ Carries(q.entry.doc, q.body, replaced)
      /\ Carries(q.body, disk[d], replaced) /\ EntrySound(q.entry)
  BY <1>1, PassHas
<1>5. \E p : Goes(d, p) /\ PassSound(p, disk[d], saved[d].entry.etag)
  <2>1. CASE i = 0
    <3>1. CASE Fails(d)
      BY <1>1, <3>1, FailsSound
    <3>2. CASE Puts(d, "create", q.body, PassFloor(d) + 1, 0)
      <4>1. "put" \in Running
        BY DEF Running
      <4> QED
        BY <1>1, <1>4, <3>2, <4>1, PutAims, GoalSound DEF Puts
    <3> QED
      BY <1>2, <2>1, <3>1, <3>2 DEF GotNone
  <2>2. CASE i # 0 /\ q.body # NoDoc /\ q.entry.known
    <3>0. /\ GotKnown(d, i) /\ log[i].doc \in Docs /\ log[i].counter \in Nat
      BY <1>2, <2>2, ObjectParts
    <3>1. CASE Fails(d)
      BY <1>1, <3>1, FailsSound
    <3>2. CASE i = q.entry.etag /\ Puts(d, "push", q.body, PassFloor(d) + 1, i)
      <4>1. PassFloor(d) + 1 > log[i].counter /\ log[i].doc = q.entry.doc
        BY <1>3, <1>4, <2>2, <3>0, <3>2 DEF EntrySound
      <4>2. "put" \in Running
        BY DEF Running
      <4> QED
        BY <1>1, <1>4, <3>2, <4>1, <4>2, PutAims, GoalSound DEF Puts
    <3>3. CASE q.body = q.entry.doc /\ Opens(d, i) /\ Pulls(d, i)
      <4>0. /\ q.entry.etag <= i /\ Carries(q.body, log[i].doc, replaced)
            /\ log[i].counter >= log[i].counter /\ "keep" \in Running /\ "land" \in Running
        BY <1>1, <2>2, <3>0, <3>3, OpensLater DEF Running
      <4>1. CASE Keeps(d, "bulk", i, log[i].counter)
        BY <1>1, <2>2, <4>0, <4>1, LandAims, GoalSound DEF Keeps
      <4>2. CASE Lands(d, "pull", i, log[i].counter)
        BY <1>1, <2>2, <4>0, <4>2, LandAims, GoalSound DEF Lands
      <4> QED
        BY <3>3, <4>1, <4>2 DEF Pulls
    <3>4. CASE Rereads(d, "merge")
      BY <1>1, <3>4, RereadsSound
    <3> QED
      BY <3>0, <3>1, <3>2, <3>3, <3>4 DEF GotKnown
  <2>3. CASE i # 0 /\ ~(q.body # NoDoc /\ q.entry.known)
    <3>0. log[i].doc \in Docs /\ log[i].counter \in Nat
      BY <2>3, ObjectParts
    <3>1. CASE Fails(d)
      BY <1>1, <3>1, FailsSound
    <3>2. CASE Opens(d, i) /\ GotFirst(d, i)
      <4>0. /\ q.entry.etag <= i /\ Versions(log[i].doc) \subseteq read
            /\ log[i].counter >= log[i].counter /\ log[i].counter + 1 > log[i].counter
            /\ "keep" \in Running /\ "land" \in Running /\ "put" \in Running
        BY <1>1, <2>3, <3>0, <3>2, OpensLater DEF Running
      <4>1. CASE q.body = log[i].doc /\ Ends(d, Entry(i, log[i].counter, log[i].doc))
        <5>1. EntrySound(Entry(i, log[i].counter, log[i].doc))
              /\ Entry(i, log[i].counter, log[i].doc).doc = q.body
          BY <2>3, <4>0, <4>1 DEF Entry, EntrySound
        <5> QED
          BY <1>4, <4>1, <5>1, EndsSound
      <4>2. CASE q.body \in {NoDoc, Empty} /\ Lands(d, "pull", i, log[i].counter)
        <5>1. Carries(q.body, log[i].doc, replaced)
          BY <4>2, CarriesNothing
        <5> QED
          BY <1>1, <2>3, <4>0, <4>2, <5>1, LandAims, GoalSound DEF Lands
      <4>3. CASE /\ q.body # NoDoc /\ Merges(Empty, q.body, log[i].doc)
                 /\ Puts(d, "union", Merge(Empty, q.body, log[i].doc), log[i].counter + 1, i)
        <5> DEFINE m == Merge(Empty, q.body, log[i].doc)
        <5>1. Carries(q.body, m, replaced) /\ Carries(log[i].doc, m, replaced)
              /\ Versions(m) \subseteq Versions(q.body) \cup Versions(log[i].doc)
          BY <1>3, <3>0, <4>3, CarriesNothing, EmptyIsADoc, MergeCarries
        <5>2. Versions(m) \subseteq read
          BY <1>4, <4>0, <5>1
        <5> HIDE DEF m
        <5>3. Aims([q EXCEPT !.at = "put", !.why = "union", !.doc = m,
                             !.counter = log[i].counter + 1, !.etag = i])
          BY <1>4, <4>0, <5>1, <5>2, PutAims
        <5> QED
          BY <1>1, <4>0, <4>3, <5>3, GoalSound DEF Puts, m
      <4>4. CASE Keeps(d, "first", i, log[i].counter)
        BY <1>1, <2>3, <4>0, <4>4, LandAims, GoalSound DEF Keeps
      <4> QED
        BY <3>2, <4>1, <4>2, <4>3, <4>4 DEF GotFirst
    <3> QED
      BY <1>2, <2>3, <3>1, <3>2
  <2> QED
    BY <2>1, <2>2, <2>3
<1> QED
  BY <1>1, <1>5, AnswerSound

(* The copy read again is merged with, or one of the two gives way. *)
LEMMA FreshSound ==
  ASSUME IInv, Sound, NEW d \in Devices, Fresh(d)
  PROVE  Sound'
<1> DEFINE q == pass[d]
<1>1. q.at = "fresh" /\ UNCHANGED <<relay, disk, saved, made, past>> /\ q.at \in Running
      /\ q.at # "idle" /\ q.body \in Docs
  BY PassParts DEF Fresh, Running, Ready
<1>2. PICK i \in Tags : GotToMerge(d, i) \/ GotToConflict(d, i)
  BY DEF Fresh
<1>3. made \in Nat /\ PassFloor(d) \in Nat
  BY PassParts
<1>4. /\ Versions(q.body) \subseteq read /\ Carries(q.entry.doc, q.body, replaced)
      /\ Carries(q.body, disk[d], replaced) /\ EntrySound(q.entry)
      /\ q.entry.doc \in Docs \cup {NoDoc}
  BY <1>1, PassHas DEF Entries
<1>5. "keep" \in Running /\ "land" \in Running /\ "put" \in Running
  BY DEF Running
<1>6. ASSUME i # 0
      PROVE  /\ log[i].doc \in Docs /\ log[i].counter \in Nat
             /\ Bigger(log[i].counter, PassFloor(d)) >= log[i].counter
             /\ Bigger(log[i].counter, PassFloor(d)) + 1 > log[i].counter
             /\ Opens(d, i) => /\ q.entry.etag <= i /\ Versions(log[i].doc) \subseteq read
                               /\ Carries(q.entry.doc, log[i].doc, replaced)
  <2>1. log[i].doc \in Docs /\ log[i].counter \in Nat
    BY <1>6, ObjectParts
  <2>2. /\ Bigger(log[i].counter, PassFloor(d)) \in Nat
        /\ Bigger(log[i].counter, PassFloor(d)) >= log[i].counter
    BY <1>3, <2>1, FloorIs
  <2>3. Bigger(log[i].counter, PassFloor(d)) + 1 > log[i].counter
    BY <2>1, <2>2
  <2> QED
    BY <1>1, <1>6, <2>1, <2>2, <2>3, OpensLater
<1>7. ASSUME GotToMerge(d, i)
      PROVE  \E p : Goes(d, p) /\ PassSound(p, disk[d], saved[d].entry.etag)
  <2> DEFINE counter == Bigger(log[i].counter, PassFloor(d)) + 1
             m == Merge(q.entry.doc, q.body, log[i].doc)
  <2>1. CASE Rereads(d, "conflict")
    BY <1>1, <2>1, RereadsSound
  <2>2. CASE /\ i # 0 /\ Opens(d, i) /\ log[i].doc = q.body
             /\ Ends(d, Entry(i, log[i].counter, q.body))
    <3>1. EntrySound(Entry(i, log[i].counter, q.body))
          /\ Entry(i, log[i].counter, q.body).doc = q.body
      BY <1>6, <2>2 DEF Entry, EntrySound
    <3> QED
      BY <1>4, <2>2, <3>1, EndsSound
  <2>3. CASE i # 0 /\ log[i].doc = q.entry.doc /\ Puts(d, "conflict", q.body, counter, i)
    BY <1>1, <1>4, <1>5, <1>6, <2>3, PutAims, GoalSound DEF Puts
  <2>4. CASE /\ i # 0 /\ Opens(d, i) /\ Merges(q.entry.doc, q.body, log[i].doc)
             /\ Puts(d, "merge", m, counter, i)
    <3>1. q.entry.doc \in Docs
      BY <1>4, <2>4 DEF Merges
    <3>2. /\ Carries(q.body, m, replaced) /\ Carries(log[i].doc, m, replaced)
          /\ Versions(m) \subseteq Versions(q.body) \cup Versions(log[i].doc)
      BY <1>1, <1>3, <1>4, <1>6, <2>4, <3>1, MergeCarries
    <3>3. Versions(m) \subseteq read
      BY <1>4, <1>6, <2>4, <3>2
    <3> HIDE DEF m
    <3>4. Aims([q EXCEPT !.at = "put", !.why = "merge", !.doc = m, !.counter = counter,
                         !.etag = i])
      BY <1>6, <2>4, <3>2, <3>3, PutAims
    <3> QED
      BY <1>1, <1>5, <2>4, <3>4, GoalSound DEF Puts
  <2> QED
    BY <1>7, <2>1, <2>2, <2>3, <2>4 DEF GotToMerge
<1>8. ASSUME GotToConflict(d, i)
      PROVE  \E p : Goes(d, p) /\ PassSound(p, disk[d], saved[d].entry.etag)
  <2> DEFINE counter == Bigger(log[i].counter, PassFloor(d))
  <2>1. CASE Puts(d, "conflict", q.body, PassFloor(d) + 1, 0)
    BY <1>1, <1>4, <1>5, <2>1, PutAims, GoalSound DEF Puts
  <2>2. CASE Fails(d)
    BY <1>1, <2>2, FailsSound
  <2>3. CASE i # 0 /\ log[i].doc = q.body /\ Ends(d, Entry(i, counter, q.body))
    <3>1. EntrySound(Entry(i, counter, q.body)) /\ Entry(i, counter, q.body).doc = q.body
      BY <1>6, <2>3 DEF Entry, EntrySound
    <3> QED
      BY <1>4, <2>3, <3>1, EndsSound
  <2>4. CASE i # 0 /\ Opens(d, i) /\ Keeps(d, "conflict", i, counter)
    BY <1>1, <1>5, <1>6, <2>4, LandAims, GoalSound DEF Keeps
  <2>5. CASE i # 0 /\ Opens(d, i) /\ Lands(d, "noted", i, counter)
    BY <1>1, <1>5, <1>6, <2>5, LandAims, GoalSound DEF Lands
  <2> QED
    BY <1>8, <2>1, <2>2, <2>3, <2>4, <2>5 DEF GotToConflict
<1> QED
  BY <1>1, <1>2, <1>7, <1>8, AnswerSound

(* The relay takes what is put over its last object: it carries that one. *)
LEMMA GivenSound ==
  ASSUME IInv, Sound, NEW d \in Devices, pass[d].at = "put", Accepted(d), Given(d),
         UNCHANGED <<copies, past>>
  PROVE  /\ Grows /\ LogSound' /\ Len(log) \in Nat /\ Len(log') = Len(log) + 1
         /\ log'[Len(log) + 1] = [counter |-> pass[d].counter, doc |-> pass[d].doc]
         /\ Len(log) # 0 => Carries(log[Len(log)].doc, pass[d].doc, replaced)
<1> DEFINE q == pass[d]
           n == Len(log)
           object == [counter |-> q.counter, doc |-> q.doc]
           Objects == [counter : Nat, doc : Docs]
<1>1. log \in Seq(Objects) /\ object \in Objects /\ log' = Append(log, object)
  BY PassParts DEF IInv, TypeOK, Given, PassStates, Ready
<1> HIDE DEF Objects, object
<1>2. /\ n \in Nat /\ Len(log') = n + 1 /\ log'[n + 1] = object
      /\ \A i \in 1..n : log'[i] = log[i]
  BY <1>1
<1>3. object.counter = q.counter /\ object.doc = q.doc
  BY DEF object
<1>4. /\ Versions(q.doc) \subseteq read
      /\ n # 0 => q.counter > log[n].counter /\ Carries(log[n].doc, q.doc, replaced)
      /\ q.counter \in Nat
  BY PassHas DEF Accepted, PassSound, Aims, PassStates
<1>5. copies' = copies /\ read' = read /\ replaced' = replaced
  BY DEF past
<1>6. Grows
  BY <1>2, <1>5 DEF Grows
<1>7. \A i \in 1..n : log[i].counter \in Nat
  BY <1>2, ObjectParts DEF Tags
<1>8. ASSUME NEW i \in 1..Len(log'), NEW j \in 1..Len(log')
      PROVE  /\ i < j => log'[i].counter < log'[j].counter
             /\ i <= j => Carries(log'[i].doc, log'[j].doc, replaced')
  <2> HIDE DEF n
  <2>1. CASE j # n + 1 /\ i # n + 1
    <3>1. i \in 1..n /\ j \in 1..n
      BY <1>2, <2>1
    <3> QED
      BY <1>2, <1>5, <3>1 DEF Sound, LogSound, n
  <2>2. CASE j = n + 1 /\ i # n + 1
    <3>1. i \in 1..n /\ n \in 1..n /\ n # 0
      BY <1>2, <2>2
    <3>2. log[i].counter < log[n].counter \/ i = n
      BY <1>2, <3>1 DEF Sound, LogSound, n
    <3>3. log[i].counter < q.counter
      BY <1>4, <1>7, <3>1, <3>2
    <3>4. Carries(log[i].doc, log[n].doc, replaced)
      BY <1>2, <3>1 DEF Sound, LogSound, n
    <3>5. Carries(log[i].doc, q.doc, replaced)
      BY <1>4, <3>1, <3>4, CarriesOn
    <3> QED
      BY <1>2, <1>3, <1>5, <2>2, <3>1, <3>3, <3>5
  <2>3. CASE i = n + 1
    <3>1. j <= n + 1 /\ j \in Nat
      BY <1>2
    <3>2. ~(i < j) /\ (i <= j => i = j)
      BY <1>2, <2>3, <3>1
    <3> QED
      BY <3>2, CarriesOn
  <2> QED
    BY <2>1, <2>2, <2>3
<1>9. ASSUME NEW i \in 1..Len(log')
      PROVE  Versions(log'[i].doc) \subseteq read'
  <2>1. CASE i = n + 1
    BY <1>2, <1>3, <1>4, <1>5, <2>1
  <2>2. CASE i # n + 1
    <3>1. i \in 1..n
      BY <1>2, <2>2
    <3> QED
      BY <1>2, <1>5, <3>1 DEF Sound, LogSound
  <2> QED
    BY <2>1, <2>2
<1>10. LogSound'
  BY <1>5, <1>8, <1>9 DEF Sound, LogSound
<1> QED
  BY <1>2, <1>4, <1>6, <1>10 DEF object

(* The pass of a device goes on while the relay, or what it keeps, grows. *)
LEMMA RelaySound ==
  ASSUME IInv, Sound, Grows, LogSound', UNCHANGED <<disk, saved, past>>, NEW d \in Devices, NEW p,
         Goes(d, p), PassSound(p, disk[d], saved[d].entry.etag)'
  PROVE  Sound'
<1>1. PICK file, s : file = disk[d] /\ s = saved[d]
  OBVIOUS
<1>2. /\ pass' = [pass EXCEPT ![d] = p] /\ disk' = [disk EXCEPT ![d] = file]
      /\ saved' = [saved EXCEPT ![d] = s] /\ file = disk'[d] /\ s = saved'[d]
      /\ read' = read /\ replaced' = replaced
  BY <1>1 DEF Goes, IInv, TypeOK, past
<1>3. EntrySound(s.entry) /\ Carries(s.entry.doc, file, replaced) /\ s.entry \in Entries
  BY <1>1 DEF Sound, DeviceSound, IInv, TypeOK
<1>4. EntrySound(s.entry)' /\ Carries(s.entry.doc, file, replaced')
  BY <1>2, <1>3, EntryStays
<1>5. PassSound(p, file, s.entry.etag)'
  BY <1>2
<1> QED
  BY <1>1, <1>2, <1>4, <1>5, StepSound

(* What is put lands, or is agreed to, or the pass looks at the relay again. *)
LEMMA PutSound ==
  ASSUME IInv, Sound, NEW d \in Devices, Put(d)
  PROVE  Sound'
<1> DEFINE q == pass[d]
           etag == Len(log) + 1
<1>1. /\ q.at = "put" /\ UNCHANGED <<copies, disk, saved, made, faults, past>>
      /\ q.at \in Running /\ q.at # "idle"
  BY DEF Put, Running
<1>2. /\ Carries(q.entry.doc, q.body, replaced) /\ Carries(q.body, disk[d], replaced)
      /\ EntrySound(q.entry) /\ q.entry \in Entries /\ q \in PassStates
      /\ IF q.why \in {"union", "merge"} THEN Carries(q.body, q.doc, replaced) ELSE q.doc = q.body
  BY <1>1, PassHas DEF PassSound, Aims
<1>3. CASE Accepted(d)
  <2>0. /\ Given(d)
        /\ IF q.why \in {"union", "merge"} THEN Goes(d, [q EXCEPT !.at = "land", !.etag = etag])
           ELSE Ends(d, Entry(etag, q.counter, q.body))
    BY <1>3 DEF Put
  <2>1. /\ Grows /\ LogSound' /\ Len(log) \in Nat /\ Len(log') = etag
        /\ log'[etag].counter = q.counter /\ log'[etag].doc = q.doc
        /\ read' = read /\ replaced' = replaced /\ disk' = disk /\ saved' = saved
    <3>1. /\ Grows /\ LogSound' /\ Len(log) \in Nat /\ Len(log') = etag
          /\ log'[etag] = [counter |-> q.counter, doc |-> q.doc]
      BY <1>1, <1>3, <2>0, GivenSound
    <3>2. read' = read /\ replaced' = replaced /\ disk' = disk /\ saved' = saved
      BY <1>1 DEF past
    <3> QED
      BY <3>1, <3>2
  <2>2. q.counter \in Nat /\ etag # 0 /\ q.entry.etag <= etag
    BY <1>2, <2>1 DEF PassStates, Entries, Tags
  <2>3. CASE q.why \in {"union", "merge"}
    <3>1. PICK p : p = [q EXCEPT !.at = "land", !.etag = etag]
      OBVIOUS
    <3>2. /\ p.at = "land" /\ p.etag = etag /\ p.entry = q.entry /\ p.body = q.body
          /\ p.doc = q.doc /\ p.counter = q.counter
      BY <1>2, <3>1 DEF PassStates
    <3>3. EntrySound(p.entry)'
      BY <1>2, <2>1, <3>2, EntryStays
    <3>4. Aims(p)'
      BY <1>2, <2>1, <2>2, <2>3, <3>2 DEF Aims
    <3>5. Holding(p, disk[d], saved[d].entry.etag)'
      <4>1. Holding(p, disk[d], saved[d].entry.etag)
        BY <1>1, <3>2, PassHas DEF Holding, Running
      <4> QED
        BY <2>1, <4>1 DEF Holding
    <3> QED
      BY <1>1, <2>0, <2>1, <2>3, <3>1, <3>3, <3>4, <3>5, RelaySound DEF PassSound
  <2>4. CASE q.why \notin {"union", "merge"}
    <3>1. PICK entry : entry = Entry(etag, q.counter, q.body)
      OBVIOUS
    <3>2. PICK p : p = [NoPass EXCEPT !.at = "save", !.entry = entry, !.floor = q.floor,
                                      !.forgot = q.forgot]
      OBVIOUS
    <3>3. p.at = "save" /\ p.entry = entry /\ Goes(d, p)
      BY <2>0, <2>4, <3>1, <3>2 DEF NoPass, Ends
    <3>4. entry.etag = etag /\ entry.counter = q.counter /\ entry.doc = q.body /\ q.doc = q.body
      BY <1>2, <2>4, <3>1 DEF Entry
    <3>5. EntrySound(entry)'
      BY <2>1, <2>2, <3>4 DEF EntrySound
    <3>6. Aims(p)' /\ Holding(p, disk[d], saved[d].entry.etag)'
      BY <1>2, <2>1, <3>3, <3>4 DEF Aims, Holding, Running
    <3> QED
      BY <1>1, <2>1, <3>3, <3>5, <3>6, RelaySound DEF PassSound
  <2> QED
    BY <2>3, <2>4
<1>4. CASE UNCHANGED log /\ (Rereads(d, "conflict") \/ Rereads(d, "merge") \/ Fails(d))
  <2>1. \E p : Goes(d, p) /\ PassSound(p, disk[d], saved[d].entry.etag)
    BY <1>1, <1>4, RereadsSound, FailsSound
  <2> QED
    BY <1>1, <1>4, <2>1, AnswerSound DEF relay
<1> QED
  BY <1>3, <1>4 DEF Put

(* The losing copy is with the relay, before it is overwritten. *)
LEMMA CopySound ==
  ASSUME IInv, Sound, NEW d \in Devices, pass[d].at = "keep",
         copies' = copies \cup {pass[d].body}, UNCHANGED <<log, past>>
  PROVE  Grows /\ LogSound'
<1>1. log' = log /\ read' = read /\ replaced' = replaced /\ Versions(pass[d].body) \subseteq read
  BY PassHas DEF past, Running
<1> QED
  BY <1>1, LogType DEF Grows, Sound, LogSound

(* What is kept may be overwritten by what lands. *)
LEMMA KeepSound ==
  ASSUME IInv, Sound, NEW d \in Devices, Keep(d)
  PROVE  Sound'
<1> DEFINE q == pass[d]
<1>1. /\ q.at = "keep" /\ UNCHANGED <<log, disk, saved, made, faults, past>>
      /\ copies' = copies \cup {q.body} /\ q.at \in Running /\ q.at # "idle"
  BY DEF Keep, Running
<1>2. Grows /\ LogSound' /\ log' = log /\ read' = read /\ replaced' = replaced /\ disk' = disk
      /\ saved' = saved
  BY <1>1, CopySound DEF past
<1>3. PICK entry : entry = (IF q.why = "first" THEN q.entry
                            ELSE [q.entry EXCEPT !.known = TRUE, !.copied = q.etag])
  OBVIOUS
<1>4. PICK p : p = [q EXCEPT !.at = "land", !.entry = entry]
  OBVIOUS
<1>5. Goes(d, p)
  BY <1>3, <1>4 DEF Keep
<1>6. /\ entry.etag = q.entry.etag /\ entry.doc = q.entry.doc /\ entry.counter = q.entry.counter
  BY <1>3, PassParts DEF Entries
<1>7. /\ p.at = "land" /\ p.entry = entry /\ p.body = q.body /\ p.doc = q.doc
      /\ p.counter = q.counter /\ p.etag = q.etag
  BY <1>4, PassParts DEF PassStates
<1>8. EntrySound(p.entry)'
  <2>1. EntrySound(q.entry)
    BY <1>1, PassHas
  <2> QED
    BY <1>2, <1>6, <1>7, <2>1 DEF EntrySound
<1>9. Aims(p)'
  <2>1. Aims(q)
    BY PassHas DEF PassSound
  <2> QED
    BY <1>1, <1>2, <1>6, <1>7, <2>1 DEF Aims
<1>10. Holding(p, disk[d], saved[d].entry.etag)'
  <2>1. Holding(p, disk[d], saved[d].entry.etag)
    BY <1>1, <1>6, <1>7, PassHas DEF Holding, Running
  <2> QED
    BY <1>2, <2>1 DEF Holding
<1> QED
  BY <1>1, <1>2, <1>5, <1>8, <1>9, <1>10, RelaySound DEF PassSound

(* What lands is the relay's, and no older than what was agreed to. *)
LEMMA LandSound ==
  ASSUME IInv, Sound, NEW d \in Devices, Land(d)
  PROVE  Sound'
<1> DEFINE q == pass[d]
<1>1. /\ q.at = "land" /\ UNCHANGED <<relay, saved, made, past>> /\ q.at \in Running
      /\ q.at # "idle"
  BY DEF Land, Running
<1>2. CASE Faulty /\ UNCHANGED disk /\ Fails(d)
  BY <1>1, <1>2, FailsSound, AnswerSound
<1>3. CASE /\ disk' = [disk EXCEPT ![d] = q.doc]
           /\ Ends(d, IF q.why = "bulk" THEN [Entry(q.etag, q.counter, q.doc) EXCEPT !.copied = q.etag]
                      ELSE Entry(q.etag, q.counter, q.doc))
  <2>1. log' = log /\ copies' = copies /\ read' = read /\ replaced' = replaced /\ saved' = saved
    BY <1>1 DEF relay, past
  <2>2. Grows /\ LogSound'
    BY <2>1, LogType DEF Grows, Sound, LogSound
  <2>3. /\ q.etag # 0 /\ q.etag \in 1..Len(log) /\ q.doc = log[q.etag].doc
        /\ q.counter >= log[q.etag].counter /\ q.entry.etag <= q.etag
        /\ q.entry.etag \in Nat
    BY <1>1, PassHas, LogType DEF PassSound, Aims, PassStates, Entries, Tags
  <2>4. PICK entry : entry = (IF q.why = "bulk"
                              THEN [Entry(q.etag, q.counter, q.doc) EXCEPT !.copied = q.etag]
                              ELSE Entry(q.etag, q.counter, q.doc))
    OBVIOUS
  <2>5. entry.etag = q.etag /\ entry.counter = q.counter /\ entry.doc = q.doc
    BY <2>4 DEF Entry
  <2>6. PICK p : p = [NoPass EXCEPT !.at = "save", !.entry = entry, !.floor = q.floor,
                                    !.forgot = q.forgot]
    OBVIOUS
  <2>7. p.at = "save" /\ p.entry = entry /\ Goes(d, p)
    BY <1>3, <2>4, <2>6 DEF NoPass, Ends
  <2>8. PICK file, s : file = q.doc /\ s = saved[d]
    OBVIOUS
  <2>9. /\ pass' = [pass EXCEPT ![d] = p] /\ disk' = [disk EXCEPT ![d] = file]
        /\ saved' = [saved EXCEPT ![d] = s]
    BY <1>3, <2>1, <2>7, <2>8 DEF Goes, IInv, TypeOK
  <2>10. EntrySound(s.entry) /\ Carries(s.entry.doc, file, replaced)
    <3>1. EntrySound(s.entry) /\ s.entry.etag \in {0, q.entry.etag}
      BY <1>1, <2>8, PassHas DEF Sound, DeviceSound
    <3>2. CASE s.entry.etag = 0
      BY <3>1, <3>2, CarriesNothing DEF EntrySound
    <3>3. CASE s.entry.etag # 0
      <4>1. s.entry.etag = q.entry.etag /\ s.entry.etag \in 1..Len(log)
        BY <2>3, <3>1, <3>3, LogType
      <4> QED
        BY <2>3, <2>8, <3>1, <3>3, <4>1 DEF EntrySound, Sound, LogSound
    <3> QED
      BY <3>1, <3>2, <3>3
  <2>11. EntrySound(s.entry)' /\ Carries(s.entry.doc, file, replaced')
    BY <2>1, <2>10 DEF EntrySound
  <2>12. PassSound(p, file, s.entry.etag)'
    <3>1. EntrySound(p.entry)'
      BY <2>1, <2>3, <2>5, <2>7 DEF EntrySound
    <3>2. Carries(p.entry.doc, file, replaced')
      BY <2>5, <2>7, <2>8, CarriesOn
    <3> QED
      BY <2>7, <3>1, <3>2 DEF PassSound, Aims, Holding, Running
  <2>13. Versions(file) \subseteq read
    BY <2>3, <2>8 DEF Sound, LogSound
  <2> QED
    BY <2>1, <2>2, <2>9, <2>11, <2>12, <2>13, StepSound
<1> QED
  BY <1>2, <1>3 DEF Land

(* A pass reads the file; what another device has of it was read before. *)
LEMMA BeginSound ==
  ASSUME IInv, Sound, NEW d \in Devices, Begin(d)
  PROVE  Sound'
<1>1. /\ UNCHANGED <<relay, disk, saved, made, faults, replaced>>
      /\ read' = read \cup Versions(disk[d])
  BY DEF Begin
<1>2. log' = log /\ copies' = copies /\ disk' = disk /\ saved' = saved /\ replaced' = replaced
  BY <1>1 DEF relay
<1>3. Grows /\ LogSound'
  BY <1>1, <1>2, LogType DEF Grows, Sound, LogSound
<1>4. PICK file, s : file = disk[d] /\ s = saved[d]
  OBVIOUS
<1>5. PICK p : p = [NoPass EXCEPT !.at = "get", !.body = disk[d], !.entry = saved[d].entry,
                                  !.floor = saved[d].floor]
  OBVIOUS
<1>6. p.at = "get" /\ p.body = file /\ p.entry = s.entry
  BY <1>4, <1>5 DEF NoPass
<1>7. /\ pass' = [pass EXCEPT ![d] = p] /\ disk' = [disk EXCEPT ![d] = file]
      /\ saved' = [saved EXCEPT ![d] = s]
  BY <1>2, <1>4, <1>5 DEF Begin, Goes, IInv, TypeOK
<1>8. EntrySound(s.entry) /\ Carries(s.entry.doc, file, replaced)
  BY <1>4 DEF Sound, DeviceSound
<1>9. EntrySound(s.entry)' /\ Carries(s.entry.doc, file, replaced')
  BY <1>2, <1>8 DEF EntrySound
<1>10. PassSound(p, file, s.entry.etag)'
  <2>1. Aims(p)'
    BY <1>6 DEF Aims
  <2>2. Carries(p.body, file, replaced') /\ Versions(p.body) \subseteq read'
    BY <1>1, <1>4, <1>6, CarriesOn
  <2> QED
    BY <1>6, <1>9, <2>1, <2>2 DEF PassSound, Holding
<1>11. \A e \in Devices \ {d} : \A v \in Versions(disk[e]) : v \in read' => v \in read
  BY <1>1 DEF Sound, DeviceSound
<1> QED
  BY <1>3, <1>4, <1>7, <1>9, <1>10, <1>11, StepSound

(* No pass is under way. *)
LEMMA NoPassSound ==
  ASSUME NEW file, NEW etag
  PROVE  PassSound(NoPass, file, etag)
  BY DEF PassSound, Aims, Holding, NoPass, Running

(* The state of a device is saved, lost or forgotten. *)
LEMMA StateSound ==
  ASSUME IInv, Sound, UNCHANGED <<relay, disk, past>>, NEW d \in Devices, NEW p, NEW s,
         pass' = [pass EXCEPT ![d] = p], saved' = [saved EXCEPT ![d] = s],
         EntrySound(s.entry), Carries(s.entry.doc, disk[d], replaced),
         PassSound(p, disk[d], s.entry.etag)
  PROVE  Sound'
<1>1. log' = log /\ copies' = copies /\ read' = read /\ replaced' = replaced /\ disk' = disk
  BY DEF relay, past
<1>2. Grows /\ LogSound'
  BY <1>1, LogType DEF Grows, Sound, LogSound
<1>3. PICK file : file = disk[d]
  OBVIOUS
<1>4. disk' = [disk EXCEPT ![d] = file]
  BY <1>1, <1>3 DEF IInv, TypeOK
<1>5. EntrySound(s.entry)' /\ Carries(s.entry.doc, file, replaced')
  BY <1>1, <1>3 DEF EntrySound
<1>6. PassSound(p, file, s.entry.etag)'
  <2>1. PassSound(p, file, s.entry.etag)
    BY <1>3
  <2> QED
    BY <1>1, <2>1 DEF PassSound, EntrySound, Aims, Holding
<1> QED
  BY <1>1, <1>2, <1>3, <1>4, <1>5, <1>6, StepSound

(* What is saved is the agreement the pass ended with. *)
LEMMA SaveSound ==
  ASSUME IInv, Sound, NEW d \in Devices, Save(d)
  PROVE  Sound'
<1>1. /\ pass[d].at = "save" /\ pass' = [pass EXCEPT ![d] = NoPass]
      /\ UNCHANGED <<relay, disk, past>>
  BY DEF Save, Goes
<1>2. PICK p : p = NoPass
  OBVIOUS
<1>3. CASE pass[d].forgot
  <2>1. PICK s : s = saved[d]
    OBVIOUS
  <2>2. saved' = [saved EXCEPT ![d] = s]
    BY <1>3, <2>1 DEF Save, IInv, TypeOK
  <2>3. EntrySound(s.entry) /\ Carries(s.entry.doc, disk[d], replaced)
    BY <2>1 DEF Sound, DeviceSound
  <2> QED
    BY <1>1, <1>2, <2>2, <2>3, NoPassSound, StateSound
<1>4. CASE ~pass[d].forgot
  <2>1. PICK s : s = [entry |-> pass[d].entry, floor |-> PassFloor(d)]
    OBVIOUS
  <2>2. saved' = [saved EXCEPT ![d] = s] /\ s.entry = pass[d].entry
    BY <1>4, <2>1 DEF Save
  <2>3. EntrySound(s.entry) /\ Carries(s.entry.doc, disk[d], replaced)
    BY <1>1, <2>2, PassHas
  <2> QED
    BY <1>1, <1>2, <2>2, <2>3, NoPassSound, StateSound
<1> QED
  BY <1>3, <1>4

(* The pass that was under way is lost. *)
LEMMA CrashSound ==
  ASSUME IInv, Sound, NEW d \in Devices, Crash(d)
  PROVE  Sound'
<1>1. PICK p : p = NoPass
  OBVIOUS
<1>2. Goes(d, p) /\ UNCHANGED <<relay, disk, saved, past>>
  BY <1>1 DEF Crash
<1> QED
  BY <1>1, <1>2, NoPassSound, AnswerSound

(* What is forgotten is only the agreement. *)
LEMMA ForgetSound ==
  ASSUME IInv, Sound, NEW d \in Devices, Forget(d)
  PROVE  Sound'
<1> DEFINE q == pass[d]
<1>1. PICK p : p = [q EXCEPT !.forgot = q.at # "idle"]
  OBVIOUS
<1>2. PICK s : s = [entry |-> NoEntry, floor |-> Floor(saved[d].entry, saved[d].floor)]
  OBVIOUS
<1>3. /\ UNCHANGED <<relay, disk, past>> /\ pass' = [pass EXCEPT ![d] = p]
      /\ saved' = [saved EXCEPT ![d] = s]
  BY <1>1, <1>2 DEF Forget
<1>4. /\ p.at = q.at /\ p.entry = q.entry /\ p.body = q.body /\ p.doc = q.doc /\ p.why = q.why
      /\ p.counter = q.counter /\ p.etag = q.etag
  BY <1>1, PassParts DEF PassStates
<1>5. s.entry = NoEntry /\ NoEntry.etag = 0 /\ NoEntry.doc = NoDoc
  BY <1>2 DEF NoEntry
<1>6. EntrySound(s.entry) /\ Carries(s.entry.doc, disk[d], replaced)
  BY <1>5, CarriesNothing DEF EntrySound
<1>7. PassSound(p, disk[d], s.entry.etag)
  <2>1. PassSound(q, disk[d], saved[d].entry.etag)
    BY PassHas
  <2> QED
    BY <1>4, <1>5, <2>1 DEF PassSound, Aims, Holding
<1> QED
  BY <1>3, <1>6, <1>7, StateSound

(* A pass that fails is sound while the relay grows. *)
LEMMA FailsStays ==
  ASSUME IInv, Sound, Grows, LogSound', UNCHANGED <<disk, saved, past>>, NEW d \in Devices,
         pass[d].at # "idle", Fails(d)
  PROVE  Sound'
<1> DEFINE q == pass[d]
<1>1. PICK p : p = [NoPass EXCEPT !.at = "save", !.entry = q.entry, !.floor = q.floor,
                                  !.forgot = q.forgot]
  OBVIOUS
<1>2. p.at = "save" /\ p.entry = q.entry /\ Goes(d, p)
  BY <1>1 DEF NoPass, Fails, Ends
<1>3. /\ EntrySound(p.entry) /\ Carries(p.entry.doc, disk[d], replaced) /\ p.entry \in Entries
      /\ disk' = disk /\ replaced' = replaced
  BY <1>2, PassHas DEF past
<1>4. EntrySound(p.entry)'
  BY <1>3, EntryStays
<1>5. PassSound(p, disk[d], saved[d].entry.etag)'
  BY <1>2, <1>3, <1>4 DEF PassSound, Aims, Holding, Running
<1> QED
  BY <1>2, <1>5, RelaySound

(* A request fails: the relay has done its part, or not. *)
LEMMA LostSound ==
  ASSUME IInv, Sound, NEW d \in Devices, Lost(d)
  PROVE  Sound'
<1>1. /\ UNCHANGED <<disk, saved, made, past>> /\ Fails(d) /\ pass[d].at # "idle"
      /\ disk' = disk /\ saved' = saved
  BY DEF Lost
<1>2. PICK p : Goes(d, p) /\ PassSound(p, disk[d], saved[d].entry.etag)
  BY <1>1, FailsSound
<1>3. CASE UNCHANGED relay
  BY <1>1, <1>2, <1>3, AnswerSound
<1>4. CASE pass[d].at = "put" /\ Accepted(d) /\ Given(d) /\ UNCHANGED copies
  <2>1. Grows /\ LogSound'
    BY <1>1, <1>4, GivenSound
  <2> QED
    BY <1>1, <1>2, <2>1, FailsStays
<1>5. CASE pass[d].at = "keep" /\ copies' = copies \cup {pass[d].body} /\ UNCHANGED log
  <2>1. Grows /\ LogSound'
    BY <1>1, <1>5, CopySound
  <2> QED
    BY <1>1, <1>2, <2>1, FailsStays
<1> QED
  BY <1>3, <1>4, <1>5 DEF Lost

(* What an edit leaves of the file: all but the version it replaces. *)
LEMMA EditedFile ==
  ASSUME made \in Nat, NEW was \in Docs, NEW r \in Records, NEW v \in {Gone, made + 1},
         NEW lost, was[r] # Gone => was[r] \in lost, NEW file, file = [was EXCEPT ![r] = v]
  PROVE  /\ Carries(was, file, lost)
         /\ Versions(file) \subseteq Versions(was) \cup {made + 1}
         /\ \A n \in Versions(was) : n \in lost \/ n \in Versions(file)
<1>1. /\ DOMAIN was = Records /\ DOMAIN file = Records /\ file[r] = v
      /\ \A s \in Records \ {r} : file[s] = was[s]
  BY DEF Docs
<1>2. Carries(was, file, lost)
  BY <1>1 DEF Carries
<1>3. Versions(file) \subseteq Versions(was) \cup {made + 1}
  BY <1>1 DEF Versions
<1>4. Versions(was) \ Versions(file) \subseteq lost
  BY <1>2, CarriesVersions
<1> QED
  BY <1>2, <1>3, <1>4

(* The versions in a file are among those made. *)
LEMMA FileVersions ==
  ASSUME IInv, NEW d \in Devices
  PROVE  Versions(disk[d]) \subseteq 1..made /\ made \in Nat /\ read \subseteq 1..made
<1>1. disk[d] \in Docs \cup {NoDoc} /\ made \in Nat /\ read \subseteq 1..made
  BY PassParts DEF IInv, TypeOK
<1>2. CASE disk[d] \in Docs
  BY <1>1, <1>2 DEF Docs, Versions, Gone
<1>3. CASE disk[d] = NoDoc
  BY <1>1, <1>3, CarriesNothing
<1> QED
  BY <1>1, <1>2, <1>3

(* A person edits the file: what the edit replaces is replaced everywhere,    *)
(* and what it makes no device has.                                          *)
LEMMA EditSound ==
  ASSUME IInv, Sound, NEW d \in Devices, NEW r \in Records, NEW v, Edit(d, r, v)
  PROVE  Sound'
<1>1. PICK was : was = (IF disk[d] = NoDoc THEN Empty ELSE disk[d])
  OBVIOUS
<1>2. PICK file, s, p : file = [was EXCEPT ![r] = v] /\ s = saved[d] /\ p = pass[d]
  OBVIOUS
<1>3. /\ UNCHANGED <<relay, saved, pass, faults, read>> /\ v \in {Gone, made + 1}
      /\ disk' = [disk EXCEPT ![d] = file]
      /\ replaced' = replaced \cup ({was[r]} \ {Gone}) \cup ({made + 1} \ {v})
  BY <1>1, <1>2 DEF Edit
<1>4. /\ log' = log /\ copies' = copies /\ read' = read /\ replaced \subseteq replaced'
      /\ was[r] # Gone => was[r] \in replaced'
  BY <1>3 DEF relay
<1>5. made \in Nat /\ was \in Docs
  BY <1>1, PassParts, EmptyIsADoc DEF IInv, TypeOK
<1>6. Carries(was, file, replaced') /\ Versions(file) \subseteq Versions(was) \cup {made + 1}
  BY <1>2, <1>3, <1>4, <1>5, EditedFile
<1>7. /\ Versions(was) = Versions(disk[d])
      /\ made + 1 \notin read /\ \A e \in Devices : made + 1 \notin Versions(disk[e])
  <2>1. Versions(was) = Versions(disk[d])
    BY <1>1, CarriesNothing
  <2>2. made + 1 \notin 1..made
    BY <1>5
  <2> QED
    BY <2>1, <2>2, FileVersions
<1>8. ASSUME NEW x, Carries(x, disk[d], replaced)
      PROVE  Carries(x, file, replaced')
  <2>1. Carries(x, was, replaced)
    BY <1>1, <1>8 DEF Carries, NoDoc
  <2> QED
    BY <1>4, <1>6, <2>1, CarriesMore, CarriesOn
<1>9. \A a, b : Carries(a, b, replaced) => Carries(a, b, replaced')
  BY <1>4, CarriesMore
<1>10. Grows /\ LogSound'
  BY <1>4, <1>9, LogType DEF Grows, Sound, LogSound
<1>11. /\ EntrySound(s.entry) /\ Carries(s.entry.doc, disk[d], replaced)
       /\ PassSound(p, disk[d], s.entry.etag) /\ p \in PassStates
  BY <1>2, PassHas DEF Sound, DeviceSound
<1>12. EntrySound(s.entry)' /\ Carries(s.entry.doc, file, replaced')
  BY <1>4, <1>8, <1>11 DEF EntrySound
<1>13. PassSound(p, file, s.entry.etag)'
  <2>1. p.at # "idle" => EntrySound(p.entry)'
    BY <1>4, <1>11 DEF PassSound, EntrySound
  <2>2. Aims(p)'
    BY <1>10, <1>11, AimsStay DEF PassSound
  <2>3. Holding(p, file, s.entry.etag)'
    BY <1>4, <1>6, <1>7, <1>8, <1>9, <1>11 DEF PassSound, Holding
  <2> QED
    BY <2>1, <2>2, <2>3 DEF PassSound
<1>14. pass' = [pass EXCEPT ![d] = p] /\ saved' = [saved EXCEPT ![d] = s]
  BY <1>2, <1>3 DEF IInv, TypeOK
<1>15. \A e \in Devices \ {d} : \A n \in Versions(disk[e]) :
          /\ n \in read' => n \in read
          /\ n \in Versions(file) => n \in Versions(disk[d]) \/ n \in read'
  BY <1>4, <1>6, <1>7
<1> QED
  BY <1>3, <1>10, <1>12, <1>13, <1>14, <1>15, StepSound

(* At first there is nothing to lose. *)
LEMMA InitSound == Init => Sound
<1> SUFFICES ASSUME Init
             PROVE  Sound
  OBVIOUS
<1>1. /\ log = <<>> /\ copies = {}
      /\ \A d \in Devices : /\ saved[d].entry = NoEntry /\ pass[d] = NoPass
                            /\ disk[d] = NoDoc \/ disk[d] = Empty
  BY DEF Init
<1>2. Len(log) = 0 /\ 1..Len(log) = {}
  BY <1>1
<1>3. LogSound
  BY <1>1, <1>2 DEF LogSound
<1>4. NoEntry.etag = 0 /\ NoEntry.doc = NoDoc
  BY DEF NoEntry
<1>5. ASSUME NEW d \in Devices
      PROVE  DeviceSound(d)
  <2>1. EntrySound(saved[d].entry) /\ Carries(saved[d].entry.doc, disk[d], replaced)
    BY <1>1, <1>4, CarriesNothing DEF EntrySound
  <2>2. Versions(disk[d]) = {}
    BY <1>1, CarriesNothing
  <2>3. PassSound(pass[d], disk[d], saved[d].entry.etag)
    BY <1>1, NoPassSound
  <2> QED
    BY <2>1, <2>2, <2>3 DEF DeviceSound
<1> QED
  BY <1>3, <1>5 DEF Sound

(* A stutter keeps it. *)
LEMMA UnchangedSound ==
  ASSUME Sound, UNCHANGED vars
  PROVE  Sound'
<1>1. /\ log' = log /\ copies' = copies /\ disk' = disk /\ saved' = saved /\ pass' = pass
      /\ read' = read /\ replaced' = replaced
  BY DEF vars, relay, past
<1>2. LogSound'
  BY <1>1 DEF Sound, LogSound
<1>3. ASSUME NEW d \in Devices
      PROVE  DeviceSound(d)'
  <2>1. DeviceSound(d)
    BY DEF Sound
  <2> QED
    BY <1>1, <2>1 DEF DeviceSound, EntrySound, PassSound, Aims, Holding
<1> QED
  BY <1>2, <1>3 DEF Sound

(* Every step keeps it. *)
LEMMA NextSound == IInv /\ Sound /\ [Next]_vars => Sound'
<1> SUFFICES ASSUME IInv, Sound, [Next]_vars
             PROVE  Sound'
  OBVIOUS
<1>1. CASE UNCHANGED vars
  BY <1>1, UnchangedSound
<1>2. ASSUME NEW d \in Devices,
             \/ Step(d) \/ Forget(d) \/ Lost(d) \/ Crash(d)
             \/ \E r \in Records, v \in 0..MaxEdits : Edit(d, r, v)
      PROVE  Sound'
  BY <1>2, BeginSound, GotSound, FreshSound, PutSound, KeepSound, LandSound, SaveSound,
     ForgetSound, LostSound, CrashSound, EditSound DEF Step
<1> QED
  BY <1>1, <1>2 DEF Next

(* So it always holds. *)
LEMMA SoundAlways == Spec => [](IInv /\ Sound)
<1>1. Init => IInv /\ Sound
  BY InitInv, InitSound
<1>2. IInv /\ Sound /\ [Next]_vars => (IInv /\ Sound)'
  BY NextKeeps, NextSound
<1> QED
  BY <1>1, <1>2, PTL DEF Spec

------------------------------------------------------------------------------
(* What survives *)

(* The relay takes nothing whose author had not read its last object. *)
LEMMA GivenKeeps ==
  ASSUME IInv, Sound, NEW d \in Devices, pass[d].at = "put", Accepted(d), Given(d),
         UNCHANGED <<copies, past>>
  PROVE  Versions(Current) \ Versions(Current') \subseteq replaced
<1>1. /\ Len(log) \in Nat /\ Len(log') = Len(log) + 1
      /\ log'[Len(log) + 1] = [counter |-> pass[d].counter, doc |-> pass[d].doc]
      /\ Len(log) # 0 => Carries(log[Len(log)].doc, pass[d].doc, replaced)
  BY GivenSound
<1>2. PICK n : n = Len(log) + 1
  OBVIOUS
<1>3. log' # <<>> /\ log'[Len(log')].doc = pass[d].doc
  BY <1>1
<1>4. Current' = pass[d].doc
  BY <1>3 DEF Current
<1>5. CASE log = <<>>
  BY <1>5, CarriesNothing DEF Current
<1>6. CASE log # <<>>
  <2>1. Len(log) # 0
    BY <1>1, <1>6, LogType
  <2>2. Carries(Current, pass[d].doc, replaced)
    BY <1>1, <1>6, <2>1 DEF Current
  <2> QED
    BY <1>4, <2>2, CarriesVersions
<1> QED
  BY <1>5, <1>6

(* Whatever a step does to the account's copy, it takes from it only what a   *)
(* person replaced, and it takes back no conflict copy.                      *)
LEMMA AccountKeeps ==
  ASSUME IInv, Sound, Next
  PROVE  Versions(Current) \ Versions(Current') \subseteq replaced /\ copies \subseteq copies'
<1>1. CASE UNCHANGED log /\ copies \subseteq copies'
  BY <1>1 DEF Current
<1>2. ASSUME NEW d \in Devices, pass[d].at = "put", Accepted(d), Given(d),
             UNCHANGED <<copies, past>>
      PROVE  Versions(Current) \ Versions(Current') \subseteq replaced /\ copies \subseteq copies'
  BY <1>2, GivenKeeps
<1>3. ASSUME NEW d \in Devices,
             \/ Begin(d) \/ Got(d) \/ Fresh(d) \/ Keep(d) \/ Land(d) \/ Save(d) \/ Forget(d)
             \/ Crash(d) \/ \E r \in Records, v \in 0..MaxEdits : Edit(d, r, v)
      PROVE  UNCHANGED log /\ copies \subseteq copies'
  BY <1>3 DEF Begin, Got, Fresh, Keep, Land, Save, Forget, Crash, Edit, relay
<1>4. ASSUME NEW d \in Devices, Put(d) \/ Lost(d)
      PROVE  \/ UNCHANGED log /\ copies \subseteq copies'
             \/ /\ pass[d].at = "put" /\ Accepted(d) /\ Given(d)
                /\ UNCHANGED <<copies, past>>
  BY <1>4 DEF Put, Lost, relay
<1> QED
  BY <1>1, <1>2, <1>3, <1>4 DEF Next, Step

(* A version leaves the account's copy only because a person edited or        *)
(* deleted it: a put over another object than the one that was read is       *)
(* refused, what is put carries that object, and the merge carries both its  *)
(* sides.                                                                    *)
THEOREM RemovalsArePersons == Spec => OnlyAPersonRemoves
<1>1. IInv /\ Sound /\ [Next]_vars
        => [log # <<>> /\ log' # log
              => Versions(Current) \ Versions(Current') \subseteq replaced]_vars
  BY AccountKeeps
<1> QED
  BY <1>1, SoundAlways, PTL DEF Spec, OnlyAPersonRemoves

(* A version that was somewhere still is, if every file that had it has it,   *)
(* or a copy.                                                                *)
LEMMA StillSomewhere ==
  ASSUME NEW v, Somewhere(v), v \notin replaced', copies \subseteq copies',
         Versions(Current) \ Versions(Current') \subseteq replaced',
         \A e \in Devices : v \in Versions(disk[e])
           => v \in Versions(disk'[e]) \/ \E doc \in copies' : v \in Versions(doc)
  PROVE  Somewhere(v)'
<1>1. CASE v \in Versions(Current)
  BY <1>1 DEF Somewhere
<1>2. CASE \E e \in Devices : v \in Versions(disk[e])
  BY <1>2 DEF Somewhere
<1>3. CASE \E doc \in copies : v \in Versions(doc)
  BY <1>3 DEF Somewhere
<1> QED
  BY <1>1, <1>2, <1>3 DEF Somewhere

(* What lands overwrites nothing that was read and is neither in what lands   *)
(* nor in a conflict copy, unless a copy was noted already.                  *)
LEMMA LandSpares ==
  ASSUME IInv, Sound, NEW d \in Devices, Land(d), pass[d].why # "noted",
         NEW v \in read \ replaced, NEW e \in Devices, v \in Versions(disk[e])
  PROVE  v \in Versions(disk'[e]) \/ \E doc \in copies : v \in Versions(doc)
<1>1. pass[d].at = "land" /\ pass[d].at \in Running
      /\ (UNCHANGED disk \/ disk' = [disk EXCEPT ![d] = pass[d].doc])
  BY DEF Land, Running
<1>2. CASE UNCHANGED disk
  BY <1>2
<1>3. CASE disk' = [disk EXCEPT ![d] = pass[d].doc] /\ e # d
  BY <1>3 DEF IInv, TypeOK
<1>4. CASE disk' = [disk EXCEPT ![d] = pass[d].doc] /\ e = d
  <2>1. v \in Versions(pass[d].body)
    BY <1>1, <1>4, PassHas
  <2>2. pass[d].body \in copies \/ Carries(pass[d].body, pass[d].doc, replaced)
    BY <1>1, PassHas DEF PassSound, Aims
  <2>3. disk'[e] = pass[d].doc
    BY <1>4 DEF IInv, TypeOK
  <2> QED
    BY <2>1, <2>2, <2>3, CarriesVersions
<1> QED
  BY <1>1, <1>2, <1>3, <1>4

(* An edit takes from the files only what it replaces. *)
LEMMA EditSpares ==
  ASSUME IInv, NEW d \in Devices, NEW r \in Records, NEW n, Edit(d, r, n),
         NEW v, v \notin replaced', NEW e \in Devices, v \in Versions(disk[e])
  PROVE  v \in Versions(disk'[e])
<1>1. PICK was : was = (IF disk[d] = NoDoc THEN Empty ELSE disk[d])
  OBVIOUS
<1>2. PICK file : file = [was EXCEPT ![r] = n]
  OBVIOUS
<1>3. /\ disk' = [disk EXCEPT ![d] = file] /\ n \in {Gone, made + 1}
      /\ was[r] # Gone => was[r] \in replaced'
  BY <1>1, <1>2 DEF Edit
<1>4. made \in Nat /\ was \in Docs /\ Versions(was) = Versions(disk[d])
  BY <1>1, PassParts, EmptyIsADoc, CarriesNothing DEF IInv, TypeOK
<1>5. \A m \in Versions(was) : m \in replaced' \/ m \in Versions(file)
  BY <1>2, <1>3, <1>4, EditedFile
<1>6. CASE e = d
  <2>1. disk'[e] = file
    BY <1>3, <1>6 DEF IInv, TypeOK
  <2> QED
    BY <1>4, <1>5, <1>6, <2>1
<1>7. CASE e # d
  BY <1>3, <1>7 DEF IInv, TypeOK
<1> QED
  BY <1>6, <1>7

(* Whatever fails, crashes, rewinds or is forgotten, one step alone loses an  *)
(* edit that a pass has read: what is overwritten is in what lands or is     *)
(* kept first, what is put carries what it replaces, and the file had        *)
(* nothing else that was read.                                               *)
THEOREM ReadEditsSurvive == Spec => EditsSurvive
<1> DEFINE Noted == \E d \in Devices : pass[d].at = "land" /\ pass[d].why = "noted"
           Spared == \A v \in (read \ replaced)' : Somewhere(v) /\ ~Somewhere(v)' => Noted
<1>1. ASSUME IInv, Sound, Next, NEW v \in (read \ replaced)', Somewhere(v), ~Noted
      PROVE  Somewhere(v)'
  <2>0. /\ replaced \subseteq replaced' /\ v \notin replaced'
        /\ Versions(Current) \ Versions(Current') \subseteq replaced'
        /\ copies \subseteq copies'
    <3>1. ASSUME NEW d \in Devices, NEW r \in Records, NEW n \in 0..MaxEdits, Edit(d, r, n)
          PROVE  replaced \subseteq replaced'
      BY <3>1 DEF Edit
    <3>2. ASSUME NEW d \in Devices, Step(d) \/ Forget(d) \/ Lost(d) \/ Crash(d)
          PROVE  UNCHANGED replaced
      BY <3>2 DEF Step, Begin, Got, Fresh, Put, Keep, Land, Save, Forget, Lost, Crash, past
    <3>3. replaced \subseteq replaced'
      BY <1>1, <3>1, <3>2 DEF Next
    <3> QED
      BY <1>1, <3>3, AccountKeeps
  <2>1. CASE UNCHANGED disk
    BY <1>1, <2>0, <2>1, StillSomewhere
  <2>2. ASSUME NEW d \in Devices, Land(d)
        PROVE  Somewhere(v)'
    <3>1. pass[d].at = "land" /\ UNCHANGED past
      BY <2>2 DEF Land
    <3>2. pass[d].why # "noted" /\ v \in read \ replaced
      BY <1>1, <3>1 DEF past
    <3> QED
      BY <1>1, <2>0, <2>2, <3>2, LandSpares, StillSomewhere
  <2>3. ASSUME NEW d \in Devices, NEW r \in Records, NEW n \in 0..MaxEdits, Edit(d, r, n)
        PROVE  Somewhere(v)'
    BY <1>1, <2>0, <2>3, EditSpares, StillSomewhere
  <2>4. ASSUME NEW d \in Devices,
               \/ Begin(d) \/ Got(d) \/ Fresh(d) \/ Put(d) \/ Keep(d) \/ Save(d) \/ Forget(d)
               \/ Lost(d) \/ Crash(d)
        PROVE  UNCHANGED disk
    BY <2>4 DEF Begin, Got, Fresh, Put, Keep, Save, Forget, Lost, Crash
  <2> QED
    BY <1>1, <2>1, <2>2, <2>3, <2>4 DEF Next, Step
<1>2. IInv /\ Sound /\ [Next]_vars => [Spared]_vars
  BY <1>1
<1> QED
  BY <1>2, SoundAlways, PTL DEF Spec, EditsSurvive
==============================================================================
