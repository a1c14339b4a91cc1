----------------------------- MODULE DeviceSync -----------------------------
(***************************************************************************)
(* The sync engine: how one collection of identified records is carried     *)
(* between the devices of an account (src/main/services/addy/sync.ts and    *)
(* merge.ts), while their people edit and any request may fail.             *)
(*                                                                         *)
(* A document gives each record a version, or Gone; NoDoc is a file that    *)
(* does not exist.  Every edit that is not a deletion makes a version of    *)
(* its own.  The relay is external: it keeps every object it was given, an  *)
(* ETag is the place of an object in that log, 0 that of none, and a relay  *)
(* that rewinds answers with an earlier one.                                *)
(***************************************************************************)
EXTENDS Integers, Sequences, FiniteSets

CONSTANTS
  Devices, Records,
  SmallList,     \* a list of at most so many records is not guarded: 5
  MaxEdits,      \* bound: edits of all the devices
  MaxFaults      \* bound: failures, crashes, rewound answers and resyncs

ASSUME BoundsAssumption == SmallList \in Nat /\ MaxEdits \in Nat /\ MaxFaults \in Nat

VARIABLES
  log,       \* the objects the relay was given, the current one last
  copies,    \* the conflict copies it keeps
  disk,      \* the collection as each device's file has it
  saved,     \* opsmaxx-addy-sync.json: the agreement, and the floor under it
  pass,      \* what each device's pass is at: see NoPass
  made,      \* edits made so far
  faults,    \* faults so far
  read,      \* history: versions a pass has read from its own device's file
  replaced   \* history: versions that a person edited or deleted

relay == <<log, copies>>
past  == <<read, replaced>>
vars  == <<relay, disk, saved, pass, made, faults, past>>

Gone == 0
NoDoc == [r \in {} |-> Gone]
Empty == [r \in Records |-> Gone]
Versions(doc) == {doc[r] : r \in DOMAIN doc} \ {Gone}

(* What a device agreed to: where, at which counter, over which document,    *)
(* and the object it last kept a conflict copy against.                      *)
NoEntry == [known |-> FALSE, etag |-> 0, counter |-> 0, doc |-> NoDoc, copied |-> 0]
Entry(etag, counter, doc) ==
  [known |-> TRUE, etag |-> etag, counter |-> counter, doc |-> doc, copied |-> 0]

(* "at" is the request a pass waits for; "why" is what asked for it; "doc",  *)
(* "counter" and "etag" are what is put, or what lands.                      *)
NoPass == [at |-> "idle", body |-> NoDoc, entry |-> NoEntry, floor |-> 0, forgot |-> FALSE,
           why |-> "none", doc |-> NoDoc, counter |-> 0, etag |-> 0]

Bigger(m, n) == IF m >= n THEN m ELSE n

(* floorOf() *)
Floor(entry, floor) == Bigger(entry.counter, floor)
PassFloor(d) == Floor(pass[d].entry, pass[d].floor)

------------------------------------------------------------------------------
(* merge.ts: mergeCollections(), record by record.  Nothing is decided       *)
(* without an ancestor, nor where both changed a record differently.         *)
Changed(base, doc, r) == base[r] = Gone \/ base[r] # doc[r]

OverlapsAt(base, here, there, r) ==
  CASE here[r] # Gone /\ there[r] # Gone ->
         Changed(base, here, r) /\ Changed(base, there, r) /\ here[r] # there[r]
    [] here[r] # Gone /\ there[r] = Gone -> base[r] # Gone /\ Changed(base, here, r)
    [] here[r] = Gone /\ there[r] # Gone -> base[r] # Gone /\ Changed(base, there, r)
    [] OTHER -> FALSE

MergedAt(base, here, there, r) ==
  CASE here[r] # Gone /\ there[r] # Gone -> IF Changed(base, here, r) THEN here[r] ELSE there[r]
    [] here[r] # Gone /\ there[r] = Gone -> IF base[r] # Gone THEN Gone ELSE here[r]
    [] here[r] = Gone /\ there[r] # Gone -> IF base[r] # Gone THEN Gone ELSE there[r]
    [] OTHER -> Gone

Merges(base, here, there) ==
  base # NoDoc /\ \A r \in Records : ~OverlapsAt(base, here, there, r)
Merge(base, here, there) == [r \in Records |-> MergedAt(base, here, there, r)]

(* sync.ts: removesMost() *)
RemovesMost(before, after) ==
  LET were == {r \in Records : before[r] # Gone}
      left == {r \in were : after[r] = Gone}
  IN  Cardinality(were) > SmallList /\ 2 * Cardinality(left) > Cardinality(were)

------------------------------------------------------------------------------
Docs == [Records -> 0..made]
Tags == 0..Len(log)
Entries == [known : BOOLEAN, etag : Tags, counter : Nat, doc : Docs \cup {NoDoc}, copied : Tags]
PassStates ==
  [at : {"idle", "get", "fresh", "put", "keep", "land", "save"},
   body : Docs \cup {NoDoc}, entry : Entries, floor : Nat, forgot : BOOLEAN,
   why : {"none", "create", "union", "push", "merge", "conflict", "first", "bulk", "pull", "noted"},
   doc : Docs \cup {NoDoc}, counter : Nat, etag : Tags]

TypeOK ==
  /\ log \in Seq([counter : Nat, doc : Docs]) /\ copies \subseteq Docs
  /\ disk \in [Devices -> Docs \cup {NoDoc}]
  /\ saved \in [Devices -> [entry : Entries, floor : Nat]]
  /\ \A d \in Devices : saved[d].floor >= saved[d].entry.counter
  /\ pass \in [Devices -> PassStates]
  /\ made \in 0..MaxEdits /\ faults \in 0..MaxFaults
  /\ read \subseteq 1..made /\ replaced \subseteq 1..made

Init ==
  /\ log = <<>> /\ copies = {}
  /\ disk \in [Devices -> {NoDoc, Empty}]
  /\ saved = [d \in Devices |-> [entry |-> NoEntry, floor |-> 0]]
  /\ pass = [d \in Devices |-> NoPass]
  /\ made = 0 /\ faults = 0 /\ read = {} /\ replaced = {}

------------------------------------------------------------------------------
(* The steps a pass is made of *)

Goes(d, p) == pass' = [pass EXCEPT ![d] = p]
Faulty == faults < MaxFaults /\ faults' = faults + 1

(* The collection is done with, agreed to or failed. *)
Ends(d, entry) ==
  Goes(d, [NoPass EXCEPT !.at = "save", !.entry = entry, !.floor = pass[d].floor,
                         !.forgot = pass[d].forgot])
Fails(d) == Ends(d, pass[d].entry)

Goal(d, at, why, doc, counter, etag) ==
  Goes(d, [pass[d] EXCEPT !.at = at, !.why = why, !.doc = doc, !.counter = counter, !.etag = etag])
Puts(d, why, doc, counter, etag) == Goal(d, "put", why, doc, counter, etag)
Lands(d, why, i, counter) == Goal(d, "land", why, log[i].doc, counter, i)
KeepsNothing(d, why, i, counter) == Lands(d, why, i, counter)   \* mutant: nothing is kept first
Keeps(d, why, i, counter) == Goal(d, "keep", why, log[i].doc, counter, i)
Rereads(d, why) == Goes(d, [pass[d] EXCEPT !.at = "fresh", !.why = why])

(* getObject(), from a relay that may have rewound; openObject() refuses a   *)
(* counter below the floor.                                                  *)
Answers(i) ==
  \/ i = Len(log) /\ UNCHANGED faults
  \/ i < Len(log) /\ Faulty
OpensAnything(d, i) == TRUE   \* mutant: no floor
OpensNewer(d, i) == log[i].counter > PassFloor(d)   \* mutant: off by one
Opens(d, i) == log[i].counter >= PassFloor(d)

(* syncOnce() takes up the collection: the state, then the file. *)
Begin(d) ==
  /\ pass[d].at = "idle"
  /\ Goes(d, [NoPass EXCEPT !.at = "get", !.body = disk[d], !.entry = saved[d].entry,
                            !.floor = saved[d].floor])
  /\ read' = read \cup Versions(disk[d])
  /\ UNCHANGED <<relay, disk, saved, made, faults, replaced>>

(* The account has nothing, and nothing is not an edit on first contact. *)
GotNone(d) ==
  LET p == pass[d]
  IN  IF p.body = NoDoc \/ (~p.entry.known /\ p.body = Empty) THEN Fails(d)
      ELSE Puts(d, "create", p.body, PassFloor(d) + 1, 0)

(* First contact: the account's copy is adopted, the union of both put where *)
(* nothing overlaps, and else this device's copy is kept.                    *)
GotFirst(d, i) ==
  LET p == pass[d]
      there == log[i]
  IN  IF p.body = there.doc THEN Ends(d, Entry(i, there.counter, there.doc))
      ELSE IF p.body \in {NoDoc, Empty} THEN Lands(d, "pull", i, there.counter)
      ELSE IF p.floor = 0 /\ Merges(Empty, p.body, there.doc)
           THEN Puts(d, "union", Merge(Empty, p.body, there.doc), there.counter + 1, i)
           ELSE Keeps(d, "first", i, there.counter)

(* Only the relay's copy moved. *)
Pulls(d, i) ==
  LET p == pass[d]
      there == log[i]
  IN  IF RemovesMost(p.body, there.doc) /\ p.entry.copied # i
      THEN Keeps(d, "bulk", i, there.counter)
      ELSE Lands(d, "pull", i, there.counter)

GotKnown(d, i) ==
  LET p == pass[d]
      here == p.body # p.entry.doc
      there == i # p.entry.etag
  IN  CASE ~here /\ ~there -> Fails(d)
        [] here /\ ~there -> Puts(d, "push", p.body, PassFloor(d) + 1, i)
        [] ~here /\ there -> IF Opens(d, i) THEN Pulls(d, i) ELSE Fails(d)
        [] here /\ there -> Rereads(d, "merge")

Got(d) ==
  /\ pass[d].at = "get"
  /\ \E i \in Tags :
       /\ Answers(i)
       /\ IF i = 0 THEN GotNone(d)
          ELSE IF pass[d].body # NoDoc /\ pass[d].entry.known THEN GotKnown(d, i)
          ELSE IF Opens(d, i) THEN GotFirst(d, i)
          ELSE Fails(d)
  /\ UNCHANGED <<relay, disk, saved, made, past>>

(* mergeOrConflict(), over the copy read again. *)
GotToMerge(d, i) ==
  LET p == pass[d]
      there == log[i]
      counter == Bigger(there.counter, PassFloor(d)) + 1
  IN  IF i = 0 \/ ~Opens(d, i) THEN Rereads(d, "conflict")
      ELSE IF there.doc = p.body THEN Ends(d, Entry(i, there.counter, p.body))
      ELSE IF there.doc = p.entry.doc THEN Puts(d, "conflict", p.body, counter, i)
      ELSE IF Merges(p.entry.doc, p.body, there.doc)
           THEN Puts(d, "merge", Merge(p.entry.doc, p.body, there.doc), counter, i)
           ELSE Rereads(d, "conflict")

(* conflictWithRemote(): the relay's copy wins and this one is kept, once    *)
(* for each copy of the relay's.                                             *)
GotToConflict(d, i) ==
  LET p == pass[d]
      there == log[i]
      counter == Bigger(there.counter, PassFloor(d))
  IN  IF i = 0 THEN Puts(d, "conflict", p.body, PassFloor(d) + 1, 0)
      ELSE IF ~Opens(d, i) THEN Fails(d)
      ELSE IF there.doc = p.body THEN Ends(d, Entry(i, counter, p.body))
      ELSE IF p.entry.copied # i THEN Keeps(d, "conflict", i, counter)
      ELSE Lands(d, "noted", i, counter)

Fresh(d) ==
  /\ pass[d].at = "fresh"
  /\ \E i \in Tags :
       /\ Answers(i)
       /\ IF pass[d].why = "merge" THEN GotToMerge(d, i) ELSE GotToConflict(d, i)
  /\ UNCHANGED <<relay, disk, saved, made, past>>

(* putObject(): refused over another object than the one named, and over any *)
(* when none is.  What was put as it is on disk is agreed to; a merged copy  *)
(* has yet to land.                                                          *)
AcceptedAlways(d) == TRUE   \* mutant: a put without If-Match
Accepted(d) == pass[d].etag = Len(log)
Given(d) == log' = Append(log, [counter |-> pass[d].counter, doc |-> pass[d].doc])
Put(d) ==
  LET p == pass[d]
      etag == Len(log) + 1
  IN  /\ p.at = "put"
      /\ IF Accepted(d)
         THEN /\ Given(d)
              /\ IF p.why \in {"union", "merge"} THEN Goes(d, [p EXCEPT !.at = "land", !.etag = etag])
                 ELSE Ends(d, Entry(etag, p.counter, p.body))
         ELSE /\ UNCHANGED log
              /\ CASE p.why \in {"create", "union"} -> Rereads(d, "conflict")
                   [] p.why = "push" -> Rereads(d, "merge")
                   [] OTHER -> Fails(d)
      /\ UNCHANGED <<copies, disk, saved, made, faults, past>>

(* keepAsConflict(), before anything is overwritten.  First contact makes no *)
(* note of it.                                                               *)
Keep(d) ==
  LET p == pass[d]
  IN  /\ p.at = "keep"
      /\ copies' = copies \cup {p.body}
      /\ Goes(d, [p EXCEPT !.at = "land",
                           !.entry = IF p.why = "first" THEN @
                                     ELSE [@ EXCEPT !.known = TRUE, !.copied = p.etag]])
      /\ UNCHANGED <<log, disk, saved, made, faults, past>>

(* writeBack(): the file is written, and what landed is agreed to; the write *)
(* may throw.                                                                *)
Land(d) ==
  LET p == pass[d]
      agreed == Entry(p.etag, p.counter, p.doc)
  IN  /\ p.at = "land"
      /\ \/ /\ disk' = [disk EXCEPT ![d] = p.doc]
            /\ Ends(d, IF p.why = "bulk" THEN [agreed EXCEPT !.copied = p.etag] ELSE agreed)
            /\ UNCHANGED faults
         \/ Faulty /\ UNCHANGED disk /\ Fails(d)
      /\ UNCHANGED <<relay, saved, made, past>>

(* saveState(), unless somebody has forgotten the state meanwhile. *)
Save(d) ==
  LET p == pass[d]
  IN  /\ p.at = "save"
      /\ saved' = IF p.forgot THEN saved
                  ELSE [saved EXCEPT ![d] = [entry |-> p.entry, floor |-> PassFloor(d)]]
      /\ Goes(d, NoPass)
      /\ UNCHANGED <<relay, disk, made, faults, past>>

------------------------------------------------------------------------------
(* People, and what goes wrong *)

Edit(d, r, v) ==
  /\ made < MaxEdits /\ made' = made + 1 /\ v \in {Gone, made + 1}
  /\ LET was == IF disk[d] = NoDoc THEN Empty ELSE disk[d]
     IN  /\ v # was[r]
         /\ disk' = [disk EXCEPT ![d] = [was EXCEPT ![r] = v]]
         /\ replaced' = replaced \cup ({was[r]} \ {Gone}) \cup ({made + 1} \ {v})
  /\ UNCHANGED <<relay, saved, pass, faults, read>>

(* forgetSyncState(), all of it or this collection: the floor stays. *)
Forget(d) ==
  /\ Faulty
  /\ saved' = [saved EXCEPT ![d] = [entry |-> NoEntry, floor |-> Floor(@.entry, @.floor)]]
  /\ pass' = [pass EXCEPT ![d].forgot = pass[d].at # "idle"]
  /\ UNCHANGED <<relay, disk, made, past>>

(* A request fails, before it was done or after. *)
Lost(d) ==
  /\ Faulty
  /\ \/ pass[d].at \in {"get", "fresh", "put", "keep"} /\ UNCHANGED relay
     \/ pass[d].at = "put" /\ Accepted(d) /\ Given(d) /\ UNCHANGED copies
     \/ pass[d].at = "keep" /\ copies' = copies \cup {pass[d].body} /\ UNCHANGED log
  /\ Fails(d)
  /\ UNCHANGED <<disk, saved, made, past>>

(* The app ends; at most the state of the pass is not saved. *)
Crash(d) ==
  /\ Faulty
  /\ pass[d].at # "idle" /\ Goes(d, NoPass)
  /\ UNCHANGED <<relay, disk, saved, made, past>>

Step(d) == Begin(d) \/ Got(d) \/ Fresh(d) \/ Put(d) \/ Keep(d) \/ Land(d) \/ Save(d)

Next ==
  \E d \in Devices :
    \/ Step(d) \/ Forget(d) \/ Lost(d) \/ Crash(d)
    \/ \E r \in Records, v \in 0..MaxEdits : Edit(d, r, v)

(* The timer starts another pass when one has ended, and requests return. *)
Spec == Init /\ [][Next]_vars /\ \A d \in Devices : WF_vars(Step(d))

------------------------------------------------------------------------------
(* Properties *)

Current == IF log = <<>> THEN NoDoc ELSE log[Len(log)].doc
Somewhere(v) ==
  \/ v \in Versions(Current)
  \/ \E d \in Devices : v \in Versions(disk[d])
  \/ \E doc \in copies : v \in Versions(doc)

(* keepAsConflict(): "Hands the losing copy to the relay, still sealed,      *)
(* before anything overwrites it": what a pass has read of its person's      *)
(* edits is in a file, in the account's copy or in a conflict copy.          *)
KeptFirst == \A v \in read \ replaced : Somewhere(v)

(* Whatever fails, crashes, rewinds or is forgotten, only one step loses     *)
(* such an edit: a copy was already noted for the relay's object, and this   *)
(* one is not kept again.                                                    *)
EditsSurvive ==
  [][\A v \in (read \ replaced)' :
       Somewhere(v) /\ ~Somewhere(v)' => \E d \in Devices : pass[d].at = "land" /\ pass[d].why = "noted"]_vars

(* sync.ts: "WHICH ONE WINS IS LESS IMPORTANT THAN THAT NEITHER IS           *)
(* DESTROYED": no edit is, one made during a pass included.                  *)
NeitherIsDestroyed == \A v \in 1..made \ replaced : Somewhere(v)

(* A version leaves the account's copy only because a person, on a device    *)
(* that had it, edited or deleted it: no device puts over what it has not    *)
(* read, and no merge decides against a record.                              *)
OnlyAPersonRemoves ==
  [][log # <<>> /\ log' # log
       => Versions(Current) \ Versions(Current') \subseteq replaced]_vars

(* Whatever the relay rewinds to and whatever is forgotten, the floor under   *)
(* the collection never falls and no agreement is saved below it.            *)
NeverGoesBack ==
  [][\A d \in Devices :
       LET was == saved[d]
           is  == saved'[d]
       IN  /\ is.floor >= was.floor
           /\ is.entry # was.entry /\ is.entry.etag # 0 => is.entry.counter >= was.floor]_vars

(* When people stop editing, every device ends with the account's copy.      *)
Converged ==
  \A d \in Devices :
    IF log = <<>> THEN Versions(disk[d]) = {} ELSE disk[d] = Current
Converges == <>[]Converged

==============================================================================
