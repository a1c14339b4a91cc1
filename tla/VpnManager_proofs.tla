-------------------------- MODULE VpnManager_proofs --------------------------
(***************************************************************************)
(* What is proved of VpnManager for any number of users, runs and queued    *)
(* tasks.                                                                   *)
(***************************************************************************)
EXTENDS VpnManager, TLAPS

(* Only a start is queued for a user who waits for it. *)
Queues == {q \in Seq(Tasks) : \A i \in DOMAIN q : q[i].op # "start" => q[i].by \notin Users}

(* A sidecar lives only in the hands of the driver's entry or of the task    *)
(* under way, and the driver has no entry while a task holds a session; an   *)
(* entry the manager does not know is one a failed start left.               *)
RunInv ==
  /\ engines \subseteq {ours, held}
  /\ held # NoRun => ours = NoRun
  /\ at \in {"open", "up"} => ours = NoRun /\ live # NoRun
  /\ ours = NoRun \/ live # NoRun \/ ours = forgotten

(* Who rides, or is about to, has a sidecar, and no start is under way.      *)
Riding == \E u \in Users : use[u] \in {"asks", "rides"}
RiderInv == Riding => engines # {} /\ at \notin {"up", "kill"}

(* After a stop nothing is left in reach, and the task under way is not a    *)
(* start.                                                                    *)
HaltInv ==
  halted => /\ engines \subseteq OutOfReach
            /\ ours \in {NoRun} \cup OutOfReach /\ live = NoRun
            /\ at \in {"next", "done", "wipe"}

(* What takes a run down is not a start. *)
HeadInv == at \in {"down", "wipe", "done"} => queue # <<>> /\ Head(queue).op # "start"

IInv == TypeOK /\ queue \in Queues /\ RunInv /\ RiderInv /\ HaltInv /\ HeadInv

Stances == {"idle", "waits", "asks", "rides", "cut"}

------------------------------------------------------------------------------
(* The operators the actions are built from *)

LEMMA OneMore ==
  ASSUME NEW q \in Queues, NEW t \in Tasks, t.op = "start" \/ t.by \notin Users
  PROVE  /\ Append(q, t) \in Queues
         /\ q # <<>> => Append(q, t) # <<>> /\ Head(Append(q, t)) = Head(q)
<1>1. q \in Seq(Tasks) /\ \A i \in DOMAIN q : q[i].op # "start" => q[i].by \notin Users
  BY DEF Queues
<1>2. Append(q, t) \in Seq(Tasks) /\ Len(Append(q, t)) = Len(q) + 1
  BY <1>1
<1>3. ASSUME NEW i \in DOMAIN Append(q, t)
      PROVE  Append(q, t)[i] = t \/ (i \in DOMAIN q /\ Append(q, t)[i] = q[i])
  BY <1>1, <1>3
<1>4. Append(q, t) \in Queues
  BY <1>1, <1>2, <1>3 DEF Queues
<1>5. ASSUME q # <<>>
      PROVE  Append(q, t) # <<>> /\ Head(Append(q, t)) = Head(q)
  BY <1>1, <1>5
<1> QED
  BY <1>4, <1>5

LEMMA OneLess ==
  ASSUME NEW q \in Queues, q # <<>>
  PROVE  /\ Tail(q) \in Queues /\ Head(q) \in Tasks
         /\ Head(q).op # "start" => Head(q).by \notin Users
<1>1. q \in Seq(Tasks) /\ \A i \in DOMAIN q : q[i].op # "start" => q[i].by \notin Users
  BY DEF Queues
<1>2. Tail(q) \in Seq(Tasks) /\ Head(q) = q[1] /\ 1 \in DOMAIN q /\ q[1] \in Tasks
  BY <1>1
<1>3. ASSUME NEW i \in DOMAIN Tail(q)
      PROVE  i + 1 \in DOMAIN q /\ Tail(q)[i] = q[i + 1]
  BY <1>1, <1>3
<1> QED
  BY <1>1, <1>2, <1>3 DEF Queues

LEMMA TasksAre ==
  /\ \A op \in {"start", "stop", "drop"}, by \in Users \cup Askers : Task(op, by) \in Tasks
  /\ \A r \in Runs : Drop(r) \in Tasks /\ Drop(r).by \notin Users
  /\ \A a \in Askers : a \notin Users
  BY NamesAssumption DEF Task, Drop, Tasks, Askers

(* What ends the head of the queue leaves a queue, and gives at most the     *)
(* user who asked for it something to ride.                                  *)
LEMMA EndsParts ==
  ASSUME IInv, queue # <<>>, NEW ok \in BOOLEAN, Ends(ok)
  PROVE  /\ at' = "next" /\ queue' \in Queues /\ use' \in [Users -> Stances]
         /\ Riding' => Riding \/ (ok /\ Head(queue).op = "start")
<1>1. Tail(queue) \in Queues /\ Head(queue) \in Tasks
      /\ (Head(queue).op # "start" => Head(queue).by \notin Users)
  BY OneLess DEF IInv
<1>2. Append(Tail(queue), Task("start", "reload")) \in Queues
  <2>1. Task("start", "reload") \in Tasks /\ Task("start", "reload").op = "start"
    BY TasksAre DEF Askers, Task
  <2> QED
    BY <1>1, <2>1, OneMore
<1>3. at' = "next" /\ queue' \in Queues
  BY <1>1, <1>2 DEF Ends
<1>4. use \in [Users -> Stances]
  BY DEF IInv, TypeOK, Stances
<1>5. CASE Head(queue).by \notin Users
  BY <1>3, <1>4, <1>5 DEF Ends, Riding
<1>6. CASE Head(queue).by \in Users
  <2>1. use' = [use EXCEPT ![Head(queue).by] = IF ok THEN "asks" ELSE "idle"]
    BY <1>6 DEF Ends
  <2>2. use' \in [Users -> Stances]
    BY <1>4, <2>1 DEF Stances
  <2>3. Riding' => Riding \/ ok
    BY <1>4, <2>1 DEF Riding
  <2> QED
    BY <1>1, <1>3, <1>6, <2>2, <2>3
<1> QED
  BY <1>5, <1>6

(* Drops that come behind the rest leave a queue with the same head. *)
LEMMA DropsAre ==
  ASSUME NEW q \in Queues, NEW r \in Runs, polls[r] \in 0..MaxPolls,
         NEW more, more = q \o [i \in 1..polls[r] |-> Drop(r)]
  PROVE  /\ more \in Queues
         /\ q # <<>> => more # <<>> /\ Head(more) = Head(q)
<1> DEFINE n == polls[r]
           drops == [i \in 1..n |-> Drop(r)]
<1>1. n \in Nat
  BY NamesAssumption
<1>2. Drop(r) \in Tasks /\ Drop(r).by \notin Users
  BY TasksAre
<1>3. q \in Seq(Tasks) /\ \A i \in DOMAIN q : q[i].op # "start" => q[i].by \notin Users
  BY DEF Queues
<1> HIDE DEF n
<1>4. drops \in Seq(Tasks) /\ Len(drops) = n
  BY <1>1, <1>2
<1>5. /\ more \in Seq(Tasks) /\ Len(more) = Len(q) + n
      /\ \A i \in 1..Len(more) : IF i <= Len(q) THEN more[i] = q[i] ELSE more[i] = drops[i - Len(q)]
  BY <1>1, <1>3, <1>4 DEF n
<1>6. ASSUME NEW i \in DOMAIN more, more[i].op # "start"
      PROVE  more[i].by \notin Users
  <2>1. CASE i <= Len(q)
    BY <1>3, <1>5, <1>6, <2>1
  <2>2. CASE ~(i <= Len(q))
    <3>1. i - Len(q) \in 1..n
      BY <1>1, <1>3, <1>5, <1>6, <2>2
    <3>2. more[i] = Drop(r)
      BY <1>1, <1>3, <1>5, <1>6, <2>2, <3>1
    <3> QED
      BY <1>2, <3>2
  <2> QED
    BY <2>1, <2>2
<1>7. ASSUME q # <<>>
      PROVE  more # <<>> /\ Head(more) = Head(q)
  BY <1>1, <1>3, <1>5, <1>7
<1> QED
  BY <1>5, <1>6, <1>7 DEF Queues

(* A session that ends leaves nobody riding. *)
LEMMA SettledParts ==
  ASSUME IInv, NEW r \in Runs, Settled(r)
  PROVE  queue' \in Queues /\ use' \in [Users -> Stances] /\ ~Riding'
         /\ polls' \in [Runs -> 0..MaxPolls] /\ told' \in States \cup {None}
<1>1. queue \in Queues /\ polls \in [Runs -> 0..MaxPolls] /\ told \in States \cup {None}
  BY DEF IInv, TypeOK
<1>2. use \in [Users -> Stances]
  BY DEF IInv, TypeOK, Stances
<1>6. queue' \in Queues
  BY <1>1, DropsAre DEF Settled
<1>7. polls' \in [Runs -> 0..MaxPolls] /\ told' \in States \cup {None}
  BY <1>1, NamesAssumption DEF Settled
<1>3. \A u \in Users : use'[u] = CASE use[u] = "asks"  -> "idle"
                                   [] use[u] = "rides" -> "cut"
                                   [] OTHER            -> use[u]
  BY DEF Settled
<1>4. use' \in [Users -> Stances]
  BY <1>2 DEF Settled, Stances
<1>5. ~Riding'
  BY <1>2, <1>3 DEF Riding
<1> QED
  BY <1>4, <1>5, <1>6, <1>7

(* It leaves the head of the queue under way. *)
LEMMA SettledHead ==
  ASSUME IInv, queue # <<>>, NEW r \in Runs, Settled(r)
  PROVE  queue' # <<>> /\ Head(queue') = Head(queue)
<1>1. queue \in Queues /\ polls[r] \in 0..MaxPolls
  BY DEF IInv, TypeOK
<1> QED
  BY <1>1, DropsAre DEF Settled

LEMMA PublishParts ==
  ASSUME IInv, NEW s \in States, Publish(s)
  PROVE  status' \in States /\ late' \in States \cup {None}
  BY DEF IInv, TypeOK, Publish, HeldBack

LEMMA QueuesAreQueues == \A q \in Queues : q \in Seq(Tasks)
  BY DEF Queues

------------------------------------------------------------------------------
(* One step at a time *)

LEMMA InitHolds == Init => IInv
<1> SUFFICES ASSUME Init PROVE IInv
  OBVIOUS
<1>1. <<>> \in Queues /\ <<Task("start", "auto")>> \in Queues
  <2>1. Task("start", "auto") \in Tasks /\ Task("start", "auto").op = "start"
    BY TasksAre DEF Askers, Task
  <2>2. <<>> \in Queues
    BY DEF Queues
  <2>3. <<Task("start", "auto")>> = Append(<<>>, Task("start", "auto"))
    OBVIOUS
  <2> QED
    BY <2>1, <2>2, <2>3, OneMore
<1>2. [r \in Runs |-> 0] \in [Runs -> 0..MaxPolls] /\ 0 \in 0..MaxStrays
  BY NamesAssumption
<1> QED
  BY <1>1, <1>2, QueuesAreQueues
     DEF Init, IInv, TypeOK, RunInv, RiderInv, Riding, HaltInv, HeadInv, Places, States

LEMMA StartNeedlessHolds == IInv /\ StartNeedless => IInv'
<1> SUFFICES ASSUME IInv, StartNeedless PROVE IInv'
  OBVIOUS
<1>1. /\ at' = "next" /\ queue' \in Queues /\ use' \in [Users -> Stances]
      /\ (Riding' => Riding \/ (ours \in engines /\ Head(queue).op = "start"))
  <2>1. queue # <<>> /\ Ends(ours \in engines) /\ (ours \in engines) \in BOOLEAN
    BY DEF StartNeedless, StartsNow, Busy
  <2> QED
    BY <2>1, EndsParts
<1> QED
  BY <1>1, QueuesAreQueues, NamesAssumption
     DEF StartNeedless, StartsNow, Places, States, Busy, Goes,
         IInv, TypeOK, RunInv, RiderInv, Riding, HaltInv, OutOfReach, HeadInv, Stances,
         world, manager, driver, bus, riders, past

LEMMA StartOfNothingHolds == IInv /\ StartOfNothing => IInv'
<1> SUFFICES ASSUME IInv, StartOfNothing PROVE IInv'
  OBVIOUS
<1>1. /\ at' = "next" /\ queue' \in Queues /\ use' \in [Users -> Stances]
      /\ (Riding' => Riding \/ (FALSE /\ Head(queue).op = "start"))
  BY EndsParts DEF StartOfNothing, StartsNow, Busy
<1> QED
  BY <1>1, QueuesAreQueues, NamesAssumption
     DEF StartOfNothing, StartsNow, Places, States, Busy, Goes,
         IInv, TypeOK, RunInv, RiderInv, Riding, HaltInv, OutOfReach, HeadInv, Stances,
         world, manager, driver, bus, riders, past

LEMMA StartGoesAheadHolds == IInv /\ StartGoesAhead => IInv'
<1> SUFFICES ASSUME IInv, StartGoesAhead PROVE IInv'
  OBVIOUS
<1>1. Riding' <=> Riding
  BY DEF StartGoesAhead, Riding, riders
<1>2. TypeOK' /\ queue' \in Queues
  BY QueuesAreQueues DEF StartGoesAhead, StartsNow, Places, Busy, Goes, IInv, TypeOK,
                         world, driver, bus, riders
<1>3. RunInv' /\ RiderInv' /\ HaltInv' /\ HeadInv'
  BY <1>1 DEF StartGoesAhead, StartsNow, Busy, Goes, IInv, RunInv, RiderInv, HaltInv, OutOfReach, HeadInv,
              driver
<1> QED
  BY <1>2, <1>3 DEF IInv

LEMMA DirMadeHolds == IInv /\ DirMade => IInv'
<1> SUFFICES ASSUME IInv, DirMade PROVE IInv'
  OBVIOUS
<1> QED
  BY QueuesAreQueues, NamesAssumption
     DEF DirMade, Places, States, Busy, Goes,
         IInv, TypeOK, RunInv, RiderInv, Riding, HaltInv, OutOfReach, HeadInv, Stances,
         world, manager, driver, bus, riders, past

LEMMA SecretsShutHolds == IInv /\ SecretsShut => IInv'
<1> SUFFICES ASSUME IInv, SecretsShut PROVE IInv'
  OBVIOUS
<1> QED
  BY QueuesAreQueues, NamesAssumption
     DEF SecretsShut, Places, States, Busy, Goes,
         IInv, TypeOK, RunInv, RiderInv, Riding, HaltInv, OutOfReach, HeadInv, Stances,
         world, manager, driver, bus, riders, past

LEMMA DirFailsHolds == IInv /\ DirFails => IInv'
<1> SUFFICES ASSUME IInv, DirFails PROVE IInv'
  OBVIOUS
<1>1. /\ at' = "next" /\ queue' \in Queues /\ use' \in [Users -> Stances]
      /\ (Riding' => Riding \/ (FALSE /\ Head(queue).op = "start"))
  BY EndsParts DEF DirFails, StartsNow, Busy
<1>2. status' \in States /\ late' \in States \cup {None}
  BY PublishParts DEF DirFails, States
<1> QED
  BY <1>1, <1>2, QueuesAreQueues, NamesAssumption
     DEF DirFails, Places, States, Busy, Goes,
         IInv, TypeOK, RunInv, RiderInv, Riding, HaltInv, OutOfReach, HeadInv, Stances,
         world, manager, driver, bus, riders, past

LEMMA ShutOutHolds == IInv /\ ShutOut => IInv'
<1> SUFFICES ASSUME IInv, ShutOut PROVE IInv'
  OBVIOUS
<1>1. /\ at' = "next" /\ queue' \in Queues /\ use' \in [Users -> Stances]
      /\ (Riding' => Riding \/ (FALSE /\ Head(queue).op = "start"))
  BY EndsParts DEF ShutOut, StartsNow, Busy
<1>2. status' \in States /\ late' \in States \cup {None}
  BY PublishParts DEF ShutOut, States
<1> QED
  BY <1>1, <1>2, QueuesAreQueues, NamesAssumption
     DEF ShutOut, Places, States, Busy, Goes,
         IInv, TypeOK, RunInv, RiderInv, Riding, HaltInv, OutOfReach, HeadInv, Stances,
         world, manager, driver, bus, riders, past

LEMMA StartUndoneHolds == IInv /\ StartUndone => IInv'
<1> SUFFICES ASSUME IInv, StartUndone PROVE IInv'
  OBVIOUS
<1>1. /\ at' = "next" /\ queue' \in Queues /\ use' \in [Users -> Stances]
      /\ (Riding' => Riding \/ (FALSE /\ Head(queue).op = "start"))
  BY EndsParts DEF StartUndone, StartsNow, Busy
<1>2. status' \in States /\ late' \in States \cup {None}
  BY PublishParts DEF StartUndone, States
<1> QED
  BY <1>1, <1>2, QueuesAreQueues, NamesAssumption
     DEF StartUndone, Places, States, Busy, Goes,
         IInv, TypeOK, RunInv, RiderInv, Riding, HaltInv, OutOfReach, HeadInv, Stances,
         world, manager, driver, bus, riders, past

LEMMA SecretsReadHolds == IInv /\ SecretsRead => IInv'
<1> SUFFICES ASSUME IInv, SecretsRead PROVE IInv'
  OBVIOUS
<1>1. status' \in States /\ late' \in States \cup {None}
  BY PublishParts DEF SecretsRead, States
<1> QED
  BY <1>1, QueuesAreQueues, NamesAssumption
     DEF SecretsRead, Fresh, Places, States, Busy, Goes,
         IInv, TypeOK, RunInv, RiderInv, Riding, HaltInv, OutOfReach, HeadInv, Stances,
         world, manager, driver, bus, riders, past

LEMMA SidecarStartsHolds == IInv /\ SidecarStarts => IInv'
<1> SUFFICES ASSUME IInv, SidecarStarts PROVE IInv'
  OBVIOUS
<1>1. /\ at = "open" /\ at' = "up" /\ held' = live /\ engines' = engines \cup {live}
      /\ live \in Runs /\ ours = NoRun /\ held = NoRun /\ ~halted
  BY NamesAssumption DEF SidecarStarts, Busy, Goes, IInv, TypeOK, RunInv, HaltInv
<1>2. engines = {}
  BY <1>1, NamesAssumption DEF IInv, RunInv, TypeOK
<1>3. ~Riding'
  BY <1>2 DEF SidecarStarts, riders, Riding, IInv, RiderInv
<1>4. TypeOK' /\ queue' \in Queues
  BY <1>1, NamesAssumption
     DEF SidecarStarts, Places, Goes, IInv, TypeOK, world, bus, riders, past
<1>5. RunInv' /\ RiderInv' /\ HaltInv' /\ HeadInv'
  BY <1>1, <1>2, <1>3, NamesAssumption
     DEF SidecarStarts, RunInv, RiderInv, HaltInv, OutOfReach, HeadInv, past
<1> QED
  BY <1>4, <1>5 DEF IInv

LEMMA SidecarDoesNotHolds == IInv /\ SidecarDoesNot => IInv'
<1> SUFFICES ASSUME IInv, SidecarDoesNot PROVE IInv'
  OBVIOUS
<1> QED
  BY QueuesAreQueues, NamesAssumption
     DEF SidecarDoesNot, CleansUp, Places, States, Busy, Goes,
         IInv, TypeOK, RunInv, RiderInv, Riding, HaltInv, OutOfReach, HeadInv, Stances,
         world, manager, driver, bus, riders, past

LEMMA NodeAnswersHolds == ASSUME IInv, NEW b \in Backends, NodeAnswers(b) PROVE IInv'
<1>1. b \in States
  BY NamesAssumption
<1>2. ASSUME b = "error"
      PROVE  status' \in States /\ late' \in States \cup {None}
  BY <1>2, PublishParts DEF NodeAnswers, States
<1>3. ASSUME b # "error"
      PROVE  /\ at' = "next" /\ queue' \in Queues /\ use' \in [Users -> Stances]
             /\ status' \in States /\ late' \in States \cup {None}
             /\ UNCHANGED <<live, forgotten>>
  BY <1>1, <1>3, EndsParts DEF NodeAnswers, HeldBack, States, Busy, IInv, TypeOK
<1>4. held \in engines /\ held \in Runs /\ at = "up"
  BY DEF NodeAnswers, Alive, Busy, IInv, TypeOK
<1>5. ~halted
  BY <1>4 DEF IInv, HaltInv
<1>6. CASE b = "error"
  BY <1>1, <1>2, <1>4, <1>5, <1>6, QueuesAreQueues, NamesAssumption
     DEF NodeAnswers, CleansUp, Places, States, Busy, Goes,
         IInv, TypeOK, RunInv, RiderInv, Riding, HaltInv, OutOfReach, HeadInv, Stances,
         world, manager, driver, bus, riders, past
<1>7. CASE b # "error"
  BY <1>1, <1>3, <1>4, <1>5, <1>7, QueuesAreQueues, NamesAssumption
     DEF NodeAnswers, Places, States, Busy,
         IInv, TypeOK, RunInv, RiderInv, Riding, HaltInv, OutOfReach, HeadInv, Stances,
         world, manager, driver, bus, riders, past
<1> QED
  BY <1>6, <1>7

LEMMA NodeFailsHolds == IInv /\ NodeFails => IInv'
<1> SUFFICES ASSUME IInv, NodeFails PROVE IInv'
  OBVIOUS
<1>1. ASSUME Alive(held)
      PROVE  queue' \in Queues /\ use' \in [Users -> Stances] /\ ~Riding'
             /\ polls' \in [Runs -> 0..MaxPolls] /\ told' \in States \cup {None}
             /\ queue' # <<>> /\ Head(queue') = Head(queue)
  <2>1. Settled(held) /\ held \in Runs /\ queue # <<>>
    BY <1>1 DEF NodeFails, Busy, Alive, IInv, TypeOK
  <2> QED
    BY <2>1, SettledParts, SettledHead
<1> QED
  BY <1>1, QueuesAreQueues, NamesAssumption
     DEF NodeFails, Alive, CleansUp, Places, States, Busy, Goes,
         IInv, TypeOK, RunInv, RiderInv, Riding, HaltInv, OutOfReach, HeadInv, Stances,
         world, manager, driver, bus, riders, past

LEMMA KillsParts ==
  ASSUME IInv, NEW r, Kills(r)
  PROVE  engines' = engines \ {r} /\ strays' \in 0..MaxStrays
  BY DEF Kills, IInv, TypeOK

LEMMA StartKilledHolds == IInv /\ StartKilled => IInv'
<1> SUFFICES ASSUME IInv, StartKilled PROVE IInv'
  OBVIOUS
<1>1. /\ at = "kill" /\ at' = "undo" /\ held' = NoRun /\ engines' = engines \ {held}
      /\ held # NoRun /\ ours = NoRun /\ ours' = NoRun /\ live' = NoRun
  BY KillsParts DEF StartKilled, Busy, Goes, CleansUp, IInv, TypeOK, RunInv
<1>2. engines' = {} /\ ~halted
  BY <1>1, NamesAssumption DEF IInv, RunInv, HaltInv, TypeOK
<1>3. ~Riding'
  BY <1>1 DEF StartKilled, Riding, IInv, RiderInv
<1>4. TypeOK' /\ queue' \in Queues
  BY <1>1, <1>2, KillsParts, NamesAssumption
     DEF StartKilled, CleansUp, Places, Goes, IInv, TypeOK, world, bus, past
<1>5. RunInv' /\ RiderInv' /\ HaltInv' /\ HeadInv'
  BY <1>1, <1>2, <1>3 DEF StartKilled, RunInv, RiderInv, HaltInv, OutOfReach, HeadInv, past
<1> QED
  BY <1>4, <1>5 DEF IInv

LEMMA NothingToStopHolds == IInv /\ NothingToStop => IInv'
<1> SUFFICES ASSUME IInv, NothingToStop PROVE IInv'
  OBVIOUS
<1> QED
  BY QueuesAreQueues, NamesAssumption
     DEF NothingToStop, TakesDown, Places, States, Busy, Goes,
         IInv, TypeOK, RunInv, RiderInv, Riding, HaltInv, OutOfReach, HeadInv, Stances,
         world, manager, driver, bus, riders, past

(* The driver's stop() is followed by what the manager has left to do. *)
LEMMA TornDownParts ==
  ASSUME IInv, TornDown
  PROVE  /\ status' \in States \cup {None} /\ late' \in States \cup {None}
         /\ halted' \in BOOLEAN /\ (halted' => halted \/ IsStop)
         /\ at' \in {"wipe", "done"} /\ live' = NoRun
<1>1. CASE IsStop
  BY <1>1, PublishParts DEF TornDown, CleansUp, States
<1>2. CASE ~IsStop
  BY <1>2 DEF TornDown, CleansUp, IInv, TypeOK, bus
<1> QED
  BY <1>1, <1>2

LEMMA StopKilledHolds == IInv /\ StopKilled => IInv'
<1> SUFFICES ASSUME IInv, StopKilled PROVE IInv'
  OBVIOUS
<1>1. engines' = engines \ {held} /\ strays' \in 0..MaxStrays
  BY KillsParts DEF StopKilled
<1> QED
  BY <1>1, TornDownParts, QueuesAreQueues, NamesAssumption
     DEF StopKilled, Places, States, Busy, Goes,
         IInv, TypeOK, RunInv, RiderInv, Riding, HaltInv, OutOfReach, HeadInv, Stances,
         world, manager, driver, bus, riders, past

LEMMA NodeDownHolds == IInv /\ NodeDown => IInv'
<1> SUFFICES ASSUME IInv, NodeDown PROVE IInv'
  OBVIOUS
<1>1. ASSUME Alive(held)
      PROVE  queue' \in Queues /\ use' \in [Users -> Stances] /\ ~Riding'
             /\ polls' \in [Runs -> 0..MaxPolls] /\ told' \in States \cup {None}
             /\ queue' # <<>> /\ Head(queue') = Head(queue)
  <2>1. Settled(held) /\ held \in Runs /\ queue # <<>>
    BY <1>1 DEF NodeDown, Busy, Alive, IInv, TypeOK
  <2> QED
    BY <2>1, SettledParts, SettledHead
<1> QED
  BY <1>1, TornDownParts, QueuesAreQueues, NamesAssumption
     DEF NodeDown, Alive, Places, States, Busy, Goes,
         IInv, TypeOK, RunInv, RiderInv, Riding, HaltInv, OutOfReach, HeadInv, Stances,
         world, manager, driver, bus, riders, past

LEMMA WipedHolds == IInv /\ Wiped => IInv'
<1> SUFFICES ASSUME IInv, Wiped PROVE IInv'
  OBVIOUS
<1> QED
  BY QueuesAreQueues, NamesAssumption
     DEF Wiped, Places, States, Busy, Goes,
         IInv, TypeOK, RunInv, RiderInv, Riding, HaltInv, OutOfReach, HeadInv, Stances,
         world, manager, driver, bus, riders, past

LEMMA StopAnsweredHolds == IInv /\ StopAnswered => IInv'
<1> SUFFICES ASSUME IInv, StopAnswered PROVE IInv'
  OBVIOUS
<1>1. /\ at' = "next" /\ queue' \in Queues /\ use' \in [Users -> Stances]
      /\ (Riding' => Riding \/ (TRUE /\ Head(queue).op = "start"))
  BY EndsParts DEF StopAnswered, StartsNow, Busy
<1> QED
  BY <1>1, QueuesAreQueues, NamesAssumption
     DEF StopAnswered, Places, States, Busy, Goes,
         IInv, TypeOK, RunInv, RiderInv, Riding, HaltInv, OutOfReach, HeadInv, Stances,
         world, manager, driver, bus, riders, past

LEMMA StopBeginsHolds == IInv /\ StopBegins => IInv'
<1> SUFFICES ASSUME IInv, StopBegins PROVE IInv'
  OBVIOUS
<1>1. at = "next" /\ queue # <<>> /\ Head(queue).op # "start" /\ held = NoRun
  BY DEF StopBegins, TakesDown, Busy, IInv, TypeOK
<1>2. CASE ours \in engines
  <2>1. status' \in States \cup {None} /\ late' \in States \cup {None}
    <3>1. CASE IsStop
      BY <1>2, <3>1 DEF StopBegins, IInv, TypeOK, bus
    <3>2. CASE ~IsStop
      BY <1>2, <3>2, PublishParts DEF StopBegins, States
    <3> QED
      BY <3>1, <3>2
  <2>2. ours \in Runs /\ ~halted
    BY <1>2, NamesAssumption DEF StopBegins, IInv, TypeOK, HaltInv, OutOfReach
  <2>3. told' \in States \cup {None} /\ registered' \subseteq Keys /\ unlisted' \subseteq Keys
    BY <1>2 DEF StopBegins, IInv, TypeOK
  <2> QED
    BY <1>1, <1>2, <2>1, <2>2, <2>3, QueuesAreQueues, NamesAssumption
       DEF StopBegins, Places, States,
           IInv, TypeOK, RunInv, RiderInv, Riding, HaltInv, OutOfReach, HeadInv, Stances,
           world, manager, driver, bus, riders, past
<1>3. CASE ours \notin engines
  <2>1. engines = {}
    BY <1>1, <1>3, NamesAssumption DEF IInv, RunInv, TypeOK
  <2>2. /\ status' \in States \cup {None} /\ late' \in States \cup {None}
        /\ halted' \in BOOLEAN /\ at' \in {"wipe", "done"} /\ live' = NoRun
    <3>1. CASE IsStop
      BY <1>3, <3>1, TornDownParts DEF StopBegins
    <3>2. CASE ~IsStop
      BY <1>3, <3>2, PublishParts DEF StopBegins, CleansUp, States, past, IInv, TypeOK
    <3> QED
      BY <3>1, <3>2
  <2> QED
    BY <1>1, <1>3, <2>1, <2>2, QueuesAreQueues, NamesAssumption
       DEF StopBegins, Places, States,
           IInv, TypeOK, RunInv, RiderInv, Riding, HaltInv, OutOfReach, HeadInv, Stances,
           world, manager, driver, bus, riders, past
<1> QED
  BY <1>2, <1>3

(* What is queued last does not change what is under way. *)
LEMMA Queued ==
  ASSUME IInv, NEW t \in Tasks, t.op = "start" \/ t.by \notin Users, queue' = Append(queue, t)
  PROVE  /\ queue' \in Queues
         /\ at \in {"down", "wipe", "done"} => queue' # <<>> /\ Head(queue').op # "start"
<1>1. queue \in Queues
  BY DEF IInv
<1>2. queue' \in Queues
  BY <1>1, OneMore
<1>3. ASSUME at \in {"down", "wipe", "done"}
      PROVE  queue' # <<>> /\ Head(queue').op # "start"
  <2>1. queue # <<>> /\ Head(queue).op # "start"
    BY <1>3 DEF IInv, HeadInv
  <2> QED
    BY <1>1, <2>1, OneMore
<1> QED
  BY <1>2, <1>3

LEMMA LateSentHolds == IInv /\ LateSent => IInv'
<1> SUFFICES ASSUME IInv, LateSent PROVE IInv'
  OBVIOUS
<1>1. Riding' <=> Riding
  BY DEF LateSent, Riding, riders
<1> QED
  BY <1>1, QueuesAreQueues, NamesAssumption
     DEF LateSent, manager, IInv,
         TypeOK, RunInv, RiderInv, HaltInv, OutOfReach, HeadInv,
         world, manager, driver, bus, riders, past

LEMMA PersonAsksHolds == IInv /\ PersonAsks => IInv'
<1> SUFFICES ASSUME IInv, PersonAsks PROVE IInv'
  OBVIOUS
<1>1. queue' \in Queues
      /\ (at \in {"down", "wipe", "done"} => queue' # <<>> /\ Head(queue').op # "start")
  <2>1. CASE Asked("start", "person")
    <3>1. /\ Task("start", "person") \in Tasks
          /\ Task("start", "person").op = "start" \/ Task("start", "person").by \notin Users
      BY TasksAre DEF Task, Drop, Askers, IInv, TypeOK
    <3>2. queue' = Append(queue, Task("start", "person"))
      BY <2>1 DEF Asked
    <3> QED
      BY <3>1, <3>2, Queued
  <2>2. CASE Asked("stop", "person")
    <3>1. /\ Task("stop", "person") \in Tasks
          /\ Task("stop", "person").op = "start" \/ Task("stop", "person").by \notin Users
      BY TasksAre DEF Task, Drop, Askers, IInv, TypeOK
    <3>2. queue' = Append(queue, Task("stop", "person"))
      BY <2>2 DEF Asked
    <3> QED
      BY <3>1, <3>2, Queued
  <2>3. CASE Asked("stop", "reload")
    <3>1. /\ Task("stop", "reload") \in Tasks
          /\ Task("stop", "reload").op = "start" \/ Task("stop", "reload").by \notin Users
      BY TasksAre DEF Task, Drop, Askers, IInv, TypeOK
    <3>2. queue' = Append(queue, Task("stop", "reload"))
      BY <2>3 DEF Asked
    <3> QED
      BY <3>1, <3>2, Queued
  <2> QED
    BY <2>1, <2>2, <2>3 DEF PersonAsks
<1>2. Riding' <=> Riding
  BY DEF PersonAsks, Riding, riders
<1> QED
  BY <1>1, <1>2, QueuesAreQueues, NamesAssumption
     DEF PersonAsks, IInv, TypeOK, RunInv, RiderInv, HaltInv, OutOfReach, HeadInv,
         world, manager, driver, bus, riders, past

LEMMA UserDialsHolds == ASSUME IInv, NEW u \in Users, UserDials(u) PROVE IInv'
<1>1. queue' \in Queues
      /\ (at \in {"down", "wipe", "done"} => queue' # <<>> /\ Head(queue').op # "start")
  <2>1. Task("start", u) \in Tasks /\ Task("start", u).op = "start"
    BY TasksAre DEF Task
  <2>2. queue' = Append(queue, Task("start", u))
    BY DEF UserDials, Asked
  <2> QED
    BY <2>1, <2>2, Queued
<1>2. use \in [Users -> Stances] /\ use' = [use EXCEPT ![u] = "waits"]
  BY DEF UserDials, IInv, TypeOK, Stances
<1>3. use' \in [Users -> Stances] /\ (Riding' => Riding)
  BY <1>2 DEF Riding, Stances
<1> QED
  BY <1>1, <1>3, QueuesAreQueues, NamesAssumption
     DEF UserDials, IInv, TypeOK, RunInv, RiderInv, HaltInv, OutOfReach, HeadInv, Stances,
         world, manager, driver, bus, riders, past

LEMMA ForwardOpenedHolds == ASSUME IInv, NEW u \in Users, ForwardOpened(u) PROVE IInv'
<1>1. use \in [Users -> Stances] /\ use' = [use EXCEPT ![u] = "rides"] /\ KeyOf[u] \in Keys
  BY NamesAssumption DEF ForwardOpened, IInv, TypeOK, Stances
<1>2. use' \in [Users -> Stances] /\ (Riding' => Riding)
  BY <1>1 DEF ForwardOpened, Riding, Stances
<1> QED
  BY <1>1, <1>2, QueuesAreQueues, NamesAssumption
     DEF ForwardOpened, IInv, TypeOK, RunInv, RiderInv, HaltInv, OutOfReach, HeadInv, Stances,
         world, manager, driver, bus, riders, past

LEMMA ForwardRefusedHolds == ASSUME IInv, NEW u \in Users, ForwardRefused(u) PROVE IInv'
<1>1. use \in [Users -> Stances] /\ use' = [use EXCEPT ![u] = "idle"] /\ KeyOf[u] \in Keys
  BY NamesAssumption DEF ForwardRefused, IInv, TypeOK, Stances
<1>2. use' \in [Users -> Stances] /\ (Riding' => Riding)
  BY <1>1 DEF ForwardRefused, Riding, Stances
<1> QED
  BY <1>1, <1>2, QueuesAreQueues, NamesAssumption
     DEF ForwardRefused, IInv, TypeOK, RunInv, RiderInv, HaltInv, OutOfReach, HeadInv, Stances,
         world, manager, driver, bus, riders, past

LEMMA UserLeavesHolds == ASSUME IInv, NEW u \in Users, UserLeaves(u) PROVE IInv'
<1>1. use \in [Users -> Stances] /\ use' = [use EXCEPT ![u] = "idle"] /\ KeyOf[u] \in Keys
  BY NamesAssumption DEF UserLeaves, IInv, TypeOK, Stances
<1>2. use' \in [Users -> Stances] /\ (Riding' => Riding)
  BY <1>1 DEF UserLeaves, Riding, Stances
<1> QED
  BY <1>1, <1>2, QueuesAreQueues, NamesAssumption
     DEF UserLeaves, IInv, TypeOK, RunInv, RiderInv, HaltInv, OutOfReach, HeadInv, Stances,
         world, manager, driver, bus, riders, past

LEMMA DeletedHolds == IInv /\ Deleted => IInv'
<1> SUFFICES ASSUME IInv, Deleted PROVE IInv'
  OBVIOUS
<1>1. queue' \in Queues
      /\ (at \in {"down", "wipe", "done"} => queue' # <<>> /\ Head(queue').op # "start")
  <2>1. CASE live = NoRun
    BY <2>1 DEF Deleted, IInv, HeadInv
  <2>2. CASE live # NoRun
    <3>1. /\ Task("stop", "sync") \in Tasks
          /\ Task("stop", "sync").op = "start" \/ Task("stop", "sync").by \notin Users
      BY TasksAre DEF Task, Drop, Askers, IInv, TypeOK
    <3>2. queue' = Append(queue, Task("stop", "sync"))
      BY <2>2 DEF Deleted
    <3> QED
      BY <3>1, <3>2, Queued
  <2> QED
    BY <2>1, <2>2 DEF Deleted
<1>2. Riding' <=> Riding
  BY DEF Deleted, Riding, riders
<1>3. TypeOK'
  BY <1>1, QueuesAreQueues, NamesAssumption
     DEF Deleted, IInv, TypeOK, world, manager, driver, bus, riders, past
<1>4. RunInv' /\ RiderInv' /\ HeadInv'
  BY <1>1, <1>2
     DEF Deleted, IInv, RunInv, RiderInv, HeadInv, world, manager, driver, bus, riders, past
<1>5. HaltInv'
  BY DEF Deleted, IInv, HaltInv, OutOfReach, world, manager, driver, bus, riders, past
<1> QED
  BY <1>1, <1>3, <1>4, <1>5 DEF IInv

LEMMA UnlockedHolds == IInv /\ Unlocked => IInv'
<1> SUFFICES ASSUME IInv, Unlocked PROVE IInv'
  OBVIOUS
<1>1. queue' \in Queues
      /\ (at \in {"down", "wipe", "done"} => queue' # <<>> /\ Head(queue').op # "start")
  <2>1. CASE ~(blocked /\ known)
    BY <2>1 DEF Unlocked, IInv, HeadInv
  <2>2. CASE blocked /\ known
    <3>1. /\ Task("start", "auto") \in Tasks
          /\ Task("start", "auto").op = "start" \/ Task("start", "auto").by \notin Users
      BY TasksAre DEF Task, Drop, Askers, IInv, TypeOK
    <3>2. queue' = Append(queue, Task("start", "auto"))
      BY <2>2 DEF Unlocked
    <3> QED
      BY <3>1, <3>2, Queued
  <2> QED
    BY <2>1, <2>2 DEF Unlocked
<1>2. Riding' <=> Riding
  BY DEF Unlocked, Riding, riders
<1>3. TypeOK'
  BY <1>1, QueuesAreQueues, NamesAssumption
     DEF Unlocked, IInv, TypeOK, world, manager, driver, bus, riders, past
<1>4. RunInv' /\ RiderInv' /\ HeadInv'
  BY <1>1, <1>2
     DEF Unlocked, IInv, RunInv, RiderInv, HeadInv, world, manager, driver, bus, riders, past
<1>5. HaltInv'
  BY DEF Unlocked, IInv, HaltInv, OutOfReach, world, manager, driver, bus, riders, past
<1> QED
  BY <1>1, <1>3, <1>4, <1>5 DEF IInv

LEMMA LockedHolds == IInv /\ Locked => IInv'
<1> SUFFICES ASSUME IInv, Locked PROVE IInv'
  OBVIOUS
<1>1. Riding' <=> Riding
  BY DEF Locked, Riding, riders
<1>2. TypeOK' /\ queue' \in Queues
  BY QueuesAreQueues, NamesAssumption
     DEF Locked, IInv, TypeOK, world, manager, driver, bus, riders, past
<1>3. RunInv' /\ RiderInv' /\ HeadInv'
  BY <1>1 DEF Locked, IInv, RunInv, RiderInv, HeadInv, world, manager, driver, bus, riders, past
<1>4. HaltInv'
  BY DEF Locked, IInv, HaltInv, OutOfReach, world, manager, driver, bus, riders, past
<1> QED
  BY <1>2, <1>3, <1>4 DEF IInv

LEMMA PollSentHolds == IInv /\ PollSent => IInv'
<1> SUFFICES ASSUME IInv, PollSent PROVE IInv'
  OBVIOUS
<1>1. Riding' <=> Riding
  BY DEF PollSent, Riding, riders
<1>2. polls' \in [Runs -> 0..MaxPolls]
  <2>1. polls \in [Runs -> 0..MaxPolls] /\ polls[ours] + 1 \in 0..MaxPolls
    BY NamesAssumption DEF PollSent, IInv, TypeOK
  <2> QED
    BY <2>1 DEF PollSent
<1> QED
  BY <1>1, <1>2, QueuesAreQueues, NamesAssumption
     DEF PollSent, IInv, TypeOK, RunInv, RiderInv, HaltInv, OutOfReach, HeadInv,
         world, manager, driver, bus, riders, past

LEMMA PollFailsHolds == ASSUME IInv, NEW r \in Runs, PollFails(r) PROVE IInv'
<1>1. queue' \in Queues
      /\ (at \in {"down", "wipe", "done"} => queue' # <<>> /\ Head(queue').op # "start")
  <2>1. Drop(r) \in Tasks /\ Drop(r).by \notin Users
    BY TasksAre
  <2> QED
    BY <2>1, Queued DEF PollFails
<1>2. Riding' <=> Riding
  BY DEF PollFails, Riding, riders
<1>3. polls' \in [Runs -> 0..MaxPolls]
  <2>1. polls \in [Runs -> 0..MaxPolls] /\ polls[r] - 1 \in 0..MaxPolls
    BY NamesAssumption DEF PollFails, IInv, TypeOK
  <2> QED
    BY <2>1 DEF PollFails
<1>4. TypeOK'
  BY <1>1, <1>3, QueuesAreQueues DEF PollFails, IInv, TypeOK, world, bus, riders, past
<1>5. RunInv' /\ RiderInv' /\ HaltInv' /\ HeadInv'
  BY <1>1, <1>2
     DEF PollFails, IInv, RunInv, RiderInv, HaltInv, OutOfReach, HeadInv, past, world
<1> QED
  BY <1>1, <1>4, <1>5 DEF IInv

LEMMA PollAnsweredHolds ==
  ASSUME IInv, NEW r \in Runs, NEW b \in Backends, PollAnswered(r, b) PROVE IInv'
<1>1. b \in States
  BY NamesAssumption
<1>2. status' \in States \cup {None} /\ late' \in States \cup {None}
  BY <1>1, PublishParts DEF PollAnswered, bus, IInv, TypeOK
<1>3. Riding' <=> Riding
  BY DEF PollAnswered, Riding, riders
<1>4. polls' \in [Runs -> 0..MaxPolls] /\ told' \in States \cup {None}
  <2>1. polls \in [Runs -> 0..MaxPolls] /\ polls[r] - 1 \in 0..MaxPolls
    BY NamesAssumption DEF PollAnswered, IInv, TypeOK
  <2> QED
    BY <1>1, <2>1 DEF PollAnswered
<1> QED
  BY <1>2, <1>3, <1>4, QueuesAreQueues, NamesAssumption
     DEF PollAnswered, IInv, TypeOK, RunInv, RiderInv, HaltInv, OutOfReach, HeadInv,
         world, manager, driver, bus, riders, past

LEMMA StrayExitsHolds == IInv /\ StrayExits => IInv'
<1> SUFFICES ASSUME IInv, StrayExits PROVE IInv'
  OBVIOUS
<1>1. strays' \in 0..MaxStrays
  BY NamesAssumption DEF StrayExits, IInv, TypeOK
<1> QED
  BY <1>1, QueuesAreQueues
     DEF StrayExits, IInv, TypeOK, RunInv, RiderInv, Riding, HaltInv, OutOfReach, HeadInv,
         world, manager, driver, bus, riders, past

LEMMA SidecarExitsHolds == ASSUME IInv, NEW r \in Runs, SidecarExits(r) PROVE IInv'
<1>1. /\ queue' \in Queues /\ use' \in [Users -> Stances] /\ ~Riding'
      /\ polls' \in [Runs -> 0..MaxPolls] /\ told' \in States \cup {None}
  BY SettledParts DEF SidecarExits
<1>2. ASSUME at \in {"down", "wipe", "done"}
      PROVE  queue' # <<>> /\ Head(queue').op # "start"
  <2>1. queue # <<>> /\ Head(queue).op # "start"
    BY <1>2 DEF IInv, HeadInv
  <2> QED
    BY <2>1, SettledHead DEF SidecarExits
<1> QED
  BY <1>1, <1>2, QueuesAreQueues, NamesAssumption
     DEF SidecarExits, IInv, TypeOK, RunInv, RiderInv, HaltInv, OutOfReach, HeadInv, Stances,
         world, manager, driver, bus, riders, past

LEMMA StutterHolds == IInv /\ UNCHANGED vars => IInv'
  BY DEF IInv, TypeOK, RunInv, RiderInv, Riding, HaltInv, OutOfReach, HeadInv, Stances, vars,
         world, manager, driver, bus, riders, past

------------------------------------------------------------------------------
(* The specification *)

LEMMA NextHolds == IInv /\ [Next]_vars => IInv'
<1> SUFFICES ASSUME IInv, [Next]_vars PROVE IInv'
  OBVIOUS
<1>1. CASE Begins
  BY <1>1, StartNeedlessHolds, StartOfNothingHolds, StartGoesAheadHolds, NothingToStopHolds,
     StopBeginsHolds DEF Begins
<1>2. CASE StartSteps
  <2>1. ASSUME NEW b \in Backends, NodeAnswers(b)
        PROVE  IInv'
    BY <2>1, NodeAnswersHolds
  <2> QED
    BY <1>2, <2>1, DirMadeHolds, DirFailsHolds, SecretsReadHolds, SecretsShutHolds,
       ShutOutHolds, SidecarStartsHolds, SidecarDoesNotHolds, NodeFailsHolds,
       StartKilledHolds, StartUndoneHolds DEF StartSteps
<1>3. CASE StopSteps
  BY <1>3, NodeDownHolds, StopKilledHolds, WipedHolds, StopAnsweredHolds DEF StopSteps
<1>4. CASE LateSent \/ PollSent \/ PersonAsks \/ Deleted \/ Unlocked \/ Locked \/ StrayExits
  BY <1>4, LateSentHolds, PollSentHolds, PersonAsksHolds, DeletedHolds, UnlockedHolds,
     LockedHolds, StrayExitsHolds
<1>5. CASE Polls
  <2>1. ASSUME NEW r \in Runs, NEW b \in Backends, PollAnswered(r, b)
        PROVE  IInv'
    BY <2>1, PollAnsweredHolds
  <2>2. ASSUME NEW r \in Runs, PollFails(r)
        PROVE  IInv'
    BY <2>2, PollFailsHolds
  <2> QED
    BY <1>5, <2>1, <2>2 DEF Polls
<1>6. ASSUME NEW u \in Users, UserDials(u) \/ Forwards(u) \/ UserLeaves(u)
      PROVE  IInv'
  BY <1>6, UserDialsHolds, ForwardOpenedHolds, ForwardRefusedHolds, UserLeavesHolds
     DEF Forwards
<1>7. ASSUME NEW r \in Runs, SidecarExits(r)
      PROVE  IInv'
  BY <1>7, SidecarExitsHolds
<1>8. CASE UNCHANGED vars
  BY <1>8, StutterHolds
<1> QED
  BY <1>1, <1>2, <1>3, <1>4, <1>5, <1>6, <1>7, <1>8 DEF Next, Steps

LEMMA Inductive == Spec => []IInv
  BY InitHolds, NextHolds, PTL DEF Spec

(* What is queued is a task, and a task holds a session exactly while it     *)
(* waits for the node or for its sidecar to be killed.                       *)
THEOREM ManagerTypes == Spec => []TypeOK
  BY Inductive, PTL DEF IInv

(* In whatever order starts, stops, drops, deaths and failures come, no two  *)
(* sidecars of the profile live at once.                                     *)
THEOREM OneSidecarHolds == Spec => []OneSidecar
<1>1. IInv => OneSidecar
  BY NamesAssumption DEF IInv, TypeOK, RunInv, OneSidecar
<1> QED
  BY <1>1, Inductive, PTL

(* A stop that answered, with a profile or without one, left neither a       *)
(* sidecar nor an entry of the driver or of the manager, but for a process   *)
(* whose kill was given up and for the run a failed start left with the      *)
(* driver of a profile that is gone.                                         *)
THEOREM StopLeavesNothing == Spec => []StoppedIsDown
<1>1. IInv => StoppedIsDown
  BY DEF IInv, HaltInv, StoppedIsDown
<1> QED
  BY <1>1, Inductive, PTL

(* For any users and any keys, shared or not: who rides a tunnel that        *)
(* nothing is taking down is in the registry, or another rider with the same *)
(* key left and took it out.                                                 *)
THEOREM RidersAreKnown == Spec => []NobodyIsCutUnseen
<1> DEFINE Listed == NobodyIsCutUnseen
<1>1. Init => Listed
  BY DEF Init, NobodyIsCutUnseen
<1>2. IInv /\ Listed /\ [Next]_vars => Listed'
  <2> SUFFICES ASSUME IInv, Listed, [Next]_vars, NEW u \in Users, use'[u] = "rides", held' = NoRun
               PROVE  KeyOf[u] \in (registered \cup unlisted)'
    BY DEF NobodyIsCutUnseen
  <2>0. use \in [Users -> Stances]
    BY DEF IInv, TypeOK, Stances
  <2>1. CASE /\ UNCHANGED <<held, registered, unlisted>>
             /\ use'[u] = "rides" => use[u] = "rides"
    BY <2>1 DEF NobodyIsCutUnseen
  <2>2. CASE ~Riding /\ (use'[u] = "rides" => use[u] \in {"asks", "rides"})
    BY <2>2 DEF Riding
  <2>3. CASE ~Riding'
    BY <2>3 DEF Riding
  <2>4. \A ok \in BOOLEAN : queue # <<>> /\ Ends(ok) => (use'[u] = "rides" => use[u] = "rides")
    BY <2>0 DEF Ends
  <2>5. CASE Begins
    <3>1. CASE StartNeedless
      <4>1. queue # <<>> /\ Ends(ours \in engines) /\ (ours \in engines) \in BOOLEAN
            /\ UNCHANGED <<held, registered, unlisted>>
        BY <3>1 DEF StartNeedless, StartsNow, Busy, driver, past
      <4> QED
        BY <2>1, <2>4, <4>1
    <3>2. CASE StartOfNothing
      BY <2>1, <2>4, <3>2 DEF StartOfNothing, StartsNow, Busy, driver, past
    <3>3. CASE StartGoesAhead \/ NothingToStop
      BY <2>1, <3>3 DEF StartGoesAhead, NothingToStop, driver, riders
    <3>4. CASE StopBegins
      <4>1. held = NoRun /\ UNCHANGED use
        BY <3>4 DEF StopBegins, TakesDown, Busy, IInv, TypeOK
      <4>2. ours \notin engines
        BY <3>4, NamesAssumption DEF StopBegins, IInv, TypeOK
      <4>3. ~Riding
        BY <4>1, <4>2, NamesAssumption DEF IInv, TypeOK, RunInv, RiderInv
      <4> QED
        BY <2>2, <4>1, <4>3
    <3> QED
      BY <2>5, <3>1, <3>2, <3>3, <3>4 DEF Begins
  <2>6. CASE StartSteps
    <3>1. CASE DirMade \/ SecretsShut \/ SecretsRead \/ SidecarDoesNot
      BY <2>1, <3>1 DEF DirMade, SecretsShut, SecretsRead, SidecarDoesNot, driver, riders,
                         past
    <3>2. CASE DirFails \/ ShutOut \/ StartUndone
      BY <2>1, <2>4, <3>2 DEF DirFails, ShutOut, StartUndone, Busy, driver, past
    <3>3. CASE SidecarStarts
      BY <3>3 DEF SidecarStarts, Busy, IInv, RunInv
    <3>4. ASSUME NEW b \in Backends, NodeAnswers(b)
          PROVE  KeyOf[u] \in (registered \cup unlisted)'
      <4>1. ~Riding
        BY <3>4 DEF NodeAnswers, Busy, IInv, RiderInv
      <4>2. CASE b = "error"
        BY <2>2, <3>4, <4>1, <4>2 DEF NodeAnswers
      <4>3. CASE b # "error"
        BY <2>2, <2>4, <3>4, <4>1, <4>3 DEF NodeAnswers, Busy
      <4> QED
        BY <4>2, <4>3
    <3>5. CASE NodeFails
      <4>1. ~Riding
        BY <3>5 DEF NodeFails, Busy, IInv, RiderInv
      <4>2. CASE Alive(held)
        <5>1. held \in Runs /\ Settled(held)
          BY <3>5, <4>2 DEF NodeFails, Alive, IInv, TypeOK
        <5> QED
          BY <2>3, <5>1, SettledParts
      <4>3. CASE ~Alive(held)
        BY <2>2, <3>5, <4>1, <4>3 DEF NodeFails
      <4> QED
        BY <4>2, <4>3
    <3>6. CASE StartKilled
      BY <2>2, <3>6 DEF StartKilled, Busy, IInv, RiderInv
    <3> QED
      BY <2>6, <3>1, <3>2, <3>3, <3>4, <3>5, <3>6 DEF StartSteps
  <2>7. CASE StopSteps
    <3>1. CASE NodeDown
      <4>1. CASE Alive(held)
        <5>1. held \in Runs /\ Settled(held)
          BY <3>1, <4>1 DEF NodeDown, Alive, IInv, TypeOK
        <5> QED
          BY <2>3, <5>1, SettledParts
      <4>2. CASE ~Alive(held)
        <5>1. held \notin engines /\ held # NoRun
          BY <3>1, <4>2 DEF NodeDown, Busy, Alive, IInv, TypeOK
        <5>2. ~Riding
          BY <5>1, NamesAssumption DEF IInv, TypeOK, RunInv, RiderInv
        <5> QED
          BY <2>2, <3>1, <4>2, <5>2 DEF NodeDown
      <4> QED
        BY <4>1, <4>2
    <3>2. CASE StopKilled
      BY <2>2, <3>2 DEF StopKilled, Busy, IInv, RiderInv
    <3>3. CASE Wiped
      BY <2>1, <3>3 DEF Wiped, driver, riders, past
    <3>4. CASE StopAnswered
      BY <2>1, <2>4, <3>4 DEF StopAnswered, Busy, driver, past
    <3> QED
      BY <2>7, <3>1, <3>2, <3>3, <3>4 DEF StopSteps
  <2>8. ASSUME NEW v \in Users, UserDials(v) \/ Forwards(v) \/ UserLeaves(v)
        PROVE  KeyOf[u] \in (registered \cup unlisted)'
    <3>1. held = NoRun
      BY <2>8 DEF UserDials, Forwards, ForwardOpened, ForwardRefused, UserLeaves, driver
    <3>2. CASE UserDials(v) \/ ForwardRefused(v)
      BY <2>0, <2>1, <3>2 DEF UserDials, ForwardRefused, driver, past
    <3>3. CASE ForwardOpened(v)
      BY <2>0, <3>1, <3>3 DEF ForwardOpened, NobodyIsCutUnseen
    <3>4. CASE UserLeaves(v)
      <4>1. u # v /\ use[u] = "rides"
        BY <2>0, <3>4 DEF UserLeaves
      <4>2. CASE KeyOf[u] = KeyOf[v]
        BY <3>4, <4>1, <4>2 DEF UserLeaves
      <4>3. CASE KeyOf[u] # KeyOf[v]
        BY <3>1, <3>4, <4>1, <4>3 DEF UserLeaves, NobodyIsCutUnseen
      <4> QED
        BY <4>2, <4>3
    <3> QED
      BY <2>8, <3>2, <3>3, <3>4 DEF Forwards
  <2>9. ASSUME NEW r \in Runs, SidecarExits(r)
        PROVE  KeyOf[u] \in (registered \cup unlisted)'
    BY <2>3, <2>9, SettledParts DEF SidecarExits
  <2>10. CASE \/ LateSent \/ PollSent \/ Polls \/ PersonAsks \/ Deleted \/ Unlocked \/ Locked
              \/ StrayExits \/ UNCHANGED vars
    BY <2>1, <2>10 DEF LateSent, PollSent, Polls, PollAnswered, PollFails, PersonAsks, Deleted,
                       Unlocked, Locked, StrayExits, vars, manager, driver, riders,
                       past
  <2> QED
    BY <2>5, <2>6, <2>7, <2>8, <2>9, <2>10 DEF Next, Steps
<1> QED
  BY <1>1, <1>2, Inductive, PTL DEF Spec
==============================================================================
