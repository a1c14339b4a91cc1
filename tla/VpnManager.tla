------------------------------ MODULE VpnManager ------------------------------
(***************************************************************************)
(* One VPN profile as the main process runs it: the queue of starts, stops  *)
(* and drops (src/main/services/vpn/manager.ts), the Tailscale driver and   *)
(* its session with the sidecar (drivers/tailscale.ts, netdSession.ts), the *)
(* last status (statusBus.ts), and the registry of what rides the tunnel    *)
(* (dependencies.ts).                                                       *)
(*                                                                         *)
(* An action is the code between two awaits of the task at the head of the  *)
(* queue; `at` is what that task waits for.  A task that can begin does so  *)
(* before any event is taken (a promise's reaction runs before a callback), *)
(* which is what Quiet says.  A status is its state; two payloads of one    *)
(* state differ in their text.  Run directories, logs, statistics and the   *)
(* name and reason of an error are left out.                                *)
(***************************************************************************)
EXTENDS Naturals, Sequences

CONSTANTS
  Users,     \* what opens a forward: terminals, database connections
  Keys,      \* `kind:id` of a consumer
  KeyOf,     \* the key each of them registers under
  Runs,      \* names of runs
  Backends,  \* what the node may report, as stateFor() maps it
  MaxQueue,  \* tasks queued by people and callers at once (bound of the model)
  MaxPolls,  \* polls outstanding at once: one each 15 s, given up after 60 s
  MaxStrays, \* processes left behind at once (bound of the model)
  NoRun, None

VARIABLES
  known,       \* the profile is in the data file
  open,        \* the vault is open; the profile keeps its key there
  queue,       \* pending: the tasks not yet settled, the head is under way
  at,          \* what the head waits for, "next": it has not begun
  live,        \* the run of manager.ts's live entry
  blocked,     \* vaultBlockedAutostarts has the profile
  ours,        \* the run of tailscale.ts's live entry
  told,        \* that entry's status, which its outstanding polls still know
  held,        \* the run whose session the head has in its hands
  polls,       \* of each run, the ts.status requests outstanding
  engines,     \* the runs whose sidecar lives and has not been given up
  strays,      \* sidecars alive although their session was closed: given up
  status,      \* the bus: last
  late,        \* the bus: pending, with its timer
  use,         \* where each user is
  registered,  \* the registry's keys
  halted,      \* history: a stop ended and no start went ahead since
  doomed,      \* history: the run whose profile was deleted, no start being under way
  forgotten,   \* history: the run a failed start left with the driver alone
  unlisted     \* history: the keys a user who left took from others that ride

world   == <<known, open>>
manager == <<queue, at, live, blocked>>
driver  == <<ours, told, held, polls, engines, strays>>
bus     == <<status, late>>
riders  == <<use, registered>>
past    == <<halted, doomed, forgotten, unlisted>>
vars    == <<world, manager, driver, bus, riders, past>>

States == {"stopped", "starting", "authenticating", "connected", "error"}
Places == {"next", "dir", "secrets", "shut", "open", "up", "kill", "undo", "down", "wipe",
           "done"}
Askers == {"person", "auto", "reload", "sync"}
Tasks  == [op : {"start", "stop", "drop"}, by : Users \cup Askers, run : Runs \cup {NoRun}]

ASSUME NamesAssumption ==
  /\ NoRun \notin Runs /\ None \notin States /\ Users \cap Askers = {}
  /\ Runs \subseteq Nat /\ KeyOf \in [Users -> Keys] /\ Backends \subseteq States
  /\ MaxQueue \in Nat /\ MaxPolls \in Nat /\ MaxStrays \in Nat

Task(op, by) == [op |-> op, by |-> by, run |-> NoRun]
Drop(r)      == [op |-> "drop", by |-> "person", run |-> r]

TypeOK ==
  /\ known \in BOOLEAN /\ open \in BOOLEAN /\ blocked \in BOOLEAN
  /\ queue \in Seq(Tasks) /\ at \in Places
  /\ {live, ours, held, doomed, forgotten} \subseteq Runs \cup {NoRun}
  /\ told \in States \cup {None} /\ engines \subseteq Runs /\ strays \in 0..MaxStrays
  /\ polls \in [Runs -> 0..MaxPolls]
  /\ status \in States \cup {None} /\ late \in States \cup {None}
  /\ use \in [Users -> {"idle", "waits", "asks", "rides", "cut"}]
  /\ registered \subseteq Keys /\ unlisted \subseteq Keys
  /\ halted \in BOOLEAN
  /\ at \in {"up", "kill", "down"} <=> held # NoRun

(* vpnInit(): a profile may be set to start by itself.                       *)
Init ==
  /\ known = TRUE /\ open \in BOOLEAN
  /\ queue \in {<<>>, <<Task("start", "auto")>>} /\ at = "next"
  /\ live = NoRun /\ blocked = FALSE
  /\ ours = NoRun /\ told = None /\ held = NoRun
  /\ polls = [r \in Runs |-> 0] /\ engines = {} /\ strays = 0
  /\ status = None /\ late = None
  /\ use = [u \in Users |-> "idle"] /\ registered = {}
  /\ halted = FALSE /\ doomed = NoRun /\ forgotten = NoRun /\ unlisted = {}

Busy(place) == at = place /\ queue # <<>>

(* Nothing but events can happen: no promise has a reaction to run.          *)
Quiet == queue = <<>> \/ at \notin {"next", "done"}

------------------------------------------------------------------------------
(* statusBus.ts: a change of state is sent at once; another payload of the   *)
(* same state may be held back, and what is held back stays held.  A second  *)
(* "stopped" says nothing new.                                               *)
HeldBack(s) == IF s = status /\ s # "stopped" THEN {late, s} ELSE {late}
Publish(s) == status' = s /\ late' \in HeldBack(s)

LateSent ==
  /\ Quiet /\ late # None
  /\ status' = late /\ late' = None
  /\ UNCHANGED <<world, manager, driver, riders, past>>

(* netdSession.ts: a session is alive until it is closed or its process ends. *)
Alive(r) == r \in engines /\ ~(at = "kill" /\ held = r)

(* settleAll(): a poll under way fails and its driver calls dropped(), which *)
(* queues a task; a forward being opened is refused, one that is open is     *)
(* dead.                                                                     *)
Settled(r) ==
  /\ polls' = [polls EXCEPT ![r] = 0]
  /\ told' = IF ours = NoRun THEN None ELSE told
  /\ queue' = queue \o [i \in 1..polls[r] |-> Drop(r)]
  /\ use' = [u \in Users |-> CASE use[u] = "asks"  -> "idle"
                               [] use[u] = "rides" -> "cut"
                               [] OTHER            -> use[u]]

(* close(): kill() climbs its ladder and then answers all the same, and what *)
(* it rejects is swallowed: the process may live on, out of everyone's reach. *)
Kills(r) ==
  /\ engines' = engines \ {r}
  /\ strays' \in {strays, strays + 1} \cap 0..MaxStrays

------------------------------------------------------------------------------
(* manager.ts: the queue.  What follows the head's promise: a reload goes on *)
(* with its start, and a user asks the driver for a forward if it can.       *)
EndsCancelling(ok) ==   \* mutant: a predecessor that failed cancels what waits
  LET t == Head(queue) IN
  /\ at' = "next"
  /\ queue' = IF ~ok THEN <<>>
              ELSE IF t = Task("stop", "reload")
              THEN Append(Tail(queue), Task("start", "reload")) ELSE Tail(queue)
  /\ use' = IF t.by \notin Users THEN use
            ELSE [use EXCEPT ![t.by] = IF ok THEN "asks" ELSE "idle"]

Ends(ok) ==
  LET t == Head(queue) IN
  /\ at' = "next"
  /\ queue' = IF t = Task("stop", "reload")
              THEN Append(Tail(queue), Task("start", "reload")) ELSE Tail(queue)
  /\ use' = IF t.by \notin Users THEN use
            ELSE [use EXCEPT ![t.by] = IF ok THEN "asks" ELSE "idle"]

Goes(place) == at' = place /\ UNCHANGED queue

StartsNow == Busy("next") /\ Head(queue).op = "start"
Down == status \in {None, "stopped", "error"}

(* vpnStart(): what is up, or the bus says is up, is not started again.      *)
StartNeedless ==
  /\ StartsNow /\ ~Down
  /\ Ends(ours \in engines)
  /\ UNCHANGED <<world, live, blocked, driver, bus, registered, past>>

StartOfNothing ==
  /\ StartsNow /\ Down /\ ~known
  /\ Ends(FALSE)
  /\ UNCHANGED <<world, live, blocked, driver, bus, registered, past>>

StartGoesAhead ==
  /\ StartsNow /\ Down /\ known
  /\ Goes("dir")
  /\ halted' = FALSE
  /\ UNCHANGED <<world, live, blocked, driver, bus, riders, doomed, forgotten, unlisted>>

(* doStart() *)
DirMade ==
  /\ Busy("dir") /\ Goes("secrets")
  /\ UNCHANGED <<world, live, blocked, driver, bus, riders, past>>

DirFails ==
  /\ Busy("dir") /\ Publish("error") /\ Ends(FALSE)
  /\ UNCHANGED <<world, live, blocked, driver, registered, past>>

Known == {live, ours, held, doomed} \cup engines \cup {r \in Runs : polls[r] > 0}
           \cup {queue[i].run : i \in DOMAIN queue}

(* A new name for the run: the first the model does not know any more.       *)
Fresh == {r \in Runs \ Known : \A q \in Runs \ Known : r <= q}

(* The driver's start() refuses while it has an entry of its own; cleanup()  *)
(* then takes the new live entry away again.                                 *)
SecretsRead ==
  /\ Busy("secrets") /\ open
  /\ Publish("starting")
  /\ IF ours = NoRun
     THEN Goes("open") /\ (\E r \in Fresh : live' = r) /\ UNCHANGED forgotten
     ELSE Goes("undo") /\ live' = NoRun /\ forgotten' = ours
  /\ UNCHANGED <<world, blocked, driver, use, registered, halted, doomed, unlisted>>

SecretsShut ==
  /\ Busy("secrets") /\ ~open /\ Goes("shut")
  /\ UNCHANGED <<world, live, blocked, driver, bus, riders, past>>

ShutOut ==
  /\ Busy("shut") /\ Publish("error") /\ Ends(FALSE)
  /\ blocked' = (blocked \/ Head(queue).by = "auto")
  /\ UNCHANGED <<world, live, driver, registered, past>>

SidecarStarts ==
  /\ Busy("open") /\ Goes("up")
  /\ engines' = engines \cup {live} /\ held' = live
  /\ UNCHANGED <<world, live, blocked, ours, told, polls, strays, bus, riders, past>>

(* cleanup(): the live entry goes, then its directory. *)
CleansUp == live' = NoRun

SidecarDoesNot ==
  /\ Busy("open") /\ Goes("undo") /\ CleansUp
  /\ UNCHANGED <<world, blocked, driver, bus, use, registered, past>>

(* ts.up answers, also with a node that is not up: all but an error counts   *)
(* as a start, and the manager then publishes that it is connected.          *)
NodeAnswers(b) ==
  /\ Busy("up") /\ Alive(held)
  /\ ours' = held /\ told' = b /\ held' = NoRun
  /\ IF b = "error"
     THEN Publish("error") /\ Goes("undo") /\ CleansUp /\ forgotten' = held /\ UNCHANGED use
     ELSE /\ status' = "connected" /\ late' \in HeldBack(b)
          /\ Ends(TRUE)
          /\ UNCHANGED <<live, forgotten>>
  /\ UNCHANGED <<world, blocked, polls, engines, strays, registered, halted, doomed, unlisted>>

NodeFailsUnclosed ==   \* mutant: the session of a failed start is not closed
  /\ Busy("up") /\ Goes("undo") /\ held' = NoRun /\ CleansUp
  /\ UNCHANGED <<world, blocked, ours, told, polls, engines, strays, bus, use, registered, past>>

(* It fails, or is not answered in time, or the sidecar is gone. *)
NodeFails ==
  /\ Busy("up")
  /\ IF Alive(held)
     THEN Settled(held) /\ at' = "kill" /\ UNCHANGED <<held, live>>
     ELSE Goes("undo") /\ held' = NoRun /\ CleansUp /\ UNCHANGED <<use, told, polls>>
  /\ UNCHANGED <<world, blocked, ours, engines, strays, bus, registered, past>>

StartKilled ==
  /\ Busy("kill") /\ Head(queue).op = "start"
  /\ Kills(held) /\ held' = NoRun
  /\ Goes("undo") /\ CleansUp
  /\ UNCHANGED <<world, blocked, ours, told, polls, bus, use, registered, past>>

StartUndone ==
  /\ Busy("undo") /\ Publish("error") /\ Ends(FALSE)
  /\ UNCHANGED <<world, live, blocked, driver, registered, past>>

------------------------------------------------------------------------------
(* vpnStop() and doDropped() *)
TakesDown == Busy("next") /\ Head(queue).op # "start"
IsStop == Head(queue).op = "stop"

(* A stop without a profile answers ok and looks no further; a drop without  *)
(* a live entry returns.                                                     *)
NothingToStop ==
  /\ TakesDown /\ live = NoRun /\ (IsStop => ~known)
  /\ Goes("done")
  /\ halted' = (halted \/ IsStop)
  /\ UNCHANGED <<world, live, blocked, driver, bus, riders, doomed, forgotten, unlisted>>

(* What follows the driver's stop(). *)
TornDown ==
  /\ IF IsStop THEN Publish("stopped") /\ halted' = TRUE ELSE UNCHANGED <<bus, halted>>
  /\ at' = IF live = NoRun THEN "done" ELSE "wipe"
  /\ CleansUp

(* Dependents are released before the driver is told to stop; what their     *)
(* releases take out is cleared with the rest (clearVpnConsumers()).         *)
StopBegins ==
  /\ TakesDown /\ (live # NoRun \/ (IsStop /\ known))
  /\ IF live = NoRun THEN UNCHANGED <<registered, unlisted>>
     ELSE registered' = {} /\ unlisted' = {}
  /\ ours' = NoRun /\ forgotten' = NoRun
  /\ IF ours \in engines
     THEN /\ held' = ours /\ at' = "down"
          /\ told' = IF polls[ours] > 0 THEN told ELSE None
          /\ IF IsStop THEN UNCHANGED bus ELSE Publish("error")
          /\ UNCHANGED <<live, halted>>
     ELSE /\ UNCHANGED held /\ told' = None
          /\ IF IsStop THEN TornDown
             ELSE at' = "wipe" /\ CleansUp /\ Publish("error") /\ UNCHANGED halted
  /\ UNCHANGED <<world, queue, blocked, polls, engines, strays, use, doomed>>

NodeDownUnclosed ==   \* mutant: a node that is down is not closed
  /\ Busy("down") /\ TornDown /\ held' = NoRun
  /\ UNCHANGED <<world, queue, blocked, ours, told, polls, engines, strays, use, registered>>
  /\ UNCHANGED <<doomed, forgotten, unlisted>>

(* ts.down is answered or not; the session is closed either way. *)
NodeDown ==
  /\ Busy("down")
  /\ IF Alive(held)
     THEN Settled(held) /\ at' = "kill" /\ UNCHANGED <<held, live, bus, halted>>
     ELSE TornDown /\ held' = NoRun /\ UNCHANGED <<queue, use, told, polls>>
  /\ UNCHANGED <<world, blocked, ours, engines, strays, registered, doomed, forgotten, unlisted>>

StopKilled ==
  /\ Busy("kill") /\ Head(queue).op # "start"
  /\ Kills(held) /\ held' = NoRun
  /\ TornDown
  /\ UNCHANGED <<world, queue, blocked, ours, told, polls, use, registered>>
  /\ UNCHANGED <<doomed, forgotten, unlisted>>

Wiped ==
  /\ Busy("wipe") /\ Goes("done")
  /\ UNCHANGED <<world, live, blocked, driver, bus, riders, past>>

(* The stop of a profile that was deleted elsewhere also forgets its status. *)
StopAnswered ==
  /\ Busy("done") /\ Ends(TRUE)
  /\ IF Head(queue) = Task("stop", "sync")
     THEN status' = None /\ late' = None ELSE UNCHANGED bus
  /\ UNCHANGED <<world, live, blocked, driver, registered, past>>

------------------------------------------------------------------------------
(* What people and other parts ask for, while nothing else runs. *)
Room == Len(queue) < MaxQueue

Asked(op, by) == Quiet /\ Room /\ queue' = Append(queue, Task(op, by))

PersonAsks ==
  /\ \/ Asked("start", "person") \/ Asked("stop", "person")
     \/ known /\ Asked("stop", "reload")
  /\ UNCHANGED <<world, at, live, blocked, driver, bus, riders, past>>

(* vpnOpenForward() *)
UserDials(u) ==
  /\ use[u] = "idle" /\ known /\ Asked("start", u)
  /\ use' = [use EXCEPT ![u] = "waits"]
  /\ UNCHANGED <<world, at, live, blocked, driver, bus, registered, past>>

ForwardOpenedIfLive(u) ==   \* mutant: registered with the live entry only
  /\ Quiet /\ use[u] = "asks"
  /\ use' = [use EXCEPT ![u] = "rides"]
  /\ registered' = IF live = NoRun THEN registered ELSE registered \cup {KeyOf[u]}
  /\ unlisted' = unlisted \ {KeyOf[u]}
  /\ UNCHANGED <<world, manager, driver, bus, halted, doomed, forgotten>>

ForwardOpened(u) ==
  /\ Quiet /\ use[u] = "asks"
  /\ use' = [use EXCEPT ![u] = "rides"]
  /\ registered' = registered \cup {KeyOf[u]}
  /\ unlisted' = unlisted \ {KeyOf[u]}
  /\ UNCHANGED <<world, manager, driver, bus, halted, doomed, forgotten>>

ForwardRefused(u) ==
  /\ Quiet /\ use[u] = "asks"
  /\ use' = [use EXCEPT ![u] = "idle"]
  /\ UNCHANGED <<world, manager, driver, bus, registered, past>>

(* close(): the registration goes by its key, whoever made it last. *)
UserLeaves(u) ==
  /\ Quiet /\ use[u] \in {"rides", "cut"}
  /\ use' = [use EXCEPT ![u] = "idle"]
  /\ registered' = registered \ {KeyOf[u]}
  /\ unlisted' = unlisted \cup {KeyOf[v] : v \in {w \in Users \ {u} :
                                   use[w] = "rides" /\ KeyOf[w] = KeyOf[u]}}
  /\ UNCHANGED <<world, manager, driver, bus, halted, doomed, forgotten>>

DeletedIfConnected ==   \* mutant: goes by the status
  /\ Quiet /\ known /\ known' = FALSE
  /\ doomed' = IF queue # <<>> /\ Head(queue).op = "start" THEN NoRun ELSE live
  /\ queue' = IF status # "connected" THEN queue ELSE Append(queue, Task("stop", "sync"))
  /\ UNCHANGED <<open, at, live, blocked, driver, bus, riders, halted, forgotten, unlisted>>

(* vpnProfilesExternalChange() looks at the runs that are live. *)
Deleted ==
  /\ Quiet /\ known /\ known' = FALSE
  /\ doomed' = IF queue # <<>> /\ Head(queue).op = "start" THEN NoRun ELSE live
  /\ queue' = IF live = NoRun THEN queue ELSE Append(queue, Task("stop", "sync"))
  /\ UNCHANGED <<open, at, live, blocked, driver, bus, riders, halted, forgotten, unlisted>>

(* vpnRetryVaultBlockedAutostarts() *)
Unlocked ==
  /\ Quiet /\ ~open /\ open' = TRUE
  /\ blocked' = FALSE
  /\ queue' = IF blocked /\ known THEN Append(queue, Task("start", "auto")) ELSE queue
  /\ UNCHANGED <<known, at, live, driver, bus, riders, past>>

Locked ==
  /\ Quiet /\ open /\ open' = FALSE
  /\ UNCHANGED <<known, manager, driver, bus, riders, past>>

------------------------------------------------------------------------------
(* The sidecar and the driver's poll. *)
SidecarExits(r) ==
  /\ Quiet /\ Alive(r)
  /\ engines' = engines \ {r}
  /\ Settled(r)
  /\ UNCHANGED <<world, at, live, blocked, ours, held, strays, bus, registered, past>>

(* What was left behind ends in its own time: its session is closed already. *)
StrayExits ==
  /\ Quiet /\ strays > 0 /\ strays' = strays - 1
  /\ UNCHANGED <<world, manager, ours, told, held, polls, engines, bus, riders, past>>

(* The interval does not wait for the answer to its last request. *)
PollSent ==
  /\ Quiet /\ Room /\ ours \in engines /\ polls[ours] < MaxPolls
  /\ polls' = [polls EXCEPT ![ours] = @ + 1]
  /\ UNCHANGED <<world, manager, ours, told, held, engines, strays, bus, riders, past>>

(* The answer is compared with the status of the entry that asked, also when *)
(* that has been taken down meanwhile; these states have more than one text. *)
Worded == {"authenticating", "error"}

PollAnswered(r, b) ==
  /\ Quiet /\ polls[r] > 0
  /\ polls' = [polls EXCEPT ![r] = @ - 1]
  /\ told' = IF ours = NoRun /\ polls[r] = 1 THEN None ELSE b
  /\ \/ (b # told \/ b \in Worded) /\ Publish(b)
     \/ b = told /\ UNCHANGED bus
  /\ UNCHANGED <<world, manager, ours, held, engines, strays, riders, past>>

PollFails(r) ==
  /\ Quiet /\ polls[r] > 0
  /\ polls' = [polls EXCEPT ![r] = @ - 1] /\ queue' = Append(queue, Drop(r))
  /\ UNCHANGED <<world, at, live, blocked, ours, told, held, engines, strays, bus, riders, past>>

------------------------------------------------------------------------------
Begins == StartNeedless \/ StartOfNothing \/ StartGoesAhead \/ NothingToStop \/ StopBegins
StartSteps ==
  \/ DirMade \/ DirFails \/ SecretsRead \/ SecretsShut \/ ShutOut
  \/ SidecarStarts \/ SidecarDoesNot \/ (\E b \in Backends : NodeAnswers(b))
  \/ NodeFails \/ StartKilled \/ StartUndone
StopSteps == NodeDown \/ StopKilled \/ Wiped \/ StopAnswered
Steps == Begins \/ StartSteps \/ StopSteps

Polls == \E r \in Runs : PollFails(r) \/ \E b \in Backends : PollAnswered(r, b)
Forwards(u) == ForwardOpened(u) \/ ForwardRefused(u)

Next ==
  \/ Steps \/ LateSent \/ PollSent \/ Polls \/ PersonAsks
  \/ \E u \in Users : UserDials(u) \/ Forwards(u) \/ UserLeaves(u)
  \/ Deleted \/ Unlocked \/ Locked \/ StrayExits
  \/ \E r \in Runs : SidecarExits(r)

(* Every wait of a task ends: files, ts.up with 60 s, ts.down with 15 s, the *)
(* kill with the ladder of the supervisor; a request has its timeout and the *)
(* poll its timer.                                                           *)
Fairness ==
  /\ WF_vars(Steps) /\ WF_vars(LateSent) /\ WF_vars(PollSent) /\ WF_vars(Polls)
  /\ \A u \in Users : WF_vars(Forwards(u))

Spec == Init /\ [][Next]_vars /\ Fairness

(* What tasks need to end: nothing but that their own waits do.              *)
TaskFairness == WF_vars(Steps)

------------------------------------------------------------------------------
(* Two sidecars of one profile never live at once, in whatever order starts, *)
(* stops, drops and failures come: each start waits for its predecessor.     *)
(* Except one whose kill was given up: close() answers as if it were gone.   *)
OneSidecar == \A r, q \in engines : r = q

(* Once a stop has answered, with a profile or without one, and until a      *)
(* start goes ahead, nothing of the tunnel is left: no process, no entry of  *)
(* the driver, no entry of the manager.  Two exceptions: a process whose     *)
(* kill was given up, and the run a failed start left with the driver, which *)
(* no stop reaches once its profile is gone (vpnStop() then looks no         *)
(* further).                                                                 *)
OutOfReach == IF known THEN {} ELSE {forgotten}
StoppedIsDown ==
  halted => /\ engines \subseteq OutOfReach
            /\ ours \in {NoRun} \cup OutOfReach /\ live = NoRun

(* Who rides a tunnel that nothing is taking down is in the registry, where  *)
(* the question before a stop looks.  Except under a key that another rider  *)
(* took out when he left and nobody has put in since: two connections to one *)
(* server share theirs.                                                      *)
NobodyIsCutUnseen ==
  \A u \in Users : use[u] = "rides" /\ held = NoRun => KeyOf[u] \in registered \cup unlisted

(* A run that was live when its profile was deleted elsewhere ends, if no    *)
(* start was under way at that moment; or its kill is given up.              *)
DeletedIsStopped == (doomed # NoRun) ~> (doomed \notin engines /\ live # doomed)

(* Who asks for a forward is answered, whatever is queued before the start.  *)
CallsReturn == \A u \in Users : (use[u] = "waits") ~> (use[u] # "waits")

------------------------------------------------------------------------------
(* What comments say and the code does not keep.  "stopped" is published     *)
(* only once the engine is gone, and a stop that finds nothing had nothing   *)
(* to stop (doStop(), vpnStop()): it keeps this with the exceptions of       *)
(* StoppedIsDown.                                                            *)
NothingIsLeft == halted => engines = {} /\ strays = 0 /\ ours = NoRun /\ live = NoRun

(* Every live user of a profile is in the registry (dependencies.ts).        *)
EveryRiderIsListed ==
  \A u \in Users : use[u] = "rides" /\ held = NoRun => KeyOf[u] \in registered

(* A profile does not keep                                                   *)
(* its entry, and go on reporting connected, for a process that no longer    *)
(* exists (netdSession.ts).                                                  *)
Ghost == live # NoRun /\ ours = live /\ live \notin engines /\ status = "connected"
DeadIsNoticed == Ghost ~> ~Ghost

(* What waits for a person is not called connected (stateFor()).             *)
WaitingIsNotConnected == ours # NoRun /\ told = "authenticating" => status # "connected"

(* The answer to "is it already running" is true once the predecessor has    *)
(* finished (enqueue()).                                                     *)
AnswerIsTrue == StartsNow /\ halted => Down

(* A drop does not reach into a start made at the same moment (doStart()).   *)
DropHitsItsRun ==
  TakesDown /\ ~IsStop /\ live # NoRun => live = Head(queue).run

(* What the vault kept from starting is retried once the vault opens.        *)
NotForgotten == blocked => ~open

(* A start never has to be preceded by a stop (doDropped()).                 *)
EngineIsKnown == queue = <<>> /\ ours # NoRun => live # NoRun

(* A run does not inherit consumers of one before (clearVpnConsumers()).     *)
NoGhosts == queue = <<>> /\ halted => registered = {}
===============================================================================
