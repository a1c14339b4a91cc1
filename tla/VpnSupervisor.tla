---------------------------- MODULE VpnSupervisor -----------------------------
(***************************************************************************)
(* The process supervisor (class Supervisor in                             *)
(* src/main/services/vpn/supervisor.ts) for one id: a tunnel engine or a    *)
(* process of the user's.                                                  *)
(*                                                                         *)
(* A run is one Run object, an engine one child process of it.  A run that  *)
(* was dropped from the map may still have calls under way: they hold the   *)
(* object, but delete by id.  An action is the code between two awaits; an  *)
(* operation on the pid file takes effect when the action that completes it *)
(* is taken.  Clocks are not modelled: a timer that is armed may fire.      *)
(* Logs, backoff delays and the restart policy's look at the exit code are  *)
(* left out, as are pids that the system gives to another program.          *)
(***************************************************************************)
EXTENDS Naturals

CONSTANTS
  MaxRuns,      \* bound of the model: runs ever created
  MaxEngines,   \* bound of the model: child processes ever spawned
  MaxCrashes,   \* bound of the model: how often the app may die
  Callers,      \* stop() calls that may be under way at once
  MaxRestarts   \* spec.crashLoop.maxRestarts

ASSUME RunsAssumption     == MaxRuns \in Nat
ASSUME EnginesAssumption  == MaxEngines \in Nat
ASSUME CrashesAssumption  == MaxCrashes \in Nat
ASSUME RestartsAssumption == MaxRestarts \in Nat

Runs    == 1..MaxRuns
Engines == 1..MaxEngines

VARIABLES
  app,       \* "up" or "down"
  entry,     \* the run that the map has for the id, 0 for none
  made,      \* how many runs were created
  born,      \* how many engines were spawned
  (* the fields of a run *)
  child, latest, stopping, terminal, ready, first,
  backoff,   \* timers.backoff is armed
  exits,     \* run.exits.length
  (* the engines *)
  of,        \* the run whose listeners an engine has, 0 once the app died
  proc,      \* "none", "alive", "exited" (the event is to come), "gone", or
             \* "stillborn": spawn failed with an error event and no exit event
  killed,    \* it was sent SIGKILL and is still there
  (* the calls under way *)
  launch,    \* launch() of each engine
  noted,     \* the pid in the record that it writes
  onexit,    \* onExit() of each engine is awaiting its unlink
  stop,      \* stop() of each caller
  on,        \* the run a stop() holds
  loose,     \* the unlink that a run's goTerminal() does not await is under way
  (* the disk, and reapOrphans() *)
  record,    \* the pid in the id's pid file, 0 for none
  reap,      \* where reapOrphans() is
  target,    \* the pid of the record that it read
  (* history *)
  gaveUp,    \* runs whose stop() ended although the engine was alive
  crashes

fields  == <<child, latest, stopping, terminal, ready, first, backoff, exits>>
engines == <<born, of, proc, killed>>
stops   == <<stop, on>>
reaper  == <<reap, target>>
vars    == <<app, entry, made, fields, engines, launch, noted, onexit, stops, loose,
             record, reaper, gaveUp, crashes>>

TypeOK ==
  /\ app \in {"up", "down"}
  /\ entry \in 0..MaxRuns /\ made \in 0..MaxRuns /\ born \in 0..MaxEngines
  /\ child \in [Runs -> 0..MaxEngines] /\ latest \in [Runs -> 0..MaxEngines]
  /\ stopping \in [Runs -> BOOLEAN] /\ terminal \in [Runs -> BOOLEAN]
  /\ ready \in [Runs -> BOOLEAN] /\ backoff \in [Runs -> BOOLEAN]
  /\ first \in [Runs -> {"none", "waiting", "resolved", "rejected"}]
  /\ exits \in [Runs -> 0..MaxRestarts + 1]
  /\ of \in [Engines -> 0..MaxRuns]
  /\ proc \in [Engines -> {"none", "alive", "exited", "gone", "stillborn"}]
  /\ killed \in [Engines -> BOOLEAN]
  /\ launch \in [Engines -> {"none", "hashing", "writing", "written", "undoing", "readying"}]
  /\ noted \in [Engines -> 0..MaxEngines]
  /\ onexit \in [Engines -> BOOLEAN]
  /\ stop \in [Callers -> {"none", "graceful", "term", "kill", "finishing"}]
  /\ on \in [Callers -> 0..MaxRuns]
  /\ loose \in [Runs -> BOOLEAN]
  /\ record \in 0..MaxEngines
  /\ reap \in {"none", "listing", "reading", "probing", "killing", "clearing"}
  /\ target \in 0..MaxEngines
  /\ gaveUp \in [Runs -> BOOLEAN]
  /\ crashes \in 0..MaxCrashes

Init ==
  /\ app = "up" /\ entry = 0 /\ made = 0 /\ born = 0
  /\ child = [r \in Runs |-> 0] /\ latest = [r \in Runs |-> 0]
  /\ stopping = [r \in Runs |-> FALSE] /\ terminal = [r \in Runs |-> FALSE]
  /\ ready = [r \in Runs |-> FALSE] /\ backoff = [r \in Runs |-> FALSE]
  /\ first = [r \in Runs |-> "none"] /\ exits = [r \in Runs |-> 0]
  /\ of = [p \in Engines |-> 0] /\ proc = [p \in Engines |-> "none"]
  /\ killed = [p \in Engines |-> FALSE]
  /\ launch = [p \in Engines |-> "none"] /\ noted = [p \in Engines |-> 0]
  /\ onexit = [p \in Engines |-> FALSE]
  /\ stop = [c \in Callers |-> "none"] /\ on = [c \in Callers |-> 0]
  /\ loose = [r \in Runs |-> FALSE] /\ record = 0 /\ reap = "none" /\ target = 0
  /\ gaveUp = [r \in Runs |-> FALSE] /\ crashes = 0

------------------------------------------------------------------------------
(* spawn(), launch() and readiness *)

(* run.pid: the child's, which has none if it could not be started. *)
Pid(r) == IF child[r] # 0 /\ proc[child[r]] # "stillborn" THEN child[r] ELSE 0

(* The child is there and its exitCode is null. *)
HasChild(r) == child[r] # 0 /\ proc[child[r]] # "stillborn"

(* SIGKILL goes to run.pid. *)
HardKill(r) ==
  killed' = [p \in Engines |-> killed[p] \/ (p = Pid(r) /\ proc[p] = "alive")]

Settles(r, how) ==
  first' = [first EXCEPT ![r] = IF @ \in {"none", "waiting"} THEN how ELSE @]

GoTerminalKeepingEntry(r) ==
  /\ terminal' = [terminal EXCEPT ![r] = TRUE]
  /\ loose' = [loose EXCEPT ![r] = TRUE]
  /\ Settles(r, "rejected")
  /\ UNCHANGED entry

(* goTerminal(): the run is over and leaves the map. *)
GoTerminal(r) ==
  /\ terminal' = [terminal EXCEPT ![r] = TRUE]
  /\ loose' = [loose EXCEPT ![r] = TRUE]
  /\ Settles(r, "rejected")
  /\ entry' = 0

(* launch() up to its first await: the child is there with its listeners.    *)
(* The executable is hashed unless the driver or an earlier launch did.      *)
Starts(r) ==
  LET p == born + 1 IN
  /\ born < MaxEngines
  /\ born' = p
  /\ of' = [of EXCEPT ![p] = r]
  /\ latest' = [latest EXCEPT ![r] = p]
  /\ child' = [child EXCEPT ![r] = p]
  /\ \E s \in {"alive", "stillborn"} :
       /\ proc' = [proc EXCEPT ![p] = s]
       /\ \/ launch' = [launch EXCEPT ![p] = "hashing"] /\ UNCHANGED noted
          \/ /\ launch' = [launch EXCEPT ![p] = "writing"]
             /\ noted' = [noted EXCEPT ![p] = IF s = "alive" THEN p ELSE 0]
  /\ UNCHANGED <<terminal, loose>>

(* launch() when spawn() throws: the attempt has no child. *)
Throws(r) ==
  /\ GoTerminal(r)
  /\ latest' = [latest EXCEPT ![r] = 0]
  /\ UNCHANGED <<child, born, of, proc, launch, noted>>

SpawnAgain ==
  LET r == made + 1 IN
  /\ app = "up" /\ made < MaxRuns
  /\ made' = r
  /\ \/ Starts(r) /\ entry' = r /\ first' = [first EXCEPT ![r] = "waiting"]
     \/ Throws(r)
  /\ UNCHANGED <<app, stopping, ready, backoff, exits, killed, onexit,
                 stops, record, reaper, gaveUp, crashes>>

(* spawn(): an id that is in the map keeps its handle. *)
Spawn ==
  LET r == made + 1 IN
  /\ app = "up" /\ entry = 0 /\ made < MaxRuns
  /\ made' = r
  /\ \/ Starts(r) /\ entry' = r /\ first' = [first EXCEPT ![r] = "waiting"]
     \/ Throws(r)
  /\ UNCHANGED <<app, stopping, ready, backoff, exits, killed, onexit,
                 stops, record, reaper, gaveUp, crashes>>

(* The backoff is over: launch() has no effect on a run that is over. *)
Relaunch(r) ==
  /\ backoff[r] /\ ~stopping[r] /\ ~terminal[r]
  /\ backoff' = [backoff EXCEPT ![r] = FALSE]
  /\ \/ Starts(r) /\ UNCHANGED <<first, entry>>
     \/ Throws(r)
  /\ UNCHANGED <<app, made, stopping, ready, exits, killed, onexit, stops, record,
                 reaper, gaveUp, crashes>>

(* The hash is there, and the record is made of what the run says now. *)
Hashed(p) ==
  /\ launch[p] = "hashing"
  /\ launch' = [launch EXCEPT ![p] = "writing"]
  /\ noted' = [noted EXCEPT ![p] = Pid(of[p])]
  /\ UNCHANGED <<app, entry, made, fields, engines, onexit, stops, loose, record,
                 reaper, gaveUp, crashes>>

(* The record is on the disk; one without a pid is as good as none. *)
Records(p) ==
  /\ launch[p] = "writing"
  /\ launch' = [launch EXCEPT ![p] = "written"]
  /\ record' = noted[p] /\ noted' = [noted EXCEPT ![p] = 0]
  /\ UNCHANGED <<app, entry, made, fields, engines, onexit, stops, loose,
                 reaper, gaveUp, crashes>>

(* The attempt is the run's latest and its child has not exited. *)
IsCurrent(p) == latest[of[p]] = p /\ child[of[p]] = p

(* launch() goes on: the child exited in the meantime and its record has to  *)
(* go, or it waits for readiness.                                           *)
Launched(p) ==
  /\ launch[p] = "written"
  /\ launch' = [launch EXCEPT ![p] = IF IsCurrent(p) THEN "readying" ELSE "undoing"]
  /\ UNCHANGED <<app, entry, made, fields, engines, noted, onexit, stops, loose,
                 record, reaper, gaveUp, crashes>>

Undoes(p) ==
  /\ launch[p] = "undoing"
  /\ launch' = [launch EXCEPT ![p] = "none"]
  /\ record' = 0
  /\ UNCHANGED <<app, entry, made, fields, engines, noted, onexit, stops, loose,
                 reaper, gaveUp, crashes>>

(* readiness() resolves: onReady, unless a newer attempt was launched. *)
Readies(p) ==
  LET r == of[p] IN
  /\ launch[p] = "readying"
  /\ launch' = [launch EXCEPT ![p] = "none"]
  /\ IF latest[r] = p
     THEN ready' = [ready EXCEPT ![r] = TRUE] /\ Settles(r, "resolved")
     ELSE UNCHANGED <<ready, first>>
  /\ UNCHANGED <<app, entry, made, child, latest, stopping, terminal, backoff, exits,
                 engines, noted, onexit, stops, loose, record, reaper, gaveUp, crashes>>

(* readiness() rejects or times out: the child is killed, unless a stop() is *)
(* doing that.                                                              *)
Unready(p) ==
  LET r == of[p] IN
  /\ launch[p] = "readying"
  /\ launch' = [launch EXCEPT ![p] = "none"]
  /\ IF latest[r] = p /\ ~stopping[r] /\ HasChild(r) THEN HardKill(r) ELSE UNCHANGED killed
  /\ UNCHANGED <<app, entry, made, fields, born, of, proc, noted, onexit, stops, loose,
                 record, reaper, gaveUp, crashes>>

(* The health check of a ready run fails. *)
Unhealthy(r) ==
  /\ ready[r] /\ ~stopping[r] /\ ~terminal[r] /\ HasChild(r) /\ ~killed[child[r]]
  /\ HardKill(r)
  /\ UNCHANGED <<app, entry, made, fields, born, of, proc, launch, noted, onexit, stops,
                 loose, record, reaper, gaveUp, crashes>>

------------------------------------------------------------------------------
(* onExit() *)

(* The system ends an engine: it crashed, was asked to, or was killed. *)
Exits(p) ==
  /\ proc[p] = "alive"
  /\ proc' = [proc EXCEPT ![p] = IF of[p] = 0 THEN "gone" ELSE "exited"]
  /\ killed' = [killed EXCEPT ![p] = FALSE]
  /\ UNCHANGED <<app, entry, made, fields, born, of, launch, noted, onexit, stops,
                 loose, record, reaper, gaveUp, crashes>>

(* The exit event: the run forgets its child and its timers. *)
OnExit(p) ==
  LET r == of[p] IN
  /\ proc[p] = "exited" /\ latest[r] = p
  /\ proc' = [proc EXCEPT ![p] = "gone"]
  /\ child' = [child EXCEPT ![r] = 0]
  /\ ready' = [ready EXCEPT ![r] = FALSE]
  /\ backoff' = [backoff EXCEPT ![r] = FALSE]
  /\ onexit' = [onexit EXCEPT ![p] = TRUE]
  /\ UNCHANGED <<app, entry, made, latest, stopping, terminal, first, exits, born, of,
                 killed, launch, noted, stops, loose, record, reaper, gaveUp, crashes>>

FinishUnsettled(r) == entry' = 0 /\ UNCHANGED first

(* finish(): a start that waits is rejected and the id leaves the map. *)
Finish(r) == entry' = 0 /\ Settles(r, "rejected")

CountedTwice(r) == 1..exits[r] + 2

(* run.exits with this exit: earlier ones count in crashLoop.windowMs only. *)
Counted(r) == 1..exits[r] + 1

(* The stops that wait for the exit of a run. *)
Waiting(r) == {c \in Callers : on[c] = r /\ stop[c] \in {"graceful", "term", "kill"}}

(* Past its unlink, onExit() wakes the stops that wait for it, and they      *)
(* finish before anything else happens.  Unless the run is stopping, it      *)
(* schedules a restart or goes terminal: for a crash loop, or because the    *)
(* restart policy says so.                                                  *)
ExitGoesOn(p) ==
  LET r == of[p] IN
  /\ onexit[p]
  /\ onexit' = [onexit EXCEPT ![p] = FALSE]
  /\ record' = 0
  /\ \/ /\ stopping[r]
        /\ stop' = [c \in Callers |-> IF c \in Waiting(r) THEN "finishing" ELSE stop[c]]
        /\ IF Waiting(r) = {} THEN UNCHANGED <<entry, first>> ELSE Finish(r)
        /\ UNCHANGED <<exits, terminal, loose, backoff>>
     \/ /\ ~stopping[r]
        /\ \E n \in Counted(r) :
             /\ exits' = [exits EXCEPT ![r] = n]
             /\ \/ GoTerminal(r) /\ UNCHANGED backoff
                \/ /\ n <= MaxRestarts
                   /\ backoff' = [backoff EXCEPT ![r] = TRUE]
                   /\ UNCHANGED <<terminal, loose, first, entry>>
        /\ UNCHANGED stop
  /\ UNCHANGED <<app, made, child, latest, stopping, ready, engines, launch, noted, on,
                 reaper, gaveUp, crashes>>

LooseUnlink(r) ==
  /\ loose[r]
  /\ loose' = [loose EXCEPT ![r] = FALSE] /\ record' = 0
  /\ UNCHANGED <<app, entry, made, fields, engines, launch, noted, onexit, stops, reaper,
                 gaveUp, crashes>>

------------------------------------------------------------------------------
(* stop() *)

(* stop(): a run without a child is over; otherwise the graceful request, or *)
(* the kill at once.                                                        *)
Stop(c, force) ==
  LET r == entry IN
  /\ app = "up" /\ entry # 0 /\ stop[c] = "none"
  /\ on' = [on EXCEPT ![c] = r]
  /\ stopping' = [stopping EXCEPT ![r] = TRUE]
  /\ backoff' = [backoff EXCEPT ![r] = FALSE]
  /\ IF ~HasChild(r) THEN Finish(r) /\ stop' = [stop EXCEPT ![c] = "finishing"] /\ UNCHANGED killed
     ELSE /\ stop' = [stop EXCEPT ![c] = IF force THEN "kill" ELSE "graceful"]
          /\ IF force THEN HardKill(r) ELSE UNCHANGED killed
          /\ UNCHANGED <<entry, first>>
  /\ UNCHANGED <<app, made, child, latest, terminal, ready, exits, born, of, proc, launch,
                 noted, onexit, loose, record, reaper, gaveUp, crashes>>

(* The wait of a rung is over without the exit: SIGTERM, then SIGKILL. *)
StopClimbs(c) ==
  /\ \/ /\ stop[c] = "graceful"
        /\ stop' = [stop EXCEPT ![c] = "term"]
        /\ UNCHANGED killed
     \/ /\ stop[c] = "term"
        /\ stop' = [stop EXCEPT ![c] = "kill"]
        /\ HardKill(on[c])
  /\ UNCHANGED <<app, entry, made, fields, born, of, proc, launch, noted, onexit, on,
                 loose, record, reaper, gaveUp, crashes>>

StopGivesUpEarly(c) ==
  /\ stop[c] \in {"graceful", "term", "kill"}
  /\ stop' = [stop EXCEPT ![c] = "finishing"]
  /\ Finish(on[c])
  /\ gaveUp' = IF stop[c] = "kill" THEN [gaveUp EXCEPT ![on[c]] = @ \/ HasChild(on[c])] ELSE gaveUp
  /\ UNCHANGED <<app, made, child, latest, stopping, terminal, ready, backoff, exits, engines,
                 launch, noted, onexit, on, loose, record, reaper, crashes>>

(* Not even SIGKILL ended it in time. *)
StopGivesUp(c) ==
  /\ stop[c] = "kill"
  /\ stop' = [stop EXCEPT ![c] = "finishing"]
  /\ Finish(on[c])
  /\ gaveUp' = [gaveUp EXCEPT ![on[c]] = @ \/ HasChild(on[c])]
  /\ UNCHANGED <<app, made, child, latest, stopping, terminal, ready, backoff, exits, engines,
                 launch, noted, onexit, on, loose, record, reaper, crashes>>

StopEnds(c) ==
  /\ stop[c] = "finishing"
  /\ stop' = [stop EXCEPT ![c] = "none"]
  /\ on' = [on EXCEPT ![c] = 0]
  /\ record' = 0
  /\ UNCHANGED <<app, entry, made, fields, engines, launch, noted, onexit, loose, reaper,
                 gaveUp, crashes>>

------------------------------------------------------------------------------
(* The death of the app, and reapOrphans() *)

(* Engines live on and nobody listens to them. *)
Crash ==
  /\ app = "up" /\ crashes < MaxCrashes
  /\ app' = "down" /\ crashes' = crashes + 1 /\ entry' = 0
  /\ child' = [r \in Runs |-> 0] /\ latest' = [r \in Runs |-> 0]
  /\ stopping' = [r \in Runs |-> FALSE] /\ terminal' = [r \in Runs |-> FALSE]
  /\ ready' = [r \in Runs |-> FALSE] /\ backoff' = [r \in Runs |-> FALSE]
  /\ first' = [r \in Runs |-> "none"] /\ exits' = [r \in Runs |-> 0]
  /\ of' = [p \in Engines |-> 0]
  /\ proc' = [p \in Engines |-> IF proc[p] \in {"exited", "stillborn"} THEN "gone" ELSE proc[p]]
  /\ launch' = [p \in Engines |-> "none"] /\ noted' = [p \in Engines |-> 0]
  /\ onexit' = [p \in Engines |-> FALSE]
  /\ stop' = [c \in Callers |-> "none"] /\ on' = [c \in Callers |-> 0]
  /\ loose' = [r \in Runs |-> FALSE] /\ reap' = "none" /\ target' = 0
  /\ gaveUp' = [r \in Runs |-> FALSE]
  /\ UNCHANGED <<made, born, killed, record>>

(* The next process of the app reaps first. *)
Boot ==
  /\ app = "down"
  /\ app' = "up" /\ reap' = "listing"
  /\ UNCHANGED <<entry, made, fields, engines, launch, noted, onexit, stops, loose, record,
                 target, gaveUp, crashes>>

(* The directory is listed, and what is running is noted. *)
ReapLists ==
  /\ reap = "listing"
  /\ reap' = IF record = 0 \/ entry # 0 THEN "none" ELSE "reading"
  /\ UNCHANGED <<app, entry, made, fields, engines, launch, noted, onexit, stops, loose,
                 record, target, gaveUp, crashes>>

(* The record is read: the file may be gone, its process may be over. *)
ReapReads ==
  /\ reap = "reading"
  /\ IF record = 0 THEN reap' = "none" /\ UNCHANGED target
     ELSE /\ target' = record
          /\ reap' = IF proc[record] = "alive" THEN "probing" ELSE "clearing"
  /\ UNCHANGED <<app, entry, made, fields, engines, launch, noted, onexit, stops, loose,
                 record, gaveUp, crashes>>

(* The probe says whose process it is, and SIGTERM is sent, or it fails. *)
ReapProbes ==
  /\ reap = "probing"
  /\ \/ reap' = "killing" /\ proc[target] = "alive" /\ UNCHANGED target
     \/ reap' = "none" /\ target' = 0
  /\ UNCHANGED <<app, entry, made, fields, engines, launch, noted, onexit, stops, loose,
                 record, gaveUp, crashes>>

(* SIGKILL after the grace, if it is still there. *)
ReapKills ==
  /\ reap = "killing"
  /\ reap' = "clearing"
  /\ killed' = IF proc[target] = "alive" THEN [killed EXCEPT ![target] = TRUE] ELSE killed
  /\ UNCHANGED <<app, entry, made, fields, born, of, proc, launch, noted, onexit, stops,
                 loose, record, target, gaveUp, crashes>>

ReapClears ==
  /\ reap = "clearing"
  /\ reap' = "none" /\ target' = 0 /\ record' = 0
  /\ UNCHANGED <<app, entry, made, fields, engines, launch, noted, onexit, stops, loose,
                 gaveUp, crashes>>

------------------------------------------------------------------------------

FileStep(p) == Hashed(p) \/ Records(p) \/ Launched(p) \/ Undoes(p)

Readiness(p) == Readies(p) \/ Unready(p)

StopStep(c) == StopClimbs(c) \/ StopGivesUp(c) \/ StopEnds(c)

ReapStep == ReapLists \/ ReapReads \/ ReapProbes \/ ReapKills \/ ReapClears

Next ==
  \/ Spawn \/ Crash \/ Boot \/ ReapStep
  \/ \E r \in Runs : Relaunch(r) \/ Unhealthy(r) \/ LooseUnlink(r)
  \/ \E p \in Engines : FileStep(p) \/ Readiness(p) \/ Exits(p) \/ OnExit(p) \/ ExitGoesOn(p)
  \/ \E c \in Callers : StopStep(c) \/ \E force \in BOOLEAN : Stop(c, force)

Spec == Init /\ [][Next]_vars

(* File operations and the waits of a stop end, events are delivered, a      *)
(* process that was sent SIGKILL goes, and readiness is decided while its    *)
(* timer is armed: neither a stop nor an exit has cleared it.                *)
Fairness ==
  /\ \A p \in Engines :
       /\ WF_vars(FileStep(p)) /\ WF_vars(OnExit(p)) /\ WF_vars(ExitGoesOn(p))
       /\ WF_vars(launch[p] = "readying" /\ IsCurrent(p) /\ ~stopping[of[p]] /\ Readiness(p))
       /\ WF_vars(killed[p] /\ Exits(p))
  /\ \A r \in Runs : WF_vars(Relaunch(r))
  /\ \A c \in Callers : WF_vars(StopStep(c))

FairSpec == Spec /\ Fairness

------------------------------------------------------------------------------
(* Properties *)

(* A stop() ended although even SIGKILL had not ended the engine in time.    *)
SomethingWontDie == \E r \in Runs : gaveUp[r]

(* One id never has two engines of this process of the app at once, through  *)
(* restarts, stops, failed starts and starts that follow a stop.             *)
OneEngine ==
  \A p, q \in Engines :
    (p # q /\ of[p] # 0 /\ of[q] # 0 /\ proc[p] = "alive" /\ proc[q] = "alive")
      => SomethingWontDie

(* An engine that is there is one the map knows, so that stop() can reach it: *)
(* goTerminal() and finish() delete by id, and never a run that is not theirs. *)
RunningIsKnown == \A r \in Runs : HasChild(r) => entry = r \/ SomethingWontDie

(* The program of the run's child could not be started: there was an error    *)
(* event and no exit event will come.                                       *)
Stillborn(r) == child[r] # 0 /\ proc[child[r]] = "stillborn"

(* Something will end the run, start it again or say what became of it: an   *)
(* engine, its exit, the wait for a restart, a stop, or a launch.            *)
UnderWay(r) ==
  \/ HasChild(r) \/ backoff[r]
  \/ \E p \in Engines : of[p] = r /\ onexit[p]
  \/ \E c \in Waiting(r) : stopping[r]
  \/ Stillborn(r) /\ launch[child[r]] # "none"

(* What the map has for the id is not a corpse, which a spawn() would hand    *)
(* out as if it ran: it is not terminal ("this should be unreachable") and    *)
(* something is under way for it.  Excepted by name is a run whose latest     *)
(* program could not be started: once its readiness was decided nothing ends  *)
(* it but a stop(), and until then spawn() does hand out its dead handle.     *)
NoCorpse == entry # 0 => ~terminal[entry] /\ (UnderWay(entry) \/ Stillborn(entry))

(* The same without the exception, which the code does not keep: hardKill()   *)
(* of a run without a pid returns, and no exit event takes it off the map.    *)
NoCorpseAtAll == entry # 0 => ~terminal[entry] /\ UnderWay(entry)

(* A start is answered: each attempt of a run that never was ready makes it   *)
(* so, ends it, or gives way to the next attempt -- unless the program could  *)
(* not be started, which has no exit event.                                 *)
StartIsAnswered ==
  \A p \in Engines :
    (of[p] # 0 /\ first[of[p]] = "waiting" /\ latest[of[p]] = p)
      ~> \/ of[p] = 0 \/ first[of[p]] # "waiting" \/ latest[of[p]] # p
         \/ proc[p] = "stillborn" \/ (backoff[of[p]] /\ born = MaxEngines)

(* A ready run has a child, or "a green light over a tunnel that does not     *)
(* exist" (goTerminal) is shown: "The child exists" (readiness 'spawned').    *)
NoFalseGreen == entry # 0 /\ ready[entry] => HasChild(entry)

==============================================================================
