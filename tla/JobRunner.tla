------------------------------ MODULE JobRunner ------------------------------
(***************************************************************************)
(* One job of the job engine: JobRunner (src/main/services/jobRunner.ts)   *)
(* over the detached executor (src/main/services/jobDetached.ts).          *)
(*                                                                         *)
(* Three things outlive each other in different ways:                      *)
(*   - the STORE, the job's row and one row per target host, which survives *)
(*     every crash of the app;                                             *)
(*   - the PROCESS, the run that owns the job id, its worker pool, one      *)
(*     activation of runOne per host and the executor call it awaits;      *)
(*   - the MACHINES, whose detached commands and marker directories go on   *)
(*     whatever happens to the app, and whose attached commands die with    *)
(*     their channel.                                                      *)
(*                                                                         *)
(* An action is the code between two awaits.  Clocks are not modelled: a   *)
(* deadline is a step that may be taken whenever the code could be waiting *)
(* for it.  Output, exit codes beyond zero or not, error texts and events  *)
(* sent to the renderer are left out.                                      *)
(***************************************************************************)
EXTENDS Naturals, FiniteSets

CONSTANTS
  Hosts,         \* the targets of the job
  NSteps,        \* spec.steps.length
  NWaves,        \* the number of cohorts among the targets
  WaveOf,        \* the wave of each host, in the order jobCohorts gives
  Concurrency,   \* spec.concurrency: hosts of one wave at work at a time
  Gated,         \* spec.gate = 'health'
  SlowHosts,     \* hosts whose launcher may take longer than JOB_LAUNCH_GRACE_MS
  MaxCrashes     \* bound of the model: how often the app may die

ASSUME HostsAssumption  == IsFiniteSet(Hosts)
ASSUME StepsAssumption  == NSteps \in Nat \ {0}
ASSUME WavesAssumption  == NWaves \in Nat \ {0} /\ WaveOf \in [Hosts -> 1..NWaves]
ASSUME PoolAssumption   == Concurrency \in Nat \ {0}
ASSUME GatedAssumption  == Gated \in BOOLEAN
ASSUME SlowAssumption   == SlowHosts \subseteq Hosts
ASSUME CrashAssumption  == MaxCrashes \in Nat

Steps == 1..NSteps

(* The states of a host's row the runner writes.  'rebooting' and 'foreign' *)
(* are live like 'detached' and told apart from it only by a reader.        *)
Live     == {"pending", "running", "detached"}
Settled  == {"ok", "failed", "skipped", "orphaned"}
Finished == {"done", "cancelled", "halted", "abandoned"}

VARIABLES
  (* the store *)
  jobState,   \* the job's row
  cancelledAt, \* the job's row says when it was cancelled
  rowState,   \* per host: the state column of its row
  rowHandle,  \* per host: the step whose marker the row names, 0 for null
  (* the process *)
  app,        \* "down", "starting" (adopt and reclaim) or "up"
  owner,      \* who holds the id in `active`: "none", "run" or "reclaim"
  cancelled,  \* RunState.cancelled
  disposed,   \* RunState.disposed
  phase,      \* "idle", "wave", "gate" (top of the gate's loop), "asking"
  wave,       \* the wave the run is at
  queue,      \* the hosts of the wave no worker has taken yet
  (* runOne, one activation per host *)
  frame,      \* the activation exists
  step,       \* stepIndex, and the step of the executor call it made
  mine,       \* the local variable `handle`
  nulled,     \* `result` is an earlier step's and its detachedHandle is null
  (* the executor call *)
  ex,         \* where it is
  said,       \* the last state it reported, `reported`
  answer,     \* what it answers with once the reap is over
  (* the machines *)
  remote,     \* per host and step: what became of the command
  marker,     \* per host and step: the marker directory is there
  late,       \* per host: the step whose attached connection timed out and is
              \* still coming up, or 0
  (* history, read by properties only *)
  launches,   \* per host and step: how often the command was started
  gaveUp,     \* hosts on which stallGuard gave up on a live executor
  reapLost,   \* hosts on which a reap never reached the machine, or came
              \* after a wrapper that was slower than the grace
  passed,     \* waves whose health gate said yes
  crashes     \* how often the app died

store   == <<jobState, cancelledAt, rowState, rowHandle>>
run     == <<owner, cancelled, disposed, phase, wave, queue>>
frames  == <<frame, step, mine, nulled>>
calls   == <<ex, said, answer>>
machine == <<remote, marker, launches, late>>
history == <<gaveUp, reapLost, passed>>
vars    == <<store, app, run, frames, calls, machine, history, crashes>>

ExecStates == {"none", "launching", "launched", "watching", "reaping",
               "reaped", "connecting", "attached"}
Answers    == {"none", "ok", "nonzero", "error", "orphaned", "degrade"}

RowsOK ==
  /\ rowState \in [Hosts -> Live \cup Settled]
  /\ rowHandle \in [Hosts -> 0..NSteps]

RunOK ==
  /\ jobState \in {"absent", "running"} \cup Finished
  /\ cancelledAt \in BOOLEAN
  /\ app \in {"down", "starting", "up"}
  /\ owner \in {"none", "run", "reclaim"}
  /\ cancelled \in BOOLEAN
  /\ disposed \in BOOLEAN
  /\ phase \in {"idle", "wave", "gate", "asking"}
  /\ wave \in 0..NWaves
  /\ queue \in SUBSET Hosts

CallsOK ==
  /\ frame \in [Hosts -> BOOLEAN]
  /\ step \in [Hosts -> 0..NSteps]
  /\ mine \in [Hosts -> 0..NSteps]
  /\ nulled \in [Hosts -> BOOLEAN]
  /\ ex \in [Hosts -> ExecStates]
  /\ said \in [Hosts -> {"none", "parked", "unreachable", "running"}]
  /\ answer \in [Hosts -> Answers]

MachineOK ==
  /\ remote \in [Hosts -> [Steps -> {"never", "running", "zero", "nonzero", "gone"}]]
  /\ marker \in [Hosts -> [Steps -> BOOLEAN]]
  /\ launches \in [Hosts -> [Steps -> Nat]]
  /\ late \in [Hosts -> 0..NSteps]

HistoryOK ==
  /\ gaveUp \in [Hosts -> BOOLEAN]
  /\ reapLost \in [Hosts -> BOOLEAN]
  /\ passed \in SUBSET (1..NWaves)
  /\ crashes \in 0..MaxCrashes

TypeOK == RowsOK /\ RunOK /\ CallsOK /\ MachineOK /\ HistoryOK

Init ==
  /\ jobState = "absent" /\ cancelledAt = FALSE
  /\ rowState = [h \in Hosts |-> "pending"]
  /\ rowHandle = [h \in Hosts |-> 0]
  /\ app = "up" /\ owner = "none"
  /\ cancelled = FALSE /\ disposed = FALSE
  /\ phase = "idle" /\ wave = 0 /\ queue = {}
  /\ frame = [h \in Hosts |-> FALSE]
  /\ step = [h \in Hosts |-> 0]
  /\ mine = [h \in Hosts |-> 0]
  /\ nulled = [h \in Hosts |-> FALSE]
  /\ ex = [h \in Hosts |-> "none"]
  /\ said = [h \in Hosts |-> "none"]
  /\ answer = [h \in Hosts |-> "none"]
  /\ late = [h \in Hosts |-> 0]
  /\ remote = [h \in Hosts |-> [s \in Steps |-> "never"]]
  /\ marker = [h \in Hosts |-> [s \in Steps |-> FALSE]]
  /\ launches = [h \in Hosts |-> [s \in Steps |-> 0]]
  /\ gaveUp = [h \in Hosts |-> FALSE]
  /\ reapLost = [h \in Hosts |-> FALSE]
  /\ passed = {}
  /\ crashes = 0

------------------------------------------------------------------------------
(* Ownership and the rows *)

(* owns(): the run whose actions these are is the one in `active`.  A        *)
(* process has at most one run of the job, since run() refuses a second and  *)
(* reclaim() is called once, at startup.                                     *)
Active == owner # "none"

HasHandle(h) == rowHandle[h] # 0

(* A live row with a marker: a command somebody can pick up. *)
Reclaimable(h) == rowHandle[h] # 0 /\ rowState[h] \in Live

WaveHosts(w) == {h \in Hosts : WaveOf[h] = w}

Busy == {h \in Hosts : frame[h]}

WriteRow(h, st, hd) ==
  /\ rowState'  = [rowState  EXCEPT ![h] = st]
  /\ rowHandle' = [rowHandle EXCEPT ![h] = hd]
  /\ UNCHANGED <<jobState, cancelledAt>>

(* applyUpdate: dropped unless the run still owns the id, and otherwise      *)
(* written whatever the row says.                                            *)
ApplyUpdate(h, st, hd) ==
  IF Active THEN WriteRow(h, st, hd) ELSE UNCHANGED store

(* The end of runOne.  An owner writes the verdict it was given; a disposed  *)
(* run leaves a host with a marker `detached` and closes one without.        *)
SettleRow(h, st, hd) ==
  IF Active
  THEN WriteRow(h, st, hd)
  ELSE IF disposed /\ mine[h] # 0 THEN WriteRow(h, "detached", mine[h])
  ELSE IF disposed THEN WriteRow(h, "failed", rowHandle[h])
  ELSE UNCHANGED store

(* The executor is entered for a step: by the detached path, or by the       *)
(* attached one when the switch is off or the host cannot detach.            *)
Enter(h) ==
  \E e \in {"launching", "connecting"} : ex' = [ex EXCEPT ![h] = e]

VerdictLeavingOrphans(kind) ==
  CASE kind \in {"ok", "nonzero"} -> "ok"
    [] kind = "orphaned"          -> "detached"
    [] OTHER                      -> "failed"

(* A status other than zero is a result, not a failure. *)
Verdict(kind) ==
  CASE kind \in {"ok", "nonzero"} -> "ok"
    [] kind = "orphaned"          -> "orphaned"
    [] OTHER                      -> "failed"

(* The locals of runOne and of the executor's call go out of scope. *)
FrameEnds(h) ==
  /\ frame' = [frame EXCEPT ![h] = FALSE]
  /\ mine' = [mine EXCEPT ![h] = 0]
  /\ nulled' = [nulled EXCEPT ![h] = FALSE]

CallEnds(h) ==
  /\ ex' = [ex EXCEPT ![h] = "none"]
  /\ step' = [step EXCEPT ![h] = 0]
  /\ said' = [said EXCEPT ![h] = "none"]
  /\ answer' = [answer EXCEPT ![h] = "none"]

(* The executor's promise settles with `kind`; `clears` says that its        *)
(* detachedHandle is null.  A call stallGuard gave up on has no listener.    *)
Returns(h, kind, clears) ==
  \/ /\ ~frame[h]
     /\ CallEnds(h)
     /\ UNCHANGED <<store, frame, mine, nulled>>
  \/ /\ frame[h] /\ Active /\ kind = "ok" /\ step[h] < NSteps
     /\ step' = [step EXCEPT ![h] = @ + 1]
     /\ nulled' = [nulled EXCEPT ![h] = clears]
     /\ said' = [said EXCEPT ![h] = "none"]
     /\ answer' = [answer EXCEPT ![h] = "none"]
     /\ Enter(h)
     /\ UNCHANGED <<store, frame, mine>>
  \/ /\ frame[h] /\ ~(Active /\ kind = "ok" /\ step[h] < NSteps)
     /\ SettleRow(h, Verdict(kind), IF clears THEN 0 ELSE mine[h])
     /\ FrameEnds(h) /\ CallEnds(h)

------------------------------------------------------------------------------
(* run(), cancel(), disposeAll() and the waves *)

Run ==
  /\ app = "up" /\ jobState = "absent"
  /\ jobState' = "running"
  /\ owner' = "run" /\ cancelled' = FALSE /\ disposed' = FALSE
  /\ phase' = "wave" /\ wave' = 1 /\ queue' = WaveHosts(1)
  /\ UNCHANGED <<cancelledAt, rowState, rowHandle, app, frames, calls, machine, history, crashes>>

(* A worker is free and a host is waiting. *)
CanTake == phase = "wave" /\ Active /\ queue # {} /\ Cardinality(Busy) < Concurrency

WaveTaken == phase = "wave" /\ Active /\ queue = {}

(* Every worker of the wave has returned. *)
WaveOver == phase = "wave" /\ Active /\ queue = {} /\ Busy = {}

(* Workers take hosts and end waves in the turn that let them; the user's    *)
(* calls come in turns of their own.                                         *)
Quiet == ~CanTake /\ ~WaveOver

Cancel ==
  /\ Active /\ ~cancelled /\ Quiet
  /\ cancelled' = TRUE /\ cancelledAt' = TRUE
  /\ UNCHANGED <<jobState, rowState, rowHandle, app, owner, disposed, phase, wave,
                 queue, frames, calls, machine, history, crashes>>

(* The workers and the gate's loop find that they no longer own the id and  *)
(* return without writing; only a gate awaiting the nodes' answer goes on.   *)
DisposeAll ==
  /\ Active /\ Quiet
  /\ owner' = "none" /\ cancelled' = TRUE /\ disposed' = TRUE
  /\ phase' = IF phase = "asking" THEN "asking" ELSE "idle"
  /\ queue' = {}
  /\ UNCHANGED <<store, app, wave, frames, calls, machine, history, crashes>>

(* A worker takes a host after a cancel: markSkipped. *)
TakeCancelled(h) ==
  /\ CanTake /\ h \in queue /\ cancelled
  /\ queue' = queue \ {h}
  /\ WriteRow(h, "skipped", rowHandle[h])
  /\ UNCHANGED <<app, owner, cancelled, disposed, phase, wave, frames, calls,
                 machine, history, crashes>>

(* A worker takes a host of a wave and runOne starts its first step. *)
TakeFresh(h) ==
  /\ CanTake /\ h \in queue /\ owner = "run" /\ ~cancelled
  /\ queue' = queue \ {h}
  /\ WriteRow(h, "running", rowHandle[h])
  /\ frame' = [frame EXCEPT ![h] = TRUE]
  /\ step' = [step EXCEPT ![h] = 1]
  /\ mine' = [mine EXCEPT ![h] = 0]
  /\ nulled' = [nulled EXCEPT ![h] = FALSE]
  /\ Enter(h)
  /\ UNCHANGED <<app, owner, cancelled, disposed, phase, wave, said, answer,
                 machine, history, crashes>>

(* A worker of reclaim() takes a host: the executor rejoins the marker. *)
TakeReclaimed(h) ==
  /\ CanTake /\ h \in queue /\ owner = "reclaim" /\ ~cancelled
  /\ queue' = queue \ {h}
  /\ frame' = [frame EXCEPT ![h] = TRUE]
  /\ step' = [step EXCEPT ![h] = rowHandle[h]]
  /\ mine' = [mine EXCEPT ![h] = rowHandle[h]]
  /\ nulled' = [nulled EXCEPT ![h] = FALSE]
  /\ ex' = [ex EXCEPT ![h] = "watching"]
  /\ said' = [said EXCEPT ![h] = "none"]
  /\ UNCHANGED <<store, app, owner, cancelled, disposed, phase, wave, answer,
                 machine, history, crashes>>

(* A worker of reclaim() takes a host that left the workspace. *)
TakeUnknown(h) ==
  /\ CanTake /\ h \in queue /\ owner = "reclaim"
  /\ queue' = queue \ {h}
  /\ WriteRow(h, "orphaned", rowHandle[h])
  /\ UNCHANGED <<app, owner, cancelled, disposed, phase, wave, frames, calls,
                 machine, history, crashes>>

FinallyWhoeverOwns(end) ==
  /\ owner' = "none" /\ phase' = "idle"
  /\ jobState' = IF cancelled THEN "cancelled" ELSE end

(* The run's `finally`: a run that no longer owns the id closes nothing. *)
Finally(end) ==
  /\ owner' = "none" /\ phase' = "idle"
  /\ jobState' = IF ~Active THEN jobState ELSE IF cancelled THEN "cancelled" ELSE end

StartWave(w) ==
  /\ wave' = w /\ phase' = "wave" /\ queue' = WaveHosts(w)

LastWaveTooLate == owner = "reclaim" \/ wave > NWaves \/ cancelled

LastWave == owner = "reclaim" \/ wave = NWaves \/ cancelled

(* The last wave, a reclaim, or a cancelled run ends the job. *)
EndJob ==
  /\ WaveOver /\ LastWave
  /\ Finally("done")
  /\ UNCHANGED <<cancelledAt, rowState, rowHandle, app, cancelled, disposed, wave, queue,
                 frames, calls, machine, history, crashes>>

(* Another wave follows: gateAfterWave, which lets an ungated run through. *)
EndWave ==
  /\ WaveOver /\ ~LastWave
  /\ IF Gated THEN phase' = "gate" /\ UNCHANGED <<wave, queue>> ELSE StartWave(wave + 1)
  /\ UNCHANGED <<store, app, owner, cancelled, disposed, frames, calls, machine,
                 history, crashes>>

(* A cancel seen by the gate: it returns null, and the run enters the next  *)
(* wave.                                                                    *)
GateCancelled ==
  /\ phase = "gate" /\ Active /\ cancelled
  /\ StartWave(wave + 1)
  /\ UNCHANGED <<store, app, owner, cancelled, disposed, frames, calls, machine,
                 history, crashes>>

(* The machines look well and the control plane is asked. *)
GateAsks ==
  /\ phase = "gate" /\ Active /\ ~cancelled
  /\ phase' = "asking"
  /\ UNCHANGED <<store, app, owner, cancelled, disposed, wave, queue, frames,
                 calls, machine, history, crashes>>

(* The gate evaluates: at the top of its loop, or on the nodes' answer,      *)
(* which may come after a cancel or a dispose.                               *)
Evaluating == phase = "asking" \/ (phase = "gate" /\ Active /\ ~cancelled)

GatePass ==
  /\ Evaluating
  /\ passed' = passed \cup {wave}
  /\ IF Active THEN StartWave(wave + 1) ELSE phase' = "idle" /\ UNCHANGED <<wave, queue>>
  /\ UNCHANGED <<store, app, owner, cancelled, disposed, frames, calls, machine,
                 gaveUp, reapLost, crashes>>

AheadOrNow(h) == WaveOf[h] >= wave

(* The host is in a wave the run has not entered. *)
Ahead(h) == WaveOf[h] > wave

(* Unhealthy, no health source, or stale until GATE_WAIT_MS ran out: every   *)
(* host of the waves that are left is skipped, without asking who owns them. *)
GateHalt ==
  /\ Evaluating
  /\ rowState' = [h \in Hosts |-> IF Ahead(h) THEN "skipped" ELSE rowState[h]]
  /\ Finally("halted")
  /\ UNCHANGED <<cancelledAt, rowHandle, app, cancelled, disposed, wave, queue,
                 frames, calls, machine, history, crashes>>

(* Stale: the gate sleeps and looks again. *)
GateStale ==
  /\ phase = "asking"
  /\ phase' = IF Active THEN "gate" ELSE "idle"
  /\ UNCHANGED <<store, app, owner, cancelled, disposed, wave, queue, frames,
                 calls, machine, history, crashes>>

------------------------------------------------------------------------------
(* The detached executor: exec() and watch() *)

(* The launch command reaches the machine.  A launcher that does not detach  *)
(* leaves a marker in which no pid ever appears.                             *)
LaunchRuns(h) ==
  LET s == step[h] IN
  /\ ex[h] = "launching"
  /\ ex' = [ex EXCEPT ![h] = "launched"]
  /\ marker' = [marker EXCEPT ![h][s] = TRUE]
  /\ \/ /\ remote' = [remote EXCEPT ![h][s] = "running"]
        /\ launches' = [launches EXCEPT ![h][s] = @ + 1]
     \/ UNCHANGED <<remote, launches>>
  /\ UNCHANGED <<store, app, run, frames, said, answer, late, history, crashes>>

(* Its answer arrives: the marker is on the row before the first poll. *)
LaunchReply(h) ==
  /\ ex[h] = "launched"
  /\ ex' = [ex EXCEPT ![h] = "watching"]
  /\ said' = [said EXCEPT ![h] = "none"]
  /\ mine' = [mine EXCEPT ![h] = step[h]]
  /\ ApplyUpdate(h, "detached", step[h])
  /\ UNCHANGED <<app, run, frame, step, nulled, answer, machine, history, crashes>>

(* A call that throws, because the vault has been locked: runOne's catch     *)
(* finds `result` as the step before left it, and the null in it clears the  *)
(* handle.                                                                   *)
Throws(h) == Returns(h, "error", nulled[h])

(* The launch fails, or its answer is lost; preparing it may throw.          *)
LaunchFails(h) ==
  /\ \/ ex[h] \in {"launching", "launched"} /\ Returns(h, "error", FALSE)
     \/ ex[h] = "launching" /\ Throws(h)
  /\ UNCHANGED <<app, run, machine, history, crashes>>

(* alive() is false: the row keeps its marker for the next launch. *)
WatchStops(h) ==
  /\ ex[h] = "watching" /\ ~Active
  /\ Returns(h, "detached", FALSE)
  /\ UNCHANGED <<app, run, machine, history, crashes>>

(* say(): reported when it differs from what was reported last. *)
Say(h, what, st) ==
  /\ ex[h] = "watching" /\ said[h] # what
  /\ said' = [said EXCEPT ![h] = what]
  /\ ApplyUpdate(h, st, rowHandle[h])
  /\ UNCHANGED <<app, run, frames, ex, answer, machine, history, crashes>>

(* The host's credential is in a vault that is locked. *)
Parks(h) == Active /\ Say(h, "parked", "detached")

(* The poll does not get through: the link is down, the job is not. *)
PollFails(h) == Say(h, "unreachable", "detached")

(* A poll is answered. *)
Polled(h) == ex[h] = "watching" /\ marker[h][step[h]]

(* The command is running. *)
PollRunning(h) ==
  /\ Polled(h) /\ remote[h][step[h]] = "running"
  /\ Say(h, "running", "running")

(* It has written output since the last poll: persist() of the new offset.   *)
PollOutput(h) ==
  /\ Polled(h) /\ Active
  /\ rowHandle[h] # step[h]
  /\ WriteRow(h, rowState[h], step[h])
  /\ UNCHANGED <<app, run, frames, calls, machine, history, crashes>>

PollDeadlineForgets(h) ==
  /\ Polled(h) /\ remote[h][step[h]] = "running" /\ said[h] = "running"
  /\ Returns(h, "error", TRUE)
  /\ UNCHANGED <<app, run, machine, history, crashes>>

(* It is running past the deadline: the SIGTERM was refused, has not stopped *)
(* it, or could not be sent, which throws.                                   *)
PollDeadline(h) ==
  /\ Polled(h) /\ remote[h][step[h]] = "running" /\ said[h] = "running"
  /\ Returns(h, "error", FALSE) \/ Throws(h)
  /\ UNCHANGED <<app, run, machine, history, crashes>>

(* A last answer is in hand and the marker is to be removed. *)
Reaps(h, a) ==
  /\ ex' = [ex EXCEPT ![h] = "reaping"]
  /\ answer' = [answer EXCEPT ![h] = a]
  /\ UNCHANGED <<store, app, run, frames, said, machine, history, crashes>>

PollFinishedUnread(h) ==
  Polled(h) /\ remote[h][step[h]] \in {"zero", "nonzero"} /\ Reaps(h, "ok")

PollFinished(h) ==
  /\ Polled(h)
  /\ \/ remote[h][step[h]] = "zero"    /\ Reaps(h, "ok")
     \/ remote[h][step[h]] = "nonzero" /\ Reaps(h, "nonzero")

(* Gone without a status: an orphan, or a timeout if the watch signalled it. *)
PollGone(h) ==
  /\ Polled(h) /\ remote[h][step[h]] = "gone"
  /\ Reaps(h, "orphaned") \/ Reaps(h, "error")

PollNoPidUnread(h) == Polled(h) /\ Reaps(h, "degrade")

(* No pid after JOB_LAUNCH_GRACE_MS: the launch did not take. *)
PollNoPid(h) == Polled(h) /\ remote[h][step[h]] = "never" /\ Reaps(h, "degrade")

(* The marker directory is not there. *)
PollMissing(h) ==
  /\ ex[h] = "watching" /\ ~marker[h][step[h]]
  /\ Returns(h, "orphaned", TRUE)
  /\ UNCHANGED <<app, run, machine, history, crashes>>

(* The wrapper was only slow: it starts the command after a poll took it for *)
(* one that never would.                                                     *)
SlowWrapper(h) ==
  LET s == step[h] IN
  /\ h \in SlowHosts
  /\ ex[h] = "reaping" /\ answer[h] = "degrade" /\ remote[h][s] = "never"
  /\ remote' = [remote EXCEPT ![h][s] = "running"]
  /\ launches' = [launches EXCEPT ![h][s] = @ + 1]
  /\ reapLost' = [reapLost EXCEPT ![h] = TRUE]
  /\ UNCHANGED <<store, app, run, frames, calls, marker, late, gaveUp, passed, crashes>>

ReapRuns(h) ==
  /\ ex[h] = "reaping"
  /\ ex' = [ex EXCEPT ![h] = "reaped"]
  /\ marker' = [marker EXCEPT ![h][step[h]] = FALSE]
  /\ UNCHANGED <<store, app, run, frames, said, answer, remote, launches,
                 late, history, crashes>>

(* The reap does not reach the machine, which reap() does not ask about. *)
ReapFails(h) ==
  /\ ex[h] = "reaping"
  /\ ex' = [ex EXCEPT ![h] = "reaped"]
  /\ reapLost' = [reapLost EXCEPT ![h] = TRUE]
  /\ UNCHANGED <<store, app, run, frames, said, answer, machine, gaveUp,
                 passed, crashes>>

ReapReply(h) ==
  /\ ex[h] = "reaped" /\ answer[h] # "degrade"
  /\ Returns(h, answer[h], TRUE)
  /\ UNCHANGED <<app, run, machine, history, crashes>>

(* The host cannot detach after all: the step runs on the attached path. *)
Degrade(h) ==
  /\ ex[h] = "reaped" /\ answer[h] = "degrade"
  /\ ex' = [ex EXCEPT ![h] = "connecting"]
  /\ answer' = [answer EXCEPT ![h] = "none"]
  /\ mine' = [mine EXCEPT ![h] = 0]
  /\ ApplyUpdate(h, "running", 0)
  /\ UNCHANGED <<app, run, frame, step, nulled, said, machine, history, crashes>>

------------------------------------------------------------------------------
(* The attached executor, and stallGuard *)

AttachedRuns(h) ==
  LET s == step[h] IN
  /\ ex[h] = "connecting"
  /\ ex' = [ex EXCEPT ![h] = "attached"]
  /\ remote' = [remote EXCEPT ![h][s] = "running"]
  /\ launches' = [launches EXCEPT ![h][s] = @ + 1]
  /\ UNCHANGED <<store, app, run, frames, said, answer, marker, late, history, crashes>>

AttachedReturns(h) ==
  /\ ex[h] = "attached"
  /\ \/ remote[h][step[h]] = "zero"    /\ Returns(h, "ok", FALSE)
     \/ remote[h][step[h]] = "nonzero" /\ Returns(h, "nonzero", FALSE)
  /\ UNCHANGED <<app, run, machine, history, crashes>>

(* The connection is refused, or the channel is lost or times out, which     *)
(* stops the command; or the connection cannot even be prepared.             *)
AttachedFails(h) ==
  /\ ex[h] \in {"connecting", "attached"}
  /\ remote' = IF ex[h] = "attached" /\ remote[h][step[h]] = "running"
               THEN [remote EXCEPT ![h][step[h]] = "gone"] ELSE remote
  /\ Returns(h, "error", FALSE) \/ (ex[h] = "connecting" /\ Throws(h))
  /\ UNCHANGED <<app, run, marker, launches, late, history, crashes>>

(* The timer, armed before the connection, fires while it is coming up ...   *)
ConnectTimesOut(h) ==
  /\ ex[h] = "connecting"
  /\ late' = [late EXCEPT ![h] = step[h]]
  /\ Returns(h, "error", FALSE)
  /\ UNCHANGED <<app, run, remote, marker, launches, history, crashes>>

(* ... and when it does come up, the command it started is told to stop.     *)
ConnectsLate(h) ==
  /\ late[h] # 0
  /\ late' = [late EXCEPT ![h] = 0]
  /\ remote' = [remote EXCEPT ![h][late[h]] = "gone"]
  /\ launches' = [launches EXCEPT ![h][late[h]] = @ + 1]
  /\ UNCHANGED <<store, app, run, frames, calls, marker, history, crashes>>

StallsNever(h) == FALSE

(* stallGuard rejects: the step's timeout and the grace are over and the     *)
(* executor has not answered.  Only the probe and the launch are too short   *)
(* to get there: their own timeouts together are within the grace.  The call *)
(* itself goes on.  `result` still holds the step before, whose null clears  *)
(* the handle.                                                               *)
Stalls(h) ==
  /\ frame[h] /\ ex[h] \in {"watching", "reaping", "reaped", "connecting", "attached"}
  /\ SettleRow(h, "failed", IF nulled[h] THEN 0 ELSE mine[h])
  /\ FrameEnds(h)
  /\ gaveUp' = [gaveUp EXCEPT ![h] = TRUE]
  /\ UNCHANGED <<app, run, step, calls, machine, reapLost, passed, crashes>>

------------------------------------------------------------------------------
(* The machines, and the life of the process *)

CommandEnds(h, s) ==
  /\ remote[h][s] = "running"
  /\ \E r \in {"zero", "nonzero", "gone"} : remote' = [remote EXCEPT ![h][s] = r]
  /\ UNCHANGED <<store, app, run, frames, calls, marker, launches, late, history, crashes>>

(* The app dies: attached commands lose their channel, detached ones do not  *)
(* notice.                                                                   *)
Crash ==
  /\ app # "down" /\ jobState # "absent" /\ crashes < MaxCrashes
  /\ crashes' = crashes + 1
  /\ app' = "down" /\ owner' = "none"
  /\ cancelled' = FALSE /\ disposed' = FALSE
  /\ phase' = "idle" /\ wave' = 0 /\ queue' = {}
  /\ frame' = [h \in Hosts |-> FALSE]
  /\ step' = [h \in Hosts |-> 0]
  /\ mine' = [h \in Hosts |-> 0]
  /\ nulled' = [h \in Hosts |-> FALSE]
  /\ ex' = [h \in Hosts |-> "none"]
  /\ said' = [h \in Hosts |-> "none"]
  /\ answer' = [h \in Hosts |-> "none"]
  /\ late' = [h \in Hosts |-> 0]
  /\ remote' = [h \in Hosts |-> [s \in Steps |->
                 IF ex[h] = "attached" /\ step[h] = s /\ remote[h][s] = "running"
                 THEN "gone" ELSE remote[h][s]]]
  /\ UNCHANGED <<store, marker, launches, history>>

Start ==
  /\ app = "down"
  /\ app' = IF jobState = "running" THEN "starting" ELSE "up"
  /\ UNCHANGED <<store, run, frames, calls, machine, history, crashes>>

ToSealIfRunning(h) == ~Reclaimable(h) /\ rowState[h] = "running"

(* adopt(), and reclaim() for the hosts it does not take over: nothing is    *)
(* started, a host that was running is closed and one never reached sealed.  *)
ToSeal(h) == ~Reclaimable(h) /\ rowState[h] \in {"running", "pending"}

Seal(h) ==
  /\ app = "starting" /\ ToSeal(h)
  /\ WriteRow(h, IF rowState[h] = "running" THEN "failed" ELSE "skipped", rowHandle[h])
  /\ UNCHANGED <<app, run, frames, calls, machine, history, crashes>>

Adopt ==
  /\ app = "starting" /\ \A h \in Hosts : ~ToSeal(h) /\ ~Reclaimable(h)
  /\ app' = "up" /\ jobState' = "abandoned"
  /\ UNCHANGED <<cancelledAt, rowState, rowHandle, run, frames, calls, machine, history, crashes>>

Reclaim ==
  /\ app = "starting" /\ \A h \in Hosts : ~ToSeal(h)
  /\ \E h \in Hosts : Reclaimable(h)
  /\ app' = "up" /\ owner' = "reclaim" /\ phase' = "wave"
  /\ queue' = {h \in Hosts : Reclaimable(h)}
  /\ UNCHANGED <<store, cancelled, disposed, wave, frames, calls, machine, history, crashes>>

------------------------------------------------------------------------------

RunStep ==
  \/ Run \/ Cancel \/ DisposeAll \/ EndJob \/ EndWave
  \/ GateCancelled \/ GateAsks \/ GatePass \/ GateHalt \/ GateStale

TakeStep(h) == TakeCancelled(h) \/ TakeFresh(h) \/ TakeReclaimed(h) \/ TakeUnknown(h)

(* What ends an executor's call, or a listener's wait for it. *)
ExecEnds(h) ==
  \/ LaunchFails(h) \/ WatchStops(h) \/ PollDeadline(h) \/ PollMissing(h)
  \/ ReapReply(h) \/ AttachedReturns(h) \/ AttachedFails(h)
  \/ ConnectTimesOut(h) \/ Stalls(h)

ExecGoesOn(h) ==
  \/ LaunchRuns(h) \/ LaunchReply(h) \/ Parks(h) \/ PollFails(h) \/ PollRunning(h)
  \/ PollOutput(h) \/ PollFinished(h) \/ PollGone(h) \/ PollNoPid(h)
  \/ SlowWrapper(h) \/ ReapRuns(h) \/ ReapFails(h) \/ Degrade(h) \/ AttachedRuns(h)

BootStep == Crash \/ Start \/ Adopt \/ Reclaim \/ \E h \in Hosts : Seal(h)

Next ==
  \/ RunStep
  \/ \E h \in Hosts : TakeStep(h) \/ ExecEnds(h) \/ ExecGoesOn(h)
  \/ \E h \in Hosts : ConnectsLate(h) \/ \E s \in Steps : CommandEnds(h, s)
  \/ BootStep

Spec == Init /\ [][Next]_vars

(* What the event loop gets round to while the process lives: a free worker  *)
(* takes the next host, a wave or the job ends, the gate decides by          *)
(* GATE_WAIT_MS, the synchronous startup ends, and an executor's call goes   *)
(* on and is over by its deadline or stallGuard's.  Nothing is assumed of    *)
(* the commands, the links, the user or the crashes.                         *)
Fairness ==
  /\ \A h \in Hosts : WF_vars(TakeStep(h)) /\ WF_vars(ExecEnds(h)) /\ WF_vars(ExecGoesOn(h))
  /\ WF_vars(EndJob) /\ WF_vars(EndWave)
  /\ WF_vars(GateCancelled \/ GatePass \/ GateHalt)
  /\ WF_vars(Adopt \/ Reclaim \/ \E h \in Hosts : Seal(h))

FairSpec == Spec /\ Fairness

------------------------------------------------------------------------------
(* Properties *)

Launched(h) == \E s \in Steps : launches[h][s] > 0

(* No step of the job is started twice on a host, whatever crashes, resumes  *)
(* and fallbacks happen in between: runOne rejoins "at the step its marker   *)
(* names" and does not run it again.  Two exceptions: a reap was lost there, *)
(* or a wrapper slower than JOB_LAUNCH_GRACE_MS got going just before it.    *)
AtMostOnce ==
  \A h \in Hosts : reapLost[h] \/ \A s \in Steps : launches[h][s] <= 1

(* A host of a later wave is touched only when every host of the earlier     *)
(* ones has its verdict and, in a gated run, the gate after each of them     *)
(* said yes: neither a cancel nor a dispose seen by the gate lets one start. *)
WavesInOrder ==
  \A h \in Hosts : Launched(h) =>
    /\ \A g \in Hosts : WaveOf[g] < WaveOf[h] => rowState[g] \in Settled \/ gaveUp[g]
    /\ Gated => \A w \in 1..(WaveOf[h] - 1) : w \in passed

(* Under a job that has ended no host is still on its way -- except a host   *)
(* of a wave a cancel kept the run from entering, and a host stallGuard gave *)
(* up on, whose executor goes on reporting.                                  *)
ClosedMeansSettled ==
  jobState \in Finished =>
    \A h \in Hosts :
      \/ rowState[h] \in Settled
      \/ gaveUp[h]
      \/ rowState[h] = "pending" /\ jobState = "cancelled" /\ WaveOf[h] > 1

(* While a run owns the job, a host that has been started and has no verdict *)
(* is one somebody follows: a runOne awaits it, or a worker will take it.    *)
LiveRowIsFollowed ==
  Active => \A h \in Hosts :
    rowState[h] \in {"running", "detached"} => frame[h] \/ h \in queue \/ gaveUp[h]

(* A marker that is on a row and whose command is running is the only way    *)
(* back to the command, so no verdict, no dispose, no restart and no host    *)
(* stallGuard gave up on drops it.  Two paths of the code do, and only they: *)
(* runOne's catch, which in a later step of a job still holds the null of    *)
(* the step before, and the fallback of a start taken for one that failed.   *)
HandleKept ==
  [][\A h \in Hosts, s \in Steps :
       rowHandle[h] = s /\ rowHandle'[h] # s /\ marker[h][s] /\ remote[h][s] = "running"
         => \/ nulled[h] /\ ~frame'[h] /\ rowState'[h] = "failed"
            \/ reapLost[h] /\ answer[h] = "degrade"]_vars

(* A verdict is final: a host with one keeps it through reclaims, late       *)
(* polls, disposes and the gate.                                             *)
VerdictIsFinal ==
  [][\A h \in Hosts :
       rowState[h] \in Settled /\ ~gaveUp[h] => rowState'[h] = rowState[h]]_vars

(* A host is recorded as not run only if nothing was ever started on it --   *)
(* except where a reclaimed job is cancelled before a worker takes it.       *)
SkippedWasNotReached ==
  [][\A h \in Hosts :
       rowState[h] # "skipped" /\ rowState'[h] = "skipped" /\ owner # "reclaim"
         => ~Launched(h)]_vars

(* Nothing is started on a host whose row does not say it is at work: not on *)
(* one still pending, not on one sealed by a restart or skipped by a cancel  *)
(* or a gate, not on one with a verdict -- but for a connection that comes   *)
(* up after its timeout.                                                     *)
StartIsOnTheRow ==
  [][\A h \in Hosts, s \in Steps :
       launches'[h][s] > launches[h][s]
         => rowState[h] \in {"running", "detached"} \/ gaveUp[h] \/ late[h] = s]_vars

(* Steps run as `a && b`: one is started only after the one before it ended  *)
(* with zero.                                                                *)
StepsInOrder ==
  [][\A h \in Hosts, s \in Steps :
       launches'[h][s] > launches[h][s] /\ s > 1 => remote[h][s - 1] = "zero"]_vars

(* Every job a process works on ends, however its hosts hang, unless the     *)
(* process is taken away: no worker waits for ever on an executor, no wave   *)
(* on a worker, no job on its gate.                                          *)
JobEnds ==
  (app # "down" /\ jobState = "running")
    ~> (jobState \in Finished \/ disposed \/ app = "down")

(* A job ends as a fact about the run, and a cancel a restart does not undo: *)
(* cancel() persists itself "immediately" because "a cancel the store does   *)
(* not know about is a cancel that a restart undoes".                        *)
CancelSurvives == jobState = "done" => ~cancelledAt

(* cancel(): "Hosts not yet started are recorded `skipped`, so the target    *)
(* list stays complete rather than simply ending early."                     *)
CancelSkipsTheRest == jobState = "cancelled" => \A h \in Hosts : rowState[h] # "pending"

(* run(): "a job that looks finished over a target that looks running" is    *)
(* the pairing that must never be written.                                   *)
NothingRunsUnderAnEndedJob ==
  jobState \in Finished => \A h \in Hosts : rowState[h] \notin {"running", "detached"}

(* runOne: a reclaimed host never does a step again, "doing it twice because *)
(* OpsMaxx restarted is OpsMaxx causing the damage it exists to avoid".      *)
NothingIsDoneTwice == \A h \in Hosts, s \in Steps : launches[h][s] <= 1

(* runOne: null clears the row's marker "because the directory has been      *)
(* reaped", so no marker that still leads to a command is cleared.           *)
MarkerIsNeverDropped ==
  [][\A h \in Hosts, s \in Steps :
       rowHandle[h] = s /\ marker[h][s] /\ remote[h][s] = "running" => rowHandle'[h] = s]_vars

(* A dispose is not an ending: the job stays unfinished for the next launch  *)
(* to adopt or reclaim.                                                      *)
DisposedStaysOpen ==
  [][disposed /\ app = "up" => jobState' = jobState]_vars

==============================================================================
