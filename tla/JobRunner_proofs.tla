--------------------------- MODULE JobRunner_proofs --------------------------
(***************************************************************************)
(* What is proved of JobRunner for every set of hosts, number of steps and *)
(* waves, pool size and number of crashes.                                 *)
(***************************************************************************)
EXTENDS JobRunner, TLAPS

------------------------------------------------------------------------------
(* The operators the actions are built from *)

(* updateJobTarget with a state and a marker leaves the rows well formed and *)
(* the job's own row alone.                                                  *)
LEMMA WriteRowTypes ==
  ASSUME RowsOK, NEW h \in Hosts, NEW st \in Live \cup Settled, NEW hd \in 0..NSteps,
         WriteRow(h, st, hd)
  PROVE  RowsOK' /\ UNCHANGED <<jobState, cancelledAt>>
  BY DEF WriteRow, RowsOK

(* applyUpdate either writes the row or writes nothing. *)
LEMMA ApplyUpdateTypes ==
  ASSUME RowsOK, NEW h \in Hosts, NEW st \in Live \cup Settled, NEW hd \in 0..NSteps,
         ApplyUpdate(h, st, hd)
  PROVE  RowsOK' /\ UNCHANGED <<jobState, cancelledAt>>
<1>1. CASE Active
  BY <1>1, WriteRowTypes DEF ApplyUpdate
<1>2. CASE ~Active
  BY <1>2 DEF ApplyUpdate, RowsOK, store
<1> QED
  BY <1>1, <1>2

(* The end of runOne, under each of the three owners it may find. *)
LEMMA SettleRowTypes ==
  ASSUME RowsOK, CallsOK, NEW h \in Hosts, NEW st \in Live \cup Settled, NEW hd \in 0..NSteps,
         SettleRow(h, st, hd)
  PROVE  RowsOK' /\ UNCHANGED <<jobState, cancelledAt>>
<1>0. "detached" \in Live \cup Settled /\ "failed" \in Live \cup Settled
  BY DEF Live, Settled
<1>1. mine[h] \in 0..NSteps /\ rowHandle[h] \in 0..NSteps
  BY DEF RowsOK, CallsOK
<1>2. CASE WriteRow(h, st, hd)
  BY <1>2, WriteRowTypes
<1>3. CASE WriteRow(h, "detached", mine[h])
  BY <1>0, <1>1, <1>3, WriteRowTypes
<1>4. CASE WriteRow(h, "failed", rowHandle[h])
  BY <1>0, <1>1, <1>4, WriteRowTypes
<1>5. CASE UNCHANGED store
  BY <1>5 DEF RowsOK, store
<1> QED
  BY <1>2, <1>3, <1>4, <1>5 DEF SettleRow

(* The verdict on an executor's answer is a state a row may end in. *)
LEMMA VerdictSettles == ASSUME NEW kind PROVE Verdict(kind) \in Settled
  BY DEF Verdict, Settled

(* A dropped call, a next step or a verdict: whatever an executor's answer   *)
(* leads to, rows, activations and calls stay well formed.                   *)
LEMMA ReturnsTypes ==
  ASSUME RowsOK, CallsOK, NEW h \in Hosts, NEW kind, NEW clears \in BOOLEAN,
         Returns(h, kind, clears)
  PROVE  RowsOK' /\ CallsOK' /\ UNCHANGED <<jobState, cancelledAt>>
<1>1. CASE ~frame[h] /\ CallEnds(h) /\ UNCHANGED <<store, frame, mine, nulled>>
  <2>1. RowsOK' /\ UNCHANGED <<jobState, cancelledAt>>
    BY <1>1 DEF RowsOK, store
  <2>2. CallsOK'
    BY <1>1, StepsAssumption DEF CallEnds, CallsOK, ExecStates, Answers
  <2> QED
    BY <2>1, <2>2
<1>2. CASE /\ frame[h] /\ Active /\ kind = "ok" /\ step[h] < NSteps
           /\ step' = [step EXCEPT ![h] = @ + 1]
           /\ nulled' = [nulled EXCEPT ![h] = clears]
           /\ said' = [said EXCEPT ![h] = "none"]
           /\ answer' = [answer EXCEPT ![h] = "none"]
           /\ Enter(h)
           /\ UNCHANGED <<store, frame, mine>>
  <2>1. RowsOK' /\ UNCHANGED <<jobState, cancelledAt>>
    BY <1>2 DEF RowsOK, store
  <2>2. step' \in [Hosts -> 0..NSteps]
    BY <1>2, StepsAssumption DEF CallsOK
  <2>3. ex' \in [Hosts -> ExecStates]
    BY <1>2 DEF Enter, CallsOK, ExecStates
  <2> QED
    BY <1>2, <2>1, <2>2, <2>3 DEF CallsOK, Answers
<1>3. CASE /\ SettleRow(h, Verdict(kind), IF clears THEN 0 ELSE mine[h])
           /\ FrameEnds(h) /\ CallEnds(h)
  <2>1. (IF clears THEN 0 ELSE mine[h]) \in 0..NSteps
    BY StepsAssumption DEF CallsOK
  <2>2. RowsOK' /\ UNCHANGED <<jobState, cancelledAt>>
    BY <1>3, <2>1, SettleRowTypes, VerdictSettles
  <2>3. CallsOK'
    BY <1>3, StepsAssumption DEF FrameEnds, CallEnds, CallsOK, ExecStates, Answers
  <2> QED
    BY <2>2, <2>3
<1> QED
  BY <1>1, <1>2, <1>3 DEF Returns

(* The runner's synchronous tail keeps the job's row and the phase in type. *)
LEMMA FinallyTypes ==
  ASSUME RunOK, NEW end \in Finished, Finally(end)
  PROVE  /\ owner' \in {"none", "run", "reclaim"}
         /\ phase' \in {"idle", "wave", "gate", "asking"}
         /\ jobState' \in {"absent", "running"} \cup Finished
  BY DEF Finally, RunOK, Finished

(* A wave that exists starts with its own hosts. *)
LEMMA StartWaveTypes ==
  ASSUME NEW w \in 1..NWaves, StartWave(w)
  PROVE  /\ wave' \in 0..NWaves
         /\ phase' \in {"idle", "wave", "gate", "asking"}
         /\ queue' \in SUBSET Hosts
  BY WavesAssumption DEF StartWave, WaveHosts

(* One more start of a command on a host keeps the counts natural numbers. *)
LEMMA CountedTypes ==
  ASSUME launches \in [Hosts -> [Steps -> Nat]], NEW h \in Hosts, NEW s,
         launches' = [launches EXCEPT ![h][s] = @ + 1]
  PROVE  launches' \in [Hosts -> [Steps -> Nat]]
<1>1. [launches[h] EXCEPT ![s] = @ + 1] \in [Steps -> Nat]
  <2>1. launches[h] \in [Steps -> Nat]
    OBVIOUS
  <2>2. \A t \in Steps : t = s => launches[h][s] + 1 \in Nat
    BY <2>1
  <2> QED
    BY <2>1, <2>2
<1>2. launches' = [launches EXCEPT ![h] = [launches[h] EXCEPT ![s] = @ + 1]]
  OBVIOUS
<1> QED
  BY <1>1, <1>2

(* What a step does not touch stays in type. *)
LEMMA Untouched ==
  /\ RowsOK /\ UNCHANGED <<rowState, rowHandle>> => RowsOK'
  /\ RunOK /\ UNCHANGED <<jobState, cancelledAt, app, run>> => RunOK'
  /\ CallsOK /\ UNCHANGED <<frames, calls>> => CallsOK'
  /\ MachineOK /\ UNCHANGED machine => MachineOK'
  /\ HistoryOK /\ UNCHANGED <<history, crashes>> => HistoryOK'
<1>1. RowsOK /\ UNCHANGED <<rowState, rowHandle>> => RowsOK'
  BY DEF RowsOK
<1>2. RunOK /\ UNCHANGED <<jobState, cancelledAt, app, run>> => RunOK'
  BY DEF RunOK, run
<1>3. CallsOK /\ UNCHANGED <<frames, calls>> => CallsOK'
  BY DEF CallsOK, frames, calls
<1>4. MachineOK /\ UNCHANGED machine => MachineOK'
  BY DEF MachineOK, machine
<1>5. HistoryOK /\ UNCHANGED <<history, crashes>> => HistoryOK'
  BY DEF HistoryOK, history
<1> QED
  BY <1>1, <1>2, <1>3, <1>4, <1>5

------------------------------------------------------------------------------
(* Type correctness *)

(* The wave counter stays in range because a gate is only ever asked between *)
(* two waves, and only a run in its first wave or later reaches one.         *)
WaveOK ==
  /\ phase \in {"gate", "asking"} => wave \in 1..(NWaves - 1)
  /\ owner = "run" => wave # 0

TypeInv == TypeOK /\ WaveOK

(* The state before the job is created is well formed. *)
LEMMA InitTypeInv == Init => TypeInv
<1> SUFFICES ASSUME Init PROVE TypeInv
  OBVIOUS
<1>1. RowsOK
  BY StepsAssumption DEF Init, RowsOK, Live
<1>2. RunOK
  <2>1. wave \in 0..NWaves /\ queue \in SUBSET Hosts
    BY WavesAssumption DEF Init
  <2> QED
    BY <2>1 DEF Init, RunOK
<1>3. CallsOK
  <2>1. step \in [Hosts -> 0..NSteps] /\ mine \in [Hosts -> 0..NSteps]
    BY StepsAssumption DEF Init
  <2> QED
    BY <2>1 DEF Init, CallsOK, ExecStates, Answers
<1>4. MachineOK
  <2>1. remote \in [Hosts -> [Steps -> {"never", "running", "zero", "nonzero", "gone"}]]
    BY DEF Init
  <2>2. marker \in [Hosts -> [Steps -> BOOLEAN]] /\ launches \in [Hosts -> [Steps -> Nat]]
    BY DEF Init
  <2>3. late \in [Hosts -> 0..NSteps]
    BY StepsAssumption DEF Init
  <2> QED
    BY <2>1, <2>2, <2>3 DEF MachineOK
<1>5. HistoryOK
  <2>1. crashes \in 0..MaxCrashes
    BY CrashAssumption DEF Init
  <2> QED
    BY <2>1 DEF Init, HistoryOK
<1> QED
  BY <1>1, <1>2, <1>3, <1>4, <1>5 DEF TypeInv, TypeOK, WaveOK, Init

(* run(), cancel(), disposeAll(), the gate and the ends of waves and jobs. *)
LEMMA RunStepTypes == TypeInv /\ RunStep => TypeInv'
<1> SUFFICES ASSUME TypeInv, RunStep PROVE TypeInv'
  OBVIOUS
<1> USE DEF TypeInv, TypeOK
<1>1. CASE Run
  <2>1. 1 \in 1..NWaves
    BY WavesAssumption
  <2>2. queue' \in SUBSET Hosts /\ wave' \in 0..NWaves
    BY <1>1, <2>1 DEF Run, WaveHosts
  <2>3. RunOK'
    BY <1>1, <2>2 DEF Run, RunOK
  <2>4. WaveOK'
    BY <1>1 DEF Run, WaveOK
  <2> QED
    BY <1>1, <2>3, <2>4, Untouched DEF Run
<1>2. CASE Cancel
  <2>1. RunOK' /\ WaveOK'
    BY <1>2 DEF Cancel, RunOK, WaveOK
  <2> QED
    BY <1>2, <2>1, Untouched DEF Cancel
<1>3. CASE DisposeAll
  <2>1. RunOK' /\ WaveOK'
    BY <1>3 DEF DisposeAll, RunOK, WaveOK, store
  <2> QED
    BY <1>3, <2>1, Untouched DEF DisposeAll, store
<1>4. CASE EndJob
  <2>1. "done" \in Finished
    BY DEF Finished
  <2>2. RunOK'
    BY <1>4, <2>1, FinallyTypes DEF EndJob, RunOK
  <2>3. WaveOK'
    BY <1>4 DEF EndJob, Finally, WaveOK
  <2> QED
    BY <1>4, <2>2, <2>3, Untouched DEF EndJob
<1>5. CASE EndWave
  <2>1. owner = "run" /\ wave \in 1..(NWaves - 1)
    BY <1>5, WavesAssumption DEF EndWave, WaveOver, LastWave, Active, RunOK, WaveOK
  <2>2. CASE Gated
    <3>1. phase' = "gate" /\ UNCHANGED <<wave, queue, app, owner, cancelled, disposed>>
      BY <1>5, <2>2 DEF EndWave
    <3>2. RunOK' /\ WaveOK'
      BY <1>5, <2>1, <3>1 DEF EndWave, RunOK, WaveOK, store
    <3> QED
      BY <1>5, <3>2, Untouched DEF EndWave, store
  <2>3. CASE ~Gated
    <3>1. StartWave(wave + 1) /\ UNCHANGED <<app, owner, cancelled, disposed>>
      BY <1>5, <2>3 DEF EndWave
    <3>2. wave + 1 \in 1..NWaves
      BY <2>1, WavesAssumption
    <3>3. RunOK'
      BY <1>5, <3>1, <3>2, StartWaveTypes DEF EndWave, RunOK, store
    <3>4. WaveOK'
      BY <3>1, <3>2 DEF StartWave, WaveOK
    <3> QED
      BY <1>5, <3>3, <3>4, Untouched DEF EndWave, store
  <2> QED
    BY <2>2, <2>3
<1>6. CASE GateCancelled
  <2>1. wave + 1 \in 1..NWaves
    BY <1>6, WavesAssumption DEF GateCancelled, WaveOK
  <2>2. RunOK'
    BY <1>6, <2>1, StartWaveTypes DEF GateCancelled, RunOK, store
  <2>3. WaveOK'
    BY <1>6, <2>1 DEF GateCancelled, StartWave, WaveOK
  <2> QED
    BY <1>6, <2>2, <2>3, Untouched DEF GateCancelled, store
<1>7. CASE GateAsks \/ GateStale
  <2>1. RunOK' /\ WaveOK'
    BY <1>7 DEF GateAsks, GateStale, RunOK, WaveOK, store
  <2> QED
    BY <1>7, <2>1, Untouched DEF GateAsks, GateStale, store
<1>8. CASE GatePass
  <2>1. wave \in 1..(NWaves - 1)
    BY <1>8 DEF GatePass, Evaluating, WaveOK
  <2>2. HistoryOK'
    BY <1>8, <2>1, WavesAssumption DEF GatePass, HistoryOK
  <2>3. CASE Active
    <3>1. StartWave(wave + 1) /\ wave + 1 \in 1..NWaves
      BY <1>8, <2>1, <2>3, WavesAssumption DEF GatePass
    <3>2. RunOK'
      BY <1>8, <3>1, StartWaveTypes DEF GatePass, RunOK, store
    <3>3. WaveOK'
      BY <3>1 DEF StartWave, WaveOK
    <3> QED
      BY <1>8, <2>2, <3>2, <3>3, Untouched DEF GatePass, store
  <2>4. CASE ~Active
    <3>1. RunOK' /\ WaveOK'
      BY <1>8, <2>4 DEF GatePass, RunOK, WaveOK, Active, store
    <3> QED
      BY <1>8, <2>2, <3>1, Untouched DEF GatePass, store
  <2> QED
    BY <2>3, <2>4
<1>9. CASE GateHalt
  <2>1. "halted" \in Finished
    BY DEF Finished
  <2>2. RowsOK'
    BY <1>9 DEF GateHalt, RowsOK, Settled
  <2>3. RunOK'
    BY <1>9, <2>1, FinallyTypes DEF GateHalt, RunOK
  <2>4. WaveOK'
    BY <1>9 DEF GateHalt, Finally, WaveOK
  <2> QED
    BY <1>9, <2>2, <2>3, <2>4, Untouched DEF GateHalt
<1> QED
  BY <1>1, <1>2, <1>3, <1>4, <1>5, <1>6, <1>7, <1>8, <1>9 DEF RunStep

(* A worker of run() or of reclaim() takes the next host. *)
LEMMA TakeStepTypes ==
  ASSUME TypeInv, NEW h \in Hosts, TakeStep(h)
  PROVE  TypeInv'
<1> USE DEF TypeInv, TypeOK
<1>1. rowHandle[h] \in 0..NSteps
  BY DEF RowsOK
<1>2. RunOK' /\ WaveOK' /\ MachineOK' /\ HistoryOK'
  <2>1. /\ queue' \in SUBSET Hosts /\ UNCHANGED <<jobState, cancelledAt>>
        /\ UNCHANGED <<app, owner, cancelled, disposed, phase, wave>>
        /\ UNCHANGED <<machine, history, crashes>>
    BY DEF TakeStep, TakeCancelled, TakeFresh, TakeReclaimed, TakeUnknown, WriteRow,
           RunOK, store
  <2>2. RunOK' /\ WaveOK'
    BY <2>1 DEF RunOK, WaveOK
  <2> QED
    BY <2>1, <2>2, Untouched
<1>3. CASE TakeCancelled(h)
  <2>1. RowsOK'
    BY <1>1, <1>3, WriteRowTypes DEF TakeCancelled, Settled
  <2> QED
    BY <1>2, <1>3, <2>1, Untouched DEF TakeCancelled
<1>4. CASE TakeFresh(h)
  <2>1. RowsOK'
    BY <1>1, <1>4, WriteRowTypes DEF TakeFresh, Live
  <2>2. CallsOK'
    <3>1. step' \in [Hosts -> 0..NSteps] /\ mine' \in [Hosts -> 0..NSteps]
      BY <1>4, StepsAssumption DEF TakeFresh, CallsOK
    <3>2. ex' \in [Hosts -> ExecStates]
      BY <1>4 DEF TakeFresh, Enter, CallsOK, ExecStates
    <3> QED
      BY <1>4, <3>1, <3>2 DEF TakeFresh, CallsOK
  <2> QED
    BY <1>2, <2>1, <2>2
<1>5. CASE TakeReclaimed(h)
  <2>1. CallsOK'
    BY <1>1, <1>5 DEF TakeReclaimed, CallsOK, ExecStates
  <2> QED
    BY <1>2, <1>5, <2>1, Untouched DEF TakeReclaimed, store
<1>6. CASE TakeUnknown(h)
  <2>1. RowsOK'
    BY <1>1, <1>6, WriteRowTypes DEF TakeUnknown, Settled
  <2> QED
    BY <1>2, <1>6, <2>1, Untouched DEF TakeUnknown
<1> QED
  BY <1>3, <1>4, <1>5, <1>6 DEF TakeStep

(* An executor's answer, with a machine that is well formed after it. *)
LEMMA ReturnsStepTypes ==
  ASSUME TypeInv, NEW h \in Hosts, NEW kind, NEW clears \in BOOLEAN,
         Returns(h, kind, clears), MachineOK', UNCHANGED <<app, run, history, crashes>>
  PROVE  TypeInv'
<1>1. RowsOK' /\ CallsOK' /\ UNCHANGED <<jobState, cancelledAt>>
  BY ReturnsTypes DEF TypeInv, TypeOK
<1>2. RunOK' /\ HistoryOK'
  BY <1>1, Untouched DEF TypeInv, TypeOK
<1>3. WaveOK'
  BY DEF TypeInv, WaveOK, run
<1> QED
  BY <1>1, <1>2, <1>3 DEF TypeInv, TypeOK

(* What ends an executor's call, or stallGuard's wait for it. *)
LEMMA ExecEndsTypes ==
  ASSUME TypeInv, NEW h \in Hosts, ExecEnds(h)
  PROVE  TypeInv'
<1>0. MachineOK /\ (UNCHANGED machine => MachineOK')
  BY Untouched DEF TypeInv, TypeOK
<1>b. nulled[h] \in BOOLEAN
  BY DEF TypeInv, TypeOK, CallsOK
<1>1. CASE LaunchFails(h)
  <2>1. Returns(h, "error", FALSE) \/ Returns(h, "error", nulled[h])
    BY <1>1 DEF LaunchFails, Throws
  <2> QED
    BY <1>0, <1>b, <1>1, <2>1, ReturnsStepTypes DEF LaunchFails
<1>2. CASE WatchStops(h)
  BY <1>0, <1>2, ReturnsStepTypes DEF WatchStops
<1>3. CASE PollDeadline(h)
  <2>1. Returns(h, "error", FALSE) \/ Returns(h, "error", nulled[h])
    BY <1>3 DEF PollDeadline, Throws
  <2> QED
    BY <1>0, <1>b, <1>3, <2>1, ReturnsStepTypes DEF PollDeadline
<1>4. CASE PollMissing(h)
  BY <1>0, <1>4, ReturnsStepTypes DEF PollMissing
<1>5. CASE ReapReply(h)
  BY <1>0, <1>5, ReturnsStepTypes DEF ReapReply
<1>6. CASE AttachedReturns(h)
  <2>1. Returns(h, "ok", FALSE) \/ Returns(h, "nonzero", FALSE)
    BY <1>6 DEF AttachedReturns
  <2> QED
    BY <1>0, <1>6, <2>1, ReturnsStepTypes DEF AttachedReturns
<1>7. CASE AttachedFails(h)
  <2>1. remote' \in [Hosts -> [Steps -> {"never", "running", "zero", "nonzero", "gone"}]]
    BY <1>0, <1>7 DEF AttachedFails, MachineOK
  <2>2. MachineOK'
    BY <1>0, <1>7, <2>1 DEF AttachedFails, MachineOK
  <2>3. Returns(h, "error", FALSE) \/ Returns(h, "error", nulled[h])
    BY <1>7 DEF AttachedFails, Throws
  <2> QED
    BY <1>b, <1>7, <2>2, <2>3, ReturnsStepTypes DEF AttachedFails
<1>8. CASE ConnectTimesOut(h)
  <2>1. late' \in [Hosts -> 0..NSteps]
    BY <1>0, <1>8 DEF ConnectTimesOut, MachineOK, TypeInv, TypeOK, CallsOK
  <2>2. MachineOK'
    BY <1>0, <1>8, <2>1 DEF ConnectTimesOut, MachineOK
  <2> QED
    BY <1>8, <2>2, ReturnsStepTypes DEF ConnectTimesOut
<1>9. CASE Stalls(h)
  <2>1. (IF nulled[h] THEN 0 ELSE mine[h]) \in 0..NSteps /\ "failed" \in Settled
    BY StepsAssumption DEF TypeInv, TypeOK, CallsOK, Settled
  <2>2. RowsOK' /\ UNCHANGED <<jobState, cancelledAt>>
    BY <1>9, <2>1, SettleRowTypes DEF Stalls, TypeInv, TypeOK
  <2>3. CallsOK'
    BY <1>9, StepsAssumption DEF Stalls, FrameEnds, TypeInv, TypeOK, CallsOK, calls
  <2>4. HistoryOK'
    BY <1>9 DEF Stalls, TypeInv, TypeOK, HistoryOK
  <2>5. RunOK' /\ MachineOK'
    BY <1>9, <2>2, Untouched DEF Stalls, TypeInv, TypeOK
  <2>6. WaveOK'
    BY <1>9 DEF Stalls, TypeInv, WaveOK, run
  <2> QED
    BY <2>2, <2>3, <2>4, <2>5, <2>6 DEF TypeInv, TypeOK
<1> QED
  BY <1>1, <1>2, <1>3, <1>4, <1>5, <1>6, <1>7, <1>8, <1>9 DEF ExecEnds

(* What an executor does between its start and its answer. *)
LEMMA ExecGoesOnTypes ==
  ASSUME TypeInv, NEW h \in Hosts, ExecGoesOn(h)
  PROVE  TypeInv'
<1> USE DEF TypeInv, TypeOK
<1>1. step[h] \in 0..NSteps /\ rowHandle[h] \in 0..NSteps /\ rowState[h] \in Live \cup Settled
  BY DEF RowsOK, CallsOK
<1>2. {"running", "detached"} \subseteq Live \cup Settled
  BY DEF Live
<1>3. CASE LaunchRuns(h)
  <2>0. \/ /\ remote' = [remote EXCEPT ![h][step[h]] = "running"]
           /\ launches' = [launches EXCEPT ![h][step[h]] = @ + 1]
        \/ UNCHANGED <<remote, launches>>
    BY <1>3 DEF LaunchRuns
  <2>1. remote' \in [Hosts -> [Steps -> {"never", "running", "zero", "nonzero", "gone"}]]
    <3>1. CASE remote' = [remote EXCEPT ![h][step[h]] = "running"]
      BY <3>1 DEF MachineOK
    <3>2. CASE UNCHANGED remote
      BY <3>2 DEF MachineOK
    <3> QED
      BY <2>0, <3>1, <3>2
  <2>2. marker' \in [Hosts -> [Steps -> BOOLEAN]]
    BY <1>3 DEF LaunchRuns, MachineOK
  <2>3. launches' \in [Hosts -> [Steps -> Nat]]
    BY <2>0, CountedTypes DEF MachineOK
  <2>4. MachineOK'
    BY <1>3, <2>1, <2>2, <2>3 DEF LaunchRuns, MachineOK
  <2>5. CallsOK'
    BY <1>3 DEF LaunchRuns, CallsOK, ExecStates, frames
  <2>6. WaveOK' /\ RowsOK' /\ RunOK'
    BY <1>3, Untouched DEF LaunchRuns, WaveOK, store, run
  <2> QED
    BY <1>3, <2>4, <2>5, <2>6, Untouched DEF LaunchRuns
<1>4. CASE LaunchReply(h)
  <2>1. RowsOK' /\ UNCHANGED <<jobState, cancelledAt>>
    BY <1>1, <1>2, <1>4, ApplyUpdateTypes DEF LaunchReply
  <2>2. CallsOK'
    BY <1>1, <1>4 DEF LaunchReply, CallsOK, ExecStates
  <2>3. WaveOK'
    BY <1>4 DEF LaunchReply, WaveOK, run
  <2> QED
    BY <1>4, <2>1, <2>2, <2>3, Untouched DEF LaunchReply
<1>5. ASSUME NEW what \in {"parked", "unreachable", "running"},
             NEW st \in {"running", "detached"}, Say(h, what, st)
      PROVE  TypeInv'
  <2>1. RowsOK' /\ UNCHANGED <<jobState, cancelledAt>>
    BY <1>1, <1>2, <1>5, ApplyUpdateTypes DEF Say
  <2>2. CallsOK'
    BY <1>5 DEF Say, CallsOK, frames
  <2>3. WaveOK'
    BY <1>5 DEF Say, WaveOK, run
  <2> QED
    BY <1>5, <2>1, <2>2, <2>3, Untouched DEF Say
<1>6. CASE Parks(h) \/ PollFails(h) \/ PollRunning(h)
  BY <1>5, <1>6 DEF Parks, PollFails, PollRunning
<1>7. CASE PollOutput(h)
  <2>1. RowsOK' /\ UNCHANGED <<jobState, cancelledAt>>
    BY <1>1, <1>7, WriteRowTypes DEF PollOutput
  <2>2. WaveOK'
    BY <1>7 DEF PollOutput, WaveOK, run
  <2> QED
    BY <1>7, <2>1, <2>2, Untouched DEF PollOutput
<1>8. ASSUME NEW a \in Answers, Reaps(h, a)
      PROVE  TypeInv'
  <2>1. CallsOK'
    BY <1>8 DEF Reaps, CallsOK, ExecStates, frames
  <2>2. WaveOK' /\ RowsOK' /\ RunOK'
    BY <1>8, Untouched DEF Reaps, WaveOK, store, run
  <2> QED
    BY <1>8, <2>1, <2>2, Untouched DEF Reaps
<1>9. CASE PollFinished(h) \/ PollGone(h) \/ PollNoPid(h)
  BY <1>8, <1>9 DEF PollFinished, PollGone, PollNoPid, Answers
<1>10. CASE ReapRuns(h)
  <2>1. MachineOK'
    BY <1>10 DEF ReapRuns, MachineOK
  <2>2. CallsOK'
    BY <1>10 DEF ReapRuns, CallsOK, ExecStates, frames
  <2>3. WaveOK' /\ RowsOK' /\ RunOK'
    BY <1>10, Untouched DEF ReapRuns, WaveOK, store, run
  <2> QED
    BY <1>10, <2>1, <2>2, <2>3, Untouched DEF ReapRuns
<1>11. CASE ReapFails(h)
  <2>1. HistoryOK'
    BY <1>11 DEF ReapFails, HistoryOK
  <2>2. CallsOK'
    BY <1>11 DEF ReapFails, CallsOK, ExecStates, frames
  <2>3. WaveOK' /\ RowsOK' /\ RunOK'
    BY <1>11, Untouched DEF ReapFails, WaveOK, store, run
  <2> QED
    BY <1>11, <2>1, <2>2, <2>3, Untouched DEF ReapFails
<1>12. CASE Degrade(h)
  <2>1. 0 \in 0..NSteps
    BY StepsAssumption
  <2>2. RowsOK' /\ UNCHANGED <<jobState, cancelledAt>>
    BY <1>2, <1>12, <2>1, ApplyUpdateTypes DEF Degrade
  <2>3. CallsOK'
    BY <1>12, <2>1 DEF Degrade, CallsOK, ExecStates, Answers
  <2>4. WaveOK'
    BY <1>12 DEF Degrade, WaveOK, run
  <2> QED
    BY <1>12, <2>2, <2>3, <2>4, Untouched DEF Degrade
<1>13. CASE AttachedRuns(h)
  <2>1. remote' \in [Hosts -> [Steps -> {"never", "running", "zero", "nonzero", "gone"}]]
    BY <1>13 DEF AttachedRuns, MachineOK
  <2>2. launches' \in [Hosts -> [Steps -> Nat]]
    BY <1>13, CountedTypes DEF AttachedRuns, MachineOK
  <2>3. MachineOK'
    BY <1>13, <2>1, <2>2 DEF AttachedRuns, MachineOK
  <2>4. CallsOK'
    BY <1>13 DEF AttachedRuns, CallsOK, ExecStates, frames
  <2>5. WaveOK' /\ RowsOK' /\ RunOK'
    BY <1>13, Untouched DEF AttachedRuns, WaveOK, store, run
  <2> QED
    BY <1>13, <2>3, <2>4, <2>5, Untouched DEF AttachedRuns
<1>14. CASE SlowWrapper(h)
  <2>1. remote' \in [Hosts -> [Steps -> {"never", "running", "zero", "nonzero", "gone"}]]
    BY <1>14 DEF SlowWrapper, MachineOK
  <2>2. launches' \in [Hosts -> [Steps -> Nat]]
    BY <1>14, CountedTypes DEF SlowWrapper, MachineOK
  <2>3. MachineOK'
    BY <1>14, <2>1, <2>2 DEF SlowWrapper, MachineOK
  <2>4. HistoryOK'
    BY <1>14 DEF SlowWrapper, HistoryOK
  <2>5. WaveOK' /\ RowsOK' /\ RunOK' /\ CallsOK'
    BY <1>14, Untouched DEF SlowWrapper, WaveOK, store, run
  <2> QED
    BY <2>3, <2>4, <2>5
<1> QED
  BY <1>3, <1>4, <1>6, <1>7, <1>9, <1>10, <1>11, <1>12, <1>13, <1>14 DEF ExecGoesOn

(* The machines on their own, and a connection that comes up too late. *)
LEMMA MachineStepTypes ==
  ASSUME TypeInv, NEW h \in Hosts, ConnectsLate(h) \/ \E s \in Steps : CommandEnds(h, s)
  PROVE  TypeInv'
<1> USE DEF TypeInv, TypeOK
<1>1. CASE ConnectsLate(h)
  <2>1. remote' \in [Hosts -> [Steps -> {"never", "running", "zero", "nonzero", "gone"}]]
    BY <1>1 DEF ConnectsLate, MachineOK
  <2>2. launches' \in [Hosts -> [Steps -> Nat]]
    BY <1>1, CountedTypes DEF ConnectsLate, MachineOK
  <2>3. late' \in [Hosts -> 0..NSteps]
    BY <1>1, StepsAssumption DEF ConnectsLate, MachineOK
  <2>4. MachineOK'
    BY <1>1, <2>1, <2>2, <2>3 DEF ConnectsLate, MachineOK
  <2>5. WaveOK' /\ RowsOK' /\ RunOK'
    BY <1>1, Untouched DEF ConnectsLate, WaveOK, store, run
  <2> QED
    BY <1>1, <2>4, <2>5, Untouched DEF ConnectsLate
<1>2. ASSUME NEW s \in Steps, CommandEnds(h, s) PROVE TypeInv'
  <2>1. MachineOK'
    BY <1>2 DEF CommandEnds, MachineOK
  <2>2. WaveOK' /\ RowsOK' /\ RunOK'
    BY <1>2, Untouched DEF CommandEnds, WaveOK, store, run
  <2> QED
    BY <1>2, <2>1, <2>2, Untouched DEF CommandEnds
<1> QED
  BY <1>1, <1>2

(* The death of the process, and what the next one does at startup. *)
LEMMA BootStepTypes == TypeInv /\ BootStep => TypeInv'
<1> SUFFICES ASSUME TypeInv, BootStep PROVE TypeInv'
  OBVIOUS
<1> USE DEF TypeInv, TypeOK
<1>1. CASE Crash
  <2>1. RowsOK' /\ UNCHANGED <<jobState, cancelledAt>>
    BY <1>1, Untouched DEF Crash, store
  <2>2. RunOK' /\ WaveOK'
    <3>1. 0 \in 0..NWaves
      BY WavesAssumption
    <3> QED
      BY <1>1, <2>1, <3>1 DEF Crash, RunOK, WaveOK
  <2>3. CallsOK'
    <3>1. step' \in [Hosts -> 0..NSteps] /\ mine' \in [Hosts -> 0..NSteps]
      BY <1>1, StepsAssumption DEF Crash
    <3> QED
      BY <1>1, <3>1 DEF Crash, CallsOK, ExecStates, Answers
  <2>4. MachineOK'
    <3>1. late' \in [Hosts -> 0..NSteps]
      BY <1>1, StepsAssumption DEF Crash
    <3>2. remote' \in [Hosts -> [Steps -> {"never", "running", "zero", "nonzero", "gone"}]]
      BY <1>1 DEF Crash, MachineOK
    <3> QED
      BY <1>1, <3>1, <3>2 DEF Crash, MachineOK
  <2>5. HistoryOK'
    <3>1. crashes' \in 0..MaxCrashes
      BY <1>1, CrashAssumption DEF Crash, HistoryOK
    <3> QED
      BY <1>1, <3>1 DEF Crash, HistoryOK, history
  <2> QED
    BY <2>1, <2>2, <2>3, <2>4, <2>5
<1>2. CASE Start
  <2>1. RunOK' /\ WaveOK'
    BY <1>2 DEF Start, RunOK, WaveOK, run, store
  <2> QED
    BY <1>2, <2>1, Untouched DEF Start, store
<1>3. CASE Adopt
  <2>1. RunOK' /\ WaveOK'
    BY <1>3 DEF Adopt, RunOK, WaveOK, run, Finished
  <2> QED
    BY <1>3, <2>1, Untouched DEF Adopt
<1>4. CASE Reclaim
  <2>1. RunOK' /\ WaveOK'
    BY <1>4 DEF Reclaim, RunOK, WaveOK, store
  <2> QED
    BY <1>4, <2>1, Untouched DEF Reclaim, store
<1>5. ASSUME NEW h \in Hosts, Seal(h) PROVE TypeInv'
  <2>1. RowsOK' /\ UNCHANGED <<jobState, cancelledAt>>
    <3>1. (IF rowState[h] = "running" THEN "failed" ELSE "skipped") \in Live \cup Settled
      BY DEF Settled
    <3>2. rowHandle[h] \in 0..NSteps
      BY DEF RowsOK
    <3> QED
      BY <1>5, <3>1, <3>2, WriteRowTypes DEF Seal
  <2>2. WaveOK'
    BY <1>5 DEF Seal, WaveOK, run
  <2> QED
    BY <1>5, <2>1, <2>2, Untouched DEF Seal
<1> QED
  BY <1>1, <1>2, <1>3, <1>4, <1>5 DEF BootStep

(* Every step of the job engine keeps the typing invariant. *)
LEMMA NextTypeInv == TypeInv /\ [Next]_vars => TypeInv'
<1> SUFFICES ASSUME TypeInv, [Next]_vars PROVE TypeInv'
  OBVIOUS
<1>1. CASE RunStep
  BY <1>1, RunStepTypes
<1>2. ASSUME NEW h \in Hosts, TakeStep(h) \/ ExecEnds(h) \/ ExecGoesOn(h) PROVE TypeInv'
  BY <1>2, TakeStepTypes, ExecEndsTypes, ExecGoesOnTypes
<1>3. ASSUME NEW h \in Hosts, ConnectsLate(h) \/ \E s \in Steps : CommandEnds(h, s)
      PROVE  TypeInv'
  BY <1>3, MachineStepTypes
<1>4. CASE BootStep
  BY <1>4, BootStepTypes
<1>5. CASE UNCHANGED vars
  <2>1. WaveOK' /\ RowsOK' /\ RunOK'
    BY <1>5, Untouched DEF vars, TypeInv, TypeOK, WaveOK, store, run
  <2> QED
    BY <1>5, <2>1, Untouched DEF vars, TypeInv, TypeOK
<1> QED
  BY <1>1, <1>2, <1>3, <1>4, <1>5 DEF Next

(* Every state of the job engine is well formed: the columns of the store    *)
(* hold states the runner may write, and a marker always names a step.       *)
THEOREM TypeCorrect == Spec => []TypeOK
<1>1. TypeInv => TypeOK
  BY DEF TypeInv
<1> QED
  BY <1>1, InitTypeInv, NextTypeInv, PTL DEF Spec

------------------------------------------------------------------------------
(* No host is lost while a run owns the job *)

(* Who may own the job, and what the rest of the process looks like when     *)
(* nobody does.                                                              *)
OwnerOK ==
  /\ Active => jobState = "running" /\ app = "up" /\ ~disposed
  /\ disposed => app = "up" /\ jobState # "absent"
  /\ jobState = "absent" => app = "up" /\ phase = "idle"
  /\ app # "up" => queue = {} /\ phase = "idle"
  /\ app = "starting" => jobState = "running"
  /\ owner = "reclaim" => phase = "wave"

(* The strengthening of LiveRowIsFollowed for one host.  A call of the       *)
(* executor outlives its runOne only when stallGuard gave up on it, so a     *)
(* report can make a row live again only under a runOne or after that; a     *)
(* `detached` row names a marker, so that startup either seals a live row or *)
(* queues it; and a wave starts when no host of the last one is at work.     *)
HostFollowed(h) ==
  /\ jobState = "absent" => rowState[h] = "pending"
  /\ jobState = "absent" \/ app # "up" => ~frame[h] /\ ex[h] = "none"
  /\ ex[h] # "none" => step[h] # 0 /\ (frame[h] \/ gaveUp[h])
  /\ rowState[h] = "detached" => rowHandle[h] # 0 \/ gaveUp[h]
  /\ Active /\ ex[h] = "watching" => rowHandle[h] # 0 \/ gaveUp[h]
  /\ h \in queue => ~frame[h]
  /\ owner = "reclaim" /\ h \in queue => rowHandle[h] # 0 /\ ex[h] = "none"
  /\ Active /\ phase \in {"gate", "asking"} => ~frame[h] /\ h \notin queue
  /\ Active /\ rowState[h] \in {"running", "detached"} => frame[h] \/ h \in queue \/ gaveUp[h]

FollowInv == TypeInv /\ OwnerOK /\ \A h \in Hosts : HostFollowed(h)

(* What HostFollowed says of a host is the same before and after a step. *)
SameHost(g) ==
  /\ rowState'[g] = rowState[g] /\ rowHandle'[g] = rowHandle[g]
  /\ frame'[g] = frame[g] /\ ex'[g] = ex[g] /\ step'[g] = step[g]
  /\ gaveUp'[g] = gaveUp[g]

(* A host the step does not touch keeps its part of the invariant. *)
LEMMA OtherHostFollowed ==
  ASSUME NEW g \in Hosts, HostFollowed(g), SameHost(g),
         UNCHANGED <<jobState, app, owner, phase>>, g \in queue' <=> g \in queue
  PROVE  HostFollowed(g)'
  BY DEF HostFollowed, SameHost, Active

(* A write of a row is a write of that row only. *)
LEMMA WriteRowAt ==
  ASSUME RowsOK, NEW h \in Hosts, NEW st, NEW hd, WriteRow(h, st, hd)
  PROVE  /\ rowState'[h] = st /\ rowHandle'[h] = hd
         /\ \A g \in Hosts \ {h} : rowState'[g] = rowState[g] /\ rowHandle'[g] = rowHandle[g]
  BY DEF WriteRow, RowsOK

(* The end of runOne leaves a verdict under an owner, and otherwise never a  *)
(* `detached` row that names no marker.                                      *)
LEMMA SettleRowAt ==
  ASSUME RowsOK, NEW h \in Hosts, NEW st \in Settled, NEW hd, SettleRow(h, st, hd)
  PROVE  /\ Active => rowState'[h] \in Settled
         /\ rowState'[h] = "detached" => rowHandle'[h] # 0 \/ UNCHANGED <<rowState, rowHandle>>
         /\ \A g \in Hosts \ {h} : rowState'[g] = rowState[g] /\ rowHandle'[g] = rowHandle[g]
         /\ UNCHANGED jobState
<1>1. CASE Active
  BY <1>1, WriteRowAt DEF SettleRow, WriteRow, Settled
<1>2. CASE ~Active /\ disposed /\ mine[h] # 0
  BY <1>2, WriteRowAt DEF SettleRow, WriteRow
<1>3. CASE ~Active /\ disposed /\ mine[h] = 0
  BY <1>3, WriteRowAt DEF SettleRow, WriteRow
<1>4. CASE ~Active /\ ~disposed
  BY <1>4 DEF SettleRow, store
<1> QED
  BY <1>1, <1>2, <1>3, <1>4

(* A report of the executor changes one row, and only under an owner. *)
LEMMA ApplyUpdateAt ==
  ASSUME RowsOK, NEW h \in Hosts, NEW st, NEW hd, ApplyUpdate(h, st, hd)
  PROVE  /\ Active => rowState'[h] = st /\ rowHandle'[h] = hd
         /\ ~Active => UNCHANGED <<rowState, rowHandle>>
         /\ \A g \in Hosts \ {h} : rowState'[g] = rowState[g] /\ rowHandle'[g] = rowHandle[g]
         /\ UNCHANGED jobState
<1>1. CASE Active
  BY <1>1, WriteRowAt DEF ApplyUpdate, WriteRow
<1>2. CASE ~Active
  BY <1>2 DEF ApplyUpdate, store
<1> QED
  BY <1>1, <1>2

(* Steps that leave the job's row, the owner, the queue and the phase alone  *)
(* keep what is said of them.                                                *)
LEMMA OwnerKept ==
  ASSUME OwnerOK, UNCHANGED <<jobState, app, run>>
  PROVE  OwnerOK'
  BY DEF OwnerOK, Active, run

(* An executor's answer is dropped, starts the next step, or ends a runOne.  *)
LEMMA ReturnsFollowed ==
  ASSUME FollowInv, NEW h \in Hosts, NEW kind, NEW clears,
         ex[h] # "none", Returns(h, kind, clears), UNCHANGED <<app, run, gaveUp>>
  PROVE  OwnerOK' /\ \A g \in Hosts : HostFollowed(g)'
<1> USE DEF FollowInv, TypeInv, TypeOK
<1>0. UNCHANGED <<owner, phase, queue>>
  BY DEF run
<1>1. CASE ~frame[h] /\ CallEnds(h) /\ UNCHANGED <<store, frame, mine, nulled>>
  <2>1. OwnerOK'
    BY <1>1, OwnerKept DEF store
  <2>2. HostFollowed(h)'
    BY <1>0, <1>1 DEF HostFollowed, CallEnds, CallsOK, Active, store
  <2>3. \A g \in Hosts \ {h} : SameHost(g)
    BY <1>1 DEF SameHost, CallEnds, CallsOK, store
  <2> QED
    BY <1>0, <1>1, <2>1, <2>2, <2>3, OtherHostFollowed DEF store
<1>2. CASE /\ frame[h] /\ Active /\ kind = "ok" /\ step[h] < NSteps
           /\ step' = [step EXCEPT ![h] = @ + 1]
           /\ Enter(h)
           /\ UNCHANGED <<store, frame, mine>>
  <2>1. OwnerOK'
    BY <1>2, OwnerKept DEF store
  <2>2. step'[h] # 0 /\ ex'[h] \in {"launching", "connecting"}
    BY <1>2, StepsAssumption DEF Enter, CallsOK
  <2>3. HostFollowed(h)'
    BY <1>0, <1>2, <2>2 DEF HostFollowed, Active, store
  <2>4. \A g \in Hosts \ {h} : SameHost(g)
    BY <1>2 DEF SameHost, Enter, CallsOK, store
  <2> QED
    BY <1>0, <1>2, <2>1, <2>3, <2>4, OtherHostFollowed DEF store
<1>3. CASE /\ frame[h]
           /\ SettleRow(h, Verdict(kind), IF clears THEN 0 ELSE mine[h])
           /\ FrameEnds(h) /\ CallEnds(h)
  <2>1. /\ Active => rowState'[h] \in Settled
        /\ rowState'[h] = "detached" => rowHandle'[h] # 0 \/ UNCHANGED <<rowState, rowHandle>>
        /\ \A g \in Hosts \ {h} : rowState'[g] = rowState[g] /\ rowHandle'[g] = rowHandle[g]
        /\ UNCHANGED jobState
    BY <1>3, SettleRowAt, VerdictSettles
  <2>2. OwnerOK'
    BY <2>1, OwnerKept
  <2>3. ~frame'[h] /\ ex'[h] = "none" /\ jobState # "absent"
    BY <1>3 DEF FrameEnds, CallEnds, CallsOK, HostFollowed
  <2>4. HostFollowed(h)'
    BY <1>0, <1>3, <2>1, <2>3 DEF HostFollowed, Active, Settled
  <2>5. \A g \in Hosts \ {h} : SameHost(g)
    BY <1>3, <2>1 DEF SameHost, FrameEnds, CallEnds, CallsOK
  <2> QED
    BY <1>0, <2>1, <2>2, <2>4, <2>5, OtherHostFollowed
<1> QED
  BY <1>1, <1>2, <1>3 DEF Returns

(* What ends an executor's call, or stallGuard's wait for it. *)
LEMMA ExecEndsFollowed ==
  ASSUME FollowInv, NEW h \in Hosts, ExecEnds(h)
  PROVE  OwnerOK' /\ \A g \in Hosts : HostFollowed(g)'
<1>1. CASE \/ LaunchFails(h) \/ WatchStops(h) \/ PollDeadline(h) \/ PollMissing(h)
           \/ ReapReply(h) \/ AttachedReturns(h) \/ AttachedFails(h) \/ ConnectTimesOut(h)
  <2>1. ex[h] # "none" /\ UNCHANGED <<app, run, gaveUp>>
    BY <1>1 DEF LaunchFails, WatchStops, PollDeadline, PollMissing, ReapReply, AttachedReturns,
                AttachedFails, ConnectTimesOut, Polled, history
  <2>2. \E kind, clears : Returns(h, kind, clears)
    BY <1>1 DEF LaunchFails, WatchStops, PollDeadline, PollMissing, ReapReply, AttachedReturns,
                AttachedFails, ConnectTimesOut, Throws
  <2> QED
    BY <2>1, <2>2, ReturnsFollowed
<1>2. CASE Stalls(h)
  <2> USE DEF FollowInv, TypeInv, TypeOK
  <2>1. /\ Active => rowState'[h] \in Settled
        /\ \A g \in Hosts \ {h} : rowState'[g] = rowState[g] /\ rowHandle'[g] = rowHandle[g]
        /\ UNCHANGED jobState
    BY <1>2, SettleRowAt DEF Stalls, Settled
  <2>2. /\ OwnerOK' /\ UNCHANGED <<app, owner, phase, queue, ex, step>>
        /\ frame' = [frame EXCEPT ![h] = FALSE] /\ gaveUp' = [gaveUp EXCEPT ![h] = TRUE]
    BY <1>2, <2>1, OwnerKept DEF Stalls, FrameEnds, run, calls
  <2>3. HostFollowed(h)'
    <3>1. gaveUp'[h] /\ ~frame'[h] /\ jobState # "absent" /\ app = "up"
      BY <1>2, <2>2 DEF Stalls, HistoryOK, CallsOK, HostFollowed
    <3>2. ex[h] # "none" /\ step[h] # 0 /\ h \notin queue
      BY <1>2 DEF Stalls, HostFollowed
    <3> QED
      BY <2>1, <2>2, <3>1, <3>2 DEF HostFollowed, Active
  <2>4. \A g \in Hosts \ {h} : SameHost(g)
    BY <2>1, <2>2 DEF SameHost, CallsOK, HistoryOK
  <2> QED
    BY <2>1, <2>2, <2>3, <2>4, OtherHostFollowed
<1> QED
  BY <1>1, <1>2 DEF ExecEnds

(* What an executor does between its start and its answer: its report makes  *)
(* a row live only while its runOne is there or was given up on.             *)
LEMMA ExecGoesOnFollowed ==
  ASSUME FollowInv, NEW h \in Hosts, ExecGoesOn(h)
  PROVE  OwnerOK' /\ \A g \in Hosts : HostFollowed(g)'
<1> USE DEF FollowInv, TypeInv, TypeOK
<1>1. UNCHANGED <<app, run, owner, phase, queue, frame, step, gaveUp>> /\ ex[h] # "none"
  BY DEF ExecGoesOn, LaunchRuns, LaunchReply, Parks, PollFails, PollRunning, Say, PollOutput,
         PollFinished, PollGone, PollNoPid, Polled, Reaps, ReapRuns, ReapFails, Degrade,
         SlowWrapper, AttachedRuns, run, frames, calls, history
<1>2. ASSUME UNCHANGED store, NEW e \in ExecStates \ {"none", "watching"},
             ex' = [ex EXCEPT ![h] = e]
      PROVE  OwnerOK' /\ \A g \in Hosts : HostFollowed(g)'
  <2>1. OwnerOK'
    BY <1>1, <1>2, OwnerKept DEF store
  <2>2. HostFollowed(h)'
    BY <1>1, <1>2 DEF HostFollowed, Active, CallsOK, store
  <2>3. \A g \in Hosts \ {h} : SameHost(g)
    BY <1>1, <1>2 DEF SameHost, CallsOK, store
  <2> QED
    BY <1>1, <1>2, <2>1, <2>2, <2>3, OtherHostFollowed DEF store
<1>s. CASE SlowWrapper(h)
  <2>1. UNCHANGED <<store, ex>>
    BY <1>s DEF SlowWrapper, calls
  <2>2. OwnerOK'
    BY <1>1, <2>1, OwnerKept DEF store
  <2>3. \A g \in Hosts : SameHost(g)
    BY <1>1, <2>1 DEF SameHost, store
  <2> QED
    BY <1>1, <2>1, <2>2, <2>3, OtherHostFollowed DEF store
<1>3. CASE LaunchRuns(h) \/ AttachedRuns(h) \/ ReapRuns(h) \/ ReapFails(h)
  BY <1>2, <1>3 DEF LaunchRuns, AttachedRuns, ReapRuns, ReapFails, ExecStates
<1>4. CASE PollFinished(h) \/ PollGone(h) \/ PollNoPid(h)
  BY <1>2, <1>4 DEF PollFinished, PollGone, PollNoPid, Reaps, ExecStates
<1>5. ASSUME NEW st, NEW hd, ApplyUpdate(h, st, hd), ex'[h] # "none",
             \A g \in Hosts \ {h} : ex'[g] = ex[g],
             Active /\ (st = "detached" \/ ex'[h] = "watching") => hd # 0 \/ gaveUp[h],
             ~Active \/ jobState # "absent"
      PROVE  OwnerOK' /\ \A g \in Hosts : HostFollowed(g)'
  <2>1. /\ Active => rowState'[h] = st /\ rowHandle'[h] = hd
        /\ ~Active => UNCHANGED <<rowState, rowHandle>>
        /\ \A g \in Hosts \ {h} : rowState'[g] = rowState[g] /\ rowHandle'[g] = rowHandle[g]
        /\ UNCHANGED jobState
    BY <1>5, ApplyUpdateAt
  <2>2. OwnerOK'
    BY <1>1, <2>1, OwnerKept
  <2>3. HostFollowed(h)'
    BY <1>1, <1>5, <2>1 DEF HostFollowed, Active
  <2>4. \A g \in Hosts \ {h} : SameHost(g)
    BY <1>1, <1>5, <2>1 DEF SameHost
  <2> QED
    BY <1>1, <2>1, <2>2, <2>3, <2>4, OtherHostFollowed
<1>6. jobState # "absent" /\ step[h] # 0 /\ (Active => frame[h] \/ gaveUp[h])
  BY <1>1 DEF HostFollowed
<1>7. CASE LaunchReply(h)
  <2>1. ex' = [ex EXCEPT ![h] = "watching"] /\ ApplyUpdate(h, "detached", step[h])
    BY <1>7 DEF LaunchReply
  <2> QED
    BY <1>5, <1>6, <2>1 DEF CallsOK
<1>8. CASE Degrade(h)
  <2>1. ex' = [ex EXCEPT ![h] = "connecting"] /\ ApplyUpdate(h, "running", 0)
    BY <1>8 DEF Degrade
  <2> QED
    BY <1>5, <1>6, <2>1 DEF CallsOK
<1>9. CASE Parks(h) \/ PollFails(h) \/ PollRunning(h)
  <2>1. \E st : ApplyUpdate(h, st, rowHandle[h]) /\ UNCHANGED ex /\ ex[h] = "watching"
    BY <1>9 DEF Parks, PollFails, PollRunning, Say
  <2> QED
    BY <1>5, <1>6, <2>1 DEF HostFollowed
<1>10. CASE PollOutput(h)
  <2>1. /\ ApplyUpdate(h, rowState[h], step[h]) /\ UNCHANGED ex
        /\ ex[h] = "watching"
    BY <1>10 DEF PollOutput, Polled, ApplyUpdate, calls
  <2> QED
    BY <1>5, <1>6, <2>1 DEF HostFollowed
<1> QED
  BY <1>s, <1>3, <1>4, <1>7, <1>8, <1>9, <1>10 DEF ExecGoesOn

(* A worker takes a host that nobody follows yet, and follows or closes it. *)
LEMMA TakeStepFollowed ==
  ASSUME FollowInv, NEW h \in Hosts, TakeStep(h)
  PROVE  OwnerOK' /\ \A g \in Hosts : HostFollowed(g)'
<1> USE DEF FollowInv, TypeInv, TypeOK
<1>1. /\ CanTake /\ h \in queue /\ queue' = queue \ {h}
      /\ UNCHANGED <<jobState, app, owner, disposed, phase, gaveUp>>
  BY DEF TakeStep, TakeCancelled, TakeFresh, TakeReclaimed, TakeUnknown, WriteRow, store, history
<1>2. OwnerOK' /\ Active /\ Active' /\ jobState # "absent" /\ app = "up" /\ phase = "wave"
  BY <1>1 DEF OwnerOK, CanTake, Active
<1>3. ~frame[h] /\ h \notin queue'
  BY <1>1 DEF HostFollowed
<1>4. CASE TakeCancelled(h) \/ TakeUnknown(h)
  <2>1. /\ rowState'[h] \in {"skipped", "orphaned"} /\ rowHandle'[h] = rowHandle[h]
        /\ \A g \in Hosts \ {h} : rowState'[g] = rowState[g] /\ rowHandle'[g] = rowHandle[g]
        /\ UNCHANGED <<frame, ex, step>>
    BY <1>4, WriteRowAt DEF TakeCancelled, TakeUnknown, frames, calls
  <2>2. HostFollowed(h)'
    BY <1>1, <1>2, <1>3, <2>1 DEF HostFollowed
  <2>3. \A g \in Hosts \ {h} : SameHost(g)
    BY <1>1, <2>1 DEF SameHost
  <2> QED
    BY <1>1, <1>2, <2>2, <2>3, OtherHostFollowed
<1>5. CASE TakeFresh(h)
  <2>1. /\ rowState'[h] = "running" /\ rowHandle'[h] = rowHandle[h]
        /\ \A g \in Hosts \ {h} : rowState'[g] = rowState[g] /\ rowHandle'[g] = rowHandle[g]
    BY <1>5, WriteRowAt DEF TakeFresh
  <2>2. frame'[h] /\ step'[h] = 1 /\ ex'[h] \in {"launching", "connecting"}
    BY <1>5 DEF TakeFresh, Enter, CallsOK
  <2>3. HostFollowed(h)'
    BY <1>1, <1>2, <1>3, <2>1, <2>2 DEF HostFollowed
  <2>4. \A g \in Hosts \ {h} : SameHost(g)
    BY <1>1, <1>5, <2>1 DEF SameHost, TakeFresh, Enter, CallsOK
  <2> QED
    BY <1>1, <1>2, <2>3, <2>4, OtherHostFollowed
<1>6. CASE TakeReclaimed(h)
  <2>1. rowHandle[h] # 0 /\ UNCHANGED <<rowState, rowHandle>>
    BY <1>1, <1>6 DEF TakeReclaimed, HostFollowed, store
  <2>2. frame'[h] /\ step'[h] = rowHandle[h] /\ ex'[h] = "watching"
    BY <1>6 DEF TakeReclaimed, CallsOK
  <2>3. HostFollowed(h)'
    BY <1>1, <1>2, <1>3, <2>1, <2>2 DEF HostFollowed
  <2>4. \A g \in Hosts \ {h} : SameHost(g)
    BY <1>1, <1>6, <2>1 DEF SameHost, TakeReclaimed, CallsOK
  <2> QED
    BY <1>1, <1>2, <2>3, <2>4, OtherHostFollowed
<1> QED
  BY <1>4, <1>5, <1>6 DEF TakeStep

(* A wave starts only when no host of the one before is at work, a gate      *)
(* skips hosts and never revives one, and a run that stops owns nothing.     *)
LEMMA RunStepFollowed ==
  ASSUME FollowInv, RunStep
  PROVE  OwnerOK' /\ \A g \in Hosts : HostFollowed(g)'
<1> USE DEF FollowInv, TypeInv, TypeOK
<1>1. CASE Run
  <2>1. OwnerOK' /\ jobState' # "absent" /\ app' = "up" /\ Active'
    BY <1>1 DEF Run, OwnerOK, Active
  <2>2. ASSUME NEW g \in Hosts PROVE HostFollowed(g)'
    BY <1>1, <2>1 DEF Run, HostFollowed, frames, calls, history
  <2> QED
    BY <2>1, <2>2
<1>2. CASE Cancel
  <2>1. /\ OwnerOK'
        /\ UNCHANGED <<jobState, app, owner, phase, queue>>
    BY <1>2 DEF Cancel, OwnerOK, Active
  <2>2. \A g \in Hosts : SameHost(g)
    BY <1>2 DEF Cancel, SameHost, frames, calls, history
  <2> QED
    BY <2>1, <2>2, OtherHostFollowed
<1>3. ASSUME owner' = "none", jobState # "absent", jobState' # "absent", queue' \subseteq queue,
             UNCHANGED <<app, rowHandle, frame, ex, step, gaveUp>>,
             \A g \in Hosts : rowState'[g] \in {rowState[g], "skipped"}
      PROVE  \A g \in Hosts : HostFollowed(g)'
  BY <1>3 DEF HostFollowed, Active
<1>4. CASE DisposeAll
  <2>1. jobState # "absent" /\ UNCHANGED <<jobState, app, rowState, rowHandle, frame, ex, step, gaveUp>>
    BY <1>4 DEF DisposeAll, OwnerOK, store, frames, calls, history
  <2>2. OwnerOK' /\ owner' = "none" /\ queue' \subseteq queue
    BY <1>4, <2>1 DEF DisposeAll, OwnerOK, Active
  <2> QED
    BY <1>3, <2>1, <2>2
<1>5. CASE EndJob
  <2>1. /\ jobState # "absent" /\ jobState' # "absent" /\ owner' = "none" /\ app = "up"
        /\ UNCHANGED <<app, rowState, rowHandle, queue, frame, ex, step, gaveUp>>
    BY <1>5 DEF EndJob, WaveOver, Finally, OwnerOK, frames, calls, history
  <2>2. OwnerOK'
    BY <1>5, <2>1 DEF EndJob, OwnerOK, Active
  <2> QED
    BY <1>3, <2>1, <2>2
<1>6. CASE GateHalt
  <2>1. phase \in {"gate", "asking"} /\ jobState # "absent" /\ app = "up"
    BY <1>6 DEF GateHalt, Evaluating, OwnerOK
  <2>2. /\ jobState' # "absent" /\ owner' = "none"
        /\ UNCHANGED <<app, rowHandle, queue, disposed, frame, ex, step, gaveUp>>
        /\ \A g \in Hosts : rowState'[g] \in {rowState[g], "skipped"}
    BY <1>6, <2>1 DEF GateHalt, Finally, frames, calls, history
  <2>3. OwnerOK'
    BY <2>1, <2>2 DEF OwnerOK, Active
  <2> QED
    BY <1>3, <2>1, <2>2, <2>3
<1>7. ASSUME Active, owner # "reclaim", \A g \in Hosts : ~frame[g] /\ g \notin queue,
             StartWave(wave + 1),
             UNCHANGED <<store, app, owner, disposed, frames, calls, gaveUp>>
      PROVE  OwnerOK' /\ \A g \in Hosts : HostFollowed(g)'
  <2>1. OwnerOK' /\ jobState # "absent" /\ app = "up"
    BY <1>7 DEF OwnerOK, Active, StartWave, store
  <2>2. phase' = "wave" /\ UNCHANGED <<jobState, rowState, rowHandle, frame, ex, step>>
    BY <1>7 DEF StartWave, store, frames, calls
  <2>3. ASSUME NEW g \in Hosts PROVE HostFollowed(g)'
    BY <1>7, <2>1, <2>2 DEF HostFollowed, Active
  <2> QED
    BY <2>1, <2>3
<1>8. CASE EndWave
  <2>1. Active /\ owner # "reclaim" /\ \A g \in Hosts : ~frame[g] /\ g \notin queue
    BY <1>8 DEF EndWave, WaveOver, LastWave, Busy
  <2>2. CASE Gated
    <3>1. phase' = "gate" /\ UNCHANGED <<jobState, rowState, rowHandle, app, owner, disposed,
                                        queue, frame, ex, step, gaveUp>>
      BY <1>8, <2>2 DEF EndWave, store, frames, calls, history
    <3>2. OwnerOK'
      BY <2>1, <3>1 DEF OwnerOK, Active
    <3>3. ASSUME NEW g \in Hosts PROVE HostFollowed(g)'
      BY <2>1, <3>1 DEF HostFollowed, Active
    <3> QED
      BY <3>2, <3>3
  <2>3. CASE ~Gated
    BY <1>7, <1>8, <2>1, <2>3 DEF EndWave, history
  <2> QED
    BY <2>2, <2>3
<1>9. ASSUME Active, phase \in {"gate", "asking"}
      PROVE  owner # "reclaim" /\ \A g \in Hosts : ~frame[g] /\ g \notin queue
  BY <1>9 DEF OwnerOK, HostFollowed
<1>10. CASE GateCancelled
  BY <1>7, <1>9, <1>10 DEF GateCancelled, history
<1>11. ASSUME phase' \in {"idle", "gate", "asking"}, phase \in {"gate", "asking"},
              Active => phase' # "idle",
              UNCHANGED <<store, app, owner, disposed, queue, frames, calls, gaveUp>>
       PROVE  OwnerOK' /\ \A g \in Hosts : HostFollowed(g)'
  <2>1. OwnerOK' /\ UNCHANGED <<jobState, rowState, rowHandle, frame, ex, step>>
    BY <1>11 DEF OwnerOK, Active, store, frames, calls
  <2>2. ASSUME NEW g \in Hosts PROVE HostFollowed(g)'
    BY <1>11, <2>1 DEF HostFollowed, Active
  <2> QED
    BY <2>1, <2>2
<1>12. CASE GateAsks \/ GateStale
  BY <1>11, <1>12 DEF GateAsks, GateStale, history
<1>13. CASE GatePass
  <2>1. phase \in {"gate", "asking"}
    BY <1>13 DEF GatePass, Evaluating
  <2>2. CASE Active
    BY <1>7, <1>9, <1>13, <2>1, <2>2 DEF GatePass
  <2>3. CASE ~Active
    BY <1>11, <1>13, <2>1, <2>3 DEF GatePass
  <2> QED
    BY <2>2, <2>3
<1> QED
  BY <1>1, <1>2, <1>4, <1>5, <1>6, <1>8, <1>10, <1>12, <1>13 DEF RunStep

(* The machines change nothing of what the process and the store say. *)
LEMMA MachineStepFollowed ==
  ASSUME FollowInv, NEW h \in Hosts, ConnectsLate(h) \/ \E s \in Steps : CommandEnds(h, s)
  PROVE  OwnerOK' /\ \A g \in Hosts : HostFollowed(g)'
<1>1. UNCHANGED <<store, app, run, frames, calls, history>>
  BY DEF ConnectsLate, CommandEnds
<1>2. OwnerOK'
  BY <1>1, OwnerKept DEF FollowInv, store
<1>3. \A g \in Hosts : SameHost(g)
  BY <1>1 DEF SameHost, store, frames, calls, history
<1> QED
  BY <1>1, <1>2, <1>3, OtherHostFollowed DEF FollowInv, store, run

(* After a crash nobody owns the job; startup seals every live row without a *)
(* marker, so that what reclaim() queues is every live row there is.         *)
LEMMA BootStepFollowed ==
  ASSUME FollowInv, BootStep
  PROVE  OwnerOK' /\ \A g \in Hosts : HostFollowed(g)'
<1> USE DEF FollowInv, TypeInv, TypeOK
<1>1. CASE Crash
  <2>1. /\ jobState # "absent" /\ UNCHANGED <<jobState, rowState, rowHandle, gaveUp>>
        /\ app' = "down" /\ owner' = "none" /\ ~disposed' /\ queue' = {} /\ phase' = "idle"
        /\ \A g \in Hosts : ~frame'[g] /\ ex'[g] = "none"
    BY <1>1 DEF Crash, store, history
  <2>2. OwnerOK'
    BY <2>1 DEF OwnerOK, Active
  <2>3. ASSUME NEW g \in Hosts PROVE HostFollowed(g)'
    BY <2>1 DEF HostFollowed, Active
  <2> QED
    BY <2>2, <2>3
<1>2. CASE Start
  <2>1. /\ jobState # "absent" /\ ~Active /\ queue = {} /\ ~disposed
        /\ UNCHANGED <<jobState, rowState, rowHandle, gaveUp, owner, phase, queue, disposed,
                      frame, ex, step>>
        /\ app = "down" /\ app' = IF jobState = "running" THEN "starting" ELSE "up"
    BY <1>2 DEF Start, OwnerOK, store, history, run, frames, calls
  <2>2. OwnerOK'
    BY <2>1 DEF OwnerOK, Active
  <2>3. ASSUME NEW g \in Hosts PROVE HostFollowed(g)'
    BY <2>1 DEF HostFollowed, Active
  <2> QED
    BY <2>2, <2>3
<1>3. CASE Adopt
  <2>1. /\ jobState # "absent" /\ ~Active /\ ~disposed
        /\ UNCHANGED <<rowState, rowHandle, gaveUp, owner, phase, queue, disposed, frame, ex, step>>
        /\ app = "starting" /\ app' = "up" /\ jobState' = "abandoned"
    BY <1>3 DEF Adopt, OwnerOK, history, run, frames, calls
  <2>2. OwnerOK'
    BY <2>1 DEF OwnerOK, Active
  <2>3. ASSUME NEW g \in Hosts PROVE HostFollowed(g)'
    BY <2>1 DEF HostFollowed, Active
  <2> QED
    BY <2>2, <2>3
<1>4. CASE Reclaim
  <2>1. /\ jobState = "running" /\ ~disposed /\ app = "starting" /\ app' = "up"
        /\ owner' = "reclaim" /\ phase' = "wave" /\ queue' = {g \in Hosts : Reclaimable(g)}
        /\ UNCHANGED <<jobState, rowState, rowHandle, gaveUp, disposed, frame, ex, step>>
    BY <1>4 DEF Reclaim, OwnerOK, store, history, frames, calls
  <2>2. OwnerOK'
    BY <2>1 DEF OwnerOK, Active
  <2>3. ASSUME NEW g \in Hosts PROVE HostFollowed(g)'
    <3>1. ~frame[g] /\ ex[g] = "none" /\ ~ToSeal(g)
      BY <1>4, <2>1 DEF Reclaim, HostFollowed
    <3>2. g \in queue' <=> rowHandle[g] # 0 /\ rowState[g] \in Live
      BY <2>1 DEF Reclaimable
    <3>3. rowState[g] \in {"running", "detached"} => g \in queue' \/ gaveUp[g]
      BY <3>1, <3>2 DEF HostFollowed, ToSeal, Reclaimable, Live
    <3> QED
      BY <2>1, <3>1, <3>2, <3>3 DEF HostFollowed, Active
  <2> QED
    BY <2>2, <2>3
<1>5. ASSUME NEW h \in Hosts, Seal(h)
      PROVE  OwnerOK' /\ \A g \in Hosts : HostFollowed(g)'
  <2>1. /\ rowState'[h] \in {"failed", "skipped"} /\ rowHandle'[h] = rowHandle[h]
        /\ \A g \in Hosts \ {h} : rowState'[g] = rowState[g] /\ rowHandle'[g] = rowHandle[g]
        /\ UNCHANGED <<jobState, app, run, frame, ex, step, gaveUp>> /\ app = "starting"
    BY <1>5, WriteRowAt DEF Seal, WriteRow, frames, calls, history
  <2>2. OwnerOK' /\ jobState # "absent"
    BY <2>1, OwnerKept DEF OwnerOK
  <2>3. HostFollowed(h)'
    BY <2>1, <2>2 DEF HostFollowed, Active, run
  <2>4. \A g \in Hosts \ {h} : SameHost(g)
    BY <2>1 DEF SameHost
  <2> QED
    BY <2>1, <2>2, <2>3, <2>4, OtherHostFollowed DEF run
<1> QED
  BY <1>1, <1>2, <1>3, <1>4, <1>5 DEF BootStep

(* FollowInv holds before the job is created: no run owns it. *)
LEMMA InitFollowInv == Init => FollowInv
<1> SUFFICES ASSUME Init PROVE FollowInv
  OBVIOUS
<1>1. TypeInv
  BY InitTypeInv
<1>2. OwnerOK
  BY DEF Init, OwnerOK, Active
<1>3. ASSUME NEW h \in Hosts PROVE HostFollowed(h)
  BY DEF Init, HostFollowed, Active
<1> QED
  BY <1>1, <1>2, <1>3 DEF FollowInv

(* Every step keeps FollowInv, whichever of the job's actors takes it. *)
LEMMA NextFollowInv == FollowInv /\ [Next]_vars => FollowInv'
<1> SUFFICES ASSUME FollowInv, [Next]_vars PROVE FollowInv'
  OBVIOUS
<1>1. TypeInv'
  BY NextTypeInv DEF FollowInv
<1>2. OwnerOK' /\ \A g \in Hosts : HostFollowed(g)'
  <2>1. CASE RunStep
    BY <2>1, RunStepFollowed
  <2>2. ASSUME NEW h \in Hosts, TakeStep(h) \/ ExecEnds(h) \/ ExecGoesOn(h)
        PROVE  OwnerOK' /\ \A g \in Hosts : HostFollowed(g)'
    BY <2>2, TakeStepFollowed, ExecEndsFollowed, ExecGoesOnFollowed
  <2>3. ASSUME NEW h \in Hosts, ConnectsLate(h) \/ \E s \in Steps : CommandEnds(h, s)
        PROVE  OwnerOK' /\ \A g \in Hosts : HostFollowed(g)'
    BY <2>3, MachineStepFollowed
  <2>4. CASE BootStep
    BY <2>4, BootStepFollowed
  <2>5. CASE UNCHANGED vars
    <3>1. OwnerOK' /\ \A g \in Hosts : SameHost(g)
      BY <2>5, OwnerKept DEF FollowInv, SameHost, vars, store, run, frames, calls, history
    <3> QED
      BY <2>5, <3>1, OtherHostFollowed DEF FollowInv, vars, store, run
  <2> QED
    BY <2>1, <2>2, <2>3, <2>4, <2>5 DEF Next
<1> QED
  BY <1>1, <1>2 DEF FollowInv

(* While a run owns the job, every host that was started and has no verdict  *)
(* is awaited by a runOne or waits for a worker, unless stallGuard gave up.  *)
THEOREM NoHostIsLost == Spec => []LiveRowIsFollowed
<1>1. FollowInv => LiveRowIsFollowed
  BY DEF FollowInv, HostFollowed, LiveRowIsFollowed
<1> QED
  BY <1>1, InitFollowInv, NextFollowInv, PTL DEF Spec

(* disposeAll() never ends a job: the row stays as it is until the process   *)
(* is gone, so that the next one finds it.                                   *)
THEOREM DisposeEndsNothing == Spec => DisposedStaysOpen
<1>1. FollowInv /\ [Next]_vars => (disposed /\ app = "up" => jobState' = jobState)
  <2> SUFFICES ASSUME FollowInv, [Next]_vars, disposed, app = "up"
               PROVE  jobState' = jobState
    OBVIOUS
  <2> USE DEF FollowInv, TypeInv, TypeOK
  <2>1. ~Active /\ jobState # "absent"
    BY DEF OwnerOK
  <2>2. CASE RunStep
    BY <2>1, <2>2 DEF RunStep, Run, Cancel, DisposeAll, EndJob, EndWave, WaveOver, GateCancelled,
                      GateAsks, GatePass, GateHalt, GateStale, Finally, store
  <2>3. ASSUME NEW h \in Hosts, TakeStep(h) PROVE jobState' = jobState
    BY <2>1, <2>3 DEF TakeStep, TakeCancelled, TakeFresh, TakeReclaimed, TakeUnknown, CanTake
  <2>4. ASSUME NEW h \in Hosts, ExecEnds(h) PROVE jobState' = jobState
    BY <2>4 DEF ExecEnds, LaunchFails, WatchStops, PollDeadline, PollMissing, ReapReply,
                AttachedReturns, AttachedFails, ConnectTimesOut, Stalls, Throws, Returns,
                SettleRow, WriteRow, store
  <2>5. ASSUME NEW h \in Hosts, ExecGoesOn(h) PROVE jobState' = jobState
    BY <2>5 DEF ExecGoesOn, LaunchRuns, LaunchReply, Parks, PollFails, PollRunning, Say,
                PollOutput, PollFinished, PollGone, PollNoPid, Reaps, SlowWrapper, ReapRuns,
                ReapFails, Degrade, AttachedRuns, ApplyUpdate, WriteRow, store
  <2>6. ASSUME NEW h \in Hosts, ConnectsLate(h) \/ \E s \in Steps : CommandEnds(h, s)
        PROVE  jobState' = jobState
    BY <2>6 DEF ConnectsLate, CommandEnds, store
  <2>7. CASE BootStep
    BY <2>7 DEF BootStep, Crash, Start, Adopt, Reclaim, Seal, WriteRow, store
  <2>8. CASE UNCHANGED vars
    BY <2>8 DEF vars, store
  <2> QED
    BY <2>2, <2>3, <2>4, <2>5, <2>6, <2>7, <2>8 DEF Next
<1>2. FollowInv /\ [Next]_vars => [disposed /\ app = "up" => jobState' = jobState]_vars
  BY <1>1
<1> QED
  BY <1>2, InitFollowInv, NextFollowInv, PTL DEF Spec, DisposedStaysOpen

==============================================================================
