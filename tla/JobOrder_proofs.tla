--------------------------- MODULE JobOrder_proofs ---------------------------
(***************************************************************************)
(* What is proved of JobRunner about order: that waves, steps and verdicts  *)
(* come in turn, and that a step is started once.  It builds on FollowInv   *)
(* of JobRunner_proofs.                                                     *)
(***************************************************************************)
EXTENDS JobRunner_proofs

(* Nothing of a step is on the machine. *)
Blank(h, s) == remote[h][s] = "never" /\ ~marker[h][s]

(* Every step before s ended well and left no marker behind. *)
Before(h, s) ==
  \A t \in Steps : t < s => remote[h][t] = "zero" /\ (~marker[h][t] \/ reapLost[h])

(* A pending host was never touched; a row never becomes pending again.      *)
PendingOK(h) ==
  rowState[h] = "pending" =>
    /\ ~frame[h] /\ ex[h] = "none" /\ late[h] = 0 /\ rowHandle[h] = 0 /\ ~gaveUp[h]
    /\ \A s \in Steps : Blank(h, s)

(* A runOne has a call and a live row; a host that waits for a worker has    *)
(* neither a call nor a verdict.                                             *)
RowOK(h) ==
  /\ frame[h] => ex[h] # "none" /\ (gaveUp[h] \/ rowState[h] \in {"running", "detached"})
  /\ app # "up" => late[h] = 0
  /\ h \in queue =>
       /\ ex[h] = "none" /\ late[h] = 0 /\ Active /\ phase = "wave"
       /\ owner = "run" => rowState[h] = "pending"
       /\ owner = "reclaim" => rowState[h] \in {"running", "detached"}

(* Whatever names a step -- the call, the row, a late connection -- names one *)
(* whose predecessors are behind it, and the row never runs ahead of the call. *)
CursorOK(h) ==
  /\ ex[h] # "none" =>
       Before(h, step[h]) /\ late[h] = 0 /\ mine[h] <= step[h] /\ rowHandle[h] <= step[h]
  /\ rowHandle[h] # 0 => Before(h, rowHandle[h])
  /\ late[h] # 0 =>
       Before(h, late[h]) /\ ~frame[h] /\ ex[h] = "none" /\ rowHandle[h] <= late[h]
  /\ frame[h] =>
       /\ mine[h] = 0 \/ rowHandle[h] <= mine[h]
       /\ Active => rowHandle[h] = mine[h]
  /\ ex[h] = "watching" /\ frame[h] => mine[h] = step[h]

(* What a call is about to answer is what the machine says of its step, but  *)
(* for a wrapper that has started after all.                                 *)
AnswerOK(h) ==
  /\ ex[h] \in {"reaping", "reaped"} =>
       /\ answer[h] # "none"
       /\ remote[h][step[h]] = "running" => answer[h] = "degrade"
       /\ answer[h] = "ok" => remote[h][step[h]] = "zero"
       /\ answer[h] = "degrade" => remote[h][step[h]] = "never" \/ reapLost[h]
  /\ ex[h] \in {"reaped", "connecting", "attached"} => ~marker[h][step[h]] \/ reapLost[h]

(* As long as no reap is lost, one marker exists at most, and what comes     *)
(* after it, or after the step at work, is blank.                            *)
OnceOK(h) ==
  /\ \A s \in Steps : remote[h][s] = "never" <=> launches[h][s] = 0
  /\ \/ reapLost[h]
     \/ /\ \A s \in Steps : launches[h][s] <= 1
        /\ \A s, t \in Steps : s < t /\ marker[h][s] => Blank(h, t)
        /\ ex[h] \notin {"none", "watching"} => \A t \in Steps : t > step[h] => Blank(h, t)
        /\ ex[h] \in {"launching", "connecting"} => Blank(h, step[h])
        /\ late[h] # 0 => \A t \in Steps : t >= late[h] => Blank(h, t)

Tracked(h) == PendingOK(h) /\ RowOK(h) /\ CursorOK(h) /\ AnswerOK(h) /\ OnceOK(h)

(* Something was, or may yet be, started on the host. *)
Reached(h) == ex[h] # "none" \/ late[h] # 0 \/ rowHandle[h] # 0 \/ Launched(h)

Closed(h) == rowState[h] \in Settled \/ gaveUp[h]

InTurn(h) ==
  /\ \A g \in Hosts : WaveOf[g] < WaveOf[h] => Closed(g)
  /\ Gated => \A w \in 1..(WaveOf[h] - 1) : w \in passed

(* The waves: what is ahead of the run is pending, what is behind is closed. *)
WaveInv ==
  /\ \A h \in Hosts : Reached(h) => InTurn(h)
  /\ owner = "run" \/ phase = "asking" => \A h \in Hosts : Ahead(h) => rowState[h] = "pending"
  /\ owner = "run" => \A h \in Hosts : WaveOf[h] < wave => Closed(h)
  /\ owner = "run" => \A h \in queue : WaveOf[h] = wave
  /\ Active => \A h \in Hosts :
                 frame[h] \/ h \in queue \/ Closed(h) \/ (owner = "run" /\ Ahead(h))
  /\ owner = "run" /\ ~cancelled /\ Gated => \A w \in 1..(wave - 1) : w \in passed

(* A job that has ended is owned by nobody and followed by nobody. *)
ClosedInv ==
  jobState \in Finished =>
    /\ ~Active /\ ~disposed /\ phase = "idle"
    /\ \A h \in Hosts :
         /\ ~frame[h]
         /\ Closed(h) \/ (rowState[h] = "pending" /\ jobState = "cancelled" /\ WaveOf[h] > 1)

OrderInv == FollowInv /\ (\A h \in Hosts : Tracked(h)) /\ WaveInv /\ ClosedInv

------------------------------------------------------------------------------
(* What a step may do to a host *)

(* A row loses the marker of a running command in two ways only. *)
HandleStep(h) ==
  \A s \in Steps :
    rowHandle[h] = s /\ rowHandle'[h] # s /\ marker[h][s] /\ remote[h][s] = "running"
      => \/ nulled[h] /\ ~frame'[h] /\ rowState'[h] = "failed"
         \/ reapLost[h] /\ answer[h] = "degrade"

(* The row: a verdict stays, only an untouched host is skipped, a marker of  *)
(* a running command stays.                                                  *)
RowStep(h) ==
  /\ gaveUp[h] => gaveUp'[h]
  /\ rowState[h] \in Settled /\ ~gaveUp[h] => rowState'[h] = rowState[h]
  /\ rowState'[h] = "skipped" /\ rowState[h] # "skipped" /\ owner # "reclaim"
       => rowState[h] = "pending"
  /\ HandleStep(h)

(* The machine: what is started is on the row, and its predecessor is done. *)
StartStep(h) ==
  \A s \in Steps :
    launches'[h][s] > launches[h][s] =>
      /\ rowState[h] \in {"running", "detached"} \/ gaveUp[h] \/ late[h] = s
      /\ s > 1 => remote[h][s - 1] = "zero"

(* What a call of the executor, or the end of one, does to its host. *)
CallStep(h) ==
  /\ RowStep(h) /\ StartStep(h)
  /\ rowState[h] = "pending" => rowState'[h] = "pending"
  /\ Reached(h)' => Reached(h)
  /\ frame'[h] => frame[h]
  /\ Active /\ frame[h] => frame'[h] \/ Closed(h)'

(* The part of the state that belongs to a host. *)
SameSlice(g) ==
  /\ SameHost(g)
  /\ mine'[g] = mine[g] /\ late'[g] = late[g] /\ answer'[g] = answer[g]
  /\ remote'[g] = remote[g] /\ marker'[g] = marker[g] /\ launches'[g] = launches[g]
  /\ reapLost'[g] = reapLost[g]

(* A host the step does not touch keeps its part of the invariant. *)
LEMMA OtherTracked ==
  ASSUME NEW g \in Hosts, Tracked(g), SameSlice(g), UNCHANGED <<app, owner, phase>>,
         g \in queue' <=> g \in queue
  PROVE  Tracked(g)'
<1> USE DEF SameSlice, SameHost
<1>1. PendingOK(g)'
  BY DEF Tracked, PendingOK, Blank
<1>2. RowOK(g)'
  BY DEF Tracked, RowOK, Active
<1>3. CursorOK(g)'
  BY DEF Tracked, CursorOK, Before, Active
<1>4. AnswerOK(g)'
  BY DEF Tracked, AnswerOK
<1>5. OnceOK(g)'
  BY DEF Tracked, OnceOK, Blank
<1> QED
  BY <1>1, <1>2, <1>3, <1>4, <1>5 DEF Tracked

(* A host the step does not touch moves as a call may move it. *)
LEMMA OtherStep ==
  ASSUME NEW g \in Hosts, TypeOK, SameSlice(g)
  PROVE  CallStep(g)
<1>1. launches[g] \in [Steps -> Nat]
  BY DEF TypeOK, MachineOK
<1> QED
  BY <1>1 DEF CallStep, RowStep, HandleStep, StartStep, SameSlice, SameHost, Reached, Launched,
              Closed

(* The types of what belongs to one host. *)
LEMMA SliceTypes ==
  ASSUME TypeOK, NEW h \in Hosts
  PROVE  /\ step[h] \in 0..NSteps /\ mine[h] \in 0..NSteps /\ rowHandle[h] \in 0..NSteps
         /\ late[h] \in 0..NSteps
         /\ remote[h] \in [Steps -> {"never", "running", "zero", "nonzero", "gone"}]
         /\ marker[h] \in [Steps -> BOOLEAN] /\ launches[h] \in [Steps -> Nat]
         /\ rowState[h] \in Live \cup Settled
         /\ ex[h] \in ExecStates /\ answer[h] \in Answers
         /\ frame[h] \in BOOLEAN /\ gaveUp[h] \in BOOLEAN /\ reapLost[h] \in BOOLEAN
  BY DEF TypeOK, RowsOK, CallsOK, MachineOK, HistoryOK

------------------------------------------------------------------------------
(* The executor's call *)

(* A call is at a step. *)
LEMMA AtStep ==
  ASSUME TypeOK, NEW h \in Hosts, HostFollowed(h), ex[h] # "none"
  PROVE  \E s \in Steps : s = step[h]
<1>1. step[h] \in 0..NSteps /\ step[h] # 0
  BY SliceTypes DEF HostFollowed
<1> QED
  BY <1>1, StepsAssumption DEF Steps

(* The launch reaches the machine: the step is started for the first time.   *)
LEMMA LaunchRunsTracked ==
  ASSUME OrderInv, NEW h \in Hosts, LaunchRuns(h)
  PROVE  Tracked(h)' /\ CallStep(h)
<1>0. TypeOK /\ Tracked(h) /\ HostFollowed(h)
  BY DEF OrderInv, FollowInv, TypeInv
<1>1. /\ ex[h] = "launching" /\ ex'[h] = "launched"
      /\ rowState'[h] = rowState[h] /\ rowHandle'[h] = rowHandle[h] /\ frame'[h] = frame[h]
      /\ step'[h] = step[h] /\ gaveUp'[h] = gaveUp[h] /\ mine'[h] = mine[h] /\ late'[h] = late[h]
      /\ reapLost'[h] = reapLost[h]
      /\ UNCHANGED <<app, owner, phase, queue>>
  BY <1>0 DEF LaunchRuns, TypeOK, CallsOK, store, frames, history, run
<1>s. PICK s \in Steps : s = step[h]
  BY <1>0, <1>1, AtStep
<1>2. /\ \A t \in Steps : launches[h][t] \in Nat
      /\ mine[h] \in Nat /\ rowHandle[h] \in Nat
  BY <1>0, SliceTypes, StepsAssumption DEF Steps
<1>3. marker'[h][s] /\ \A t \in Steps : t # s => marker'[h][t] = marker[h][t]
  BY <1>0, <1>s DEF LaunchRuns, TypeOK, MachineOK
<1>4. /\ \/ remote'[h][s] = "running" /\ launches'[h][s] = launches[h][s] + 1
         \/ remote'[h][s] = remote[h][s] /\ launches'[h][s] = launches[h][s]
      /\ \A t \in Steps : t # s => remote'[h][t] = remote[h][t] /\ launches'[h][t] = launches[h][t]
  BY <1>0, <1>s DEF LaunchRuns, TypeOK, MachineOK
<1>5. rowState[h] # "pending"
  BY <1>0, <1>1 DEF Tracked, PendingOK
<1>6. PendingOK(h)' /\ RowOK(h)' /\ AnswerOK(h)'
  BY <1>0, <1>1, <1>5 DEF Tracked, PendingOK, RowOK, AnswerOK, Active
<1>7. /\ \A t \in Steps : t < s => remote[h][t] = "zero" /\ (~marker[h][t] \/ reapLost[h])
      /\ late[h] = 0 /\ mine[h] <= s /\ rowHandle[h] <= s
  BY <1>0, <1>1, <1>s DEF Tracked, CursorOK, Before
<1>8. CursorOK(h)'
  <2>1. \A t \in Steps : t < s => remote'[h][t] = "zero" /\ (~marker'[h][t] \/ reapLost'[h])
    BY <1>1, <1>3, <1>4, <1>7 DEF Steps
  <2>2. \A t \in Steps : t < rowHandle[h] => t < s
    BY <1>2, <1>7 DEF Steps
  <2> QED
    BY <1>0, <1>1, <1>s, <1>7, <2>1, <2>2 DEF Tracked, CursorOK, Before, Active
<1>9. OnceOK(h)'
  <2>1. \A t \in Steps : remote'[h][t] = "never" <=> launches'[h][t] = 0
    BY <1>0, <1>2, <1>4 DEF Tracked, OnceOK
  <2>2. ASSUME ~reapLost[h]
        PROVE  /\ \A t \in Steps : launches[h][t] <= 1
               /\ \A q, t \in Steps : q < t /\ marker[h][q] => Blank(h, t)
               /\ \A t \in Steps : t > s => Blank(h, t)
               /\ launches[h][s] = 0
    BY <1>0, <1>1, <1>s, <2>2 DEF Tracked, OnceOK, Blank
  <2>3. ASSUME ~reapLost[h]
        PROVE  /\ \A t \in Steps : launches'[h][t] <= 1
               /\ \A t \in Steps : t > s => Blank(h, t)'
               /\ \A q, t \in Steps : q < t /\ marker'[h][q] => q >= s
    BY <1>1, <1>2, <1>3, <1>4, <1>7, <2>2, <2>3 DEF Blank, Steps
  <2>4. ASSUME ~reapLost[h]
        PROVE  \A q, t \in Steps : q < t /\ marker'[h][q] => Blank(h, t)'
    BY <2>3, <2>4 DEF Steps
  <2> QED
    BY <1>1, <1>s, <1>7, <2>1, <2>3, <2>4 DEF OnceOK
<1>10. CallStep(h)
  <2>1. RowStep(h)
    BY <1>1 DEF RowStep, HandleStep
  <2>2. StartStep(h)
    <3>1. ASSUME NEW t \in Steps, launches'[h][t] > launches[h][t]
          PROVE  t = s
      <4>1. launches[h][t] \in Nat /\ (t # s => launches'[h][t] = launches[h][t])
        BY <1>2, <1>4
      <4> QED
        BY <3>1, <4>1
    <3>2. rowState[h] \in {"running", "detached"} \/ gaveUp[h]
      BY <1>0, <1>1 DEF Tracked, RowOK, HostFollowed
    <3>3. s > 1 => remote[h][s - 1] = "zero"
      BY <1>7, StepsAssumption DEF Steps
    <3> QED
      BY <3>1, <3>2, <3>3 DEF StartStep
  <2> QED
    BY <1>1, <1>5, <2>1, <2>2 DEF CallStep, Reached
<1> QED
  BY <1>6, <1>8, <1>9, <1>10 DEF Tracked

(* A step of a call that leaves the machine as it is. *)
Untouching(h) ==
  /\ remote'[h] = remote[h] /\ marker'[h] = marker[h] /\ launches'[h] = launches[h]
  /\ late'[h] = late[h] /\ frame'[h] = frame[h] /\ step'[h] = step[h]
  /\ gaveUp'[h] = gaveUp[h] /\ (reapLost[h] => reapLost'[h]) /\ reapLost'[h] \in BOOLEAN
  /\ UNCHANGED <<app, owner, phase, queue>>

(* Such a step, if it reports the host at work or leaves its row. *)
LEMMA UntouchingStep ==
  ASSUME OrderInv, NEW h \in Hosts, ex[h] # "none", ex'[h] # "none", Untouching(h),
         rowState'[h] = rowState[h] \/ (Active /\ rowState'[h] \in {"running", "detached"}),
         RowStep(h)
  PROVE  PendingOK(h)' /\ RowOK(h)' /\ CallStep(h)
<1>0. TypeOK /\ Tracked(h) /\ HostFollowed(h)
  BY DEF OrderInv, FollowInv, TypeInv
<1>1. launches[h] \in [Steps -> Nat]
  BY <1>0, SliceTypes
<1>2. rowState[h] # "pending" /\ rowState'[h] # "pending"
  BY <1>0 DEF Tracked, PendingOK
<1>3. PendingOK(h)' /\ RowOK(h)'
  BY <1>0, <1>2 DEF Tracked, PendingOK, RowOK, Untouching, Active
<1>4. StartStep(h)
  BY <1>1 DEF StartStep, Untouching
<1> QED
  BY <1>2, <1>3, <1>4 DEF CallStep, Reached, Untouching

(* The launch's answer puts the marker on the row. *)
LEMMA LaunchReplyTracked ==
  ASSUME OrderInv, NEW h \in Hosts, LaunchReply(h)
  PROVE  Tracked(h)' /\ CallStep(h)
<1>0. TypeOK /\ Tracked(h) /\ HostFollowed(h)
  BY DEF OrderInv, FollowInv, TypeInv
<1>1. /\ ex[h] = "launched" /\ ex'[h] = "watching" /\ mine'[h] = step[h]
      /\ Untouching(h) /\ reapLost'[h] = reapLost[h]
  BY <1>0 DEF LaunchReply, TypeOK, CallsOK, HistoryOK, history, run, machine, Untouching
<1>2. /\ Active => rowState'[h] = "detached" /\ rowHandle'[h] = step[h]
      /\ ~Active => rowState'[h] = rowState[h] /\ rowHandle'[h] = rowHandle[h]
  BY <1>0, ApplyUpdateAt DEF LaunchReply, TypeOK
<1>s. PICK s \in Steps : s = step[h]
  BY <1>0, <1>1, AtStep
<1>3. s \in Nat /\ rowHandle[h] \in Nat
  BY <1>0, SliceTypes, StepsAssumption DEF Steps
<1>4. CursorOK(h)'
  BY <1>0, <1>1, <1>2, <1>3, <1>s DEF Tracked, CursorOK, Before, Active, Untouching
<1>5. AnswerOK(h)' /\ OnceOK(h)'
  BY <1>0, <1>1 DEF Tracked, AnswerOK, OnceOK, Blank, Untouching
<1>6. RowStep(h)
  <2>1. ASSUME NEW t \in Steps, rowHandle[h] = t, t # s
        PROVE  ~(marker[h][t] /\ remote[h][t] = "running")
    BY <1>0, <1>1, <1>3, <1>s, <2>1 DEF Tracked, CursorOK, Before, Steps
  <2>2. Active => frame[h] \/ gaveUp[h]
    BY <1>0, <1>1 DEF HostFollowed
  <2>3. Active /\ ~gaveUp[h] => rowState[h] \in {"running", "detached"}
    BY <1>0, <2>2 DEF Tracked, RowOK
  <2> QED
    BY <1>1, <1>2, <1>s, <2>1, <2>3 DEF RowStep, HandleStep, Untouching, Settled
<1> QED
  BY <1>1, <1>2, <1>4, <1>5, <1>6, UntouchingStep DEF Tracked

(* A report on a live call is a report on a host without a verdict. *)
LEMMA SayTracked ==
  ASSUME OrderInv, NEW h \in Hosts, NEW what, NEW st \in {"running", "detached"},
         Say(h, what, st)
  PROVE  Tracked(h)' /\ CallStep(h)
<1>0. TypeOK /\ Tracked(h) /\ HostFollowed(h)
  BY DEF OrderInv, FollowInv, TypeInv
<1>1. /\ ex[h] = "watching" /\ ex'[h] = "watching" /\ mine'[h] = mine[h]
      /\ Untouching(h) /\ reapLost'[h] = reapLost[h]
  BY <1>0 DEF Say, TypeOK, CallsOK, HistoryOK, history, run, machine, frames, Untouching
<1>2. /\ Active => rowState'[h] = st /\ rowHandle'[h] = rowHandle[h]
      /\ ~Active => rowState'[h] = rowState[h] /\ rowHandle'[h] = rowHandle[h]
  BY <1>0, ApplyUpdateAt DEF Say, TypeOK
<1>3. CursorOK(h)' /\ AnswerOK(h)' /\ OnceOK(h)'
  BY <1>0, <1>1, <1>2
     DEF Tracked, CursorOK, AnswerOK, OnceOK, Before, Blank, Active, Untouching
<1>4. RowStep(h)
  <2>1. Active /\ ~gaveUp[h] => rowState[h] \in {"running", "detached"}
    BY <1>0, <1>1 DEF Tracked, RowOK, HostFollowed
  <2> QED
    BY <1>1, <1>2, <2>1 DEF RowStep, HandleStep, Untouching, Settled
<1> QED
  BY <1>1, <1>2, <1>3, <1>4, UntouchingStep DEF Tracked

(* New output persists the marker: only a call that was given up on can be   *)
(* ahead of its row.                                                         *)
LEMMA PollOutputTracked ==
  ASSUME OrderInv, NEW h \in Hosts, PollOutput(h)
  PROVE  Tracked(h)' /\ CallStep(h)
<1>0. TypeOK /\ Tracked(h) /\ HostFollowed(h)
  BY DEF OrderInv, FollowInv, TypeInv
<1>1. /\ ex[h] = "watching" /\ ex'[h] = "watching" /\ mine'[h] = mine[h] /\ Active
      /\ Untouching(h) /\ reapLost'[h] = reapLost[h] /\ rowHandle[h] # step[h]
  BY <1>0 DEF PollOutput, Polled, TypeOK, HistoryOK, history, run, machine, frames, calls,
              Untouching
<1>2. rowState'[h] = rowState[h] /\ rowHandle'[h] = step[h]
  BY <1>0, WriteRowAt DEF PollOutput, TypeOK
<1>s. PICK s \in Steps : s = step[h]
  BY <1>0, <1>1, AtStep
<1>3. s \in Nat /\ rowHandle[h] \in Nat
  BY <1>0, SliceTypes, StepsAssumption DEF Steps
<1>4. rowHandle[h] < s /\ gaveUp[h]
  BY <1>0, <1>1, <1>3, <1>s DEF Tracked, CursorOK, HostFollowed
<1>5. CursorOK(h)'
  BY <1>0, <1>1, <1>2, <1>3, <1>4, <1>s DEF Tracked, CursorOK, Before, Active, Untouching
<1>6. AnswerOK(h)' /\ OnceOK(h)'
  BY <1>0, <1>1 DEF Tracked, AnswerOK, OnceOK, Blank, Untouching
<1>7. RowStep(h)
  <2>1. ASSUME NEW t \in Steps, rowHandle[h] = t PROVE remote[h][t] = "zero"
    BY <1>0, <1>1, <1>3, <1>4, <1>s, <2>1 DEF Tracked, CursorOK, Before, Steps
  <2> QED
    BY <1>1, <1>2, <1>4, <2>1 DEF RowStep, HandleStep, Untouching
<1> QED
  BY <1>1, <1>2, <1>5, <1>6, <1>7, UntouchingStep DEF Tracked

(* The last answer of a poll is what the machine says of the step. *)
LEMMA ReapsTracked ==
  ASSUME OrderInv, NEW h \in Hosts, PollFinished(h) \/ PollGone(h) \/ PollNoPid(h)
  PROVE  Tracked(h)' /\ CallStep(h)
<1>0. TypeOK /\ Tracked(h) /\ HostFollowed(h)
  BY DEF OrderInv, FollowInv, TypeInv
<1>1. PICK a \in {"ok", "nonzero", "orphaned", "error", "degrade"} :
        /\ Reaps(h, a) /\ ex[h] = "watching" /\ marker[h][step[h]]
        /\ remote[h][step[h]] # "running"
        /\ a = "ok" => remote[h][step[h]] = "zero"
        /\ a = "degrade" => remote[h][step[h]] = "never"
  BY DEF PollFinished, PollGone, PollNoPid, Polled
<1>2. /\ ex'[h] = "reaping" /\ mine'[h] = mine[h] /\ answer'[h] = a
      /\ rowState'[h] = rowState[h] /\ rowHandle'[h] = rowHandle[h]
      /\ Untouching(h) /\ reapLost'[h] = reapLost[h]
  BY <1>0, <1>1 DEF Reaps, TypeOK, CallsOK, HistoryOK, store, history, run, machine, frames,
                    Untouching
<1>s. PICK s \in Steps : s = step[h]
  BY <1>0, <1>1, AtStep
<1>3. CursorOK(h)' /\ AnswerOK(h)'
  BY <1>0, <1>1, <1>2 DEF Tracked, CursorOK, AnswerOK, Before, Active, Untouching
<1>4. OnceOK(h)'
  <2>1. ASSUME ~reapLost[h] PROVE \A t \in Steps : t > s => Blank(h, t)
    BY <1>0, <1>1, <1>s, <2>1 DEF Tracked, OnceOK, Steps
  <2> QED
    BY <1>0, <1>1, <1>2, <1>s, <2>1 DEF Tracked, OnceOK, Blank, Untouching
<1>5. RowStep(h)
  BY <1>2 DEF RowStep, HandleStep, Untouching
<1> QED
  BY <1>1, <1>2, <1>3, <1>4, <1>5, UntouchingStep DEF Tracked

(* The reap removes the marker of a command that is not running. *)
LEMMA ReapRunsTracked ==
  ASSUME OrderInv, NEW h \in Hosts, ReapRuns(h)
  PROVE  Tracked(h)' /\ CallStep(h)
<1>0. TypeOK /\ Tracked(h) /\ HostFollowed(h)
  BY DEF OrderInv, FollowInv, TypeInv
<1>1. /\ ex[h] = "reaping" /\ ex'[h] = "reaped"
      /\ rowState'[h] = rowState[h] /\ rowHandle'[h] = rowHandle[h] /\ frame'[h] = frame[h]
      /\ step'[h] = step[h] /\ gaveUp'[h] = gaveUp[h] /\ mine'[h] = mine[h] /\ late'[h] = late[h]
      /\ reapLost'[h] = reapLost[h] /\ remote'[h] = remote[h] /\ launches'[h] = launches[h]
      /\ answer'[h] = answer[h]
      /\ UNCHANGED <<app, owner, phase, queue>>
  BY <1>0 DEF ReapRuns, TypeOK, CallsOK, store, frames, history, run
<1>s. PICK s \in Steps : s = step[h]
  BY <1>0, <1>1, AtStep
<1>2. ~marker'[h][s] /\ \A t \in Steps : t # s => marker'[h][t] = marker[h][t]
  BY <1>0, <1>s DEF ReapRuns, TypeOK, MachineOK
<1>3. rowState[h] # "pending"
  BY <1>0, <1>1 DEF Tracked, PendingOK
<1>4. PendingOK(h)' /\ RowOK(h)'
  BY <1>0, <1>1, <1>3 DEF Tracked, PendingOK, RowOK, Active
<1>5. CursorOK(h)'
  BY <1>0, <1>1, <1>2 DEF Tracked, CursorOK, Before, Active
<1>6. AnswerOK(h)'
  BY <1>0, <1>1, <1>2, <1>s DEF Tracked, AnswerOK
<1>7. OnceOK(h)'
  <2>1. \A t \in Steps : Blank(h, t) => Blank(h, t)'
    BY <1>1, <1>2 DEF Blank
  <2>2. \A t \in Steps : marker'[h][t] => marker[h][t]
    BY <1>2
  <2> QED
    BY <1>0, <1>1, <1>s, <2>1, <2>2 DEF Tracked, OnceOK
<1>8. CallStep(h)
  <2>1. RowStep(h)
    BY <1>1 DEF RowStep, HandleStep
  <2>2. launches[h] \in [Steps -> Nat]
    BY <1>0, SliceTypes
  <2>3. StartStep(h)
    BY <1>1, <2>2 DEF StartStep
  <2> QED
    BY <1>1, <1>3, <2>1, <2>3 DEF CallStep, Reached
<1> QED
  BY <1>4, <1>5, <1>6, <1>7, <1>8 DEF Tracked

(* A wrapper that starts after all starts a step whose predecessors are done. *)
LEMMA SlowWrapperTracked ==
  ASSUME OrderInv, NEW h \in Hosts, SlowWrapper(h)
  PROVE  Tracked(h)' /\ CallStep(h)
<1>0. TypeOK /\ Tracked(h) /\ HostFollowed(h)
  BY DEF OrderInv, FollowInv, TypeInv
<1>1. /\ ex[h] = "reaping" /\ ex'[h] = "reaping" /\ answer[h] = "degrade"
      /\ rowState'[h] = rowState[h] /\ rowHandle'[h] = rowHandle[h] /\ frame'[h] = frame[h]
      /\ step'[h] = step[h] /\ gaveUp'[h] = gaveUp[h] /\ mine'[h] = mine[h] /\ late'[h] = late[h]
      /\ reapLost'[h] /\ marker'[h] = marker[h] /\ answer'[h] = answer[h]
      /\ UNCHANGED <<app, owner, phase, queue>>
  BY <1>0 DEF SlowWrapper, TypeOK, HistoryOK, store, frames, calls, run
<1>s. PICK s \in Steps : s = step[h]
  BY <1>0, <1>1, AtStep
<1>2. /\ \A t \in Steps : launches[h][t] \in Nat
      /\ rowHandle[h] \in Nat /\ s \in Nat
  BY <1>0, SliceTypes, StepsAssumption DEF Steps
<1>3. /\ remote'[h][s] = "running" /\ launches'[h][s] = launches[h][s] + 1
      /\ \A t \in Steps : t # s => remote'[h][t] = remote[h][t] /\ launches'[h][t] = launches[h][t]
  BY <1>0, <1>s DEF SlowWrapper, TypeOK, MachineOK
<1>4. rowState[h] # "pending"
  BY <1>0, <1>1 DEF Tracked, PendingOK
<1>5. PendingOK(h)' /\ RowOK(h)'
  BY <1>0, <1>1, <1>4 DEF Tracked, PendingOK, RowOK, Active
<1>6. /\ \A t \in Steps : t < s => remote[h][t] = "zero" /\ (~marker[h][t] \/ reapLost[h])
      /\ late[h] = 0 /\ mine[h] <= s /\ rowHandle[h] <= s
  BY <1>0, <1>1, <1>s DEF Tracked, CursorOK, Before
<1>7. CursorOK(h)'
  <2>1. \A t \in Steps : t < s => remote'[h][t] = "zero" /\ (~marker'[h][t] \/ reapLost'[h])
    BY <1>1, <1>3, <1>6 DEF Steps
  <2>2. \A t \in Steps : t < rowHandle[h] => t < s
    BY <1>2, <1>6 DEF Steps
  <2> QED
    BY <1>0, <1>1, <1>s, <1>6, <2>1, <2>2 DEF Tracked, CursorOK, Before, Active
<1>8. AnswerOK(h)'
  BY <1>1 DEF AnswerOK
<1>9. OnceOK(h)'
  <2>1. \A t \in Steps : remote'[h][t] = "never" <=> launches'[h][t] = 0
    BY <1>0, <1>2, <1>3 DEF Tracked, OnceOK
  <2> QED
    BY <1>1, <2>1 DEF OnceOK
<1>10. StartStep(h)
  <2>1. ASSUME NEW t \in Steps, launches'[h][t] > launches[h][t]
        PROVE  t = s
    <3>1. launches[h][t] \in Nat /\ (t # s => launches'[h][t] = launches[h][t])
      BY <1>2, <1>3
    <3> QED
      BY <2>1, <3>1
  <2>2. rowState[h] \in {"running", "detached"} \/ gaveUp[h]
    BY <1>0, <1>1 DEF Tracked, RowOK, HostFollowed
  <2>3. s > 1 => remote[h][s - 1] = "zero"
    BY <1>6, StepsAssumption DEF Steps
  <2> QED
    BY <2>1, <2>2, <2>3 DEF StartStep
<1>11. RowStep(h)
  BY <1>1 DEF RowStep, HandleStep
<1> QED
  BY <1>1, <1>4, <1>5, <1>7, <1>8, <1>9, <1>10, <1>11 DEF Tracked, CallStep, Reached

(* A lost reap is remembered. *)
LEMMA ReapFailsTracked ==
  ASSUME OrderInv, NEW h \in Hosts, ReapFails(h)
  PROVE  Tracked(h)' /\ CallStep(h)
<1>0. TypeOK /\ Tracked(h) /\ HostFollowed(h)
  BY DEF OrderInv, FollowInv, TypeInv
<1>1. /\ ex[h] = "reaping" /\ ex'[h] = "reaped" /\ mine'[h] = mine[h]
      /\ answer'[h] = answer[h]
      /\ rowState'[h] = rowState[h] /\ rowHandle'[h] = rowHandle[h]
      /\ Untouching(h) /\ reapLost'[h]
  BY <1>0 DEF ReapFails, TypeOK, CallsOK, HistoryOK, store, run, machine, frames,
              Untouching
<1>2. CursorOK(h)' /\ AnswerOK(h)' /\ OnceOK(h)'
  BY <1>0, <1>1 DEF Tracked, CursorOK, AnswerOK, OnceOK, Before, Active, Untouching
<1>3. RowStep(h)
  BY <1>1 DEF RowStep, HandleStep, Untouching
<1> QED
  BY <1>1, <1>2, <1>3, UntouchingStep DEF Tracked

(* The fallback to the attached path finds a step that never started. *)
LEMMA DegradeTracked ==
  ASSUME OrderInv, NEW h \in Hosts, Degrade(h)
  PROVE  Tracked(h)' /\ CallStep(h)
<1>0. TypeOK /\ Tracked(h) /\ HostFollowed(h)
  BY DEF OrderInv, FollowInv, TypeInv
<1>1. /\ ex[h] = "reaped" /\ ex'[h] = "connecting" /\ mine'[h] = 0
      /\ answer[h] = "degrade" /\ answer'[h] = "none"
      /\ Untouching(h) /\ reapLost'[h] = reapLost[h]
  BY <1>0 DEF Degrade, TypeOK, CallsOK, HistoryOK, history, run, machine, Untouching
<1>2. /\ Active => rowState'[h] = "running" /\ rowHandle'[h] = 0
      /\ ~Active => rowState'[h] = rowState[h] /\ rowHandle'[h] = rowHandle[h]
  BY <1>0, ApplyUpdateAt DEF Degrade, TypeOK
<1>s. PICK s \in Steps : s = step[h]
  BY <1>0, <1>1, AtStep
<1>3. s \in Nat /\ rowHandle[h] \in Nat
  BY <1>0, SliceTypes, StepsAssumption DEF Steps
<1>4. (remote[h][s] = "never" \/ reapLost[h]) /\ (~marker[h][s] \/ reapLost[h])
  BY <1>0, <1>1, <1>s DEF Tracked, AnswerOK
<1>5. CursorOK(h)'
  <2>1. /\ \A t \in Steps : t < s => remote'[h][t] = "zero" /\ (~marker'[h][t] \/ reapLost'[h])
        /\ late'[h] = 0 /\ rowHandle[h] <= s
    BY <1>0, <1>1, <1>s DEF Tracked, CursorOK, Before, Untouching
  <2>2. rowHandle'[h] = 0 \/ rowHandle'[h] = rowHandle[h]
    BY <1>2
  <2>3. \A t \in Steps : t < rowHandle[h] => t < s
    BY <1>3, <2>1 DEF Steps
  <2>4. step'[h] = s /\ (Active' => Active)
    BY <1>1, <1>s DEF Active, Untouching
  <2> QED
    BY <1>1, <1>2, <1>3, <2>1, <2>2, <2>3, <2>4 DEF CursorOK, Before
<1>6. AnswerOK(h)'
  BY <1>0, <1>1 DEF Tracked, AnswerOK, Untouching
<1>7. OnceOK(h)'
  BY <1>0, <1>1, <1>4, <1>s DEF Tracked, OnceOK, Blank, Untouching
<1>8. RowStep(h)
  <2>1. ASSUME NEW t \in Steps, rowHandle[h] = t, Active
        PROVE  ~(marker[h][t] /\ remote[h][t] = "running") \/ reapLost[h]
    BY <1>0, <1>1, <1>3, <1>4, <1>s, <2>1 DEF Tracked, CursorOK, Before, Steps
  <2>2. Active /\ ~gaveUp[h] => rowState[h] \in {"running", "detached"}
    BY <1>0, <1>1 DEF Tracked, RowOK, HostFollowed
  <2> QED
    BY <1>1, <1>2, <2>1, <2>2 DEF RowStep, HandleStep, Untouching, Settled
<1> QED
  BY <1>1, <1>2, <1>5, <1>6, <1>7, <1>8, UntouchingStep DEF Tracked

(* The attached command starts a step nothing was started for. *)
LEMMA AttachedRunsTracked ==
  ASSUME OrderInv, NEW h \in Hosts, AttachedRuns(h)
  PROVE  Tracked(h)' /\ CallStep(h)
<1>0. TypeOK /\ Tracked(h) /\ HostFollowed(h)
  BY DEF OrderInv, FollowInv, TypeInv
<1>1. /\ ex[h] = "connecting" /\ ex'[h] = "attached"
      /\ rowState'[h] = rowState[h] /\ rowHandle'[h] = rowHandle[h] /\ frame'[h] = frame[h]
      /\ step'[h] = step[h] /\ gaveUp'[h] = gaveUp[h] /\ mine'[h] = mine[h] /\ late'[h] = late[h]
      /\ reapLost'[h] = reapLost[h] /\ marker'[h] = marker[h]
      /\ UNCHANGED <<app, owner, phase, queue>>
  BY <1>0 DEF AttachedRuns, TypeOK, CallsOK, store, frames, history, run
<1>s. PICK s \in Steps : s = step[h]
  BY <1>0, <1>1, AtStep
<1>2. /\ \A t \in Steps : launches[h][t] \in Nat
      /\ mine[h] \in Nat /\ rowHandle[h] \in Nat /\ s \in Nat
  BY <1>0, SliceTypes, StepsAssumption DEF Steps
<1>3. /\ remote'[h][s] = "running" /\ launches'[h][s] = launches[h][s] + 1
      /\ \A t \in Steps : t # s => remote'[h][t] = remote[h][t] /\ launches'[h][t] = launches[h][t]
  BY <1>0, <1>s DEF AttachedRuns, TypeOK, MachineOK
<1>4. rowState[h] # "pending"
  BY <1>0, <1>1 DEF Tracked, PendingOK
<1>5. PendingOK(h)' /\ RowOK(h)'
  BY <1>0, <1>1, <1>4 DEF Tracked, PendingOK, RowOK, Active
<1>6. /\ \A t \in Steps : t < s => remote[h][t] = "zero" /\ (~marker[h][t] \/ reapLost[h])
      /\ late[h] = 0 /\ mine[h] <= s /\ rowHandle[h] <= s
      /\ ~marker[h][s] \/ reapLost[h]
  BY <1>0, <1>1, <1>s DEF Tracked, CursorOK, Before, AnswerOK
<1>7. CursorOK(h)'
  <2>1. \A t \in Steps : t < s => remote'[h][t] = "zero" /\ (~marker'[h][t] \/ reapLost'[h])
    BY <1>1, <1>3, <1>6 DEF Steps
  <2>2. \A t \in Steps : t < rowHandle[h] => t < s
    BY <1>2, <1>6 DEF Steps
  <2> QED
    BY <1>0, <1>1, <1>s, <1>6, <2>1, <2>2 DEF Tracked, CursorOK, Before, Active
<1>8. AnswerOK(h)'
  BY <1>1, <1>6, <1>s DEF AnswerOK
<1>9. OnceOK(h)'
  <2>1. \A t \in Steps : remote'[h][t] = "never" <=> launches'[h][t] = 0
    BY <1>0, <1>2, <1>3 DEF Tracked, OnceOK
  <2>2. ASSUME ~reapLost[h]
        PROVE  /\ \A t \in Steps : launches[h][t] <= 1
               /\ \A q, t \in Steps : q < t /\ marker[h][q] => Blank(h, t)
               /\ \A t \in Steps : t > s => Blank(h, t)
               /\ Blank(h, s) /\ launches[h][s] = 0
    BY <1>0, <1>1, <1>s, <2>2 DEF Tracked, OnceOK, Blank
  <2>3. ASSUME ~reapLost[h]
        PROVE  /\ \A t \in Steps : launches'[h][t] <= 1
               /\ \A t \in Steps : t > s => Blank(h, t)'
               /\ \A q, t \in Steps : q < t /\ marker'[h][q] => q > s
    BY <1>1, <1>2, <1>3, <1>6, <2>2, <2>3 DEF Blank, Steps
  <2>4. ASSUME ~reapLost[h]
        PROVE  \A q, t \in Steps : q < t /\ marker'[h][q] => Blank(h, t)'
    BY <1>2, <2>3, <2>4 DEF Steps
  <2> QED
    BY <1>1, <1>s, <1>6, <2>1, <2>3, <2>4 DEF OnceOK
<1>10. CallStep(h)
  <2>1. RowStep(h)
    BY <1>1 DEF RowStep, HandleStep
  <2>2. StartStep(h)
    <3>1. ASSUME NEW t \in Steps, launches'[h][t] > launches[h][t]
          PROVE  t = s
      <4>1. launches[h][t] \in Nat /\ (t # s => launches'[h][t] = launches[h][t])
        BY <1>2, <1>3
      <4> QED
        BY <3>1, <4>1
    <3>2. rowState[h] \in {"running", "detached"} \/ gaveUp[h]
      BY <1>0, <1>1 DEF Tracked, RowOK, HostFollowed
    <3>3. s > 1 => remote[h][s - 1] = "zero"
      BY <1>6, StepsAssumption DEF Steps
    <3> QED
      BY <3>1, <3>2, <3>3 DEF StartStep
  <2> QED
    BY <1>1, <1>4, <2>1, <2>2 DEF CallStep, Reached
<1> QED
  BY <1>5, <1>7, <1>8, <1>9, <1>10 DEF Tracked

------------------------------------------------------------------------------
(* The end of a call *)

(* The end of runOne, under each of the owners it may find. *)
LEMMA SettleRowCases ==
  ASSUME RowsOK, NEW h \in Hosts, NEW st, NEW hd, SettleRow(h, st, hd)
  PROVE  \/ Active /\ rowState'[h] = st /\ rowHandle'[h] = hd
         \/ ~Active /\ mine[h] # 0 /\ rowState'[h] = "detached" /\ rowHandle'[h] = mine[h]
         \/ ~Active /\ rowState'[h] = "failed" /\ rowHandle'[h] = rowHandle[h]
         \/ ~Active /\ rowState'[h] = rowState[h] /\ rowHandle'[h] = rowHandle[h]
<1>1. CASE WriteRow(h, st, hd) /\ Active
  BY <1>1, WriteRowAt
<1>2. CASE WriteRow(h, "detached", mine[h]) /\ ~Active /\ mine[h] # 0
  BY <1>2, WriteRowAt
<1>3. CASE WriteRow(h, "failed", rowHandle[h]) /\ ~Active
  BY <1>3, WriteRowAt
<1>4. CASE UNCHANGED store /\ ~Active
  BY <1>4 DEF store
<1> QED
  BY <1>1, <1>2, <1>3, <1>4 DEF SettleRow

(* What the machine, and the executor, say of a call that settles with kind. *)
AnswerHolds(h, kind) ==
  /\ ex[h] # "none"
  /\ kind = "ok" =>
       /\ ex[h] \notin {"none", "watching"} /\ remote[h][step[h]] = "zero"
       /\ ~marker[h][step[h]] \/ reapLost[h]

(* What the end of a call does beyond Returns. *)
AnswerLeaves(h, kind) ==
  /\ UNCHANGED <<app, owner, phase, queue>>
  /\ marker'[h] = marker[h] /\ launches'[h] = launches[h]
  /\ reapLost'[h] = reapLost[h] /\ gaveUp'[h] = gaveUp[h]
  /\ \A t \in Steps :
       \/ remote'[h][t] = remote[h][t]
       \/ /\ t = step[h] /\ kind = "error"
          /\ remote[h][t] = "running" /\ remote'[h][t] = "gone"
  /\ \/ late'[h] = late[h]
     \/ ex[h] = "connecting" /\ late'[h] = step[h] /\ kind = "error"

(* Where a call ends, with or without a runOne that hears of it. *)
LEMMA CallEndsTracked ==
  ASSUME OrderInv, NEW h \in Hosts, NEW kind, AnswerHolds(h, kind), AnswerLeaves(h, kind),
         ex'[h] = "none", ~frame'[h],
         rowState'[h] # "pending",
         rowHandle'[h] \in {0, mine[h], rowHandle[h]}
  PROVE  Tracked(h)'
<1>0. TypeOK /\ Tracked(h) /\ HostFollowed(h)
  BY DEF OrderInv, FollowInv, TypeInv
<1>s. PICK s \in Steps : s = step[h]
  BY <1>0, AtStep DEF AnswerHolds
<1>1. /\ mine[h] \in Nat /\ rowHandle[h] \in Nat /\ rowHandle'[h] \in Nat /\ s \in Nat
  BY <1>0, SliceTypes, StepsAssumption DEF Steps
<1>2. /\ \A t \in Steps : t < s => remote[h][t] = "zero" /\ (~marker[h][t] \/ reapLost[h])
      /\ late[h] = 0 /\ mine[h] <= s /\ rowHandle[h] <= s
  BY <1>0, <1>s DEF Tracked, CursorOK, Before, AnswerHolds
<1>3. \A t \in Steps : t < s => remote'[h][t] = "zero" /\ (~marker'[h][t] \/ reapLost'[h])
  BY <1>1, <1>2, <1>s DEF AnswerLeaves, Steps
<1>4. rowHandle'[h] <= s /\ (late'[h] = 0 \/ (late'[h] = s /\ ex[h] = "connecting"))
  BY <1>1, <1>2, <1>s DEF AnswerLeaves
<1>5. \A t \in Steps : t < rowHandle'[h] => t < s
  BY <1>1, <1>4 DEF Steps
<1>6. PendingOK(h)' /\ AnswerOK(h)'
  BY DEF PendingOK, AnswerOK
<1>7. RowOK(h)'
  BY <1>0 DEF Tracked, RowOK, HostFollowed, AnswerHolds, AnswerLeaves
<1>8. CursorOK(h)'
  BY <1>3, <1>4, <1>5 DEF CursorOK, Before
<1>9. OnceOK(h)'
  <2>1. \A t \in Steps :
          /\ remote[h][t] = "never" <=> remote'[h][t] = "never"
          /\ Blank(h, t) <=> Blank(h, t)'
    BY DEF AnswerLeaves, Blank
  <2>2. ASSUME ~reapLost[h], late'[h] # 0
        PROVE  \A t \in Steps : t >= s => Blank(h, t)'
    <3>1. \A t \in Steps : t > s => Blank(h, t)
      BY <1>0, <1>4, <1>s, <2>2 DEF Tracked, OnceOK
    <3>2. Blank(h, s)
      BY <1>0, <1>4, <1>s, <2>2 DEF Tracked, OnceOK
    <3> QED
      BY <1>1, <2>1, <3>1, <3>2 DEF Steps
  <2> QED
    BY <1>0, <1>4, <2>1, <2>2 DEF Tracked, OnceOK, AnswerLeaves
<1> QED
  BY <1>6, <1>7, <1>8, <1>9 DEF Tracked

(* An executor's answer: dropped, the next step, or a verdict. *)
LEMMA ReturnsTracked ==
  ASSUME OrderInv, NEW h \in Hosts, NEW kind, NEW clears \in BOOLEAN,
         Returns(h, kind, clears), AnswerHolds(h, kind), AnswerLeaves(h, kind),
         clears => \/ ~(marker[h][step[h]] /\ remote[h][step[h]] = "running")
                   \/ nulled[h] /\ kind = "error"
  PROVE  Tracked(h)' /\ CallStep(h)
<1>0. TypeOK /\ Tracked(h) /\ HostFollowed(h)
  BY DEF OrderInv, FollowInv, TypeInv
<1>s. PICK s \in Steps : s = step[h]
  BY <1>0, AtStep DEF AnswerHolds
<1>1. mine[h] \in Nat /\ rowHandle[h] \in Nat /\ s \in Nat
  BY <1>0, SliceTypes, StepsAssumption DEF Steps
<1>2. /\ \A t \in Steps : t < s => remote[h][t] = "zero" /\ (~marker[h][t] \/ reapLost[h])
      /\ late[h] = 0 /\ mine[h] <= s /\ rowHandle[h] <= s
  BY <1>0, <1>s DEF Tracked, CursorOK, Before, AnswerHolds
<1>3. rowState[h] # "pending"
  BY <1>0 DEF Tracked, PendingOK, AnswerHolds
<1>4. StartStep(h)
  <2>1. launches[h] \in [Steps -> Nat]
    BY <1>0, SliceTypes
  <2> QED
    BY <2>1 DEF StartStep, AnswerLeaves
<1>5. Reached(h)
  BY DEF Reached, AnswerHolds
<1>6. CASE ~frame[h] /\ CallEnds(h) /\ UNCHANGED <<store, frame, mine, nulled>>
  <2>1. /\ ex'[h] = "none" /\ ~frame'[h]
        /\ rowState'[h] = rowState[h] /\ rowHandle'[h] = rowHandle[h]
    BY <1>0, <1>6 DEF CallEnds, TypeOK, CallsOK, store
  <2>2. RowStep(h)
    BY <2>1 DEF RowStep, HandleStep, AnswerLeaves
  <2> QED
    BY <1>3, <1>4, <1>5, <1>6, <2>1, <2>2, CallEndsTracked DEF CallStep
<1>7. CASE /\ frame[h] /\ Active /\ kind = "ok" /\ step[h] < NSteps
           /\ step' = [step EXCEPT ![h] = @ + 1]
           /\ Enter(h)
           /\ UNCHANGED <<store, frame, mine>>
  <2>1. /\ ex'[h] \in {"launching", "connecting"} /\ step'[h] = s + 1 /\ mine'[h] = mine[h]
        /\ rowState'[h] = rowState[h] /\ rowHandle'[h] = rowHandle[h] /\ frame'[h] = frame[h]
    BY <1>0, <1>7, <1>s DEF Enter, TypeOK, CallsOK, store
  <2>2. s + 1 \in Steps
    BY <1>1, <1>7, <1>s, StepsAssumption DEF Steps
  <2>3. late'[h] = 0 /\ \A t \in Steps : remote'[h][t] = remote[h][t]
    BY <1>2, <1>7 DEF AnswerLeaves
  <2>4. /\ ex[h] \notin {"none", "watching"} /\ remote[h][s] = "zero"
        /\ ~marker[h][s] \/ reapLost[h]
    BY <1>7, <1>s DEF AnswerHolds
  <2>5. \A t \in Steps : t < s + 1 => t < s \/ t = s
    BY <1>1 DEF Steps
  <2>6. PendingOK(h)' /\ RowOK(h)'
    BY <1>0, <1>3, <2>1, <2>3 DEF Tracked, PendingOK, RowOK, AnswerHolds, AnswerLeaves
  <2>7. CursorOK(h)'
    <3>1. Before(h, step[h])'
      BY <1>2, <2>1, <2>3, <2>4, <2>5 DEF Before, AnswerLeaves
    <3>2. mine[h] <= s + 1 /\ rowHandle[h] <= s + 1
      BY <1>1, <1>2
    <3>3. Before(h, rowHandle[h])' \/ rowHandle'[h] = 0
      BY <1>0, <2>1, <2>3 DEF Tracked, CursorOK, Before, AnswerLeaves
    <3> QED
      BY <1>0, <2>1, <2>3, <3>1, <3>2, <3>3 DEF Tracked, CursorOK, Active, AnswerLeaves
  <2>8. ~reapLost[h] => \A t \in Steps : t > s => Blank(h, t)
    BY <1>0, <1>s, <2>4 DEF Tracked, OnceOK
  <2>9. ~reapLost[h] => Blank(h, s + 1) /\ \A t \in Steps : t > s + 1 => Blank(h, t)
    BY <1>1, <2>2, <2>8 DEF Steps
  <2>10. AnswerOK(h)'
    BY <2>1, <2>9 DEF AnswerOK, AnswerLeaves, Blank
  <2>11. OnceOK(h)'
    BY <1>0, <2>1, <2>2, <2>3, <2>9 DEF Tracked, OnceOK, AnswerLeaves, Blank
  <2>12. RowStep(h)
    BY <2>1 DEF RowStep, HandleStep, AnswerLeaves
  <2> QED
    BY <1>3, <1>4, <1>5, <1>7, <2>1, <2>6, <2>7, <2>10, <2>11, <2>12 DEF CallStep, Tracked
<1>8. CASE /\ frame[h] /\ SettleRow(h, Verdict(kind), IF clears THEN 0 ELSE mine[h])
           /\ FrameEnds(h) /\ CallEnds(h)
  <2>1. ex'[h] = "none" /\ ~frame'[h]
    BY <1>0, <1>8 DEF FrameEnds, CallEnds, TypeOK, CallsOK
  <2>2. \/ Active /\ rowState'[h] = Verdict(kind) /\ rowHandle'[h] = IF clears THEN 0 ELSE mine[h]
        \/ ~Active /\ mine[h] # 0 /\ rowState'[h] = "detached" /\ rowHandle'[h] = mine[h]
        \/ ~Active /\ rowState'[h] = "failed" /\ rowHandle'[h] = rowHandle[h]
        \/ ~Active /\ rowState'[h] = rowState[h] /\ rowHandle'[h] = rowHandle[h]
    BY <1>0, <1>8, SettleRowCases DEF TypeOK
  <2>3. Verdict(kind) \in Settled \ {"skipped"}
    BY DEF Verdict, Settled
  <2>4. gaveUp[h] \/ rowState[h] \in {"running", "detached"}
    BY <1>0, <1>8 DEF Tracked, RowOK
  <2>5. rowState'[h] \notin {"pending"} /\ (rowState'[h] = "skipped" => rowState[h] = "skipped")
    BY <1>3, <2>2, <2>3 DEF Settled
  <2>6. Tracked(h)'
    <3>1. rowHandle'[h] \in {0, mine[h], rowHandle[h]}
      BY <2>2
    <3> QED
      BY <2>1, <2>5, <3>1, CallEndsTracked
  <2>7. ASSUME NEW t \in Steps, rowHandle[h] = t, rowHandle'[h] # t
        PROVE  \/ ~(marker[h][t] /\ remote[h][t] = "running")
               \/ nulled[h] /\ rowState'[h] = "failed"
    <3>1. CASE t < s
      BY <1>2, <3>1
    <3>2. CASE t = s
      <4>1. Active => rowHandle[h] = mine[h]
        BY <1>0, <1>8, <2>7 DEF Tracked, CursorOK
      <4>2. mine[h] = 0 \/ rowHandle[h] <= mine[h]
        BY <1>0, <1>8, <2>7 DEF Tracked, CursorOK
      <4>3. Active /\ clears
        BY <1>1, <1>2, <2>2, <2>7, <3>2, <4>1, <4>2
      <4>4. kind = "error" => rowState'[h] = "failed"
        BY <2>2, <4>3 DEF Verdict
      <4> QED
        BY <1>s, <3>2, <4>3, <4>4
    <3> QED
      BY <1>1, <1>2, <2>7, <3>1, <3>2
  <2>8. RowStep(h)
    BY <2>1, <2>4, <2>5, <2>7 DEF RowStep, HandleStep, AnswerLeaves, Settled
  <2>9. Active => Closed(h)'
    BY <2>2, <2>3 DEF Closed
  <2> QED
    BY <1>3, <1>4, <1>5, <2>1, <2>6, <2>8, <2>9 DEF CallStep
<1> QED
  BY <1>6, <1>7, <1>8 DEF Returns

(* A call at one of its places stands by what it answers. *)
LEMMA ReapReplyHolds ==
  ASSUME OrderInv, NEW h \in Hosts, ex[h] = "reaped", answer[h] # "degrade"
  PROVE  /\ AnswerHolds(h, answer[h])
         /\ ~(marker[h][step[h]] /\ remote[h][step[h]] = "running")
  BY DEF OrderInv, Tracked, AnswerOK, AnswerHolds

(* What ends an executor's call. *)
LEMMA CallEndTracked ==
  ASSUME OrderInv, NEW h \in Hosts, ExecEnds(h), ~Stalls(h)
  PROVE  Tracked(h)' /\ CallStep(h)
<1>0. TypeOK /\ Tracked(h) /\ HostFollowed(h)
  BY DEF OrderInv, FollowInv, TypeInv
<1> DEFINE Rest == UNCHANGED <<app, run, machine, history, crashes>>
<1>1. ASSUME NEW kind, Rest PROVE AnswerLeaves(h, kind)
  BY <1>1 DEF AnswerLeaves, run, machine, history
<1> HIDE DEF Rest
<1>n. nulled[h] \in BOOLEAN
  BY <1>0 DEF TypeOK, CallsOK
<1>2. CASE LaunchFails(h)
  <2>1. AnswerHolds(h, "error") /\ AnswerLeaves(h, "error")
    BY <1>1, <1>2 DEF LaunchFails, AnswerHolds, Rest
  <2>2. PICK clears \in {FALSE, nulled[h]} : Returns(h, "error", clears)
    BY <1>2 DEF LaunchFails, Throws
  <2> QED
    BY <1>n, <2>1, <2>2, ReturnsTracked
<1>3. CASE WatchStops(h)
  <2>1. AnswerHolds(h, "detached") /\ AnswerLeaves(h, "detached")
    BY <1>1, <1>3 DEF WatchStops, AnswerHolds, Rest
  <2> QED
    BY <1>3, <2>1, ReturnsTracked DEF WatchStops
<1>4. CASE PollDeadline(h)
  <2>1. AnswerHolds(h, "error") /\ AnswerLeaves(h, "error")
    BY <1>1, <1>4 DEF PollDeadline, Polled, AnswerHolds, Rest
  <2>2. PICK clears \in {FALSE, nulled[h]} : Returns(h, "error", clears)
    BY <1>4 DEF PollDeadline, Throws
  <2> QED
    BY <1>n, <2>1, <2>2, ReturnsTracked
<1>5. CASE PollMissing(h)
  <2>1. AnswerHolds(h, "orphaned") /\ AnswerLeaves(h, "orphaned")
    BY <1>1, <1>5 DEF PollMissing, AnswerHolds, Rest
  <2> QED
    BY <1>5, <2>1, ReturnsTracked DEF PollMissing
<1>6. CASE ReapReply(h)
  <2>1. /\ AnswerHolds(h, answer[h]) /\ AnswerLeaves(h, answer[h])
        /\ ~(marker[h][step[h]] /\ remote[h][step[h]] = "running")
    BY <1>1, <1>6, ReapReplyHolds DEF ReapReply, Rest
  <2> QED
    BY <1>6, <2>1, ReturnsTracked DEF ReapReply
<1>7. CASE AttachedReturns(h)
  <2>1. ~marker[h][step[h]] \/ reapLost[h]
    BY <1>0, <1>7 DEF AttachedReturns, Tracked, AnswerOK
  <2>2. PICK kind \in {"ok", "nonzero"} :
          Returns(h, kind, FALSE) /\ AnswerHolds(h, kind)
    BY <1>7, <2>1 DEF AttachedReturns, AnswerHolds
  <2>3. AnswerLeaves(h, kind)
    BY <1>1, <1>7 DEF AttachedReturns, Rest
  <2> QED
    BY <2>2, <2>3, ReturnsTracked
<1>8. CASE AttachedFails(h)
  <2>1. AnswerHolds(h, "error")
    BY <1>8 DEF AttachedFails, AnswerHolds
  <2>2. ASSUME NEW t \in Steps
        PROVE  \/ remote'[h][t] = remote[h][t]
               \/ t = step[h] /\ remote[h][t] = "running" /\ remote'[h][t] = "gone"
    BY <1>0, <1>8 DEF AttachedFails, TypeOK, MachineOK
  <2>3. AnswerLeaves(h, "error")
    BY <1>8, <2>2 DEF AttachedFails, AnswerLeaves, run, history
  <2>4. PICK clears \in {FALSE, nulled[h]} : Returns(h, "error", clears)
    BY <1>8 DEF AttachedFails, Throws
  <2> QED
    BY <1>n, <2>1, <2>3, <2>4, ReturnsTracked
<1>9. CASE ConnectTimesOut(h)
  <2>1. AnswerHolds(h, "error")
    BY <1>9 DEF ConnectTimesOut, AnswerHolds
  <2>2. AnswerLeaves(h, "error")
    BY <1>0, <1>9 DEF ConnectTimesOut, AnswerLeaves, run, history, TypeOK, MachineOK
  <2> QED
    BY <1>9, <2>1, <2>2, ReturnsTracked DEF ConnectTimesOut
<1> QED
  BY <1>2, <1>3, <1>4, <1>5, <1>6, <1>7, <1>8, <1>9 DEF ExecEnds

(* stallGuard ends the runOne; the call it gave up on goes on. *)
LEMMA StallsTracked ==
  ASSUME OrderInv, NEW h \in Hosts, Stalls(h)
  PROVE  Tracked(h)' /\ CallStep(h)
<1>0. TypeOK /\ Tracked(h) /\ HostFollowed(h)
  BY DEF OrderInv, FollowInv, TypeInv
<1>1. /\ frame[h] /\ ~frame'[h] /\ ex[h] \notin {"none", "launching", "launched"}
      /\ ex'[h] = ex[h] /\ mine'[h] = 0
      /\ step'[h] = step[h] /\ gaveUp'[h] /\ reapLost'[h] = reapLost[h]
      /\ answer'[h] = answer[h] /\ late'[h] = late[h]
      /\ remote'[h] = remote[h] /\ marker'[h] = marker[h] /\ launches'[h] = launches[h]
      /\ UNCHANGED <<app, owner, phase, queue>>
  BY <1>0 DEF Stalls, FrameEnds, TypeOK, CallsOK, HistoryOK, calls, machine, run
<1>s. PICK s \in Steps : s = step[h]
  BY <1>0, <1>1, AtStep
<1>2. /\ \/ rowState'[h] = "failed" \/ (~Active /\ rowState'[h] = "detached")
         \/ (~Active /\ rowState'[h] = rowState[h])
      /\ rowHandle'[h] \in {0, mine[h], rowHandle[h]}
      /\ \/ Active /\ rowState'[h] = "failed"
            /\ rowHandle'[h] = IF nulled[h] THEN 0 ELSE mine[h]
         \/ ~Active /\ mine[h] # 0 /\ rowHandle'[h] = mine[h]
         \/ ~Active /\ rowHandle'[h] = rowHandle[h]
  BY <1>0, <1>1, SettleRowCases DEF Stalls, TypeOK
<1>3. /\ mine[h] \in Nat /\ rowHandle[h] \in Nat /\ s \in Nat
      /\ mine[h] <= s /\ rowHandle[h] <= s /\ late[h] = 0
      /\ \A t \in Steps : t < s => remote[h][t] = "zero" /\ (~marker[h][t] \/ reapLost[h])
  BY <1>0, <1>1, <1>s, SliceTypes, StepsAssumption DEF Steps, Tracked, CursorOK, Before
<1>4. rowState[h] # "pending" /\ rowState'[h] # "pending"
  BY <1>0, <1>1, <1>2 DEF Tracked, PendingOK
<1>5. PendingOK(h)' /\ RowOK(h)' /\ AnswerOK(h)' /\ OnceOK(h)'
  BY <1>0, <1>1, <1>4 DEF Tracked, PendingOK, RowOK, AnswerOK, OnceOK, Blank
<1>6. CursorOK(h)'
  <2>1. rowHandle'[h] <= s /\ 0 <= s /\ rowHandle'[h] \in Nat
    BY <1>2, <1>3
  <2>2. \A t \in Steps : t < rowHandle'[h] => t < s
    BY <1>3, <2>1 DEF Steps
  <2> QED
    BY <1>1, <1>3, <1>s, <2>1, <2>2 DEF CursorOK, Before
<1>7. RowStep(h)
  <2>1. gaveUp[h] \/ rowState[h] \in {"running", "detached"}
    BY <1>0, <1>1 DEF Tracked, RowOK
  <2>2. /\ Active => rowHandle[h] = mine[h]
        /\ mine[h] = 0 \/ rowHandle[h] <= mine[h]
    BY <1>0, <1>1 DEF Tracked, CursorOK
  <2>3. ASSUME NEW t \in Steps, rowHandle[h] = t, rowHandle'[h] # t
        PROVE  \/ remote[h][t] = "zero"
               \/ nulled[h] /\ rowState'[h] = "failed"
    <3>1. CASE Active
      BY <1>2, <2>2, <2>3, <3>1
    <3>2. CASE ~Active
      <4>1. rowHandle[h] < s
        BY <1>2, <1>3, <2>2, <2>3, <3>2
      <4> QED
        BY <1>3, <2>3, <4>1
    <3> QED
      BY <3>1, <3>2
  <2>4. HandleStep(h)
    BY <1>1, <2>3 DEF HandleStep
  <2> QED
    BY <1>1, <1>2, <1>4, <2>1, <2>4 DEF RowStep, HandleStep, Settled
<1>8. StartStep(h)
  <2>1. launches[h] \in [Steps -> Nat]
    BY <1>0, SliceTypes
  <2> QED
    BY <1>1, <2>1 DEF StartStep
<1> QED
  BY <1>1, <1>4, <1>5, <1>6, <1>7, <1>8 DEF Tracked, CallStep, Reached, Closed

------------------------------------------------------------------------------
(* The machines on their own *)

(* A connection comes up after its timeout: the command it starts is stopped. *)
LEMMA ConnectsLateTracked ==
  ASSUME OrderInv, NEW h \in Hosts, ConnectsLate(h)
  PROVE  Tracked(h)' /\ CallStep(h)
<1>0. TypeOK /\ Tracked(h) /\ HostFollowed(h)
  BY DEF OrderInv, FollowInv, TypeInv
<1>1. /\ late[h] # 0 /\ late'[h] = 0 /\ ex'[h] = ex[h] /\ step'[h] = step[h]
      /\ rowState'[h] = rowState[h] /\ rowHandle'[h] = rowHandle[h] /\ frame'[h] = frame[h]
      /\ mine'[h] = mine[h] /\ answer'[h] = answer[h] /\ gaveUp'[h] = gaveUp[h]
      /\ reapLost'[h] = reapLost[h] /\ marker'[h] = marker[h]
      /\ UNCHANGED <<app, owner, phase, queue>>
  BY <1>0 DEF ConnectsLate, TypeOK, MachineOK, store, frames, calls, history, run
<1>2. late[h] \in Steps
  BY <1>0, <1>1, SliceTypes, StepsAssumption DEF Steps
<1>s. PICK s \in Steps : s = late[h]
  BY <1>2
<1>3. /\ \A t \in Steps : launches[h][t] \in Nat
      /\ rowHandle[h] \in Nat /\ s \in Nat
  BY <1>0, SliceTypes, StepsAssumption DEF Steps
<1>4. /\ remote'[h][s] = "gone" /\ launches'[h][s] = launches[h][s] + 1
      /\ \A t \in Steps : t # s => remote'[h][t] = remote[h][t] /\ launches'[h][t] = launches[h][t]
  BY <1>0, <1>s DEF ConnectsLate, TypeOK, MachineOK
<1>5. /\ \A t \in Steps : t < s => remote[h][t] = "zero" /\ (~marker[h][t] \/ reapLost[h])
      /\ ~frame[h] /\ ex[h] = "none" /\ rowHandle[h] <= s
  BY <1>0, <1>1, <1>s DEF Tracked, CursorOK, Before
<1>6. PendingOK(h)' /\ RowOK(h)' /\ AnswerOK(h)'
  BY <1>0, <1>1, <1>5 DEF Tracked, PendingOK, RowOK, AnswerOK, Active
<1>7. CursorOK(h)'
  <2>1. \A t \in Steps : t < s => remote'[h][t] = "zero" /\ (~marker'[h][t] \/ reapLost'[h])
    BY <1>1, <1>3, <1>4, <1>5 DEF Steps
  <2>2. \A t \in Steps : t < rowHandle[h] => t < s
    BY <1>3, <1>5 DEF Steps
  <2> QED
    BY <1>1, <1>5, <2>1, <2>2 DEF CursorOK, Before
<1>8. OnceOK(h)'
  <2>1. \A t \in Steps : remote'[h][t] = "never" <=> launches'[h][t] = 0
    <3>1. \A t \in Steps : remote[h][t] = "never" <=> launches[h][t] = 0
      BY <1>0 DEF Tracked, OnceOK
    <3>2. remote'[h][s] # "never" /\ launches'[h][s] # 0
      BY <1>3, <1>4
    <3> QED
      BY <1>4, <3>1, <3>2
  <2>2. ASSUME ~reapLost[h]
        PROVE  /\ \A t \in Steps : launches[h][t] <= 1
               /\ \A q, t \in Steps : q < t /\ marker[h][q] => Blank(h, t)
               /\ \A t \in Steps : t >= s => Blank(h, t)
    BY <1>0, <1>1, <1>s, <2>2 DEF Tracked, OnceOK
  <2>3. ASSUME ~reapLost[h]
        PROVE  /\ \A t \in Steps : launches'[h][t] <= 1
               /\ \A t \in Steps : ~marker[h][t]
    <3>1. remote[h][s] = "never"
      BY <1>3, <2>2, <2>3 DEF Blank
    <3>2. launches[h][s] = 0
      BY <1>0, <3>1 DEF Tracked, OnceOK
    <3>3. \A t \in Steps : ~marker[h][t]
      BY <1>3, <1>5, <2>2, <2>3 DEF Blank, Steps
    <3> QED
      BY <1>4, <2>2, <2>3, <3>2, <3>3
  <2> QED
    BY <1>1, <1>5, <2>1, <2>3 DEF OnceOK
<1>9. RowStep(h)
  BY <1>1 DEF RowStep, HandleStep
<1>10. StartStep(h)
  <2>1. ASSUME NEW t \in Steps, launches'[h][t] > launches[h][t]
        PROVE  t = s
    <3>1. launches[h][t] \in Nat /\ (t # s => launches'[h][t] = launches[h][t])
      BY <1>3, <1>4
    <3> QED
      BY <2>1, <3>1
  <2>2. s > 1 => remote[h][s - 1] = "zero"
    BY <1>5, StepsAssumption DEF Steps
  <2> QED
    BY <1>s, <2>1, <2>2 DEF StartStep
<1>11. Reached(h) /\ rowState[h] # "pending"
  BY <1>0, <1>1 DEF Reached, Tracked, PendingOK
<1> QED
  BY <1>1, <1>5, <1>6, <1>7, <1>8, <1>9, <1>10, <1>11 DEF Tracked, CallStep

(* A command ends, with whatever status. *)
LEMMA CommandEndsTracked ==
  ASSUME OrderInv, NEW h \in Hosts, NEW s \in Steps, CommandEnds(h, s)
  PROVE  Tracked(h)' /\ CallStep(h)
<1>0. TypeOK /\ Tracked(h) /\ HostFollowed(h)
  BY DEF OrderInv, FollowInv, TypeInv
<1>1. SameHost(h) /\ mine'[h] = mine[h] /\ late'[h] = late[h] /\ answer'[h] = answer[h]
      /\ marker'[h] = marker[h] /\ launches'[h] = launches[h] /\ reapLost'[h] = reapLost[h]
      /\ UNCHANGED <<app, owner, phase, queue>>
  BY DEF CommandEnds, SameHost, store, frames, calls, history, run
<1>2. /\ remote[h][s] = "running" /\ remote'[h][s] \in {"zero", "nonzero", "gone"}
      /\ \A t \in Steps : t # s => remote'[h][t] = remote[h][t]
  BY <1>0 DEF CommandEnds, TypeOK, MachineOK
<1>3. /\ \A t \in Steps : Blank(h, t) <=> Blank(h, t)'
      /\ \A t \in Steps : remote[h][t] = "never" <=> remote'[h][t] = "never"
      /\ \A t \in Steps : remote[h][t] = "zero" => remote'[h][t] = "zero"
  BY <1>1, <1>2 DEF Blank
<1>4. PendingOK(h)' /\ RowOK(h)'
  BY <1>0, <1>1, <1>3 DEF Tracked, PendingOK, RowOK, SameHost, Active
<1>5. CursorOK(h)'
  BY <1>0, <1>1, <1>3 DEF Tracked, CursorOK, Before, SameHost, Active
<1>6. AnswerOK(h)'
  <2>1. ex[h] # "none" => step[h] \in Steps
    BY <1>0, AtStep
  <2> QED
    BY <1>0, <1>1, <1>2, <1>3, <2>1 DEF Tracked, AnswerOK, SameHost
<1>7. OnceOK(h)'
  <2>1. /\ ex'[h] = ex[h] /\ step'[h] = step[h]
        /\ ex[h] \in {"launching", "connecting"} => step[h] \in Steps
    BY <1>0, <1>1, AtStep DEF SameHost
  <2> QED
    BY <1>0, <1>1, <1>3, <2>1 DEF Tracked, OnceOK
<1>8. RowStep(h) /\ StartStep(h)
  <2>1. launches[h] \in [Steps -> Nat]
    BY <1>0, SliceTypes
  <2> QED
    BY <1>1, <2>1 DEF RowStep, HandleStep, StartStep, SameHost
<1> QED
  BY <1>1, <1>4, <1>5, <1>6, <1>7, <1>8
     DEF Tracked, CallStep, SameHost, Reached, Launched, Closed

------------------------------------------------------------------------------
(* The steps of one host and the rest of the job *)

(* The steps a host, its call and its machine take without the run. *)
HostStep(h) ==
  \/ ExecEnds(h) \/ ExecGoesOn(h) \/ ConnectsLate(h)
  \/ \E s \in Steps : CommandEnds(h, s)

(* What such a step leaves alone: the run, and every other host. *)
LEMMA HostStepFrame ==
  ASSUME TypeOK, NEW h \in Hosts, HostStep(h)
  PROVE  /\ UNCHANGED <<jobState, app, run, passed>>
         /\ \A g \in Hosts \ {h} : SameSlice(g)
<1> USE DEF SameSlice, SameHost, TypeOK, CallsOK, MachineOK, HistoryOK
<1>1. ASSUME NEW kind, NEW clears, Returns(h, kind, clears)
      PROVE  /\ UNCHANGED jobState
             /\ \A g \in Hosts \ {h} :
                  /\ rowState'[g] = rowState[g] /\ rowHandle'[g] = rowHandle[g]
                  /\ frame'[g] = frame[g] /\ ex'[g] = ex[g] /\ step'[g] = step[g]
                  /\ mine'[g] = mine[g] /\ answer'[g] = answer[g]
  <2>1. CASE CallEnds(h) /\ UNCHANGED <<store, frame, mine, nulled>>
    BY <2>1 DEF CallEnds, store
  <2>2. CASE /\ step' = [step EXCEPT ![h] = @ + 1]
             /\ answer' = [answer EXCEPT ![h] = "none"]
             /\ Enter(h) /\ UNCHANGED <<store, frame, mine>>
    BY <2>2 DEF Enter, store
  <2>3. CASE /\ SettleRow(h, Verdict(kind), IF clears THEN 0 ELSE mine[h])
             /\ FrameEnds(h) /\ CallEnds(h)
    <3>1. /\ UNCHANGED jobState
          /\ \A g \in Hosts \ {h} : rowState'[g] = rowState[g] /\ rowHandle'[g] = rowHandle[g]
      BY <2>3, SettleRowAt, VerdictSettles
    <3> QED
      BY <2>3, <3>1 DEF FrameEnds, CallEnds
  <2> QED
    BY <1>1, <2>1, <2>2, <2>3 DEF Returns
<1>2. ASSUME NEW kind, NEW clears, Returns(h, kind, clears),
             UNCHANGED <<app, run, machine, history, crashes>>
      PROVE  /\ UNCHANGED <<jobState, app, run, passed>>
             /\ \A g \in Hosts \ {h} : SameSlice(g)
  BY <1>1, <1>2 DEF machine, history
<1>3. CASE LaunchFails(h) \/ WatchStops(h) \/ PollDeadline(h) \/ PollMissing(h) \/ ReapReply(h)
           \/ AttachedReturns(h)
  BY <1>2, <1>3 DEF LaunchFails, WatchStops, PollDeadline, PollMissing, ReapReply,
                    AttachedReturns, Throws
<1>4. CASE AttachedFails(h)
  <2>1. /\ Returns(h, "error", FALSE) \/ Returns(h, "error", nulled[h])
        /\ UNCHANGED <<app, run, marker, launches, late, history>>
    BY <1>4 DEF AttachedFails, Throws
  <2>2. \A g \in Hosts \ {h} : remote'[g] = remote[g]
    BY <1>4 DEF AttachedFails
  <2> QED
    BY <1>1, <2>1, <2>2 DEF history
<1>5. CASE ConnectTimesOut(h)
  <2>1. Returns(h, "error", FALSE) /\ UNCHANGED <<app, run, remote, marker, launches, history>>
    BY <1>5 DEF ConnectTimesOut
  <2>2. \A g \in Hosts \ {h} : late'[g] = late[g]
    BY <1>5 DEF ConnectTimesOut
  <2> QED
    BY <1>1, <2>1, <2>2 DEF history
<1>6. CASE Stalls(h)
  <2>1. /\ UNCHANGED jobState
        /\ \A g \in Hosts \ {h} : rowState'[g] = rowState[g] /\ rowHandle'[g] = rowHandle[g]
    <3>1. "failed" \in Settled
      BY DEF Settled
    <3> QED
      BY <1>6, <3>1, SettleRowAt DEF Stalls
  <2> QED
    BY <1>6, <2>1 DEF Stalls, FrameEnds, calls, machine
<1>7. CASE LaunchReply(h) \/ Degrade(h)
  <2>1. /\ UNCHANGED jobState
        /\ \A g \in Hosts \ {h} : rowState'[g] = rowState[g] /\ rowHandle'[g] = rowHandle[g]
    BY <1>7, ApplyUpdateAt DEF LaunchReply, Degrade
  <2> QED
    BY <1>7, <2>1 DEF LaunchReply, Degrade, machine, history
<1>8. ASSUME NEW what, NEW st, Say(h, what, st)
      PROVE  /\ UNCHANGED <<jobState, app, run, passed>>
             /\ \A g \in Hosts \ {h} : SameSlice(g)
  <2>1. /\ UNCHANGED jobState
        /\ \A g \in Hosts \ {h} : rowState'[g] = rowState[g] /\ rowHandle'[g] = rowHandle[g]
    BY <1>8, ApplyUpdateAt DEF Say
  <2> QED
    BY <1>8, <2>1 DEF Say, frames, machine, history
<1>9. CASE Parks(h) \/ PollFails(h) \/ PollRunning(h)
  BY <1>8, <1>9 DEF Parks, PollFails, PollRunning
<1>10. CASE PollOutput(h)
  <2>1. /\ UNCHANGED jobState
        /\ \A g \in Hosts \ {h} : rowState'[g] = rowState[g] /\ rowHandle'[g] = rowHandle[g]
    BY <1>10, WriteRowAt DEF PollOutput, WriteRow
  <2> QED
    BY <1>10, <2>1 DEF PollOutput, frames, calls, machine, history
<1>11. CASE PollFinished(h) \/ PollGone(h) \/ PollNoPid(h)
  BY <1>11 DEF PollFinished, PollGone, PollNoPid, Reaps, store, frames, machine, history
<1>12. CASE ReapRuns(h) \/ ReapFails(h)
  BY <1>12 DEF ReapRuns, ReapFails, store, frames, machine, history
<1>13. CASE LaunchRuns(h)
  BY <1>13 DEF LaunchRuns, store, frames, history
<1>14. CASE AttachedRuns(h)
  BY <1>14 DEF AttachedRuns, store, frames, history
<1>17. CASE SlowWrapper(h)
  BY <1>17 DEF SlowWrapper, store, frames, calls
<1>15. CASE ConnectsLate(h)
  BY <1>15 DEF ConnectsLate, store, frames, calls, history
<1>16. ASSUME NEW s \in Steps, CommandEnds(h, s)
       PROVE  /\ UNCHANGED <<jobState, app, run, passed>>
              /\ \A g \in Hosts \ {h} : SameSlice(g)
  BY <1>16 DEF CommandEnds, store, frames, calls, history
<1> QED
  BY <1>3, <1>4, <1>5, <1>6, <1>7, <1>9, <1>10, <1>11, <1>12, <1>13, <1>14, <1>15, <1>16, <1>17
     DEF HostStep, ExecEnds, ExecGoesOn

(* Every host keeps its part of the invariant, and moves as a call may move it. *)
LEMMA HostStepTracked ==
  ASSUME OrderInv, NEW h \in Hosts, HostStep(h)
  PROVE  \A g \in Hosts : Tracked(g)' /\ CallStep(g)
<1>0. TypeOK /\ \A g \in Hosts : Tracked(g)
  BY DEF OrderInv, FollowInv, TypeInv
<1>1. Tracked(h)' /\ CallStep(h)
  <2>1. CASE Stalls(h)
    BY <2>1, StallsTracked
  <2>2. CASE ExecEnds(h) /\ ~Stalls(h)
    BY <2>2, CallEndTracked
  <2>3. CASE ExecGoesOn(h)
    <3>1. CASE Parks(h) \/ PollFails(h) \/ PollRunning(h)
      <4>1. \E what \in {"parked", "unreachable", "running"}, st \in {"running", "detached"} :
              Say(h, what, st)
        BY <3>1 DEF Parks, PollFails, PollRunning
      <4> QED
        BY <4>1, SayTracked
    <3> QED
      BY <2>3, <3>1, LaunchRunsTracked, LaunchReplyTracked, PollOutputTracked, ReapsTracked,
         SlowWrapperTracked, ReapRunsTracked, ReapFailsTracked, DegradeTracked, AttachedRunsTracked DEF ExecGoesOn
  <2> QED
    BY <2>1, <2>2, <2>3, ConnectsLateTracked, CommandEndsTracked DEF HostStep
<1>2. ASSUME NEW g \in Hosts, g # h PROVE Tracked(g)' /\ CallStep(g)
  <2>1. SameSlice(g) /\ UNCHANGED <<app, owner, phase, queue>>
    BY <1>0, <1>2, HostStepFrame DEF run
  <2> QED
    BY <1>0, <2>1, OtherTracked, OtherStep
<1> QED
  BY <1>1, <1>2

(* A host that has its verdict, or was given up on, stays closed. *)
LEMMA StaysClosed ==
  ASSUME NEW g \in Hosts, RowStep(g), Closed(g)
  PROVE  Closed(g)'
  BY DEF RowStep, HandleStep, Closed

(* Nothing a host does by itself disturbs the waves or the end of the job. *)
LEMMA HostStepOrder ==
  ASSUME OrderInv, NEW h \in Hosts, HostStep(h)
  PROVE  (\A g \in Hosts : Tracked(g)') /\ WaveInv' /\ ClosedInv'
<1>0. TypeOK /\ WaveInv /\ ClosedInv
  BY DEF OrderInv, FollowInv, TypeInv
<1>1. \A g \in Hosts : Tracked(g)' /\ CallStep(g)
  BY HostStepTracked
<1>2. UNCHANGED <<jobState, app, owner, cancelled, disposed, phase, wave, queue, passed>>
  BY <1>0, HostStepFrame DEF run
<1>3. \A g \in Hosts : Closed(g) => Closed(g)'
  BY <1>1, StaysClosed DEF CallStep
<1>4. \A g \in Hosts : Reached(g)' => InTurn(g)'
  BY <1>0, <1>1, <1>2, <1>3 DEF WaveInv, InTurn, CallStep
<1>5. \A g \in Hosts : frame[g] /\ Active => frame'[g] \/ Closed(g)'
  BY <1>1 DEF CallStep
<1>6. \A g \in Hosts : rowState[g] = "pending" => rowState'[g] = "pending"
  BY <1>1 DEF CallStep
<1>7. WaveInv'
  BY <1>0, <1>2, <1>3, <1>4, <1>5, <1>6 DEF WaveInv, Ahead, Active
<1>8. \A g \in Hosts : frame'[g] => frame[g]
  BY <1>1 DEF CallStep
<1>9. ClosedInv'
  BY <1>0, <1>2, <1>3, <1>6, <1>8 DEF ClosedInv, Active
<1> QED
  BY <1>1, <1>7, <1>9

------------------------------------------------------------------------------
(* A worker takes a host *)

(* What a step of the run or of the process may do to a host. *)
RunStepOn(h) == RowStep(h) /\ StartStep(h)

(* A host on which nothing happens moves as any step may move it. *)
LEMMA OtherRunStep ==
  ASSUME NEW g \in Hosts, TypeOK, SameSlice(g)
  PROVE  RunStepOn(g) /\ (Reached(g)' => Reached(g)) /\ (Closed(g) => Closed(g)')
  BY OtherStep DEF RunStepOn, CallStep, RowStep, Closed

(* The waves after a worker took a host: closed for good, or at work. *)
LEMMA TakenInTurn ==
  ASSUME WaveInv, NEW h \in Hosts,
         UNCHANGED <<owner, cancelled, phase, wave, passed>>, queue' = queue \ {h},
         \A g \in Hosts \ {h} : SameSlice(g) /\ (Reached(g)' => Reached(g)),
         Closed(h) => Closed(h)', frame'[h] \/ Closed(h)', WaveOf[h] <= wave \/ owner # "run",
         h \in queue, owner # "none", phase = "wave",
         Reached(h)' => InTurn(h)
  PROVE  WaveInv'
<1>1. \A g \in Hosts : Closed(g) => Closed(g)'
  BY DEF SameSlice, SameHost, Closed
<1>2. \A g \in Hosts : Reached(g)' => InTurn(g)'
  BY <1>1 DEF WaveInv, InTurn
<1>3. owner = "run" => ~Ahead(h)
  BY WavesAssumption DEF WaveInv, Ahead
<1> QED
  BY <1>1, <1>2, <1>3 DEF WaveInv, Ahead, Active, SameSlice, SameHost

(* A worker takes a host of the wave the run is at, or of a reclaim. *)
LEMMA TakeStepOrder ==
  ASSUME OrderInv, NEW h \in Hosts, TakeStep(h)
  PROVE  /\ \A g \in Hosts : Tracked(g)' /\ RunStepOn(g)
         /\ WaveInv' /\ ClosedInv'
<1>0. TypeOK /\ WaveInv /\ OwnerOK /\ Tracked(h) /\ HostFollowed(h)
  BY DEF OrderInv, FollowInv, TypeInv
<1>1. /\ UNCHANGED <<app, owner, cancelled, disposed, phase, wave, machine, history>>
      /\ queue' = queue \ {h} /\ h \in queue /\ phase = "wave" /\ Active
      /\ UNCHANGED <<jobState, passed>>
  BY DEF TakeStep, TakeCancelled, TakeFresh, TakeReclaimed, TakeUnknown, CanTake, WriteRow,
         store, history
<1>2. \A g \in Hosts \ {h} : SameSlice(g)
  <2> USE <1>0 DEF SameSlice, SameHost, machine, history, TypeOK, RowsOK, CallsOK
  <2>1. CASE TakeCancelled(h) \/ TakeUnknown(h)
    BY <2>1 DEF TakeCancelled, TakeUnknown, WriteRow, frames, calls
  <2>2. CASE TakeFresh(h)
    BY <2>2 DEF TakeFresh, WriteRow, Enter
  <2>3. CASE TakeReclaimed(h)
    BY <2>3 DEF TakeReclaimed, store
  <2> QED
    BY <2>1, <2>2, <2>3 DEF TakeStep
<1>3. \A g \in Hosts \ {h} : Tracked(g)' /\ RunStepOn(g) /\ (Reached(g)' => Reached(g))
  <2>1. ASSUME NEW g \in Hosts \ {h} PROVE Tracked(g)'
    <3>1. Tracked(g) /\ (g \in queue' <=> g \in queue)
      BY <1>1 DEF OrderInv
    <3> QED
      BY <1>1, <1>2, <3>1, OtherTracked
  <2> QED
    BY <1>0, <1>2, <2>1, OtherRunStep
<1>4. /\ ~frame[h] /\ ex[h] = "none" /\ late[h] = 0
      /\ owner = "run" => rowState[h] = "pending"
      /\ owner = "reclaim" => rowState[h] \in {"running", "detached"}
      /\ late'[h] = late[h] /\ remote'[h] = remote[h] /\ marker'[h] = marker[h]
      /\ launches'[h] = launches[h] /\ gaveUp'[h] = gaveUp[h] /\ reapLost'[h] = reapLost[h]
  BY <1>0, <1>1 DEF Tracked, RowOK, HostFollowed, machine, history
<1>5. owner = "run" => WaveOf[h] = wave
  BY <1>0, <1>1 DEF WaveInv
<1>6. launches[h] \in [Steps -> Nat] /\ wave \in Nat /\ WaveOf[h] \in Nat
  BY <1>0, SliceTypes, WavesAssumption DEF TypeOK, RunOK
<1>7. ClosedInv'
  BY <1>0, <1>1 DEF OwnerOK, ClosedInv, Finished
<1>8. StartStep(h)
  BY <1>4, <1>6 DEF StartStep
<1>9. rowState[h] \notin Settled
  BY <1>1, <1>4, <1>0 DEF Settled, Active, TypeOK, RunOK
<1>10. CASE TakeCancelled(h) \/ TakeUnknown(h)
  <2>1. /\ rowState'[h] \in {"skipped", "orphaned"} /\ rowHandle'[h] = rowHandle[h]
        /\ rowState'[h] = "skipped" => TakeCancelled(h)
        /\ frame'[h] = frame[h] /\ ex'[h] = ex[h] /\ step'[h] = step[h] /\ mine'[h] = mine[h]
        /\ answer'[h] = answer[h]
    BY <1>0, <1>10, WriteRowAt DEF TakeCancelled, TakeUnknown, TypeOK, frames, calls
  <2>2. Tracked(h)'
    BY <1>0, <1>1, <1>4, <2>1
       DEF Tracked, PendingOK, RowOK, CursorOK, AnswerOK, OnceOK, Before, Blank
  <2>3. RowStep(h)
    BY <1>0, <1>1, <1>4, <1>9, <2>1 DEF RowStep, HandleStep, Active, TypeOK, RunOK
  <2>4. Closed(h)' /\ (Reached(h)' => Reached(h))
    BY <1>4, <2>1 DEF Closed, Settled, Reached, Launched
  <2>5. Reached(h)' => InTurn(h)
    BY <1>0, <2>4 DEF WaveInv
  <2>6. WaveInv'
    BY <1>0, <1>1, <1>2, <1>3, <1>5, <1>6, <2>4, <2>5, TakenInTurn DEF Active
  <2> QED
    BY <1>3, <1>7, <1>8, <2>2, <2>3, <2>6 DEF RunStepOn
<1>11. CASE TakeFresh(h)
  <2>1. /\ rowState'[h] = "running" /\ rowHandle'[h] = rowHandle[h]
        /\ frame'[h] /\ ex'[h] \in {"launching", "connecting"} /\ step'[h] = 1 /\ mine'[h] = 0
        /\ answer'[h] = answer[h] /\ owner = "run" /\ ~cancelled
    BY <1>0, <1>11, WriteRowAt DEF TakeFresh, Enter, TypeOK, CallsOK
  <2>2. rowState[h] = "pending" /\ rowHandle[h] = 0 /\ ~gaveUp[h]
        /\ \A t \in Steps : Blank(h, t)
    BY <1>0, <1>4, <2>1 DEF Tracked, PendingOK
  <2>3. 1 \in Steps /\ \A t \in Steps : ~(t < 1)
    BY StepsAssumption DEF Steps
  <2>4. PendingOK(h)' /\ RowOK(h)'
    BY <1>0, <1>1, <1>4, <2>1 DEF PendingOK, RowOK, Tracked
  <2>5. CursorOK(h)'
    BY <1>4, <2>1, <2>2, <2>3 DEF CursorOK, Before
  <2>6. AnswerOK(h)' /\ OnceOK(h)'
    BY <1>0, <1>4, <2>1, <2>2, <2>3 DEF Tracked, AnswerOK, OnceOK, Blank
  <2>7. RowStep(h)
    BY <1>4, <1>9, <2>1 DEF RowStep, HandleStep
  <2>8. InTurn(h)
    <3>1. \A g \in Hosts : WaveOf[g] < WaveOf[h] => Closed(g)
      BY <1>0, <1>5, <2>1 DEF WaveInv
    <3>2. Gated => \A w \in 1..(WaveOf[h] - 1) : w \in passed
      BY <1>0, <1>5, <2>1 DEF WaveInv
    <3> QED
      BY <3>1, <3>2 DEF InTurn
  <2>9. Closed(h) => Closed(h)'
    BY <2>2 DEF Closed, Settled
  <2>10. WaveInv'
    BY <1>0, <1>1, <1>2, <1>3, <1>5, <1>6, <2>1, <2>8, <2>9, TakenInTurn DEF Active
  <2> QED
    BY <1>3, <1>7, <1>8, <2>4, <2>5, <2>6, <2>7, <2>10 DEF RunStepOn, Tracked
<1>12. CASE TakeReclaimed(h)
  <2>1. /\ rowState'[h] = rowState[h] /\ rowHandle'[h] = rowHandle[h]
        /\ frame'[h] /\ ex'[h] = "watching" /\ step'[h] = rowHandle[h] /\ mine'[h] = rowHandle[h]
        /\ answer'[h] = answer[h] /\ owner = "reclaim"
    BY <1>0, <1>12 DEF TakeReclaimed, TypeOK, CallsOK, store
  <2>2. rowHandle[h] # 0 /\ rowState[h] \in {"running", "detached"} /\ rowHandle[h] \in Nat
    BY <1>0, <1>1, <1>4, <2>1, SliceTypes, StepsAssumption DEF HostFollowed
  <2>3. PendingOK(h)' /\ RowOK(h)' /\ AnswerOK(h)'
    BY <1>0, <1>1, <1>4, <2>1, <2>2 DEF PendingOK, RowOK, AnswerOK, Tracked
  <2>4. CursorOK(h)'
    BY <1>0, <1>4, <2>1, <2>2 DEF Tracked, CursorOK, Before
  <2>5. OnceOK(h)'
    BY <1>0, <1>4, <2>1 DEF Tracked, OnceOK, Blank
  <2>6. RowStep(h)
    BY <1>4, <2>1 DEF RowStep, HandleStep
  <2>7. InTurn(h)
    BY <1>0, <2>2 DEF WaveInv, Reached
  <2>8. Closed(h) => Closed(h)'
    BY <1>4, <2>1 DEF Closed
  <2>9. WaveInv'
    BY <1>0, <1>1, <1>2, <1>3, <1>5, <1>6, <2>1, <2>7, <2>8, TakenInTurn DEF Active
  <2> QED
    BY <1>3, <1>7, <1>8, <2>3, <2>4, <2>5, <2>6, <2>9 DEF RunStepOn, Tracked
<1> QED
  BY <1>10, <1>11, <1>12 DEF TakeStep

------------------------------------------------------------------------------
(* The run, its gate and its waves *)

(* A step that leaves a host alone but may change who owns the job, and the queue. *)
LEMMA OwnedTracked ==
  ASSUME NEW g \in Hosts, Tracked(g), SameSlice(g),
         app' # "up" => app # "up",
         Active' => Active \/ ~frame[g],
         g \in queue' =>
           /\ ex[g] = "none" /\ late[g] = 0 /\ Active' /\ phase' = "wave"
           /\ owner' = "run" => rowState[g] = "pending"
           /\ owner' = "reclaim" => rowState[g] \in {"running", "detached"}
  PROVE  Tracked(g)'
<1> USE DEF SameSlice, SameHost
<1>1. PendingOK(g)' /\ AnswerOK(g)' /\ OnceOK(g)'
  BY DEF Tracked, PendingOK, AnswerOK, OnceOK, Blank
<1>2. RowOK(g)'
  BY DEF Tracked, RowOK
<1>3. CursorOK(g)'
  BY DEF Tracked, CursorOK, Before
<1> QED
  BY <1>1, <1>2, <1>3 DEF Tracked

(* The row of a host the run has not entered is untouched by the machine too. *)
LEMMA PendingQuiet ==
  ASSUME OrderInv, NEW g \in Hosts, rowState[g] = "pending"
  PROVE  ~frame[g] /\ ex[g] = "none" /\ late[g] = 0 /\ ~Reached(g)
<1>1. Tracked(g) /\ TypeOK
  BY DEF OrderInv, FollowInv, TypeInv
<1>2. ~frame[g] /\ ex[g] = "none" /\ late[g] = 0 /\ rowHandle[g] = 0
      /\ \A s \in Steps : launches[g][s] = 0
  BY <1>1 DEF Tracked, PendingOK, OnceOK, Blank
<1> QED
  BY <1>2 DEF Reached, Launched

(* The next wave starts when the one before has ended. *)
LEMMA NextWave ==
  ASSUME OrderInv, owner = "run", StartWave(wave + 1), wave \in 1..(NWaves - 1),
         UNCHANGED <<store, app, owner, cancelled, disposed, frames, calls, machine,
                     gaveUp, reapLost>>,
         \A g \in Hosts : ~frame[g] /\ g \notin queue,
         passed \subseteq passed',
         Gated /\ ~cancelled => wave \in passed'
  PROVE  (\A g \in Hosts : Tracked(g)') /\ WaveInv' /\ ClosedInv'
<1>0. TypeOK /\ WaveInv /\ OwnerOK /\ \A g \in Hosts : Tracked(g)
  BY DEF OrderInv, FollowInv, TypeInv
<1>1. \A g \in Hosts : SameSlice(g)
  BY DEF SameSlice, SameHost, store, frames, calls, machine
<1>2. /\ wave \in Nat /\ \A g \in Hosts : WaveOf[g] \in Nat
      /\ wave' = wave + 1 /\ phase' = "wave" /\ queue' = WaveHosts(wave + 1)
  BY WavesAssumption DEF StartWave
<1>3. \A g \in Hosts : g \in queue' <=> WaveOf[g] = wave + 1
  BY <1>2 DEF WaveHosts
<1>4. \A g \in Hosts : Ahead(g) => rowState[g] = "pending"
  BY <1>0 DEF WaveInv
<1>5. \A g \in Hosts : g \in queue' => rowState[g] = "pending"
  BY <1>2, <1>3, <1>4 DEF Ahead
<1>6. \A g \in Hosts : Tracked(g)'
  BY <1>0, <1>1, <1>2, <1>5, OwnedTracked, PendingQuiet DEF Active
<1>7. \A g \in Hosts : WaveOf[g] <= wave => Closed(g)
  BY <1>0, <1>2 DEF WaveInv, Active, Ahead
<1>8. WaveInv'
  <2>1. \A g \in Hosts : (Reached(g)' => Reached(g)) /\ (Closed(g) => Closed(g)')
    BY <1>0, <1>1, OtherRunStep
  <2>2. \A g \in Hosts : Reached(g)' => InTurn(g)'
    BY <1>0, <2>1 DEF WaveInv, InTurn
  <2>3. \A g \in Hosts : Ahead(g)' => rowState'[g] = "pending"
    BY <1>1, <1>2, <1>4 DEF Ahead, SameSlice, SameHost
  <2>4. \A g \in Hosts : WaveOf[g] < wave' => Closed(g)'
    BY <1>2, <1>7, <2>1
  <2>5. \A g \in Hosts : g \in queue' \/ Closed(g)' \/ Ahead(g)'
    BY <1>2, <1>3, <1>7, <2>1 DEF Ahead
  <2>6. ~cancelled /\ Gated => \A w \in 1..(wave' - 1) : w \in passed'
    BY <1>0, <1>2 DEF WaveInv
  <2>7. \A g \in queue' : WaveOf[g] = wave'
    BY <1>2 DEF WaveHosts
  <2> QED
    BY <2>2, <2>3, <2>4, <2>5, <2>6, <2>7 DEF WaveInv
<1>9. ClosedInv'
  BY <1>0 DEF OwnerOK, ClosedInv, Active, Finished, store
<1> QED
  BY <1>6, <1>8, <1>9

(* run, cancel, dispose, and what happens between two waves. *)
LEMMA RunStepOrder ==
  ASSUME OrderInv, RunStep
  PROVE  /\ \A g \in Hosts : Tracked(g)' /\ RunStepOn(g)
         /\ WaveInv' /\ ClosedInv'
<1>0. /\ TypeOK /\ WaveInv /\ ClosedInv /\ OwnerOK /\ WaveOK
      /\ \A g \in Hosts : Tracked(g) /\ HostFollowed(g)
  BY DEF OrderInv, FollowInv, TypeInv
<1>w. wave \in Nat /\ NWaves \in Nat \ {0} /\ \A g \in Hosts : WaveOf[g] \in 1..NWaves
  BY <1>0, WavesAssumption DEF TypeOK, RunOK
<1>1. ASSUME ~GateHalt
      PROVE  /\ \A g \in Hosts : SameSlice(g) /\ RunStepOn(g)
             /\ \A g \in Hosts : (Reached(g)' => Reached(g)) /\ (Closed(g) => Closed(g)')
  <2>1. ASSUME NEW g \in Hosts PROVE SameSlice(g)
    BY <1>1 DEF RunStep, Run, Cancel, DisposeAll, EndJob, EndWave, GateCancelled, GateAsks,
       GatePass, GateStale, store, frames, calls, machine, history, SameSlice, SameHost
  <2> QED
    BY <1>0, <2>1, OtherRunStep
<1>2. CASE Run
  <2>1. /\ jobState = "absent" /\ owner' = "run" /\ phase' = "wave" /\ wave' = 1
        /\ queue' = WaveHosts(1) /\ UNCHANGED <<app, passed>> /\ jobState' = "running"
    BY <1>2 DEF Run, history
  <2>2. ~GateHalt
    BY <1>0, <2>1 DEF GateHalt, Evaluating, OwnerOK
  <2>3. \A g \in Hosts : rowState[g] = "pending" /\ ~frame[g] /\ ex[g] = "none" /\ late[g] = 0
                         /\ ~Reached(g)
    BY <1>0, <2>1, PendingQuiet DEF HostFollowed
  <2>4. \A g \in Hosts : Tracked(g)'
    BY <1>0, <1>1, <2>1, <2>2, <2>3, OwnedTracked DEF Active
  <2>5. \A g \in Hosts : WaveOf[g] = 1 \/ WaveOf[g] > 1
    BY <1>w
  <2>6. \A g \in Hosts : g \in queue' \/ Ahead(g)'
    BY <2>1, <2>5 DEF WaveHosts, Ahead
  <2>7. \A g \in Hosts : rowState'[g] = "pending" /\ ~Reached(g)'
    BY <1>1, <2>2, <2>3 DEF SameSlice, SameHost
  <2>8. WaveInv'
    BY <1>w, <2>1, <2>6, <2>7 DEF WaveInv, WaveHosts
  <2>9. ClosedInv'
    BY <2>1 DEF ClosedInv, Finished
  <2> QED
    BY <1>1, <2>2, <2>4, <2>8, <2>9
<1>3. CASE Cancel
  <2>1. UNCHANGED <<app, owner, disposed, phase, wave, queue, jobState, passed>> /\ cancelled'
        /\ Active
    BY <1>3 DEF Cancel, history
  <2>2. \A g \in Hosts : SameSlice(g) /\ RunStepOn(g) /\ (Reached(g)' => Reached(g))
                         /\ (Closed(g) => Closed(g)')
    <3>1. \A g \in Hosts : SameSlice(g)
      BY <1>3 DEF Cancel, SameSlice, SameHost, frames, calls, machine, history
    <3> QED
      BY <1>0, <3>1, OtherRunStep
  <2>3. \A g \in Hosts : Tracked(g)'
    BY <1>0, <2>1, <2>2, OtherTracked
  <2>4. \A g \in Hosts : Reached(g)' => InTurn(g)'
    BY <1>0, <2>1, <2>2 DEF WaveInv, InTurn
  <2>5. WaveInv'
    BY <1>0, <2>1, <2>2, <2>4 DEF WaveInv, Ahead, Active, SameSlice, SameHost
  <2>6. ClosedInv'
    BY <1>0, <2>1 DEF ClosedInv, OwnerOK, Finished
  <2> QED
    BY <2>2, <2>3, <2>5, <2>6
<1>4. CASE DisposeAll
  <2>1. /\ UNCHANGED <<app, wave, jobState, passed>> /\ owner' = "none" /\ queue' = {} /\ Active
        /\ phase' = "asking" => phase = "asking"
    BY <1>4 DEF DisposeAll, store, history
  <2>2. \A g \in Hosts : SameSlice(g) /\ RunStepOn(g) /\ (Reached(g)' => Reached(g))
                         /\ (Closed(g) => Closed(g)')
    <3>1. \A g \in Hosts : SameSlice(g)
      BY <1>4 DEF DisposeAll, SameSlice, SameHost, store, frames, calls, machine, history
    <3> QED
      BY <1>0, <3>1, OtherRunStep
  <2>3. \A g \in Hosts : Tracked(g)'
    BY <1>0, <2>1, <2>2, OwnedTracked DEF Active
  <2>4. \A g \in Hosts : Reached(g)' => InTurn(g)'
    BY <1>0, <2>1, <2>2 DEF WaveInv, InTurn
  <2>5. WaveInv'
    BY <1>0, <2>1, <2>2, <2>4 DEF WaveInv, Ahead, Active, SameSlice, SameHost
  <2>6. ClosedInv'
    BY <1>0, <2>1 DEF ClosedInv, OwnerOK, Finished
  <2> QED
    BY <2>2, <2>3, <2>5, <2>6
<1>5. CASE EndJob
  <2>1. /\ Active /\ phase = "wave" /\ queue = {} /\ LastWave /\ \A g \in Hosts : ~frame[g]
        /\ owner' = "none" /\ phase' = "idle" /\ queue' = {} /\ UNCHANGED <<app, disposed, passed, wave>>
        /\ jobState' = IF cancelled THEN "cancelled" ELSE "done"
    BY <1>5 DEF EndJob, WaveOver, Busy, Finally, history
  <2>2. \A g \in Hosts : SameSlice(g) /\ RunStepOn(g) /\ (Reached(g)' => Reached(g))
                         /\ (Closed(g) => Closed(g)')
    <3>1. \A g \in Hosts : SameSlice(g)
      BY <1>5 DEF EndJob, SameSlice, SameHost, frames, calls, machine, history
    <3> QED
      BY <1>0, <3>1, OtherRunStep
  <2>3. \A g \in Hosts : Tracked(g)'
    BY <1>0, <2>1, <2>2, OwnedTracked DEF Active
  <2>4. \A g \in Hosts : Reached(g)' => InTurn(g)'
    BY <1>0, <2>1, <2>2 DEF WaveInv, InTurn
  <2>5. WaveInv'
    BY <2>1, <2>4 DEF WaveInv, Active
  <2>6. \A g \in Hosts : Closed(g) \/ (rowState[g] = "pending" /\ cancelled /\ WaveOf[g] > 1)
    <3>1. \A g \in Hosts : Closed(g) \/ (owner = "run" /\ Ahead(g) /\ rowState[g] = "pending")
      BY <1>0, <2>1 DEF WaveInv
    <3>2. owner = "run" => wave # 0
      BY <1>0 DEF WaveOK
    <3> QED
      BY <1>w, <2>1, <3>1, <3>2 DEF Ahead, LastWave
  <2>7. ClosedInv'
    <3>1. \A g \in Hosts : ~frame'[g] /\ rowState'[g] = rowState[g]
      BY <2>1, <2>2 DEF SameSlice, SameHost
    <3>2. ~disposed' /\ ~Active'
      BY <1>0, <2>1 DEF OwnerOK, Active
    <3> QED
      BY <2>1, <2>2, <2>6, <3>1, <3>2 DEF ClosedInv
  <2> QED
    BY <2>2, <2>3, <2>5, <2>7
<1>6. CASE EndWave
  <2>1. /\ owner = "run" /\ wave \in 1..(NWaves - 1) /\ phase = "wave" /\ Active
        /\ \A g \in Hosts : ~frame[g] /\ g \notin queue
        /\ UNCHANGED <<store, app, owner, cancelled, disposed, frames, calls, machine, history>>
    BY <1>0, <1>6, <1>w DEF EndWave, WaveOver, LastWave, Busy, Active, WaveOK, TypeOK, RunOK
  <2>2. \A g \in Hosts : SameSlice(g) /\ RunStepOn(g) /\ (Reached(g)' => Reached(g))
                         /\ (Closed(g) => Closed(g)')
    <3>1. \A g \in Hosts : SameSlice(g)
      BY <2>1 DEF SameSlice, SameHost, store, frames, calls, machine, history
    <3> QED
      BY <1>0, <3>1, OtherRunStep
  <2>3. CASE ~Gated
    <3>1. StartWave(wave + 1)
      BY <1>6, <2>3 DEF EndWave
    <3> QED
      BY <2>1, <2>2, <2>3, <3>1, NextWave DEF history
  <2>4. CASE Gated
    <3>1. phase' = "gate" /\ UNCHANGED <<wave, queue, passed, jobState>>
      BY <1>6, <2>1, <2>4 DEF EndWave, store, history
    <3>2. \A g \in Hosts : Tracked(g)'
      BY <1>0, <2>1, <2>2, <3>1, OwnedTracked DEF Active
    <3>3. \A g \in Hosts : Reached(g)' => InTurn(g)'
      BY <1>0, <2>1, <2>2, <3>1 DEF WaveInv, InTurn
    <3>4. WaveInv'
      BY <1>0, <2>1, <2>2, <3>1, <3>3 DEF WaveInv, Ahead, Active, SameSlice, SameHost
    <3>5. ClosedInv'
      BY <1>0, <2>1, <3>1 DEF ClosedInv, OwnerOK, Finished
    <3> QED
      BY <2>2, <3>2, <3>4, <3>5
  <2> QED
    BY <2>3, <2>4
<1>g. phase \in {"gate", "asking"} /\ Active =>
        /\ owner = "run" /\ wave \in 1..(NWaves - 1)
        /\ \A g \in Hosts : ~frame[g] /\ g \notin queue
  <2>1. phase \in {"gate", "asking"} /\ Active => owner = "run"
    BY <1>0 DEF OwnerOK, Active, TypeOK, RunOK
  <2> QED
    BY <1>0, <2>1 DEF HostFollowed, WaveOK
<1>7. CASE GateCancelled
  <2>1. /\ phase = "gate" /\ Active /\ cancelled /\ StartWave(wave + 1)
        /\ UNCHANGED <<store, app, owner, cancelled, disposed, frames, calls, machine, history>>
    BY <1>7 DEF GateCancelled
  <2>2. \A g \in Hosts : RunStepOn(g)
    <3>1. \A g \in Hosts : SameSlice(g)
      BY <2>1 DEF SameSlice, SameHost, store, frames, calls, machine, history
    <3> QED
      BY <1>0, <3>1, OtherRunStep
  <2> QED
    BY <1>g, <2>1, <2>2, NextWave DEF history
<1>8. CASE GateAsks \/ GateStale
  <2>1. /\ phase \in {"gate", "asking"}
        /\ UNCHANGED <<store, app, owner, cancelled, disposed, wave, queue, frames, calls, machine,
                       history>>
        /\ Active => phase' # "idle" /\ phase' \in {"gate", "asking"}
        /\ ~Active => phase' = "idle"
    BY <1>8 DEF GateAsks, GateStale
  <2>2. \A g \in Hosts : SameSlice(g) /\ RunStepOn(g) /\ (Reached(g)' => Reached(g))
                         /\ (Closed(g) => Closed(g)')
    <3>1. \A g \in Hosts : SameSlice(g)
      BY <2>1 DEF SameSlice, SameHost, store, frames, calls, machine, history
    <3> QED
      BY <1>0, <3>1, OtherRunStep
  <2>3. \A g \in Hosts : g \notin queue
    BY <1>0, <2>1 DEF Tracked, RowOK
  <2>4. \A g \in Hosts : Tracked(g)'
    BY <1>0, <2>1, <2>2, <2>3, OwnedTracked DEF Active
  <2>5. UNCHANGED <<passed, jobState>>
    BY <2>1 DEF history, store
  <2>6. \A g \in Hosts : Reached(g)' => InTurn(g)'
    BY <1>0, <2>2, <2>5 DEF WaveInv, InTurn
  <2>7. WaveInv'
    BY <1>0, <1>g, <2>1, <2>2, <2>5, <2>6 DEF WaveInv, Ahead, Active, SameSlice, SameHost
  <2>8. ClosedInv'
    BY <1>0, <2>1, <2>5 DEF ClosedInv
  <2> QED
    BY <2>2, <2>4, <2>7, <2>8
<1>9. CASE GatePass
  <2>1. /\ phase \in {"gate", "asking"} /\ passed' = passed \cup {wave}
        /\ UNCHANGED <<store, app, owner, cancelled, disposed, frames, calls, machine,
                       gaveUp, reapLost>>
        /\ Active => StartWave(wave + 1)
        /\ ~Active => phase' = "idle" /\ UNCHANGED <<wave, queue>>
    BY <1>9 DEF GatePass, Evaluating
  <2>2. \A g \in Hosts : SameSlice(g) /\ RunStepOn(g) /\ (Reached(g)' => Reached(g))
                         /\ (Closed(g) => Closed(g)')
    <3>1. \A g \in Hosts : SameSlice(g)
      BY <2>1 DEF SameSlice, SameHost, store, frames, calls, machine
    <3> QED
      BY <1>0, <3>1, OtherRunStep
  <2>3. CASE Active
    BY <1>g, <2>1, <2>2, <2>3, NextWave
  <2>4. CASE ~Active
    <3>1. \A g \in Hosts : g \notin queue
      BY <1>0, <2>4 DEF Tracked, RowOK
    <3>2. \A g \in Hosts : Tracked(g)'
      BY <1>0, <2>1, <2>2, <2>4, <3>1, OwnedTracked DEF Active
    <3>3. \A g \in Hosts : Reached(g)' => InTurn(g)'
      BY <1>0, <2>1, <2>2 DEF WaveInv, InTurn
    <3>4. WaveInv'
      BY <2>1, <2>4, <3>3 DEF WaveInv, Active
    <3>5. ClosedInv'
      BY <1>0, <2>1, <2>4 DEF ClosedInv, store
    <3> QED
      BY <2>2, <3>2, <3>4, <3>5
  <2> QED
    BY <2>3, <2>4
<1>10. CASE GateHalt
  <2>1. /\ phase \in {"gate", "asking"} /\ owner' = "none" /\ phase' = "idle"
        /\ phase = "gate" => Active
        /\ jobState' = IF ~Active THEN jobState ELSE IF cancelled THEN "cancelled" ELSE "halted"
        /\ UNCHANGED <<rowHandle, app, cancelled, disposed, wave, queue, frames, calls, machine, history>>
    BY <1>10 DEF GateHalt, Evaluating, Finally
  <2>2. \A g \in Hosts : rowState'[g] = IF Ahead(g) THEN "skipped" ELSE rowState[g]
    BY <1>10 DEF GateHalt
  <2>3. \A g \in Hosts : Ahead(g) => rowState[g] = "pending"
    BY <1>0, <1>g, <2>1 DEF WaveInv
  <2>4. \A g \in Hosts : g \notin queue
    BY <1>0, <2>1 DEF Tracked, RowOK
  <2>5. \A g \in Hosts : Tracked(g)'
    <3>1. ASSUME NEW g \in Hosts, ~Ahead(g) PROVE Tracked(g)'
      <4>1. SameSlice(g)
        BY <2>1, <2>2, <3>1 DEF SameSlice, SameHost, frames, calls, machine, history
      <4> QED
        BY <1>0, <2>1, <2>4, <4>1, OwnedTracked DEF Active
    <3>2. ASSUME NEW g \in Hosts, Ahead(g) PROVE Tracked(g)'
      <4>1. ~frame[g] /\ ex[g] = "none" /\ rowState'[g] = "skipped"
        BY <2>2, <2>3, <3>2, PendingQuiet
      <4> QED
        BY <1>0, <2>1, <2>4, <4>1
           DEF Tracked, PendingOK, RowOK, CursorOK, AnswerOK, OnceOK, Before, Blank, frames,
               calls, machine, history
    <3> QED
      BY <3>1, <3>2
  <2>6. \A g \in Hosts : RunStepOn(g)
    <3>1. \A g \in Hosts : launches[g] \in [Steps -> Nat]
      BY <1>0, SliceTypes
    <3> QED
      BY <2>1, <2>2, <2>3, <3>1 DEF RunStepOn, RowStep, HandleStep, StartStep, Settled, machine, history
  <2>7. \A g \in Hosts : Closed(g) => Closed(g)'
    BY <2>6, StaysClosed DEF RunStepOn
  <2>8. \A g \in Hosts : Reached(g)' => Reached(g)
    BY <2>1 DEF Reached, Launched, frames, calls, machine
  <2>9. \A g \in Hosts : Reached(g)' => InTurn(g)'
    BY <1>0, <2>1, <2>7, <2>8 DEF WaveInv, InTurn, history
  <2>10. WaveInv'
    BY <2>1, <2>4, <2>9 DEF WaveInv, Active
  <2>11. ClosedInv'
    <3>1. CASE Active
      <4>1. \A g \in Hosts : ~frame'[g]
        BY <1>g, <2>1, <3>1 DEF frames
      <4>2. \A g \in Hosts : Closed(g)'
        <5>1. \A g \in Hosts : Closed(g) \/ Ahead(g)
          BY <1>0, <1>g, <2>1, <3>1 DEF WaveInv
        <5> QED
          BY <2>2, <2>7, <5>1 DEF Closed, Settled
      <4> QED
        BY <1>0, <2>1, <3>1, <4>1, <4>2 DEF ClosedInv, OwnerOK, Active
    <3>2. CASE ~Active
      BY <1>0, <2>1, <3>2 DEF ClosedInv
    <3> QED
      BY <3>1, <3>2
  <2> QED
    BY <2>5, <2>6, <2>10, <2>11
<1> QED
  BY <1>2, <1>3, <1>4, <1>5, <1>6, <1>7, <1>8, <1>9, <1>10 DEF RunStep

------------------------------------------------------------------------------
(* The death of the process, and the next one's startup *)

(* The process dies: the store and the markers are all that is left. *)
LEMMA CrashOrder ==
  ASSUME OrderInv, Crash
  PROVE  /\ \A g \in Hosts : Tracked(g)' /\ RunStepOn(g)
         /\ WaveInv' /\ ClosedInv'
<1>0. TypeOK /\ WaveInv /\ ClosedInv /\ OwnerOK /\ \A g \in Hosts : Tracked(g) /\ HostFollowed(g)
  BY DEF OrderInv, FollowInv, TypeInv
<1>1. /\ owner' = "none" /\ phase' = "idle" /\ queue' = {} /\ ~disposed' /\ app' = "down"
      /\ UNCHANGED <<store, marker, launches, history>>
      /\ \A g \in Hosts : ~frame'[g] /\ ex'[g] = "none" /\ late'[g] = 0
  BY DEF Crash
<1>2. \A g \in Hosts, t \in Steps :
        \/ remote'[g][t] = remote[g][t]
        \/ remote[g][t] = "running" /\ remote'[g][t] = "gone"
  BY DEF Crash
<1>3. \A g \in Hosts, t \in Steps :
        /\ Blank(g, t) <=> Blank(g, t)'
        /\ remote[g][t] = "never" <=> remote'[g][t] = "never"
        /\ remote[g][t] = "zero" => remote'[g][t] = "zero"
  BY <1>1, <1>2 DEF Blank
<1>4. ASSUME NEW g \in Hosts PROVE Tracked(g)'
  <2>1. PendingOK(g)' /\ RowOK(g)' /\ AnswerOK(g)'
    BY <1>0, <1>1, <1>3 DEF Tracked, PendingOK, RowOK, AnswerOK, store, history
  <2>2. CursorOK(g)'
    BY <1>0, <1>1, <1>3 DEF Tracked, CursorOK, Before, store, history
  <2>3. OnceOK(g)'
    BY <1>0, <1>1, <1>3 DEF Tracked, OnceOK, store, history
  <2> QED
    BY <2>1, <2>2, <2>3 DEF Tracked
<1>5. \A g \in Hosts : RunStepOn(g)
  <2>1. \A g \in Hosts : launches[g] \in [Steps -> Nat]
    BY <1>0, SliceTypes
  <2> QED
    BY <1>1, <2>1 DEF RunStepOn, RowStep, HandleStep, StartStep, store, history
<1>6. \A g \in Hosts : (Closed(g) <=> Closed(g)') /\ (Reached(g)' => Reached(g))
  BY <1>1 DEF Closed, Reached, Launched, store, history
<1>7. \A g \in Hosts : Reached(g)' => InTurn(g)'
  BY <1>0, <1>1, <1>6 DEF WaveInv, InTurn, history
<1>8. WaveInv'
  BY <1>1, <1>7 DEF WaveInv, Active
<1>9. ClosedInv'
  BY <1>0, <1>1, <1>6 DEF ClosedInv, Active, store
<1> QED
  BY <1>4, <1>5, <1>8, <1>9

(* A host that startup neither seals nor takes over is closed. *)
LEMMA NothingLeftOpen ==
  ASSUME OrderInv, NEW g \in Hosts, ~ToSeal(g), ~Reclaimable(g)
  PROVE  Closed(g)
<1>1. TypeOK /\ HostFollowed(g)
  BY DEF OrderInv, FollowInv, TypeInv
<1> QED
  BY <1>1, SliceTypes DEF ToSeal, Reclaimable, Closed, HostFollowed, Live

(* adopt() and reclaim() close every host or queue it. *)
LEMMA StartupOrder ==
  ASSUME OrderInv, Start \/ Adopt \/ Reclaim \/ \E h \in Hosts : Seal(h)
  PROVE  /\ \A g \in Hosts : Tracked(g)' /\ RunStepOn(g)
         /\ WaveInv' /\ ClosedInv'
<1>0. TypeOK /\ WaveInv /\ ClosedInv /\ OwnerOK /\ \A g \in Hosts : Tracked(g) /\ HostFollowed(g)
  BY DEF OrderInv, FollowInv, TypeInv
<1>1. /\ app # "up" /\ UNCHANGED <<frames, calls, machine, history>> /\ ~Active /\ ~disposed
      /\ UNCHANGED <<cancelled, disposed, wave>>
      /\ phase = "idle" /\ queue = {}
      /\ \A g \in Hosts : ~frame[g] /\ ex[g] = "none" /\ late[g] = 0
  BY <1>0 DEF Start, Adopt, Reclaim, Seal, OwnerOK, HostFollowed, Tracked, RowOK, run
<1>2. CASE Start \/ Adopt \/ Reclaim
  <2>1. UNCHANGED <<rowState, rowHandle>>
    BY <1>2 DEF Start, Adopt, Reclaim, store
  <2>2. \A g \in Hosts : SameSlice(g) /\ RunStepOn(g) /\ (Reached(g)' => Reached(g))
                         /\ (Closed(g) => Closed(g)')
    <3>1. \A g \in Hosts : SameSlice(g)
      BY <1>1, <2>1 DEF SameSlice, SameHost, frames, calls, machine, history
    <3> QED
      BY <1>0, <3>1, OtherRunStep
  <2>3. \A g \in Hosts : Reached(g)' => InTurn(g)'
    BY <1>0, <1>1, <2>2 DEF WaveInv, InTurn, history
  <2>4. CASE Start
    <3>1. UNCHANGED <<owner, phase, queue, jobState>> /\ app = "down"
      BY <2>4 DEF Start, run, store
    <3>2. \A g \in Hosts : Tracked(g)'
      BY <1>0, <1>1, <2>2, <3>1, OwnedTracked DEF Active
    <3>3. WaveInv'
      BY <1>1, <2>3, <3>1 DEF WaveInv, Active
    <3>4. ClosedInv'
      BY <1>0, <1>1, <2>1, <2>2, <3>1 DEF ClosedInv, Active, frames
    <3> QED
      BY <2>2, <3>2, <3>3, <3>4
  <2>5. CASE Adopt
    <3>1. UNCHANGED <<owner, phase, queue>> /\ app' = "up" /\ jobState' = "abandoned"
          /\ \A g \in Hosts : ~ToSeal(g) /\ ~Reclaimable(g)
      BY <2>5 DEF Adopt, run
    <3>2. \A g \in Hosts : Tracked(g)'
      BY <1>0, <1>1, <2>2, <3>1, OwnedTracked DEF Active
    <3>3. WaveInv'
      BY <1>1, <2>3, <3>1 DEF WaveInv, Active
    <3>4. \A g \in Hosts : Closed(g)' /\ ~frame'[g]
      BY <1>1, <2>2, <3>1, NothingLeftOpen DEF frames
    <3>5. ClosedInv'
      BY <1>1, <3>1, <3>4 DEF ClosedInv, Active
    <3> QED
      BY <2>2, <3>2, <3>3, <3>5
  <2>6. CASE Reclaim
    <3>1. /\ app' = "up" /\ owner' = "reclaim" /\ phase' = "wave" /\ jobState' = jobState
          /\ queue' = {g \in Hosts : Reclaimable(g)} /\ \A g \in Hosts : ~ToSeal(g)
          /\ app = "starting"
      BY <2>6 DEF Reclaim, store
    <3>2. \A g \in Hosts : Reclaimable(g) => rowState[g] \in {"running", "detached"}
      BY <1>0 DEF Reclaimable, Live, Tracked, PendingOK
    <3>3. \A g \in Hosts : Tracked(g)'
      BY <1>0, <1>1, <2>2, <3>1, <3>2, OwnedTracked DEF Active
    <3>4. \A g \in Hosts : g \in queue' \/ Closed(g)'
      BY <2>2, <3>1, NothingLeftOpen
    <3>5. WaveInv'
      BY <2>3, <3>1, <3>4 DEF WaveInv
    <3>6. ClosedInv'
      BY <1>0, <3>1 DEF ClosedInv, OwnerOK, Finished
    <3> QED
      BY <2>2, <3>3, <3>5, <3>6
  <2> QED
    BY <1>2, <2>4, <2>5, <2>6
<1>3. ASSUME NEW h \in Hosts, Seal(h)
      PROVE  /\ \A g \in Hosts : Tracked(g)' /\ RunStepOn(g)
             /\ WaveInv' /\ ClosedInv'
  <2>1. /\ app = "starting" /\ ToSeal(h) /\ UNCHANGED <<app, owner, phase, queue, jobState, passed>>
        /\ rowState'[h] = IF rowState[h] = "running" THEN "failed" ELSE "skipped"
        /\ rowHandle'[h] = rowHandle[h]
        /\ \A g \in Hosts \ {h} : rowState'[g] = rowState[g] /\ rowHandle'[g] = rowHandle[g]
    <3>1. WriteRow(h, IF rowState[h] = "running" THEN "failed" ELSE "skipped", rowHandle[h])
      BY <1>3 DEF Seal
    <3>2. UNCHANGED jobState
      BY <3>1 DEF WriteRow
    <3>3. /\ rowState'[h] = IF rowState[h] = "running" THEN "failed" ELSE "skipped"
          /\ rowHandle'[h] = rowHandle[h]
          /\ \A g \in Hosts \ {h} : rowState'[g] = rowState[g] /\ rowHandle'[g] = rowHandle[g]
      BY <1>0, <3>1, WriteRowAt DEF TypeOK
    <3> QED
      BY <1>3, <3>2, <3>3 DEF Seal, run, history
  <2>2. rowState[h] \in {"running", "pending"}
    BY <2>1 DEF ToSeal
  <2>3. ASSUME NEW g \in Hosts, g # h
        PROVE  Tracked(g)' /\ RunStepOn(g) /\ (Closed(g) => Closed(g)')
    <3>1. SameSlice(g)
      BY <1>1, <2>1, <2>3 DEF SameSlice, SameHost, frames, calls, machine, history
    <3> QED
      BY <1>0, <2>1, <3>1, OtherTracked, OtherRunStep
  <2>4. Tracked(h)'
    BY <1>0, <1>1, <2>1, <2>2
       DEF Tracked, PendingOK, RowOK, CursorOK, AnswerOK, OnceOK, Before, Blank, frames, calls,
           machine, history
  <2>5. RunStepOn(h)
    <3>1. launches[h] \in [Steps -> Nat]
      BY <1>0, SliceTypes
    <3> QED
      BY <1>1, <2>1, <2>2, <3>1 DEF RunStepOn, RowStep, HandleStep, StartStep, Settled, machine, history
  <2>6. \A g \in Hosts : Closed(g) => Closed(g)'
    BY <2>3, <2>5, StaysClosed DEF RunStepOn
  <2>7. \A g \in Hosts : Reached(g)' => Reached(g)
    BY <1>1, <2>1 DEF Reached, Launched, frames, calls, machine
  <2>8. \A g \in Hosts : Reached(g)' => InTurn(g)'
    BY <1>0, <2>1, <2>6, <2>7 DEF WaveInv, InTurn
  <2>9. WaveInv'
    BY <1>1, <2>1, <2>8 DEF WaveInv, Active
  <2>10. ClosedInv'
    BY <1>0, <2>1 DEF ClosedInv, OwnerOK, Finished
  <2> QED
    BY <2>3, <2>4, <2>5, <2>9, <2>10
<1> QED
  BY <1>2, <1>3

------------------------------------------------------------------------------
(* The invariant and what follows from it *)

(* Before the job is created nothing was started and nothing is owned. *)
LEMMA InitOrder == Init => OrderInv
<1> SUFFICES ASSUME Init PROVE OrderInv
  OBVIOUS
<1>1. FollowInv
  BY InitFollowInv
<1>2. ASSUME NEW h \in Hosts PROVE Tracked(h)
  BY StepsAssumption DEF Init, Tracked, PendingOK, RowOK, CursorOK, AnswerOK, OnceOK, Before, Blank
<1>3. WaveInv
  <2>1. \A h \in Hosts : ~Reached(h)
    BY DEF Init, Reached, Launched
  <2> QED
    BY <2>1 DEF Init, WaveInv, Active
<1>4. ClosedInv
  BY DEF Init, ClosedInv, Finished
<1> QED
  BY <1>1, <1>2, <1>3, <1>4 DEF OrderInv

(* Every step keeps the invariant, and moves each row and starts each step   *)
(* as it may.                                                                *)
LEMMA NextOrder ==
  ASSUME OrderInv, [Next]_vars
  PROVE  OrderInv' /\ \A g \in Hosts : RunStepOn(g)
<1>0. TypeOK /\ FollowInv'
  BY NextFollowInv DEF OrderInv, FollowInv, TypeInv
<1> SUFFICES /\ \A g \in Hosts : Tracked(g)' /\ RunStepOn(g)
             /\ WaveInv' /\ ClosedInv'
  BY <1>0 DEF OrderInv
<1>1. ASSUME NEW h \in Hosts, HostStep(h)
      PROVE  /\ \A g \in Hosts : Tracked(g)' /\ RunStepOn(g)
             /\ WaveInv' /\ ClosedInv'
  BY <1>1, HostStepTracked, HostStepOrder DEF CallStep, RunStepOn
<1>2. CASE UNCHANGED vars
  <2>1. \A g \in Hosts : SameSlice(g)
    BY <1>2 DEF vars, SameSlice, SameHost, store, frames, calls, machine, history
  <2>2. UNCHANGED <<jobState, app, owner, cancelled, disposed, phase, wave, queue, passed>>
    BY <1>2 DEF vars, store, run, history
  <2>3. \A g \in Hosts : Tracked(g)' /\ RunStepOn(g) /\ (Reached(g)' => Reached(g))
                         /\ (Closed(g) => Closed(g)')
    BY <1>0, <2>1, <2>2, OtherTracked, OtherRunStep DEF OrderInv
  <2>4. \A g \in Hosts : Reached(g)' => InTurn(g)'
    BY <2>2, <2>3 DEF OrderInv, WaveInv, InTurn
  <2>5. WaveInv' /\ ClosedInv'
    BY <2>1, <2>2, <2>3, <2>4
       DEF OrderInv, WaveInv, ClosedInv, Ahead, Active, SameSlice, SameHost
  <2> QED
    BY <2>3, <2>5
<1>3. CASE RunStep
  BY <1>3, RunStepOrder
<1>4. ASSUME NEW h \in Hosts, TakeStep(h)
      PROVE  /\ \A g \in Hosts : Tracked(g)' /\ RunStepOn(g)
             /\ WaveInv' /\ ClosedInv'
  BY <1>4, TakeStepOrder
<1>5. CASE BootStep
  BY <1>5, CrashOrder, StartupOrder DEF BootStep
<1>6. CASE Next
  <2>1. \/ RunStep \/ BootStep
        \/ \E h \in Hosts : TakeStep(h) \/ HostStep(h)
    BY <1>6 DEF Next, HostStep
  <2> QED
    BY <2>1, <1>1, <1>3, <1>4, <1>5
<1> QED
  BY <1>2, <1>6

(* The invariant this module rests on, for every history of the job. *)
THEOREM OrderIsKept == Spec => []OrderInv
<1>1. OrderInv /\ [Next]_vars => OrderInv'
  BY NextOrder
<1> QED
  BY <1>1, InitOrder, PTL DEF Spec

(* A host of a later wave is touched only when every host of the earlier     *)
(* ones has its verdict and the gates between them said yes.                 *)
THEOREM WavesKeepOrder == Spec => []WavesInOrder
<1>1. OrderInv => WavesInOrder
  <2> SUFFICES ASSUME OrderInv, NEW h \in Hosts, Launched(h)
               PROVE  /\ \A g \in Hosts :
                           WaveOf[g] < WaveOf[h] => rowState[g] \in Settled \/ gaveUp[g]
                      /\ Gated => \A w \in 1..(WaveOf[h] - 1) : w \in passed
    BY DEF WavesInOrder
  <2>1. InTurn(h)
    BY DEF OrderInv, WaveInv, Reached
  <2> QED
    BY <2>1 DEF InTurn, Closed
<1> QED
  BY <1>1, OrderIsKept, PTL

(* Under a job that has ended every host has its verdict, but for those the  *)
(* property excepts.                                                         *)
THEOREM EndedJobIsClosed == Spec => []ClosedMeansSettled
<1>1. OrderInv => ClosedMeansSettled
  BY DEF OrderInv, ClosedInv, ClosedMeansSettled, Closed
<1> QED
  BY <1>1, OrderIsKept, PTL

(* No step is started twice on a host whose reaps all reached it. *)
THEOREM StartedOnce == Spec => []AtMostOnce
<1>1. OrderInv => AtMostOnce
  BY DEF OrderInv, Tracked, OnceOK, AtMostOnce
<1> QED
  BY <1>1, OrderIsKept, PTL

(* A host with a verdict keeps it. *)
THEOREM VerdictsStay == Spec => VerdictIsFinal
<1>1. OrderInv /\ [Next]_vars =>
        \A h \in Hosts : rowState[h] \in Settled /\ ~gaveUp[h] => rowState'[h] = rowState[h]
  BY NextOrder DEF RunStepOn, RowStep, HandleStep
<1> QED
  BY <1>1, OrderIsKept, PTL DEF Spec, VerdictIsFinal

(* A marker of a running command is dropped from its row in two ways only:   *)
(* by runOne's catch, which still holds the null of the step before, and by  *)
(* the fallback of a start that was taken for a failed one.                  *)
THEOREM HandlesStay == Spec => HandleKept
<1>1. OrderInv /\ [Next]_vars =>
        \A h \in Hosts, s \in Steps :
          rowHandle[h] = s /\ rowHandle'[h] # s /\ marker[h][s] /\ remote[h][s] = "running"
            => \/ nulled[h] /\ ~frame'[h] /\ rowState'[h] = "failed"
               \/ reapLost[h] /\ answer[h] = "degrade"
  BY NextOrder DEF RunStepOn, RowStep, HandleStep
<1> QED
  BY <1>1, OrderIsKept, PTL DEF Spec, HandleKept

(* Only a host on which nothing was started is recorded as not run. *)
THEOREM SkippedIsUntouched == Spec => SkippedWasNotReached
<1>1. OrderInv /\ [Next]_vars =>
        \A h \in Hosts :
          rowState[h] # "skipped" /\ rowState'[h] = "skipped" /\ owner # "reclaim" => ~Launched(h)
  <2> SUFFICES ASSUME OrderInv, [Next]_vars, NEW h \in Hosts,
                      rowState[h] # "skipped", rowState'[h] = "skipped", owner # "reclaim"
               PROVE  ~Launched(h)
    OBVIOUS
  <2>1. rowState[h] = "pending"
    BY NextOrder DEF RunStepOn, RowStep, HandleStep
  <2> QED
    BY <2>1, PendingQuiet DEF Reached
<1> QED
  BY <1>1, OrderIsKept, PTL DEF Spec, SkippedWasNotReached

(* Nothing is started on a host whose row does not say it is at work. *)
THEOREM StartsAreOnTheRow == Spec => StartIsOnTheRow
<1>1. OrderInv /\ [Next]_vars =>
        \A h \in Hosts, s \in Steps :
          launches'[h][s] > launches[h][s]
            => rowState[h] \in {"running", "detached"} \/ gaveUp[h] \/ late[h] = s
  BY NextOrder DEF RunStepOn, StartStep
<1> QED
  BY <1>1, OrderIsKept, PTL DEF Spec, StartIsOnTheRow

(* A step starts only after the one before it ended with zero. *)
THEOREM StepsKeepOrder == Spec => StepsInOrder
<1>1. OrderInv /\ [Next]_vars =>
        \A h \in Hosts, s \in Steps :
          launches'[h][s] > launches[h][s] /\ s > 1 => remote[h][s - 1] = "zero"
  BY NextOrder DEF RunStepOn, StartStep
<1> QED
  BY <1>1, OrderIsKept, PTL DEF Spec, StepsInOrder
==============================================================================
