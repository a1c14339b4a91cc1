------------------------- MODULE VpnSupervisor_proofs -------------------------
(***************************************************************************)
(* What is proved of VpnSupervisor for every number of runs, engines,       *)
(* crashes, restarts and callers.                                          *)
(***************************************************************************)
EXTENDS VpnSupervisor, TLAPS

------------------------------------------------------------------------------
(* The invariant *)

(* A stop waits for the exit of the run it holds. *)
Waits(c) == stop[c] \in {"graceful", "term", "kill"}

(* An engine of this process of the app that was not reaped is the child of   *)
(* its run, and its exit handler is the last thing its run has under way.     *)
EngineSound(p) ==
  /\ p > born => of[p] = 0 /\ proc[p] = "none" /\ launch[p] = "none" /\ ~onexit[p]
  /\ of[p] <= made
  /\ launch[p] # "none" \/ onexit[p] \/ proc[p] \in {"exited", "stillborn"} => of[p] # 0
  /\ of[p] # 0 /\ proc[p] \in {"alive", "exited", "stillborn"} => child[of[p]] = p
  /\ onexit[p] =>
       /\ proc[p] = "gone" /\ latest[of[p]] = p /\ child[of[p]] = 0
       /\ ~backoff[of[p]] /\ ~terminal[of[p]]

(* A run has one thing under way: a child, its exit, or the wait for a        *)
(* restart; a run that is over or told to stop waits for no restart.          *)
RunSound(r) ==
  /\ r > made =>
       /\ child[r] = 0 /\ latest[r] = 0 /\ exits[r] = 0
       /\ ~stopping[r] /\ ~backoff[r] /\ ~terminal[r]
  /\ child[r] # 0 =>
       /\ of[child[r]] = r /\ latest[r] = child[r] /\ ~backoff[r] /\ ~terminal[r]
       /\ proc[child[r]] \in {"alive", "exited", "stillborn"}
  /\ backoff[r] => ~stopping[r] /\ ~terminal[r]
  /\ terminal[r] \/ exits[r] <= MaxRestarts

(* A stop under way holds a run, which knows that it is to stop. *)
StopSound(c) ==
  /\ stop[c] # "none" <=> on[c] # 0
  /\ on[c] <= made
  /\ Waits(c) => stopping[on[c]]

(* The run in the map is not over, and has something under way or a stop. *)
MapSound ==
  /\ entry <= made
  /\ entry # 0 =>
       /\ ~terminal[entry]
       /\ stopping[entry] => \E c \in Callers : on[c] = entry /\ Waits(c)
       /\ \/ child[entry] # 0 \/ backoff[entry] \/ stopping[entry]
          \/ \E p \in Engines : of[p] = entry /\ onexit[p]

Sound ==
  /\ \A p \in Engines : EngineSound(p)
  /\ \A r \in Runs : RunSound(r)
  /\ \A c \in Callers : StopSound(c)
  /\ MapSound

IInv == TypeOK /\ Sound

(* The types of the parts the proofs look at. *)
LEMMA Parts ==
  ASSUME TypeOK
  PROVE  /\ entry \in Nat /\ made \in Nat /\ born \in Nat
         /\ entry <= MaxRuns /\ made <= MaxRuns /\ born <= MaxEngines
         /\ \A r \in Runs :
              /\ child[r] \in Nat /\ child[r] <= MaxEngines
              /\ latest[r] \in Nat /\ latest[r] <= MaxEngines
              /\ stopping[r] \in BOOLEAN /\ terminal[r] \in BOOLEAN /\ backoff[r] \in BOOLEAN
              /\ exits[r] \in Nat
         /\ \A p \in Engines : of[p] \in Nat /\ of[p] <= MaxRuns /\ onexit[p] \in BOOLEAN
         /\ \A c \in Callers : on[c] \in Nat /\ on[c] <= MaxRuns
<1> QED
  BY RunsAssumption, EnginesAssumption, RestartsAssumption DEF TypeOK

(* What is named by a number other than 0 is a run, or an engine. *)
LEMMA Named ==
  ASSUME TypeOK
  PROVE  /\ \A r \in Runs : r \in Nat /\ r # 0 /\ (child[r] # 0 => child[r] \in Engines)
         /\ \A p \in Engines : p \in Nat /\ p # 0 /\ (of[p] # 0 => of[p] \in Runs)
         /\ \A c \in Callers : on[c] # 0 => on[c] \in Runs
         /\ entry # 0 => entry \in Runs
         /\ made < MaxRuns => made + 1 \in Runs
         /\ born < MaxEngines => born + 1 \in Engines
<1> QED
  BY Parts, RunsAssumption, EnginesAssumption DEF Runs, Engines

(* Nothing is under way before the first spawn. *)
LEMMA InitIInv == Init => IInv
<1> SUFFICES ASSUME Init PROVE IInv
  OBVIOUS
<1>1. TypeOK
  <2>1. 0 \in 0..MaxRuns /\ 0 \in 0..MaxEngines /\ 0 \in 0..(MaxRestarts + 1) /\ 0 \in 0..MaxCrashes
    BY RunsAssumption, EnginesAssumption, CrashesAssumption, RestartsAssumption
  <2> QED
    BY <2>1 DEF Init, TypeOK
<1>2. Sound
  BY RestartsAssumption
     DEF Init, Sound, EngineSound, RunSound, StopSound, MapSound, Waits
<1> QED
  BY <1>1, <1>2 DEF IInv

------------------------------------------------------------------------------
(* The steps that only move files, timers and the reaper on *)

(* What the invariant speaks of stays, but that a launch may end. *)
Quiet ==
  /\ UNCHANGED <<entry, made, child, latest, stopping, terminal, backoff, exits>>
  /\ UNCHANGED <<born, of, proc, onexit, stops>>
  /\ \A p \in Engines : launch'[p] # "none" => launch[p] # "none"

(* Such a step leaves what is sound as it was. *)
LEMMA QuietSound ==
  ASSUME TypeOK, Sound, Quiet
  PROVE  Sound'
<1> USE DEF Quiet, stops
<1>1. \A p \in Engines : EngineSound(p)'
  BY DEF Sound, EngineSound
<1>2. \A r \in Runs : RunSound(r)'
  BY DEF Sound, RunSound
<1>3. \A c \in Callers : StopSound(c)'
  BY DEF Sound, StopSound, Waits
<1>4. MapSound'
  BY DEF Sound, MapSound, Waits
<1> QED
  BY <1>1, <1>2, <1>3, <1>4 DEF Sound

(* The hash, the record and its removal are such steps. *)
LEMMA FileStepKept ==
  ASSUME IInv, NEW p \in Engines, FileStep(p)
  PROVE  IInv' /\ Quiet /\ UNCHANGED gaveUp
<1>0. TypeOK /\ Sound
  BY DEF IInv
<1>1. CASE Hashed(p)
  <2>1. of[p] \in Runs
    BY <1>0, <1>1, Named DEF Hashed, Sound, EngineSound
  <2>2. Pid(of[p]) \in 0..MaxEngines
    BY <1>0, <2>1, EnginesAssumption DEF Pid, TypeOK
  <2>3. TypeOK'
    BY <1>0, <1>1, <2>2 DEF Hashed, TypeOK, fields, engines, stops, reaper
  <2>4. Quiet /\ UNCHANGED gaveUp
    BY <1>0, <1>1 DEF Hashed, Quiet, fields, engines, TypeOK
  <2> QED
    BY <1>0, <2>3, <2>4, QuietSound DEF IInv
<1>2. CASE Records(p)
  <2>1. TypeOK'
    BY <1>0, <1>2, EnginesAssumption DEF Records, TypeOK, fields, engines, stops, reaper
  <2>2. Quiet /\ UNCHANGED gaveUp
    BY <1>0, <1>2 DEF Records, Quiet, fields, engines, TypeOK
  <2> QED
    BY <1>0, <2>1, <2>2, QuietSound DEF IInv
<1>3. CASE Launched(p)
  <2>1. TypeOK'
    BY <1>0, <1>3 DEF Launched, TypeOK, fields, engines, stops, reaper
  <2>2. Quiet /\ UNCHANGED gaveUp
    BY <1>0, <1>3 DEF Launched, Quiet, fields, engines, TypeOK
  <2> QED
    BY <1>0, <2>1, <2>2, QuietSound DEF IInv
<1>4. CASE Undoes(p)
  <2>1. TypeOK'
    BY <1>0, <1>4, EnginesAssumption DEF Undoes, TypeOK, fields, engines, stops, reaper
  <2>2. Quiet /\ UNCHANGED gaveUp
    BY <1>0, <1>4 DEF Undoes, Quiet, fields, engines, TypeOK
  <2> QED
    BY <1>0, <2>1, <2>2, QuietSound DEF IInv
<1> QED
  BY <1>1, <1>2, <1>3, <1>4 DEF FileStep

(* A kill marks engines. *)
LEMMA HardKillTypes ==
  ASSUME TypeOK, NEW r, HardKill(r)
  PROVE  killed' \in [Engines -> BOOLEAN]
  BY DEF HardKill, TypeOK

(* The answer to a start has its type. *)
LEMMA SettlesTypes ==
  ASSUME TypeOK, NEW r, NEW how \in {"none", "waiting", "resolved", "rejected"}, Settles(r, how)
  PROVE  first' \in [Runs -> {"none", "waiting", "resolved", "rejected"}]
  BY DEF Settles, TypeOK

(* So is the decision of readiness, which may kill but not end an engine. *)
LEMMA ReadinessKept ==
  ASSUME IInv, NEW p \in Engines, Readiness(p)
  PROVE  IInv' /\ Quiet /\ UNCHANGED gaveUp
<1>0. TypeOK /\ Sound
  BY DEF IInv
<1>1. CASE Readies(p)
  <2>1. first' \in [Runs -> {"none", "waiting", "resolved", "rejected"}]
        /\ ready' \in [Runs -> BOOLEAN]
    BY <1>0, <1>1, SettlesTypes DEF Readies, TypeOK
  <2>2. TypeOK'
    BY <1>0, <1>1, <2>1 DEF Readies, TypeOK, engines, stops, reaper
  <2>3. Quiet /\ UNCHANGED gaveUp
    BY <1>0, <1>1 DEF Readies, Quiet, engines, TypeOK
  <2> QED
    BY <1>0, <2>2, <2>3, QuietSound DEF IInv
<1>2. CASE Unready(p)
  <2>1. killed' \in [Engines -> BOOLEAN]
    BY <1>0, <1>2, HardKillTypes DEF Unready, TypeOK
  <2>2. TypeOK'
    BY <1>0, <1>2, <2>1 DEF Unready, TypeOK, fields, stops, reaper
  <2>3. Quiet /\ UNCHANGED gaveUp
    BY <1>0, <1>2 DEF Unready, Quiet, fields, TypeOK
  <2> QED
    BY <1>0, <2>2, <2>3, QuietSound DEF IInv
<1> QED
  BY <1>1, <1>2 DEF Readiness

(* So are the health check and the unlink that nobody awaits. *)
LEMMA TimersKept ==
  ASSUME IInv, NEW r \in Runs, Unhealthy(r) \/ LooseUnlink(r)
  PROVE  IInv' /\ Quiet /\ UNCHANGED gaveUp
<1>0. TypeOK /\ Sound
  BY DEF IInv
<1>1. TypeOK'
  <2>1. CASE Unhealthy(r)
    <3>1. killed' \in [Engines -> BOOLEAN]
      BY <1>0, <2>1, HardKillTypes DEF Unhealthy
    <3> QED
      BY <1>0, <2>1, <3>1 DEF Unhealthy, TypeOK, fields, stops, reaper
  <2>2. CASE LooseUnlink(r)
    BY <1>0, <2>2, EnginesAssumption DEF LooseUnlink, TypeOK, fields, engines, stops, reaper
  <2> QED
    BY <2>1, <2>2
<1>2. Quiet /\ UNCHANGED gaveUp
  BY DEF Unhealthy, LooseUnlink, Quiet, fields, engines
<1> QED
  BY <1>0, <1>1, <1>2, QuietSound DEF IInv

(* So is reapOrphans(), which touches engines of no run. *)
LEMMA ReapKept ==
  ASSUME IInv, ReapStep \/ Boot
  PROVE  IInv' /\ Quiet /\ UNCHANGED gaveUp
<1>0. TypeOK /\ Sound
  BY DEF IInv
<1>1. CASE ReapStep
  <2>1. 0 \in 0..MaxEngines
    BY EnginesAssumption
  <2>2. killed' \in [Engines -> BOOLEAN]
    BY <1>0, <1>1 DEF ReapStep, ReapLists, ReapReads, ReapProbes, ReapKills, ReapClears, TypeOK,
       engines
  <2>3. target' \in 0..MaxEngines /\ record' \in 0..MaxEngines
    BY <1>0, <1>1, <2>1 DEF ReapStep, ReapLists, ReapReads, ReapProbes, ReapKills, ReapClears,
       TypeOK
  <2>4. reap' \in {"none", "listing", "reading", "probing", "killing", "clearing"}
    BY <1>1 DEF ReapStep, ReapLists, ReapReads, ReapProbes, ReapKills, ReapClears
  <2>5. /\ UNCHANGED <<app, entry, made, fields, born, of, proc, launch, noted, onexit, stops>>
        /\ UNCHANGED <<loose, gaveUp, crashes>>
    BY <1>1 DEF ReapStep, ReapLists, ReapReads, ReapProbes, ReapKills, ReapClears, engines
  <2>6. TypeOK'
    BY <1>0, <2>2, <2>3, <2>4, <2>5 DEF TypeOK, fields, stops
  <2>7. Quiet
    BY <2>5 DEF Quiet, fields
  <2> QED
    BY <1>0, <2>5, <2>6, <2>7, QuietSound DEF IInv
<1>2. CASE Boot
  <2>1. TypeOK'
    BY <1>0, <1>2 DEF Boot, TypeOK, fields, engines, stops
  <2>2. Quiet /\ UNCHANGED gaveUp
    BY <1>2 DEF Boot, Quiet, fields, engines
  <2> QED
    BY <1>0, <2>1, <2>2, QuietSound DEF IInv
<1> QED
  BY <1>1, <1>2

------------------------------------------------------------------------------
(* spawn() and launch() *)

(* An attempt has its types, whatever the run. *)
LEMMA StartsTypes ==
  ASSUME TypeOK, NEW r \in Runs, Starts(r)
  PROVE  /\ born' \in 0..MaxEngines /\ of' \in [Engines -> 0..MaxRuns]
         /\ child' \in [Runs -> 0..MaxEngines] /\ latest' \in [Runs -> 0..MaxEngines]
         /\ proc' \in [Engines -> {"none", "alive", "exited", "gone", "stillborn"}]
         /\ launch' \in [Engines -> {"none", "hashing", "writing", "written", "undoing",
                                     "readying"}]
         /\ noted' \in [Engines -> 0..MaxEngines]
         /\ terminal' \in [Runs -> BOOLEAN] /\ loose' \in [Runs -> BOOLEAN]
<1>1. born + 1 \in Engines /\ born + 1 \in 0..MaxEngines /\ 0 \in 0..MaxEngines
  BY Parts, EnginesAssumption DEF Starts, Engines
<1>2. r \in 0..MaxRuns
  BY RunsAssumption DEF Runs
<1> QED
  BY <1>1, <1>2 DEF Starts, TypeOK

(* So does one that fails at once. *)
LEMMA TerminalTypes ==
  ASSUME TypeOK, NEW r \in Runs, GoTerminal(r)
  PROVE  /\ terminal' \in [Runs -> BOOLEAN] /\ loose' \in [Runs -> BOOLEAN]
         /\ first' \in [Runs -> {"none", "waiting", "resolved", "rejected"}]
         /\ entry' \in 0..MaxRuns
<1>1. entry' \in 0..MaxRuns
  BY RunsAssumption DEF GoTerminal
<1> QED
  BY <1>1, SettlesTypes DEF GoTerminal, TypeOK

(* The engine of an attempt is the child of its run, and the others keep     *)
(* what they had: the run had neither a child nor an exit under way.         *)
LEMMA StartsEngines ==
  ASSUME IInv, NEW r \in Runs, Starts(r),
         child[r] = 0, \A q \in Engines : of[q] = r => ~onexit[q],
         r <= made', made <= made', made' \in Nat,
         UNCHANGED onexit, \A s \in Runs : s # r => backoff'[s] = backoff[s]
  PROVE  \A q \in Engines : EngineSound(q)'
<1>0. TypeOK /\ (\A q \in Engines : EngineSound(q)) /\ (\A s \in Runs : RunSound(s))
  BY DEF IInv, Sound
<1> DEFINE p == born + 1
<1>1. p \in Engines /\ born \in Nat /\ made \in Nat /\ p > born
  BY <1>0, Named, Parts DEF Starts
<1>2. /\ of' = [of EXCEPT ![p] = r] /\ child' = [child EXCEPT ![r] = p]
      /\ latest' = [latest EXCEPT ![r] = p] /\ born' = p /\ UNCHANGED terminal
      /\ proc'[p] \in {"alive", "stillborn"}
      /\ \A q \in Engines : q # p => proc'[q] = proc[q] /\ launch'[q] = launch[q]
  BY <1>0, <1>1 DEF Starts, TypeOK
<1> HIDE DEF p
<1> SUFFICES ASSUME NEW q \in Engines PROVE EngineSound(q)'
  OBVIOUS
<1>3. q \in Nat /\ q # 0 /\ r \in Nat /\ r # 0
  BY <1>0, Named
<1>4. of \in [Engines -> 0..MaxRuns] /\ child \in [Runs -> 0..MaxEngines]
      /\ latest \in [Runs -> 0..MaxEngines]
  BY <1>0 DEF TypeOK
<1>5. CASE q = p
  <2>1. ~onexit'[q]
    BY <1>0, <1>1, <1>5 DEF EngineSound
  <2>2. of'[q] = r /\ child'[r] = q
    BY <1>2, <1>4, <1>5
  <2>3. ~(q > born')
    BY <1>2, <1>3, <1>5
  <2> QED
    BY <2>1, <2>2, <2>3, <1>2, <1>3, <1>5 DEF EngineSound
<1>6. CASE q # p
  <2>1. of'[q] = of[q] /\ of[q] \in Nat /\ of[q] <= made'
    BY <1>0, <1>1, <1>2, <1>4, <1>6, Parts DEF EngineSound
  <2>2. q > born' => q > born
    BY <1>1, <1>2, <1>3 DEF p
  <2>3. of[q] # 0 => of[q] \in Runs
    BY <1>0, Named
  <2>4. CASE of[q] = r
    <3>1. /\ proc[q] \notin {"alive", "exited", "stillborn"} /\ ~onexit[q] /\ ~(q > born)
      BY <2>4, <1>0, <1>3 DEF EngineSound
    <3>2. /\ proc'[q] = proc[q] /\ onexit'[q] = onexit[q] /\ of'[q] = r /\ ~(q > born')
      BY <3>1, <2>1, <2>2, <2>4, <1>2, <1>6
    <3> QED
      BY <3>1, <3>2, <2>1, <1>3 DEF EngineSound
  <2>5. CASE of[q] # r
    <3>1. of[q] # 0 => /\ child'[of[q]] = child[of[q]] /\ latest'[of[q]] = latest[of[q]]
                       /\ backoff'[of[q]] = backoff[of[q]]
      BY <2>3, <2>5, <1>2, <1>4
    <3> QED
      BY <3>1, <2>1, <2>2, <1>0, <1>2, <1>6 DEF EngineSound
  <2> QED
    BY <2>4, <2>5
<1> QED
  BY <1>5, <1>6

(* The run of an attempt has its child, and waits for no restart. *)
LEMMA StartsRuns ==
  ASSUME IInv, NEW r \in Runs, Starts(r), ~terminal[r],
         r <= made', made <= made', made' \in Nat, ~backoff'[r],
         UNCHANGED <<stopping, exits>>, \A s \in Runs : s # r => backoff'[s] = backoff[s]
  PROVE  \A s \in Runs : RunSound(s)'
<1>0. TypeOK /\ (\A q \in Engines : EngineSound(q)) /\ (\A s \in Runs : RunSound(s))
  BY DEF IInv, Sound
<1> DEFINE p == born + 1
<1>1. p \in Engines /\ born \in Nat /\ made \in Nat /\ p > born /\ p # 0
  BY <1>0, Named, Parts DEF Starts
<1>2. /\ of' = [of EXCEPT ![p] = r] /\ child' = [child EXCEPT ![r] = p]
      /\ latest' = [latest EXCEPT ![r] = p] /\ UNCHANGED terminal
      /\ proc'[p] \in {"alive", "stillborn"}
      /\ \A q \in Engines : q # p => proc'[q] = proc[q]
  BY <1>0, <1>1 DEF Starts, TypeOK
<1>3. of[p] = 0
  BY <1>0, <1>1 DEF EngineSound
<1> HIDE DEF p
<1> SUFFICES ASSUME NEW s \in Runs PROVE RunSound(s)'
  OBVIOUS
<1>4. s \in Nat /\ r \in Nat /\ s # 0 /\ r # 0 /\ (child[s] # 0 => child[s] \in Engines)
  BY <1>0, Named
<1>5. of \in [Engines -> 0..MaxRuns] /\ child \in [Runs -> 0..MaxEngines]
      /\ latest \in [Runs -> 0..MaxEngines]
  BY <1>0 DEF TypeOK
<1>6. CASE s = r
  BY <1>0, <1>1, <1>2, <1>4, <1>5, <1>6 DEF RunSound
<1>7. CASE s # r
  <2>1. child'[s] = child[s] /\ latest'[s] = latest[s] /\ backoff'[s] = backoff[s]
    BY <1>2, <1>5, <1>7
  <2>2. child[s] # 0 => child[s] # p /\ of'[child[s]] = s /\ proc'[child[s]] = proc[child[s]]
    BY <1>0, <1>2, <1>3, <1>4, <1>5 DEF RunSound
  <2>3. s > made' => s > made
    BY <1>1, <1>4
  <2> QED
    BY <2>1, <2>2, <2>3, <1>0, <1>2 DEF RunSound
<1> QED
  BY <1>6, <1>7

(* A stop keeps what it knows while no stop moves and runs are only added.   *)
LEMMA StopsStay ==
  ASSUME IInv, UNCHANGED <<stop, on, stopping>>, made <= made', made' \in Nat
  PROVE  \A c \in Callers : StopSound(c)'
<1>1. made \in Nat /\ \A c \in Callers : on[c] \in Nat
  BY Parts DEF IInv
<1> QED
  BY <1>1 DEF IInv, Sound, StopSound, Waits

(* The first attempt of a new run. *)
LEMMA SpawnKept ==
  ASSUME IInv, Spawn
  PROVE  IInv'
<1>0. TypeOK /\ Sound
  BY DEF IInv
<1> DEFINE r == made + 1
<1>1. /\ r \in Runs /\ r \in 0..MaxRuns /\ made \in Nat /\ made' = r /\ made < made'
      /\ made' \in Nat
  BY <1>0, Named, Parts, RunsAssumption DEF Spawn, Runs
<1>2. /\ child[r] = 0 /\ exits[r] = 0 /\ ~stopping[r] /\ ~backoff[r] /\ ~terminal[r]
      /\ \A q \in Engines : of[q] <= made /\ of[q] \in Nat
  BY <1>0, <1>1, Parts DEF Sound, RunSound, EngineSound
<1>3. \A q \in Engines : of[q] # r
  BY <1>1, <1>2
<1>4. UNCHANGED <<app, stopping, ready, backoff, exits, killed, onexit, stop, on, record,
                  reap, target, gaveUp, crashes>>
  BY DEF Spawn, stops, reaper
<1>5. \A c \in Callers : StopSound(c)'
  BY <1>1, <1>4, StopsStay
<1>6. CASE Starts(r) /\ entry' = r /\ first' = [first EXCEPT ![r] = "waiting"]
  <2>1. TypeOK'
    <3>1. first' \in [Runs -> {"none", "waiting", "resolved", "rejected"}]
      BY <1>0, <1>6 DEF TypeOK
    <3> HIDE DEF r
    <3> QED
      BY <3>1, <1>0, <1>1, <1>4, <1>6, StartsTypes DEF TypeOK
  <2>2. \A q \in Engines : EngineSound(q)'
    BY <1>1, <1>2, <1>3, <1>4, <1>6, StartsEngines
  <2>3. \A s \in Runs : RunSound(s)'
    BY <1>1, <1>2, <1>4, <1>6, StartsRuns
  <2>4. MapSound'
    <3>1. child'[r] = born + 1 /\ born + 1 # 0
      BY <1>0, <1>1, <1>6, Parts DEF Starts, TypeOK
    <3>2. ~terminal'[r] /\ ~stopping'[r]
      BY <1>2, <1>4, <1>6 DEF Starts
    <3>3. r <= made' /\ r # 0
      BY <1>1
    <3>4. entry' = r
      BY <1>6
    <3> HIDE DEF r
    <3>5. child'[entry'] # 0 /\ ~terminal'[entry'] /\ ~stopping'[entry'] /\ entry' <= made'
      BY <3>1, <3>2, <3>3, <3>4
    <3> QED
      BY <3>5 DEF MapSound
  <2> QED
    BY <2>1, <2>2, <2>3, <2>4, <1>5 DEF IInv, Sound
<1>7. CASE Throws(r)
  <2>0. /\ terminal' = [terminal EXCEPT ![r] = TRUE] /\ latest' = [latest EXCEPT ![r] = 0]
        /\ entry' = 0 /\ UNCHANGED <<child, born, of, proc, launch, noted>>
    BY <1>7 DEF Throws, GoTerminal
  <2>1. TypeOK'
    <3>1. 0 \in 0..MaxEngines
      BY EnginesAssumption
    <3> HIDE DEF r
    <3>2. latest' \in [Runs -> 0..MaxEngines]
      BY <3>1, <2>0, <1>0 DEF TypeOK
    <3> QED
      BY <3>2, <2>0, <1>0, <1>1, <1>4, <1>7, TerminalTypes DEF TypeOK, Throws
  <2>2. ASSUME NEW q \in Engines PROVE EngineSound(q)'
    <3>1. of[q] # 0 => of[q] \in Runs
      BY <1>0, Named
    <3>2. of[q] # 0 => latest'[of[q]] = latest[of[q]] /\ terminal'[of[q]] = terminal[of[q]]
      BY <3>1, <2>0, <1>0, <1>3 DEF TypeOK
    <3>3. of[q] <= made'
      BY <1>1, <1>2
    <3> QED
      BY <3>2, <3>3, <2>0, <1>0, <1>4 DEF Sound, EngineSound
  <2>3. ASSUME NEW s \in Runs PROVE RunSound(s)'
    <3>1. s > made' => s > made /\ s # r
      BY <1>1, Named, <1>0
    <3>2. s # r => latest'[s] = latest[s] /\ terminal'[s] = terminal[s]
      BY <2>0, <1>0 DEF TypeOK
    <3>3. s = r => terminal'[s] /\ child[s] = 0 /\ ~backoff[s]
      BY <2>0, <1>0, <1>2 DEF TypeOK
    <3> HIDE DEF r
    <3> QED
      BY <3>1, <3>2, <3>3, <2>0, <1>0, <1>4 DEF Sound, RunSound
  <2>4. MapSound'
    BY <2>0, <1>1 DEF MapSound
  <2> QED
    BY <2>1, <2>2, <2>3, <2>4, <1>5 DEF IInv, Sound
<1> QED
  BY <1>6, <1>7 DEF Spawn

(* The next attempt of a run that waited for its restart. *)
LEMMA RelaunchKept ==
  ASSUME IInv, NEW r \in Runs, Relaunch(r)
  PROVE  IInv'
<1>0. TypeOK /\ Sound
  BY DEF IInv
<1>1. /\ backoff[r] /\ ~stopping[r] /\ ~terminal[r] /\ backoff' = [backoff EXCEPT ![r] = FALSE]
      /\ UNCHANGED <<app, made, stopping, ready, exits, killed, onexit, stop, on, record,
                     reap, target, gaveUp, crashes>>
  BY DEF Relaunch, stops, reaper
<1>2. /\ made \in Nat /\ made' \in Nat /\ made <= made' /\ r \in Nat /\ r # 0
      /\ \A s \in Runs : s # r => backoff'[s] = backoff[s]
      /\ ~backoff'[r] /\ backoff' \in [Runs -> BOOLEAN]
  BY <1>0, <1>1, Parts, Named DEF TypeOK
<1>3. r <= made' /\ child[r] = 0 /\ (\A q \in Engines : of[q] = r => ~onexit[q])
  BY <1>0, <1>1, <1>2 DEF Sound, RunSound, EngineSound
<1>4. \A c \in Callers : StopSound(c)'
  BY <1>1, <1>2, StopsStay
<1>5. CASE Starts(r) /\ UNCHANGED <<first, entry>>
  <2>1. TypeOK'
    BY <1>0, <1>1, <1>2, <1>5, StartsTypes DEF TypeOK
  <2>2. \A q \in Engines : EngineSound(q)'
    BY <1>1, <1>2, <1>3, <1>5, StartsEngines
  <2>3. \A s \in Runs : RunSound(s)'
    BY <1>1, <1>2, <1>3, <1>5, StartsRuns
  <2>4. MapSound'
    <3>1. /\ UNCHANGED <<entry, terminal, made, stopping, stop, on, onexit>>
          /\ child' = [child EXCEPT ![r] = born + 1] /\ of' = [of EXCEPT ![born + 1] = r]
          /\ born + 1 \in Engines /\ born + 1 # 0 /\ born + 1 > born
      BY <1>0, <1>1, <1>5, Named, Parts DEF Starts
    <3>2. of[born + 1] = 0 /\ ~onexit[born + 1]
      BY <1>0, <3>1 DEF Sound, EngineSound
    <3>3. entry # 0 => entry \in Runs
      BY <1>0, Named
    <3>4. CASE entry = r
      <4>1. child'[entry'] # 0 /\ ~terminal'[entry'] /\ ~stopping'[entry'] /\ entry' <= made'
        BY <3>1, <3>4, <1>0, <1>1, <1>3 DEF TypeOK
      <4> QED
        BY <4>1 DEF MapSound
    <3>5. CASE entry # r
      <4>1. entry # 0 => child'[entry] = child[entry] /\ backoff'[entry] = backoff[entry]
        BY <3>1, <3>3, <3>5, <1>0, <1>2 DEF TypeOK
      <4>2. \A q \in Engines : onexit[q] => onexit'[q] /\ of'[q] = of[q]
        BY <3>1, <3>2, <1>0 DEF TypeOK
      <4> QED
        BY <4>1, <4>2, <3>1, <1>0 DEF Sound, MapSound, Waits
    <3> QED
      BY <3>4, <3>5
  <2> QED
    BY <2>1, <2>2, <2>3, <2>4, <1>4 DEF IInv, Sound
<1>6. CASE Throws(r)
  <2>0. /\ terminal' = [terminal EXCEPT ![r] = TRUE] /\ latest' = [latest EXCEPT ![r] = 0]
        /\ entry' = 0 /\ UNCHANGED <<child, born, of, proc, launch, noted>>
    BY <1>6 DEF Throws, GoTerminal
  <2>1. TypeOK'
    <3>1. 0 \in 0..MaxEngines
      BY EnginesAssumption
    <3>2. latest' \in [Runs -> 0..MaxEngines]
      BY <3>1, <2>0, <1>0 DEF TypeOK
    <3> QED
      BY <3>2, <2>0, <1>0, <1>1, <1>2, <1>6, TerminalTypes DEF TypeOK, Throws
  <2>2. ASSUME NEW q \in Engines PROVE EngineSound(q)'
    <3>1. of[q] # 0 => of[q] \in Runs
      BY <1>0, Named
    <3>2. of[q] # 0 /\ of[q] # r =>
            /\ latest'[of[q]] = latest[of[q]] /\ terminal'[of[q]] = terminal[of[q]]
            /\ backoff'[of[q]] = backoff[of[q]]
      BY <3>1, <2>0, <1>0, <1>2 DEF TypeOK
    <3>3. onexit[q] => of[q] # 0 /\ of[q] # r
      BY <1>0, <1>3 DEF Sound, EngineSound
    <3> QED
      BY <3>2, <3>3, <2>0, <1>0, <1>1 DEF Sound, EngineSound
  <2>3. ASSUME NEW s \in Runs PROVE RunSound(s)'
    <3>1. s # r => /\ latest'[s] = latest[s] /\ terminal'[s] = terminal[s]
                   /\ backoff'[s] = backoff[s]
      BY <2>0, <1>0, <1>2 DEF TypeOK
    <3>2. s = r => terminal'[s] /\ child[s] = 0 /\ ~backoff'[s] /\ ~(s > made)
      BY <2>0, <1>0, <1>1, <1>2, <1>3 DEF TypeOK
    <3> QED
      BY <3>1, <3>2, <2>0, <1>0, <1>1 DEF Sound, RunSound
  <2>4. MapSound'
    BY <2>0, <1>2 DEF MapSound
  <2> QED
    BY <2>1, <2>2, <2>3, <2>4, <1>4 DEF IInv, Sound
<1> QED
  BY <1>5, <1>6 DEF Relaunch

------------------------------------------------------------------------------
(* onExit() *)

(* The end of an engine, before its event is handled. *)
LEMMA ExitsKept ==
  ASSUME IInv, NEW p \in Engines, Exits(p)
  PROVE  IInv'
<1>0. TypeOK /\ Sound
  BY DEF IInv
<1>1. /\ proc[p] = "alive" /\ proc' \in [Engines -> {"none", "alive", "exited", "gone", "stillborn"}]
      /\ proc'[p] = (IF of[p] = 0 THEN "gone" ELSE "exited")
      /\ \A q \in Engines : q # p => proc'[q] = proc[q]
      /\ killed' \in [Engines -> BOOLEAN]
  BY <1>0 DEF Exits, TypeOK
<1>2. UNCHANGED <<app, entry, made, child, latest, stopping, terminal, ready, first, backoff,
                  exits, born, of, launch, noted, onexit, stop, on, loose, record, reap,
                  target, gaveUp, crashes>>
  BY DEF Exits, fields, stops, reaper
<1>3. TypeOK'
  BY <1>0, <1>1, <1>2 DEF TypeOK
<1>4. ASSUME NEW q \in Engines PROVE EngineSound(q)'
  <2>1. CASE q = p
    <3>1. ~(q > born) /\ ~onexit[q]
      BY <2>1, <1>0, <1>1 DEF Sound, EngineSound
    <3> QED
      BY <3>1, <2>1, <1>0, <1>1, <1>2 DEF Sound, EngineSound
  <2>2. CASE q # p
    BY <2>2, <1>0, <1>1, <1>2 DEF Sound, EngineSound
  <2> QED
    BY <2>1, <2>2
<1>5. ASSUME NEW s \in Runs PROVE RunSound(s)'
  <2>1. child[s] # 0 => child[s] \in Engines /\ s # 0
    BY <1>0, Named
  <2>2. child[s] # 0 => proc'[child[s]] \in {"alive", "exited", "stillborn"}
    BY <2>1, <1>0, <1>1 DEF Sound, RunSound
  <2> QED
    BY <2>2, <1>0, <1>2 DEF Sound, RunSound
<1>6. MapSound' /\ \A c \in Callers : StopSound(c)'
  BY <1>0, <1>2 DEF Sound, MapSound, StopSound, Waits
<1> QED
  BY <1>3, <1>4, <1>5, <1>6 DEF IInv, Sound

(* The event: the run has its exit under way instead of a child. *)
LEMMA OnExitKept ==
  ASSUME IInv, NEW p \in Engines, OnExit(p)
  PROVE  IInv'
<1>0. TypeOK /\ Sound
  BY DEF IInv
<1> DEFINE r == of[p]
<1>1. /\ proc[p] = "exited" /\ latest[r] = p
      /\ proc' = [proc EXCEPT ![p] = "gone"] /\ child' = [child EXCEPT ![r] = 0]
      /\ ready' = [ready EXCEPT ![r] = FALSE] /\ backoff' = [backoff EXCEPT ![r] = FALSE]
      /\ onexit' = [onexit EXCEPT ![p] = TRUE]
      /\ UNCHANGED <<app, entry, made, latest, stopping, terminal, first, exits, born, of,
                     killed, launch, noted, stop, on, loose, record, reap, target, gaveUp,
                     crashes>>
  BY DEF OnExit, stops, reaper
<1>2. /\ r \in Runs /\ r # 0 /\ child[r] = p /\ p # 0 /\ ~terminal[r] /\ ~(p > born)
      /\ r <= made
  BY <1>0, <1>1, Named DEF Sound, EngineSound, RunSound
<1> HIDE DEF r
<1>3. TypeOK'
  <2>1. 0 \in 0..MaxEngines
    BY EnginesAssumption
  <2>2. /\ proc' \in [Engines -> {"none", "alive", "exited", "gone", "stillborn"}]
        /\ child' \in [Runs -> 0..MaxEngines] /\ ready' \in [Runs -> BOOLEAN]
        /\ backoff' \in [Runs -> BOOLEAN] /\ onexit' \in [Engines -> BOOLEAN]
    BY <2>1, <1>0, <1>1 DEF TypeOK
  <2> QED
    BY <2>2, <1>0, <1>1 DEF TypeOK
<1>4. ASSUME NEW q \in Engines PROVE EngineSound(q)'
  <2>1. CASE q = p
    <3>1. /\ proc'[q] = "gone" /\ onexit'[q] /\ of'[q] = r /\ latest'[r] = q /\ child'[r] = 0
          /\ ~backoff'[r] /\ ~terminal'[r] /\ ~(q > born') /\ r <= made'
      BY <2>1, <1>0, <1>1, <1>2 DEF TypeOK, r
    <3> QED
      BY <3>1, <1>2 DEF EngineSound
  <2>2. CASE q # p
    <3>1. proc'[q] = proc[q] /\ onexit'[q] = onexit[q]
      BY <2>2, <1>0, <1>1 DEF TypeOK
    <3>2. of[q] = r => ~onexit[q] /\ proc[q] \notin {"alive", "exited", "stillborn"}
      BY <2>2, <1>0, <1>1, <1>2 DEF Sound, EngineSound
    <3>3. of[q] # 0 /\ of[q] # r => child'[of[q]] = child[of[q]] /\ backoff'[of[q]] = backoff[of[q]]
      BY <1>0, <1>1, Named DEF TypeOK
    <3>4. onexit[q] => of[q] # 0
      BY <1>0 DEF Sound, EngineSound
    <3> QED
      BY <3>1, <3>2, <3>3, <3>4, <1>0, <1>1 DEF Sound, EngineSound
  <2> QED
    BY <2>1, <2>2
<1>5. ASSUME NEW s \in Runs PROVE RunSound(s)'
  <2>1. CASE s = r
    BY <2>1, <1>0, <1>1, <1>2, RunsAssumption DEF Sound, RunSound, TypeOK
  <2>2. CASE s # r
    <3>1. child'[s] = child[s] /\ backoff'[s] = backoff[s] /\ s # 0
          /\ (child[s] # 0 => child[s] \in Engines)
      BY <2>2, <1>0, <1>1, Named DEF TypeOK
    <3>2. child[s] # 0 => child[s] # p
      BY <2>2, <1>0 DEF Sound, RunSound, r
    <3>3. child[s] # 0 => proc'[child[s]] = proc[child[s]]
      BY <3>1, <3>2, <1>0, <1>1 DEF TypeOK
    <3> QED
      BY <3>1, <3>3, <1>0, <1>1 DEF Sound, RunSound
  <2> QED
    BY <2>1, <2>2
<1>6. \A c \in Callers : StopSound(c)'
  BY <1>0, <1>1 DEF Sound, StopSound, Waits
<1>7. MapSound'
  <2>1. onexit'[p] /\ of'[p] = r
    BY <1>0, <1>1 DEF TypeOK, r
  <2>2. CASE entry = r
    <3>1. \E q \in Engines : of'[q] = entry' /\ onexit'[q]
      BY <2>1, <2>2, <1>1
    <3> QED
      BY <3>1, <2>2, <1>0, <1>1 DEF Sound, MapSound, Waits
  <2>3. CASE entry # r
    <3>1. entry # 0 => child'[entry] = child[entry] /\ backoff'[entry] = backoff[entry]
      BY <2>3, <1>0, <1>1, Named DEF TypeOK
    <3>2. \A q \in Engines : onexit[q] => onexit'[q]
      BY <1>0, <1>1 DEF TypeOK
    <3> QED
      BY <3>1, <3>2, <1>0, <1>1 DEF Sound, MapSound, Waits
  <2> QED
    BY <2>2, <2>3
<1> QED
  BY <1>3, <1>4, <1>5, <1>6, <1>7 DEF IInv, Sound

(* Past the unlink: the stops that wait are woken, or a restart is due, or   *)
(* the run is over.                                                         *)
LEMMA ExitGoesOnKept ==
  ASSUME IInv, NEW p \in Engines, ExitGoesOn(p)
  PROVE  IInv'
<1>0. TypeOK /\ Sound
  BY DEF IInv
<1> DEFINE r == of[p]
<1>1. /\ onexit[p] /\ onexit' = [onexit EXCEPT ![p] = FALSE] /\ record' = 0
      /\ UNCHANGED <<app, made, child, latest, stopping, ready, born, of, proc, killed, launch,
                     noted, on, reap, target, gaveUp, crashes>>
  BY DEF ExitGoesOn, engines, reaper
<1>2. /\ r \in Runs /\ r # 0 /\ r <= made /\ child[r] = 0 /\ latest[r] = p
      /\ ~backoff[r] /\ ~terminal[r]
  BY <1>0, <1>1, Named DEF Sound, EngineSound
<1>3. \A q \in Engines : q # p /\ onexit[q] => of[q] # r /\ onexit'[q]
  BY <1>0, <1>1, <1>2 DEF Sound, EngineSound, TypeOK
<1>4. \A q \in Engines : onexit'[q] => q # p /\ onexit[q]
  BY <1>0, <1>1 DEF TypeOK
<1>5. onexit' \in [Engines -> BOOLEAN] /\ record' \in 0..MaxEngines
  BY <1>0, <1>1, EnginesAssumption DEF TypeOK
<1> HIDE DEF r
<1>6. CASE /\ stopping[r]
           /\ stop' = [c \in Callers |-> IF c \in Waiting(r) THEN "finishing" ELSE stop[c]]
           /\ IF Waiting(r) = {} THEN UNCHANGED <<entry, first>> ELSE Finish(r)
           /\ UNCHANGED <<exits, terminal, loose, backoff>>
  <2>1. TypeOK'
    <3>1. stop' \in [Callers -> {"none", "graceful", "term", "kill", "finishing"}]
      BY <1>0, <1>6 DEF TypeOK
    <3>2. /\ first' \in [Runs -> {"none", "waiting", "resolved", "rejected"}]
          /\ entry' \in 0..MaxRuns
      BY <1>0, <1>6, SettlesTypes, RunsAssumption DEF TypeOK, Finish
    <3> QED
      BY <3>1, <3>2, <1>0, <1>1, <1>5, <1>6 DEF TypeOK
  <2>2. ASSUME NEW q \in Engines PROVE EngineSound(q)'
    BY <1>0, <1>1, <1>4, <1>6 DEF Sound, EngineSound
  <2>3. ASSUME NEW s \in Runs PROVE RunSound(s)'
    BY <1>0, <1>1, <1>6 DEF Sound, RunSound
  <2>4. ASSUME NEW c \in Callers PROVE StopSound(c)'
    <3>1. c \in Waiting(r) => on[c] = r /\ stop'[c] = "finishing" /\ stop[c] # "none"
      BY <1>6 DEF Waiting
    <3>2. c \notin Waiting(r) => stop'[c] = stop[c]
      BY <1>6
    <3> QED
      BY <3>1, <3>2, <1>0, <1>1 DEF Sound, StopSound, Waits
  <2>5. MapSound'
    <3>1. CASE Waiting(r) = {}
      <4>1. entry' = entry /\ \A c \in Callers : stop'[c] = stop[c]
        BY <3>1, <1>6
      <4>2. entry # r
        BY <3>1, <1>0, <1>2, <1>6 DEF Sound, MapSound, Waits, Waiting
      <4>3. \A q \in Engines : of[q] = entry /\ onexit[q] => onexit'[q]
        BY <4>2, <1>3 DEF r
      <4> QED
        BY <4>1, <4>3, <1>0, <1>1, <1>6 DEF Sound, MapSound, Waits
    <3>2. CASE Waiting(r) # {}
      <4>1. entry' = 0 /\ made' \in Nat
        BY <3>2, <1>0, <1>1, <1>6, Parts DEF Finish
      <4> QED
        BY <4>1 DEF MapSound
    <3> QED
      BY <3>1, <3>2
  <2> QED
    BY <2>1, <2>2, <2>3, <2>4, <2>5 DEF IInv, Sound
<1>7. ASSUME ~stopping[r], UNCHANGED stop,
             NEW n \in Counted(r), exits' = [exits EXCEPT ![r] = n],
             \/ GoTerminal(r) /\ UNCHANGED backoff
             \/ /\ n <= MaxRestarts
                /\ backoff' = [backoff EXCEPT ![r] = TRUE]
                /\ UNCHANGED <<terminal, loose, first, entry>>
      PROVE  IInv'
  <2>1. n \in Nat /\ n <= MaxRestarts + 1
    <3>1. exits[r] \in Nat /\ exits[r] <= MaxRestarts
      BY <1>0, <1>2, Parts DEF Sound, RunSound
    <3> QED
      BY <3>1, <1>7, RestartsAssumption DEF Counted
  <2>2. exits' \in [Runs -> 0..MaxRestarts + 1]
    <3>1. n \in 0..MaxRestarts + 1
      BY <2>1, RestartsAssumption
    <3> QED
      BY <3>1, <1>0, <1>7 DEF TypeOK
  <2>3. \A s \in Runs : s # r => exits'[s] = exits[s]
    BY <1>0, <1>7 DEF TypeOK
  <2>4. exits'[r] = n
    BY <1>0, <1>2, <1>7 DEF TypeOK
  <2>5. \A c \in Callers : StopSound(c)'
    BY <1>0, <1>1, <1>7 DEF Sound, StopSound, Waits
  <2>6. made' = made /\ made \in Nat
    BY <1>0, <1>1, Parts
  <2>7. CASE GoTerminal(r) /\ UNCHANGED backoff
    <3>1. TypeOK'
      BY <2>2, <2>7, <1>0, <1>1, <1>2, <1>5, <1>7, TerminalTypes DEF TypeOK
    <3>2. /\ terminal'[r] /\ entry' = 0
          /\ \A s \in Runs : s # r => terminal'[s] = terminal[s]
      BY <2>7, <1>0, <1>2 DEF GoTerminal, TypeOK
    <3>3. ASSUME NEW q \in Engines PROVE EngineSound(q)'
      <4>1. onexit'[q] => /\ onexit[q] /\ of[q] \in Runs /\ of[q] # r
                          /\ terminal'[of[q]] = terminal[of[q]]
        BY <3>2, <1>0, <1>3, <1>4, Named DEF Sound, EngineSound
      <4> QED
        BY <4>1, <2>7, <1>0, <1>1 DEF Sound, EngineSound
    <3>4. ASSUME NEW s \in Runs PROVE RunSound(s)'
      <4>1. CASE s = r
        <5>1. r \in Nat /\ ~(r > made)
          BY <1>0, <1>2, <2>6, Named
        <5> QED
          BY <4>1, <5>1, <3>2, <2>7, <1>1, <1>2 DEF RunSound
      <4>2. CASE s # r
        BY <4>2, <3>2, <2>3, <2>7, <1>0, <1>1 DEF Sound, RunSound
      <4> QED
        BY <4>1, <4>2
    <3>5. MapSound'
      BY <3>2, <2>6 DEF MapSound
    <3> QED
      BY <3>1, <3>3, <3>4, <3>5, <2>5 DEF IInv, Sound
  <2>8. CASE /\ n <= MaxRestarts
             /\ backoff' = [backoff EXCEPT ![r] = TRUE]
             /\ UNCHANGED <<terminal, loose, first, entry>>
    <3>1. TypeOK'
      BY <2>2, <2>8, <1>0, <1>1, <1>5, <1>7 DEF TypeOK
    <3>2. backoff'[r] /\ \A s \in Runs : s # r => backoff'[s] = backoff[s]
      BY <2>8, <1>0, <1>2 DEF TypeOK
    <3>3. ASSUME NEW q \in Engines PROVE EngineSound(q)'
      <4>1. onexit'[q] => /\ onexit[q] /\ of[q] \in Runs /\ of[q] # r
                          /\ backoff'[of[q]] = backoff[of[q]]
        BY <3>2, <1>0, <1>3, <1>4, Named DEF Sound, EngineSound
      <4> QED
        BY <4>1, <2>8, <1>0, <1>1 DEF Sound, EngineSound
    <3>4. ASSUME NEW s \in Runs PROVE RunSound(s)'
      <4>1. CASE s = r
        <5>1. r \in Nat /\ ~(r > made)
          BY <1>0, <1>2, <2>6, Named
        <5> QED
          BY <4>1, <5>1, <3>2, <2>4, <2>8, <1>1, <1>2, <1>7 DEF RunSound
      <4>2. CASE s # r
        BY <4>2, <3>2, <2>3, <2>8, <1>0, <1>1 DEF Sound, RunSound
      <4> QED
        BY <4>1, <4>2
    <3>5. MapSound'
      <4>1. CASE entry = r
        <5>1. entry' = r /\ backoff'[r] /\ ~terminal'[r] /\ ~stopping'[r] /\ r <= made'
          BY <4>1, <3>2, <2>6, <2>8, <1>1, <1>2, <1>7
        <5> QED
          BY <5>1 DEF MapSound
      <4>2. CASE entry # r
        <5>1. entry # 0 => backoff'[entry] = backoff[entry]
          BY <4>2, <3>2, <1>0, Named
        <5>2. \A q \in Engines : of[q] = entry /\ onexit[q] => onexit'[q]
          BY <4>2, <1>3 DEF r
        <5> QED
          BY <5>1, <5>2, <2>8, <1>0, <1>1, <1>7 DEF Sound, MapSound, Waits
      <4> QED
        BY <4>1, <4>2
    <3> QED
      BY <3>1, <3>3, <3>4, <3>5, <2>5 DEF IInv, Sound
  <2> QED
    BY <2>7, <2>8, <1>7
<1> QED
  <2>1. CASE stopping[r]
    BY <2>1, <1>6 DEF ExitGoesOn, r
  <2>2. CASE ~stopping[r]
    BY <2>2, <1>7 DEF ExitGoesOn, r
  <2> QED
    BY <2>1, <2>2

------------------------------------------------------------------------------
(* stop() and the death of the app *)

(* A stop begins: the run is to stop, and has no restart due any more. *)
LEMMA StopKept ==
  ASSUME IInv, NEW c \in Callers, NEW force \in BOOLEAN, Stop(c, force)
  PROVE  IInv'
<1>0. TypeOK /\ Sound
  BY DEF IInv
<1> DEFINE r == entry
<1>1. /\ r # 0 /\ stop[c] = "none" /\ on' = [on EXCEPT ![c] = r]
      /\ stopping' = [stopping EXCEPT ![r] = TRUE] /\ backoff' = [backoff EXCEPT ![r] = FALSE]
      /\ UNCHANGED <<app, made, child, latest, terminal, ready, exits, born, of, proc, launch,
                     noted, onexit, loose, record, reap, target, gaveUp, crashes>>
  BY DEF Stop, reaper
<1>2. /\ r \in Runs /\ r \in 0..MaxRuns /\ r <= made /\ ~terminal[r] /\ on[c] = 0
  BY <1>0, <1>1, Named DEF Sound, MapSound, StopSound, TypeOK
<1>3. made' = made /\ made \in Nat
  BY <1>0, <1>1, Parts
<1>4. \/ /\ Finish(r) /\ stop' = [stop EXCEPT ![c] = "finishing"] /\ UNCHANGED killed
      \/ /\ stop' = [stop EXCEPT ![c] = IF force THEN "kill" ELSE "graceful"]
         /\ HardKill(r) \/ UNCHANGED killed
         /\ UNCHANGED <<entry, first>>
  BY DEF Stop
<1> HIDE DEF r
<1>5. TypeOK'
  <2>1. killed' \in [Engines -> BOOLEAN]
    BY <1>0, <1>4, HardKillTypes DEF TypeOK
  <2>2. /\ first' \in [Runs -> {"none", "waiting", "resolved", "rejected"}]
        /\ entry' \in 0..MaxRuns
    BY <1>0, <1>4, SettlesTypes, RunsAssumption DEF TypeOK, Finish
  <2>3. stop' \in [Callers -> {"none", "graceful", "term", "kill", "finishing"}]
    BY <1>0, <1>4 DEF TypeOK
  <2>4. /\ on' \in [Callers -> 0..MaxRuns]
        /\ stopping' \in [Runs -> BOOLEAN] /\ backoff' \in [Runs -> BOOLEAN]
    BY <1>0, <1>1, <1>2 DEF TypeOK
  <2> QED
    BY <2>1, <2>2, <2>3, <2>4, <1>0, <1>1 DEF TypeOK
<1>6. \A s \in Runs : (backoff'[s] => backoff[s] /\ s # r)
  BY <1>0, <1>1 DEF TypeOK
<1>7. ASSUME NEW q \in Engines PROVE EngineSound(q)'
  <2>1. onexit[q] => of[q] \in Runs
    BY <1>0, Named DEF Sound, EngineSound
  <2> QED
    BY <2>1, <1>0, <1>1, <1>6 DEF Sound, EngineSound
<1>8. ASSUME NEW s \in Runs PROVE RunSound(s)'
  <2>1. CASE s = r
    <3>1. ~(r > made) /\ ~backoff'[r]
      BY <1>0, <1>2, <1>3, <1>6, Named
    <3> QED
      BY <3>1, <2>1, <1>0, <1>1 DEF Sound, RunSound
  <2>2. CASE s # r
    <3>1. stopping'[s] = stopping[s]
      BY <2>2, <1>0, <1>1 DEF TypeOK
    <3> QED
      BY <3>1, <1>0, <1>1, <1>6 DEF Sound, RunSound
  <2> QED
    BY <2>1, <2>2
<1>9. stop'[c] # "none" /\ on'[c] = r /\ stopping'[r]
      /\ \A d \in Callers : d # c => stop'[d] = stop[d] /\ on'[d] = on[d]
  BY <1>0, <1>1, <1>2, <1>4 DEF TypeOK
<1>10. ASSUME NEW d \in Callers PROVE StopSound(d)'
  <2>1. CASE d = c
    BY <2>1, <1>1, <1>2, <1>9 DEF StopSound, Waits
  <2>2. CASE d # c
    <3>1. Waits(d) => on[d] \in Runs
      BY <1>0, Named DEF Sound, StopSound, Waits
    <3>2. Waits(d) => stopping'[on[d]]
      BY <3>1, <1>0, <1>1 DEF Sound, StopSound, TypeOK
    <3> QED
      BY <3>2, <2>2, <1>0, <1>1, <1>9 DEF Sound, StopSound, Waits
  <2> QED
    BY <2>1, <2>2
<1>11. MapSound'
  <2>1. CASE Finish(r)
    <3>1. entry' = 0
      BY <2>1 DEF Finish
    <3> QED
      BY <3>1, <1>3 DEF MapSound
  <2>2. CASE /\ stop' = [stop EXCEPT ![c] = IF force THEN "kill" ELSE "graceful"]
             /\ UNCHANGED <<entry, first>>
    <3>1. Waits(c)' /\ entry' = r
      BY <2>2, <1>0 DEF Waits, TypeOK, r
    <3>2. ~terminal'[r] /\ stopping'[r] /\ r <= made'
      BY <1>1, <1>2, <1>3, <1>9
    <3>3. \E d \in Callers : on'[d] = entry' /\ Waits(d)'
      BY <3>1, <1>9
    <3> QED
      BY <3>1, <3>2, <3>3 DEF MapSound
  <2> QED
    BY <2>1, <2>2, <1>4
<1> QED
  BY <1>5, <1>7, <1>8, <1>10, <1>11 DEF IInv, Sound

(* The next rung, or SIGKILL in vain, or the end of a stop. *)
LEMMA StopStepKept ==
  ASSUME IInv, NEW c \in Callers, StopStep(c)
  PROVE  IInv'
<1>0. TypeOK /\ Sound
  BY DEF IInv
<1>1. /\ UNCHANGED <<app, made, child, latest, stopping, terminal, ready, backoff, exits, born,
                     of, proc, launch, noted, onexit, loose, reap, target, crashes>>
  BY DEF StopStep, StopClimbs, StopGivesUp, StopEnds, fields, engines, reaper
<1>2. made' = made /\ made \in Nat
  BY <1>0, <1>1, Parts
<1>3. (\A q \in Engines : EngineSound(q)') /\ (\A s \in Runs : RunSound(s)')
  BY <1>0, <1>1 DEF Sound, EngineSound, RunSound
<1>4. CASE StopClimbs(c)
  <2>1. TypeOK'
    <3>1. killed' \in [Engines -> BOOLEAN]
      BY <1>0, <1>4, HardKillTypes DEF StopClimbs, TypeOK
    <3>2. stop' \in [Callers -> {"none", "graceful", "term", "kill", "finishing"}]
      BY <1>0, <1>4 DEF StopClimbs, TypeOK
    <3> QED
      BY <3>1, <3>2, <1>0, <1>4 DEF StopClimbs, TypeOK, fields, reaper
  <2>2. /\ UNCHANGED <<on, entry>> /\ Waits(c) /\ stop'[c] \in {"term", "kill"}
        /\ \A d \in Callers : d # c => stop'[d] = stop[d]
    BY <1>0, <1>4 DEF StopClimbs, TypeOK, Waits
  <2>3. \A d \in Callers : /\ Waits(d)' <=> Waits(d)
                           /\ stop'[d] = "none" <=> stop[d] = "none"
    BY <2>2 DEF Waits
  <2>4. \A d \in Callers : StopSound(d)'
    BY <2>2, <2>3, <1>0, <1>1 DEF Sound, StopSound
  <2>5. MapSound'
    BY <2>2, <2>3, <1>0, <1>1 DEF Sound, MapSound
  <2> QED
    BY <2>1, <2>4, <2>5, <1>3 DEF IInv, Sound
<1>5. CASE StopGivesUp(c)
  <2>1. on[c] \in Runs
    BY <1>0, <1>5, Named DEF StopGivesUp, Sound, StopSound
  <2>2. TypeOK'
    <3>1. gaveUp' \in [Runs -> BOOLEAN]
      BY <2>1, <1>0, <1>5 DEF StopGivesUp, TypeOK, HasChild
    <3>2. stop' \in [Callers -> {"none", "graceful", "term", "kill", "finishing"}]
      BY <1>0, <1>5 DEF StopGivesUp, TypeOK
    <3>3. /\ first' \in [Runs -> {"none", "waiting", "resolved", "rejected"}]
          /\ entry' \in 0..MaxRuns
      BY <1>0, <1>5, SettlesTypes, RunsAssumption DEF StopGivesUp, Finish
    <3> QED
      BY <3>1, <3>2, <3>3, <1>0, <1>5 DEF StopGivesUp, TypeOK, engines, reaper
  <2>3. /\ stop[c] = "kill" /\ stop'[c] = "finishing" /\ UNCHANGED on /\ entry' = 0
        /\ \A d \in Callers : d # c => stop'[d] = stop[d]
    BY <1>0, <1>5 DEF StopGivesUp, Finish, TypeOK
  <2>4. \A d \in Callers : StopSound(d)'
    BY <2>3, <1>0, <1>1 DEF Sound, StopSound, Waits
  <2>5. MapSound'
    BY <2>3, <1>2 DEF MapSound
  <2> QED
    BY <2>2, <2>4, <2>5, <1>3 DEF IInv, Sound
<1>6. CASE StopEnds(c)
  <2>1. TypeOK'
    <3>1. record' \in 0..MaxEngines
      BY <1>6, EnginesAssumption DEF StopEnds
    <3>2. 0 \in 0..MaxRuns
      BY RunsAssumption
    <3>3. on' \in [Callers -> 0..MaxRuns]
          /\ stop' \in [Callers -> {"none", "graceful", "term", "kill", "finishing"}]
      BY <3>2, <1>0, <1>6 DEF StopEnds, TypeOK
    <3> QED
      BY <3>1, <3>3, <1>0, <1>6 DEF StopEnds, TypeOK, fields, engines, reaper
  <2>2. /\ stop[c] = "finishing" /\ stop'[c] = "none" /\ on'[c] = 0 /\ UNCHANGED entry
        /\ \A d \in Callers : d # c => stop'[d] = stop[d] /\ on'[d] = on[d]
    BY <1>0, <1>6 DEF StopEnds, TypeOK
  <2>3. ASSUME NEW d \in Callers PROVE StopSound(d)'
    <3>1. CASE d = c
      BY <3>1, <2>2, <1>2 DEF StopSound, Waits
    <3>2. CASE d # c
      BY <3>2, <2>2, <1>0, <1>1 DEF Sound, StopSound, Waits
    <3> QED
      BY <3>1, <3>2
  <2>4. \A d \in Callers : Waits(d) => Waits(d)' /\ on'[d] = on[d]
    BY <2>2 DEF Waits
  <2>5. MapSound'
    BY <2>2, <2>4, <1>0, <1>1 DEF Sound, MapSound
  <2> QED
    BY <2>1, <2>3, <2>5, <1>3 DEF IInv, Sound
<1> QED
  BY <1>4, <1>5, <1>6 DEF StopStep

(* The app dies: the engines that are left have no run. *)
LEMMA CrashKept ==
  ASSUME IInv, Crash
  PROVE  IInv'
<1>0. TypeOK /\ Sound
  BY DEF IInv
<1>1. TypeOK'
  <2>1. /\ 0 \in 0..MaxEngines /\ 0 \in 0..MaxRuns /\ 0 \in 0..MaxRestarts + 1
        /\ crashes' \in 0..MaxCrashes
    BY <1>0, RunsAssumption, EnginesAssumption, CrashesAssumption, RestartsAssumption
       DEF Crash, TypeOK
  <2>2. proc' \in [Engines -> {"none", "alive", "exited", "gone", "stillborn"}]
    BY <1>0 DEF Crash, TypeOK
  <2> QED
    BY <2>1, <2>2, <1>0 DEF Crash, TypeOK
<1>2. made' = made /\ made \in Nat
  BY <1>0, Parts DEF Crash
<1>3. ASSUME NEW q \in Engines PROVE EngineSound(q)'
  BY <1>0, <1>2 DEF Crash, Sound, EngineSound
<1>4. ASSUME NEW s \in Runs PROVE RunSound(s)'
  BY RestartsAssumption DEF Crash, RunSound
<1>5. ASSUME NEW c \in Callers PROVE StopSound(c)'
  BY <1>2 DEF Crash, StopSound, Waits
<1>6. MapSound'
  BY <1>2 DEF Crash, MapSound
<1> QED
  BY <1>1, <1>3, <1>4, <1>5, <1>6 DEF IInv, Sound

------------------------------------------------------------------------------
(* Every step keeps the invariant *)

(* Each action keeps the invariant. *)
LEMMA StepKept ==
  ASSUME IInv, [Next]_vars
  PROVE  IInv'
<1>1. CASE UNCHANGED vars
  <2>1. TypeOK /\ Sound
    BY DEF IInv
  <2>2. TypeOK'
    BY <2>1, <1>1 DEF vars, TypeOK, fields, engines, stops, reaper
  <2>3. Quiet
    BY <1>1 DEF vars, Quiet, fields, engines
  <2> QED
    BY <2>1, <2>2, <2>3, QuietSound DEF IInv
<1>2. CASE Spawn
  BY <1>2, SpawnKept
<1>3. CASE Crash
  BY <1>3, CrashKept
<1>4. CASE Boot \/ ReapStep
  BY <1>4, ReapKept
<1>5. ASSUME NEW r \in Runs, Relaunch(r) \/ Unhealthy(r) \/ LooseUnlink(r)
      PROVE  IInv'
  BY <1>5, RelaunchKept, TimersKept
<1>6. ASSUME NEW p \in Engines,
             FileStep(p) \/ Readiness(p) \/ Exits(p) \/ OnExit(p) \/ ExitGoesOn(p)
      PROVE  IInv'
  BY <1>6, FileStepKept, ReadinessKept, ExitsKept, OnExitKept, ExitGoesOnKept
<1>7. ASSUME NEW c \in Callers, StopStep(c) \/ \E force \in BOOLEAN : Stop(c, force)
      PROVE  IInv'
  BY <1>7, StopStepKept, StopKept
<1> QED
  BY <1>1, <1>2, <1>3, <1>4, <1>5, <1>6, <1>7 DEF Next

(* The invariant holds in every state. *)
LEMMA Always == Spec => []IInv
<1>1. IInv /\ [Next]_vars => IInv'
  BY StepKept
<1> QED
  BY InitIInv, <1>1, PTL DEF Spec

(* The state of the supervisor stays in its types. *)
THEOREM TypeCorrect == Spec => []TypeOK
<1>1. IInv => TypeOK
  BY DEF IInv
<1> QED
  BY Always, <1>1, PTL

(* What spawn() finds in the map is not terminal and has something under way, *)
(* or its program could not be started: but for that case it never hands out  *)
(* a handle of a run that nothing will end or start again.                   *)
THEOREM MapHasNoCorpse == Spec => []NoCorpse
<1>1. IInv => NoCorpse
  <2>1. IInv => MapSound
    BY DEF IInv, Sound
  <2>2. child[entry] # 0 => HasChild(entry) \/ Stillborn(entry)
    BY DEF HasChild, Stillborn
  <2>3. ASSUME NEW c \in Callers, on[c] = entry, Waits(c)
        PROVE  c \in Waiting(entry)
    BY <2>3 DEF Waits, Waiting
  <2> QED
    BY <2>1, <2>2, <2>3 DEF MapSound, NoCorpse, UnderWay
<1> QED
  BY Always, <1>1, PTL

------------------------------------------------------------------------------
(* One engine at a time *)

(* Stops of the same run do not overlap. *)
NoOverlap == \A c, d \in Callers : on[c] # 0 /\ on[c] = on[d] => c = d

(* The run has an engine, or will start one. *)
AtWork(r) ==
  \/ HasChild(r) \/ backoff[r]
  \/ ~stopping[r] /\ \E p \in Engines : of[p] = r /\ onexit[p]

(* Only the run in the map is at work, and only that run is being stopped:    *)
(* whoever deletes by id deletes a run of their own.                        *)
Orderly ==
  /\ \A r \in Runs : AtWork(r) => entry = r
  /\ \A c \in Callers : Waits(c) => entry = on[c]

Known == SomethingWontDie \/ Orderly

(* What neither starts nor stops a run, nor takes it off the map, keeps order. *)
LEMMA NarrowKeepsOrder ==
  ASSUME Orderly, UNCHANGED entry,
         \A r \in Runs : AtWork(r)' => AtWork(r),
         \A c \in Callers : Waits(c)' => Waits(c) /\ on'[c] = on[c]
  PROVE  Orderly'
  BY DEF Orderly

(* An empty map is in order if nothing is at work. *)
LEMMA EmptyIsInOrder ==
  ASSUME \A r \in Runs : ~AtWork(r)', \A c \in Callers : ~Waits(c)'
  PROVE  Orderly'
  BY DEF Orderly

(* A run of which the step changes nothing is not at work if it was not. *)
LEMMA SameWork ==
  ASSUME IInv, NEW r \in Runs,
         child'[r] = child[r], child[r] # 0 => proc'[child[r]] = proc[child[r]],
         backoff'[r] = backoff[r], stopping'[r] = stopping[r],
         \A p \in Engines : of'[p] = r /\ onexit'[p] => of[p] = r /\ onexit[p]
  PROVE  AtWork(r)' => AtWork(r)
  BY DEF AtWork, HasChild

(* So do the steps on files, timers and orphans. *)
LEMMA QuietKeepsOrder ==
  ASSUME IInv, Orderly, Quiet
  PROVE  Orderly'
<1>1. \A r \in Runs : AtWork(r)' => AtWork(r)
  BY DEF Quiet, AtWork, HasChild
<1>2. \A c \in Callers : Waits(c)' => Waits(c) /\ on'[c] = on[c]
  BY DEF Quiet, Waits, stops
<1> QED
  BY <1>1, <1>2, NarrowKeepsOrder DEF Quiet

(* An attempt touches the work of its own run only. *)
LEMMA StartsWork ==
  ASSUME IInv, NEW r \in Runs, Starts(r) \/ Throws(r), NEW s \in Runs, s # r,
         backoff'[s] = backoff[s], UNCHANGED <<stopping, onexit>>
  PROVE  AtWork(s)' => AtWork(s)
<1>0. TypeOK /\ Sound
  BY DEF IInv
<1>1. CASE Starts(r)
  <2> DEFINE p == born + 1
  <2>1. p \in Engines /\ p > born
    BY <1>0, <1>1, Named, Parts DEF Starts
  <2>2. of[p] = 0
    BY <2>1, <1>0 DEF Sound, EngineSound
  <2>3. /\ child' = [child EXCEPT ![r] = p] /\ of' = [of EXCEPT ![p] = r]
        /\ \A q \in Engines : q # p => proc'[q] = proc[q]
    BY <1>0, <1>1, <2>1 DEF Starts, TypeOK
  <2> HIDE DEF p
  <2>4. s # 0 /\ (child[s] # 0 => child[s] \in Engines)
    BY <1>0, Named
  <2>5. child'[s] = child[s] /\ (child[s] # 0 => child[s] # p)
    BY <2>2, <2>3, <2>4, <1>0 DEF TypeOK, Sound, RunSound
  <2>6. child[s] # 0 => proc'[child[s]] = proc[child[s]]
    BY <2>3, <2>4, <2>5
  <2>7. \A q \in Engines : of'[q] = s => of[q] = s
    BY <2>3, <1>0 DEF TypeOK
  <2> QED
    BY <2>5, <2>6, <2>7, SameWork
<1>2. CASE Throws(r)
  BY <1>2, SameWork DEF Throws
<1> QED
  BY <1>1, <1>2

(* spawn() finds the map empty, hence nothing at work. *)
LEMMA SpawnKeepsOrder ==
  ASSUME IInv, Orderly, Spawn
  PROVE  Orderly'
<1>0. TypeOK /\ Sound
  BY DEF IInv
<1>r. PICK r : r = made + 1
  OBVIOUS
<1>1. /\ r \in Runs /\ entry = 0 /\ UNCHANGED <<stopping, backoff, onexit, stop, on>>
      /\ \/ Starts(r) /\ entry' = r
         \/ Throws(r)
  BY <1>r, <1>0, Named DEF Spawn, stops
<1>2. /\ child[r] = 0 /\ ~backoff[r] /\ made \in Nat
      /\ \A p \in Engines : of[p] \in Nat /\ of[p] <= made
  BY <1>r, <1>0, <1>1, Parts DEF Sound, RunSound, EngineSound
<1>3. \A p \in Engines : of[p] # r
  BY <1>r, <1>2
<1>4. (\A s \in Runs : ~AtWork(s)) /\ (\A c \in Callers : ~Waits(c))
  <2>1. \A s \in Runs : s # 0
    BY <1>0, Named
  <2>2. \A c \in Callers : Waits(c) => on[c] # 0
    BY <1>0 DEF Sound, StopSound, Waits
  <2> QED
    BY <2>1, <2>2, <1>1 DEF Orderly
<1>5. \A s \in Runs : s # r => ~AtWork(s)'
  BY <1>1, <1>4, StartsWork
<1>6. \A c \in Callers : ~Waits(c)'
  BY <1>1, <1>4 DEF Waits
<1>7. CASE Starts(r) /\ entry' = r
  BY <1>5, <1>6, <1>7 DEF Orderly
<1>8. CASE Throws(r)
  <2>1. child'[r] = 0 /\ ~backoff'[r] /\ \A q \in Engines : of'[q] # r
    BY <1>1, <1>2, <1>3, <1>8 DEF Throws
  <2>2. ~AtWork(r)'
    BY <2>1 DEF AtWork, HasChild
  <2>3. \A s \in Runs : ~AtWork(s)'
    BY <2>2, <1>5
  <2> QED
    BY <2>3, <1>6, EmptyIsInOrder
<1> QED
  BY <1>1, <1>7, <1>8

(* A restart is of the run in the map, the only one at work. *)
LEMMA RelaunchKeepsOrder ==
  ASSUME IInv, Orderly, NEW r \in Runs, Relaunch(r)
  PROVE  Orderly'
<1>0. TypeOK /\ Sound
  BY DEF IInv
<1>1. /\ backoff[r] /\ ~stopping[r] /\ backoff' = [backoff EXCEPT ![r] = FALSE]
      /\ UNCHANGED <<stopping, onexit, stop, on>>
      /\ \/ Starts(r) /\ UNCHANGED entry
         \/ Throws(r)
  BY DEF Relaunch, stops
<1>2. /\ child[r] = 0 /\ \A p \in Engines : of[p] = r => ~onexit[p]
  BY <1>0, <1>1 DEF Sound, RunSound, EngineSound
<1>3. entry = r /\ \A s \in Runs : s # r => ~AtWork(s)
  BY <1>1 DEF Orderly, AtWork
<1>4. \A c \in Callers : ~Waits(c)
  BY <1>0, <1>1, <1>3 DEF Orderly, Sound, StopSound
<1>5. ~backoff'[r] /\ \A s \in Runs : s # r => backoff'[s] = backoff[s]
  BY <1>0, <1>1 DEF TypeOK
<1>6. \A s \in Runs : s # r => ~AtWork(s)'
  BY <1>1, <1>3, <1>5, StartsWork
<1>7. \A c \in Callers : ~Waits(c)'
  BY <1>1, <1>4 DEF Waits
<1>8. CASE Starts(r) /\ UNCHANGED entry
  BY <1>3, <1>6, <1>7, <1>8 DEF Orderly
<1>9. CASE Throws(r)
  <2>1. ~AtWork(r)'
    BY <1>1, <1>2, <1>5, <1>9 DEF AtWork, HasChild, Throws
  <2> QED
    BY <2>1, <1>6, <1>7, EmptyIsInOrder
<1> QED
  BY <1>1, <1>8, <1>9

(* A run whose engine ends was at work before. *)
LEMMA ExitKeepsOrder ==
  ASSUME IInv, Orderly, NEW p \in Engines, Exits(p) \/ OnExit(p)
  PROVE  Orderly'
<1>0. TypeOK /\ Sound
  BY DEF IInv
<1>1. /\ UNCHANGED <<entry, stopping, of, stop, on>>
      /\ proc[p] \in {"alive", "exited"}
      /\ \A q \in Engines : q # p => proc'[q] = proc[q] /\ onexit'[q] = onexit[q]
  BY <1>0 DEF Exits, OnExit, TypeOK, fields, stops
<1>2. ASSUME NEW s \in Runs, AtWork(s)'
      PROVE  AtWork(s)
  <2>0. child[s] # 0 => child[s] \in Engines
    BY <1>0, Named
  <2>1. CASE of[p] = s
    <3>1. child[s] = p /\ p # 0
      BY <2>1, <1>0, <1>1, Named DEF Sound, EngineSound
    <3> QED
      BY <3>1, <1>1 DEF AtWork, HasChild
  <2>2. CASE of[p] # s
    <3>1. child[s] # 0 => child[s] # p
      <4>1. child[s] # 0 => of[child[s]] = s
        BY <1>0 DEF Sound, RunSound
      <4> QED
        BY <4>1, <2>2
    <3>2. child'[s] = child[s] /\ backoff'[s] = backoff[s]
      <4>1. CASE Exits(p)
        BY <4>1 DEF Exits, fields
      <4>2. CASE OnExit(p)
        <5>1. /\ child' = [child EXCEPT ![of[p]] = 0]
              /\ backoff' = [backoff EXCEPT ![of[p]] = FALSE]
          BY <4>2 DEF OnExit
        <5> QED
          BY <5>1, <2>2, <1>0 DEF TypeOK
      <4> QED
        BY <4>1, <4>2
    <3>3. child[s] # 0 => proc'[child[s]] = proc[child[s]]
      BY <3>1, <2>0, <1>1
    <3>4. \A q \in Engines : of'[q] = s /\ onexit'[q] => of[q] = s /\ onexit[q]
      BY <2>2, <1>1
    <3> QED
      BY <3>2, <3>3, <3>4, <1>1, <1>2, SameWork
  <2> QED
    BY <2>1, <2>2
<1>3. \A c \in Callers : Waits(c)' => Waits(c) /\ on'[c] = on[c]
  BY <1>1 DEF Waits
<1> QED
  BY <1>1, <1>2, <1>3, NarrowKeepsOrder

(* Past the unlink: the run that leaves the map is the one in it. *)
LEMMA ExitGoesOnKeepsOrder ==
  ASSUME IInv, Orderly, NEW p \in Engines, ExitGoesOn(p)
  PROVE  Orderly'
<1>0. TypeOK /\ Sound
  BY DEF IInv
<1>r. PICK r : r = of[p]
  OBVIOUS
<1>1. /\ onexit[p] /\ onexit' = [onexit EXCEPT ![p] = FALSE]
      /\ UNCHANGED <<child, stopping, of, proc, on>>
      /\ \A q \in Engines : onexit'[q] => q # p /\ onexit[q]
  BY <1>0 DEF ExitGoesOn, engines, TypeOK
<1>2. /\ r \in Runs /\ child[r] = 0 /\ ~backoff[r]
      /\ \A q \in Engines : of[q] = r /\ onexit[q] => q = p
  BY <1>r, <1>0, <1>1, Named DEF Sound, EngineSound
<1>3. ASSUME NEW s \in Runs, backoff'[s] = backoff[s]
      PROVE  AtWork(s)' => AtWork(s)
  BY <1>0, <1>1, <1>3, SameWork
<1>4. ~backoff'[r] => ~AtWork(r)'
  <2>1. child'[r] = 0 /\ \A q \in Engines : ~(of'[q] = r /\ onexit'[q])
    BY <1>1, <1>2
  <2> QED
    BY <2>1 DEF AtWork, HasChild
<1>5. CASE /\ stopping[r] /\ UNCHANGED backoff
           /\ stop' = [c \in Callers |-> IF c \in Waiting(r) THEN "finishing" ELSE stop[c]]
           /\ IF Waiting(r) = {} THEN UNCHANGED <<entry, first>> ELSE Finish(r)
  <2>1. \A c \in Callers : Waits(c)' => Waits(c) /\ on'[c] = on[c] /\ on[c] # r
    BY <1>1, <1>5 DEF Waits, Waiting
  <2>2. CASE Waiting(r) = {}
    BY <2>1, <2>2, <1>3, <1>5, NarrowKeepsOrder
  <2>3. CASE Waiting(r) # {}
    <3>1. entry = r /\ entry' = 0
      BY <2>3, <1>5 DEF Waiting, Finish, Orderly, Waits
    <3>2. \A s \in Runs : ~AtWork(s)'
      <4>1. ~AtWork(r)'
        BY <1>2, <1>4, <1>5
      <4>2. ASSUME NEW s \in Runs, s # r PROVE ~AtWork(s)'
        BY <4>2, <3>1, <1>3, <1>5 DEF Orderly
      <4> QED
        BY <4>1, <4>2
    <3>3. \A c \in Callers : ~Waits(c)'
      BY <3>1, <2>1 DEF Orderly
    <3> QED
      BY <3>2, <3>3, EmptyIsInOrder
  <2> QED
    BY <2>2, <2>3
<1>6. CASE /\ ~stopping[r] /\ UNCHANGED stop
           /\ \/ GoTerminal(r) /\ UNCHANGED backoff
              \/ backoff' = [backoff EXCEPT ![r] = TRUE] /\ UNCHANGED entry
  <2>1. entry = r
    BY <1>r, <1>1, <1>2, <1>6 DEF Orderly, AtWork
  <2>2. \A c \in Callers : ~Waits(c)
    BY <2>1, <1>0, <1>6 DEF Orderly, Sound, StopSound
  <2>3. \A c \in Callers : ~Waits(c)'
    BY <2>2, <1>6 DEF Waits
  <2>4. \A s \in Runs : s # r => ~AtWork(s)'
    <3>1. \A s \in Runs : s # r => backoff'[s] = backoff[s]
      BY <1>0, <1>6 DEF TypeOK
    <3> QED
      BY <3>1, <2>1, <1>3 DEF Orderly
  <2>5. CASE GoTerminal(r) /\ UNCHANGED backoff
    <3>1. \A s \in Runs : ~AtWork(s)'
      BY <2>4, <2>5, <1>2, <1>4
    <3> QED
      BY <3>1, <2>3, EmptyIsInOrder
  <2>6. CASE UNCHANGED entry
    BY <2>1, <2>3, <2>4, <2>6 DEF Orderly
  <2> QED
    BY <2>5, <2>6, <1>6
<1> QED
  <2>1. CASE stopping[r]
    BY <1>r, <2>1, <1>5 DEF ExitGoesOn
  <2>2. CASE ~stopping[r]
    BY <1>r, <2>2, <1>6 DEF ExitGoesOn
  <2> QED
    BY <2>1, <2>2

(* A stop that finds no child empties the map: nobody else waits on the run. *)
LEMMA StopKeepsOrder ==
  ASSUME IInv, Orderly, NoOverlap', NEW c \in Callers, NEW force \in BOOLEAN, Stop(c, force)
  PROVE  Orderly'
<1>0. TypeOK /\ Sound
  BY DEF IInv
<1>r. PICK r : r = entry
  OBVIOUS
<1>1. /\ r \in Runs /\ r # 0 /\ on' = [on EXCEPT ![c] = r]
      /\ stopping' = [stopping EXCEPT ![r] = TRUE] /\ backoff' = [backoff EXCEPT ![r] = FALSE]
      /\ UNCHANGED <<child, of, proc, onexit>>
  BY <1>r, <1>0, Named DEF Stop
<1>2. \/ ~HasChild(r) /\ entry' = 0 /\ stop' = [stop EXCEPT ![c] = "finishing"]
      \/ /\ UNCHANGED entry
         /\ stop' = [stop EXCEPT ![c] = IF force THEN "kill" ELSE "graceful"]
  BY <1>r DEF Stop, Finish
<1>3. on'[c] = r /\ \A d \in Callers : d # c => stop'[d] = stop[d] /\ on'[d] = on[d]
  BY <1>0, <1>1, <1>2 DEF TypeOK
<1>4. stopping'[r] /\ ~backoff'[r]
      /\ \A s \in Runs : s # r => stopping'[s] = stopping[s] /\ backoff'[s] = backoff[s]
  BY <1>0, <1>1 DEF TypeOK
<1>5. ASSUME NEW s \in Runs, s # r PROVE ~AtWork(s)'
  <2>1. AtWork(s)' => AtWork(s)
    BY <1>1, <1>4, <1>5, SameWork
  <2> QED
    BY <1>r, <2>1, <1>5 DEF Orderly
<1>6. ~HasChild(r) => ~AtWork(r)'
  BY <1>1, <1>4 DEF AtWork, HasChild
<1>7. \A d \in Callers : d # c /\ Waits(d)' => on'[d] = r
  BY <1>r, <1>3 DEF Orderly, Waits
<1>8. CASE ~HasChild(r) /\ entry' = 0 /\ stop' = [stop EXCEPT ![c] = "finishing"]
  <2>1. ~Waits(c)'
    BY <1>0, <1>8 DEF Waits, TypeOK
  <2>2. ASSUME NEW d \in Callers, Waits(d)' PROVE FALSE
    <3>1. d # c /\ on'[d] = r
      BY <2>1, <2>2, <1>7
    <3> QED
      BY <3>1, <1>1, <1>3 DEF NoOverlap
  <2>3. \A s \in Runs : ~AtWork(s)'
    BY <1>5, <1>6, <1>8
  <2> QED
    BY <2>2, <2>3, EmptyIsInOrder
<1>9. CASE UNCHANGED entry
  BY <1>r, <1>3, <1>5, <1>7, <1>9 DEF Orderly
<1> QED
  BY <1>2, <1>8, <1>9

(* SIGKILL in vain is noted; the end of a stop is of no consequence. *)
LEMMA StopStepKeepsOrder ==
  ASSUME IInv, Orderly, NoOverlap, NEW c \in Callers, StopStep(c)
  PROVE  Known'
<1>0. TypeOK /\ Sound
  BY DEF IInv
<1>1. UNCHANGED <<child, stopping, backoff, of, proc, onexit>>
  BY DEF StopStep, StopClimbs, StopGivesUp, StopEnds, fields, engines
<1>2. \A s \in Runs : AtWork(s)' => AtWork(s)
  BY <1>1 DEF AtWork, HasChild
<1>3. CASE StopClimbs(c) \/ StopEnds(c)
  <2>1. \A d \in Callers : Waits(d)' => Waits(d) /\ on'[d] = on[d]
    BY <1>0, <1>3 DEF StopClimbs, StopEnds, Waits, TypeOK
  <2>2. UNCHANGED entry
    BY <1>3 DEF StopClimbs, StopEnds
  <2> QED
    BY <2>1, <2>2, <1>2, NarrowKeepsOrder DEF Known
<1>4. CASE StopGivesUp(c)
  <2> DEFINE r == on[c]
  <2>1. Waits(c) /\ entry = r /\ r \in Runs /\ r # 0 /\ stopping[r]
    BY <1>0, <1>4, Named DEF StopGivesUp, Waits, Orderly, Sound, StopSound
  <2>2. /\ entry' = 0 /\ UNCHANGED on /\ stop'[c] = "finishing"
        /\ \A d \in Callers : d # c => stop'[d] = stop[d]
        /\ gaveUp'[r] = (gaveUp[r] \/ HasChild(r))
    BY <2>1, <1>0, <1>4 DEF StopGivesUp, Finish, TypeOK
  <2> HIDE DEF r
  <2>3. CASE HasChild(r)
    BY <2>1, <2>2, <2>3 DEF Known, SomethingWontDie
  <2>4. CASE ~HasChild(r)
    <3>1. ~AtWork(r)
      BY <2>1, <2>4, <1>0 DEF AtWork, Sound, RunSound
    <3>2. \A s \in Runs : ~AtWork(s)'
      BY <3>1, <2>1, <1>2 DEF Orderly
    <3>3. ASSUME NEW d \in Callers, Waits(d)' PROVE FALSE
      <4>1. d # c /\ Waits(d)
        BY <3>3, <2>2 DEF Waits
      <4>2. on[d] = on[c] /\ on[c] # 0
        BY <4>1, <2>1 DEF Orderly, r
      <4> QED
        BY <4>1, <4>2 DEF NoOverlap
    <3> QED
      BY <3>2, <3>3, EmptyIsInOrder DEF Known
  <2> QED
    BY <2>3, <2>4
<1> QED
  BY <1>3, <1>4 DEF StopStep

(* What would not die is forgotten in a crash only. *)
LEMMA WontDieStays ==
  ASSUME IInv, SomethingWontDie, [Next]_vars, ~Crash
  PROVE  SomethingWontDie'
<1>0. TypeOK /\ Sound
  BY DEF IInv
<1>1. \A r \in Runs : gaveUp[r] => gaveUp'[r]
  <2>1. CASE \E c \in Callers : StopGivesUp(c)
    BY <2>1, <1>0 DEF StopGivesUp, TypeOK
  <2>2. CASE UNCHANGED gaveUp
    BY <2>2
  <2>3. ASSUME NEW r \in Runs, Relaunch(r) \/ Unhealthy(r) \/ LooseUnlink(r)
        PROVE  UNCHANGED gaveUp
    BY <2>3 DEF Relaunch, Unhealthy, LooseUnlink
  <2>4. ASSUME NEW p \in Engines,
               FileStep(p) \/ Readiness(p) \/ Exits(p) \/ OnExit(p) \/ ExitGoesOn(p)
        PROVE  UNCHANGED gaveUp
    BY <2>4 DEF FileStep, Hashed, Records, Launched, Undoes, Readiness, Readies, Unready, Exits,
       OnExit, ExitGoesOn
  <2>5. ASSUME NEW c \in Callers, StopStep(c) \/ \E force \in BOOLEAN : Stop(c, force)
        PROVE  StopGivesUp(c) \/ UNCHANGED gaveUp
    BY <2>5 DEF StopStep, StopClimbs, StopEnds, Stop
  <2>6. CASE Spawn \/ Boot \/ ReapStep \/ UNCHANGED vars
    BY <2>6, <2>2 DEF Spawn, Boot, ReapStep, ReapLists, ReapReads, ReapProbes, ReapKills,
       ReapClears, vars
  <2> QED
    BY <2>1, <2>2, <2>3, <2>4, <2>5, <2>6 DEF Next
<1> QED
  BY <1>1 DEF SomethingWontDie

(* While stops of a run do not overlap, every step keeps order. *)
LEMMA OrderKept ==
  ASSUME IInv, Known, NoOverlap, NoOverlap', [Next]_vars
  PROVE  Known'
<1>1. CASE Crash
  <2>1. \A r \in Runs : ~AtWork(r)'
    BY <1>1 DEF Crash, AtWork, HasChild
  <2>2. \A c \in Callers : ~Waits(c)'
    BY <1>1 DEF Crash, Waits
  <2> QED
    BY <2>1, <2>2, EmptyIsInOrder DEF Known
<1>2. CASE SomethingWontDie /\ ~Crash
  BY <1>2, WontDieStays DEF Known
<1>3. ASSUME Orderly PROVE Known' \/ Crash
  <2>1. CASE UNCHANGED vars
    BY <2>1, <1>3, QuietKeepsOrder DEF vars, Quiet, fields, engines, Known
  <2>2. CASE Spawn
    BY <2>2, <1>3, SpawnKeepsOrder DEF Known
  <2>3. CASE Boot \/ ReapStep
    BY <2>3, <1>3, ReapKept, QuietKeepsOrder DEF Known
  <2>4. ASSUME NEW r \in Runs, Relaunch(r) \/ Unhealthy(r) \/ LooseUnlink(r)
        PROVE  Orderly'
    BY <2>4, <1>3, RelaunchKeepsOrder, TimersKept, QuietKeepsOrder
  <2>5. ASSUME NEW p \in Engines,
               FileStep(p) \/ Readiness(p) \/ Exits(p) \/ OnExit(p) \/ ExitGoesOn(p)
        PROVE  Orderly'
    BY <2>5, <1>3, FileStepKept, ReadinessKept, QuietKeepsOrder, ExitKeepsOrder,
       ExitGoesOnKeepsOrder
  <2>6. ASSUME NEW c \in Callers, StopStep(c) \/ \E force \in BOOLEAN : Stop(c, force)
        PROVE  Known'
    BY <2>6, <1>3, StopStepKeepsOrder, StopKeepsOrder DEF Known
  <2> QED
    BY <2>1, <2>2, <2>3, <2>4, <2>5, <2>6 DEF Next, Known
<1> QED
  BY <1>1, <1>2, <1>3 DEF Known

(* The map is in order in every state, if stops never overlap. *)
LEMMA AlwaysKnown == Spec /\ []NoOverlap => []Known
<1>1. Init => Known
  <2>1. Init => (\A r \in Runs : ~AtWork(r)) /\ (\A c \in Callers : ~Waits(c))
    BY DEF Init, AtWork, HasChild, Waits
  <2> QED
    BY <2>1 DEF Known, Orderly
<1>2. IInv /\ Known /\ NoOverlap /\ NoOverlap' /\ [Next]_vars => Known'
  BY OrderKept
<1> QED
  BY Always, <1>1, <1>2, PTL DEF Spec

(* While stops of a run do not overlap, every engine that runs is the child   *)
(* of the run in the map, where stop() finds it: goTerminal() and finish()    *)
(* delete by id, and never take a run away that is not theirs.               *)
THEOREM RunningStaysKnown == Spec /\ []NoOverlap => []RunningIsKnown
<1>1. Known => RunningIsKnown
  BY DEF Known, Orderly, AtWork, RunningIsKnown
<1> QED
  BY AlwaysKnown, <1>1, PTL

(* While stops of a run do not overlap, an id never has two engines: the      *)
(* supervisor starts the next one when the last is gone.                     *)
THEOREM OneEngineAtATime == Spec /\ []NoOverlap => []OneEngine
<1>1. IInv /\ Known => OneEngine
  <2> SUFFICES ASSUME IInv, Known, ~SomethingWontDie,
                      NEW p \in Engines, NEW q \in Engines,
                      of[p] # 0, of[q] # 0, proc[p] = "alive", proc[q] = "alive"
               PROVE  p = q
    BY DEF OneEngine
  <2>1. /\ of[p] \in Runs /\ of[q] \in Runs /\ p # 0 /\ q # 0
    BY Named DEF IInv
  <2>2. child[of[p]] = p /\ child[of[q]] = q
    BY DEF IInv, Sound, EngineSound
  <2>3. HasChild(of[p]) /\ HasChild(of[q])
    BY <2>1, <2>2 DEF HasChild
  <2>4. entry = of[p] /\ entry = of[q]
    BY <2>1, <2>3 DEF Known, Orderly, AtWork
  <2> QED
    BY <2>2, <2>4
<1> QED
  BY Always, AlwaysKnown, <1>1, PTL

(* With one caller, as in the run, stops cannot overlap. *)
THEOREM OneCallerIsEnough ==
  ASSUME \A c, d \in Callers : c = d
  PROVE  Spec => []OneEngine /\ []RunningIsKnown
<1>1. NoOverlap
  BY DEF NoOverlap
<1> QED
  BY <1>1, OneEngineAtATime, RunningStaysKnown, PTL
===============================================================================
