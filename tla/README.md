# OpsMaxx: a TLA+ development

OpsMaxx is a desktop application (Electron, TypeScript) from which one person
operates many machines: terminals and file transfer over SSH, commands on a
whole fleet, VPNs, a vault of credentials, a bridge through which an AI agent
asks for the same operations, and a relay that keeps the person's devices in
step. This directory holds the specifications of its concurrent core, the model
checking runs over them and the proofs about them.

Paths below are relative to the repository; `services/` stands for
`src/main/services/`.

## 1. The system

| part | state it keeps | operations | what is hard | what makes it correct |
|---|---|---|---|---|
| Job engine, `services/jobRunner.ts` | `active` (run per job id), per run: cancelled, disposed, current hosts; the rows it writes | run, cancel, disposeAll, adopt, reclaim, the gate between waves, stallGuard | workers, executors, the user and crashes interleave; an executor nobody awaits any more still reports | a step starts once and in order, a verdict is final, a running command is never lost, every job ends |
| Detached executor, `services/jobDetached.ts` | a marker directory on the host, the handle of the call | launch, poll, parse, reap, deadline, degrade to attached | the command outlives the app; every message may be lost | the status belongs to the step that wrote it; the marker stays while the command runs |
| Attached executor, `services/jobExec.ts` | one channel, one timer | run a command and wait | timeout while the connection comes up | a command reported failed is stopped |
| Job vocabulary, `src/shared/jobs.ts` | none | waves, wrapper, poll classification, state sets | a poll sees half-written markers | classification matches what the wrapper wrote |
| History store, `services/history.ts` | the SQLite file | job and target rows, samples, audit | the only state of a job that survives a crash | a row is written whole |
| Main, `src/main/index.ts` | none of its own | startup order, quit, IPC | adoption before the window, reclaim after it | no job is run twice |
| Broadcast, `services/broadcast.ts` | per-run set | run, cancel | the same worker pool without persistence | every target gets an answer |
| Approvals, `services/approvals.ts` | pending questions with their timers, cooldowns, withdrawals | ask, answer, withdraw, extend, expire, deny all | an answer, an expiry and a withdrawal meet; the window is hidden | every question is answered in bounded time; the emergency brake is not rationed |
| Agent bridge, `services/mcpServer.ts`, `policyEngine.ts` | sessions, their grants, policies | tool calls | a call waits for a person, for several workspaces in turn | what may only be answered for its call is; no grant is left of a refused call |
| Vault, `services/vault.ts`, `src/renderer/src/store/vault.ts` | the file, key, salt, cache, stage, idle timer; the window's list | create, unlock, lock, secure, save, merge, change password | another device's file, a lock or a second call during a derivation | salt and key belong together; what is served is what the file holds |
| Device sync, `services/addy/sync.ts`, `merge.ts` | per collection the agreement, its counter, a floor, the conflict noted | sync, merge, put, keep, land | two devices put at once, a relay that rewinds, lost requests, crashes | no edit lost, no counter back, devices converge |
| Pairing and revocation, `services/addy/session.ts` | roster, epoch | pair, revoke, recover | cryptographic, in the sidecar | |
| VPN supervisor, `services/vpn/supervisor.ts` | one run per profile with a generation | start, ready, exit, backoff, stop, reap | stale exits, a stop during backoff | one process per profile, stop wins |
| VPN manager, `services/vpn/manager.ts`, `statusBus.ts`, `dependencies.ts`, with a driver (`drivers/tailscale.ts` over `netdSession.ts`) | a queue and a live entry per profile, the last status, the registry of consumers, the driver's entry and session | start, stop, reload, drop, open a forward, autostart, a deletion by sync | each operation waits many times while engines die, polls fail and people dial | one engine per profile, none after a stop, no VPN is taken away under a user unseen |
| SSH, SFTP, tunnels | connection pool, tunnels | connect, share, close | a shared connection closes under another user | reference counts match |
| Fleet sampler, rules | samples, firing alerts | sweep, evaluate | overlap of sweeps | an alert fires and clears once |
| Workspace store, backups | documents on disk | save, backup, restore | crash in a write | one whole generation is readable |
| Inspection, RDP relay, mounts, databases, containers, cloud, sidecars, renderer | wrappers of other programs | | I/O | not protocols of this code |

How they interact: the renderer calls main over IPC; main owns every service in
one process with one thread, so the unit of interleaving is the code between
two awaits. The job engine calls an executor per host and step, the executor
calls the SSH layer, the job engine writes the history store synchronously, and
the gate between waves asks the fleet's health and, for clusters, their control
plane. Parked executors wait for the vault. Crash and restart are seen only by
the store and the machines.

The hazards of this code, each at its line, are listed in `PROJECT.json` under
`hazards`, with the properties that cover them.

## 2. The plan

Done, in this order; each component has a module, a module of proofs and its
runs:

1. `JobRunner`, `JobRunner_proofs`, `JobOrder_proofs`: the job engine over its
   executors, one job, several hosts, steps, waves and crashes.
2. `ReconnectGate`, `ReconnectGate_proofs`: the slots that bound the dials of all
   watches, shown and proved to implement the abstract `DialLimit`.
3. `VpnSupervisor`, `VpnSupervisor_proofs`: one supervised id through restarts,
   stops and a death of the app.
4. `Vault`, `Vault_proofs`: the vault's file, key, cache and stage under
   interleaved derivations, with the window's copy of the list.
5. `Approvals`, `Approvals_proofs`: questions, answers, expiry, withdrawal and
   rationing, the calls that ask and the grants they leave.
6. `DeviceSync`, `DeviceSync_proofs`: the sync engine between devices over a
   relay, with the three-way merge.
7. `VpnManager`, `VpnManager_proofs`: a profile's queue over a driver, its session
   and its sidecar, the status, consumers, autostart blocked by the vault.

Left, most important first:

8. `JobRecord`: what a job's record promises a reader, with `JobRunner` shown to
   implement it.
9. `JobReboot`: steps declared to reboot, and a second instance of the app on the
   same markers.
10. The re-key of an epoch and the leaving of an account in `DeviceSync`, the
    revocation of a device during a pass.
11. `VpnManager` over `VpnSupervisor` in place of a sidecar that starts and ends by
    itself; wake and quitting.

## 3. The modules

### `JobRunner`

One job, from before it is created until after it has ended and the app has
been restarted. Its state comes in three groups, by what they survive:

- the store: `jobState`, `cancelledAt`, and per host `rowState` and
  `rowHandle` (the marker the row names; 0 for null). `services/history.ts`
  writes a row in one synchronous statement, so a write is part of the action
  that makes it;
- the process: `owner` (the entry in `active`, made by run or by reclaim),
  `cancelled` and `disposed` of that `RunState`, the place of the run
  (`phase`, `wave`, `queue`), per host the activation of `runOne` (`frame`,
  `step`, `mine`, `nulled`) and the executor call it awaits or has given up on
  (`ex`, `said`, `answer`). A crash resets all of it;
- the machines: per host and step what became of the command (`remote`) and
  whether the marker directory is there (`marker`), and an attached connection
  that is still coming up after its timeout (`late`).

`launches`, `gaveUp`, `reapLost`, `passed` and `crashes` are history variables:
properties read them; only the bound on crashes is a guard.

An action is the code between two awaits, with every write it makes.

| code | actions |
|---|---|
| `run` and its waves | `Run`, `TakeFresh`, `TakeCancelled` (markSkipped), `EndWave`, `EndJob` with `Finally` |
| `cancel`, `disposeAll` | `Cancel`, `DisposeAll` |
| `gateAfterWave` | `GateCancelled`, `GateAsks`, `GatePass`, `GateHalt`, `GateStale` |
| `adopt`, `reclaim` | `Seal`, `Adopt`, `Reclaim`, `TakeReclaimed`, `TakeUnknown` |
| end of `runOne` | `Returns` with `SettleRow` and `Verdict`, inside every action that ends an executor call |
| `stallGuard` | `Stalls` |
| `runOne`'s catch after a call that threw, as when the vault was locked | `Throws` in `LaunchFails`, `PollDeadline`, `AttachedFails` |
| detached launch | `LaunchRuns` (the message reaches the host), `LaunchReply` (the answer reaches the app and the marker goes on the row), `LaunchFails` |
| `watch` | `WatchStops`, `Parks`, `PollFails`, `PollRunning`, `PollOutput`, `PollDeadline`, `PollFinished`, `PollGone`, `PollNoPid`, `PollMissing` |
| `reap` and what follows it | `ReapRuns`, `ReapFails`, `ReapReply`, `Degrade` |
| a wrapper slower than `JOB_LAUNCH_GRACE_MS` | `SlowWrapper`, on the hosts of `SlowHosts` |
| attached executor | `AttachedRuns`, `AttachedReturns`, `AttachedFails`, `ConnectTimesOut`, `ConnectsLate` |
| the environment | `CommandEnds`, `Crash`, `Start` |

Messages: a launch is two actions, so that it may reach the host and its answer
may not (a crash or `LaunchFails` in between); a reap likewise. A poll reads
the machine and reports in one action, because a poll changes nothing on the
machine and a stale answer equals a poll made earlier.

`stallGuard` may give up on a call in any phase but the probe and the launch, whose
own timeouts (30 seconds each) end before its grace of 123 seconds does. A call that
throws ends in `runOne`'s catch with the `result` of the step before it: after a step
that ended well that carries a null for the marker, and the verdict writes it. A
host whose launcher may be slow (`SlowHosts`) starts its command after a poll took it
for one that never would, up to the moment its marker is reaped.

What is abstracted: clocks (a deadline is a step that may be taken whenever the
code could be waiting for it, so every order of timers and answers is there),
output and offsets, exit codes beyond zero or not, texts, redaction and events
for the renderer. `rebooting` and `foreign` rows, steps declared to reboot and
markers of another instance are not modelled, nor are the reasons for which
`run` refuses before anything is written.

### `ReconnectGate` and `DialLimit`

One detached executor has one gate, and every `watch` whose last poll failed
goes through it before it dials again, so that a laptop that wakes does not
send fifteen handshakes to one bastion. `inFlight` and `waiting` are the gate's
fields; `at` is the place of each watch in its loop and `retry` says that its
`attempts` is not zero. The watch that gets a slot goes on in a later turn of the
event loop than the call that gave it (`granted`); `releaseOne` hands a slot
straight to the first of the line. A watch polls without the gate as long as its
polls are answered; the cap is a cap on retries, as in the code. Parking for the
vault and the end of a run are nondeterministic, since both come from elsewhere.

`DialLimit` is what the gate promises: two sets, those who want to redial and
those who do, a cap, and strong fairness for everyone who wants. `Limit` in
`ReconnectGate` maps a watch in line or with an unused slot to the first set and
a watch in the poll of a retry to the second.

### `VpnSupervisor`

One id of `class Supervisor` (`services/vpn/supervisor.ts`), which runs tunnel
engines and the user's own processes. `entry` is what `runs` has for the id; the
fields of each `Run` object are functions of the run, because a run that has left
the map may still have calls under way that hold it. `latest` stands for
`generation`: it names the engine of the latest launch. `launch`, `onexit`, `stop`
and `loose` are the calls that may be suspended, one per engine, caller or run;
`record` is the pid in the pid file; `reap` and `target` are the loop of
`reapOrphans`.

| code | actions |
|---|---|
| `spawn`, the backoff timer, `launch` up to its first await | `Spawn`, `Relaunch` over `Starts` and `Throws` |
| `writePidRecord` and what follows it | `Hashed`, `Records`, `Launched`, `Undoes` |
| readiness and health | `Readies` (onReady), `Unready`, `Unhealthy` |
| `onExit` | `OnExit` up to its unlink, `ExitGoesOn` after it, with `GoTerminal` and, for the stops it wakes, `Finish` |
| `goTerminal`'s unlink | `LooseUnlink` |
| `stop` and `finish` | `Stop`, `StopClimbs`, `StopGivesUp`, `StopEnds` |
| `reapOrphans` | `ReapLists`, `ReapReads`, `ReapProbes`, `ReapKills`, `ReapClears` |
| the environment | `Exits`, `Crash`, `Boot` |

A stop that waits for an exit goes on in the same turn of the event loop in which
the exit handler wakes it, so `ExitGoesOn` contains its `Finish`. An engine may be
`stillborn`: Node reports a program that cannot be started by an error event and
no exit event, and nothing but a stop then ends its run (`Stillborn`, `UnderWay`).
`gaveUp` is history: a stop ended although even SIGKILL had not ended the engine; after that the code makes no promise, and the properties say so.

### `Vault`

The main process's vault (`services/vault.ts`), the list that the window's store
keeps (`src/renderer/src/store/vault.ts`), the key kept for biometric unlock, and
the others that write the file: sync, and features of main that store a secret.
A key is modelled by what it was derived from, a password, a salt and a work
factor, and opens what was sealed under it. The derivation is the only await of
`vault.ts`, and the prompt that of a biometric unlock, so a call is one action up to
it and one after it, with everything else in between; `call` holds what the call
read before, the stored key included.

| code | actions |
|---|---|
| `vaultCreate` | `Create`, `Created` |
| `vaultUnlock` with the upgrade of an old file | `Unlock`, `Unlocked`, `UnlockedOld`, `Upgraded`, `UpgradeFails`, `UnlockFails` |
| `vaultChangePassword` | `Change`, `Changed` |
| `vaultMergeFrom` | `Merge`, `Merged` |
| a call that throws | `CallFails` |
| `vaultLock` under `lockVaultFully`, `vaultSecure` | `Lock`, `Secure` |
| `vaultDestroy` with the window's `destroy`, and when the file cannot be deleted | `Destroy`, `DestroyFails` |
| `vaultExternalChange` after sync wrote the file | `ExternalChange` |
| `biometricUnlock` up to the prompt, `vaultUnlockWithKey` after it, enrolling a biometric key | `BioAsk`, `BioUnlock`, `BioSwitch` |
| `stageVpnSecrets` and its like over `vaultSave` | `Store` with `Saves` |
| the window's `refresh`, its edits, its messages | `Refresh`, `Cleared`, `Edit`, `SaveArrives` |
| the app ends | `Restart` |

Abstracted: an entry is one version of its contents; idle locking is switched on. A fresh
salt is one that the state still knows nothing of. `raced` is history: some call acted on what another had changed while it waited for its
derivation. `CacheIsTheFile` and `NoCallDropsEntries` hold until then, and after it the code
makes no promise: an unlock or a change of the password acts on the file it read
before the derivation; a lock between the decryption and the second derivation of
an upgrade empties the cache that the upgrade then seals; a failed unlock that
began while the vault was locked locks what another has opened meanwhile. The
invariants on salts and keys need no such exception. `left` is history as well: the
vault was locked to be deleted, the file could not be, and the window, which no
message reached, still lists its entries.

### `Approvals`

One agent session: `services/approvals.ts`, the two functions of
`services/mcpServer.ts` that ask (`gate`, `gateWorkspaces`), and the person's
switches in `src/main/index.ts`. A call waits twice in `gate`, for its progress
note to be sent (`noting`) and for the answer (`asked`); `answered` is a settled
promise that `gate` has not looked at yet. `fuse` is what `armApproval`, the
backstop and `extendApproval` do to a question's timer; `cool` and `gave` are
the rationing; `elev` is `sessionElevations`.

| code | actions |
|---|---|
| `gateWorkspaces`, `gate` up to its first await | `Start` with `Orders`, `LetThrough`, `GoesOn` |
| the note, then `requestApproval` | `Refuse`, `AskGone`, `Ask` with `Refusal` |
| the agent's request is cancelled or its connection goes | `Abort` |
| `respondToApproval`, `extendApproval` | `Approve`, `Deny`, `Extend` |
| the timer or the backstop | `Expire` |
| `gate` after the answer | `Passed`, `NotPassed` with `Fails`, which takes grants back |
| the tool returns | `Done` |
| STOP ALL, Read only, Read and write, revoke or delete a session | `StopAll`, `ReadOnly`, `ReadWrite`, `Revoke` |
| the window is shown or hidden (`armPendingApprovals`) | `Show`, `Hide` |
| time | `Tick` |

A question is a capability, what it is about, whether it stops something and
whether a yes may only cover the one call; `gate` neither reads nor keeps a grant for
such a question (`Covered`, `Passed`), and `finish` does not offer one (`Grantable`).
`yes` and `stood` are history: what a person said yes to for the call, and which
grants for its questions stood whenever the gate looked. Not modelled: several sessions, the
log of past approvals, previews, the matching of policies.

Reading the code for this module showed what the properties do not claim. A
denial of all open questions also starts their cooldowns. A call that is refused
takes back a grant that a second call was let through on meanwhile. The question
of a revoked session stays on the screen, and a yes runs the call. A call that is
sending its note when STOP ALL or Read only is pressed asks afterwards.

### `DeviceSync`

`syncOnce` of `services/addy/sync.ts` for one collection of identified records,
with `mergeCollections` of `merge.ts`, on several devices over one relay. A
pass is at one request at a time (`pass[d].at`); between any two of its steps
people edit, other devices' passes go on, and faults happen. `log` is every object
the relay was given, so that an ETag is a place in it and a relay that rewinds
answers with an earlier place. `saved` is the state file: the agreement (ETag,
counter, document, conflict noted) and the floor under its counter.

| code | actions |
|---|---|
| `syncCollection` up to its first request | `Begin` |
| the answer to it: nothing there, first contact, nothing changed, push, pull | `Got` over `GotNone`, `GotFirst`, `GotKnown`, `Pulls` |
| `mergeOrConflict`, `conflictWithRemote` | `Fresh` over `GotToMerge`, `GotToConflict` |
| `putObject` and a refused put | `Put` |
| `keepAsConflict` | `Keep` |
| `writeBack` | `Land` |
| `saveState` | `Save` |
| `forgetSyncState` | `Forget` |
| a person edits or deletes a record | `Edit` |
| a request is lost before or after its effect; the app ends | `Lost`, `Crash` |

`Merges` and `Merge` are the merge record by record, `RemovesMost` the guard of bulk
removals. The list's order is left out, as is what the source of a collection may
change while writing. Reading the state and the file is one action. A failed save
of the state equals a crash before it. Not modelled: the re-key of an epoch, the
person's choice about a conflict copy, leaving the account.

### `VpnManager`

One profile of the manager (`services/vpn/manager.ts`) with the Tailscale driver.
Every operation is a task in the profile's queue, and only the head is under way:
`at` is the await it is suspended at, and an action is the code between two
awaits, from the manager through the driver to the session. `live` is the
manager's entry, `ours` the driver's, `held` a session that only the task has in its
hands (during `ts.up`, `ts.down` and the kill), `engines` the sidecars that live;
each is a run, so that what one of them forgets another may still have. `polls`
counts, for each run, the `ts.status` requests outstanding,
`status` and `late` the bus's last and held-back payload, and `use` where each user of a forward is.

| code | actions |
|---|---|
| `enqueue`, the promise a task settles | `Asked`, `Ends` |
| `vpnStart`, `doStart` | `StartNeedless`, `StartOfNothing`, `StartGoesAhead`, `DirMade`, `DirFails`, `SecretsRead`, `SecretsShut`, `ShutOut`, `StartUndone` with `CleansUp` |
| `start()` of the driver over `openNetdSession` | `SidecarStarts`, `SidecarDoesNot`, `NodeAnswers`, `NodeFails`, `StartKilled` |
| `vpnStop`, `doStop`, `doDropped`, `releaseDependents`, `stop()` of the driver | `NothingToStop`, `StopBegins`, `NodeDown`, `StopKilled`, `Wiped`, `StopAnswered` with `TornDown` |
| the driver's poll | `PollSent`, `PollAnswered`, `PollFails`; `Settled` when its session ends |
| `close()` of the session over the supervisor's ladder | `Kills` in `StartKilled`, `StopKilled` |
| `publish` of the bus and its timer | `Publish` in the actions that emit, `LateSent` |
| `vpnReload`, the person's start and stop | `PersonAsks` |
| `vpnOpenForward`, the registry | `UserDials`, `ForwardOpened`, `ForwardRefused`, `UserLeaves` |
| `vpnProfilesExternalChange`, `vpnRetryVaultBlockedAutostarts`, autostart in `vpnInit` | `Deleted`, `Unlocked`, `Init` |
| the sidecar, one that was left behind, the vault | `SidecarExits`, `StrayExits`, `Locked` |

A reaction to a settled promise runs before any callback, so no event is taken
while a task can begin or its caller be answered (`Quiet`). Abstracted: a status
is its state; whether two payloads of one state differ, and whether one is held
back, is open; a new run takes a name that the state does not know any more.
`abortStart` hastens an end of `ts.up` that may come at any time anyway. The interval
of the poll does not wait for its last request, so several are outstanding at once;
each keeps the driver's entry it started with, so that one answered after a stop still
compares with the status of that entry (`told`) and says nothing unless it differs.
`close()` answers whether or not the process is gone, since the supervisor gives up
after its ladder and what it rejects is swallowed; a process that survives is counted
in `strays` and in nobody's reach. Not modelled: port conflicts, what is put back at
startup, quitting, wake, statistics, logs, the other drivers.

`halted`, `doomed`, `forgotten` and `unlisted` are history. `halted` is set by every
stop that answered, also by one that found neither a profile nor a live entry.
`forgotten` is the run that a failed start left in the driver while the manager cleaned
up; only a stop of the profile reaches it, so none does once the profile is deleted.
`unlisted` are the keys that a leaving user took out under others who ride. `doomed`
leaves out a profile that is deleted while its start is under way:
`vpnProfilesExternalChange` looks at live entries, and before `resolveVpnSecrets`
returns there is none, so that such a tunnel comes up and stays.

`MCVpnCasts` puts three small casts in one run (`Cast`): two users of one server;
overlapping polls of a profile that is also reloaded; a vault that locks under a
profile that starts by itself. A cast only holds back events of the outside.

## 4. The runs

`MCJobWaves` has one host in each of two waves; `MCJobHosts` has one wave.
`MCVault` names the files there are, `MCApprovals` what each call may ask, `MCSync` the
devices and records, `MCVpnManager` the keys of the consumers, `MCVpnCasts` its
casts. The type invariants of `ReconnectGate`, `Vault`, `Approvals`, `DeviceSync` and `VpnManager`, and the gate's
`AtMostMax`, are proved for all values of the constants (section 5) and are not
checked again in these runs.

| run | instance | what it shows |
|---|---|---|
| `job_waves` | 2 hosts, 2 waves, 1 step, gated, 2 workers, 1 crash | `TypeOK`; a later wave starts only after the earlier one has its verdicts and its gate (`WavesInOrder`); an ended job has no open host (`ClosedMeansSettled`, with its two exceptions); verdicts are final; skipped means not reached; a disposed job stays open |
| `job_pool` | 2 hosts, 1 wave, 1 step, 1 worker, no crash, fair | no started host is left unfollowed (`LiveRowIsFollowed`); the job ends although a host hangs for ever (`JobEnds`) |
| `job_steps` | 1 host with a launcher that may be slow, 2 steps, 2 crashes, fair | a step starts at most once and after the one before ended with zero, unless a reap was lost or the wrapper was slow; a running command's marker leaves its row only by a throw or a give-up of `stallGuard` after a step that ended well, or after a slow wrapper (`HandleKept`); nothing starts on a row that does not say so; the job ends in each life of the process |
| `reconnect_gate` | 4 watches, 2 slots, fair | the counter is the number of slots that are out, nobody overtakes, and the gate implements `DialLimit`, fairness included |
| `vpn_supervisor` | 2 runs, 2 engines, 1 caller of stop, 1 restart, 1 crash, fair | one engine at a time (`OneEngine`), known to the map (`RunningIsKnown`), no corpse in it but a stillborn run (`NoCorpse`), and each attempt of a start is answered or followed by another (`StartIsAnswered`) |
| `vault` | 2 versions of entries, 2 passwords, 2 salts, 1 call under way | the salt in the file and the one held are those of their keys (`SaltGoesWithKey`); what is served is what the file holds (`CacheIsTheFile`); the window shows entries of an open vault only, or is about to be told, but after a deletion that failed (`ShownMeansOpen`); no call that returns drops entries (`NoCallDropsEntries`) |
| `approvals` | 2 calls, one over two workspaces, one the brake; fair | questions are answered in bounded time (`FuseIsBounded`); no question without an agent (`NoOrphanQuestion`); a call runs only if each of its questions got a yes for that call or a grant stood that may answer it (`RunsOnAYes`); no grant is left of a refused call (`TakenBack`); the brake is not rationed (`BrakeIsNotRationed`); every call returns (`EveryCallReturns`) |
| `device_sync` | 2 devices, 2 records, 3 edits, 1 fault; fair | an edit a pass has read is lost only by the step section 6 names (`EditsSurvive`); only a person takes a version out of the account (`OnlyAPersonRemoves`); no floor falls (`NeverGoesBack`); the devices converge (`Converges`) |
| `vpn_manager` | 1 profile, 3 names of runs, 2 tasks asked for at once, 1 stray; three casts: 2 users of one key, 2 polls at once, a vault that locks; fair | one sidecar at a time (`OneSidecar`); nothing but what is named is left after a stop (`StoppedIsDown`); who rides is in the registry unless a rider of the same key took it out (`NobodyIsCutUnseen`); a deleted profile's run ends (`DeletedIsStopped`); who dials is answered (`CallsReturn`) |
| `vpn_dead` | 1 profile, 1 user, 3 names of runs, 1 poll; all events of the outside at once | violation, see 6 |
| `vault_old_key` | one old file | violation, see 6 |
| `sync_lost_edit` | 2 devices, no fault | violation, see 6 |

Why these bounds suffice for the questions asked. What couples two hosts is the
worker pool, the wave and the job's end: two hosts with one worker queue one
behind the other, two hosts in two waves have one before and one behind the
gate. What couples steps on one host is the marker and the `result` of the step
before: two steps give one that has a predecessor and one that has a successor, and
two crashes allow a crash during the recovery from a crash; the theorems cover any
number of steps. Slow launchers are checked where a step can be repeated (`job_steps`)
and left out of the other two. `MaxCrashes` is the only bound in a guard of
`JobRunner`.

Four watches and two slots let the line hold two, so that first and last differ,
while two others hold slots.

In `VpnSupervisor` two engines are a restart of one run or the engines of two
runs, which are the two ways of having two; what the stops, file operations and
exit handlers of the first do while the second runs is all there. There is one
stop at a time, since two that overlap break the properties (section 6).
`MaxRuns`, `MaxEngines`, `MaxCrashes` and `MaxRestarts` bound the guards.

In `Vault` one call that waits for a derivation is met by everything that needs
none: locks, pulls, saves, deletions, the window. A new
password takes a salt that the state does not name (`Fresh`); with two salts there
is one whenever file, key and biometric key agree, as they do at rest. The proofs
cover any number of callers and salts. The first file and those that
sync brings or a merge reads are one of the current work factor and one of the old
under the other password, with different entries.

In `Approvals` two calls with one open question each (`MaxPending` 1) reach the cap;
the wide call has two questions so that a refusal of the second meets the grant of
the first. All times are 1 or 2 ticks, and 3 for the backstop, so that the fuse,
its extension, the cooldown and the window of withdrawals end in different
orders; the proofs are for all times.

In `DeviceSync` two devices that edit the same and different records give every
case of the merge; two records are needed for one to overlap and one not, and
`SmallList` is 0 in place of 5 so that the guard of bulk removals bites on two.
Three edits let one device edit after a conflict of two. One fault of any kind is
checked. `MaxEdits` and `MaxFaults` bound the guards.

In `VpnManager` a queue of two lets each operation be asked for behind each other
one; drops, retries of autostart, the start of a reload and the stop of a deletion
come on top of that bound (`MaxQueue`), as nobody asks for them. Three names of runs
are enough for one that dies, one that is live and one that is starting. A node
answers `authenticating` or an error: what it may report besides is handled like
the first. The poll's interval is 15 seconds and its request's timeout 60, so
that up to four are outstanding; the second is already one that overlaps, and
`MaxPolls` is 2. One process left behind at a time (`MaxStrays`) is enough to see that
nobody reaches it. The casts divide what the outside may do, to keep the run within
minutes; `vpn_dead` and the theorems have no casts, and the theorems are for any number of
users, any keys, polls and strays.

Deadlock checking is off in the runs of `JobRunner`, `VpnSupervisor` and
`VpnManager`, because the system may stop (the job ends and nobody creates
another, the last run is over, every bounded crash was used, the profile is
deleted), and in those of `Vault`, where a vault may run out of what the instance
has. The gate, the approvals and the passes of the
devices never stop.

### Fairness

`FairSpec` of `JobRunner` assumes weak fairness of what the event loop and armed
timers guarantee while the process lives: a worker that may take a host takes it, a
wave or job whose workers are back ends, the gate decides within
`GATE_WAIT_MS`, the startup code runs to its end, and per host an executor call
goes on and is over by its own deadline or by that of `stallGuard`. Nothing is
assumed of remote commands (they may run for ever), links (every poll may
fail), the user, crashes, or the restart of an app that is down; `JobEnds` is
therefore about one life of the process, and a dispose ends its claim.

In `ReconnectGate`, `FairSpec` assumes that the continuation of a resolved
promise runs and that a poll ends, which `pollTimeoutMs` sees to. That is weak
fairness; the strong fairness `DialLimit` promises is what the line adds.

In `VpnSupervisor`, `FairSpec` assumes that file operations end, that events and
timers that are armed fire, that a process that was sent SIGKILL goes, and that
readiness is decided while its own timer is armed, which is until a stop or an
exit clears it. Nothing is assumed of an engine that nobody killed, of starts,
stops, health checks, reaping or the death of the app.

In `Approvals`, `Spec` assumes that the clock goes on and that, per call, a promise
that is settled is looked at, a timer that is due fires and a tool returns. Nothing
is expected of the person or the agent.

In `DeviceSync`, `Spec` assumes that each device's pass goes on and that another
begins, which is the interval timer of `session.ts`; a request ends, by an answer
or, at most `MaxFaults` times, without one. Edits and faults being bounded is what
"when people stop editing" means in `Converges`. `Vault` states no liveness.

In `VpnManager`, `TaskFairness` assumes that the task under way goes on: files are made or
not, `ts.up` and `ts.down` have their timeouts of 60 and 15 seconds, a kill has the
supervisor's ladder. That is all the run `vpn_manager` assumes, and enough for
`DeletedIsStopped` and `CallsReturn`. `Spec`, which `vpn_dead` uses so that its
counterexample is not for want of a timer, assumes besides that the bus's timer and
the poll's timer fire, a request of the poll is answered or fails, and a forward is
opened or refused. Nothing is assumed of people, the vault or the life of a sidecar.

## 5. The proofs

`JobRunner_proofs` proves, for every finite set of hosts and all values of the
other constants allowed by the assumptions in `JobRunner`:

- `TypeCorrect`: `Spec => []TypeOK`. `TypeOK` alone is not inductive: `wave`
  is increased by `EndWave` and by the gate, and that it stays within `NWaves`
  needs `WaveOK`, which says that outside a reclaim the gate is only reached
  below the last wave. The inductive invariant is `TypeInv`.
- `NoHostIsLost`: `Spec => []LiveRowIsFollowed`. Inductive as `FollowInv`:
  `OwnerOK` says what a run that does not own the job cannot have (a queue, a
  phase other than an asking gate) and `HostFollowed` says, host by host, which
  combinations of row, activation, queue and executor exist. It is needed
  because whether a row may be live without a `runOne` depends on whether a
  late executor can still write it, which depends on why nobody awaits it.
- `DisposeEndsNothing`: `Spec => DisposedStaysOpen`. It follows from
  `FollowInv`: a disposed run owns nothing, so no action that writes the job's
  row is enabled.

The argument has one lemma per group of actions of `Next` (`RunStep`,
`TakeStep`, `ExecEnds`, `ExecGoesOn`, `ConnectsLate` and `CommandEnds`,
`BootStep`), and lemmas about the operators they share (`WriteRow`,
`ApplyUpdate`, `SettleRow`, `Returns`, `Finally`).

`JobOrder_proofs` proves, under the same assumptions, what the job engine promises of
orders. Its inductive invariant is `OrderInv` (`OrderIsKept`), which adds to
`FollowInv`:

- `Tracked`, host by host: a pending host was never touched (`PendingOK`); an
  activation of `runOne` has a call and a live row, a queued host neither
  (`RowOK`); whatever names a step, the call, the row or a late connection, names
  one whose predecessors ended with zero, and the row never runs ahead of the call
  (`CursorOK`); a call that is about to answer says what the machine says
  (`AnswerOK`); and as long as no reap is lost there is one marker at most and all
  behind it is blank (`OnceOK`). Row, call and machine have to be tied to one
  another because a crash, a late connection or an executor nobody awaits can leave
  any of them behind.
- `WaveInv`: behind the run every host is closed and every gate passed, ahead of it
  every host is untouched, and whoever was reached had its turn.
- `ClosedInv`: an ended job has no activation, no owner and no asking gate.

From it follow `WavesKeepOrder` (`WavesInOrder`), `EndedJobIsClosed`
(`ClosedMeansSettled`), `StartedOnce` (`AtMostOnce`), and over single steps
`VerdictsStay` (`VerdictIsFinal`), `HandlesStay` (`HandleKept`, with its two exceptions: a
throw or a give-up while the null of an earlier step is held, and the fallback after a
slow wrapper), `SkippedIsUntouched`
(`SkippedWasNotReached`), `StartsAreOnTheRow` (`StartIsOnTheRow`) and
`StepsKeepOrder` (`StepsInOrder`). A step changes one host or only the run; the lemmas
say what it may do to a host (`RowStep` and its like) and are cited by both.

`ReconnectGate_proofs` proves, for any finite set of watches and any positive
cap, with `GateInv` (the line holds each waiting watch once, only retries are in
line or own slots, the counter is right and within the cap, a line means no free
slot):

- `GateTypes`: the type invariant.
- `NoSlotIsLost`, `CapHolds`: `SlotsCounted` and `AtMostMax` are invariants. The
  cap follows from the count, and the count is kept by a handover only because
  whoever is in line owns no slot yet.
- `InOrder`: `NoOvertaking`. A free slot with a line would let a latecomer
  pass; `GateInv` excludes it.
- `NobodyWaitsForNothing`: a line means that every slot is out.
- `GateImplementsLimit`: `Spec => Limit!Spec`, the safety half of the
  refinement. Its fairness half is checked by the run.

`VpnSupervisor_proofs` proves, for any callers, runs, engines, restarts and crashes:

- `TypeCorrect` and `MapHasNoCorpse` (`NoCorpse`, which excepts a run whose program could
  not be started), by `IInv`: what each engine, run,
  stop and the map may have under way. A run has one thing under way at a time, a
  child, its exit or the wait for a restart (`RunSound`), and the run in the map has
  one of them or a stop (`MapSound`). This holds whatever stops overlap.
- `RunningStaysKnown` (`RunningIsKnown`) and `OneEngineAtATime` (`OneEngine`): as long
  as no two stops of the same run overlap (`NoOverlap`), only the run in the map is at
  work or being stopped (`Orderly`). Overlapping stops are excluded by hypothesis
  because they do break both properties: `finish` deletes by id (section 6), and nothing
  in the supervisor keeps its callers apart. The hypothesis is one on the behaviour of
  the callers, and behaviours with restarts, exits during a stop, give-ups and crashes
  meet it.
- `OneCallerIsEnough`: with a single caller there is no overlap, and both properties
  hold without condition; this is the setting of the run.

`Vault_proofs` proves, for any passwords, salts, entries, copies and number of
calls under way, under the two assumptions of `Vault` (the three "nothing" values
are no values; a copy another device wrote opens under its header):

- `VaultTypes`, `SaltAndKey`, `StageAndTimer`, by `KeysInv`: the type invariant,
  what each kind of call has read (`CallsHave`), salts beside their keys, locked
  exactly without a key, open only with the idle timer running. The clause on
  calls is needed because a call seals with the salt of the file it read long ago.
- `WindowFollows`: `ShownMeansOpen`, over `KeysInv`, with its exceptions `raced` and `left`.
- `CacheAndFile`, by `CacheInv`: as long as nothing `raced`, each call that will
  act on a file has read the file that is there (`NotOvertaken`), and key and cache
  are those of the file. The invariant of the calls is what carries the property
  over a derivation.
- `EntriesSurviveCalls`: `NoCallDropsEntries`, from the same.

`Approvals_proofs` proves, for any calls, plans, bounds and times allowed by
`TimesAssumption` and `PlansAssumption`:

- `ApprovalTypes`, `FuseEnds`, `NobodyIsAskedInVain`, by `BaseInv`. `FuseInv` bounds
  age and time left together by the fuse and the extensions granted so far, not
  the ceiling, which is what makes an extension keep it.
- `NothingRunsUnasked` (`RunsOnAYes`): what of a plan is no longer to be asked got a yes for
  this call or was covered by a grant that stood, and an answer the gate takes for a
  yes was one (`YesInv`), through the sorting of workspaces and the skipping of what the
  session was granted.
- `GrantsAreTakenBack` (`TakenBack`): each grant belongs to a call that asks or was let
  through (`GrantInv`).
- `BrakeStaysFree`: `BrakeIsNotRationed`, by `CoolInv`, which ties a cooldown to the
  denial of a question on the same side of rationing.

`DeviceSync_proofs` proves, for any devices and records and any bounds:

- `MergeIsThreeWay`: what `mergeCollections` does not refuse is the three-way merge
  (a reference definition in one line); `MergeIsSymmetric`: two devices with the
  same three documents get the same list, or both refuse.
- `SyncTypes` and `FloorsHold` (`NeverGoesBack`), by `IInv`: a pass that waits for a
  request has what it needs to ask (`Ready`), what it is about to put or land is not
  below its floor (`AboveFloor`), and its floor is the saved one unless somebody
  forgot the state meanwhile (`FloorIsSaved`). The last clause is why `saveState`
  must not save after a forget.
- `RemovalsArePersons` (`OnlyAPersonRemoves`) and `ReadEditsSurvive` (`EditsSurvive`), by
  `Sound` on top of `IInv`. A document `Carries` another when it has each of its
  versions that no person replaced. The relay's objects have rising counters and each
  carries those before it (`LogSound`); an agreement is at the counter of its object or
  above (`EntrySound`), so that what the floor lets in is no older than the agreement
  and carries it (`OpensLater`); a merge carries both its sides if they carry what they
  started from (`MergeCarries`); what is put carries the object it names, and what
  lands overwrites only what is carried, kept or noted (`Aims`). `Holding` says that a
  file has nothing a pass has read but what this pass has read, which needs that two
  devices share only what was read (`DeviceSound`).

`VpnManager_proofs` proves, for any users, keys, names of runs, reports of a node, length
of the queue, polls and strays, by `IInv`:

- `ManagerTypes`: the type invariant, which says when a task holds a session.
- `OneSidecarHolds`: `OneSidecar`, by `RunInv`: each living sidecar is in the driver's
  entry or in the hands of the task under way, and while a task holds one the
  driver has none. That the queue runs one task at a time is what keeps it.
- `StopLeavesNothing`: `StoppedIsDown`, by `HaltInv`, which needs that the task that
  takes a run down is not a start (`HeadInv`), through every task queued behind it, and
  that an entry of the driver without one of the manager is the run a failed start
  forgot (`RunInv`): a stop without a profile then leaves at most that one
  (`OutOfReach`).
- `RidersAreKnown`: `NobodyIsCutUnseen` for any keys, by `RiderInv`: whoever rides has a
  living sidecar, so that clearing the registry of a run that has none clears nobody,
  and whom a leaving rider took out is in `unlisted`.

The assumptions used are those named in the modules; nothing else is assumed.

Only model-checked is liveness: `JobEnds`, `StartIsAnswered`, `EveryCallReturns`,
`Converges`, `DeletedIsStopped`, `CallsReturn` and the fairness of `DialLimit` in
`KeepsThePromise` stay with TLC. Liveness under fairness and `ENABLED` are outside
what the installed provers handle, as are induction over data with the library's
second-order theorems and anything behind a RECURSIVE operator. No module here
declares one. The statements of section 6 that the code violates have counterexamples
and no proofs.

## 6. Where the code and its comments disagree

Three runs state what a comment says and find it violated by what the code does.

- `vpn_dead`: the Tailscale driver does not subscribe to the exit of its sidecar.
  One that exits while no request of the poll is outstanding leaves the profile
  connected; the next tick of the poll sees a dead session and returns.
- `vault_old_key`: `writeEncrypted` writes the current work factor into the file
  whatever the key was derived with. After `vaultUnlockWithKey` opened an old
  file, or after an upgrade that failed, the next save makes a file that its master
  password does not open; the comment of `LEGACY_KDF` says it still opens.
- `sync_lost_edit`: an edit that is saved while a pass waits for the relay is
  overwritten by `writeBack`, with no failure at all, and is in no copy.

More such statements are defined beside the properties and no longer have a run
of their own. Each can be seen by naming it in the configuration given:

- `NothingIsDoneTwice` in `JobSteps.cfg`: a lost reap and a crash between a launch and
  the write of its marker send the next launch back one step, and that step's
  successor runs twice; `runOne` calls re-running a step the worst reading of resume.
- `KeptFirst` in `DeviceSync.cfg`: that a conflict copy was kept is noted by the ETag
  of the relay's object. If the write of the file then fails and the person edits
  again, the new edit is overwritten and no copy of it kept.
- In `VpnManager.cfg`: `WaitingIsNotConnected` (the manager publishes `connected` over
  the `authenticating` of a node that waits for a person, which `stateFor` calls the
  worst of the options); `AnswerIsTrue` (a payload held back by the bus is sent after
  a stop, and the next start is answered that it is running; a tunnel whose
  statistics change makes it likelier than this driver); `DropHitsItsRun` (a poll that a stop's
  `close()` settles queues a drop behind a start that was asked for meanwhile, and
  takes the new run down); `NotForgotten` (the vault opens while the run directory of
  an autostart is being removed, and the profile is noted as blocked after it);
  `EngineIsKnown` (a node that reports an error, at first or to the poll, leaves the
  driver an entry that the manager has forgotten, and the next start is refused as
  already running); `NoGhosts` (a forward answered after its tunnel was released is
  registered for the next).
- Also in `VpnManager.cfg`, `NothingIsLeft`: a stop answers ok, and publishes `stopped`,
  although the kill was given up (`netdSession.ts` swallows what `kill()` rejects, the
  supervisor ends its ladder without a word), which `doStop` calls a lie; and
  a stop of a profile that was deleted after a failed start looks no further, although
  the driver still has the sidecar. `EveryRiderIsListed`: consumers are registered by
  kind and server id (`dependencies.ts`, `ssh.ts`), so that of two connections to one
  server the first to leave unregisters both, and the question before a stop does not
  name the other.
- `MarkerIsNeverDropped` in `JobSteps.cfg`: past its deadline a step is sent SIGTERM by a
  call that rejects when the vault is locked; `runOne`'s catch then writes the null of
  the step before over the marker of the running command. `stallGuard` giving up in a
  later step does the same, and the fallback to the attached executor after a slow
  wrapper drops the marker, by design, of a command that began after all; that step
  then runs twice.
- `NoCorpseAtAll` in `VpnSupervisor.cfg`: once the readiness of a program that could not
  be started is decided, `hardKill` returns for want of a pid, no exit event comes, and
  `spawn` hands out the dead handle until a stop; its comment says it must not.
- `ShownMeansOpenAlways` in `Vault.cfg`: `vaultDestroy` locks before it deletes; if the
  deletion fails, nobody tells the window, which goes on listing entries over a locked
  vault.
- `CancelSkipsTheRest` in `JobWaves.cfg`: a cancel during a wave leaves the hosts of
  later waves `pending` under a cancelled job; `cancel` says that hosts not yet
  started are recorded `skipped`.
- `NothingRunsUnderAnEndedJob` in `JobPool.cfg`: a watch that `stallGuard` gave up
  on reports again while other hosts keep the run alive and makes a failed row
  live; the job then ends over it, the pairing `run` calls unreadable.
- `CancelSurvives` in `JobSteps.cfg`: `cancelledAt` is written and never read back,
  so that a job cancelled before a crash ends as `done`.
- `OneEngine` in `VpnSupervisor.cfg` with two callers, three runs and three engines:
  `finish` deletes by id, so that the slower of two overlapping stops takes a newly
  started run out of the map; its engine goes on and the next start spawns a second
  one, although the same id twice is to return the live handle.
- `NoFalseGreen` in `VpnSupervisor.cfg`: a program that cannot be started has no exit
  event, and a run whose readiness does not look becomes ready without a process.
  The same property would be violated by a readiness that resolves between an exit
  and the next launch, when the generation has not changed yet. If that readiness
  rejects instead, the start is answered only by a stop; `StartIsAnswered` leaves
  the stillborn out.

The properties of the passing runs name these cases as exceptions (`gaveUp`,
`reapLost`, `nulled`, a pending host of a later wave of a cancelled job, a stillborn
engine, `raced`, `left`, `forgotten`, `unlisted`, a landing over a copy already noted),
so that they hold of everything else. A reader should take a theorem for what it says
with its exception, and this section for what the exception is in the code.

## 7. Not modelled

`PROJECT.json` lists every component with its status and the reason. The parts
that section 2 leaves are planned; command wrappers, parsers, cryptography,
packet I/O and the user interface are left out because their state belongs to
other programs or their difficulty is in data that a model would abstract away.
