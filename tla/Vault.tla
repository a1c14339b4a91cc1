-------------------------------- MODULE Vault --------------------------------
(***************************************************************************)
(* The vault: the file, the key, the salt, the decrypted entries and the    *)
(* stage that the main process holds (src/main/services/vault.ts), the list *)
(* the window holds (src/renderer/src/store/vault.ts), the key kept for     *)
(* biometric unlock, and the three others that write: sync, a main-process  *)
(* feature that stores a secret, and the death of the app.                  *)
(*                                                                         *)
(* An action is the code between two awaits.  A derivation of a key (scrypt)*)
(* is the only await of vault.ts, the biometric prompt that of              *)
(* biometrics.ts; either is a call under way in `call`.  A key is what it   *)
(* was derived from: a password, a salt and the work factor; it opens what  *)
(* was sealed under it and nothing else.  An entry stands for    *)
(* one version of its contents.  Messages from main to the window keep      *)
(* their order; those that clear the window's list are all alike.           *)
(***************************************************************************)
EXTENDS Naturals

CONSTANTS
  Entries,     \* versions of vault entries
  Passwords,   \* master passwords
  Salts,       \* random salts
  Copies,      \* vault files of the account's devices: the one at first
               \* start, those sync brings, those a person merges from
  Callers,     \* vault IPC calls under way at once (bound of the model)
  NoFile, NoKey, None

VARIABLES
  file,    \* opsmaxx-vault.json, or NoFile
  key, salt, cache, stage,
  armed,   \* idleTimer is set
  call,    \* what each caller awaits a derivation or the prompt for
  list,    \* useVault's entries in the window
  shown,   \* the window takes the vault for open
  notice,  \* a message that clears the window's list is on its way
  posted,  \* a vault:save on its way from the window
  bio,     \* the key kept for biometric unlock
  raced,   \* history: a call acted on what another had changed meanwhile
  left     \* history: the file could not be deleted, and the window that lists
           \* its entries was told nothing of the lock

process == <<key, salt, cache, stage, armed>>
window  == <<list, shown, notice, posted>>
vars    == <<file, process, call, window, bio, raced, left>>

Kdfs  == {"legacy", "current"}
Keys  == [pw : Passwords, salt : Salts, kdf : Kdfs]
Files == [salt : Salts, kdf : Kdfs, key : Keys, entries : {None} \cup SUBSET Entries]

ASSUME NothingAssumption == NoKey \notin Keys /\ NoFile \notin Files /\ None \notin Salts

(* What a device of the account wrote opens under its header. *)
ASSUME CopiesAssumption ==
  \A f \in Copies : /\ f \in [salt : Salts, kdf : Kdfs, key : Keys, entries : SUBSET Entries]
                    /\ f.key.salt = f.salt /\ f.key.kdf = f.kdf

(* What scrypt gives for a password, and the file writeEncrypted() writes.   *)
Derive(pw, s, kdf) == [pw |-> pw, salt |-> s, kdf |-> kdf]
SealedOldSalt(es, k, s) ==   \* mutant: the salt of the key before
  [salt |-> IF salt = None THEN s ELSE salt, kdf |-> "current", key |-> k, entries |-> es]
Sealed(es, k, s) == [salt |-> s, kdf |-> "current", key |-> k, entries |-> es]

(* A call under way: what it is, the file and the stored key that it read,   *)
(* and the passwords it has.                                                *)
Idle == [op |-> "none", file |-> NoFile, key |-> NoKey, pw |-> None, next |-> None,
         was |-> FALSE]
Calls == [op : {"none", "create", "unlock", "upgrade", "merge", "change", "bio"},
          file : Files \cup {NoFile}, key : Keys \cup {NoKey},
          pw : Passwords \cup {None}, next : Passwords \cup {None}, was : BOOLEAN]

TypeOK ==
  /\ file \in Files \cup {NoFile}
  /\ key \in Keys \cup {NoKey}
  /\ salt \in Salts \cup {None}
  /\ cache \in {None} \cup SUBSET Entries
  /\ stage \in {"locked", "open", "secured"}
  /\ armed \in BOOLEAN
  /\ call \in [Callers -> Calls]
  /\ list \in SUBSET Entries /\ shown \in BOOLEAN /\ notice \in BOOLEAN
  /\ posted \in {None} \cup SUBSET Entries
  /\ bio \in Keys \cup {NoKey}
  /\ raced \in BOOLEAN /\ left \in BOOLEAN

Init ==
  /\ file \in Copies \cup {NoFile}
  /\ key = NoKey /\ salt = None /\ cache = None /\ stage = "locked" /\ armed = FALSE
  /\ call = [c \in Callers |-> Idle]
  /\ list = {} /\ shown = FALSE /\ notice = FALSE /\ posted = None
  /\ bio \in {NoKey} \cup (IF file = NoFile THEN {} ELSE {file.key})
  /\ raced = FALSE /\ left = FALSE

------------------------------------------------------------------------------
(* vault.ts *)

(* A derived key opens a file if it was sealed under it, whatever its header *)
(* says.                                                                     *)
Opened(c) == Derive(call[c].pw, call[c].file.salt, call[c].file.kdf) = call[c].file.key

Begins(c, what) == call[c] = Idle /\ call' = [call EXCEPT ![c] = what]
Ends(c) == call' = [call EXCEPT ![c] = Idle]

Opens(k, s, es) ==
  key' = k /\ salt' = s /\ cache' = es /\ stage' = "open" /\ armed' = TRUE

Locks == key' = NoKey /\ salt' = None /\ cache' = None /\ stage' = "locked" /\ armed' = FALSE

(* randomBytes(16): none of the salts the model still knows. *)
Fresh == Salts \ ({salt} \cup (IF file = NoFile THEN {} ELSE {file.salt})
                      \cup (IF bio = NoKey THEN {} ELSE {bio.salt}))

(* vaultCreate(): that there is no file is looked up before the derivation.  *)
Create(c, pw) ==
  /\ file = NoFile
  /\ Begins(c, [Idle EXCEPT !.op = "create", !.pw = pw])
  /\ UNCHANGED <<file, process, window, bio>>

Created(c) ==
  /\ call[c].op = "create"
  /\ \E s \in Fresh : LET k == Derive(call[c].pw, s, "current") IN
       file' = Sealed({}, k, s) /\ Opens(k, s, {})
  /\ Ends(c)
  /\ UNCHANGED <<window, bio>>

(* vaultUnlock(): the file is read and wasOpen noted before the derivation.  *)
Unlock(c, pw) ==
  /\ file # NoFile
  /\ Begins(c, [Idle EXCEPT !.op = "unlock", !.file = file, !.pw = pw, !.was = (key # NoKey)])
  /\ UNCHANGED <<file, process, window, bio>>

Unlocked(c) ==
  /\ call[c].op = "unlock" /\ Opened(c) /\ call[c].file.kdf = "current"
  /\ Opens(call[c].file.key, call[c].file.salt, call[c].file.entries)
  /\ Ends(c)
  /\ UNCHANGED <<file, window, bio>>

(* The file has the old work factor: only the cache is set so far. *)
UnlockedOld(c) ==
  /\ call[c].op = "unlock" /\ Opened(c) /\ call[c].file.kdf = "legacy"
  /\ cache' = call[c].file.entries
  /\ call' = [call EXCEPT ![c].op = "upgrade"]
  /\ UNCHANGED <<file, key, salt, stage, armed, window, bio>>

(* It writes the cache of now, under the salt it read before. *)
Upgraded(c) ==
  /\ call[c].op = "upgrade"
  /\ LET s == call[c].file.salt
         k == Derive(call[c].pw, s, "current")
     IN file' = Sealed(cache, k, s) /\ Opens(k, s, cache)
  /\ Ends(c)
  /\ UNCHANGED <<window, bio>>

UpgradeFails(c) ==
  /\ call[c].op = "upgrade"
  /\ Opens(call[c].file.key, call[c].file.salt, cache)
  /\ Ends(c)
  /\ UNCHANGED <<file, window, bio>>

(* The catch of vaultUnlock(), which leaves the idle timer alone. *)
UnlockFails(c) ==
  /\ call[c].op = "unlock" /\ ~Opened(c)
  /\ IF call[c].was
     THEN UNCHANGED <<key, salt, cache, stage>>
     ELSE key' = NoKey /\ salt' = None /\ cache' = None /\ stage' = "locked"
  /\ Ends(c)
  /\ UNCHANGED <<file, armed, window, bio>>

(* vaultChangePassword() derives the current key at the work factor of now.  *)
Change(c, pw, next) ==
  /\ file # NoFile
  /\ Begins(c, [Idle EXCEPT !.op = "change", !.file = file, !.pw = pw, !.next = next])
  /\ UNCHANGED <<file, process, window, bio>>

MayChange(c) == Derive(call[c].pw, call[c].file.salt, "current") = call[c].file.key

Changed(c) ==
  /\ call[c].op = "change" /\ MayChange(c)
  /\ \E s \in Fresh : LET k == Derive(call[c].next, s, "current") IN
       file' = Sealed(call[c].file.entries, k, s) /\ Opens(k, s, call[c].file.entries)
  /\ bio' = NoKey
  /\ Ends(c)
  /\ UNCHANGED window

(* vaultMergeFrom(): another copy, read again from the relay, is folded in.  *)
Merge(c, copy, pw) ==
  /\ stage = "open" /\ key # NoKey /\ cache # None
  /\ Begins(c, [Idle EXCEPT !.op = "merge", !.file = copy, !.pw = pw])
  /\ UNCHANGED <<file, process, window, bio>>

(* vaultSave(): a write, the cache and the timer; a write may fail. *)
CanSave == stage = "open" /\ key # NoKey /\ salt # None
Saves(es) ==
  /\ CanSave
  /\ file' = Sealed(es, key, salt) /\ cache' = es /\ armed' = TRUE
  /\ UNCHANGED <<key, salt, stage>>

Merged(c) ==
  /\ call[c].op = "merge" /\ Opened(c) /\ cache # None
  /\ IF call[c].file.entries \subseteq cache
     THEN UNCHANGED <<file, process>>
     ELSE Saves(cache \cup call[c].file.entries)
  /\ Ends(c)
  /\ UNCHANGED <<window, bio>>

(* A wrong password, a lock meanwhile, a write that throws, a prompt that is *)
(* cancelled.                                                               *)
CallFails(c) ==
  /\ \/ call[c].op \in {"create", "change", "bio"}
     \/ call[c].op = "merge" /\ (~Opened(c) \/ cache = None \/ ~CanSave)
  /\ Ends(c)
  /\ UNCHANGED <<file, process, window, bio>>

(* vaultLock() by lockVaultFully(), which may drop the biometric key. *)
Lock ==
  /\ Locks /\ notice' = TRUE /\ bio' \in {bio, NoKey}
  /\ UNCHANGED <<file, call, list, shown, posted>>

SecureSilently ==   \* mutant: the window is not told
  /\ armed' = FALSE /\ stage' = IF key # NoKey THEN "secured" ELSE stage
  /\ UNCHANGED <<file, key, salt, cache, call, window, bio>>

(* vaultSecure(), by the idle timer or the lock of the screen. *)
Secure ==
  /\ armed' = FALSE /\ notice' = TRUE
  /\ stage' = IF key # NoKey THEN "secured" ELSE stage
  /\ UNCHANGED <<file, key, salt, cache, call, list, shown, posted, bio>>

ExternalChangeUnheard(copy) ==   \* mutant: sync writes the file and tells nobody
  /\ copy # file /\ file' = copy
  /\ UNCHANGED <<process, call, window, bio>>

(* Sync replaces the file and tells: vaultExternalChange(). *)
ExternalChange(copy) ==
  /\ copy # file /\ file' = copy
  /\ IF key = NoKey
     THEN UNCHANGED <<process, notice, bio>>
     ELSE IF copy.key = key
          THEN cache' = copy.entries /\ UNCHANGED <<key, salt, stage, armed, notice, bio>>
          ELSE Locks /\ notice' = TRUE /\ bio' \in {bio, NoKey}
  /\ UNCHANGED <<call, list, shown, posted>>

(* biometricUnlock(): the stored key is read, and the prompt shown.          *)
BioAsk(c) ==
  /\ bio # NoKey
  /\ Begins(c, [Idle EXCEPT !.op = "bio", !.key = bio])
  /\ UNCHANGED <<file, process, window, bio>>

(* vaultUnlockWithKey(), with the key of then and the file of now: no upgrade *)
(* here.  If it opens nothing, whatever key is stored by now is dropped.     *)
BioUnlock(c) ==
  /\ call[c].op = "bio"
  /\ IF file # NoFile /\ call[c].key = file.key
     THEN Opens(file.key, call[c].key.salt, file.entries) /\ UNCHANGED bio
     ELSE bio' = NoKey /\ UNCHANGED process
  /\ Ends(c)
  /\ UNCHANGED <<file, window>>

BioSwitch ==
  /\ stage = "open" /\ key # NoKey
  /\ bio' \in {key, NoKey}
  /\ UNCHANGED <<file, process, call, window>>

(* A secret stored or removed by main: stageVpnSecrets() and its like. *)
Store(e) ==
  /\ cache # None
  /\ Saves(cache \cup {e}) \/ Saves(cache \ {e})
  /\ UNCHANGED <<call, window, bio>>

(* The window's destroy() with vaultDestroy(): the vault is locked, and the  *)
(* window clears its list when it hears that the file is gone.              *)
Destroy ==
  /\ Locks /\ file' = NoFile /\ bio' = NoKey /\ list' = {} /\ shown' = FALSE
  /\ UNCHANGED <<call, notice, posted>>

(* The file cannot be deleted, which shows after the lock: the window keeps   *)
(* its list and no message follows.                                         *)
DestroyFails ==
  /\ file # NoFile
  /\ Locks /\ bio' = NoKey
  /\ UNCHANGED <<file, call, window>>

(* The process ends, and the next one starts locked. *)
Restart ==
  /\ Locks /\ call' = [c \in Callers |-> Idle]
  /\ list' = {} /\ shown' = FALSE /\ notice' = FALSE /\ posted' = None
  /\ bio' \in {bio, NoKey}
  /\ UNCHANGED file

------------------------------------------------------------------------------
(* The window: store/vault.ts *)

(* refresh(): status and list; what main sent before has arrived by then. *)
Refresh ==
  /\ notice' = FALSE /\ shown' = (stage = "open")
  /\ IF stage # "open" THEN list' = {} /\ UNCHANGED armed
     ELSE IF key = NoKey \/ cache = None THEN UNCHANGED <<list, armed>>
     ELSE list' = cache /\ armed' = TRUE
  /\ UNCHANGED <<file, key, salt, cache, stage, call, posted, bio>>

Cleared ==
  /\ notice /\ notice' = FALSE /\ shown' = FALSE /\ list' = {}
  /\ UNCHANGED <<file, process, call, posted, bio>>

(* addEntry(), createEntry(), updateEntry(), deleteEntry(): the whole list   *)
(* is sent to be saved.                                                      *)
Edit(e) ==
  /\ shown /\ posted = None
  /\ list' \in {list \cup {e}, list \ {e}} /\ posted' = list'
  /\ UNCHANGED <<file, process, call, shown, notice, bio>>

SaveArrives ==
  /\ posted # None /\ posted' = None
  /\ Saves(posted) \/ UNCHANGED <<file, process>>
  /\ UNCHANGED <<call, list, shown, notice, bio>>

------------------------------------------------------------------------------
Call(c) ==
  \/ \E pw \in Passwords : Create(c, pw) \/ Unlock(c, pw)
  \/ \E pw, next \in Passwords : Change(c, pw, next)
  \/ \E copy \in Copies, pw \in Passwords : Merge(c, copy, pw)
  \/ BioAsk(c)

Return(c) ==
  \/ Created(c) \/ Unlocked(c) \/ UnlockedOld(c) \/ Upgraded(c) \/ UpgradeFails(c)
  \/ UnlockFails(c) \/ Changed(c) \/ Merged(c) \/ BioUnlock(c) \/ CallFails(c)

Person ==
  \/ Lock \/ Secure \/ BioSwitch \/ Destroy \/ DestroyFails \/ Restart
  \/ Refresh \/ Cleared \/ SaveArrives \/ \E e \in Entries : Edit(e)

Other == (\E copy \in Copies : ExternalChange(copy)) \/ \E e \in Entries : Store(e)

(* What a call relies on changes while it waits: the file that it read, the  *)
(* cache that an upgrade is to write, the lock that a failed unlock found.   *)
Overtaken ==
  \/ \E c \in Callers :
       /\ call'[c] = call[c]
       /\ \/ call[c].op \in {"create", "unlock", "upgrade", "change"} /\ file' # file
          \/ call[c].op = "upgrade" /\ cache' # cache
  \/ \E c \in Callers : UnlockFails(c) /\ key # NoKey /\ key' = NoKey

Step == Person \/ Other \/ \E c \in Callers : Call(c) \/ Return(c)

(* The window that lists entries after a failed deletion does so until it is *)
(* cleared or the vault is opened again.                                    *)
Left == shown' /\ stage' # "open" /\ (left \/ (stage = "open" /\ DestroyFails))

Next == Step /\ raced' = (raced \/ Overtaken) /\ left' = Left

Spec == Init /\ [][Next]_vars

------------------------------------------------------------------------------
(* Properties *)

(* The file's salt is the one its key was derived with, and the salt held is *)
(* that of the key held, in whatever order unlocks, password changes, locks  *)
(* and pulls come back: a file sealed under one key with the salt of another *)
(* has a right password that opens it nowhere.                               *)
SaltGoesWithKey ==
  /\ file # NoFile => file.key.salt = file.salt
  /\ key # NoKey => salt = key.salt

(* The three stages say what is held: whoever finds the vault not locked     *)
(* finds a key, and a lock that any path takes leaves none behind.           *)
StageMeansKey == (stage = "locked") <=> (key = NoKey)

(* A vault that is open has its idle timer running, by whatever way it came  *)
(* to be open: a vault that never secures itself defeats the stages.         *)
OpenIsTimed == stage = "open" => armed

(* What the process serves and seals back is what the file holds, after any  *)
(* pull, save, merge, unlock and password change -- unless one of them fell  *)
(* into another's derivation.                                                *)
CacheIsTheFile ==
  key # NoKey /\ ~raced => file # NoFile /\ cache = file.entries /\ key = file.key

(* The window lists entries only while the vault is open, or a message that  *)
(* clears it is on its way.  Two paths lock without a message and are        *)
(* excepted by name: a failed unlock that another unlock overtook (`raced`), *)
(* and a deletion of the file that fails after the lock (`left`).            *)
ShownMeansOpen == shown => stage = "open" \/ notice \/ raced \/ left

(* The same without the second exception, which the code does not keep,      *)
(* although "the renderer has to be told, or it goes on holding decrypted    *)
(* entries" (index.ts, on the idle timer).                                  *)
ShownMeansOpenAlways == shown => stage = "open" \/ notice \/ raced

(* No call that comes back from a derivation -- an upgrade, a new password, a *)
(* merge -- drops an entry that the file held, whatever was saved, stored or   *)
(* pulled while it waited, unless that fell into what it had read before.      *)
NoCallDropsEntries ==
  [][\A c \in Callers :
       call'[c] # call[c] /\ call[c] # Idle /\ file # NoFile /\ file' # NoFile /\ ~raced
         => file.entries \subseteq file'.entries]_vars

(* vault.ts: "A file records the parameters it was written with, so an       *)
(* existing vault still opens": the password a file was sealed for opens it. *)
FileOpens == file # NoFile => Derive(file.key.pw, file.salt, file.kdf) = file.key

==============================================================================
