---------------------------- MODULE Vault_proofs ----------------------------
(***************************************************************************)
(* What is proved of Vault for every set of entries, passwords, salts and   *)
(* copies, and any number of calls under way.                               *)
(***************************************************************************)
EXTENDS Vault, TLAPS

(* What a call under way carries.  One that is upgrading a file has opened it. *)
CallsHave ==
  \A c \in Callers :
    /\ call[c].op \notin {"none", "bio"} => call[c].pw \in Passwords
    /\ call[c].op = "bio" => call[c].key \in Keys
    /\ call[c].op \in {"unlock", "upgrade", "change", "merge"} => call[c].file \in Files
    /\ call[c].op = "merge" => call[c].file \in Copies
    /\ call[c].op = "change" => call[c].next \in Passwords
    /\ call[c].op = "upgrade" => Opened(c)

(* As long as no call was overtaken, what it read is still so when it returns. *)
NotOvertaken ==
  ~raced => \A c \in Callers :
    /\ call[c].op \in {"unlock", "upgrade", "change"} => call[c].file = file /\ file # NoFile
    /\ call[c].op = "upgrade" => cache = file.entries
    /\ call[c].op = "create" => file = NoFile

------------------------------------------------------------------------------
(* The operators the actions are built from *)

(* What a derivation gives is a key, and what is sealed with it is a file.   *)
LEMMA DeriveType ==
  ASSUME NEW pw \in Passwords, NEW s \in Salts, NEW kdf \in Kdfs
  PROVE  Derive(pw, s, kdf) \in Keys /\ Derive(pw, s, kdf).salt = s
  BY DEF Derive, Keys

LEMMA SealedType ==
  ASSUME NEW es \in {None} \cup SUBSET Entries, NEW k \in Keys, NEW s \in Salts
  PROVE  /\ Sealed(es, k, s) \in Files /\ Sealed(es, k, s) # NoFile
         /\ Sealed(es, k, s).key = k /\ Sealed(es, k, s).salt = s
         /\ Sealed(es, k, s).entries = es
  BY NothingAssumption DEF Sealed, Files, Kdfs

LEMMA FileParts ==
  ASSUME NEW f \in Files
  PROVE  /\ f # NoFile /\ f.salt \in Salts /\ f.kdf \in Kdfs /\ f.key \in Keys
         /\ f.entries \in {None} \cup SUBSET Entries
  BY NothingAssumption DEF Files

(* A copy of another device is a file, with entries, that its salt goes with. *)
LEMMA CopyParts ==
  ASSUME NEW f \in Copies
  PROVE  f \in Files /\ f.entries \in SUBSET Entries /\ f.key.salt = f.salt
  BY CopiesAssumption DEF Files

(* The call that opened a file has the key and the salt that go together. *)
LEMMA OpenedParts ==
  ASSUME NEW c \in Callers, call[c].pw \in Passwords, call[c].file \in Files, Opened(c)
  PROVE  /\ call[c].file.key \in Keys /\ call[c].file.key.salt = call[c].file.salt
         /\ call[c].file.salt \in Salts /\ call[c].file # NoFile
         /\ call[c].file.entries \in {None} \cup SUBSET Entries
  BY FileParts, DeriveType DEF Opened

(* Calls begin and end well formed, and leave the others as they were. *)
LEMMA EndsType ==
  ASSUME TypeOK, CallsHave, NEW c \in Callers, Ends(c)
  PROVE  /\ call' \in [Callers -> Calls] /\ CallsHave'
         /\ call'[c] = Idle /\ \A d \in Callers \ {c} : call'[d] = call[d]
<1>1. Idle \in Calls /\ Idle.op = "none"
  BY DEF Idle, Calls
<1>2. call' \in [Callers -> Calls] /\ call'[c] = Idle /\ \A d \in Callers \ {c} : call'[d] = call[d]
  BY <1>1 DEF Ends, TypeOK
<1> QED
  BY <1>1, <1>2 DEF CallsHave, Opened

LEMMA BeginsType ==
  ASSUME TypeOK, CallsHave, NEW c \in Callers, NEW what \in Calls, Begins(c, what),
         what.op # "bio" => what.pw \in Passwords, what.op # "upgrade",
         what.op = "bio" => what.key \in Keys,
         what.op \in {"unlock", "change", "merge"} => what.file \in Files,
         what.op = "merge" => what.file \in Copies,
         what.op = "change" => what.next \in Passwords
  PROVE  /\ call' \in [Callers -> Calls] /\ CallsHave'
         /\ call'[c] = what /\ \A d \in Callers \ {c} : call'[d] = call[d]
<1>1. call' \in [Callers -> Calls] /\ call'[c] = what /\ \A d \in Callers \ {c} : call'[d] = call[d]
  BY DEF Begins, TypeOK
<1> QED
  BY <1>1 DEF CallsHave, Opened

(* vaultSave() seals with the key held and its salt. *)
LEMMA SavesType ==
  ASSUME TypeOK, SaltGoesWithKey, NEW es \in SUBSET Entries, Saves(es)
  PROVE  /\ file' \in Files /\ file' # NoFile /\ file'.entries = es /\ cache' = es
         /\ file'.key = key /\ file'.salt = key.salt /\ key \in Keys /\ key # NoKey
         /\ UNCHANGED <<key, salt, stage>> /\ stage = "open" /\ armed' = TRUE
<1>1. key \in Keys /\ salt = key.salt /\ salt \in Salts
  BY NothingAssumption DEF TypeOK, SaltGoesWithKey, Saves, CanSave, Keys
<1> QED
  BY <1>1, SealedType DEF Saves, CanSave

------------------------------------------------------------------------------
(* The steps *)

(* The parts of the invariant that the history of overtaken calls says       *)
(* nothing of.                                                               *)
KeysInv == TypeOK /\ CallsHave /\ SaltGoesWithKey /\ StageMeansKey /\ OpenIsTimed

LEMMA CallKeepsKeys ==
  ASSUME KeysInv, raced' \in BOOLEAN, left' \in BOOLEAN, NEW c \in Callers, Call(c)
  PROVE  KeysInv'
<1>a. UNCHANGED <<file, process, window, bio>>
  BY DEF Call, Create, Unlock, Change, Merge, BioAsk
<1>b. ASSUME NEW what \in Calls, Begins(c, what), what.op # "bio" => what.pw \in Passwords,
             what.op # "upgrade", what.op = "bio" => what.key \in Keys,
             what.op \in {"unlock", "change", "merge"} => what.file \in Files,
             what.op = "merge" => what.file \in Copies,
             what.op = "change" => what.next \in Passwords
      PROVE  call' \in [Callers -> Calls] /\ CallsHave'
  BY <1>b, BeginsType DEF KeysInv
<1>1. call' \in [Callers -> Calls] /\ CallsHave'
  <2>1. ASSUME NEW pw \in Passwords, Create(c, pw)
        PROVE  call' \in [Callers -> Calls] /\ CallsHave'
    <3> DEFINE what == [Idle EXCEPT !.op = "create", !.pw = pw]
    <3>1. what \in Calls /\ what.op = "create" /\ what.pw = pw
      BY DEF Calls, Idle
    <3> QED
      BY <2>1, <3>1, <1>b DEF Create
  <2>2. ASSUME NEW pw \in Passwords, Unlock(c, pw)
        PROVE  call' \in [Callers -> Calls] /\ CallsHave'
    <3> DEFINE what == [Idle EXCEPT !.op = "unlock", !.file = file, !.pw = pw,
                                    !.was = (key # NoKey)]
    <3>1. /\ what \in Calls /\ what.op = "unlock" /\ what.pw = pw /\ what.file = file
          /\ file \in Files
      BY <2>2 DEF Calls, Idle, KeysInv, TypeOK, Unlock
    <3> QED
      BY <2>2, <3>1, <1>b DEF Unlock
  <2>3. ASSUME NEW pw \in Passwords, NEW next \in Passwords, Change(c, pw, next)
        PROVE  call' \in [Callers -> Calls] /\ CallsHave'
    <3> DEFINE what == [Idle EXCEPT !.op = "change", !.file = file, !.pw = pw, !.next = next]
    <3>1. /\ what \in Calls /\ what.op = "change" /\ what.pw = pw /\ what.file = file
          /\ file \in Files /\ what.next = next
      BY <2>3 DEF Calls, Idle, KeysInv, TypeOK, Change
    <3> QED
      BY <2>3, <3>1, <1>b DEF Change
  <2>4. ASSUME NEW copy \in Copies, NEW pw \in Passwords, Merge(c, copy, pw)
        PROVE  call' \in [Callers -> Calls] /\ CallsHave'
    <3> DEFINE what == [Idle EXCEPT !.op = "merge", !.file = copy, !.pw = pw]
    <3>1. /\ what \in Calls /\ what.op = "merge" /\ what.pw = pw /\ what.file = copy
          /\ copy \in Files
      BY CopyParts DEF Calls, Idle
    <3> QED
      BY <2>4, <3>1, <1>b DEF Merge
  <2>5. CASE BioAsk(c)
    <3> DEFINE what == [Idle EXCEPT !.op = "bio", !.key = bio]
    <3>1. what \in Calls /\ what.op = "bio" /\ what.key = bio /\ bio \in Keys
      BY <2>5 DEF Calls, Idle, KeysInv, TypeOK, BioAsk
    <3> QED
      BY <2>5, <3>1, <1>b DEF BioAsk
  <2> QED
    BY <2>1, <2>2, <2>3, <2>4, <2>5 DEF Call
<1> QED
  BY <1>a, <1>1 DEF KeysInv, TypeOK, SaltGoesWithKey, StageMeansKey, OpenIsTimed,
                    process, window

LEMMA ReturnKeepsKeys ==
  ASSUME KeysInv, raced' \in BOOLEAN, left' \in BOOLEAN, NEW c \in Callers, Return(c)
  PROVE  KeysInv'
<1>a. TypeOK /\ CallsHave /\ SaltGoesWithKey /\ StageMeansKey /\ OpenIsTimed
  BY DEF KeysInv
<1>b. "legacy" \in Kdfs /\ "current" \in Kdfs
  BY DEF Kdfs
<1>c. Ends(c) => call' \in [Callers -> Calls] /\ CallsHave'
  BY <1>a, EndsType
<1>1. CASE Created(c)
  <2>1. PICK s \in Fresh :
          LET k == Derive(call[c].pw, s, "current")
          IN  file' = Sealed({}, k, s) /\ Opens(k, s, {})
    BY <1>1 DEF Created
  <2> DEFINE k == Derive(call[c].pw, s, "current")
  <2>2. s \in Salts /\ k \in Keys /\ k.salt = s
    BY <1>1, <1>a, <1>b, DeriveType DEF Created, CallsHave, Fresh
  <2>3. file' \in Files /\ file'.key = k /\ file'.salt = s
    BY <2>1, <2>2, SealedType
  <2> HIDE DEF k
  <2> QED
    BY <1>1, <1>a, <1>c, <2>1, <2>2, <2>3, NothingAssumption
    DEF Created, Opens, KeysInv, TypeOK, SaltGoesWithKey, StageMeansKey, OpenIsTimed, window, k
<1>2. CASE Unlocked(c)
  <2>1. /\ call[c].file.key \in Keys /\ call[c].file.key.salt = call[c].file.salt
        /\ call[c].file.salt \in Salts /\ call[c].file.entries \in {None} \cup SUBSET Entries
    BY <1>2, <1>a, OpenedParts DEF Unlocked, CallsHave
  <2> QED
    BY <1>2, <1>a, <1>c, <2>1, NothingAssumption
    DEF Unlocked, Opens, KeysInv, TypeOK, SaltGoesWithKey, StageMeansKey, OpenIsTimed, window
<1>3. CASE UnlockedOld(c)
  <2>1. call[c].file.entries \in {None} \cup SUBSET Entries
    BY <1>3, <1>a, OpenedParts DEF UnlockedOld, CallsHave
  <2>2. call' \in [Callers -> Calls]
    BY <1>3, <1>a DEF UnlockedOld, TypeOK, Calls
  <2>3. call'[c] = [call[c] EXCEPT !.op = "upgrade"]
    BY <1>3, <1>a DEF UnlockedOld, TypeOK
  <2>4. \A d \in Callers \ {c} : call'[d] = call[d]
    BY <1>3, <1>a DEF UnlockedOld, TypeOK
  <2>5. /\ call'[c].op = "upgrade" /\ call'[c].pw = call[c].pw /\ call'[c].file = call[c].file
    BY <2>3, <1>a DEF TypeOK, Calls
  <2>6. CallsHave'
    BY <1>3, <1>a, <2>4, <2>5 DEF UnlockedOld, CallsHave, Opened
  <2> QED
    BY <1>3, <1>a, <2>1, <2>2, <2>6
    DEF UnlockedOld, KeysInv, TypeOK, SaltGoesWithKey, StageMeansKey, OpenIsTimed, window
<1>4. CASE Upgraded(c)
  <2> DEFINE s == call[c].file.salt
             k == Derive(call[c].pw, s, "current")
  <2>1. s \in Salts /\ k \in Keys /\ k.salt = s
    BY <1>4, <1>a, <1>b, FileParts, DeriveType DEF Upgraded, CallsHave
  <2>2. file' = Sealed(cache, k, s) /\ Opens(k, s, cache)
    BY <1>4 DEF Upgraded
  <2>3. file' \in Files /\ file'.key = k /\ file'.salt = s
    BY <1>a, <2>1, <2>2, SealedType DEF TypeOK
  <2> HIDE DEF k, s
  <2> QED
    BY <1>4, <1>a, <1>c, <2>1, <2>2, <2>3, NothingAssumption
    DEF Upgraded, Opens, KeysInv, TypeOK, SaltGoesWithKey, StageMeansKey, OpenIsTimed, window
<1>5. CASE UpgradeFails(c)
  <2>1. /\ call[c].file.key \in Keys /\ call[c].file.key.salt = call[c].file.salt
        /\ call[c].file.salt \in Salts
    BY <1>5, <1>a, OpenedParts DEF UpgradeFails, CallsHave
  <2> QED
    BY <1>5, <1>a, <1>c, <2>1, NothingAssumption
    DEF UpgradeFails, Opens, KeysInv, TypeOK, SaltGoesWithKey, StageMeansKey, OpenIsTimed, window
<1>6. CASE UnlockFails(c)
  BY <1>6, <1>a, <1>c
  DEF UnlockFails, KeysInv, TypeOK, SaltGoesWithKey, StageMeansKey, OpenIsTimed, window
<1>7. CASE Changed(c)
  <2>1. PICK s \in Fresh :
          LET k == Derive(call[c].next, s, "current")
          IN  file' = Sealed(call[c].file.entries, k, s) /\ Opens(k, s, call[c].file.entries)
    BY <1>7 DEF Changed
  <2> DEFINE k == Derive(call[c].next, s, "current")
  <2>2. s \in Salts /\ k \in Keys /\ k.salt = s
    BY <1>7, <1>a, <1>b, DeriveType DEF Changed, CallsHave, Fresh
  <2>3. call[c].file.entries \in {None} \cup SUBSET Entries
    BY <1>7, <1>a, FileParts DEF Changed, CallsHave
  <2>4. file' \in Files /\ file'.key = k /\ file'.salt = s
    BY <2>1, <2>2, <2>3, SealedType
  <2> HIDE DEF k
  <2> QED
    BY <1>7, <1>a, <1>c, <2>1, <2>2, <2>3, <2>4, NothingAssumption
    DEF Changed, Opens, KeysInv, TypeOK, SaltGoesWithKey, StageMeansKey, OpenIsTimed, window, k
<1>8. CASE Merged(c)
  <2>1. cache \cup call[c].file.entries \in SUBSET Entries
    BY <1>8, <1>a, CopyParts DEF Merged, CallsHave, TypeOK
  <2>2. CASE UNCHANGED <<file, process>>
    BY <1>8, <1>a, <1>c, <2>2
    DEF Merged, KeysInv, TypeOK, SaltGoesWithKey, StageMeansKey, OpenIsTimed, window, process
  <2>3. CASE Saves(cache \cup call[c].file.entries)
    BY <1>8, <1>a, <1>c, <2>1, <2>3, SavesType
    DEF Merged, KeysInv, TypeOK, SaltGoesWithKey, StageMeansKey, OpenIsTimed, window
  <2> QED
    BY <1>8, <2>2, <2>3 DEF Merged
<1>9. CASE CallFails(c)
  BY <1>9, <1>a, <1>c
  DEF CallFails, KeysInv, TypeOK, SaltGoesWithKey, StageMeansKey, OpenIsTimed, window, process
<1>10. CASE BioUnlock(c)
  <2>1. CASE file # NoFile /\ call[c].key = file.key
    <3>1. /\ file \in Files /\ file.key \in Keys /\ file.key.salt = file.salt
          /\ file.salt \in Salts /\ file.entries \in {None} \cup SUBSET Entries
      BY <1>a, <2>1, FileParts DEF TypeOK, SaltGoesWithKey
    <3> QED
      BY <1>10, <1>a, <1>c, <2>1, <3>1, NothingAssumption
      DEF BioUnlock, Opens, KeysInv, TypeOK, SaltGoesWithKey, StageMeansKey, OpenIsTimed, window
  <2>2. CASE ~(file # NoFile /\ call[c].key = file.key)
    BY <1>10, <1>a, <1>c, <2>2
    DEF BioUnlock, KeysInv, TypeOK, SaltGoesWithKey, StageMeansKey, OpenIsTimed, window, process
  <2> QED
    BY <2>1, <2>2
<1> QED
  BY <1>1, <1>2, <1>3, <1>4, <1>5, <1>6, <1>7, <1>8, <1>9, <1>10 DEF Return

LEMMA OthersKeepKeys ==
  ASSUME KeysInv, raced' \in BOOLEAN, left' \in BOOLEAN, Person \/ Other
  PROVE  KeysInv'
<1>a. TypeOK /\ CallsHave /\ SaltGoesWithKey /\ StageMeansKey /\ OpenIsTimed
  BY DEF KeysInv
<1>b. UNCHANGED call => call' \in [Callers -> Calls] /\ CallsHave'
  BY <1>a DEF TypeOK, CallsHave, Opened
<1> USE NothingAssumption DEF KeysInv, TypeOK, SaltGoesWithKey, StageMeansKey, OpenIsTimed,
                               process, window
<1>1. CASE Lock
  BY <1>1, <1>a, <1>b DEF Lock, Locks
<1>2. CASE Secure
  BY <1>2, <1>a, <1>b DEF Secure
<1>3. CASE DestroyFails
  BY <1>3, <1>a, <1>b DEF DestroyFails, Locks
<1>4. CASE BioSwitch
  BY <1>4, <1>a, <1>b DEF BioSwitch
<1>5. CASE Destroy
  BY <1>5, <1>a, <1>b DEF Destroy, Locks
<1>6. CASE Restart
  <2>1. call' \in [Callers -> Calls] /\ CallsHave'
    BY <1>6 DEF Restart, CallsHave, Calls, Idle
  <2> QED
    BY <1>6, <1>a, <2>1 DEF Restart, Locks
<1>7. CASE Refresh
  BY <1>7, <1>a, <1>b DEF Refresh
<1>8. CASE Cleared
  BY <1>8, <1>a, <1>b DEF Cleared
<1>9. CASE SaveArrives
  <2>1. CASE Saves(posted)
    BY <1>9, <1>a, <1>b, <2>1, SavesType DEF SaveArrives
  <2>2. CASE UNCHANGED <<file, process>>
    BY <1>9, <1>a, <1>b, <2>2 DEF SaveArrives
  <2> QED
    BY <1>9, <2>1, <2>2 DEF SaveArrives
<1>10. CASE \E e \in Entries : Edit(e)
  BY <1>10, <1>a, <1>b DEF Edit
<1>11. ASSUME NEW copy \in Copies, ExternalChange(copy)
       PROVE  KeysInv'
  <2>1. copy \in Files /\ copy.entries \in SUBSET Entries /\ copy.key.salt = copy.salt
    BY CopyParts
  <2> QED
    BY <1>11, <1>a, <1>b, <2>1 DEF ExternalChange, Locks
<1>12. ASSUME NEW e \in Entries, Store(e)
       PROVE  KeysInv'
  <2>1. cache \cup {e} \in SUBSET Entries /\ cache \ {e} \in SUBSET Entries
    BY <1>12, <1>a DEF Store
  <2>2. PICK es \in {cache \cup {e}, cache \ {e}} : Saves(es)
    BY <1>12 DEF Store
  <2> QED
    BY <1>12, <1>a, <1>b, <2>1, <2>2, SavesType DEF Store
<1> QED
  BY <1>1, <1>2, <1>3, <1>4, <1>5, <1>6, <1>7, <1>8, <1>9, <1>10, <1>11, <1>12
  DEF Person, Other

LEMMA KeysStep == ASSUME KeysInv, [Next]_vars PROVE KeysInv'
<1>1. CASE Next
  <2>1. raced' \in BOOLEAN /\ left' \in BOOLEAN
    BY <1>1 DEF Next, Left
  <2>2. Step
    BY <1>1 DEF Next
  <2> QED
    BY <2>1, <2>2, CallKeepsKeys, ReturnKeepsKeys, OthersKeepKeys DEF Step
<1>2. CASE UNCHANGED vars
  BY <1>2 DEF vars, process, window, KeysInv, TypeOK, CallsHave, Opened, SaltGoesWithKey,
              StageMeansKey, OpenIsTimed
<1> QED
  BY <1>1, <1>2

LEMMA KeysInit == ASSUME Init PROVE KeysInv
<1>1. TypeOK
  BY CopyParts, FileParts DEF Init, TypeOK, Calls, Idle
<1> QED
  BY <1>1, CopyParts, NothingAssumption DEF Init, Idle, KeysInv, CallsHave, SaltGoesWithKey,
     StageMeansKey, OpenIsTimed

(* The types of the variables, of files and of what a call carries. *)
THEOREM VaultTypes == Spec => []TypeOK
<1>1. Spec => []KeysInv
  BY KeysInit, KeysStep, PTL DEF Spec
<1>2. KeysInv => TypeOK
  BY DEF KeysInv
<1> QED
  BY <1>1, <1>2, PTL

(* Whatever comes back late, the salt in the file and the salt in memory are *)
(* those their keys were derived with.                                       *)
THEOREM SaltAndKey == Spec => []SaltGoesWithKey
<1>1. Spec => []KeysInv
  BY KeysInit, KeysStep, PTL DEF Spec
<1>2. KeysInv => SaltGoesWithKey
  BY DEF KeysInv
<1> QED
  BY <1>1, <1>2, PTL

(* The stage is what is held, and an open vault is timed. *)
THEOREM StageAndTimer == Spec => [](StageMeansKey /\ OpenIsTimed)
<1>1. Spec => []KeysInv
  BY KeysInit, KeysStep, PTL DEF Spec
<1>2. KeysInv => StageMeansKey /\ OpenIsTimed
  BY DEF KeysInv
<1> QED
  BY <1>1, <1>2, PTL

------------------------------------------------------------------------------
(* The window *)

(* Every way out of `open` sends the window a message, or was overtaken. *)
LEMMA ShownStep ==
  ASSUME KeysInv, ShownMeansOpen, [Next]_vars
  PROVE  ShownMeansOpen'
<1> USE DEF ShownMeansOpen, window, process
<1>1. CASE UNCHANGED vars
  BY <1>1 DEF vars
<1>2. ASSUME Next, NEW c \in Callers, Call(c) \/ Return(c)
      PROVE  ShownMeansOpen'
  <2>1. UNCHANGED <<shown, notice>>
    BY <1>2 DEF Call, Return, Create, Unlock, Change, Merge, BioAsk, Created, Unlocked,
                UnlockedOld, Upgraded, UpgradeFails, UnlockFails, Changed, Merged, BioUnlock,
                CallFails
  <2>2. (raced => raced') /\ (left /\ shown' /\ stage' # "open" => left')
    BY <1>2 DEF Next, Left
  <2>3. CASE UnlockFails(c)
    <3>1. CASE call[c].was \/ key = NoKey
      BY <1>2, <2>1, <2>2, <2>3, <3>1 DEF UnlockFails, KeysInv, StageMeansKey
    <3>2. CASE ~call[c].was /\ key # NoKey
      BY <1>2, <2>3, <3>2 DEF UnlockFails, Next, Overtaken
    <3> QED
      BY <3>1, <3>2
  <2>4. CASE ~UnlockFails(c)
    <3>1. stage' \in {stage, "open"}
      BY <1>2, <2>4 DEF Call, Return, Create, Unlock, Change, Merge, BioAsk, Created, Unlocked,
         UnlockedOld, Upgraded, UpgradeFails, Changed, Merged, BioUnlock, CallFails, Opens, Saves
    <3> QED
      BY <2>1, <2>2, <3>1
  <2> QED
    BY <2>3, <2>4
<1>3. ASSUME Next, Person \/ Other
      PROVE  ShownMeansOpen'
  <2>1. (raced => raced') /\ (left /\ shown' /\ stage' # "open" => left')
    BY <1>3 DEF Next, Left
  <2>2. CASE Lock \/ Secure \/ BioSwitch \/ Destroy \/ Restart \/ Refresh \/ Cleared
             \/ SaveArrives
    BY <2>1, <2>2 DEF Lock, Secure, BioSwitch, Destroy, Restart, Refresh, Cleared, SaveArrives,
       Saves
  <2>3. CASE \E e \in Entries : Edit(e)
    BY <2>1, <2>3 DEF Edit
  <2>4. CASE DestroyFails
    <3>1. stage = "open" /\ shown' => left'
      BY <1>3, <2>4 DEF Next, Left, DestroyFails, Locks
    <3> QED
      BY <2>1, <2>4, <3>1 DEF DestroyFails, Locks
  <2>5. CASE Other
    BY <2>1, <2>5 DEF Other, ExternalChange, Store, Saves
  <2> QED
    BY <1>3, <2>2, <2>3, <2>4, <2>5 DEF Person
<1> QED
  BY <1>1, <1>2, <1>3 DEF Next, Step

(* The window shows the entries of an open vault, or a message that clears   *)
(* it is on its way, unless a failed unlock locked what another had opened   *)
(* or the file could not be deleted.                                         *)
THEOREM WindowFollows == Spec => []ShownMeansOpen
<1>1. Init => KeysInv /\ ShownMeansOpen
  BY KeysInit DEF Init, ShownMeansOpen
<1>2. KeysInv /\ ShownMeansOpen /\ [Next]_vars => (KeysInv /\ ShownMeansOpen)'
  BY KeysStep, ShownStep
<1> QED
  BY <1>1, <1>2, PTL DEF Spec

------------------------------------------------------------------------------
(* The file and the cache *)

CacheInv == NotOvertaken /\ CacheIsTheFile

(* A call that the step leaves alone keeps what it relies on. *)
LEMMA OtherCalls ==
  ASSUME KeysInv, CacheInv, Next, ~raced', NEW d \in Callers, call'[d] = call[d]
  PROVE  /\ call'[d].op \in {"unlock", "upgrade", "change"} => call'[d].file = file' /\ file' # NoFile
         /\ call'[d].op = "upgrade" => cache' = file'.entries
         /\ call'[d].op = "create" => file' = NoFile
<1>1. ~raced /\ ~Overtaken
  BY DEF Next, KeysInv, TypeOK
<1>2. call[d].op \in {"create", "unlock", "upgrade", "change"} => file' = file
  BY <1>1 DEF Overtaken
<1>3. call[d].op = "upgrade" => cache' = cache
  BY <1>1 DEF Overtaken
<1> QED
  BY <1>1, <1>2, <1>3 DEF CacheInv, NotOvertaken

LEMMA CacheStep ==
  ASSUME KeysInv, CacheInv, [Next]_vars
  PROVE  CacheInv'
<1>a. TypeOK /\ CallsHave /\ SaltGoesWithKey /\ NotOvertaken /\ CacheIsTheFile
  BY DEF KeysInv, CacheInv
<1>1. CASE UNCHANGED vars
  BY <1>1 DEF vars, process, CacheInv, NotOvertaken, CacheIsTheFile
<1>2. CASE raced'
  BY <1>2 DEF CacheInv, NotOvertaken, CacheIsTheFile
<1>3. ASSUME Next, ~raced', NEW c \in Callers, Call(c)
      PROVE  CacheInv'
  <2>1. UNCHANGED <<file, process>> /\ ~raced
    BY <1>3 DEF Call, Create, Unlock, Change, Merge, BioAsk, Next
  <2> DEFINE Begun ==
        /\ \A d \in Callers \ {c} : call'[d] = call[d]
        /\ \/ call'[c].op = "create" /\ file = NoFile
           \/ call'[c].op \in {"merge", "bio"}
           \/ call'[c].op \in {"unlock", "change"} /\ call'[c].file = file /\ file # NoFile
  <2>2. Begun
    <3>1. ASSUME NEW pw \in Passwords, Create(c, pw) PROVE Begun
      BY <3>1, <1>a DEF Create, Begins, TypeOK, Idle
    <3>2. ASSUME NEW pw \in Passwords, Unlock(c, pw) PROVE Begun
      BY <3>2, <1>a DEF Unlock, Begins, TypeOK, Idle
    <3>3. ASSUME NEW pw \in Passwords, NEW next \in Passwords, Change(c, pw, next) PROVE Begun
      BY <3>3, <1>a DEF Change, Begins, TypeOK, Idle
    <3>4. ASSUME NEW copy \in Copies, NEW pw \in Passwords, Merge(c, copy, pw) PROVE Begun
      BY <3>4, <1>a DEF Merge, Begins, TypeOK, Idle
    <3>5. CASE BioAsk(c)
      BY <3>5, <1>a DEF BioAsk, Begins, TypeOK, Idle
    <3> QED
      BY <1>3, <3>1, <3>2, <3>3, <3>4, <3>5 DEF Call
  <2>3. NotOvertaken'
    BY <1>3, <1>a, <2>1, <2>2, OtherCalls DEF NotOvertaken, CacheInv
  <2> QED
    BY <1>a, <2>1, <2>3 DEF CacheIsTheFile, CacheInv, process
<1>4. ASSUME Next, ~raced', NEW c \in Callers, Return(c)
      PROVE  CacheInv'
  <2>1. ~raced
    BY <1>4 DEF Next
  <2>2. ASSUME Ends(c) PROVE NotOvertaken'
    <3>1. call'[c].op = "none" /\ \A d \in Callers \ {c} : call'[d] = call[d]
      BY <2>2, <1>a, EndsType DEF Idle
    <3> QED
      BY <1>4, <3>1, OtherCalls DEF NotOvertaken
  <2>3. CASE Created(c)
    <3>1. PICK s \in Fresh :
            LET k == Derive(call[c].pw, s, "current")
            IN  file' = Sealed({}, k, s) /\ Opens(k, s, {})
      BY <2>3 DEF Created
    <3>2. file'.entries = {} /\ file'.key = key' /\ file' # NoFile /\ cache' = {}
      BY <1>a, <2>3, <3>1, SealedType, DeriveType DEF Opens, Created, CallsHave, Fresh, Kdfs
    <3> QED
      BY <2>2, <2>3, <3>2 DEF Created, CacheInv, CacheIsTheFile
  <2>4. CASE Unlocked(c)
    BY <1>a, <2>1, <2>2, <2>4 DEF Unlocked, Opens, NotOvertaken, CacheIsTheFile, CacheInv
  <2>5. CASE UnlockedOld(c)
    <3>1. /\ call[c].file = file /\ file # NoFile /\ cache' = file.entries
          /\ UNCHANGED <<file, key>>
      BY <1>a, <2>1, <2>5 DEF UnlockedOld, NotOvertaken
    <3>2. /\ call'[c].op = "upgrade" /\ call'[c].file = file
          /\ \A d \in Callers \ {c} : call'[d] = call[d]
      BY <1>a, <2>5, <3>1 DEF UnlockedOld, TypeOK, Calls
    <3>3. NotOvertaken'
      BY <1>4, <3>1, <3>2, OtherCalls DEF NotOvertaken
    <3> QED
      BY <1>a, <2>1, <3>1, <3>3 DEF CacheIsTheFile, CacheInv
  <2>6. CASE Upgraded(c)
    <3> DEFINE s == call[c].file.salt
               k == Derive(call[c].pw, s, "current")
    <3>1. file' = Sealed(cache, k, s) /\ Opens(k, s, cache)
      BY <2>6 DEF Upgraded
    <3>2. s \in Salts /\ k \in Keys
      BY <1>a, <2>6, FileParts, DeriveType DEF Upgraded, CallsHave, Kdfs
    <3>3. file'.entries = cache' /\ file'.key = key' /\ file' # NoFile
      BY <1>a, <3>1, <3>2, SealedType DEF Opens, TypeOK
    <3> QED
      BY <2>2, <2>6, <3>3 DEF Upgraded, CacheInv, CacheIsTheFile
  <2>7. CASE UpgradeFails(c)
    BY <1>a, <2>1, <2>2, <2>7 DEF UpgradeFails, Opens, NotOvertaken, CacheIsTheFile, CacheInv
  <2>8. CASE UnlockFails(c)
    BY <1>a, <2>1, <2>2, <2>8 DEF UnlockFails, CacheIsTheFile, CacheInv
  <2>9. CASE Changed(c)
    <3>1. PICK s \in Fresh :
            LET k == Derive(call[c].next, s, "current")
            IN  file' = Sealed(call[c].file.entries, k, s) /\ Opens(k, s, call[c].file.entries)
      BY <2>9 DEF Changed
    <3>2. call[c].file.entries \in {None} \cup SUBSET Entries
      BY <1>a, <2>9, FileParts DEF Changed, CallsHave
    <3>3. file'.entries = cache' /\ file'.key = key' /\ file' # NoFile
      BY <1>a, <2>9, <3>1, <3>2, SealedType, DeriveType DEF Opens, Changed, CallsHave, Fresh, Kdfs
    <3> QED
      BY <2>2, <2>9, <3>3 DEF Changed, CacheInv, CacheIsTheFile
  <2>10. CASE Merged(c)
    <3>1. cache \cup call[c].file.entries \in SUBSET Entries
      BY <1>a, <2>10, CopyParts DEF Merged, CallsHave, TypeOK
    <3>2. CacheIsTheFile'
      BY <1>a, <2>1, <2>10, <3>1, SavesType DEF Merged, CacheIsTheFile, process
    <3> QED
      BY <2>2, <2>10, <3>2 DEF Merged, CacheInv
  <2>11. CASE CallFails(c)
    BY <1>a, <2>1, <2>2, <2>11 DEF CallFails, CacheIsTheFile, CacheInv, process
  <2>12. CASE BioUnlock(c)
    BY <1>a, <2>1, <2>2, <2>12 DEF BioUnlock, Opens, CacheIsTheFile, CacheInv, process
  <2> QED
    BY <1>4, <2>3, <2>4, <2>5, <2>6, <2>7, <2>8, <2>9, <2>10, <2>11, <2>12 DEF Return
<1>5. ASSUME Next, ~raced', Person \/ Other
      PROVE  CacheInv'
  <2>1. ~raced
    BY <1>5 DEF Next
  <2>2. NotOvertaken'
    <3>1. UNCHANGED call \/ \A d \in Callers : call'[d] = Idle
      BY <1>5 DEF Person, Other, Lock, Secure, BioSwitch, Destroy, DestroyFails, Restart, Refresh,
         Cleared, SaveArrives, Edit, ExternalChange, Store
    <3> QED
      BY <1>5, <3>1, OtherCalls DEF NotOvertaken, Idle
  <2>3. CacheIsTheFile'
    <3> USE <1>a, <2>1 DEF CacheIsTheFile, process
    <3>1. CASE SaveArrives
      BY <3>1, SavesType DEF SaveArrives, TypeOK
    <3>2. ASSUME NEW e \in Entries, Store(e) PROVE CacheIsTheFile'
      <4>1. PICK es \in {cache \cup {e}, cache \ {e}} : Saves(es)
        BY <3>2 DEF Store
      <4>2. es \in SUBSET Entries
        BY <3>2 DEF Store, TypeOK
      <4> QED
        BY <4>1, <4>2, SavesType
    <3>3. ASSUME NEW copy \in Copies, ExternalChange(copy) PROVE CacheIsTheFile'
      BY <3>3, CopyParts, FileParts DEF ExternalChange, Locks
    <3>4. CASE Person /\ ~SaveArrives
      BY <3>4 DEF Person, Lock, Locks, Secure, BioSwitch, Destroy, DestroyFails, Restart, Refresh,
         Cleared, Edit, Opens
    <3> QED
      BY <1>5, <3>1, <3>2, <3>3, <3>4 DEF Other
  <2> QED
    BY <2>2, <2>3 DEF CacheInv
<1> QED
  BY <1>1, <1>2, <1>3, <1>4, <1>5 DEF Next, Step

LEMMA CacheAlways == Spec => [](KeysInv /\ CacheInv)
<1>1. Init => KeysInv /\ CacheInv
  <2>1. ASSUME Init, NEW c \in Callers PROVE call[c].op = "none"
    BY <2>1 DEF Init, Idle
  <2> QED
    BY <2>1, KeysInit DEF Init, CacheInv, NotOvertaken, CacheIsTheFile
<1>2. KeysInv /\ CacheInv /\ [Next]_vars => (KeysInv /\ CacheInv)'
  BY KeysStep, CacheStep
<1> QED
  BY <1>1, <1>2, PTL DEF Spec

(* As long as no call was overtaken, the process serves and seals back what  *)
(* the file holds, under the key the file has.                               *)
THEOREM CacheAndFile == Spec => []CacheIsTheFile
<1>1. KeysInv /\ CacheInv => CacheIsTheFile
  BY DEF CacheInv
<1> QED
  BY <1>1, CacheAlways, PTL

(* A call that returns drops no entry of the file. *)
LEMMA ReturnsDropNothing ==
  ASSUME KeysInv, CacheInv, [Next]_vars, NEW c \in Callers, call'[c] # call[c],
         call[c] # Idle, file # NoFile, file' # NoFile, ~raced
  PROVE  file.entries \subseteq file'.entries
<1>a. TypeOK /\ CallsHave /\ SaltGoesWithKey /\ NotOvertaken /\ CacheIsTheFile
  BY DEF KeysInv, CacheInv
<1>1. CASE file' = file
  BY <1>1
<1>2. CASE file' # file
  <2>1. \E d \in Callers : Return(d)
    BY <1>2 DEF vars, Next, Step, Person, Other, Lock, Secure, BioAsk, BioSwitch, Destroy,
       DestroyFails, Restart, Refresh, Cleared, SaveArrives, Edit, ExternalChange, Store, Call, Create,
       Unlock, Change, Merge
  <2>2. PICK d \in Callers : Created(d) \/ Upgraded(d) \/ Changed(d) \/ Merged(d)
    BY <1>2, <2>1
    DEF Return, Unlocked, UnlockedOld, UpgradeFails, UnlockFails, BioUnlock, CallFails
  <2>3. Ends(d)
    BY <2>2 DEF Created, Upgraded, Changed, Merged
  <2>4. c = d
    BY <1>a, <2>3, EndsType
  <2>5. CASE Created(c)
    BY <1>a, <2>5 DEF Created, NotOvertaken
  <2>6. CASE Upgraded(c)
    <3> DEFINE s == call[c].file.salt
               k == Derive(call[c].pw, s, "current")
    <3>1. file' = Sealed(cache, k, s) /\ cache = file.entries
      BY <1>a, <2>6 DEF Upgraded, NotOvertaken
    <3> QED
      BY <3>1 DEF Sealed
  <2>7. CASE Changed(c)
    <3>1. call[c].file.entries = file.entries
      BY <1>a, <2>7 DEF Changed, NotOvertaken
    <3> QED
      BY <2>7, <3>1 DEF Changed, Sealed
  <2>8. CASE Merged(c)
    <3>1. Saves(cache \cup call[c].file.entries)
      BY <1>2, <2>8 DEF Merged
    <3>2. cache = file.entries /\ file'.entries = cache \cup call[c].file.entries
      BY <1>a, <3>1 DEF Saves, CanSave, CacheIsTheFile, Sealed
    <3> QED
      BY <3>2
  <2> QED
    BY <2>2, <2>4, <2>5, <2>6, <2>7, <2>8
<1> QED
  BY <1>1, <1>2

(* An upgrade, a new password or a merge keeps every entry that the file has *)
(* when it writes, unless it was overtaken.                                  *)
THEOREM EntriesSurviveCalls == Spec => NoCallDropsEntries
<1>1. KeysInv /\ CacheInv /\ [Next]_vars =>
        [\A c \in Callers :
           call'[c] # call[c] /\ call[c] # Idle /\ file # NoFile /\ file' # NoFile /\ ~raced
             => file.entries \subseteq file'.entries]_vars
  BY ReturnsDropNothing
<1> QED
  BY <1>1, CacheAlways, PTL DEF Spec, NoCallDropsEntries

=============================================================================
