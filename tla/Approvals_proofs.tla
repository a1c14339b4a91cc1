-------------------------- MODULE Approvals_proofs --------------------------
(***************************************************************************)
(* What is proved of Approvals for every set of calls and plans, and every  *)
(* cap, cooldown, window and fuse.                                          *)
(***************************************************************************)
EXTENDS Approvals, SequenceTheorems, TLAPS

(* A fuse that burns ends by its extensions, one that does not by the        *)
(* backstop.                                                                 *)
FuseInv ==
  \A c \in Asked :
    /\ Surfaced => fuse[c].armed
    /\ fuse[c].armed => fuse[c].age + fuse[c].left <= Fuse + fuse[c].ext
    /\ ~fuse[c].armed => fuse[c].age + fuse[c].left <= Unseen

(* What was neither answered nor granted is what the call still has to ask,  *)
(* and a yes that gate() has yet to look at is one to the question it asked. *)
LetBy(q, is) == q \in is.yes \/ Covered(q, is.stood)

YesInv ==
  \A c \in Calls :
    /\ call[c].got \in {"once", "session"} => call[c].st = "answered" /\ Now(c) \in call[c].yes
    /\ \A i \in DOMAIN call[c].plan :
         \/ LetBy(call[c].plan[i], call[c])
         \/ \E j \in DOMAIN call[c].todo : call[c].todo[j] = call[c].plan[i]

(* A grant whose call has not been let through is still that call's to lose. *)
GrantInv ==
  \A q \in elev :
    q \in earned \/ \E c \in Calls : call[c].st # "running" /\ q \in call[c].mine

(* A cooldown is the trace of a denial of just that kind.                    *)
CoolInv ==
  \A s \in Subjects : cool[s] > 0 =>
    \E q \in Questions : SubjectKey(q) = s /\ cool[s] <= denied[q]

------------------------------------------------------------------------------
(* The operators the actions are built from *)

(* What a call asks first is a question, and what is left of its list too.   *)
LEMMA ListParts ==
  ASSUME NEW s \in Seq(Questions), s # <<>>
  PROVE  /\ Head(s) \in Questions /\ Tail(s) \in Seq(Questions)
         /\ \A i \in DOMAIN s : s[i] = Head(s) \/ \E j \in DOMAIN Tail(s) : Tail(s)[j] = s[i]
<1>1. Head(s) \in Questions /\ Tail(s) \in Seq(Questions)
  OBVIOUS
<1>2. ASSUME NEW i \in DOMAIN s
      PROVE  s[i] = Head(s) \/ \E j \in DOMAIN Tail(s) : Tail(s)[j] = s[i]
  <2>1. CASE i = 1
    BY <2>1
  <2>2. CASE i # 1
    <3>1. i - 1 \in DOMAIN Tail(s) /\ Tail(s)[i - 1] = s[i]
      BY <2>2
    <3> QED
      BY <3>1
  <2> QED
    BY <2>1, <2>2
<1> QED
  BY <1>1, <1>2

(* Where gate() goes on from, nothing was dropped that was not granted.      *)
LEMMA RestParts ==
  ASSUME NEW s \in Seq(Questions), NEW G, NEW n \in LetThrough(s, G)
  PROVE  /\ SubSeq(s, n + 1, Len(s)) \in Seq(Questions)
         /\ SubSeq(s, n + 1, Len(s)) = <<>> <=> n = Len(s)
         /\ \A i \in DOMAIN s : \/ Covered(s[i], G)
              \/ \E j \in DOMAIN SubSeq(s, n + 1, Len(s)) : SubSeq(s, n + 1, Len(s))[j] = s[i]
<1> DEFINE r == SubSeq(s, n + 1, Len(s))
<1>1. n \in 0..Len(s) /\ \A i \in 1..n : Covered(s[i], G)
  BY DEF LetThrough
<1>2. r \in Seq(Questions) /\ Len(r) = Len(s) - n /\ \A j \in 1..Len(r) : r[j] = s[n + j]
  BY <1>1
<1>3. ASSUME NEW i \in DOMAIN s, ~Covered(s[i], G)
      PROVE  \E j \in DOMAIN r : r[j] = s[i]
  <2>1. i \in 1..Len(s) /\ i > n
    BY <1>1, <1>3
  <2>2. i - n \in DOMAIN r /\ r[i - n] = s[i]
    BY <1>1, <1>2, <2>1
  <2> QED
    BY <2>2
<1>4. r = <<>> <=> n = Len(s)
  <2>1. r = <<>> <=> Len(r) = 0
    BY <1>2, EmptySeq
  <2> QED
    BY <1>1, <1>2, <2>1
<1> HIDE DEF r
<1>5. /\ r \in Seq(Questions) /\ (r = <<>> <=> n = Len(s))
      /\ \A i \in DOMAIN s : Covered(s[i], G) \/ \E j \in DOMAIN r : r[j] = s[i]
  BY <1>2, <1>3, <1>4
<1> QED
  BY <1>5 DEF r

(* An extension adds what is left of the ceiling at most.                    *)
LEMMA GrantBounds ==
  ASSUME NEW f \in FuseStates, NEW s \in Nat
  PROVE  Grant(f, s) \in Int /\ f.ext + Grant(f, s) <= Ceiling
<1>1. s \in Int /\ MostPerCall \in Int /\ Ceiling - f.ext \in Int
  BY TimesAssumption DEF FuseStates
<1> DEFINE most == {s, MostPerCall, Ceiling - f.ext}
<1>2. \E g \in most : \A h \in most : g <= h
  BY <1>1
<1>3. Grant(f, s) \in most /\ \A h \in most : Grant(f, s) <= h
  BY <1>2 DEF Grant
<1> HIDE DEF Grant
<1> DEFINE g == Grant(f, s)
           e == f.ext
<1>4. g \in Int /\ g <= Ceiling - e /\ e \in Int /\ Ceiling \in Int
  BY <1>1, <1>3, TimesAssumption DEF FuseStates
<1> HIDE DEF g, e
<1>5. e + g <= Ceiling
  BY <1>4
<1> QED
  BY <1>4, <1>5 DEF g, e

(* No step but Start leaves a call that was idle with a list.                *)
LEMMA StartedParts ==
  ASSUME NEW c \in Calls, NEW p \in Plans[c], NEW s \in Orders(p)
  PROVE  LET todo == [i \in DOMAIN p |-> p[s[i]]]
         IN  /\ p \in Seq(Questions) /\ todo \in Seq(Questions)
             /\ \A i \in DOMAIN p : \E j \in DOMAIN todo : todo[j] = p[i]
<1> DEFINE todo == [i \in DOMAIN p |-> p[s[i]]]
<1>1. p \in Seq(Questions)
  BY PlansAssumption
<1>2. s \in [DOMAIN p -> DOMAIN p] /\ \A j \in DOMAIN p : \E i \in DOMAIN p : s[i] = j
  BY DEF Orders
<1>3. todo \in Seq(Questions)
  <2>1. Len(p) \in Nat /\ DOMAIN p = 1..Len(p) /\ todo \in [1..Len(p) -> Questions]
    BY <1>1, <1>2
  <2> QED
    BY <2>1, IsASeq
<1>4. \A i \in DOMAIN p : \E j \in DOMAIN todo : todo[j] = p[i]
  BY <1>2
<1> QED
  BY <1>1, <1>3, <1>4

(* The types of what gate() leaves when it goes on with a call.              *)
LEMMA GoesOnType ==
  ASSUME TypeOK, NEW c \in Calls, NEW was \in CallStates, NEW todo \in Seq(Questions),
         elev' \subseteq Questions, call[c].st # "asked", UNCHANGED fuse, GoesOn(c, was, todo)
  PROVE  /\ call' \in [Calls -> CallStates]
         /\ \A d \in Calls :
              /\ call'[d].st \in {"noting", "asked", "answered"} <=> call'[d].todo # <<>>
              /\ call'[d].st # "asked" => fuse'[d] = NoFuse
         /\ earned' \subseteq Questions
         /\ call'[c].st \in {"running", "noting"} /\ \A d \in Calls \ {c} : call'[d] = call[d]
<1>1. PICK n \in LetThrough(todo, elev') :
        LET st == IF n = Len(todo) THEN "running" ELSE "noting"
        IN  /\ call' = [call EXCEPT ![c] =
                 [was EXCEPT !.st = st, !.todo = SubSeq(todo, n + 1, Len(todo)), !.got = "none",
                             !.stood = @ \cup (elev' \cap Among(was.plan))]]
            /\ earned' = IF st = "running" THEN earned \cup was.mine ELSE earned
  BY DEF GoesOn
<1> DEFINE st == IF n = Len(todo) THEN "running" ELSE "noting"
           rest == SubSeq(todo, n + 1, Len(todo))
           is == [was EXCEPT !.st = st, !.todo = rest, !.got = "none",
                             !.stood = @ \cup (elev' \cap Among(was.plan))]
<1>2. rest \in Seq(Questions) /\ (rest = <<>> <=> n = Len(todo))
  BY RestParts
<1>3. st \in {"running", "noting"} /\ (st = "noting" <=> rest # <<>>)
  BY <1>2
<1>4. call' = [call EXCEPT ![c] = is] /\ earned' \in {earned, earned \cup was.mine}
  BY <1>1
<1> HIDE DEF st, rest
<1>5. is \in CallStates /\ is.st = st /\ is.todo = rest
  BY <1>2, <1>3 DEF CallStates
<1> HIDE DEF is
<1>6. call \in [Calls -> CallStates] /\ call'[c] = is /\ \A d \in Calls \ {c} : call'[d] = call[d]
  BY <1>4 DEF TypeOK
<1>7. earned' \subseteq Questions
  BY <1>4 DEF TypeOK, CallStates
<1>8. call' \in [Calls -> CallStates]
  BY <1>4, <1>5, <1>6
<1> QED
  BY <1>3, <1>5, <1>6, <1>7, <1>8 DEF TypeOK

(* So are the types of a call refused, and of one that is closed.            *)
LEMMA NothingType ==
  /\ Idle \in CallStates /\ NoFuse \in FuseStates
  /\ Idle.st = "idle" /\ Idle.todo = <<>> /\ Idle.plan = <<>> /\ Idle.got = "none"
  /\ Idle.mine = {} /\ ~Idle.gone /\ Idle.yes = {} /\ Idle.stood = {}
  BY TimesAssumption DEF Idle, CallStates, NoFuse, FuseStates

------------------------------------------------------------------------------
(* Types, fuses and agents that have gone *)

BaseInv == TypeOK /\ FuseInv /\ NoOrphanQuestion

(* A step that asks nothing new and lets the open fuses be keeps both.       *)
LEMMA FusesKept ==
  ASSUME TypeOK, FuseInv, NoOrphanQuestion, Surfaced' => Surfaced,
         \A c \in Calls : call'[c].st = "asked" =>
           call[c].st = "asked" /\ fuse'[c] = fuse[c] /\ (call'[c].gone <=> call[c].gone)
  PROVE  FuseInv' /\ NoOrphanQuestion'
  BY DEF FuseInv, NoOrphanQuestion, Asked

(* A fuse that is armed burns, for Fuse from now unless it burned before.    *)
LEMMA ArmedType ==
  ASSUME NEW f \in FuseStates
  PROVE  /\ Armed(f) \in FuseStates /\ Armed(f).armed
         /\ (f.armed => f.age + f.left <= Fuse + f.ext)
               => Armed(f).age + Armed(f).left <= Fuse + Armed(f).ext
<1>1. CASE f.armed
  BY <1>1 DEF Armed
<1>2. CASE ~f.armed
  <2>1. Armed(f) = [f EXCEPT !.armed = TRUE, !.left = Fuse, !.age = 0]
    BY <1>2 DEF Armed
  <2>2. Fuse \in 0..(Unseen + Fuse + Ceiling) /\ Fuse \in Nat
    BY TimesAssumption
  <2> DEFINE b == [f EXCEPT !.armed = TRUE, !.left = Fuse, !.age = 0]
  <2>a. b \in FuseStates /\ b.left = Fuse /\ b.age = 0
    BY <2>2 DEF FuseStates
  <2>b. b.armed = TRUE
    BY DEF FuseStates
  <2>3. Armed(f) \in FuseStates /\ Armed(f).armed /\ Armed(f).left = Fuse /\ Armed(f).age = 0
    BY <2>1, <2>a, <2>b
  <2>4. Armed(f).ext \in Nat
    BY <2>3 DEF FuseStates
  <2> QED
    BY <2>2, <2>3, <2>4
<1> QED
  BY <1>1, <1>2

(* What a call at a question asks about is a question of the plans.          *)
LEMMA NowIsQuestion ==
  ASSUME TypeOK, NEW c \in Calls, call[c].st \in {"noting", "asked", "answered"}
  PROVE  /\ call[c].todo # <<>> /\ call[c].todo \in Seq(Questions) /\ Now(c) \in Questions
         /\ Now(c) = call[c].todo[1] /\ SubjectKey(Now(c)) \in Subjects
  BY DEF TypeOK, CallStates, Now, Subjects

(* An answer changes a call in three fields.                                 *)
LEMMA FinishedParts ==
  ASSUME TypeOK, NEW c \in Calls,
         NEW d \in {"once", "session", "denied", "timeout", "disconnected"},
         call[c].st = "asked" \/ d \notin {"once", "session"}
  PROVE  /\ Finished(c, d) \in CallStates /\ Finished(c, d).st = "answered"
         /\ Finished(c, d).got = d /\ Finished(c, d).yes = call[c].yes \cup Answers(c, d)
         /\ Finished(c, d).plan = call[c].plan /\ Finished(c, d).todo = call[c].todo
         /\ Finished(c, d).stood = call[c].stood /\ Finished(c, d).mine = call[c].mine
         /\ Finished(c, d).gone = call[c].gone
<1>1. Answers(c, d) \subseteq Questions
  BY NowIsQuestion DEF Answers
<1>2. call[c] \in CallStates
  BY DEF TypeOK
<1> QED
  BY <1>1, <1>2 DEF Finished, CallStates

(* An answer closes the question, whatever it is.                            *)
LEMMA FinishKeepsBase ==
  ASSUME BaseInv, NEW c \in Calls,
         NEW d \in {"once", "session", "denied", "timeout", "disconnected"},
         Finish(c, d), UNCHANGED <<elev, person, earned>>,
         cool' \in [Subjects -> 0..Cooldown], gave' \in [1..MaxWithdrawals -> 0..Window],
         denied' \in [Questions -> 0..Cooldown]
  PROVE  BaseInv'
<1>1. TypeOK /\ call[c] \in CallStates /\ call[c].st = "asked" /\ call[c].todo # <<>>
  BY NowIsQuestion DEF BaseInv, Finish, TypeOK
<1>2. /\ call' = [call EXCEPT ![c] = Finished(c, d)] /\ fuse' = [fuse EXCEPT ![c] = NoFuse]
      /\ Finished(c, d) \in CallStates /\ Finished(c, d).todo = call[c].todo
      /\ Finished(c, d).st = "answered"
  BY <1>1, FinishedParts DEF Finish
<1>3. TypeOK'
  BY <1>1, <1>2, NothingType DEF TypeOK, person
<1>4. FuseInv' /\ NoOrphanQuestion'
  BY <1>1, <1>2, FusesKept DEF BaseInv, TypeOK, person, Surfaced
<1> QED
  BY <1>3, <1>4 DEF BaseInv

LEMMA PersonKeepsBase == ASSUME BaseInv, Person PROVE BaseInv'
<1>a. TypeOK /\ FuseInv /\ NoOrphanQuestion
  BY DEF BaseInv
<1>1. ASSUME NEW c \in Calls, NEW scope \in {"once", "session"}, Approve(c, scope)
      PROVE  BaseInv'
  <2>1. PICK d \in {"once", "session"} : Finish(c, d)
    BY <1>1 DEF Approve
  <2> QED
    BY <1>a, <1>1, <2>1, FinishKeepsBase DEF Approve, volume, past, TypeOK
<1>2. ASSUME NEW c \in Calls, Deny(c)
      PROVE  BaseInv'
  <2>1. Now(c) \in Questions /\ SubjectKey(Now(c)) \in Subjects
    BY <1>a, <1>2, NowIsQuestion DEF Deny, Finish
  <2>2. cool' \in [Subjects -> 0..Cooldown] /\ denied' \in [Questions -> 0..Cooldown]
    BY <1>a, <1>2, <2>1, TimesAssumption DEF Deny, TypeOK
  <2> QED
    BY <1>a, <1>2, <2>2, FinishKeepsBase DEF Deny, TypeOK
<1>3. ASSUME NEW c \in Calls, NEW s \in 1..(MostPerCall + 1), Extend(c, s)
      PROVE  BaseInv'
  <2> DEFINE g == Grant(fuse[c], s)
  <2>1. fuse[c] \in FuseStates /\ call[c].st = "asked" /\ fuse[c].armed /\ g > 0
    BY <1>a, <1>3 DEF Extend, TypeOK
  <2>2. g \in Int /\ fuse[c].ext + g <= Ceiling
    BY <2>1, TimesAssumption, GrantBounds
  <2> HIDE DEF g
  <2>3. fuse[c].age + fuse[c].left <= Fuse + fuse[c].ext
    BY <1>a, <2>1 DEF FuseInv, Asked
  <2>4. fuse' = [fuse EXCEPT ![c].left = @ + g, ![c].ext = @ + g]
    BY <1>3 DEF Extend, g
  <2>5. /\ fuse'[c] = [fuse[c] EXCEPT !.left = @ + g, !.ext = @ + g]
        /\ \A d \in Calls \ {c} : fuse'[d] = fuse[d]
    BY <1>a, <2>4 DEF TypeOK
  <2>6. fuse'[c] \in FuseStates /\ fuse'[c].armed
        /\ fuse'[c].age + fuse'[c].left <= Fuse + fuse'[c].ext
    <3> DEFINE f == fuse[c]
    <3>1. f \in FuseStates /\ f.left \in Int /\ f.age \in Nat /\ f.ext \in Int
          /\ f.left >= 0 /\ f.ext >= 0 /\ Fuse \in Nat /\ Ceiling \in Nat /\ Unseen \in Nat
      BY <2>1, TimesAssumption DEF FuseStates
    <3>2. fuse'[c] = [f EXCEPT !.left = f.left + g, !.ext = f.ext + g] /\ f.armed
      BY <2>1, <2>5
    <3>3. f.age + f.left <= Fuse + f.ext /\ f.ext + g <= Ceiling /\ g \in Int /\ g > 0
      BY <2>1, <2>2, <2>3
    <3> HIDE DEF f
    <3>4. /\ f.left + g \in 0..(Unseen + Fuse + Ceiling) /\ f.ext + g \in 0..Ceiling
          /\ f.age + (f.left + g) <= Fuse + (f.ext + g)
      BY <3>1, <3>3
    <3> QED
      BY <3>1, <3>2, <3>4 DEF FuseStates
  <2>7. fuse' \in [Calls -> FuseStates]
    BY <1>a, <2>4, <2>5, <2>6 DEF TypeOK
  <2>8. TypeOK'
    BY <1>a, <1>3, <2>1, <2>5, <2>7 DEF TypeOK, Extend, volume, person, past
  <2>9. FuseInv' /\ NoOrphanQuestion'
    BY <1>a, <1>3, <2>5, <2>6
    DEF FuseInv, NoOrphanQuestion, Asked, Extend, Surfaced, person
  <2> QED
    BY <2>8, <2>9 DEF BaseInv
<1>4. CASE StopAll \/ ReadOnly
  <2>1. DenyAll /\ elev' \in {elev, {}} /\ mode' \in {"stopped", "readOnly"} /\ visible' = visible
    BY <1>4 DEF StopAll, ReadOnly
  <2>2. ASSUME NEW c \in Calls
        PROVE  /\ call[c] \in CallStates /\ Finished(c, "denied") \in CallStates
               /\ Finished(c, "denied").todo = call[c].todo
               /\ Finished(c, "denied").st = "answered"
    <3>1. call[c] \in CallStates
      BY <1>a DEF TypeOK
    <3> QED
      BY <1>a, <3>1, FinishedParts
  <2>3. /\ call' = [c \in Calls |-> IF c \in Asked THEN Finished(c, "denied") ELSE call[c]]
        /\ fuse' = [c \in Calls |-> NoFuse]
        /\ cool' \in [Subjects -> 0..Cooldown] /\ denied' \in [Questions -> 0..Cooldown]
        /\ earned' \subseteq earned /\ gave' = gave
    BY <1>a, <2>1, TimesAssumption DEF DenyAll, TypeOK
  <2>4. ASSUME NEW c \in Calls
        PROVE  /\ call'[c] \in CallStates /\ call'[c].st # "asked" /\ fuse'[c] = NoFuse
               /\ call'[c].st \in {"noting", "asked", "answered"} <=> call'[c].todo # <<>>
    <3>1. CASE c \in Asked
      <4>1. call'[c] = Finished(c, "denied") /\ call[c].st = "asked"
        BY <2>3, <3>1 DEF Asked
      <4> QED
        BY <1>a, <2>2, <2>3, <4>1 DEF TypeOK
    <3>2. CASE c \notin Asked
      <4>1. call'[c] = call[c] /\ call[c].st # "asked"
        BY <2>3, <3>2 DEF Asked
      <4> QED
        BY <1>a, <2>2, <2>3, <4>1 DEF TypeOK
    <3> QED
      BY <3>1, <3>2
  <2>5. TypeOK'
    <3>1. call' \in [Calls -> CallStates] /\ fuse' \in [Calls -> FuseStates]
      BY <2>3, <2>4, NothingType
    <3> QED
      BY <1>a, <2>1, <2>3, <2>4, <3>1 DEF TypeOK
  <2>6. FuseInv' /\ NoOrphanQuestion'
    BY <1>a, <2>1, <2>4 DEF FuseInv, NoOrphanQuestion, Asked
  <2> QED
    BY <2>5, <2>6 DEF BaseInv
<1>5. CASE ReadWrite \/ Revoke \/ Hide
  <2>1. TypeOK'
    BY <1>a, <1>5 DEF TypeOK, ReadWrite, Revoke, Hide, asking, volume, past
  <2>2. FuseInv' /\ NoOrphanQuestion'
    BY <1>a, <1>5, FusesKept
    DEF ReadWrite, Revoke, Hide, asking, volume, past, Surfaced
  <2> QED
    BY <2>1, <2>2 DEF BaseInv
<1>6. CASE Show
  <2>1. \A c \in Calls : Armed(fuse[c]) \in FuseStates /\ Armed(fuse[c]).armed
    BY <1>a, ArmedType DEF TypeOK
  <2>2. \A c \in Asked : Armed(fuse[c]).age + Armed(fuse[c]).left <= Fuse + Armed(fuse[c]).ext
    BY <1>a, ArmedType DEF TypeOK, FuseInv, Asked
  <2>3. TypeOK'
    BY <1>a, <1>6, <2>1 DEF TypeOK, Show, volume, past, Asked
  <2>4. FuseInv' /\ NoOrphanQuestion'
    BY <1>a, <1>6, <2>1, <2>2 DEF FuseInv, NoOrphanQuestion, Asked, Show
  <2> QED
    BY <2>3, <2>4 DEF BaseInv
<1> QED
  BY <1>1, <1>2, <1>3, <1>4, <1>5, <1>6 DEF Person

LEMMA WithdrawnType ==
  ASSUME TypeOK
  PROVE  Withdrawn \in [1..MaxWithdrawals -> 0..Window]
<1>1. Window \in Nat /\ MaxWithdrawals \in Nat
  BY TimesAssumption
<1>2. \A i \in 1..MaxWithdrawals : i # MaxWithdrawals => i + 1 \in 1..MaxWithdrawals
  BY <1>1
<1> QED
  BY <1>1, <1>2 DEF Withdrawn, TypeOK

(* A call refused is idle again, and no question of it is open.              *)
LEMMA FailsKeepsBase ==
  ASSUME BaseInv, NEW c \in Calls, call[c].st # "asked", Fails(c),
         UNCHANGED <<fuse, cool, person, denied>>, gave' \in [1..MaxWithdrawals -> 0..Window]
  PROVE  BaseInv'
<1>1. TypeOK /\ call' = [call EXCEPT ![c] = Idle] /\ elev' \subseteq elev /\ earned' \subseteq earned
  BY DEF BaseInv, Fails
<1>2. /\ call' \in [Calls -> CallStates] /\ call'[c] = Idle
      /\ \A d \in Calls \ {c} : call'[d] = call[d]
  BY <1>1, NothingType DEF TypeOK
<1>3. TypeOK'
  BY <1>1, <1>2, NothingType DEF TypeOK, person
<1>4. FuseInv' /\ NoOrphanQuestion'
  BY <1>1, <1>2, NothingType, FusesKept DEF BaseInv, Surfaced, person
<1> QED
  BY <1>3, <1>4 DEF BaseInv

(* Nor of one that goes on.                                                  *)
LEMMA GoesOnKeepsBase ==
  ASSUME BaseInv, NEW c \in Calls, NEW was \in CallStates, NEW todo \in Seq(Questions),
         elev' \subseteq Questions, call[c].st # "asked", GoesOn(c, was, todo),
         UNCHANGED <<fuse, volume, person, denied>>
  PROVE  BaseInv'
<1>1. TypeOK /\ UNCHANGED fuse
  BY DEF BaseInv
<1>2. /\ call' \in [Calls -> CallStates]
      /\ \A d \in Calls :
           /\ call'[d].st \in {"noting", "asked", "answered"} <=> call'[d].todo # <<>>
           /\ call'[d].st # "asked" => fuse'[d] = NoFuse
      /\ earned' \subseteq Questions
      /\ call'[c].st \in {"running", "noting"} /\ \A d \in Calls \ {c} : call'[d] = call[d]
  BY <1>1, GoesOnType
<1>3. TypeOK'
  BY <1>1, <1>2 DEF TypeOK, volume, person
<1>4. FuseInv' /\ NoOrphanQuestion'
  BY <1>1, <1>2, FusesKept DEF BaseInv, Surfaced, person
<1> QED
  BY <1>3, <1>4 DEF BaseInv

LEMMA BridgeKeepsBase ==
  ASSUME BaseInv, NEW c \in Calls, Bridge(c)
  PROVE  BaseInv'
<1>a. TypeOK /\ FuseInv /\ NoOrphanQuestion /\ call[c] \in CallStates /\ fuse[c] \in FuseStates
  BY DEF BaseInv, TypeOK
<1>1. CASE Refuse(c) \/ NotPassed(c)
  BY <1>a, <1>1, FailsKeepsBase DEF Refuse, NotPassed, volume, TypeOK
<1>2. CASE AskGone(c)
  <2>1. gave' \in [1..MaxWithdrawals -> 0..Window]
    BY <1>a, <1>2, WithdrawnType DEF AskGone
  <2> QED
    BY <1>a, <1>2, <2>1, FailsKeepsBase DEF AskGone
<1>3. CASE Ask(c)
  <2> DEFINE f == [NoFuse EXCEPT !.left = Unseen]
             g == IF Surfaced THEN Armed(f) ELSE f
  <2>1. f \in FuseStates /\ f.age + f.left <= Unseen /\ ~f.armed
    <3>1. NoFuse \in FuseStates /\ ~NoFuse.armed /\ NoFuse.age = 0
      BY NothingType DEF NoFuse
    <3>2. Unseen \in Nat /\ Unseen \in 0..(Unseen + Fuse + Ceiling)
      BY TimesAssumption
    <3>3. f \in FuseStates /\ f.left = Unseen /\ f.age = NoFuse.age /\ f.armed = NoFuse.armed
      BY <3>1, <3>2 DEF FuseStates
    <3> HIDE DEF f
    <3> QED
      BY <3>1, <3>2, <3>3
  <2>2. /\ g \in FuseStates /\ (Surfaced => g.armed)
        /\ (g.armed => g.age + g.left <= Fuse + g.ext)
        /\ (~g.armed => g.age + g.left <= Unseen)
    BY <2>1, ArmedType
  <2> DEFINE w == [call[c] EXCEPT !.st = "asked"]
  <2>3. /\ call' = [call EXCEPT ![c] = w] /\ fuse' = [fuse EXCEPT ![c] = g]
        /\ call[c].st = "noting" /\ ~call[c].gone
    BY <1>3 DEF Ask
  <2>4. w \in CallStates /\ w.st = "asked" /\ w.todo = call[c].todo /\ w.gone = call[c].gone
    BY <1>a DEF CallStates
  <2> HIDE DEF w, g
  <2>5. /\ call'[c] = w /\ fuse'[c] = g /\ (Surfaced' <=> Surfaced)
        /\ \A d \in Calls \ {c} : call'[d] = call[d] /\ fuse'[d] = fuse[d]
    BY <1>a, <1>3, <2>3 DEF TypeOK, Ask, person, Surfaced
  <2>6. call' \in [Calls -> CallStates] /\ fuse' \in [Calls -> FuseStates]
    BY <1>a, <2>2, <2>3, <2>4 DEF TypeOK
  <2>7. TypeOK'
    BY <1>a, <1>3, <2>3, <2>4, <2>5, <2>6 DEF TypeOK, Ask, volume, person, past
  <2>8. FuseInv' /\ NoOrphanQuestion'
    BY <1>a, <2>2, <2>3, <2>4, <2>5 DEF FuseInv, NoOrphanQuestion, Asked
  <2> QED
    BY <2>7, <2>8 DEF BaseInv
<1>4. CASE Passed(c)
  <2>1. call[c].todo \in Seq(Questions) /\ call[c].todo # <<>> /\ call[c].st = "answered"
    BY <1>a, <1>4, NowIsQuestion DEF Passed
  <2>2. Now(c) \in Questions /\ Tail(call[c].todo) \in Seq(Questions)
    BY <1>a, <1>4, <2>1, NowIsQuestion
  <2> DEFINE kept == IF call[c].got = "session" /\ ~Now(c).perCall THEN {Now(c)} ELSE {}
             was == [call[c] EXCEPT !.mine = @ \cup kept]
  <2>3. /\ elev' = elev \cup kept /\ GoesOn(c, was, Tail(call[c].todo))
        /\ UNCHANGED <<fuse, volume, person, denied>>
    BY <1>4 DEF Passed
  <2>4. kept \subseteq Questions
    BY <2>2
  <2>5. was \in CallStates
    BY <1>a, <2>2, <2>4 DEF CallStates
  <2>6. elev' \subseteq Questions
    BY <1>a, <2>3, <2>4 DEF TypeOK
  <2> HIDE DEF was
  <2> QED
    BY <2>1, <2>2, <2>3, <2>5, <2>6, GoesOnKeepsBase
<1>5. CASE Done(c)
  <2>1. /\ call' \in [Calls -> CallStates] /\ call'[c] = Idle /\ call[c].st = "running"
        /\ \A d \in Calls \ {c} : call'[d] = call[d]
    BY <1>a, <1>5, NothingType DEF Done, TypeOK
  <2>2. TypeOK'
    BY <1>a, <1>5, <2>1, NothingType DEF Done, TypeOK, volume, person, past
  <2>3. FuseInv' /\ NoOrphanQuestion'
    BY <1>a, <1>5, <2>1, NothingType, FusesKept DEF Done, Surfaced, person
  <2> QED
    BY <2>2, <2>3 DEF BaseInv
<1>6. CASE Expire(c)
  BY <1>a, <1>6, FinishKeepsBase DEF Expire, volume, past, TypeOK
<1> QED
  BY <1>1, <1>2, <1>3, <1>4, <1>5, <1>6 DEF Bridge

LEMMA StartKeepsBase ==
  ASSUME BaseInv, NEW c \in Calls, NEW p \in Plans[c], Start(c, p)
  PROVE  BaseInv'
<1>1. PICK s \in Orders(p) : GoesOn(c, [Idle EXCEPT !.plan = p], [i \in DOMAIN p |-> p[s[i]]])
  BY DEF Start
<1>2. p \in Seq(Questions) /\ [i \in DOMAIN p |-> p[s[i]]] \in Seq(Questions)
  BY StartedParts
<1>3. [Idle EXCEPT !.plan = p] \in CallStates
  BY <1>2, NothingType DEF CallStates
<1>4. /\ call[c].st # "asked" /\ elev' \subseteq Questions
      /\ UNCHANGED <<fuse, volume, person, denied>>
  BY NothingType DEF Start, BaseInv, TypeOK
<1> QED
  BY <1>1, <1>2, <1>3, <1>4, GoesOnKeepsBase

LEMMA AbortKeepsBase ==
  ASSUME BaseInv, NEW c \in Calls, Abort(c)
  PROVE  BaseInv'
<1>a. TypeOK /\ FuseInv /\ NoOrphanQuestion /\ call[c] \in CallStates
  BY DEF BaseInv, TypeOK
<1> DEFINE w == IF call[c].st = "asked"
                THEN [Finished(c, "disconnected") EXCEPT !.gone = TRUE]
                ELSE [call[c] EXCEPT !.gone = TRUE]
<1>1. call' = [call EXCEPT ![c] = w]
  BY DEF Abort
<1>2. /\ w \in CallStates /\ w.todo = call[c].todo /\ w.st # "asked"
      /\ w.st \in {"noting", "asked", "answered"} /\ call[c].st \in {"noting", "asked", "answered"}
  <2>1. CASE call[c].st = "asked"
    <3>1. Finished(c, "disconnected") \in CallStates /\ Finished(c, "disconnected").st = "answered"
          /\ Finished(c, "disconnected").todo = call[c].todo
      BY <1>a, FinishedParts
    <3> QED
      BY <2>1, <3>1 DEF CallStates
  <2>2. CASE call[c].st # "asked"
    BY <1>a, <2>2 DEF Abort, CallStates
  <2> QED
    BY <2>1, <2>2
<1> HIDE DEF w
<1>3. /\ call' \in [Calls -> CallStates] /\ call'[c] = w
      /\ \A d \in Calls \ {c} : call'[d] = call[d]
  BY <1>a, <1>1, <1>2 DEF TypeOK
<1>4. fuse'[c] = NoFuse /\ fuse' \in [Calls -> FuseStates]
      /\ \A d \in Calls \ {c} : fuse'[d] = fuse[d]
  BY <1>a, NothingType DEF Abort, TypeOK
<1>5. gave' \in [1..MaxWithdrawals -> 0..Window]
  BY <1>a, WithdrawnType DEF Abort, TypeOK
<1>6. TypeOK'
  BY <1>a, <1>2, <1>3, <1>4, <1>5 DEF Abort, TypeOK, person, past
<1>7. FuseInv' /\ NoOrphanQuestion'
  BY <1>a, <1>2, <1>3, <1>4, FusesKept DEF Abort, Surfaced, person
<1> QED
  BY <1>6, <1>7 DEF BaseInv

LEMMA TickKeepsBase == ASSUME BaseInv, Tick PROVE BaseInv'
<1>a. TypeOK /\ FuseInv /\ NoOrphanQuestion
  BY DEF BaseInv
<1>1. ASSUME NEW c \in Asked
      PROVE  /\ Ticked(fuse[c]) \in FuseStates
             /\ Ticked(fuse[c]).age + Ticked(fuse[c]).left = fuse[c].age + fuse[c].left
             /\ Ticked(fuse[c]).armed = fuse[c].armed /\ Ticked(fuse[c]).ext = fuse[c].ext
  <2> DEFINE f == fuse[c]
  <2>1. f \in FuseStates /\ f.left > 0
    BY <1>a DEF Tick, TypeOK, Asked
  <2> HIDE DEF f
  <2>2. /\ f.left - 1 \in 0..(Unseen + Fuse + Ceiling) /\ f.age + 1 \in Nat
        /\ (f.age + 1) + (f.left - 1) = f.age + f.left
    BY <2>1, TimesAssumption DEF FuseStates
  <2>3. /\ Ticked(f) \in FuseStates /\ Ticked(f).age = f.age + 1 /\ Ticked(f).left = f.left - 1
        /\ Ticked(f).armed = f.armed /\ Ticked(f).ext = f.ext
    BY <2>1, <2>2 DEF Ticked, FuseStates
  <2> QED
    BY <2>2, <2>3 DEF f
<1>2. /\ fuse' \in [Calls -> FuseStates] /\ \A c \in Asked : fuse'[c] = Ticked(fuse[c])
      /\ \A c \in Calls \ Asked : fuse'[c] = fuse[c]
  BY <1>a, <1>1 DEF Tick, TypeOK, Asked
<1>3. /\ cool' \in [Subjects -> 0..Cooldown] /\ gave' \in [1..MaxWithdrawals -> 0..Window]
      /\ denied' \in [Questions -> 0..Cooldown]
  <2>1. \A m \in Nat : \A n \in 0..m : Less(n) \in 0..m
    BY DEF Less
  <2> QED
    BY <1>a, <2>1, TimesAssumption DEF Tick, TypeOK
<1>4. TypeOK'
  BY <1>a, <1>2, <1>3 DEF TypeOK, Tick, person, Asked
<1>5. FuseInv' /\ NoOrphanQuestion'
  BY <1>a, <1>1, <1>2 DEF FuseInv, NoOrphanQuestion, Tick, Surfaced, person, Asked
<1> QED
  BY <1>4, <1>5 DEF BaseInv

LEMMA BaseStep == ASSUME BaseInv, [Next]_vars PROVE BaseInv'
<1>1. CASE Next
  BY <1>1, PersonKeepsBase, StartKeepsBase, TickKeepsBase, AbortKeepsBase, BridgeKeepsBase DEF Next
<1>2. CASE UNCHANGED vars
  <2>1. TypeOK' /\ FuseInv' /\ NoOrphanQuestion'
    BY <1>2 DEF vars, asking, volume, person, past, BaseInv, TypeOK, FuseInv, NoOrphanQuestion,
                Asked, Surfaced
  <2> QED
    BY <2>1 DEF BaseInv
<1> QED
  BY <1>1, <1>2

LEMMA BaseInit == ASSUME Init PROVE BaseInv
<1>1. TypeOK
  BY NothingType, TimesAssumption DEF Init, TypeOK
<1>2. FuseInv /\ NoOrphanQuestion
  BY NothingType DEF Init, FuseInv, NoOrphanQuestion, Asked
<1> QED
  BY <1>1, <1>2 DEF BaseInv

(* Every reachable state of Approvals is well formed: no extension passes    *)
(* the ceiling, only an open question has a fuse (approvals.ts).             *)
THEOREM ApprovalTypes == Spec => []TypeOK
<1>1. BaseInv => TypeOK
  BY DEF BaseInv
<1> QED
  BY <1>1, BaseInit, BaseStep, PTL DEF Spec

(* A question that can be seen is answered by the clock after the fuse and   *)
(* the ceiling of extensions, whatever is pressed (armApproval).             *)
THEOREM FuseEnds == Spec => []FuseIsBounded
<1>1. ASSUME BaseInv PROVE FuseIsBounded
  <2>1. ASSUME NEW c \in Asked
        PROVE  /\ fuse[c].age \in Int /\ fuse[c].left \in Int /\ fuse[c].ext \in Int
               /\ fuse[c].ext <= Ceiling
    BY <1>1, TimesAssumption DEF BaseInv, TypeOK, FuseStates, Asked
  <2> QED
    BY <1>1, <2>1, TimesAssumption DEF BaseInv, FuseInv, FuseIsBounded
<1> QED
  BY <1>1, BaseInit, BaseStep, PTL DEF Spec

(* No question is open whose agent has gone (requestApproval's signal).      *)
THEOREM NobodyIsAskedInVain == Spec => []NoOrphanQuestion
<1>1. BaseInv => NoOrphanQuestion
  BY DEF BaseInv
<1> QED
  BY <1>1, BaseInit, BaseStep, PTL DEF Spec

------------------------------------------------------------------------------
(* Session grants, and questions that are asked every time *)

(* Steps other than Start and Passed leave a call's list and grants as they  *)
(* were, or end the call.                                                    *)
Same(d) ==
  /\ call'[d].plan = call[d].plan /\ call'[d].todo = call[d].todo
  /\ call'[d].stood = call[d].stood /\ call'[d].mine = call[d].mine
  /\ call[d].yes \subseteq call'[d].yes
  /\ call'[d].st = "running" <=> call[d].st = "running"
  /\ call'[d].got \in {"once", "session"} =>
       call'[d].st = "answered" /\ Now(d) \in call'[d].yes

Ends(d) == call'[d] = Idle /\ (call[d].st = "running" \/ elev' \cap call[d].mine = {})

Fewer == elev' \subseteq elev /\ earned \cap elev' \subseteq earned'

LEMMA FinishIsSame ==
  ASSUME BaseInv, YesInv, NEW c \in Calls, NEW a \in {"once", "session", "denied", "timeout"},
         Finish(c, a), NEW d \in Calls
  PROVE  Same(d)
<1>1. /\ call[c] \in CallStates /\ call[d] \in CallStates /\ call[c].st = "asked"
      /\ call' = [call EXCEPT ![c] = Finished(c, a)] /\ call \in [Calls -> CallStates]
  BY DEF BaseInv, TypeOK, Finish
<1>2. CASE d = c
  <2>1. call'[d] = Finished(c, a)
    BY <1>1, <1>2
  <2> QED
    BY <1>1, <1>2, <2>1, FinishedParts DEF Same, Answers, BaseInv
<1>3. CASE d # c
  <2>1. call'[d] = call[d]
    BY <1>1, <1>3
  <2> QED
    BY <2>1 DEF Same, YesInv
<1> QED
  BY <1>2, <1>3

LEMMA PersonShape ==
  ASSUME BaseInv, YesInv, Person
  PROVE  Fewer /\ \A d \in Calls : Same(d)
<1>1. ASSUME NEW c \in Calls, NEW scope \in {"once", "session"}, Approve(c, scope)
      PROVE  Fewer /\ \A d \in Calls : Same(d)
  <2>1. PICK a \in {"once", "session"} : Finish(c, a)
    BY <1>1 DEF Approve
  <2> QED
    BY <1>1, <2>1, FinishIsSame DEF Approve, Fewer, past
<1>2. ASSUME NEW c \in Calls, Deny(c)
      PROVE  Fewer /\ \A d \in Calls : Same(d)
  BY <1>2, FinishIsSame DEF Deny, Fewer
<1>3. ASSUME UNCHANGED call
      PROVE  \A d \in Calls : Same(d)
  BY <1>3 DEF Same, YesInv
<1>4. ASSUME NEW c \in Calls, NEW s \in 1..(MostPerCall + 1), Extend(c, s)
      PROVE  Fewer /\ UNCHANGED call
  BY <1>4 DEF Extend, Fewer, past
<1>5. CASE StopAll \/ ReadOnly
  <2>1. DenyAll /\ Fewer
    BY <1>5 DEF StopAll, ReadOnly, DenyAll, Fewer, BaseInv, TypeOK
  <2>2. ASSUME NEW d \in Calls
        PROVE  Same(d)
    <3>1. call[d] \in CallStates
      BY DEF BaseInv, TypeOK
    <3>2. CASE d \in Asked
      <4>1. call'[d] = Finished(d, "denied") /\ call[d].st = "asked"
        BY <2>1, <3>2 DEF DenyAll, Asked
      <4> QED
        BY <3>1, <4>1, FinishedParts DEF Same, Answers, BaseInv
    <3>3. CASE d \notin Asked
      <4>1. call'[d] = call[d]
        BY <2>1, <3>3 DEF DenyAll
      <4> QED
        BY <4>1 DEF Same, YesInv
    <3> QED
      BY <3>2, <3>3
  <2> QED
    BY <2>1, <2>2
<1>6. CASE ReadWrite \/ Revoke \/ Show \/ Hide
  <2>1. Fewer /\ UNCHANGED call
    BY <1>6 DEF ReadWrite, Revoke, Show, Hide, Fewer, asking, past
  <2> QED
    BY <1>3, <2>1
<1> QED
  BY <1>1, <1>2, <1>3, <1>4, <1>5, <1>6 DEF Person

LEMMA BridgeShape ==
  ASSUME BaseInv, YesInv, NEW c \in Calls, (Bridge(c) /\ ~Passed(c)) \/ Abort(c) \/ Tick
  PROVE  Fewer /\ \A d \in Calls : Same(d) \/ Ends(d)
<1>a. call[c] \in CallStates /\ call \in [Calls -> CallStates]
  BY DEF BaseInv, TypeOK
<1>b. ASSUME NEW d \in Calls, call'[d] = call[d]
      PROVE  Same(d)
  BY <1>b DEF Same, YesInv
<1>1. CASE Fails(c)
  <2>1. Fewer /\ Ends(c)
    BY <1>1, <1>a DEF Fails, Fewer, Ends
  <2>2. \A d \in Calls \ {c} : call'[d] = call[d]
    BY <1>1, <1>a DEF Fails
  <2> QED
    BY <1>b, <2>1, <2>2
<1>2. CASE Ask(c)
  <2>1. /\ call'[c] = [call[c] EXCEPT !.st = "asked"] /\ call[c].st = "noting"
        /\ \A d \in Calls \ {c} : call'[d] = call[d]
    BY <1>2, <1>a DEF Ask
  <2>2. call[c].got \notin {"once", "session"}
    BY <2>1 DEF YesInv
  <2>3. Same(c)
    BY <1>a, <2>1, <2>2 DEF Same, CallStates
  <2>4. Fewer
    BY <1>2 DEF Ask, Fewer, past
  <2> QED
    BY <1>b, <2>1, <2>3, <2>4
<1>3. CASE Done(c)
  <2>1. Ends(c) /\ Fewer /\ \A d \in Calls \ {c} : call'[d] = call[d]
    BY <1>3, <1>a DEF Done, Ends, Fewer, past
  <2> QED
    BY <1>b, <2>1
<1>4. CASE Expire(c)
  BY <1>4, FinishIsSame DEF Expire, Fewer, past
<1>5. CASE Abort(c)
  <2> DEFINE w == IF call[c].st = "asked"
                  THEN [Finished(c, "disconnected") EXCEPT !.gone = TRUE]
                  ELSE [call[c] EXCEPT !.gone = TRUE]
  <2>1. call'[c] = w /\ \A d \in Calls \ {c} : call'[d] = call[d]
    BY <1>5, <1>a DEF Abort
  <2>2. /\ w.plan = call[c].plan /\ w.todo = call[c].todo /\ w.yes = call[c].yes
        /\ w.stood = call[c].stood /\ w.mine = call[c].mine
        /\ w.st # "running" /\ call[c].st # "running"
        /\ w.got \in {"once", "session"} => w.st = "answered" /\ w.got = call[c].got
    <3>1. CASE call[c].st = "asked"
      <4> DEFINE f == Finished(c, "disconnected")
      <4>1. /\ f \in CallStates /\ f.st = "answered" /\ f.got = "disconnected"
            /\ f.yes = call[c].yes /\ f.plan = call[c].plan /\ f.todo = call[c].todo
            /\ f.stood = call[c].stood /\ f.mine = call[c].mine
        BY FinishedParts DEF BaseInv, Answers
      <4> HIDE DEF f
      <4>2. w = [f EXCEPT !.gone = TRUE]
        BY <3>1 DEF f
      <4> QED
        BY <3>1, <4>1, <4>2 DEF CallStates
    <3>2. CASE call[c].st # "asked"
      BY <1>5, <1>a, <3>2 DEF Abort, CallStates, YesInv
    <3> QED
      BY <3>1, <3>2
  <2>3. Same(c)
    BY <2>1, <2>2 DEF Same, YesInv
  <2>4. Fewer
    BY <1>5 DEF Abort, Fewer, past
  <2> QED
    BY <1>b, <2>1, <2>3, <2>4
<1>6. CASE Tick
  BY <1>6, <1>b DEF Tick, Fewer
<1> QED
  BY <1>1, <1>2, <1>3, <1>4, <1>5, <1>6 DEF Bridge, Refuse, AskGone, NotPassed

(* What gate() goes on with: what it no longer asks is covered by a grant    *)
(* that stands, and a call let through keeps its grants as earned.           *)
LEMMA GoesOnParts ==
  ASSUME BaseInv, NEW c \in Calls, NEW was \in CallStates, NEW todo \in Seq(Questions),
         elev' \subseteq Questions, GoesOn(c, was, todo)
  PROVE  /\ call'[c].plan = was.plan /\ call'[c].yes = was.yes /\ call'[c].mine = was.mine
         /\ call'[c].stood = was.stood \cup (elev' \cap Among(was.plan))
         /\ call'[c].got = "none" /\ earned \subseteq earned'
         /\ call'[c].st = "running" => was.mine \subseteq earned'
         /\ \A i \in DOMAIN todo :
              Covered(todo[i], elev') \/ \E j \in DOMAIN call'[c].todo : call'[c].todo[j] = todo[i]
         /\ \A d \in Calls \ {c} : call'[d] = call[d]
<1>1. PICK n \in LetThrough(todo, elev') :
        LET st == IF n = Len(todo) THEN "running" ELSE "noting"
        IN  /\ call' = [call EXCEPT ![c] =
                 [was EXCEPT !.st = st, !.todo = SubSeq(todo, n + 1, Len(todo)), !.got = "none",
                             !.stood = @ \cup (elev' \cap Among(was.plan))]]
            /\ earned' = IF st = "running" THEN earned \cup was.mine ELSE earned
  BY DEF GoesOn
<1> DEFINE st == IF n = Len(todo) THEN "running" ELSE "noting"
           rest == SubSeq(todo, n + 1, Len(todo))
           is == [was EXCEPT !.st = st, !.todo = rest, !.got = "none",
                             !.stood = @ \cup (elev' \cap Among(was.plan))]
<1>2. \A i \in DOMAIN todo : Covered(todo[i], elev') \/ \E j \in DOMAIN rest : rest[j] = todo[i]
  BY RestParts
<1>3. call' = [call EXCEPT ![c] = is] /\ earned' = IF st = "running" THEN earned \cup was.mine ELSE earned
  BY <1>1
<1> HIDE DEF st, rest
<1>4. /\ is.st = st /\ is.todo = rest /\ is.plan = was.plan /\ is.yes = was.yes
      /\ is.mine = was.mine /\ is.got = "none"
      /\ is.stood = was.stood \cup (elev' \cap Among(was.plan))
  BY DEF CallStates
<1> HIDE DEF is
<1>5. call'[c] = is /\ \A d \in Calls \ {c} : call'[d] = call[d]
  BY <1>3 DEF BaseInv, TypeOK
<1> QED
  BY <1>2, <1>3, <1>4, <1>5

AnswersInv == BaseInv /\ YesInv /\ GrantInv

LEMMA SameKeepsAnswers ==
  ASSUME AnswersInv, Fewer, \A d \in Calls : Same(d) \/ Ends(d)
  PROVE  YesInv' /\ GrantInv'
<1>1. ASSUME NEW q \in elev'
      PROVE  q \in earned' \/ \E d \in Calls : call'[d].st # "running" /\ q \in call'[d].mine
  <2>1. q \in elev /\ (q \in earned => q \in earned')
    BY <1>1 DEF Fewer
  <2>2. ASSUME NEW d \in Calls, call[d].st # "running", q \in call[d].mine
        PROVE  call'[d].st # "running" /\ q \in call'[d].mine
    BY <2>2, <1>1 DEF Same, Ends
  <2> QED
    BY <2>1, <2>2 DEF AnswersInv, GrantInv
<1>2. ASSUME NEW d \in Calls
      PROVE  /\ call'[d].got \in {"once", "session"} =>
                  call'[d].st = "answered" /\ Now(d)' \in call'[d].yes
             /\ \A i \in DOMAIN call'[d].plan :
                  \/ LetBy(call'[d].plan[i], call'[d])
                  \/ \E j \in DOMAIN call'[d].todo : call'[d].todo[j] = call'[d].plan[i]
  <2>1. CASE Same(d)
    <3>1. Now(d)' = Now(d)
      BY <2>1 DEF Same, Now
    <3> QED
      BY <2>1, <3>1 DEF Same, AnswersInv, YesInv, LetBy
  <2>2. CASE Ends(d)
    <3>1. call'[d].got = "none" /\ DOMAIN call'[d].plan = {}
      BY <2>2, NothingType DEF Ends
    <3> QED
      BY <3>1
  <2> QED
    BY <2>1, <2>2
<1> QED
  BY <1>1, <1>2 DEF YesInv, GrantInv

(* What a grant that stands covers is noted as covered.                      *)
LEMMA CoveredIsNoted ==
  ASSUME NEW is, NEW old, NEW G, NEW p, NEW i \in DOMAIN p, is.stood = old \cup (G \cap Among(p)),
         Covered(p[i], G)
  PROVE  LetBy(p[i], is)
<1>1. p[i] \in Among(p)
  BY DEF Among
<1> QED
  BY <1>1 DEF LetBy, Covered

LEMMA StartKeepsAnswers ==
  ASSUME AnswersInv, NEW c \in Calls, NEW p \in Plans[c], Start(c, p)
  PROVE  YesInv' /\ GrantInv'
<1> DEFINE was == [Idle EXCEPT !.plan = p]
<1>1. PICK s \in Orders(p) : GoesOn(c, was, [i \in DOMAIN p |-> p[s[i]]])
  BY DEF Start
<1> DEFINE todo == [i \in DOMAIN p |-> p[s[i]]]
<1>2. /\ p \in Seq(Questions) /\ todo \in Seq(Questions)
      /\ \A i \in DOMAIN p : \E j \in DOMAIN todo : todo[j] = p[i]
  BY StartedParts
<1>3. was \in CallStates /\ was.plan = p /\ was.mine = {}
  BY <1>2, NothingType DEF CallStates
<1>4. elev' = elev /\ elev' \subseteq Questions /\ call[c] = Idle
  BY DEF Start, AnswersInv, BaseInv, TypeOK
<1> HIDE DEF was, todo
<1>5. /\ call'[c].plan = p /\ call'[c].got = "none" /\ earned \subseteq earned'
      /\ call'[c].stood = was.stood \cup (elev' \cap Among(p))
      /\ \A i \in DOMAIN todo :
           Covered(todo[i], elev') \/ \E j \in DOMAIN call'[c].todo : call'[c].todo[j] = todo[i]
      /\ \A d \in Calls \ {c} : call'[d] = call[d]
  <2>1. BaseInv /\ GoesOn(c, was, todo) /\ todo \in Seq(Questions) /\ was \in CallStates
    BY <1>1, <1>2, <1>3 DEF AnswersInv, todo
  <2>2. /\ call'[c].plan = was.plan /\ call'[c].got = "none" /\ earned \subseteq earned'
        /\ call'[c].stood = was.stood \cup (elev' \cap Among(was.plan))
        /\ \A i \in DOMAIN todo :
             Covered(todo[i], elev') \/ \E j \in DOMAIN call'[c].todo : call'[c].todo[j] = todo[i]
        /\ \A d \in Calls \ {c} : call'[d] = call[d]
    BY <1>4, <2>1, GoesOnParts
  <2> QED
    BY <1>3, <2>2
<1>6. ASSUME NEW i \in DOMAIN p
      PROVE  LetBy(p[i], call'[c]) \/ \E j \in DOMAIN call'[c].todo : call'[c].todo[j] = p[i]
  <2>1. PICK k \in DOMAIN todo : todo[k] = p[i]
    BY <1>2
  <2>2. Covered(p[i], elev') => LetBy(p[i], call'[c])
    BY <1>5, CoveredIsNoted
  <2> QED
    BY <1>5, <2>1, <2>2
<1>7. GrantInv'
  BY <1>4, <1>5, NothingType DEF AnswersInv, GrantInv
<1>8. YesInv'
  BY <1>4, <1>5, <1>6 DEF AnswersInv, YesInv, Now
<1> QED
  BY <1>7, <1>8

LEMMA PassedKeepsAnswers ==
  ASSUME AnswersInv, NEW c \in Calls, Passed(c)
  PROVE  YesInv' /\ GrantInv'
<1>a. TypeOK /\ call[c] \in CallStates /\ call[c].st = "answered"
  BY DEF AnswersInv, BaseInv, TypeOK, Passed
<1> DEFINE q == Now(c)
           kept == IF call[c].got = "session" /\ ~q.perCall THEN {q} ELSE {}
           was == [call[c] EXCEPT !.mine = @ \cup kept]
<1>1. elev' = elev \cup kept /\ GoesOn(c, was, Tail(call[c].todo))
  BY DEF Passed
<1>2. /\ call[c].todo # <<>> /\ call[c].todo \in Seq(Questions) /\ q \in Questions
      /\ q = Head(call[c].todo)
  BY <1>a, NowIsQuestion DEF Now
<1>3. /\ Tail(call[c].todo) \in Seq(Questions)
      /\ \A i \in DOMAIN call[c].todo : call[c].todo[i] = q
           \/ \E j \in DOMAIN Tail(call[c].todo) : Tail(call[c].todo)[j] = call[c].todo[i]
  BY <1>2, ListParts
<1>4. kept \subseteq Questions
  BY <1>2
<1>b. q \in call[c].yes
  BY DEF Passed, Yes, AnswersInv, YesInv
<1>5. /\ was \in CallStates /\ was.plan = call[c].plan /\ was.yes = call[c].yes
      /\ was.mine = call[c].mine \cup kept /\ was.stood = call[c].stood
  BY <1>a, <1>2, <1>4 DEF CallStates
<1>6. elev' \subseteq Questions
  BY <1>1, <1>a, <1>4 DEF TypeOK
<1> DEFINE tail == Tail(call[c].todo)
<1> HIDE DEF was, kept, q, tail
<1>7. /\ call'[c].plan = call[c].plan /\ call'[c].yes = call[c].yes
      /\ call'[c].stood = call[c].stood \cup (elev' \cap Among(call[c].plan))
      /\ call'[c].mine = call[c].mine \cup kept
      /\ call'[c].got = "none" /\ earned \subseteq earned'
      /\ call'[c].st = "running" => call[c].mine \cup kept \subseteq earned'
      /\ \A i \in DOMAIN tail :
           Covered(tail[i], elev') \/ \E j \in DOMAIN call'[c].todo : call'[c].todo[j] = tail[i]
      /\ \A d \in Calls \ {c} : call'[d] = call[d]
  <2>1. BaseInv /\ GoesOn(c, was, tail) /\ tail \in Seq(Questions) /\ was \in CallStates
    BY <1>1, <1>3, <1>5 DEF AnswersInv, tail
  <2>2. /\ call'[c].plan = was.plan /\ call'[c].yes = was.yes /\ call'[c].mine = was.mine
        /\ call'[c].stood = was.stood \cup (elev' \cap Among(was.plan))
        /\ call'[c].got = "none" /\ earned \subseteq earned'
        /\ call'[c].st = "running" => was.mine \subseteq earned'
        /\ \A i \in DOMAIN tail :
             Covered(tail[i], elev') \/ \E j \in DOMAIN call'[c].todo : call'[c].todo[j] = tail[i]
        /\ \A d \in Calls \ {c} : call'[d] = call[d]
    BY <1>6, <2>1, GoesOnParts
  <2> QED
    BY <1>5, <2>2
<1>8. ASSUME NEW i \in DOMAIN call[c].plan
      PROVE  \/ LetBy(call[c].plan[i], call'[c])
             \/ \E j \in DOMAIN call'[c].todo : call'[c].todo[j] = call[c].plan[i]
  <2>1. CASE LetBy(call[c].plan[i], call[c])
    BY <1>7, <2>1 DEF LetBy, Covered
  <2>2. CASE \E j \in DOMAIN call[c].todo : call[c].todo[j] = call[c].plan[i]
    <3>1. PICK j \in DOMAIN call[c].todo : call[c].todo[j] = call[c].plan[i]
      BY <2>2
    <3>2. call[c].plan[i] = q \/ \E k \in DOMAIN tail : tail[k] = call[c].plan[i]
      BY <1>3, <3>1 DEF tail
    <3>3. Covered(call[c].plan[i], elev') => LetBy(call[c].plan[i], call'[c])
      BY <1>7, CoveredIsNoted
    <3>4. CASE call[c].plan[i] = q
      BY <1>b, <1>7, <3>4 DEF LetBy
    <3> QED
      BY <1>7, <3>2, <3>3, <3>4
  <2> QED
    BY <2>1, <2>2 DEF AnswersInv, YesInv
<1>9. YesInv'
  <2>1. ASSUME NEW d \in Calls \ {c}
        PROVE  /\ call'[d] = call[d] /\ Now(d)' = Now(d)
               /\ \A i \in DOMAIN call[d].plan :
                    LetBy(call[d].plan[i], call'[d]) <=> LetBy(call[d].plan[i], call[d])
    BY <1>7 DEF Now
  <2> QED
    BY <1>7, <1>8, <2>1 DEF AnswersInv, YesInv
<1>10. ASSUME NEW r \in elev'
      PROVE  r \in earned' \/ \E d \in Calls : call'[d].st # "running" /\ r \in call'[d].mine
  <2>1. CASE r \in call[c].mine \cup kept
    BY <1>7, <2>1
  <2>2. CASE r \notin call[c].mine \cup kept
    <3>1. r \in elev
      BY <1>1, <2>2
    <3> QED
      BY <1>7, <2>2, <3>1 DEF AnswersInv, GrantInv
  <2> QED
    BY <2>1, <2>2
<1> QED
  BY <1>9, <1>10 DEF GrantInv

LEMMA AnswersStep == ASSUME AnswersInv, [Next]_vars PROVE AnswersInv'
<1>1. BaseInv'
  BY BaseStep DEF AnswersInv
<1>2. CASE \E c \in Calls : \E p \in Plans[c] : Start(c, p)
  BY <1>1, <1>2, StartKeepsAnswers DEF AnswersInv
<1>3. CASE \E c \in Calls : Passed(c)
  BY <1>1, <1>3, PassedKeepsAnswers DEF AnswersInv
<1>4. CASE Person
  BY <1>1, <1>4, PersonShape, SameKeepsAnswers DEF AnswersInv
<1>5. ASSUME NEW c \in Calls, (Bridge(c) /\ ~Passed(c)) \/ Abort(c)
      PROVE  AnswersInv'
  BY <1>1, <1>5, BridgeShape, SameKeepsAnswers DEF AnswersInv
<1>6. CASE Tick
  <2>1. CASE Calls = {}
    BY <1>1, <1>6, <2>1, SameKeepsAnswers DEF AnswersInv, Tick, Fewer
  <2>2. CASE Calls # {}
    BY <1>1, <1>6, <2>2, BridgeShape, SameKeepsAnswers DEF AnswersInv
  <2> QED
    BY <2>1, <2>2
<1>7. CASE UNCHANGED vars
  BY <1>1, <1>7 DEF AnswersInv, YesInv, GrantInv, vars, asking, past, Now
<1> QED
  BY <1>2, <1>3, <1>4, <1>5, <1>6, <1>7 DEF Next

LEMMA AnswersInit == ASSUME Init PROVE AnswersInv
<1>1. YesInv /\ GrantInv
  BY NothingType DEF Init, YesInv, GrantInv
<1> QED
  BY <1>1, BaseInit DEF AnswersInv

(* No call runs on a question that nobody said yes to: each was answered yes  *)
(* for this very call or, where gate() accepts that, covered by a grant of   *)
(* the session that stood when it looked.                                    *)
THEOREM NothingRunsUnasked == Spec => []RunsOnAYes
<1>1. ASSUME AnswersInv PROVE RunsOnAYes
  <2>1. ASSUME NEW c \in Calls, call[c].st = "running"
        PROVE  DOMAIN call[c].todo = {}
    BY <1>1, <2>1 DEF AnswersInv, BaseInv, TypeOK
  <2> QED
    BY <1>1, <2>1 DEF AnswersInv, YesInv, RunsOnAYes, LetBy
<1> QED
  BY <1>1, AnswersInit, AnswersStep, PTL DEF Spec

(* A session grant given within a call that was refused later is not left    *)
(* behind (gateWorkspaces's granted).                                        *)
THEOREM GrantsAreTakenBack == Spec => []TakenBack
<1>1. ASSUME AnswersInv PROVE TakenBack
  BY <1>1 DEF AnswersInv, GrantInv, TakenBack
<1> QED
  BY <1>1, AnswersInit, AnswersStep, PTL DEF Spec

------------------------------------------------------------------------------
(* The emergency brake *)

LEMMA DenialCools ==
  ASSUME BaseInv, CoolInv, NEW Who \in SUBSET Asked,
         cool' = [s \in Subjects |-> IF \E c \in Who : SubjectKey(Now(c)) = s THEN Cooldown ELSE cool[s]],
         denied' = [q \in Questions |-> IF \E c \in Who : Now(c) = q THEN Cooldown ELSE denied[q]]
  PROVE  CoolInv'
<1>1. ASSUME NEW s \in Subjects, cool'[s] > 0
      PROVE  \E q \in Questions : SubjectKey(q) = s /\ cool'[s] <= denied'[q]
  <2>1. CASE \E c \in Who : SubjectKey(Now(c)) = s
    <3>1. PICK c \in Who : SubjectKey(Now(c)) = s
      BY <2>1
    <3>2. Now(c) \in Questions
      BY NowIsQuestion DEF BaseInv, Asked
    <3>3. cool'[s] = Cooldown /\ denied'[Now(c)] = Cooldown /\ Cooldown \in Nat
      BY <3>1, <3>2, TimesAssumption
    <3> QED
      BY <3>1, <3>2, <3>3
  <2>2. CASE ~\E c \in Who : SubjectKey(Now(c)) = s
    <3>1. cool'[s] = cool[s]
      BY <2>2
    <3>2. PICK q \in Questions : SubjectKey(q) = s /\ cool[s] <= denied[q]
      BY <1>1, <3>1 DEF CoolInv
    <3>3. denied'[q] = denied[q]
      BY <2>2, <3>2
    <3> QED
      BY <3>1, <3>2, <3>3
  <2> QED
    BY <2>1, <2>2
<1> QED
  BY <1>1 DEF CoolInv

LEMMA CoolStays == ASSUME CoolInv, UNCHANGED <<cool, denied>> PROVE CoolInv'
  BY DEF CoolInv

LEMMA CoolKept == ASSUME BaseInv, CoolInv, [Next]_vars PROVE CoolInv'
<1>1. ASSUME NEW c \in Calls, Deny(c)
      PROVE  CoolInv'
  <2>1. c \in Asked /\ Now(c) \in Questions /\ SubjectKey(Now(c)) \in Subjects
    BY <1>1, NowIsQuestion DEF Deny, Finish, Asked, BaseInv
  <2>2. cool' = [s \in Subjects |-> IF \E d \in {c} : SubjectKey(Now(d)) = s THEN Cooldown ELSE cool[s]]
    BY <1>1, <2>1 DEF Deny, BaseInv, TypeOK
  <2>3. denied' = [q \in Questions |-> IF \E d \in {c} : Now(d) = q THEN Cooldown ELSE denied[q]]
    BY <1>1, <2>1 DEF Deny, BaseInv, TypeOK
  <2>4. {c} \in SUBSET Asked
    BY <2>1
  <2> QED
    BY <2>2, <2>3, <2>4, DenialCools
<1>2. CASE StopAll \/ ReadOnly
  BY <1>2, DenialCools DEF StopAll, ReadOnly, DenyAll
<1>3. CASE Tick
  <2>1. ASSUME NEW s \in Subjects, cool'[s] > 0
        PROVE  \E q \in Questions : SubjectKey(q) = s /\ cool'[s] <= denied'[q]
    <3>1. cool[s] \in Nat /\ cool'[s] = Less(cool[s])
      BY <1>3, TimesAssumption DEF Tick, BaseInv, TypeOK
    <3>2. cool[s] > 0
      BY <2>1, <3>1 DEF Less
    <3>3. PICK q \in Questions : SubjectKey(q) = s /\ cool[s] <= denied[q]
      BY <3>2 DEF CoolInv
    <3>4. denied[q] \in Nat /\ denied'[q] = Less(denied[q])
      BY <1>3, TimesAssumption DEF Tick, BaseInv, TypeOK
    <3> QED
      BY <3>1, <3>3, <3>4 DEF Less
  <2> QED
    BY <2>1 DEF CoolInv
<1>4. ASSUME NEW c \in Calls, NEW p \in Plans[c], Start(c, p)
      PROVE  CoolInv'
  BY <1>4, CoolStays DEF Start, volume
<1>5. ASSUME NEW c \in Calls, Bridge(c) \/ Abort(c)
      PROVE  CoolInv'
  BY <1>5, CoolStays
  DEF Bridge, Abort, Refuse, AskGone, Ask, Passed, NotPassed, Done, Expire, volume, past
<1>6. ASSUME NEW c \in Calls, \/ \E scope \in {"once", "session"} : Approve(c, scope)
                               \/ \E s \in 1..(MostPerCall + 1) : Extend(c, s)
      PROVE  CoolInv'
  BY <1>6, CoolStays DEF Approve, Extend, volume, past
<1>7. CASE ReadWrite \/ Revoke \/ Show \/ Hide \/ UNCHANGED vars
  BY <1>7, CoolStays DEF ReadWrite, Revoke, Show, Hide, vars, volume, past
<1> QED
  BY <1>1, <1>2, <1>3, <1>4, <1>5, <1>6, <1>7 DEF Next, Person

(* A call at its note is refused by refusal() alone.                         *)
LEMMA RefusedByRefusal ==
  ASSUME BaseInv, Next, NEW c \in Calls, call[c].st = "noting", ~call[c].gone, call'[c] = Idle
  PROVE  Refuse(c)
<1>a. call \in [Calls -> CallStates] /\ call[c] # Idle
  BY NothingType DEF BaseInv, TypeOK
<1>1. CASE Person
  <2>1. ASSUME NEW d \in Calls, NEW a, Finish(d, a)
        PROVE  FALSE
    <3>1. d # c /\ call'[c] = call[c]
      BY <1>a, <2>1 DEF Finish
    <3> QED
      BY <1>a, <3>1
  <2>2. CASE DenyAll
    <3>1. c \notin Asked /\ call'[c] = call[c]
      BY <2>2 DEF DenyAll, Asked
    <3> QED
      BY <1>a, <3>1
  <2> QED
    BY <1>1, <1>a, <2>1, <2>2
    DEF Person, Approve, Deny, Extend, StopAll, ReadOnly, ReadWrite, Revoke, Show, Hide, asking
<1>2. ASSUME NEW d \in Calls, NEW p \in Plans[d], Start(d, p)
      PROVE  FALSE
  <2>1. d # c
    BY <1>2, <1>a DEF Start
  <2>2. call'[c] = call[c]
    BY <1>2, <1>a, <2>1 DEF Start, GoesOn
  <2> QED
    BY <1>a, <2>2
<1>3. CASE Tick
  BY <1>3, <1>a DEF Tick
<1>4. ASSUME NEW d \in Calls, Abort(d)
      PROVE  FALSE
  <2>1. CASE d = c
    <3>1. call'[c] = [call[c] EXCEPT !.gone = TRUE]
      BY <1>4, <1>a, <2>1 DEF Abort
    <3>2. call'[c].gone
      BY <1>a, <3>1 DEF CallStates
    <3> QED
      BY <3>2, NothingType
  <2>2. CASE d # c
    <3>1. call'[c] = call[c]
      BY <1>4, <1>a, <2>2 DEF Abort
    <3> QED
      BY <1>a, <3>1
  <2> QED
    BY <2>1, <2>2
<1>5. ASSUME NEW d \in Calls, Bridge(d)
      PROVE  Refuse(c)
  <2>1. d = c \/ call'[c] = call[c]
    BY <1>5, <1>a
    DEF Bridge, Refuse, AskGone, Ask, Passed, NotPassed, Done, Expire, Fails, Finish, GoesOn
  <2>2. d = c
    BY <1>a, <2>1
  <2>3. ~Ask(c)
    <3>1. ASSUME Ask(c)
          PROVE  call'[c].st = "asked"
      BY <3>1, <1>a DEF Ask, CallStates
    <3> QED
      BY <3>1, NothingType
  <2> QED
    BY <1>5, <2>2, <2>3 DEF Bridge, AskGone, Passed, NotPassed, Done, Expire, Finish
<1> QED
  BY <1>1, <1>2, <1>3, <1>4, <1>5 DEF Next

(* The brake is refused for its own denials and its own number, not by what  *)
(* it would stop (refusal, subjectKey).                                      *)
THEOREM BrakeStaysFree == Spec => BrakeIsNotRationed
<1> DEFINE Free(c) ==
      call[c].st = "noting" /\ Now(c).stops /\ ~call[c].gone /\ call'[c] = Idle
         => \/ \E q \in Questions : /\ q.stops /\ q.cap = Now(c).cap /\ q.on = Now(c).on
                                    /\ denied[q] > 0
            \/ Cardinality({d \in Asked : Now(d).stops}) >= MaxPending
<1>1. ASSUME BaseInv, CoolInv, [Next]_vars, NEW c \in Calls,
             call[c].st = "noting", Now(c).stops, ~call[c].gone, call'[c] = Idle
      PROVE  \/ \E q \in Questions : /\ q.stops /\ q.cap = Now(c).cap /\ q.on = Now(c).on
                                     /\ denied[q] > 0
             \/ Cardinality({d \in Asked : Now(d).stops}) >= MaxPending
  <2>1. Next
    BY <1>1, NothingType DEF vars, asking
  <2>2. Refusal(Now(c))
    BY <1>1, <2>1, RefusedByRefusal DEF Refuse
  <2>3. \A d \in Asked : Now(d).stops \in BOOLEAN
    <3>1. ASSUME NEW q \in Questions
          PROVE  q.stops \in BOOLEAN
      <4>1. PICK e \in Calls : \E p \in Plans[e] : q \in {p[i] : i \in DOMAIN p}
        BY DEF Questions
      <4> QED
        BY <4>1, PlansAssumption
    <3> QED
      BY <1>1, <3>1, NowIsQuestion DEF BaseInv, Asked
  <2>4. OpenLike(Now(c)) = {d \in Asked : Now(d).stops}
    BY <1>1, <2>3 DEF OpenLike
  <2>5. CASE cool[SubjectKey(Now(c))] > 0
    <3>1. Now(c) \in Questions /\ SubjectKey(Now(c)) \in Subjects
      BY <1>1, NowIsQuestion DEF BaseInv
    <3>2. PICK q \in Questions : /\ SubjectKey(q) = SubjectKey(Now(c))
                                 /\ cool[SubjectKey(Now(c))] <= denied[q]
      BY <1>1, <2>5, <3>1 DEF CoolInv
    <3>3. q.stops = Now(c).stops /\ q.cap = Now(c).cap /\ q.on = Now(c).on
      BY <3>2 DEF SubjectKey
    <3>4. denied[q] \in Int /\ cool[SubjectKey(Now(c))] \in Int
      BY <1>1, <3>1, <3>2, TimesAssumption DEF BaseInv, TypeOK
    <3>5. denied[q] > 0
      BY <2>5, <3>2, <3>4
    <3>6. q.stops
      BY <1>1, <3>3
    <3> QED
      BY <3>3, <3>5, <3>6
  <2> QED
    BY <1>1, <2>2, <2>4, <2>5 DEF Refusal
<1>2. BaseInv /\ CoolInv /\ [Next]_vars => [\A c \in Calls : Free(c)]_vars
  BY <1>1
<1>3. Init => CoolInv
  BY TimesAssumption DEF Init, CoolInv
<1> QED
  BY <1>2, <1>3, BaseInit, BaseStep, CoolKept, PTL DEF Spec, BrakeIsNotRationed
=============================================================================
