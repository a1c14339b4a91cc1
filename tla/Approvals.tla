------------------------------ MODULE Approvals ------------------------------
(***************************************************************************)
(* The approvals an agent's session waits for: the questions that are open, *)
(* their fuses, the rationing by cap, cooldown and withdrawals              *)
(* (src/main/services/approvals.ts), the calls that ask them one after the  *)
(* other and the session grants they leave (gate() and gateWorkspaces() in  *)
(* mcpServer.ts), and the person's switches in index.ts.                    *)
(*                                                                         *)
(* One session.  A call is a slot that is used again.  It waits in gate()   *)
(* twice: for the progress note to be sent ("noting") and for the answer    *)
(* ("asked"); "answered" is an answer that gate() has not looked at yet,    *)
(* "running" a call let through.  Time is counted in ticks, and the clock   *)
(* does not pass a timer that is due.                                       *)
(***************************************************************************)
EXTENDS Integers, Sequences, FiniteSets

CONSTANTS
  Calls,           \* tool calls of the session under way at once (bound of the model)
  Plans,           \* what each call may ask, in the order of its workspaces
  MaxPending,      \* MAX_PENDING_PER_SESSION
  Cooldown,        \* DENY_COOLDOWN_MS
  Window,          \* WITHDRAWAL_WINDOW_MS
  MaxWithdrawals,  \* MAX_WITHDRAWALS_PER_WINDOW
  Fuse,            \* approvalTimeoutSeconds
  Unseen,          \* UNSEEN_MAX_MS
  Ceiling,         \* EXTENSION_CEILING_SECONDS
  MostPerCall,     \* EXTENSION_MAX_PER_CALL_SECONDS
  Notifies         \* whether the system shows notifications

Questions == UNION {{p[i] : i \in DOMAIN p} : p \in UNION {Plans[c] : c \in Calls}}

ASSUME TimesAssumption ==
  /\ {Cooldown, Window, Fuse, Unseen, Ceiling, MostPerCall, MaxPending, MaxWithdrawals}
       \subseteq Nat \ {0}
  /\ Notifies \in BOOLEAN

(* What is asked, whom it is about, whether it stops something, and whether  *)
(* a yes may only ever cover the one call.                                   *)
ASSUME PlansAssumption ==
  \A c \in Calls : \A p \in Plans[c] :
    /\ p \in Seq(Questions)
    /\ \A i \in DOMAIN p : p[i].stops \in BOOLEAN /\ p[i].perCall \in BOOLEAN

VARIABLES
  call,     \* what each slot does: see Idle
  fuse,     \* of each question asked: counting down, time left, extensions, age
  cool,     \* recentDenials: what is left of each subject's cooldown
  gave,     \* withdrawals: what is left of the window of the latest ones, newest last
  elev,     \* sessionElevations
  mode,     \* the session: ask, readOnly, stopped, revoked
  visible,  \* the window is on the screen
  earned,   \* history: grants that stand and whose call was let through
  denied    \* history: what is left of the time since each question's last no

asking == <<call, fuse>>
volume == <<cool, gave>>
person == <<mode, visible>>
past   == <<earned, denied>>
vars   == <<asking, volume, elev, person, past>>

(* Of a call: what it may ask and what of it is still to be asked, the grants *)
(* it was given, whether its agent has gone and the answer it got.  History   *)
(* are `yes`, what a person said yes to for it, and `stood`, the grants for   *)
(* its questions that stood when gate() looked.                              *)
Idle == [st |-> "idle", plan |-> <<>>, todo |-> <<>>, mine |-> {}, gone |-> FALSE,
         got |-> "none", yes |-> {}, stood |-> {}]
NoFuse == [armed |-> FALSE, left |-> 0, ext |-> 0, age |-> 0]

(* subjectKey(): the capability, what it is about, and the side of rationing. *)
SubjectKeyNoClass(q) == <<q.cap, q.on>>   \* mutant: a stop is kept with its starts
SubjectKey(q) == <<q.cap, q.on, q.stops>>
Subjects == {SubjectKey(q) : q \in Questions}

Asked == {c \in Calls : call[c].st = "asked"}
Now(c) == Head(call[c].todo)

CallStates ==
  [st : {"idle", "noting", "asked", "answered", "running"},
   plan : Seq(Questions), todo : Seq(Questions),
   yes : SUBSET Questions, stood : SUBSET Questions, mine : SUBSET Questions, gone : BOOLEAN,
   got : {"none", "once", "session", "denied", "timeout", "disconnected"}]

FuseStates ==
  [armed : BOOLEAN, left : 0..(Unseen + Fuse + Ceiling), ext : 0..Ceiling, age : Nat]

TypeOK ==
  /\ call \in [Calls -> CallStates] /\ fuse \in [Calls -> FuseStates]
  /\ \A c \in Calls :
       /\ call[c].st \in {"noting", "asked", "answered"} <=> call[c].todo # <<>>
       /\ call[c].st # "asked" => fuse[c] = NoFuse
  /\ cool \in [Subjects -> 0..Cooldown] /\ gave \in [1..MaxWithdrawals -> 0..Window]
  /\ elev \subseteq Questions /\ earned \subseteq Questions
  /\ mode \in {"ask", "readOnly", "stopped", "revoked"} /\ visible \in BOOLEAN
  /\ denied \in [Questions -> 0..Cooldown]

Init ==
  /\ call = [c \in Calls |-> Idle] /\ fuse = [c \in Calls |-> NoFuse]
  /\ cool = [s \in Subjects |-> 0] /\ gave = [i \in 1..MaxWithdrawals |-> 0]
  /\ elev = {} /\ mode = "ask" /\ visible \in BOOLEAN
  /\ earned = {} /\ denied = [q \in Questions |-> 0]

------------------------------------------------------------------------------
(* approvals.ts *)

(* refusal(): nobody is asked. *)
OpenLike(q) == {c \in Asked : Now(c).stops = q.stops}
Refusal(q) ==
  \/ cool[SubjectKey(q)] > 0
  \/ (\A i \in 1..MaxWithdrawals : gave[i] > 0) /\ ~q.stops
  \/ Cardinality(OpenLike(q)) >= MaxPending

(* Of the withdrawals the latest MaxWithdrawals decide. *)
Withdrawn == [i \in 1..MaxWithdrawals |-> IF i = MaxWithdrawals THEN Window ELSE gave[i + 1]]

(* finish(): the question is closed with an answer, once. *)
Answers(c, decision) == IF decision \in {"once", "session"} THEN {Now(c)} ELSE {}
Finished(c, decision) ==
  [call[c] EXCEPT !.st = "answered", !.got = decision, !.yes = @ \cup Answers(c, decision)]
Finish(c, decision) ==
  /\ call[c].st = "asked"
  /\ call' = [call EXCEPT ![c] = Finished(c, decision)]
  /\ fuse' = [fuse EXCEPT ![c] = NoFuse]

(* A denial of every open question, each with its cooldown. *)
DenyAll ==
  /\ call' = [c \in Calls |-> IF c \in Asked THEN Finished(c, "denied") ELSE call[c]]
  /\ fuse' = [c \in Calls |-> NoFuse]
  /\ cool' = [s \in Subjects |-> IF \E c \in Asked : SubjectKey(Now(c)) = s THEN Cooldown ELSE cool[s]]
  /\ denied' = [q \in Questions |-> IF \E c \in Asked : Now(c) = q THEN Cooldown ELSE denied[q]]
  /\ earned' = earned \cap elev'
  /\ UNCHANGED gave

(* respondToApproval(): a session answer counts where one was offered. *)
Grantable(q) == ~q.perCall
Approve(c, scope) ==
  /\ Finish(c, IF scope = "session" /\ Grantable(Now(c)) THEN "session" ELSE "once")
  /\ UNCHANGED <<volume, elev, person, past>>

Deny(c) ==
  /\ Finish(c, "denied")
  /\ cool' = [cool EXCEPT ![SubjectKey(Now(c))] = Cooldown]
  /\ denied' = [denied EXCEPT ![Now(c)] = Cooldown]
  /\ UNCHANGED <<gave, elev, person, earned>>

(* The timer or, for a question nobody was shown, the backstop. *)
Expire(c) ==
  /\ fuse[c].left = 0 /\ Finish(c, "timeout")
  /\ UNCHANGED <<volume, elev, person, past>>

(* armApproval(): the fuse starts once, when the question can be seen. *)
ArmedAgain(f) == [f EXCEPT !.armed = TRUE, !.left = Fuse]   \* mutant
ArmedAnew(f) == [f EXCEPT !.armed = TRUE, !.left = Fuse, !.age = 0]   \* mutant
Armed(f) == IF f.armed THEN f ELSE [f EXCEPT !.armed = TRUE, !.left = Fuse, !.age = 0]

(* extendApproval(): from the deadline that stands. *)
Grant(f, s) ==
  LET most == {s, MostPerCall, Ceiling - f.ext}
  IN  CHOOSE g \in most : \A h \in most : g <= h
Extend(c, s) ==
  /\ call[c].st = "asked" /\ fuse[c].armed /\ Grant(fuse[c], s) > 0
  /\ fuse' = [fuse EXCEPT ![c].left = @ + Grant(fuse[c], s), ![c].ext = @ + Grant(fuse[c], s)]
  /\ UNCHANGED <<call, volume, elev, person, past>>

------------------------------------------------------------------------------
(* mcpServer.ts *)

(* gate() lets through what the session was granted, and asks the rest in    *)
(* turn; with nothing left to ask the call runs.  What is asked for each call *)
(* is neither read from the grants nor kept there.                           *)
Covered(q, grants) == ~q.perCall /\ q \in grants

LetThrough(todo, grants) ==
  {n \in 0..Len(todo) : /\ \A i \in 1..n : Covered(todo[i], grants)
                        /\ n < Len(todo) => ~Covered(todo[n + 1], grants)}

Among(p) == {p[i] : i \in DOMAIN p}

GoesOn(c, was, todo) ==
  \E n \in LetThrough(todo, elev') :
    LET st == IF n = Len(todo) THEN "running" ELSE "noting"
    IN  /\ call' = [call EXCEPT ![c] =
             [was EXCEPT !.st = st, !.todo = SubSeq(todo, n + 1, Len(todo)), !.got = "none",
                         !.stood = @ \cup (elev' \cap Among(was.plan))]]
        /\ earned' = IF st = "running" THEN earned \cup was.mine ELSE earned

(* A no refuses the whole call, and what it was granted is taken back. *)
FailsKeeping(c) ==   \* mutant: the grants of a refused call stand
  /\ call' = [call EXCEPT ![c] = Idle]
  /\ elev' = elev /\ earned' = earned
Fails(c) ==
  /\ call' = [call EXCEPT ![c] = Idle]
  /\ elev' = elev \ call[c].mine /\ earned' = earned \cap elev'

(* gateWorkspaces(): the workspaces that would be refused come first, and    *)
(* the sort is stable.                                                       *)
Orders(p) ==
  LET Before(i, j) == IF Refusal(p[i]) = Refusal(p[j]) THEN i < j ELSE Refusal(p[i])
  IN  {s \in [DOMAIN p -> DOMAIN p] :
         /\ \A j \in DOMAIN p : \E i \in DOMAIN p : s[i] = j
         /\ \A i, j \in DOMAIN p : i < j => Before(s[i], s[j])}

Start(c, p) ==
  /\ mode = "ask" /\ call[c] = Idle
  /\ elev' = elev
  /\ \E s \in Orders(p) : GoesOn(c, [Idle EXCEPT !.plan = p], [i \in DOMAIN p |-> p[s[i]]])
  /\ UNCHANGED <<fuse, volume, person, denied>>

(* The note is sent, and requestApproval() refuses or asks.  A client gone   *)
(* by now closes its question at once.                                       *)
Refuse(c) ==
  /\ call[c].st = "noting" /\ Refusal(Now(c))
  /\ Fails(c)
  /\ UNCHANGED <<fuse, volume, person, denied>>

AskGone(c) ==
  /\ call[c].st = "noting" /\ ~Refusal(Now(c)) /\ call[c].gone
  /\ gave' = Withdrawn
  /\ Fails(c)
  /\ UNCHANGED <<fuse, cool, person, denied>>

Surfaced == visible \/ Notifies
AskAnyway(c) ==   \* mutant: only a later abort is listened for
  /\ call[c].st = "noting" /\ ~Refusal(Now(c))
  /\ call' = [call EXCEPT ![c].st = "asked"]
  /\ fuse' = [fuse EXCEPT ![c] = Armed([NoFuse EXCEPT !.left = Unseen])]
  /\ UNCHANGED <<volume, elev, person, past>>
Ask(c) ==
  /\ call[c].st = "noting" /\ ~Refusal(Now(c)) /\ ~call[c].gone
  /\ call' = [call EXCEPT ![c].st = "asked"]
  /\ LET f == [NoFuse EXCEPT !.left = Unseen]
     IN  fuse' = [fuse EXCEPT ![c] = IF Surfaced THEN Armed(f) ELSE f]
  /\ UNCHANGED <<volume, elev, person, past>>

(* The agent's request goes away. *)
Abort(c) ==
  /\ call[c].st \in {"noting", "asked", "answered"} /\ ~call[c].gone
  /\ IF call[c].st = "asked"
     THEN /\ call' = [call EXCEPT ![c] = [Finished(c, "disconnected") EXCEPT !.gone = TRUE]]
          /\ fuse' = [fuse EXCEPT ![c] = NoFuse]
          /\ gave' = Withdrawn
     ELSE call' = [call EXCEPT ![c].gone = TRUE] /\ UNCHANGED <<fuse, gave>>
  /\ UNCHANGED <<cool, elev, person, past>>

(* gate() looks at the answer, and at the signal again. *)
YesUnlessDenied(c) == call[c].got # "denied" /\ ~call[c].gone   \* mutant: or not answered
Yes(c) == call[c].got \in {"once", "session"} /\ ~call[c].gone
Passed(c) ==
  /\ call[c].st = "answered" /\ Yes(c)
  /\ LET q == Now(c)
         kept == IF call[c].got = "session" /\ ~q.perCall THEN {q} ELSE {}
         was == [call[c] EXCEPT !.mine = @ \cup kept]
     IN  elev' = elev \cup kept /\ GoesOn(c, was, Tail(call[c].todo))
  /\ UNCHANGED <<fuse, volume, person, denied>>

NotPassed(c) ==
  /\ call[c].st = "answered" /\ ~Yes(c)
  /\ Fails(c)
  /\ UNCHANGED <<fuse, volume, person, denied>>

(* The tool has run. *)
Done(c) ==
  /\ call[c].st = "running"
  /\ call' = [call EXCEPT ![c] = Idle]
  /\ UNCHANGED <<fuse, volume, elev, person, past>>

------------------------------------------------------------------------------
(* index.ts *)

StopAll ==
  /\ mode' = "stopped" /\ elev' = {}
  /\ DenyAll
  /\ UNCHANGED visible

ReadOnly ==
  /\ mode = "ask" /\ mode' = "readOnly" /\ elev' = elev
  /\ DenyAll
  /\ UNCHANGED visible

ReadWrite ==
  /\ mode = "readOnly" /\ mode' = "ask"
  /\ UNCHANGED <<asking, volume, elev, visible, past>>

(* One session revoked or deleted: what it asked stays on the screen. *)
Revoke ==
  /\ mode \in {"ask", "readOnly"} /\ mode' = "revoked" /\ elev' = {} /\ earned' = {}
  /\ UNCHANGED <<asking, volume, visible, denied>>

(* The window shown arms what waits unseen. *)
Show ==
  /\ ~visible /\ visible' = TRUE
  /\ fuse' = [c \in Calls |-> IF c \in Asked THEN Armed(fuse[c]) ELSE fuse[c]]
  /\ UNCHANGED <<call, volume, elev, mode, past>>

Hide ==
  /\ visible /\ visible' = FALSE
  /\ UNCHANGED <<asking, volume, elev, mode, past>>

------------------------------------------------------------------------------
Less(n) == IF n > 0 THEN n - 1 ELSE 0
Ticked(f) == [f EXCEPT !.left = @ - 1, !.age = @ + 1]

Tick ==
  /\ \A c \in Asked : fuse[c].left > 0
  /\ fuse' = [c \in Calls |-> IF c \in Asked THEN Ticked(fuse[c]) ELSE fuse[c]]
  /\ cool' = [s \in Subjects |-> Less(cool[s])]
  /\ denied' = [q \in Questions |-> Less(denied[q])]
  /\ gave' = [i \in 1..MaxWithdrawals |-> Less(gave[i])]
  /\ UNCHANGED <<call, elev, person, earned>>

Bridge(c) ==
  \/ Refuse(c) \/ AskGone(c) \/ Ask(c) \/ Passed(c) \/ NotPassed(c) \/ Done(c) \/ Expire(c)

Person ==
  \/ \E c \in Calls :
       \/ Approve(c, "once") \/ Approve(c, "session") \/ Deny(c)
       \/ \E s \in 1..(MostPerCall + 1) : Extend(c, s)
  \/ StopAll \/ ReadOnly \/ ReadWrite \/ Revoke \/ Show \/ Hide

(* An answer is looked at before the next message, timer or IPC call; only   *)
(* the signal may be set together with it.                                   *)
Settled == \A c \in Calls : call[c].st # "answered"

Next ==
  \/ Settled /\ (Person \/ \E c \in Calls : \E p \in Plans[c] : Start(c, p))
  \/ Tick \/ \E c \in Calls : Abort(c) \/ Bridge(c)

(* A promise that is settled is looked at, a timer that is due fires, the    *)
(* clock goes on and a tool returns.  Nothing is expected of a person.       *)
Spec == Init /\ [][Next]_vars /\ WF_vars(Tick) /\ \A c \in Calls : WF_vars(Bridge(c))

------------------------------------------------------------------------------
(* Properties *)

(* An open question that can be seen counts down and is answered by the      *)
(* clock after its fuse and the ceiling of extensions, however often the     *)
(* window is shown and whichever came first; one that nobody can see is      *)
(* answered after the backstop (armApproval, extendApproval).                *)
FuseIsBounded ==
  \A c \in Asked :
    /\ Surfaced => fuse[c].armed
    /\ fuse[c].age + fuse[c].left <= IF fuse[c].armed THEN Fuse + Ceiling ELSE Unseen

(* No question is open whose agent has gone: the client may have left before *)
(* it was asked.                                                             *)
NoOrphanQuestion == \A c \in Asked : ~call[c].gone

(* A call runs only if each of its questions was let through: a person said   *)
(* yes to it for this very call -- a timeout, a refusal to ask or an abort     *)
(* that meets the answer is no yes -- or, where a yes may be given for the     *)
(* session, a grant of it stood when gate() looked.                          *)
RunsOnAYes ==
  \A c \in Calls : call[c].st = "running" =>
    \A i \in DOMAIN call[c].plan :
      LET q == call[c].plan[i] IN q \in call[c].yes \/ Covered(q, call[c].stood)

(* A grant that stands was given to a call that was let through, or that is  *)
(* still asking; one given to a call refused later is not left behind.       *)
TakenBack == elev \subseteq earned \cup UNION {call[c].mine : c \in Calls}

(* The emergency brake is refused only because a brake on the same thing was *)
(* itself denied a moment ago, or because too many brakes are asked: never   *)
(* by what it would stop, nor by questions the agent withdrew.               *)
BrakeIsNotRationed ==
  [][\A c \in Calls :
       call[c].st = "noting" /\ Now(c).stops /\ ~call[c].gone /\ call'[c] = Idle
         => \/ \E q \in Questions : /\ q.stops /\ q.cap = Now(c).cap /\ q.on = Now(c).on
                                    /\ denied[q] > 0
            \/ Cardinality({d \in Asked : Now(d).stops}) >= MaxPending]_vars

(* Every tool call of the agent returns, though nobody answers.              *)
EveryCallReturns == \A c \in Calls : call[c] # Idle ~> call[c] = Idle

==============================================================================
