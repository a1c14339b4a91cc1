------------------------------ MODULE MCVpnCasts ------------------------------
(* Several small casts in one run: who dials, how many polls are outstanding,*)
(* whether the vault locks and whether people reload.  A cast is chosen at   *)
(* the start and kept; it holds back events of the outside, never a step of a*)
(* task.                                                                     *)
EXTENDS MCVpnManager

CONSTANT Casts

VARIABLE cast

Cast(users, outstanding, vault, reload) ==
  [users |-> users, polls |-> outstanding, vault |-> vault, reload |-> reload]

(* Two connections to one server; one of them with polls that overlap; one   *)
(* with a vault that locks and a profile that starts by itself.              *)
ThreeCasts == {Cast({u1, u2}, 1, FALSE, FALSE), Cast({u1}, 2, FALSE, TRUE),
               Cast({u1}, 0, TRUE, TRUE)}

CastInit == Init /\ cast \in Casts /\ (cast.vault \/ (open /\ queue = <<>>))

CastNext ==
  /\ Next /\ UNCHANGED cast
  /\ \A u \in Users \ cast.users : use'[u] = "idle"
  /\ \A r \in Runs : polls'[r] <= cast.polls
  /\ cast.vault \/ open'
  /\ cast.reload \/ Task("stop", "reload") \notin {queue'[i] : i \in DOMAIN queue'}

CastSpec == CastInit /\ [][CastNext]_<<vars, cast>> /\ TaskFairness
===============================================================================
