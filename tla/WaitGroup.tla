----------------------------- MODULE WaitGroup -----------------------------
(***************************************************************************)
(* sync::WaitGroup (sync/AsyncWaitGroup.h).  Coroutines add to the group   *)
(* the work they are going to do, call done() once for each piece, and     *)
(* wait for the group.                                                     *)
(***************************************************************************)
EXTENDS OpWait

CONSTANT MaxWork   \* bound: the pieces of work one coroutine has open

ASSUME MaxWorkAssumption == MaxWork \in Nat \ {0}

VARIABLES
  cnt_,   \* the counter
  owed    \* the done() calls each coroutine still has to make

group == <<cnt_, owed>>

GroupTypeOK ==
  /\ WaitTypeOK(WaitPoints \cup {"notify", "wake"})
  /\ cnt_ \in Nat
  /\ owed \in [Tasks -> 0..MaxWork]

GroupInit ==
  /\ WaitInit
  /\ cnt_ = 0
  /\ owed = [t \in Tasks |-> 0]

\* add(n), never followed by a wake-up.
Add(t, n) ==
  /\ Runs(t) /\ pc[t] = "idle"
  /\ owed[t] + n <= MaxWork
  /\ cnt_' = cnt_ + n
  /\ owed' = [owed EXCEPT ![t] = @ + n]
  /\ UNCHANGED <<runtime, waitvars>>

\* done(): only the call that takes the counter to zero goes on to wake.
Done(t) ==
  /\ Runs(t) /\ pc[t] = "idle" /\ owed[t] > 0
  /\ cnt_' = cnt_ - 1
  /\ owed' = [owed EXCEPT ![t] = @ - 1]
  /\ Goto(t, IF cnt_ # 1 THEN "idle" ELSE "notify")
  /\ UNCHANGED <<runtime, waiters_, own>>

DoneCheck(t) == NotifyCheck(t) /\ UNCHANGED group

DoneWake(t) ==
  /\ Runs(t) /\ pc[t] = "wake"
  /\ fire_waiters(Len(waiters_))
  /\ Goto(t, "idle")
  /\ UNCHANGED <<running, cancel_fn, requested, kick, group>>

\* One round of the loop of wait().  A coroutine does not wait for itself.
TryWait(t) ==
  /\ Runs(t) /\ pc[t] \in {"idle", "try"} /\ owed[t] = 0
  /\ Goto(t, IF cnt_ = 0 THEN "idle" ELSE "check")
  /\ UNCHANGED <<runtime, waiters_, own, group>>

\* WaitOp::attach() stays linked while work is open.
RecheckWork(t) == Recheck(t, cnt_ # 0) /\ UNCHANGED group

\* The steps inside wait() and done().
GroupOp(t) ==
  \/ SuspendStep(t) /\ UNCHANGED group
  \/ RecheckWork(t) \/ DoneCheck(t) \/ DoneWake(t)
  \/ pc[t] = "try" /\ TryWait(t)

\* The calls a coroutine makes.
GroupCall(t) ==
  \/ pc[t] = "idle" /\ TryWait(t)
  \/ Done(t)
  \/ \E n \in 1..MaxWork : Add(t, n)

GroupNext == \E t \in Tasks :
  \/ GroupOp(t) \/ GroupCall(t)
  \/ LoopStep(t) /\ UNCHANGED group

GroupSpec == GroupInit /\ [][GroupNext]_<<runtime, waitvars, group>>

(***************************************************************************)
(* Properties                                                              *)
(***************************************************************************)

\* "when it hits zero, all waiters are resumed": at zero, a waiter that nobody
\* has woken is covered by the done() that is about to, even when add() takes
\* the group up and others bring it down again in between.
NoWaiterAtZero ==
  cnt_ = 0 /\ (\E t \in Tasks : Committed(t)) => \E u \in Tasks : Waking(u)
=============================================================================
