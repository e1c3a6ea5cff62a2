------------------------------- MODULE OpWait -------------------------------
(***************************************************************************)
(* sync::OpWait (sync/Wait.h): how a coroutine waits on a level-triggered  *)
(* primitive.  The primitive's coroutine loops: try to complete, otherwise *)
(* co_await an OpWait, which links a node, looks at the condition once     *)
(* more, arms the cancel hook and suspends.  The semaphore, the event and  *)
(* the wait group extend this module with their own condition; the steps   *)
(* here are theirs too.                                                    *)
(***************************************************************************)
EXTENDS Coroutines, WaitList, FiniteSets

ASSUME TasksAssumption == IsFiniteSet(Tasks)

VARIABLES
  waiters_,  \* the primitive's wait list
  pc,        \* where each coroutine is in the primitive's code
  own        \* the claim word of its node: none, fired or cancelled

waitvars == <<waiters_, pc, own>>

\* Inside await_suspend with the node pushed, not known to stay linked.
Attached == {"recheck", "detach", "arm", "withdraw"}

WaitPoints == {"idle", "try", "check", "attach", "parked"} \cup Attached

Goto(t, where) == pc' = [pc EXCEPT ![t] = where]

WaitTypeOK(points) ==
  /\ RuntimeTypeOK
  /\ waiters_ \in Seq(Tasks)
  /\ pc \in [Tasks -> points]
  /\ own \in [Tasks -> {"none", "fired", "cancelled"}]

WaitInit ==
  /\ RuntimeInit
  /\ waiters_ = <<>>
  /\ pc = [t \in Tasks |-> "idle"]
  /\ own = [t \in Tasks |-> "none"]

\* await_suspend() begins: a cancelled task does not wait, and the loop
\* returns false.
CheckCancel(t) ==
  /\ Runs(t) /\ pc[t] = "check"
  /\ Goto(t, IF requested[t] THEN "idle" ELSE "attach")
  /\ UNCHANGED <<runtime, waiters_, own>>

\* attach(), under the list lock.
Attach(t) ==
  /\ Runs(t) /\ pc[t] = "attach"
  /\ waiters_' = push_locked(waiters_, t)
  /\ Goto(t, "recheck")
  /\ UNCHANGED <<runtime, own>>

\* attach() after the fence: the condition decides whether to stay.
Recheck(t, stay) ==
  /\ Runs(t) /\ pc[t] = "recheck"
  /\ Goto(t, IF stay THEN "arm" ELSE "detach")
  /\ UNCHANGED <<runtime, waiters_, own>>

\* The condition came true: leave and retry, or suspend if a waker has popped
\* the node already and its handle is on the way.
Detach(t) ==
  /\ Runs(t) /\ pc[t] = "detach"
  /\ IF t \in InList(waiters_)
     THEN /\ waiters_' = remove_locked(waiters_, t)
          /\ Goto(t, "try")
          /\ running' = running
     ELSE Goto(t, "parked") /\ Suspend(t) /\ UNCHANGED waiters_
  /\ UNCHANGED <<ready, cancel_fn, requested, kick, own>>

ArmCancel(t) ==
  /\ Runs(t) /\ pc[t] = "arm"
  /\ cancel_fn' = [cancel_fn EXCEPT ![t] = TRUE]
  /\ IF requested[t] THEN Goto(t, "withdraw") /\ running' = running
                     ELSE Goto(t, "parked") /\ Suspend(t)
  /\ UNCHANGED <<ready, requested, kick, waiters_, own>>

\* Cancelled while arming: return false, unless a waker got there first.
WithdrawSelf(t) ==
  /\ Runs(t) /\ pc[t] = "withdraw"
  /\ IF t \in InList(waiters_)
     THEN /\ waiters_' = remove_locked(waiters_, t)
          /\ cancel_fn' = [cancel_fn EXCEPT ![t] = FALSE]
          /\ Goto(t, "idle")
          /\ running' = running
     ELSE Goto(t, "parked") /\ Suspend(t) /\ UNCHANGED <<waiters_, cancel_fn>>
  /\ UNCHANGED <<ready, requested, kick, own>>

\* The worker resumes t.  await_resume() detaches the node once more and
\* reports a cancelled wait, which ends the loop.  The OpWait goes out of
\* scope: the next one starts with an unclaimed node.
Resume(t) ==
  /\ LoopResume(t)
  /\ IF pc[t] = "parked"
     THEN /\ waiters_' = remove_locked(waiters_, t)
          /\ Goto(t, IF own[t] = "cancelled" THEN "idle" ELSE "try")
          /\ own' = [own EXCEPT ![t] = "none"]
     ELSE UNCHANGED waitvars
  /\ UNCHANGED <<requested, kick>>

\* Mutant: on_cancel() does not look whether the node is still linked.
OnCancelNoClaim(t) ==
  /\ TakeKick(t)
  /\ IF cancel_fn[t]
     THEN /\ waiters_' = remove_locked(waiters_, t)
          /\ own' = [own EXCEPT ![t] = "cancelled"]
          /\ ready' = resume_on({t})
     ELSE UNCHANGED <<waiters_, own, ready>>
  /\ pc' = pc

\* A kick runs OpWait::on_cancel on the owner's thread, if it is armed.
OnCancel(t) ==
  /\ TakeKick(t)
  /\ IF cancel_fn[t] /\ t \in InList(waiters_)
     THEN /\ waiters_' = remove_locked(waiters_, t)
          /\ own' = [own EXCEPT ![t] = "cancelled"]
          /\ ready' = resume_on({t})
     ELSE UNCHANGED <<waiters_, own, ready>>
  /\ pc' = pc

\* The coroutine awaits something else and its handle comes back.
Yield(t) ==
  /\ Runs(t) /\ pc[t] = "idle"
  /\ Suspend(t)
  /\ ready' = resume_on({t})
  /\ UNCHANGED <<cancel_fn, requested, kick, waitvars>>

Cancel(t) == (RequestCancel(t) \/ PushKick(t)) /\ UNCHANGED waitvars

\* The steps of await_suspend but for the recheck.
SuspendStep(t) ==
  CheckCancel(t) \/ Attach(t) \/ Detach(t) \/ ArmCancel(t) \/ WithdrawSelf(t)

\* The steps of the worker's loop and of cancellation.
LoopStep(t) == Resume(t) \/ OnCancel(t) \/ Yield(t) \/ Cancel(t)

\* Under the list lock a waker pops nodes from the front until k of them were
\* claimed by fire_waiter() or none is left.
Claimable(n) == {i \in 1..n : own[waiters_[i]] = "none"}

Popped(k) ==
  CHOOSE n \in 0..Len(waiters_) :
    /\ n = Len(waiters_) \/ Cardinality(Claimable(n)) = k
    /\ \A m \in 0..(n - 1) : Cardinality(Claimable(m)) < k

fire_waiters(k) ==
  LET n == Popped(k)
      fired == {waiters_[i] : i \in Claimable(n)}
  IN  /\ waiters_' = SubSeq(waiters_, n + 1, Len(waiters_))
      /\ own' = [t \in Tasks |-> IF t \in fired THEN "fired" ELSE own[t]]
      /\ ready' = resume_on(fired)

\* Mutant: the waker returns early though somebody is linked.
NotifyCheckSkipped(t) ==
  /\ Runs(t) /\ pc[t] = "notify"
  /\ Goto(t, "idle")
  /\ UNCHANGED <<runtime, waiters_, own>>

\* A waker's early return: nobody was linked when it looked.
NotifyCheck(t) ==
  /\ Runs(t) /\ pc[t] = "notify"
  /\ Goto(t, IF waiters_ = <<>> THEN "idle" ELSE "wake")
  /\ UNCHANGED <<runtime, waiters_, own>>

(***************************************************************************)
(* Properties every primitive built on OpWait has                          *)
(***************************************************************************)

\* A waker and a cancellation never both enqueue a waiter: a coroutine has at
\* most one handle queued, and none while it executes, except in the window
\* of await_suspend in which a waker may already have popped its node.
ResumedOnce ==
  \A t \in Tasks :
    /\ ready[t] <= 1
    /\ Runs(t) /\ pc[t] \notin Attached => ready[t] = 0

\* A coroutine is suspended in a wait only while somebody can still resume it:
\* its node is linked, or its handle is queued.
NeverParkedForGood ==
  \A t \in Tasks : pc[t] = "parked" => t \in InList(waiters_) \/ ready[t] = 1

\* Woken by its waker and not yet back at the condition, or about to look.
Looking(t) ==
  \/ pc[t] \in {"try", "recheck", "detach"}
  \/ pc[t] \in {"arm", "withdraw", "parked"} /\ own[t] = "fired"

\* Linked, and past its last look at the condition: somebody has to wake it.
Committed(t) ==
  t \in InList(waiters_) /\ pc[t] \in {"arm", "withdraw", "parked"}

\* About to pop waiters.
Waking(t) == pc[t] \in {"notify", "wake"}

\* One element for each unit that f counts, of every coroutine at most n.
Units(f, n) == {p \in Tasks \X (1..n) : p[2] <= f[p[1]]}
=============================================================================
