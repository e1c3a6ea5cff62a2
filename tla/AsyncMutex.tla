----------------------------- MODULE AsyncMutex -----------------------------
(***************************************************************************)
(* sync::AsyncMutex (sync/AsyncMutex.h, sync/AsyncMutex.cpp): coroutines   *)
(* on several workers lock, try to lock and unlock one mutex while others  *)
(* request the cancellation of the ones that wait.                         *)
(*                                                                         *)
(* One action per step between two accesses to shared memory.  A section   *)
(* under the list's spinlock is one action: inside it the only other       *)
(* shared variable touched is state_, and once.                            *)
(***************************************************************************)
EXTENDS Coroutines, WaitList

VARIABLES
  state_,    \* the lock word
  waiters_,  \* the wait list
  pc,        \* where each coroutine is
  own,       \* node.own = kCancelledIndex: cancellation claimed the waiter
  target     \* the waiter unlock() popped and has not resumed yet

vars == <<runtime, state_, waiters_, pc, own, target>>

\* Inside await_suspend, after the node was pushed.
Attached == {"arm", "withdraw"}

TypeOK ==
  /\ RuntimeTypeOK
  /\ state_ \in {0, 1}
  /\ waiters_ \in Seq(Tasks)
  /\ pc \in [Tasks -> {"out", "check", "enlist", "parked", "guard", "handoff"}
                        \cup Attached]
  /\ own \in [Tasks -> BOOLEAN]
  /\ target \in [Tasks -> Tasks \cup {None}]

Init ==
  /\ RuntimeInit
  /\ state_ = 0
  /\ waiters_ = <<>>
  /\ pc = [t \in Tasks |-> "out"]
  /\ own = [t \in Tasks |-> FALSE]
  /\ target = [t \in Tasks |-> None]

Goto(t, where) == pc' = [pc EXCEPT ![t] = where]

(***************************************************************************)
(* co_await mutex.lock()                                                   *)
(***************************************************************************)

\* await_ready(): one compare-and-swap of the lock word.
LockFast(t) ==
  /\ Runs(t) /\ pc[t] = "out"
  /\ IF state_ = 0 THEN state_' = 1 /\ Goto(t, "guard")
                   ELSE state_' = state_ /\ Goto(t, "check")
  /\ UNCHANGED <<runtime, waiters_, own, target>>

\* await_suspend() begins: a task already cancelled gets an empty Guard.
CheckCancel(t) ==
  /\ Runs(t) /\ pc[t] = "check"
  /\ Goto(t, IF requested[t] THEN "out" ELSE "enlist")
  /\ own' = [own EXCEPT ![t] = FALSE]
  /\ UNCHANGED <<runtime, state_, waiters_, target>>

\* Mutant: the lock word is not tried again under the list lock.
EnlistNoRetry(t) ==
  /\ Runs(t) /\ pc[t] = "enlist"
  /\ waiters_' = push_locked(waiters_, t)
  /\ Goto(t, "arm")
  /\ UNCHANGED <<runtime, state_, own, target>>

\* Under the list lock: try the lock word again, or link the node.
Enlist(t) ==
  /\ Runs(t) /\ pc[t] = "enlist"
  /\ IF state_ = 0
     THEN state_' = 1 /\ Goto(t, "guard") /\ waiters_' = waiters_
     ELSE /\ waiters_' = push_locked(waiters_, t)
          /\ Goto(t, "arm")
          /\ state_' = state_
  /\ UNCHANGED <<runtime, own, target>>

\* arm_cancel() stores the hook and reports whether the task was cancelled.
ArmCancel(t) ==
  /\ Runs(t) /\ pc[t] = "arm"
  /\ cancel_fn' = [cancel_fn EXCEPT ![t] = TRUE]
  /\ IF requested[t] THEN Goto(t, "withdraw") /\ running' = running
                     ELSE Goto(t, "parked") /\ Suspend(t)
  /\ UNCHANGED <<ready, requested, kick, state_, waiters_, own, target>>

\* It was: unlink the node, unless an unlock() has already popped it.
WithdrawSelf(t) ==
  /\ Runs(t) /\ pc[t] = "withdraw"
  /\ IF t \in InList(waiters_)
     THEN /\ waiters_' = remove_locked(waiters_, t)
          /\ cancel_fn' = [cancel_fn EXCEPT ![t] = FALSE]
          /\ Goto(t, "out")
          /\ running' = running
     ELSE /\ Goto(t, "parked")
          /\ Suspend(t)
          /\ UNCHANGED <<waiters_, cancel_fn>>
  /\ UNCHANGED <<ready, requested, kick, state_, own, target>>

\* The worker resumes t; await_resume() hands out the Guard, empty if the
\* waiter was cancelled.
Resume(t) ==
  /\ LoopResume(t)
  /\ Goto(t, IF pc[t] # "parked" THEN pc[t]
             ELSE IF own[t] THEN "out" ELSE "guard")
  /\ UNCHANGED <<requested, kick, state_, waiters_, own, target>>

\* Mutant: on_cancel() does not look whether the node is still linked.
OnCancelNoClaim(t) ==
  /\ TakeKick(t)
  /\ IF cancel_fn[t]
     THEN /\ waiters_' = remove_locked(waiters_, t)
          /\ own' = [own EXCEPT ![t] = TRUE]
          /\ ready' = resume_on({t})
     ELSE UNCHANGED <<waiters_, own, ready>>
  /\ UNCHANGED <<state_, pc, target>>

\* A kick runs LockAwaiter::on_cancel on the owner's thread, if it is armed.
OnCancel(t) ==
  /\ TakeKick(t)
  /\ IF cancel_fn[t] /\ t \in InList(waiters_)
     THEN /\ waiters_' = remove_locked(waiters_, t)
          /\ own' = [own EXCEPT ![t] = TRUE]
          /\ ready' = resume_on({t})
     ELSE UNCHANGED <<waiters_, own, ready>>
  /\ UNCHANGED <<state_, pc, target>>

(***************************************************************************)
(* try_lock(), and unlock() as called by Guard::unlock and ~Guard          *)
(***************************************************************************)

TryLock(t) ==
  /\ Runs(t) /\ pc[t] = "out"
  /\ state_ = 0
  /\ state_' = 1
  /\ Goto(t, "guard")
  /\ UNCHANGED <<runtime, waiters_, own, target>>

\* Mutant: the last waiter is popped instead of the first.
UnlockLast(t) ==
  /\ Runs(t) /\ pc[t] = "guard"
  /\ IF waiters_ = <<>>
     THEN state_' = 0 /\ Goto(t, "out") /\ UNCHANGED <<waiters_, target>>
     ELSE /\ waiters_' = SubSeq(waiters_, 1, Len(waiters_) - 1)
          /\ target' = [target EXCEPT ![t] = waiters_[Len(waiters_)]]
          /\ Goto(t, "handoff")
          /\ state_' = state_
  /\ UNCHANGED <<runtime, own>>

\* Mutant: the lock word is cleared and the waiters are not looked at.
UnlockNoHandoff(t) ==
  /\ Runs(t) /\ pc[t] = "guard"
  /\ state_' = 0
  /\ Goto(t, "out")
  /\ UNCHANGED <<runtime, waiters_, own, target>>

\* Under the list lock: pop the first waiter; only without one is the lock
\* word cleared.
Unlock(t) ==
  /\ Runs(t) /\ pc[t] = "guard"
  /\ IF waiters_ = <<>>
     THEN state_' = 0 /\ Goto(t, "out") /\ UNCHANGED <<waiters_, target>>
     ELSE /\ waiters_' = Tail(waiters_)
          /\ target' = [target EXCEPT ![t] = Head(waiters_)]
          /\ Goto(t, "handoff")
          /\ state_' = state_
  /\ UNCHANGED <<runtime, own>>

\* After the list lock is dropped: resume_on(w->h, w->tid).
Handoff(t) ==
  /\ Runs(t) /\ pc[t] = "handoff"
  /\ ready' = resume_on({target[t]})
  /\ target' = [target EXCEPT ![t] = None]
  /\ Goto(t, "out")
  /\ UNCHANGED <<running, cancel_fn, requested, kick, state_, waiters_, own>>

\* The coroutine awaits something else, with or without the Guard, and its
\* handle comes back to the queue.
Yield(t) ==
  /\ Runs(t) /\ pc[t] \in {"out", "guard"}
  /\ Suspend(t)
  /\ ready' = resume_on({t})
  /\ UNCHANGED <<cancel_fn, requested, kick, state_, waiters_, pc, own, target>>

Cancel(t) ==
  /\ RequestCancel(t) \/ PushKick(t)
  /\ UNCHANGED <<state_, waiters_, pc, own, target>>

LockStep(t) ==
  LockFast(t) \/ CheckCancel(t) \/ Enlist(t) \/ ArmCancel(t) \/ WithdrawSelf(t)

Next == \E t \in Tasks :
  \/ LockStep(t) \/ Resume(t) \/ OnCancel(t) \/ TryLock(t)
  \/ Unlock(t) \/ Handoff(t) \/ Yield(t) \/ Cancel(t)

Spec == Init /\ [][Next]_vars

(***************************************************************************)
(* Safety                                                                  *)
(***************************************************************************)

\* The lock was handed to t by an unlock() and t has not been resumed yet.
Granted(t) ==
  /\ pc[t] \in Attached \cup {"parked"}
  /\ t \notin InList(waiters_)
  /\ ~own[t]

Owners == {t \in Tasks : pc[t] = "guard" \/ Granted(t)}

\* Mutual exclusion, and no leaked lock: the lock word is set exactly when one
\* coroutine owns the mutex (a Guard, or a hand-off on its way), whatever
\* cancellations race with unlock().
ExactlyOneOwner ==
  /\ state_ = 0 => Owners = {}
  /\ state_ = 1 => \E t \in Owners : Owners = {t}

\* No waiter is left behind: while a coroutine is linked in the wait list the
\* mutex is owned, so some unlock() is still to come and will find it.
NoStrandedWaiter == waiters_ # <<>> => state_ = 1

\* "a cancelled coroutine can never be resumed twice": an unlock() and a
\* cancellation never both enqueue a waiter, and a coroutine that is executing
\* its body has no handle in any queue.
ResumedOnce ==
  \A t \in Tasks :
    /\ ready[t] <= 1
    /\ Runs(t) /\ pc[t] \notin Attached => ready[t] = 0

(***************************************************************************)
(* The mutex implements the lock with hand-off: one owner, first come      *)
(* first served, no barging past a waiter.                                 *)
(***************************************************************************)
Owner == IF Owners = {} THEN None ELSE CHOOSE t \in Owners : TRUE

Lock == INSTANCE HandoffLock WITH owner <- Owner, queue <- waiters_

\* Every step of the mutex is a step of the abstract lock or changes neither
\* its owner nor its queue (AsyncMutex.cpp, lock and unlock).
ImplementsHandoffLock == Lock!LockSpec

(***************************************************************************)
(* Liveness                                                                *)
(***************************************************************************)

\* A worker with one coroutine keeps executing it while it is inside the mutex,
\* resumes it when its handle is queued and processes its kick when it is idle;
\* a request_cancel() runs to its end.  What the body does between two locks,
\* and whether it ever unlocks, is left open.
Progress ==
  \A t \in Tasks :
    /\ WF_vars(Resume(t) \/ Handoff(t) \/ (pc[t] # "out" /\ LockStep(t)))
    /\ WF_vars(kick[t] = "due" /\ Cancel(t))
    /\ WF_vars(OnCancel(t))

FairSpec == Spec /\ Progress

\* If no coroutine keeps its Guard for good, every waiter gets its turn
\* (AsyncMutex::unlock).
WaiterGetsTurn ==
  (\A t \in Tasks : []<>(pc[t] # "guard"))
    => \A t \in Tasks : pc[t] = "parked" ~> pc[t] # "parked"
=============================================================================
