----------------------------- MODULE HandoffLock -----------------------------
(***************************************************************************)
(* What an AsyncMutex promises: a lock with at most one owner, whose       *)
(* owner gives it to the coroutine that has waited longest, and that       *)
(* nobody can take past a waiter.                                          *)
(***************************************************************************)
EXTENDS WaitList

CONSTANTS Tasks, None

VARIABLES owner,   \* the coroutine the lock belongs to, or None
          queue    \* the coroutines waiting for it, the longest first

lockvars == <<owner, queue>>

LockInit == owner = None /\ queue = <<>>

\* A free lock that nobody waits for is taken.
Acquire(t) == owner = None /\ queue = <<>> /\ owner' = t /\ queue' = queue

\* A coroutine starts to wait for a lock that is taken.
Wait(t) ==
  /\ owner \in Tasks \ {t}
  /\ t \notin InList(queue)
  /\ queue' = Append(queue, t)
  /\ owner' = owner

\* A cancelled coroutine stops waiting.
Withdraw(t) ==
  /\ t \in InList(queue)
  /\ queue' = remove_locked(queue, t)
  /\ owner' = owner

\* The owner lets go: the lock passes to the first waiter, if there is one.
Release ==
  /\ owner # None
  /\ IF queue = <<>>
     THEN owner' = None /\ queue' = queue
     ELSE owner' = Head(queue) /\ queue' = Tail(queue)

LockNext == Release \/ \E t \in Tasks : Acquire(t) \/ Wait(t) \/ Withdraw(t)

LockSpec == LockInit /\ [][LockNext]_lockvars
==============================================================================
