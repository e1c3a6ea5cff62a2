--------------------------- MODULE AsyncSemaphore ---------------------------
(***************************************************************************)
(* sync::AsyncSemaphore (sync/AsyncSemaphore.h).  A coroutine acquires     *)
(* permits one at a time and gives back some of those it holds.            *)
(***************************************************************************)
EXTENDS OpWait

CONSTANTS Initial,  \* the permits the semaphore is constructed with
          MaxHeld   \* how many of them one coroutine asks for

ASSUME InitialAssumption == Initial \in Nat \ {0}
ASSUME MaxHeldAssumption == MaxHeld \in 1..Initial

VARIABLES
  count_,  \* the free permits
  held,    \* the permits each coroutine holds
  k        \* the argument of the release() it is in, or 0

semaphore == <<count_, held, k>>

SemaphoreTypeOK ==
  /\ WaitTypeOK(WaitPoints \cup {"notify", "wake"})
  /\ count_ \in Int
  /\ held \in [Tasks -> 0..Initial]
  /\ k \in [Tasks -> 0..Initial]

SemaphoreInit ==
  /\ WaitInit
  /\ count_ = Initial
  /\ held = [t \in Tasks |-> 0]
  /\ k = [t \in Tasks |-> 0]

\* Mutant: off by one, a permit is taken from an empty semaphore.
AcquireFromZero(t) ==
  /\ Runs(t) /\ pc[t] \in {"idle", "try"} /\ held[t] < MaxHeld
  /\ IF count_ >= 0
     THEN /\ count_' = count_ - 1
          /\ held' = [held EXCEPT ![t] = @ + 1]
          /\ Goto(t, "idle")
     ELSE Goto(t, "check") /\ UNCHANGED <<count_, held>>
  /\ UNCHANGED <<runtime, waiters_, own, k>>

\* One round of the loop of acquire(): try_acquire(), or go on to wait.
Acquire(t) ==
  /\ Runs(t) /\ pc[t] \in {"idle", "try"} /\ held[t] < MaxHeld
  /\ IF count_ > 0
     THEN /\ count_' = count_ - 1
          /\ held' = [held EXCEPT ![t] = @ + 1]
          /\ Goto(t, "idle")
     ELSE Goto(t, "check") /\ UNCHANGED <<count_, held>>
  /\ UNCHANGED <<runtime, waiters_, own, k>>

\* try_acquire(): only success changes anything.
TryAcquire(t) ==
  /\ Runs(t) /\ pc[t] = "idle" /\ held[t] < MaxHeld /\ count_ > 0
  /\ count_' = count_ - 1
  /\ held' = [held EXCEPT ![t] = @ + 1]
  /\ UNCHANGED <<runtime, waitvars, k>>

\* AcquireOp::attach() stays linked while there is no permit.
RecheckCount(t) == Recheck(t, count_ <= 0) /\ UNCHANGED semaphore

\* release(n): the permits are added first.
Release(t, n) ==
  /\ Runs(t) /\ pc[t] = "idle"
  /\ n \in 1..held[t]
  /\ held' = [held EXCEPT ![t] = @ - n]
  /\ count_' = count_ + n
  /\ k' = [k EXCEPT ![t] = n]
  /\ Goto(t, "notify")
  /\ UNCHANGED <<runtime, waiters_, own>>

ReleaseCheck(t) ==
  /\ NotifyCheck(t)
  /\ k' = IF waiters_ = <<>> THEN [k EXCEPT ![t] = 0] ELSE k
  /\ UNCHANGED <<count_, held>>

\* Mutant: release(n) wakes one waiter whatever n is.
ReleaseWakeOne(t) ==
  /\ Runs(t) /\ pc[t] = "wake"
  /\ fire_waiters(1)
  /\ Goto(t, "idle")
  /\ k' = [k EXCEPT ![t] = 0]
  /\ UNCHANGED <<running, cancel_fn, requested, kick, count_, held>>

\* Then up to n waiters are woken to compete for them.
ReleaseWake(t) ==
  /\ Runs(t) /\ pc[t] = "wake"
  /\ fire_waiters(k[t])
  /\ Goto(t, "idle")
  /\ k' = [k EXCEPT ![t] = 0]
  /\ UNCHANGED <<running, cancel_fn, requested, kick, count_, held>>

\* The steps inside acquire() and release().
SemaphoreOp(t) ==
  \/ SuspendStep(t) /\ UNCHANGED semaphore
  \/ RecheckCount(t) \/ ReleaseCheck(t) \/ ReleaseWake(t)
  \/ pc[t] = "try" /\ Acquire(t)

\* The calls a coroutine makes.
SemaphoreCall(t) ==
  \/ pc[t] = "idle" /\ Acquire(t)
  \/ TryAcquire(t)
  \/ \E n \in 1..Initial : Release(t, n)

SemaphoreNext == \E t \in Tasks :
  \/ SemaphoreOp(t) \/ SemaphoreCall(t)
  \/ LoopStep(t) /\ UNCHANGED semaphore

SemaphoreSpec ==
  SemaphoreInit /\ [][SemaphoreNext]_<<runtime, waitvars, semaphore>>

(***************************************************************************)
(* Properties                                                              *)
(***************************************************************************)

\* No permit is lost or made up, whichever acquire() is cancelled at whichever
\* moment ("a cancelled acquire did not take the resource").
PermitsConserved ==
  /\ count_ >= 0
  /\ count_ + Cardinality(Units(held, Initial)) = Initial

\* No lost wake-up: while somebody depends on being woken, there is for every
\* free permit a coroutine about to look for one or a release() about to wake
\* one.  Counted, because a release(2) must not wake only one.
NoLostPermit ==
  (\E t \in Tasks : Committed(t)) =>
  count_ <= Cardinality({t \in Tasks : Looking(t)})
            + Cardinality({p \in Units(k, Initial) : Waking(p[1])})
=============================================================================
