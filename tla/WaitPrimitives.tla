--------------------------- MODULE WaitPrimitives ---------------------------
(***************************************************************************)
(* Coroutines that share one primitive built on OpWait: a semaphore, an    *)
(* event of either mode or a wait group.  Which one it is never changes;   *)
(* the other two are never touched.                                        *)
(***************************************************************************)
EXTENDS AsyncSemaphore, AsyncEvent, WaitGroup

VARIABLE kind   \* the primitive the coroutines share

vars == <<runtime, waitvars, semaphore, event, group, kind>>

TypeOK ==
  /\ kind \in {"semaphore", "event", "group"}
  /\ SemaphoreTypeOK /\ EventTypeOK /\ GroupTypeOK

Init ==
  /\ kind \in {"semaphore", "event", "group"}
  /\ SemaphoreInit /\ EventInit /\ GroupInit
  /\ kind # "event" => ~set_ /\ reset_ = "Auto"

OnSemaphore(A) == kind = "semaphore" /\ A /\ UNCHANGED <<event, group, kind>>

OnEvent(A) == kind = "event" /\ A /\ UNCHANGED <<semaphore, group, kind>>

OnGroup(A) == kind = "group" /\ A /\ UNCHANGED <<semaphore, event, kind>>

OnAny(A) == A /\ UNCHANGED <<semaphore, event, group, kind>>

\* The steps inside the primitive's operations.
Op(t) ==
  OnSemaphore(SemaphoreOp(t)) \/ OnEvent(EventOp(t)) \/ OnGroup(GroupOp(t))

\* The calls of a coroutine's body.
Call(t) ==
  OnSemaphore(SemaphoreCall(t)) \/ OnEvent(EventCall(t)) \/ OnGroup(GroupCall(t))

Next == \E t \in Tasks : Op(t) \/ Call(t) \/ OnAny(LoopStep(t))

Spec == Init /\ [][Next]_vars

\* A worker with one coroutine keeps executing it while it is inside an
\* operation, resumes it when its handle is queued and processes its kick when
\* it is idle; a request_cancel() runs to its end.  Nobody is obliged to
\* release, set or finish anything.
Progress ==
  \A t \in Tasks :
    /\ WF_vars((pc[t] # "idle" /\ Op(t)) \/ OnAny(Resume(t)))
    /\ WF_vars(kick[t] = "due" /\ OnAny(Cancel(t)))
    /\ WF_vars(kick[t] = "queued" /\ OnAny(OnCancel(t)))

FairSpec == Spec /\ Progress

(***************************************************************************)
(* Properties                                                              *)
(***************************************************************************)

\* AsyncSemaphore: no permit is lost or made up, whichever acquire() is
\* cancelled at whichever moment.
SemaphorePermitsConserved == kind = "semaphore" => PermitsConserved

\* No wake-up is missed.  While a coroutine depends on being woken, every free
\* permit of a semaphore has somebody on the way to it, a set flag of an event
\* of either mode has a set() or a consumer on the way, and at zero a wait group
\* has a done() about to wake its waiters.
NoMissedWakeup ==
  CASE kind = "semaphore" -> NoLostPermit
    [] kind = "event" -> NoLostSignal
    [] kind = "group" -> NoWaiterAtZero

\* A suspended coroutine is resumed once: it is linked or queued, a waker and a
\* cancellation never both enqueue it, and it is not queued while it runs, except
\* where await_suspend has linked its node (OpWait, Waiter::claim).
ResumedExactlyOnce == TypeOK /\ ResumedOnce /\ NeverParkedForGood

\* What the primitive's waiters wait for.
Available ==
  CASE kind = "semaphore" -> count_ > 0
    [] kind = "event" -> set_
    [] kind = "group" -> cnt_ = 0

\* A cancelled task stops waiting even if the condition never comes true
\* (OpWait::on_cancel and the checks before it).
CancelEndsWait ==
  \A t \in Cancellable : (pc[t] = "parked" /\ requested[t]) ~> pc[t] # "parked"

\* A condition that stays true ends every wait: a permit, the flag or the zero
\* is not there for good while somebody stays parked, whoever uses it up or
\* takes it back (release(), set(), done() and the second look in attach()).
ConditionEndsWait ==
  []<>(Available => \A t \in Tasks : pc[t] # "parked")
=============================================================================
