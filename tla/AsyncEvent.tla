----------------------------- MODULE AsyncEvent -----------------------------
(***************************************************************************)
(* sync::AsyncEvent (sync/AsyncEvent.h), auto-reset or manual-reset.       *)
(* Coroutines wait for the event, set it and, in manual mode, reset it.    *)
(***************************************************************************)
EXTENDS OpWait

VARIABLES
  set_,    \* the flag
  reset_   \* the mode it was constructed with

event == <<set_, reset_>>

EventTypeOK ==
  /\ WaitTypeOK(WaitPoints \cup {"notify", "wake"})
  /\ set_ \in BOOLEAN
  /\ reset_ \in {"Auto", "Manual"}

\* The constructor's arguments: either mode, set or not.
EventInit ==
  /\ WaitInit
  /\ set_ \in BOOLEAN
  /\ reset_ \in {"Auto", "Manual"}

\* One round of the loop of wait(): try_consume(), or go on to wait.  An
\* auto-reset event is consumed by the compare-and-swap.
TryConsume(t) ==
  /\ Runs(t) /\ pc[t] \in {"idle", "try"}
  /\ IF set_
     THEN Goto(t, "idle") /\ set_' = (reset_ = "Manual")
     ELSE Goto(t, "check") /\ set_' = set_
  /\ UNCHANGED <<runtime, waiters_, own, reset_>>

\* WaitOp::attach() stays linked while the flag is clear.
RecheckFlag(t) == Recheck(t, ~set_) /\ UNCHANGED event

\* set(): a flag that was set already has a waker, or no waiter.
Set(t) ==
  /\ Runs(t) /\ pc[t] = "idle"
  /\ set_' = TRUE
  /\ Goto(t, IF set_ THEN "idle" ELSE "notify")
  /\ UNCHANGED <<runtime, waiters_, own, reset_>>

SetCheck(t) == NotifyCheck(t) /\ UNCHANGED event

\* wake_one() or wake_all().
SetWake(t) ==
  /\ Runs(t) /\ pc[t] = "wake"
  /\ fire_waiters(IF reset_ = "Auto" THEN 1 ELSE Len(waiters_))
  /\ Goto(t, "idle")
  /\ UNCHANGED <<running, cancel_fn, requested, kick, event>>

\* reset() has an effect in manual mode only.
ResetFlag(t) ==
  /\ reset_ = "Manual"
  /\ Runs(t) /\ pc[t] = "idle"
  /\ set_' = FALSE
  /\ UNCHANGED <<runtime, waitvars, reset_>>

\* The steps inside wait() and set().
EventOp(t) ==
  \/ SuspendStep(t) /\ UNCHANGED event
  \/ RecheckFlag(t) \/ SetCheck(t) \/ SetWake(t)
  \/ pc[t] = "try" /\ TryConsume(t)

\* The calls a coroutine makes.
EventCall(t) == (pc[t] = "idle" /\ TryConsume(t)) \/ Set(t) \/ ResetFlag(t)

EventNext == \E t \in Tasks :
  \/ EventOp(t) \/ EventCall(t)
  \/ LoopStep(t) /\ UNCHANGED event

EventSpec == EventInit /\ [][EventNext]_<<runtime, waitvars, event>>

(***************************************************************************)
(* Properties                                                              *)
(***************************************************************************)

\* No signal is lost: while the flag is set, whoever depends on being woken is
\* covered by a set() still to pop it or, in auto mode, by a coroutine already
\* on its way to consume the flag.
NoLostSignal ==
  set_ /\ (\E t \in Tasks : Committed(t)) =>
    \E u \in Tasks : Waking(u) \/ (reset_ = "Auto" /\ Looking(u))
=============================================================================
