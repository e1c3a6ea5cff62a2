----------------------------- MODULE Coroutines -----------------------------
(***************************************************************************)
(* What every awaitable of uvent relies on, in the default build           *)
(* (UVENT_ENABLE_REUSEADDR): a worker thread runs one coroutine at a time, *)
(* a suspended coroutine is resumed by the worker that parked it once its  *)
(* handle is in that worker's queue, and a cancellation request reaches a  *)
(* parked coroutine as a kick that its own worker processes between two    *)
(* resumptions.                                                            *)
(*                                                                         *)
(* The handles waiting for a worker, in its run queue and in its inbox,    *)
(* are counted per coroutine: the order in which a worker serves them is   *)
(* left open, and a handle enqueued twice is visible.                      *)
(***************************************************************************)
EXTENDS Integers

CONSTANTS Tasks,        \* the coroutines, each the root of a task
          Workers,      \* the worker threads
          Home,         \* the worker that runs each coroutine
          Cancellable,  \* the coroutines whose task may be cancelled
          None          \* no coroutine

ASSUME HomeAssumption == Home \in [Tasks -> Workers]
ASSUME CancellableAssumption == Cancellable \subseteq Tasks
ASSUME NoneAssumption == None \notin Tasks

VARIABLES
  running,    \* the coroutine inside c.resume() on each worker
  ready,      \* how often a coroutine's handle is in its worker's queues
  cancel_fn,  \* whether the frame's cancel hook is armed
  requested,  \* CancelState::requested of the coroutine's task
  kick        \* the task's kick: none, due (about to be pushed) or queued

runtime == <<running, ready, cancel_fn, requested, kick>>

RuntimeTypeOK ==
  /\ running \in [Workers -> Tasks \cup {None}]
  /\ ready \in [Tasks -> Nat]
  /\ cancel_fn \in [Tasks -> BOOLEAN]
  /\ requested \in [Tasks -> BOOLEAN]
  /\ kick \in [Tasks -> {"none", "due", "queued"}]

\* Every coroutine has been spawned and its handle is in its worker's inbox.
RuntimeInit ==
  /\ running = [w \in Workers |-> None]
  /\ ready = [t \in Tasks |-> 1]
  /\ cancel_fn = [t \in Tasks |-> FALSE]
  /\ requested = [t \in Tasks |-> FALSE]
  /\ kick = [t \in Tasks |-> "none"]

Runs(t) == running[Home[t]] = t

Idle(t) == running[Home[t]] = None

\* The queue contents after the handles of the coroutines in S were enqueued,
\* in the worker's own queue or in its inbox.
resume_on(S) == [t \in Tasks |-> IF t \in S THEN ready[t] + 1 ELSE ready[t]]

\* await_suspend returned true: control goes back to the worker's loop.
Suspend(t) == running' = [running EXCEPT ![Home[t]] = None]

\* The loop takes a handle of t and calls on_loop_resume() and c.resume().
LoopResume(t) ==
  /\ Idle(t)
  /\ ready[t] > 0
  /\ ready' = [ready EXCEPT ![t] = @ - 1]
  /\ running' = [running EXCEPT ![Home[t]] = t]
  /\ cancel_fn' = [cancel_fn EXCEPT ![t] = FALSE]

\* Mutant: the flag is set and nobody is kicked.
RequestCancelNoKick(t) ==
  /\ t \in Cancellable
  /\ ~requested[t]
  /\ requested' = [requested EXCEPT ![t] = TRUE]
  /\ UNCHANGED <<running, ready, cancel_fn, kick>>

\* request_cancel() on the task's state: only the first call has an effect.
RequestCancel(t) ==
  /\ t \in Cancellable
  /\ ~requested[t]
  /\ requested' = [requested EXCEPT ![t] = TRUE]
  /\ kick' = [kick EXCEPT ![t] = "due"]
  /\ UNCHANGED <<running, ready, cancel_fn>>

\* TaskStateBase::kick(): the kick reaches the owner's queue.
PushKick(t) ==
  /\ kick[t] = "due"
  /\ kick' = [kick EXCEPT ![t] = "queued"]
  /\ UNCHANGED <<running, ready, cancel_fn, requested>>

\* The owner's loop takes the kick.  The hook it runs is the awaitable's own.
TakeKick(t) ==
  /\ Idle(t)
  /\ kick[t] = "queued"
  /\ kick' = [kick EXCEPT ![t] = "none"]
  /\ cancel_fn' = [cancel_fn EXCEPT ![t] = FALSE]
  /\ UNCHANGED <<running, requested>>
=============================================================================
