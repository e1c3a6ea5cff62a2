---------------------------- MODULE AsyncBarrier ----------------------------
(***************************************************************************)
(* sync::AsyncBarrier (sync/AsyncBarrier.h): a cyclic barrier.  More       *)
(* coroutines than parties_ may use it, so a phase can fill up again while *)
(* the last arriver of an earlier one is still resuming its waiters.       *)
(*                                                                         *)
(* Arrivals are numbered: the first parties_ of them form phase 0, the     *)
(* next parties_ phase 1, and so on.                                       *)
(***************************************************************************)
EXTENDS Coroutines, WaitList

CONSTANTS parties_,     \* how many arrivals complete a phase
          MaxArrivals   \* bound: arrivals explored

ASSUME PartiesAssumption == parties_ \in Nat \ {0} /\ MaxArrivals \in Nat

VARIABLES
  arrived_,   \* arrivals of the phase being filled
  waiters_,   \* its waiters, last arrival first
  list,       \* what a last arriver has still to resume
  pc,         \* where each coroutine is
  arrivals,   \* history: arrivals so far
  ticket      \* history: the number of each coroutine's last arrival

barriervars == <<arrived_, waiters_, list, pc, arrivals, ticket>>

vars == <<runtime, barriervars>>

TypeOK ==
  /\ RuntimeTypeOK
  /\ arrived_ \in 0..(parties_ - 1)
  /\ waiters_ \in Seq(Tasks)
  /\ list \in [Tasks -> Seq(Tasks)]
  /\ pc \in [Tasks -> {"out", "parked", "release"}]
  /\ arrivals \in 0..MaxArrivals
  /\ ticket \in [Tasks -> -1..(MaxArrivals - 1)]

Init ==
  /\ RuntimeInit
  /\ arrived_ = 0
  /\ waiters_ = <<>>
  /\ list = [t \in Tasks |-> <<>>]
  /\ pc = [t \in Tasks |-> "out"]
  /\ arrivals = 0
  /\ ticket = [t \in Tasks |-> -1]

Goto(t, where) == pc' = [pc EXCEPT ![t] = where]

\* Mutant: the last arriver takes the list and leaves it to the next phase as well.
ArriveListKept(t) ==
  /\ Runs(t) /\ pc[t] = "out"
  /\ arrivals < MaxArrivals
  /\ arrivals' = arrivals + 1
  /\ ticket' = [ticket EXCEPT ![t] = arrivals]
  /\ IF arrived_ + 1 = parties_
     THEN /\ arrived_' = 0
          /\ list' = [list EXCEPT ![t] = waiters_]
          /\ waiters_' = waiters_
          /\ Goto(t, "release")
          /\ running' = running
     ELSE /\ arrived_' = arrived_ + 1
          /\ waiters_' = <<t>> \o waiters_
          /\ Goto(t, "parked")
          /\ Suspend(t)
          /\ list' = list
  /\ UNCHANGED <<ready, cancel_fn, requested, kick>>

\* The section of await_suspend() under the spinlock.  The last arriver takes
\* the list and stays awake; anybody else links its node and suspends.
Arrive(t) ==
  /\ Runs(t) /\ pc[t] = "out"
  /\ arrivals < MaxArrivals
  /\ arrivals' = arrivals + 1
  /\ ticket' = [ticket EXCEPT ![t] = arrivals]
  /\ IF arrived_ + 1 = parties_
     THEN /\ arrived_' = 0
          /\ list' = [list EXCEPT ![t] = waiters_]
          /\ waiters_' = <<>>
          /\ Goto(t, "release")
          /\ running' = running
     ELSE /\ arrived_' = arrived_ + 1
          /\ waiters_' = <<t>> \o waiters_
          /\ Goto(t, "parked")
          /\ Suspend(t)
          /\ list' = list
  /\ UNCHANGED <<ready, cancel_fn, requested, kick>>

\* Mutant: the handle is published before the next node is read.
ReleaseNextLate(t) ==
  /\ Runs(t) /\ pc[t] = "release"
  /\ list[t] # <<>>
  /\ ready' = resume_on({Head(list[t])})
  /\ list' = list
  /\ UNCHANGED <<running, cancel_fn, requested, kick, arrived_, waiters_, pc,
                 arrivals, ticket>>

\* One round of the loop that resumes the waiters.  The node is read before
\* resume_on() publishes the handle: it lives in the waiter's frame.
ReleaseNext(t) ==
  /\ Runs(t) /\ pc[t] = "release"
  /\ list[t] # <<>>
  /\ ready' = resume_on({Head(list[t])})
  /\ list' = [list EXCEPT ![t] = Tail(@)]
  /\ UNCHANGED <<running, cancel_fn, requested, kick, arrived_, waiters_, pc,
                 arrivals, ticket>>

\* The loop ends and await_suspend() returns false.
Pass(t) ==
  /\ Runs(t) /\ pc[t] = "release"
  /\ list[t] = <<>>
  /\ Goto(t, "out")
  /\ UNCHANGED <<runtime, arrived_, waiters_, list, arrivals, ticket>>

Resume(t) ==
  /\ LoopResume(t)
  /\ Goto(t, "out")
  /\ UNCHANGED <<requested, kick, arrived_, waiters_, list, arrivals, ticket>>

\* A kick finds no cancel hook: the awaiter arms none.
OnCancel(t) == TakeKick(t) /\ UNCHANGED <<ready, barriervars>>

\* The coroutine awaits something else and its handle comes back.
Yield(t) ==
  /\ Runs(t) /\ pc[t] = "out"
  /\ Suspend(t)
  /\ ready' = resume_on({t})
  /\ UNCHANGED <<cancel_fn, requested, kick, barriervars>>

Cancel(t) == (RequestCancel(t) \/ PushKick(t)) /\ UNCHANGED barriervars

Next == \E t \in Tasks :
  \/ Arrive(t) \/ ReleaseNext(t) \/ Pass(t)
  \/ Resume(t) \/ OnCancel(t) \/ Yield(t) \/ Cancel(t)

Spec == Init /\ [][Next]_vars

(***************************************************************************)
(* Properties                                                              *)
(***************************************************************************)

\* All the arrivals of t's phase have happened.
PhaseFull(t) == arrivals >= (ticket[t] \div parties_ + 1) * parties_

\* "No participant can pass early": whoever is past the barrier, or has been
\* told to go on, arrived in a phase that all its parties have reached.
NobodyPassesEarly ==
  \A t \in Tasks :
    ticket[t] >= 0 /\ (pc[t] # "parked" \/ ready[t] > 0) => PhaseFull(t)

\* The last arriver of a phase resumes all of its waiters and none of the next
\* one's: a waiter of a full phase is in exactly one of the places that lead to
\* its resumption, a waiter of an unfinished one only in waiters_.
EveryWaiterHasOneWaker ==
  \A t \in Tasks : pc[t] = "parked" =>
    LET wakers == {u \in Tasks : t \in InList(list[u])}
    IN  IF PhaseFull(t)
        THEN /\ t \notin InList(waiters_)
             /\ ready[t] + (IF wakers = {} THEN 0 ELSE 1) = 1
             /\ \A u, v \in wakers : u = v
        ELSE t \in InList(waiters_) /\ wakers = {} /\ ready[t] = 0

\* A node lives in the waiter's frame until the waiter is resumed: the loop
\* never comes to a node whose coroutine has gone on.
NoDanglingNode ==
  \A u \in Tasks : \A t \in InList(list[u]) : pc[t] = "parked" /\ ready[t] = 0

\* The releasing loop is sound: every waiter has exactly one waker, and the node the
\* loop comes to is still there (await_suspend(), the resuming loop).
ReleaseIsSound == TypeOK /\ EveryWaiterHasOneWaker /\ NoDanglingNode
=============================================================================
