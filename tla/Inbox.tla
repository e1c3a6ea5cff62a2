------------------------------- MODULE Inbox -------------------------------
(***************************************************************************)
(* How a coroutine is handed to another worker: push_task_inbox()          *)
(* (pool/TLS.cpp) into the intrusive multi-producer queue                  *)
(* (utils/datastructures/queue/IntrusiveMPSC.h), the flag is_added_new_,   *)
(* the wake-up of a worker that sleeps in epoll_wait (poll/EPoller.cpp),   *)
(* the worker's loop (system/Thread.cpp) and its exit.  push_cancel_kick() *)
(* is the same protocol with kick_q_ and has_kicks_.                       *)
(*                                                                         *)
(* A node is the frame of a suspended coroutine: it is in one queue at a   *)
(* time, and once it has run it may be handed over again.                  *)
(***************************************************************************)
EXTENDS Integers, Sequences, FiniteSets

CONSTANTS Nodes,       \* the coroutines' frames
          Producers,   \* the threads that hand them over
          Stub,        \* the queue's own node
          Null,        \* nullptr
          Buffering    \* the kinds of processor: TRUE if a release store may
                       \* stay invisible while later loads execute (x86)

ASSUME InboxAssumption ==
  /\ Stub \notin Nodes /\ Null \notin Nodes \cup {Stub} /\ Stub # Null
  /\ Buffering \subseteq BOOLEAN

ASSUME ProducersAssumption == IsFiniteSet(Producers)

VARIABLES
  tail_, head_, mpsc_next_,  \* the queue
  is_added_new_,             \* something was pushed
  wake_fd,                   \* the eventfd holds a count
  edge,                      \* epoll has an event of it to report
  wake_pending,              \* a wake() is on its way
  store_buffer,              \* the kind of processor
  poller_,                   \* others may see the poller: set or null
  wake_inflight_,            \* producers inside kick_poller()
  ppc, node, prev,           \* a producer's place, its node, what it follows
  wpc, head, next,           \* the worker's place, and the locals of pop()
  q,                         \* the worker's run queue
  fifo                       \* history: pushed and not popped, oldest first

queuevars == <<tail_, head_, mpsc_next_, is_added_new_>>
wakevars == <<wake_fd, edge, wake_pending>>
exitvars == <<store_buffer, poller_, wake_inflight_>>
producers == <<ppc, node, prev>>
worker == <<wpc, head, next, q>>
vars == <<queuevars, wakevars, exitvars, producers, worker, fifo>>

Links == Nodes \cup {Stub}

TypeOK ==
  /\ tail_ \in Links /\ head_ \in Links
  /\ mpsc_next_ \in [Links -> Links \cup {Null}]
  /\ {is_added_new_, wake_fd, edge, wake_pending} \subseteq BOOLEAN
  /\ store_buffer \in BOOLEAN
  /\ poller_ \in {"set", "unsetting", "null"}
  /\ wake_inflight_ \in Nat
  /\ ppc \in [Producers -> {"idle", "link", "flag", "enter", "load", "wake",
                            "write", "leave"}]
  /\ node \in [Producers -> Nodes \cup {Null}]
  /\ prev \in [Producers -> Links \cup {Null}]
  /\ wpc \in {"top", "poll", "read", "clear", "run", "inbox", "pop", "second",
              "advance", "last", "restub", "relink", "retry", "enqueue", "wait",
              "closed"}
  /\ head \in Links \cup {Null} /\ next \in Links \cup {Null}
  /\ q \subseteq Nodes
  /\ fifo \in Seq(Nodes)

Init ==
  /\ tail_ = Stub /\ head_ = Stub
  /\ mpsc_next_ = [l \in Links |-> Null]
  /\ is_added_new_ = FALSE /\ wake_fd = FALSE /\ edge = FALSE
  /\ wake_pending = FALSE
  /\ store_buffer \in Buffering
  /\ poller_ = "set" /\ wake_inflight_ = 0
  /\ ppc = [p \in Producers |-> "idle"]
  /\ node = [p \in Producers |-> Null] /\ prev = [p \in Producers |-> Null]
  /\ wpc = "top" /\ head = Null /\ next = Null
  /\ q = {} /\ fifo = <<>>

Goto(p, at) == ppc' = [ppc EXCEPT ![p] = at]

(***************************************************************************)
(* push_task_inbox()                                                       *)
(***************************************************************************)

Queued == q \cup {fifo[i] : i \in 1..Len(fifo)}

\* push(): clear the node's link and exchange the tail.
PushSwap(p, n) ==
  /\ ppc[p] = "idle"
  /\ n \notin Queued
  /\ tail_' = n
  /\ prev' = [prev EXCEPT ![p] = tail_]
  /\ node' = [node EXCEPT ![p] = n]
  /\ mpsc_next_' = [mpsc_next_ EXCEPT ![n] = Null]
  /\ fifo' = Append(fifo, n)
  /\ Goto(p, "link")
  /\ UNCHANGED <<head_, is_added_new_, wakevars, exitvars, worker>>

\* Link the predecessor to it.  From here on the worker may have it.
PushLink(p) ==
  /\ ppc[p] = "link"
  /\ mpsc_next_' = [mpsc_next_ EXCEPT ![prev[p]] = node[p]]
  /\ prev' = [prev EXCEPT ![p] = Null]
  /\ node' = [node EXCEPT ![p] = Null]
  /\ Goto(p, "flag")
  /\ UNCHANGED <<tail_, head_, is_added_new_, wakevars, exitvars, worker, fifo>>

PushFlag(p) ==
  /\ ppc[p] = "flag"
  /\ is_added_new_' = TRUE
  /\ Goto(p, "enter")
  /\ UNCHANGED <<tail_, head_, mpsc_next_, wakevars, exitvars, node, prev, worker,
                 fifo>>

(***************************************************************************)
(* kick_poller() and EPoller::wake()                                       *)
(***************************************************************************)

KickEnter(p) ==
  /\ ppc[p] = "enter"
  /\ wake_inflight_' = wake_inflight_ + 1
  /\ Goto(p, "load")
  /\ UNCHANGED <<queuevars, wakevars, store_buffer, poller_, node, prev, worker,
                 fifo>>

KickLoad(p) ==
  /\ ppc[p] = "load"
  /\ Goto(p, IF poller_ = "null" THEN "leave" ELSE "wake")
  /\ UNCHANGED <<queuevars, wakevars, exitvars, node, prev, worker, fifo>>

Wake(p) ==
  /\ ppc[p] = "wake"
  /\ wake_pending' = TRUE
  /\ Goto(p, IF wake_pending THEN "leave" ELSE "write")
  /\ UNCHANGED <<queuevars, wake_fd, edge, exitvars, node, prev, worker, fifo>>

\* Every write to the eventfd is an edge for epoll.
WakeWrite(p) ==
  /\ ppc[p] = "write"
  /\ wake_fd' = TRUE /\ edge' = TRUE
  /\ Goto(p, "leave")
  /\ UNCHANGED <<queuevars, wake_pending, exitvars, node, prev, worker, fifo>>

KickLeave(p) ==
  /\ ppc[p] = "leave"
  /\ wake_inflight_' = wake_inflight_ - 1
  /\ Goto(p, "idle")
  /\ UNCHANGED <<queuevars, wakevars, store_buffer, poller_, node, prev, worker,
                 fifo>>

(***************************************************************************)
(* The worker's loop                                                       *)
(***************************************************************************)

\* The loop goes on: nobody has asked the worker to stop.
Continue ==
  /\ wpc = "top"
  /\ wpc' = "poll"
  /\ UNCHANGED <<queuevars, wakevars, exitvars, producers, head, next, q, fifo>>

\* Mutant: the eventfd is not drained and the flag not cleared.
PollWakeNoDrain ==
  /\ wpc = "poll" /\ edge
  /\ edge' = FALSE
  /\ wpc' = "run"
  /\ UNCHANGED <<queuevars, wake_fd, wake_pending, exitvars, producers, head, next,
                 q, fifo>>

\* epoll_wait() reports the eventfd.
PollWake ==
  /\ wpc = "poll" /\ edge
  /\ edge' = FALSE
  /\ wpc' = "read"
  /\ UNCHANGED <<queuevars, wake_fd, wake_pending, exitvars, producers, head, next,
                 q, fifo>>

\* It returns without an event: at once if the run queue is not empty.
PollReturn ==
  /\ wpc = "poll" /\ q # {}
  /\ wpc' = "run"
  /\ UNCHANGED <<queuevars, wakevars, exitvars, producers, head, next, q, fifo>>

\* Or after its timeout, or for an event of a socket.
PollTimeout ==
  /\ wpc = "poll" /\ q = {}
  /\ wpc' = "run"
  /\ UNCHANGED <<queuevars, wakevars, exitvars, producers, head, next, q, fifo>>

DrainRead ==
  /\ wpc = "read"
  /\ wake_fd' = FALSE
  /\ wpc' = "clear"
  /\ UNCHANGED <<queuevars, edge, wake_pending, exitvars, producers, head, next, q,
                 fifo>>

DrainClear ==
  /\ wpc = "clear"
  /\ wake_pending' = FALSE
  /\ wpc' = "run"
  /\ UNCHANGED <<queuevars, wake_fd, edge, exitvars, producers, head, next, q, fifo>>

\* The coroutines of the run queue are resumed and suspend again.
RunTasks ==
  /\ wpc = "run"
  /\ q' = {}
  /\ wpc' = "inbox"
  /\ UNCHANGED <<queuevars, wakevars, exitvars, producers, head, next, fifo>>

\* processInboxQueue(): is_added_new_.exchange(false).
TakeFlag ==
  /\ wpc = "inbox"
  /\ is_added_new_' = FALSE
  /\ wpc' = IF is_added_new_ THEN "pop" ELSE "top"
  /\ UNCHANGED <<tail_, head_, mpsc_next_, wakevars, exitvars, producers, head, next,
                 q, fifo>>

\* pop(): an empty queue ends the loop; a stub in front is skipped.
Pop ==
  LET link == mpsc_next_[head_]
  IN  /\ wpc = "pop"
      /\ IF head_ # Stub
         THEN head' = head_ /\ next' = link /\ wpc' = "advance" /\ head_' = head_
         ELSE IF link = Null
         THEN wpc' = "top" /\ UNCHANGED <<head, next, head_>>
         ELSE head_' = link /\ head' = link /\ wpc' = "second" /\ next' = next
      /\ UNCHANGED <<tail_, mpsc_next_, is_added_new_, wakevars, exitvars, producers,
                     q, fifo>>

PopSecond ==
  /\ wpc = "second"
  /\ next' = mpsc_next_[head]
  /\ wpc' = "advance"
  /\ UNCHANGED <<queuevars, wakevars, exitvars, producers, head, q, fifo>>

\* With a successor the node can be taken.
PopAdvance ==
  /\ wpc = "advance"
  /\ IF next # Null THEN head_' = next /\ wpc' = "enqueue"
                    ELSE head_' = head_ /\ wpc' = "last"
  /\ UNCHANGED <<tail_, mpsc_next_, is_added_new_, wakevars, exitvars, producers,
                 head, next, q, fifo>>

\* Mutant: a node without a successor is taken as it is.
PopLastTaken ==
  /\ wpc = "last"
  /\ wpc' = IF tail_ = head THEN "enqueue" ELSE "top"
  /\ UNCHANGED <<queuevars, wakevars, exitvars, producers, head, next, q, fifo>>

\* Without one it is the last, or a producer has yet to link it.
PopLast ==
  /\ wpc = "last"
  /\ wpc' = IF tail_ = head THEN "restub" ELSE "top"
  /\ UNCHANGED <<queuevars, wakevars, exitvars, producers, head, next, q, fifo>>

\* The stub is pushed behind the last node; next stands for the local prev.
PopRestub ==
  /\ wpc = "restub"
  /\ mpsc_next_' = [mpsc_next_ EXCEPT ![Stub] = Null]
  /\ next' = tail_
  /\ tail_' = Stub
  /\ wpc' = "relink"
  /\ UNCHANGED <<head_, is_added_new_, wakevars, exitvars, producers, head, q, fifo>>

PopRelink ==
  /\ wpc = "relink"
  /\ mpsc_next_' = [mpsc_next_ EXCEPT ![next] = Stub]
  /\ wpc' = "retry"
  /\ UNCHANGED <<tail_, head_, is_added_new_, wakevars, exitvars, producers, head,
                 next, q, fifo>>

PopRetry ==
  /\ wpc = "retry"
  /\ IF mpsc_next_[head] # Null
     THEN head_' = mpsc_next_[head] /\ wpc' = "enqueue"
     ELSE head_' = head_ /\ wpc' = "top"
  /\ UNCHANGED <<tail_, mpsc_next_, is_added_new_, wakevars, exitvars, producers,
                 head, next, q, fifo>>

\* pop() returned head: its coroutine goes to the run queue.
Enqueue ==
  /\ wpc = "enqueue"
  /\ q' = q \cup {head}
  /\ fifo' = Tail(fifo)
  /\ head' = Null /\ next' = Null
  /\ wpc' = "pop"
  /\ UNCHANGED <<queuevars, wakevars, exitvars, producers>>

(***************************************************************************)
(* The worker stops: unset_poller(), then its poller is destroyed.         *)
(***************************************************************************)

\* poller_.store(nullptr).
Unset ==
  /\ wpc = "top"
  /\ poller_' = IF store_buffer THEN "unsetting" ELSE "null"
  /\ wpc' = "wait"
  /\ UNCHANGED <<queuevars, wakevars, store_buffer, wake_inflight_, producers,
                 head, next, q, fifo>>

\* The store leaves the store buffer.
Flush ==
  /\ poller_ = "unsetting"
  /\ poller_' = "null"
  /\ UNCHANGED <<queuevars, wakevars, store_buffer, wake_inflight_, producers,
                 worker, fifo>>

\* Mutant: the worker does not wait for the wakes in flight.
CloseAtOnce ==
  /\ wpc = "wait"
  /\ wpc' = "closed"
  /\ UNCHANGED <<queuevars, wakevars, exitvars, producers, head, next, q, fifo>>

\* The loop over wake_inflight_ ends; the eventfd is closed.
Close ==
  /\ wpc = "wait"
  /\ wake_inflight_ = 0
  /\ wpc' = "closed"
  /\ UNCHANGED <<queuevars, wakevars, exitvars, producers, head, next, q, fifo>>

Push(p) ==
  \/ PushLink(p) \/ PushFlag(p)
  \/ KickEnter(p) \/ KickLoad(p) \/ Wake(p) \/ WakeWrite(p) \/ KickLeave(p)

Loop ==
  \/ Continue \/ PollWake \/ PollReturn \/ DrainRead \/ DrainClear
  \/ RunTasks \/ TakeFlag
  \/ Pop \/ PopSecond \/ PopAdvance \/ PopLast \/ PopRestub \/ PopRelink
  \/ PopRetry \/ Enqueue

Next ==
  \/ \E p \in Producers : Push(p) \/ \E n \in Nodes : PushSwap(p, n)
  \/ Loop \/ PollTimeout \/ Unset \/ Flush \/ Close

Spec == Init /\ [][Next]_vars

(***************************************************************************)
(* Properties                                                              *)
(***************************************************************************)

\* pop() returns the nodes once each, in the order in which push() exchanged
\* the tail, even while other pushes are half done.
PopsInOrder == wpc = "enqueue" => fifo # <<>> /\ head = Head(fifo)

\* A worker never sleeps on work: if it is blocked in epoll_wait() with no
\* event to come while coroutines are in its inbox, the producer of one of
\* them is still on its way to wake it.
NeverSleepsOnWork ==
  wpc = "poll" /\ q = {} /\ ~edge /\ fifo # <<>> =>
    \E p \in Producers : ppc[p] \notin {"idle", "leave"}

\* "Leaving the flag set with an empty eventfd, so every later wake() is
\* skipped" does not happen: a set flag has a count in the eventfd, a producer
\* about to write one, or a worker about to clear the flag.
NoLostWakeup ==
  wake_pending => \/ wake_fd /\ edge
                  \/ wpc \in {"read", "clear"}
                  \/ \E p \in Producers : ppc[p] = "write"

\* "Blocks until every concurrent wake that already grabbed the pointer has
\* finished, so nobody writes to a closed wake fd."
NoWriteToClosedFd ==
  wpc = "closed" => \A p \in Producers : ppc[p] \notin {"wake", "write"}

\* unset_poller() keeps that promise where a store is visible at once.
ClosesAfterWakes == ~store_buffer => NoWriteToClosedFd

\* A wake-up is neither lost nor sent to a closed eventfd: the three above together
\* (kick_poller, EPoller::wake and its draining, unset_poller).
WakeUpsAreSound == TypeOK /\ NeverSleepsOnWork /\ NoLostWakeup /\ ClosesAfterWakes

\* The threads keep running; epoll_wait() need never time out.
FairSpec ==
  Spec /\ WF_vars(Loop) /\ \A p \in Producers : WF_vars(Push(p))

\* A coroutine handed to a worker that does not stop is resumed by it.
EveryPushIsRun ==
  \A n \in Nodes : n \in Queued ~> n \notin Queued \/ wpc \in {"wait", "closed"}
=============================================================================
