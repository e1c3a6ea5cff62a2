------------------------------ MODULE LockFree ------------------------------
(***************************************************************************)
(* The lock-free containers and the two ways of giving memory back, each   *)
(* with its own threads: kind says which of them a behaviour is about.     *)
(***************************************************************************)
EXTENDS RingQueues, SegmentedQueue, QSBR

Segmented == kind \in {"producers", "consumers", "recycling"}

vars == <<threadvars, ringvars, segvars, qsbrvars>>

Init ==
  /\ kind \in Kinds
  /\ ThreadInit /\ RingInit /\ SegInit /\ QsbrInit

RingCall(t) ==
  /\ \/ kind = "spsc" /\ BeginPut(t, 1, "spsc_put")
     \/ kind = "spsc" /\ BeginGet(t, 1, "spsc_get")
     \/ kind = "mpmc" /\ BeginPut(t, 1, "mpmc_put")
     \/ kind = "mpmc" /\ BeginGet(t, 1, "mpmc_get")
  /\ UNCHANGED ringvars

Next ==
  \E t \in Threads :
    \/ RingCall(t) /\ UNCHANGED <<segvars, qsbrvars>>
    \/ RingStep(t) /\ UNCHANGED <<segvars, qsbrvars>>
    \/ Segmented /\ SegStep(t) /\ UNCHANGED <<ringvars, qsbrvars>>
    \/ kind = "qsbr" /\ QsbrStep(t) /\ UNCHANGED <<ringvars, segvars>>
    \/ GoOn(t) /\ UNCHANGED <<ringvars, segvars, qsbrvars>>

Spec == Init /\ [][Next]_vars

(***************************************************************************)
(* Properties                                                              *)
(***************************************************************************)

Contents == IF Segmented THEN SegContents ELSE RingContents

AtRest == \A t \in Threads : th[t].pc \in {"idle", "empty"}

InOrder(vs) ==
  \A i, j \in DOMAIN vs : (i < j /\ put[vs[i]].by = put[vs[j]].by) => vs[i] < vs[j]

\* No value is handed out twice, and when no call is under way the queue holds
\* exactly the values that were put and not taken (try_enqueue, try_dequeue, the
\* bulk calls, advance_tail and take_cell of the three queues).
EachValueOnce ==
  /\ \A t, u \in Threads : \A i \in DOMAIN got[t], j \in DOMAIN got[u] :
       got[t][i] = got[u][j] => t = u /\ i = j
  /\ (AtRest /\ kind # "qsbr") => Range(Contents) = Entered \ Gone

\* A consumer gets the values of one producer in the order in which they were put,
\* and what is left is in that order (the order of the fetch_add and of the cells).
ProducerOrder ==
  /\ \A t \in Threads : InOrder(got[t])
  /\ AtRest => InOrder(Contents)

\* The queues hand out what was put, once and in each producer's order.
ValuesOnceAndInOrder == EachValueOnce /\ ProducerOrder

\* A dequeue that reports an empty queue has missed nothing that was in it when it
\* began: each such value has been claimed by another dequeue (try_dequeue's test of
\* deq_pos against enq_pos, advance_head's test of next).  Except in the MPMC ring:
\* it also reports "empty" when finished values wait behind a cell that a producer
\* has claimed and not yet published, and for no other reason.
MissesOnlyBehindUnfinished ==
  [][\A t \in Threads : ~At(t, "empty") /\ th'[t].pc = "empty" =>
       \/ th[t].due \cap Range(Contents) = {}
       \/ kind = "mpmc" /\ Unfinished(t)]_vars

\* A thread accesses a segment only while the segment is neither free nor somebody's
\* spare, also when head overtakes tail (protect, scan); and an object under QSBR is
\* not freed by its retirer while a thread reads it (quiesce_tick).  An orphan may be:
\* it can be retired after the epoch was computed that decides about it.
NoUseAfterFree ==
  /\ \A t \in Threads : UsesSegment(t) => th[t].s \notin free \cup Range(spare)
  /\ {head, tail} \cap (free \cup Range(spare)) = {}
  /\ \A t \in Threads : At(t, "using") => th[t].s \in live \cup adopted
=============================================================================
