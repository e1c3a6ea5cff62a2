---------------------------- MODULE QueueThreads ----------------------------
(***************************************************************************)
(* The threads that use a concurrent queue, and what they have put into it *)
(* and got out of it.  One step is one access to shared memory; memory is  *)
(* sequentially consistent.                                                *)
(***************************************************************************)
EXTENDS Integers, Sequences, FiniteSets, SequencesExt

CONSTANTS
  Threads,    \* the threads
  Kinds,      \* what the behaviours are about: see kind
  Producers,  \* for each kind, the threads that enqueue
  Consumers,  \* and those that dequeue
  MaxPuts,    \* bound, for each kind: values put
  MaxGets     \* bound, for each kind: dequeues

ASSUME ThreadAssumption ==
  \A k \in Kinds : /\ Producers[k] \cup Consumers[k] \subseteq Threads
                   /\ {MaxPuts[k], MaxGets[k]} \subseteq Nat

VARIABLES
  kind,   \* "spsc", "mpmc" or "qsbr"; for the segmented queue "producers", "consumers"
          \* or "recycling"
  th,     \* where each thread is and its local variables
  put,    \* values whose enqueue has begun: value n is by put[n].by
  got,    \* the values each thread has got, in order
  gets    \* dequeues begun

threadvars == <<kind, th, put, got, gets>>

Nil == 0

\* vs: values still to put; s, nx: segments; max: how many values the call is for;
\* due: for a dequeue, the values that were in the queue when it began; from: what
\* protect() reads; scan, seen, todo: the list that is scanned, what the scan has
\* seen and whom it has still to look at.
IdleThread == [pc |-> "idle", vs |-> <<>>, pos |-> 0, seq |-> 0, s |-> Nil, nx |-> Nil,
               end |-> 0, max |-> 0, taken |-> <<>>, due |-> {},
               from |-> "none", scan |-> "none", seen |-> {}, todo |-> {}]

At(t, pc) == th[t].pc = pc

Set(t, l) == th' = [th EXCEPT ![t] = l]

\* Values that an enqueue has put, and those taken out.
Entered == {n \in DOMAIN put : put[n].ok /\ \A t \in Threads : n \notin Range(th[t].vs)}

Gone == UNION {Range(got[t]) : t \in Threads} \cup UNION {Range(th[t].taken) : t \in Threads}

BeginPut(t, n, first) ==
  /\ At(t, "idle") /\ t \in Producers[kind] /\ Len(put) + n <= MaxPuts[kind]
  /\ put' = put \o [i \in 1..n |-> [by |-> t, ok |-> TRUE]]
  /\ Set(t, [IdleThread EXCEPT !.pc = first, !.vs = [i \in 1..n |-> Len(put) + i],
                               !.max = n, !.from = "tail"])
  /\ UNCHANGED <<kind, got, gets>>

BeginGet(t, n, first) ==
  /\ At(t, "idle") /\ t \in Consumers[kind] /\ gets < MaxGets[kind]
  /\ gets' = gets + 1
  /\ Set(t, [IdleThread EXCEPT !.pc = first, !.max = n, !.from = "head",
                               !.due = Entered \ Gone])
  /\ UNCHANGED <<kind, put, got>>

\* The call returns; a dequeue that got nothing stays visible as "empty" until
\* the thread goes on.
PutDone(t) == Set(t, IdleThread)

PutFailed(t) ==
  /\ Set(t, IdleThread)
  /\ put' = [put EXCEPT ![th[t].vs[1]].ok = FALSE]

Got(t, vs) ==
  /\ Set(t, IdleThread)
  /\ got' = [got EXCEPT ![t] = @ \o vs]

GotNone(t) == Set(t, [IdleThread EXCEPT !.pc = "empty"])

GoOn(t) ==
  /\ At(t, "empty")
  /\ Set(t, IdleThread)
  /\ UNCHANGED <<kind, put, got, gets>>

ThreadInit ==
  /\ th = [t \in Threads |-> IdleThread]
  /\ put = <<>> /\ got = [t \in Threads |-> <<>>] /\ gets = 0
=============================================================================
