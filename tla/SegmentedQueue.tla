--------------------------- MODULE SegmentedQueue ---------------------------
(***************************************************************************)
(* SegmentedMPMCQueue (ConcurrentQueues.h): a list of segments of Size     *)
(* cells, and the hazard pointers (HazardPointers.h and .cpp) that keep a  *)
(* segment from being freed under a thread that uses it.                   *)
(*                                                                         *)
(* Positions are claimed by fetch_add.  A consumer that overtakes the      *)
(* producers marks the cells it has claimed dead.  A segment that the      *)
(* consumers have left is retired by the thread that moved head, and given *)
(* back when a scan finds it in nobody's slots; the address may be used    *)
(* again at once.                                                          *)
(***************************************************************************)
EXTENDS QueueThreads, FiniteSetsExt

CONSTANTS
  Segments,   \* addresses of segments, numbers from 1
  Size,       \* SegmentSize, for each kind
  Slots,      \* kSlots, hazard slots of a record, for each kind
  Threshold,  \* retired segments that start a scan
  Bulk,       \* threads that use the bulk calls, two values at a time, and
              \* ask empty()
  MaxExits    \* bound: threads that end

ASSUME SegmentAssumption ==
  /\ Segments \subseteq Nat \ {0}
  /\ Threshold \in Nat \ {0}
  /\ \A k \in Kinds : Size[k] \in Nat /\ Size[k] >= 2 /\ Slots[k] \in Nat \ {0}

VARIABLES
  segs,     \* the segments: enq_pos, deq_pos, next, and the cells
  head,     \* head_
  tail,     \* tail_
  free,     \* addresses that are not allocated
  spare,    \* spare().seg of each thread
  hp,       \* the hazard slots of each thread's record
  victim,   \* the slot that the next protect() uses
  active,   \* threads that have a record
  retired,  \* each record's retired segments
  orphans,  \* orphans_
  mu,       \* orphan_mu_: the thread that has it
  exits

hazardvars == <<hp, victim, active, retired, orphans, mu, exits>>
segvars == <<segs, head, tail, free, spare, hazardvars>>

Positions == 0..(Size[kind] - 1)

NewSegment == [enq |-> 0, deq |-> 0, next |-> Nil,
               st |-> [i \in Positions |-> "empty"], val |-> [i \in Positions |-> 0]]

Seg(t) == segs[th[t].s]

Go(t, pc) == Set(t, [th[t] EXCEPT !.pc = pc])

(***************************************************************************)
(* HazardDomain::protect()                                                 *)
(***************************************************************************)

Source(t) == IF th[t].from = "tail" THEN tail ELSE head

\* Where the call goes on with a segment that is protected.
Protected(t, p) ==
  Set(t, [th[t] EXCEPT !.s = p,
            !.pc = CASE th[t].from = "tail" -> "add"
                     [] th[t].from = "head" -> "load"
                     [] th[t].from = "ask"  -> "ask"])

Held(t) == {hp[t][i] : i \in 1..Slots[kind]} \ {Nil}

\* A slot that has the address already is enough: the load found it again.
Publish(t, p) ==
  IF p \in Held(t) THEN Protected(t, p) ELSE Set(t, [th[t] EXCEPT !.pc = "publish", !.s = p])

ProtectLoad(t) ==
  /\ At(t, "protect")
  /\ Publish(t, Source(t))
  /\ UNCHANGED <<kind, put, got, gets, segvars>>

ProtectPublish(t) ==
  /\ At(t, "publish")
  /\ hp' = [hp EXCEPT ![t][victim[t]] = th[t].s]
  /\ victim' = [victim EXCEPT ![t] = (@ % Slots[kind]) + 1]
  /\ Go(t, "verify")
  /\ UNCHANGED <<kind, put, got, gets, segs, head, tail, free, spare, active, retired, orphans, mu, exits>>

\* Mutant: the source is not looked at again.
ProtectTrust(t) ==
  /\ At(t, "verify")
  /\ Protected(t, th[t].s)
  /\ UNCHANGED <<kind, put, got, gets, segvars>>

ProtectVerify(t) ==
  /\ At(t, "verify")
  /\ IF Source(t) = th[t].s THEN Protected(t, th[t].s) ELSE Publish(t, Source(t))
  /\ UNCHANGED <<kind, put, got, gets, segvars>>

(***************************************************************************)
(* Memory: take_segment() and give_segment()                               *)
(***************************************************************************)

TakeAddress(t) == IF spare[t] # Nil THEN spare[t] ELSE Min(free)

Take(t) ==
  /\ spare' = [spare EXCEPT ![t] = Nil]
  /\ free' = free \ {TakeAddress(t)}

\* give_segment() of each: one is kept for the thread when it has none.
Give(t, gone) ==
  LET kept == IF spare[t] = Nil /\ gone # {} THEN {Min(gone)} ELSE {}
  IN /\ spare' = [spare EXCEPT ![t] = IF kept = {} THEN @ ELSE Min(gone)]
     /\ free' = free \cup (gone \ kept)

(***************************************************************************)
(* do_enqueue() and enqueue_bulk()                                         *)
(***************************************************************************)

\* Positions for all the values that are left.
EnqueueAdd(t) ==
  LET pos == Seg(t).enq
      n == Len(th[t].vs)
  IN
  /\ At(t, "add")
  /\ segs' = [segs EXCEPT ![th[t].s].enq = @ + n]
  /\ Set(t, [th[t] EXCEPT !.pos = pos, !.end = Min({pos + n, Size[kind]}),
                          !.pc = IF pos < Size[kind] THEN "cell" ELSE "next"])
  /\ UNCHANGED <<kind, put, got, gets, head, tail, free, spare, hazardvars>>

\* publish_cell(): the value, then the state.
EnqueueCell(t) ==
  LET rest == Tail(th[t].vs) IN
  /\ At(t, "cell")
  /\ segs' = [segs EXCEPT ![th[t].s].st[th[t].pos] = "full",
                          ![th[t].s].val[th[t].pos] = th[t].vs[1]]
  /\ IF rest = <<>> THEN PutDone(t)
     ELSE Set(t, [th[t] EXCEPT !.vs = rest, !.pos = @ + 1,
                               !.pc = IF th[t].pos + 1 < th[t].end THEN "cell" ELSE "next"])
  /\ UNCHANGED <<kind, put, got, gets, head, tail, free, spare, hazardvars>>

\* advance_tail(): a new segment, with the value in it unless this is a bulk
\* enqueue, or the one that somebody has linked.
EnqueueNext(t) ==
  /\ At(t, "next")
  /\ IF Seg(t).next # Nil
     THEN /\ Set(t, [th[t] EXCEPT !.pc = "swing", !.nx = Seg(t).next])
          /\ UNCHANGED <<segs, free, spare>>
     ELSE /\ Set(t, [th[t] EXCEPT !.pc = "link", !.nx = TakeAddress(t)])
          /\ segs' = [segs EXCEPT ![TakeAddress(t)] =
                        IF th[t].max = 1
                        THEN [NewSegment EXCEPT !.enq = 1, !.st[0] = "full", !.val[0] = th[t].vs[1]]
                        ELSE NewSegment]
          /\ Take(t)
  /\ UNCHANGED <<kind, put, got, gets, head, tail, hazardvars>>

\* The loser takes its value back.
EnqueueLink(t) ==
  /\ At(t, "link")
  /\ IF Seg(t).next = Nil
     THEN /\ segs' = [segs EXCEPT ![th[t].s].next = th[t].nx]
          /\ Set(t, [th[t] EXCEPT !.pc = "swing", !.vs = IF th[t].max = 1 THEN <<>> ELSE @])
          /\ UNCHANGED <<free, spare>>
     ELSE /\ Give(t, {th[t].nx})
          /\ Set(t, [th[t] EXCEPT !.pc = "swing", !.nx = Seg(t).next])
          /\ UNCHANGED segs
  /\ UNCHANGED <<kind, put, got, gets, head, tail, hazardvars>>

\* tail_ moves on, by the one who linked or by any that helps.
EnqueueSwing(t) ==
  /\ At(t, "swing")
  /\ tail' = IF tail = th[t].s THEN th[t].nx ELSE tail
  /\ IF th[t].vs = <<>> THEN PutDone(t)
     ELSE Set(t, [th[t] EXCEPT !.pc = "protect", !.s = Nil, !.nx = Nil])
  /\ UNCHANGED <<kind, put, got, gets, segs, head, free, spare, hazardvars>>

(***************************************************************************)
(* try_dequeue() and try_dequeue_bulk()                                    *)
(***************************************************************************)

DequeueLoad(t) ==
  /\ At(t, "load")
  /\ Set(t, [th[t] EXCEPT !.pos = Seg(t).deq, !.pc = IF Seg(t).deq >= Size[kind] THEN "leave" ELSE "ready"])
  /\ UNCHANGED <<kind, put, got, gets, segvars>>

\* Full cells from d on.  A full cell stays full, so they are read as one.  A
\* single dequeue looks at two and takes one.
DequeueReady(t) ==
  LET d == th[t].pos
      limit == Min({Size[kind] - d, IF th[t].max = 1 THEN 2 ELSE th[t].max})
      ready == Max({n \in 0..limit : \A i \in 0..(n - 1) : Seg(t).st[d + i] = "full"})
  IN
  /\ At(t, "ready")
  /\ CASE ready = 0 -> Go(t, "none")
       [] ready = 1 -> Go(t, "claim")
       [] ready > 1 -> Set(t, [th[t] EXCEPT !.pc = "take_many", !.end = Min({ready, th[t].max})])
  /\ UNCHANGED <<kind, put, got, gets, segvars>>

\* Mutant: a cell that is not full yet means that the queue is empty.
DequeueGivesUp(t) ==
  /\ At(t, "none")
  /\ GotNone(t)
  /\ UNCHANGED <<kind, put, got, gets, segvars>>

DequeueNone(t) ==
  /\ At(t, "none")
  /\ IF th[t].pos >= Seg(t).enq THEN GotNone(t) ELSE Go(t, "load")
  /\ UNCHANGED <<kind, put, got, gets, segvars>>

DequeueClaim(t) ==
  /\ At(t, "claim")
  /\ IF Seg(t).deq = th[t].pos
     THEN /\ segs' = [segs EXCEPT ![th[t].s].deq = @ + 1]
          /\ Set(t, [th[t] EXCEPT !.pc = "take", !.end = th[t].pos + 1])
     ELSE Go(t, "load") /\ UNCHANGED segs
  /\ UNCHANGED <<kind, put, got, gets, head, tail, free, spare, hazardvars>>

\* With more than one in sight the claim is not checked.
DequeueAdd(t) ==
  LET pos == Seg(t).deq IN
  /\ At(t, "take_many")
  /\ segs' = [segs EXCEPT ![th[t].s].deq = @ + th[t].end]
  /\ IF pos >= Size[kind] THEN Go(t, "load")
     ELSE Set(t, [th[t] EXCEPT !.pc = "take", !.pos = pos, !.end = Min({pos + th[t].end, Size[kind]})])
  /\ UNCHANGED <<kind, put, got, gets, head, tail, free, spare, hazardvars>>

\* The claimed cell at pos is done with: the next one, or the end of the call.
Advance(t, taken) ==
  CASE th[t].pos + 1 < th[t].end ->
         /\ Set(t, [th[t] EXCEPT !.pc = "take", !.pos = @ + 1, !.taken = taken])
         /\ UNCHANGED got
    [] th[t].pos + 1 >= th[t].end /\ taken # <<>> -> Got(t, taken)
    [] OTHER -> Go(t, "load") /\ UNCHANGED got

\* take_cell()
DequeueTake(t) ==
  LET st == Seg(t).st[th[t].pos] IN
  /\ At(t, "take")
  /\ CASE st = "full"  -> Advance(t, Append(th[t].taken, Seg(t).val[th[t].pos]))
       [] st = "dead"  -> Advance(t, th[t].taken)
       [] st = "empty" -> Go(t, "overtaken") /\ UNCHANGED got
  /\ UNCHANGED <<kind, put, gets, segvars>>

\* Mutant: the cells are marked dead although a producer has claimed them.
DequeueKill(t) ==
  /\ At(t, "overtaken")
  /\ segs' = [segs EXCEPT ![th[t].s].enq = Max({@, th[t].pos + 1})]
  /\ Set(t, [th[t] EXCEPT !.pc = "mark", !.seq = Min({Seg(t).enq, th[t].pos})])
  /\ UNCHANGED <<kind, put, got, gets, head, tail, free, spare, hazardvars>>

\* The consumer is ahead of the producers: they are moved past the cell, unless
\* one of them has just claimed it.
DequeueOvertaken(t) ==
  /\ At(t, "overtaken")
  /\ IF Seg(t).enq > th[t].pos
     THEN Go(t, "take") /\ UNCHANGED segs
     ELSE /\ segs' = [segs EXCEPT ![th[t].s].enq = th[t].pos + 1]
          /\ Set(t, [th[t] EXCEPT !.pc = "mark", !.seq = Seg(t).enq])
  /\ UNCHANGED <<kind, put, got, gets, head, tail, free, spare, hazardvars>>

DequeueMark(t) ==
  /\ At(t, "mark")
  /\ segs' = [segs EXCEPT ![th[t].s].st =
                [i \in Positions |-> IF i \in th[t].seq..th[t].pos THEN "dead" ELSE @[i]]]
  /\ Advance(t, th[t].taken)
  /\ UNCHANGED <<kind, put, gets, head, tail, free, spare, hazardvars>>

\* advance_head()
DequeueLeave(t) ==
  /\ At(t, "leave")
  /\ IF Seg(t).next = Nil THEN GotNone(t)
     ELSE Set(t, [th[t] EXCEPT !.pc = "move_head", !.nx = Seg(t).next])
  /\ UNCHANGED <<kind, put, got, gets, segvars>>

StartScan(t) == [th[t] EXCEPT !.pc = "collect", !.scan = "own", !.s = Nil, !.nx = Nil,
                              !.seen = {}, !.todo = Threads]

\* retire() is part of it, and starts a scan when there are enough.
DequeueMoveHead(t) ==
  LET mine == retired[t] \cup {th[t].s}
      won == head = th[t].s
  IN
  /\ At(t, "move_head")
  /\ head' = IF won THEN th[t].nx ELSE head
  /\ retired' = IF won THEN [retired EXCEPT ![t] = mine] ELSE retired
  /\ Set(t, IF won /\ Cardinality(mine) >= Threshold THEN StartScan(t)
            ELSE [th[t] EXCEPT !.pc = "protect", !.s = Nil, !.nx = Nil])
  /\ UNCHANGED <<kind, put, got, gets, segs, tail, free, spare, hp, victim, active, orphans, mu, exits>>

\* empty_relaxed(): deq_pos, then enq_pos or next.
Ask(t) ==
  /\ At(t, "ask")
  /\ Set(t, IF th[t].end = 0 THEN [th[t] EXCEPT !.end = 1] ELSE IdleThread)
  /\ UNCHANGED <<kind, put, got, gets, segvars>>

(***************************************************************************)
(* HazardDomain::scan() and the end of a thread                            *)
(***************************************************************************)

\* collect_hazards(): a record that is not active is passed over.
Collect(t) ==
  LET r == Min(th[t].todo) IN
  /\ At(t, "collect") /\ th[t].todo # {}
  /\ Set(t, [th[t] EXCEPT !.todo = @ \ {r}, !.seen = @ \cup (IF r \in active THEN Held(r) ELSE {})])
  /\ UNCHANGED <<kind, put, got, gets, segvars>>

ScanDone(t) ==
  Set(t, [th[t] EXCEPT !.pc = IF th[t].from = "exit" THEN "exit" ELSE "protect",
                       !.scan = "none", !.seen = {}])

\* reclaim() of the own list, then the orphans if their lock is free.
ReclaimOwn(t) ==
  /\ At(t, "collect") /\ th[t].todo = {} /\ th[t].scan = "own"
  /\ Give(t, retired[t] \ th[t].seen)
  /\ retired' = [retired EXCEPT ![t] = @ \cap th[t].seen]
  /\ IF mu = Nil /\ orphans # {}
     THEN mu' = t /\ Set(t, [th[t] EXCEPT !.scan = "orphans", !.todo = Threads, !.seen = {}])
     ELSE ScanDone(t) /\ UNCHANGED mu
  /\ UNCHANGED <<kind, put, got, gets, segs, head, tail, hp, victim, active, orphans, exits>>

ReclaimOrphans(t) ==
  /\ At(t, "collect") /\ th[t].todo = {} /\ th[t].scan = "orphans"
  /\ Give(t, orphans \ th[t].seen)
  /\ orphans' = orphans \cap th[t].seen
  /\ mu' = Nil
  /\ ScanDone(t)
  /\ UNCHANGED <<kind, put, got, gets, segs, head, tail, hp, victim, active, retired, exits>>

\* release_record(), from the destructor of the thread's LocalGuard.  Bound: a
\* thread ends when there is something for it to reclaim or to leave behind.
BeginExit(t) ==
  /\ At(t, "idle") /\ t \in active /\ exits < MaxExits
  /\ retired[t] \cup orphans # {}
  /\ exits' = exits + 1
  /\ Set(t, [StartScan(t) EXCEPT !.from = "exit"])
  /\ UNCHANGED <<kind, put, got, gets, segs, head, tail, free, spare, hp, victim, active, retired, orphans, mu>>

\* What is left goes to the orphans; the spare segment is deleted.
Exit(t) ==
  /\ At(t, "exit") /\ (retired[t] = {} \/ mu = Nil)
  /\ orphans' = orphans \cup retired[t]
  /\ retired' = [retired EXCEPT ![t] = {}]
  /\ hp' = [hp EXCEPT ![t] = [i \in 1..Slots[kind] |-> Nil]]
  /\ victim' = [victim EXCEPT ![t] = 1]
  /\ active' = active \ {t}
  /\ free' = free \cup ({spare[t]} \ {Nil})
  /\ spare' = [spare EXCEPT ![t] = Nil]
  /\ Set(t, IdleThread)
  /\ UNCHANGED <<kind, put, got, gets, segs, head, tail, mu, exits>>

\* Values of one call.
Batch(t) == IF t \in Bulk THEN 2 ELSE 1

\* The calls; local_record() gives the thread a record with the first one.
Call(t) ==
  /\ \/ BeginPut(t, Batch(t), "protect")
     \/ BeginGet(t, Batch(t), "protect")
     \/ /\ At(t, "idle") /\ t \in Consumers[kind] \cap Bulk /\ gets < MaxGets[kind]
        /\ gets' = gets + 1
        /\ Set(t, [IdleThread EXCEPT !.pc = "protect", !.from = "ask"])
        /\ UNCHANGED <<kind, put, got>>
  /\ active' = active \cup {t}
  /\ UNCHANGED <<segs, head, tail, free, spare, hp, victim, retired, orphans, mu, exits>>

SegInit ==
  /\ segs = [s \in Segments |-> NewSegment]
  /\ head = 1 /\ tail = 1 /\ free = Segments \ {1}
  /\ spare = [t \in Threads |-> Nil]
  /\ hp = [t \in Threads |-> [i \in 1..Slots[kind] |-> Nil]]
  /\ victim = [t \in Threads |-> 1]
  /\ active = {} /\ retired = [t \in Threads |-> {}] /\ orphans = {}
  /\ mu = Nil /\ exits = 0

SegStep(t) ==
  \/ Call(t)
  \/ ProtectLoad(t) \/ ProtectPublish(t) \/ ProtectVerify(t)
  \/ EnqueueAdd(t) \/ EnqueueCell(t) \/ EnqueueNext(t) \/ EnqueueLink(t) \/ EnqueueSwing(t)
  \/ DequeueLoad(t) \/ DequeueReady(t) \/ DequeueNone(t) \/ DequeueClaim(t) \/ DequeueAdd(t)
  \/ DequeueTake(t) \/ DequeueOvertaken(t) \/ DequeueMark(t) \/ DequeueLeave(t) \/ DequeueMoveHead(t)
  \/ Ask(t) \/ Collect(t) \/ ReclaimOwn(t) \/ ReclaimOrphans(t) \/ BeginExit(t) \/ Exit(t)

\* The unclaimed full cells of the list, in order.
SegContents ==
  LET chain[i \in 1..Cardinality(Segments)] ==
        IF i = 1 THEN head ELSE IF chain[i - 1] = Nil THEN Nil ELSE segs[chain[i - 1]].next
      cellsOf(s) ==
        LET left == SelectSeq([i \in 1..Size[kind] |-> i - 1],
                              LAMBDA p : p >= segs[s].deq /\ segs[s].st[p] = "full")
        IN [i \in DOMAIN left |-> segs[s].val[left[i]]]
  IN FlattenSeq([i \in 1..Cardinality(Segments) |-> IF chain[i] = Nil THEN <<>> ELSE cellsOf(chain[i])])

\* Steps that access a segment.
UsesSegment(t) ==
  th[t].pc \in {"add", "cell", "next", "link", "load", "ready", "none", "claim", "take_many",
                "take", "overtaken", "mark", "leave", "ask"}
=============================================================================
