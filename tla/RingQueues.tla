----------------------------- MODULE RingQueues -----------------------------
(***************************************************************************)
(* SPSCQueue and MPMCQueue (ConcurrentQueues.h): rings of a fixed number   *)
(* of cells.  The single-producer ring compares its two indices; in the    *)
(* other one each cell has a sequence number that says whose turn it is.   *)
(***************************************************************************)
EXTENDS QueueThreads

CONSTANT Cap   \* cells of a ring, a power of two

ASSUME CapAssumption == Cap \in Nat \ {0}

VARIABLES
  enq,    \* enq_pos_, or tail_ of the SPSC ring
  deq,    \* deq_pos_, or head_
  cells   \* cells_: [seq, val]

ringvars == <<enq, deq, cells>>

Cell(pos) == (pos % Cap) + 1

(***************************************************************************)
(* SPSCQueue                                                               *)
(***************************************************************************)

\* emplace(): full when the next index is the consumer's.
SpscCheckRoom(t) ==
  /\ At(t, "spsc_put")
  /\ IF (enq + 1) % Cap = deq THEN PutFailed(t)
     ELSE Set(t, [th[t] EXCEPT !.pc = "spsc_write"]) /\ UNCHANGED put
  /\ UNCHANGED <<kind, got, gets, ringvars>>

SpscWrite(t) ==
  /\ At(t, "spsc_write")
  /\ cells' = [cells EXCEPT ![Cell(enq)].val = th[t].vs[1]]
  /\ Set(t, [th[t] EXCEPT !.pc = "spsc_publish"])
  /\ UNCHANGED <<kind, put, got, gets, enq, deq>>

SpscPublish(t) ==
  /\ At(t, "spsc_publish")
  /\ enq' = (enq + 1) % Cap
  /\ PutDone(t)
  /\ UNCHANGED <<kind, put, got, gets, deq, cells>>

\* try_dequeue(): the value is moved out before the index is.
SpscRead(t) ==
  /\ At(t, "spsc_get")
  /\ IF deq = enq THEN GotNone(t)
     ELSE Set(t, [th[t] EXCEPT !.pc = "spsc_release", !.taken = <<cells[Cell(deq)].val>>])
  /\ UNCHANGED <<kind, put, got, gets, ringvars>>

SpscRelease(t) ==
  /\ At(t, "spsc_release")
  /\ deq' = (deq + 1) % Cap
  /\ Got(t, th[t].taken)
  /\ UNCHANGED <<kind, put, gets, enq, cells>>

(***************************************************************************)
(* MPMCQueue.  The two sides are alike: claim the position whose cell has  *)
(* the sequence number that is expected, use the cell, pass it on.         *)
(***************************************************************************)

Load(t) ==
  /\ th[t].pc \in {"mpmc_put", "mpmc_get"}
  /\ IF At(t, "mpmc_put") THEN Set(t, [th[t] EXCEPT !.pc = "put_seq", !.pos = enq])
                          ELSE Set(t, [th[t] EXCEPT !.pc = "get_seq", !.pos = deq])
  /\ UNCHANGED <<kind, put, got, gets, ringvars>>

\* do_enqueue(): the cell's number against the position.
PutSeq(t) ==
  LET dif == cells[Cell(th[t].pos)].seq - th[t].pos IN
  /\ At(t, "put_seq")
  /\ IF dif < 0 THEN PutFailed(t)
     ELSE /\ Set(t, [th[t] EXCEPT !.pc = IF dif = 0 THEN "put_cas" ELSE "mpmc_put"])
          /\ UNCHANGED put
  /\ UNCHANGED <<kind, got, gets, ringvars>>

PutCas(t) ==
  /\ At(t, "put_cas")
  /\ IF enq = th[t].pos
     THEN enq' = enq + 1 /\ Set(t, [th[t] EXCEPT !.pc = "put_write"])
     ELSE UNCHANGED enq /\ Set(t, [th[t] EXCEPT !.pc = "put_seq", !.pos = enq])
  /\ UNCHANGED <<kind, put, got, gets, deq, cells>>

\* The value, then the cell's number.
PutWrite(t) ==
  /\ At(t, "put_write")
  /\ cells' = [cells EXCEPT ![Cell(th[t].pos)].val = th[t].vs[1]]
  /\ Set(t, [th[t] EXCEPT !.pc = "put_publish"])
  /\ UNCHANGED <<kind, put, got, gets, enq, deq>>

PutPublish(t) ==
  /\ At(t, "put_publish")
  /\ cells' = [cells EXCEPT ![Cell(th[t].pos)].seq = th[t].pos + 1]
  /\ PutDone(t)
  /\ UNCHANGED <<kind, put, got, gets, enq, deq>>

\* try_dequeue(): the queue is reported empty also when the cell is claimed and not
\* yet written, whatever is behind it.
GetSeq(t) ==
  LET dif == cells[Cell(th[t].pos)].seq - (th[t].pos + 1)
  IN
  /\ At(t, "get_seq")
  /\ CASE dif = 0 -> Set(t, [th[t] EXCEPT !.pc = "get_cas"])
       [] dif < 0 -> GotNone(t)
       [] dif > 0 -> Set(t, [th[t] EXCEPT !.pc = "mpmc_get"])
  /\ UNCHANGED <<kind, put, got, gets, ringvars>>

GetCas(t) ==
  /\ At(t, "get_cas")
  /\ IF deq = th[t].pos
     THEN deq' = deq + 1 /\ Set(t, [th[t] EXCEPT !.pc = "get_read"])
     ELSE UNCHANGED deq /\ Set(t, [th[t] EXCEPT !.pc = "get_seq", !.pos = deq])
  /\ UNCHANGED <<kind, put, got, gets, enq, cells>>

GetRead(t) ==
  /\ At(t, "get_read")
  /\ Set(t, [th[t] EXCEPT !.pc = "get_release", !.taken = <<cells[Cell(th[t].pos)].val>>])
  /\ UNCHANGED <<kind, put, got, gets, ringvars>>

\* The cell is the next lap's.
GetRelease(t) ==
  /\ At(t, "get_release")
  /\ cells' = [cells EXCEPT ![Cell(th[t].pos)].seq = th[t].pos + Cap]
  /\ Got(t, th[t].taken)
  /\ UNCHANGED <<kind, put, gets, enq, deq>>

\* A producer has claimed the cell that t looks at and has not finished with it.
Unfinished(t) ==
  \E u \in Threads : th[u].pc \in {"put_write", "put_publish"} /\ th[u].pos = th[t].pos

RingInit ==
  /\ enq = 0 /\ deq = 0
  /\ cells = [i \in 1..Cap |-> [seq |-> i - 1, val |-> 0]]

RingStep(t) ==
  \/ SpscCheckRoom(t) \/ SpscWrite(t) \/ SpscPublish(t) \/ SpscRead(t) \/ SpscRelease(t)
  \/ Load(t) \/ PutSeq(t) \/ PutCas(t) \/ PutWrite(t) \/ PutPublish(t)
  \/ GetSeq(t) \/ GetCas(t) \/ GetRead(t) \/ GetRelease(t)

\* The cells between the two positions that have been written.
RingContents ==
  LET n == IF kind = "spsc" THEN (enq + Cap - deq) % Cap ELSE enq - deq
      at == [i \in 1..n |-> deq + i - 1]
      written == SelectSeq(at, LAMBDA p : kind = "spsc" \/ cells[Cell(p)].seq = p + 1)
  IN [i \in DOMAIN written |-> cells[Cell(written[i])].val]
=============================================================================
