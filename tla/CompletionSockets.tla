-------------------------- MODULE CompletionSockets --------------------------
(***************************************************************************)
(* A socket over io_uring or IOCP with the coroutines that use it.  The    *)
(* platform, the kind of socket and, for io_uring, whether the kernel has  *)
(* buffer rings are chosen at the start.                                   *)
(***************************************************************************)
EXTENDS SocketIOUring, SocketWindows

\* What the coroutines start.  The two overloads of async_read() and the calls
\* that do not wait are not mixed on one socket: what the ring has received is
\* ahead of what recv() returns.
Operations ==
  CASE proto = "tcp" -> {"async_read", "async_write"}
    [] proto = "raw" -> {"async_read_raw", "async_send", "async_sendfile"}
    [] proto = "sync" -> {"read", "write", "send", "sendfile"}
    [] proto = "udp" -> {"async_read", "async_read_raw", "async_write"}
    [] proto = "listener" -> {"async_accept", "async_accept_all"}
    [] proto = "connect" -> {"async_connect"}

Start(t) ==
  \E op \in Operations :
    /\ proto = "connect" => calls = 0
    /\ Begin(t, op)

Loop ==
  \/ Completes \/ FreeHeader
  \/ UringLoop \/ WindowsLoop

Init ==
  /\ os \in {"uring", "iocp"}
  /\ proto \in {"tcp", "raw", "sync", "listener", "connect"} \cup
               {p \in {"udp"} : os = "iocp"}
  /\ ring \in {b \in BOOLEAN : b => os = "uring" /\ proto \in {"tcp", "raw"}}
  /\ CompletionInit

TaskStep(t) ==
  \/ Resume(t) \/ Start(t) \/ Finish(t) \/ Yield(t)
  \/ UringStep(t) \/ WindowsStep(t)

Next ==
  \/ \E t \in Tasks : TaskStep(t)
  \/ Loop
  \/ Peer

Spec == Init /\ [][Next]_vars

(***************************************************************************)
(* Properties                                                              *)
(***************************************************************************)

Users == {t \in Tasks : holds[t]}

InKernel == {p.id : p \in pend} \cup {cq[i].id : i \in DOMAIN cq}

Alive(id) ==
  IF id = MsId THEN mem # "freed" ELSE \E t \in Tasks : io[t].id = id

\* The kernel and the completion queue name only operations that still exist,
\* and a header that does.  A completion is left behind (hdr.loose) on Windows by
\* an operation that succeeds at once, that loses its waiter to the timer or
\* whose wait took an old hint, and on io_uring by a multishot receive armed
\* after the socket was removed.  An accept loop of io_uring that fails after it
\* has armed its accept again leaves that accept behind.
CompletionsFindTheirOperation ==
  /\ os = "uring" /\ proto # "listener" /\ ~hdr.loose => \A id \in InKernel : Alive(id)
  /\ os = "iocp" /\ ~hdr.loose => \A id \in InKernel : mem # "freed" /\ Alive(id)

\* A suspended coroutine is resumed by one thing: its queue entry, or the
\* completion, word or multishot that will make it one.
OneWayToBeResumed ==
  \A t \in Tasks :
    /\ ready[t] + (IF Runs(t) THEN 1 ELSE 0) <= 1
    /\ io[t].pc = "parked" /\ os = "iocp" =>
         (hdr[Word(io[t].op)] = t) # (ready[t] = 1)
    /\ io[t].pc = "parked" /\ os = "uring" /\ ready[t] = 0 =>
         io[t].id \in InKernel \/ (hdr.waiting /\ (hdr.armed \/ MsId \in InKernel))

\* No provided buffer is lost or given back twice: each is in the ring, in a
\* completion or in the header's queue, also after the header is gone.
BuffersAreConserved ==
  os = "uring" =>
    bufs + Len(hdr.segs)
      + Cardinality({i \in DOMAIN cq : cq[i].kind = "recv_ms" /\ cq[i].res > 0}) = BufCount

\* What callers get is what the peer sent, in order and each once; results count
\* it, and the end of the stream is reported after the last byte of it.
StreamInOrder ==
  (os = "uring" \/ ~hdr.loose) =>
    /\ proto # "listener" => \A i \in DOMAIN got : got[i] = i
    /\ proto = "listener" => \A i, j \in DOMAIN got : i < j => got[i] < got[j]
    /\ \A t \in Tasks : io[t].pc = "done" /\ io[t].value >= 0 /\ proto # "connect" =>
         /\ io[t].value = io[t].total
         /\ io[t].op \in {"async_read", "async_read_raw"} /\ io[t].value = 0 /\ proto # "udp" =>
              Len(got) = net.sent

\* The header lives as long as its users, its timer and its armed receive, and
\* is gone after them, unless a multishot receive has taken a reference: that
\* one is never given back.
ReferencesAreExact ==
  /\ hdr.count = Cardinality(Users) + (IF hdr.timer THEN 1 ELSE 0) + hdr.taken
  /\ mem # "live" <=> hdr.count = 0
  /\ hdr.armed /\ ~hdr.loose => hdr.taken > 0

\* Neither a provided buffer nor a reference is lost or given back twice.
ResourcesAreConserved == BuffersAreConserved /\ ReferencesAreExact
=============================================================================
