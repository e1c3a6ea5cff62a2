---------------------------- MODULE SocketIOUring ----------------------------
(***************************************************************************)
(* Socket<> over io_uring (net/SocketLinuxIOUring.h) and IOUringPoller.    *)
(*                                                                         *)
(* An operation structure is submitted with the coroutine to resume; it    *)
(* lives in the coroutine's frame until the completion arrives.  With a    *)
(* ring of provided buffers one multishot receive, in the header, serves   *)
(* every read: its completions are queued as segments, and it holds a      *)
(* reference to the header.                                                *)
(***************************************************************************)
EXTENDS CompletionIO

Uring(t, ops) == os = "uring" /\ Runs(t) /\ io[t].op \in ops

(***************************************************************************)
(* The poller                                                              *)
(***************************************************************************)

\* destroy(): what is queued goes back to the buffer ring.
UringDestroyed(h) ==
  IF h.count > 0 THEN /\ hdr' = h /\ UNCHANGED <<mem, bufs, net>>
  ELSE /\ hdr' = [h EXCEPT !.timer = FALSE, !.closed = TRUE, !.fd = FALSE, !.segs = <<>>]
       /\ mem' = "q_sh"
       /\ bufs' = bufs + Len(h.segs)
       /\ net' = [net EXCEPT !.shut = @ \/ h.fd]

\* The kernel serves the multishot receive: a buffer for each piece of data,
\* ENOBUFS without one, and a last completion at the end.
MultishotRecv ==
  \E p \in pend :
    /\ p.kind = "recv_ms"
    /\ LET end(res) == /\ cq' = Append(cq, Completion(p, res, <<>>, FALSE))
                       /\ pend' = pend \ {p}
                       /\ cancels' = cancels \ {p.id}
                       /\ UNCHANGED <<net, bufs, faults>>
           n == Recv(BufSize)
       IN \/ p.id \in cancels /\ end(ECANCELED)
          \/ n \in {0, ECONNRESET} /\ end(n)
          \/ n > 0 /\ bufs = 0 /\ end(ENOBUFS)
          \/ /\ n > 0 /\ bufs > 0
             /\ \E more \in {TRUE} \cup {m \in {FALSE} : faults < MaxFaults} :
                  /\ cq' = Append(cq, Completion(p, n, First(n), more))
                  /\ pend' = IF more THEN pend ELSE pend \ {p}
                  /\ cancels' = IF more THEN cancels ELSE cancels \ {p.id}
                  /\ faults' = IF more THEN faults ELSE faults + 1
             /\ net' = Took(n)
             /\ bufs' = bufs - 1
    /\ UNCHANGED <<fixed, hdr, mem, holds, run, ready, io, calls, got>>

\* The multishot accept: a failure ends it.
MultishotAccept ==
  \E p \in pend :
    /\ p.kind = "accept_ms"
    /\ LET end(res) == /\ cq' = Append(cq, Completion(p, res, <<>>, FALSE))
                       /\ pend' = pend \ {p}
                       /\ cancels' = cancels \ {p.id}
                       /\ UNCHANGED net
       IN \/ p.id \in cancels /\ end(ECANCELED) /\ UNCHANGED faults
          \/ /\ net.in # <<>> /\ faults < MaxFaults /\ faults' = faults + 1
             /\ \E e \in {EMFILE, ECONNABORTED} : end(e)
          \/ /\ net.in # <<>>
             /\ cq' = Append(cq, Completion(p, 1, First(1), TRUE))
             /\ net' = Took(1)
             /\ UNCHANGED <<pend, cancels, faults>>
    /\ UNCHANGED <<fixed, hdr, mem, holds, run, ready, io, bufs, calls, got>>

\* The coroutine whose frame holds operation id.
Waiter(id) == {t \in Tasks : io[t].id = id /\ io[t].pc = "parked"}

\* handle_cqe(), RecvMultishot: a segment or the end.  drop_recv_ref() gets
\* the header pointer of ms_recv, which nobody sets, and drops nothing.
CqeRecvMultishot(c) ==
  LET reader == {t \in Tasks : hdr.waiting /\ io[t].pc = "parked"
                               /\ io[t].op \in {"async_read", "async_read_raw"}}
  IN
  /\ hdr' = [hdr EXCEPT !.segs = IF c.res > 0 THEN Append(@, c.data) ELSE @,
                        !.term = IF c.res > 0 THEN @ ELSE c.res,
                        !.armed = @ /\ c.more, !.waiting = FALSE]
  /\ ready' = Queued(reader)
  /\ UNCHANGED io

\* handle_cqe(), AcceptMultishot.
CqeAcceptMultishot(c) ==
  /\ io' = [t \in Tasks |->
              IF io[t].id = c.id
              THEN [io[t] EXCEPT !.fds = @ \o c.data, !.armed = @ /\ c.more,
                                 !.res = IF c.res > 0 THEN @ ELSE c.res]
              ELSE io[t]]
  /\ ready' = Queued({t \in Waiter(c.id) : ready[t] = 0})
  /\ UNCHANGED hdr

\* handle_cqe(), an operation with one completion.
CqeSingle(c) ==
  /\ io' = [t \in Tasks |-> IF io[t].id = c.id
                            THEN [io[t] EXCEPT !.res = c.res, !.data = c.data] ELSE io[t]]
  /\ ready' = Queued(Waiter(c.id))
  /\ UNCHANGED hdr

HandleCqe ==
  LET c == Head(cq) IN
  /\ os = "uring" /\ Idle /\ cq # <<>>
  /\ cq' = Tail(cq)
  /\ CASE c.kind = "recv_ms" -> CqeRecvMultishot(c)
       [] c.kind = "accept_ms" -> CqeAcceptMultishot(c)
       [] OTHER -> CqeSingle(c)
  /\ UNCHANGED <<fixed, mem, holds, run, net, pend, cancels, bufs, calls, faults, got>>

(***************************************************************************)
(* Awaiters: submit and suspend                                            *)
(***************************************************************************)

Suspends(t) == run' = None /\ UNCHANGED ready

\* The awaiter of an operation with one completion: nothing is submitted for
\* a closed descriptor, and the coroutine is suspended all the same.
Await(t, kind, ask) ==
  /\ pend' = IF hdr.fd THEN Submitted(t, kind, ask) ELSE pend
  /\ Become(t, Parked(io[t]))
  /\ Suspends(t)
  /\ UNCHANGED <<fixed, mem, holds, net, cancels, cq, bufs, calls, faults, got>>

\* SendAwaiter::await_ready(): the first write of a socket is tried at once.
FirstWrite(t) ==
  LET res == Send(MaxRead - io[t].total) IN
  /\ Uring(t, {"async_write", "async_send"}) /\ io[t].pc = "go" /\ ~hdr.first_write
  /\ hdr' = [hdr EXCEPT !.first_write = TRUE]
  /\ net' = Put(res)
  /\ Become(t, IF res = EAGAIN THEN [io[t] EXCEPT !.pc = "submit"]
               ELSE [io[t] EXCEPT !.pc = "woken", !.res = res])
  /\ UNCHANGED <<fixed, mem, holds, run, ready, pend, cancels, cq, bufs, calls, faults, got>>

\* SendAwaiter::await_suspend().
SubmitSend(t) ==
  /\ Uring(t, {"async_write", "async_send"})
  /\ io[t].pc = "submit" \/ (io[t].pc = "go" /\ hdr.first_write)
  /\ hdr' = [hdr EXCEPT !.write_op = io[t].id]
  /\ Await(t, "send", MaxRead - io[t].total)

\* async_write() with the result of one send: what was written so far hides an
\* error.  async_send() is async_write().
UringAsyncWrite(t) ==
  LET l == io[t]
      sum == l.total + l.res
  IN
  /\ Uring(t, {"async_write", "async_send"}) /\ l.pc = "woken"
  /\ hdr' = [hdr EXCEPT !.write_op = NoId]
  /\ Become(t, CASE l.res <= 0 -> Returned(l, IF l.total > 0 THEN l.total ELSE l.res)
                 [] l.res > 0 /\ sum < MaxRead -> [l EXCEPT !.pc = "go", !.total = sum]
                 [] OTHER -> Returned([l EXCEPT !.total = sum], sum))
  /\ UNCHANGED <<fixed, mem, holds, run, ready, kernelvars, calls, got>>

\* async_read(DynamicBuffer&) with a buffer ring, and RecvAwaiter::await_ready()
\* without one: the first read is tried at once.
FirstRead(t) ==
  LET res == Recv(MaxRead) IN
  /\ Uring(t, IF ring THEN {"async_read"} ELSE {"async_read", "async_read_raw"})
  /\ io[t].pc = "go" /\ ~hdr.first_read
  /\ hdr' = [hdr EXCEPT !.first_read = TRUE]
  /\ net' = Took(res)
  /\ got' = got \o First(res)
  /\ Become(t, IF res = EAGAIN THEN [io[t] EXCEPT !.pc = "wait"]
               ELSE Returned([io[t] EXCEPT !.total = Len(First(res))], res))
  /\ UNCHANGED <<fixed, mem, holds, run, ready, pend, cancels, cq, bufs, calls, faults>>

\* RecvAwaiter::await_suspend().
SubmitRecv(t) ==
  /\ Uring(t, {"async_read", "async_read_raw"}) /\ ~ring
  /\ io[t].pc = "wait" \/ (io[t].pc = "go" /\ hdr.first_read)
  /\ hdr' = [hdr EXCEPT !.read_op = io[t].id]
  /\ Await(t, "recv", MaxRead)

\* async_read() with the result of its receive.
RecvWoken(t) ==
  /\ Uring(t, {"async_read", "async_read_raw"}) /\ ~ring /\ io[t].pc = "woken"
  /\ hdr' = [hdr EXCEPT !.read_op = NoId]
  /\ got' = got \o io[t].data
  /\ Become(t, Returned([io[t] EXCEPT !.total = Len(io[t].data)], io[t].res))
  /\ UNCHANGED <<fixed, mem, holds, run, ready, kernelvars, calls>>

\* The segments without their first k bytes, and how many buffers that frees.
Rest(segs, k) ==
  [i \in DOMAIN segs |->
     LET before == Len(FlattenSeq(SubSeq(segs, 1, i - 1)))
     IN SubSeq(segs[i], (IF k > before THEN k - before ELSE 0) + 1, Len(segs[i]))]

\* Mutant: a segment that is longer than the caller's buffer is dropped.
ConsumeAndDrop(h, max) ==
  LET all == FlattenSeq(h.segs)
  IN [data |-> SubSeq(all, 1, Least(max, Len(all))), segs |-> <<>>, freed |-> Len(h.segs)]

\* consume_ms_recv(): segments in order; a buffer goes back to the ring when
\* its segment is used up.
consume_ms_recv(h, max) ==
  LET all == FlattenSeq(h.segs)
      n == Least(max, Len(all))
      rest == Rest(h.segs, n)
  IN [data |-> SubSeq(all, 1, n),
      segs |-> SelectSeq(rest, LAMBDA s : s # <<>>),
      freed |-> Cardinality({i \in DOMAIN rest : rest[i] = <<>>})]

\* async_read() with a buffer ring, one round: queued data, then how the
\* receive ended, else wait; running out of buffers is not the end.
ReadRound(t) ==
  LET c == consume_ms_recv(hdr, MaxRead)
      over == hdr.term <= 0 /\ hdr.term # ENOBUFS
  IN
  /\ Uring(t, {"async_read", "async_read_raw"}) /\ ring
  /\ io[t].pc \in {"wait", "woken"}
     \/ (io[t].pc = "go" /\ (hdr.first_read \/ io[t].op = "async_read_raw"))
  /\ hdr.segs # <<>> \/ over
  /\ hdr' = IF hdr.segs # <<>> THEN [hdr EXCEPT !.segs = c.segs] ELSE hdr
  /\ bufs' = bufs + c.freed
  /\ got' = got \o c.data
  /\ Become(t, Returned([io[t] EXCEPT !.total = Len(c.data)],
                        IF hdr.segs # <<>> THEN Len(c.data) ELSE hdr.term))
  /\ UNCHANGED <<fixed, mem, holds, run, ready, net, pend, cancels, cq, calls, faults>>

\* Mutant: the reader does not re-arm a receive that ended for want of buffers.
RecvMultishotNoRearm(t) ==
  /\ Uring(t, {"async_read", "async_read_raw"}) /\ ring
  /\ io[t].pc \in {"wait", "woken"}
     \/ (io[t].pc = "go" /\ (hdr.first_read \/ io[t].op = "async_read_raw"))
  /\ hdr.segs = <<>> /\ hdr.term \in {1, ENOBUFS}
  /\ LET arms == ~hdr.armed /\ hdr.fd /\ hdr.term # ENOBUFS
     IN /\ pend' = IF arms THEN pend \cup {[id |-> MsId, kind |-> "recv_ms", ask |-> BufSize]}
                   ELSE pend
        /\ hdr' = [(IF arms THEN WithRef(hdr) ELSE hdr) EXCEPT
                     !.armed = @ \/ arms,
                     !.taken = IF arms /\ ~hdr.closed THEN @ + 1 ELSE @,
                     !.loose = @ \/ (arms /\ hdr.closed),
                     !.read_op = IF arms THEN MsId ELSE @, !.term = 1, !.waiting = TRUE]
  /\ Become(t, Parked(io[t]))
  /\ Suspends(t)
  /\ UNCHANGED <<fixed, mem, holds, net, cancels, cq, bufs, calls, faults, got>>

\* MultishotRecvAwaiter: the receive is armed unless it still is, with a
\* reference to the header if that takes new ones.
MultishotRecvAwaiter(t) ==
  /\ Uring(t, {"async_read", "async_read_raw"}) /\ ring
  /\ io[t].pc \in {"wait", "woken"}
     \/ (io[t].pc = "go" /\ (hdr.first_read \/ io[t].op = "async_read_raw"))
  /\ hdr.segs = <<>> /\ hdr.term \in {1, ENOBUFS}
  /\ LET arms == ~hdr.armed /\ hdr.fd
     IN /\ pend' = IF arms THEN pend \cup {[id |-> MsId, kind |-> "recv_ms", ask |-> BufSize]}
                   ELSE pend
        /\ hdr' = [(IF arms THEN WithRef(hdr) ELSE hdr) EXCEPT
                     !.armed = @ \/ arms,
                     !.taken = IF arms /\ ~hdr.closed THEN @ + 1 ELSE @,
                     !.loose = @ \/ (arms /\ hdr.closed),
                     !.read_op = IF arms THEN MsId ELSE @, !.term = 1, !.waiting = TRUE]
  /\ Become(t, Parked(io[t]))
  /\ Suspends(t)
  /\ UNCHANGED <<fixed, mem, holds, net, cancels, cq, bufs, calls, faults, got>>

(***************************************************************************)
(* Accepting                                                               *)
(***************************************************************************)

Accept == {IF net.in # <<>> THEN 1 ELSE EAGAIN} \cup
          {e \in {EMFILE, ECONNABORTED} : net.in # <<>> /\ faults < MaxFaults}

\* async_accept(): accept4(), and an accept of the ring when it would block.
UringAccept(t) ==
  /\ Uring(t, {"async_accept"}) /\ io[t].pc = "go"
  /\ \E res \in Accept :
       /\ CountFault(res)
       /\ net' = Took(res)
       /\ got' = got \o First(res)
       /\ Become(t, CASE res = 1 -> Returned([io[t] EXCEPT !.total = 1], 1)
                      [] res = ECONNABORTED -> io[t]
                      [] res = EAGAIN -> [io[t] EXCEPT !.pc = "submit"]
                      [] OTHER -> Returned(io[t], FAILED))
  /\ UNCHANGED <<fixed, hdr, mem, holds, run, ready, pend, cancels, cq, bufs, calls>>

\* AcceptAwaiter.
SubmitAccept(t) ==
  /\ Uring(t, {"async_accept"}) /\ io[t].pc = "submit"
  /\ UNCHANGED hdr
  /\ Await(t, "accept", 1)

\* The accepted connection.
AcceptWoken(t) ==
  /\ Uring(t, {"async_accept"}) /\ io[t].pc = "woken"
  /\ got' = got \o io[t].data
  /\ Become(t, IF io[t].res < 0 THEN Returned(io[t], FAILED)
               ELSE Returned([io[t] EXCEPT !.total = 1], 1))
  /\ UNCHANGED <<fixed, hdr, mem, holds, run, ready, kernelvars, calls>>

\* MultishotAcceptAwaiter: armed again unless it still is, and left at once
\* with what is queued or has failed.
MultishotAcceptAwaiter(t) ==
  LET arms == ~io[t].armed /\ hdr.fd IN
  /\ Uring(t, {"async_accept_all"}) /\ io[t].pc = "go" /\ io[t].fds = <<>>
  /\ pend' = IF arms THEN Submitted(t, "accept_ms", 1) ELSE pend
  /\ IF io[t].res < 0
     THEN Become(t, [io[t] EXCEPT !.armed = @ \/ arms, !.pc = "woken"]) /\ UNCHANGED run
     ELSE Become(t, [io[t] EXCEPT !.armed = @ \/ arms, !.pc = "parked"]) /\ run' = None
  /\ UNCHANGED <<fixed, hdr, mem, holds, ready, net, cancels, cq, bufs, calls, faults, got>>

\* async_accept(F): queued connections first, each spawned on this worker; a
\* transient failure is retried, any other cancels the accept and returns.
UringAcceptAll(t) ==
  LET l == io[t] IN
  /\ Uring(t, {"async_accept_all"})
  /\ l.pc = "woken" \/ (l.pc = "go" /\ l.fds # <<>>)
  /\ got' = got \o SubSeq(l.fds, 1, Least(1, Len(l.fds)))
  /\ Become(t, CASE l.fds # <<>> -> [l EXCEPT !.pc = "go", !.fds = Tail(@), !.total = @ + 1]
                 [] l.fds = <<>> /\ l.res = ECONNABORTED -> [l EXCEPT !.pc = "go", !.res = 0]
                 [] OTHER -> Returned(l, FAILED))
  /\ cancels' = IF l.fds = <<>> /\ l.res # ECONNABORTED
                   /\ \E p \in pend : p.id = l.id
                THEN cancels \cup {l.id} ELSE cancels
  /\ UNCHANGED <<fixed, hdr, mem, holds, run, ready, net, pend, cq, bufs, calls, faults>>

(***************************************************************************)
(* Connecting.  io.total is 1 iff a timeout was given.                     *)
(***************************************************************************)

\* async_connect() up to the wait, or no address or no descriptor.  The
\* operation is not known to the header.
UringConnect(t) ==
  /\ Uring(t, {"async_connect"}) /\ io[t].pc = "go"
  /\ \/ /\ Become(t, Returned(io[t], FAILED))
        /\ UNCHANGED <<hdr, pend, run>>
     \/ \E timed \in BOOLEAN :
          /\ hdr' = [(IF timed THEN WithRef(hdr) ELSE hdr) EXCEPT
                       !.fd = TRUE, !.timer = timed]
          /\ pend' = Submitted(t, "connect", 1)
          /\ Become(t, [Parked(io[t]) EXCEPT !.total = IF timed THEN 1 ELSE 0])
          /\ run' = None
  /\ UNCHANGED <<fixed, mem, holds, ready, net, cancels, cq, bufs, calls, faults, got>>

\* After the wait: the timer and its reference go, whether it has fired or not.
UringConnectWoken(t) ==
  LET failed == io[t].res < 0 IN
  /\ Uring(t, {"async_connect"}) /\ io[t].pc = "woken"
  /\ hdr' = [hdr EXCEPT !.timer = FALSE, !.count = @ - io[t].total,
                        !.fd = @ /\ ~failed]
  /\ Become(t, Returned(io[t], CASE io[t].res = TIMEOUT -> TIMEOUT
                                [] failed /\ io[t].res # TIMEOUT -> FAILED
                                [] OTHER -> 1))
  /\ UNCHANGED <<fixed, mem, holds, run, ready, kernelvars, calls, got>>

(***************************************************************************)
(* The operations that do not wait, and async_sendfile(), which only goes  *)
(* round the worker's queue.                                               *)
(***************************************************************************)

UringSendfile(t) ==
  LET res == Send(MaxRead) IN
  /\ \/ Uring(t, {"async_sendfile"}) /\ io[t].pc = "woken"
     \/ Uring(t, {"sendfile"}) /\ io[t].pc = "go"
  /\ IF hdr.disconnected /\ io[t].op = "async_sendfile"
     THEN UNCHANGED <<net, hdr>> /\ Become(t, Returned(io[t], FAILED))
     ELSE /\ net' = Put(res)
          /\ hdr' = IF res = EAGAIN THEN [hdr EXCEPT !.closed = TRUE] ELSE hdr
          /\ Become(t, IF res < 0 THEN Returned(io[t], FAILED)
                       ELSE Returned([io[t] EXCEPT !.total = res], res))
  /\ UNCHANGED <<fixed, mem, holds, run, ready, pend, cancels, cq, bufs, calls, faults, got>>

SendFileAwaiter(t) ==
  /\ Uring(t, {"async_sendfile"}) /\ io[t].pc = "go"
  /\ Become(t, Parked(io[t]))
  /\ run' = None /\ ready' = Queued({t})
  /\ UNCHANGED <<fixed, hdr, mem, holds, kernelvars, calls, got>>

\* read(), and the second half of send(), receive(), which has no retries:
\* rounds of recv() until nothing more is there.
UringRead(t) ==
  LET l == io[t]
      res == Recv(MaxRead - l.total)
      more == [l EXCEPT !.total = @ + res, !.tries = 0]
  IN
  /\ \/ Uring(t, {"read"}) /\ l.pc = "go"
     \/ Uring(t, {"send"}) /\ l.pc = "receive"
  /\ \E r \in {res} \cup (IF l.op = "read" THEN Interrupted ELSE {}) :
       /\ CountFault(r)
       /\ net' = Took(r)
       /\ got' = got \o First(r)
       /\ Become(t, CASE r > 0 -> IF l.total + r = MaxRead THEN Returned(more, MaxRead)
                                  ELSE more
                      [] r \in {0, EAGAIN} -> Returned(l, l.total)
                      [] r = EINTR /\ l.tries + 1 < MaxRetries -> [l EXCEPT !.tries = @ + 1]
                      [] OTHER -> Returned(l, FAILED))
  /\ UNCHANGED <<fixed, hdr, mem, holds, run, ready, pend, cancels, cq, bufs, calls>>

\* write().
UringWrite(t) ==
  LET l == io[t]
      res == Send(MaxRead - l.total)
      more == [l EXCEPT !.total = @ + res, !.tries = 0]
  IN
  /\ Uring(t, {"write"}) /\ l.pc = "go"
  /\ \E r \in {res} \cup Interrupted :
       /\ CountFault(r)
       /\ net' = Put(r)
       /\ Become(t, CASE r > 0 -> IF l.total + r = MaxRead THEN Returned(more, MaxRead)
                                  ELSE more
                      [] r = EAGAIN -> Returned(l, l.total)
                      [] r = EINTR /\ l.tries + 1 < MaxRetries -> [l EXCEPT !.tries = @ + 1]
                      [] OTHER -> Returned(l, FAILED))
  /\ UNCHANGED <<fixed, hdr, mem, holds, run, ready, pend, cancels, cq, bufs, calls, got>>

\* send(): one send(), then receive().
UringSend(t) ==
  LET res == Send(MaxRead) IN
  /\ Uring(t, {"send"}) /\ io[t].pc = "go"
  /\ net' = Put(res)
  /\ Become(t, IF res < 0 THEN Returned(io[t], FAILED)
               ELSE [io[t] EXCEPT !.pc = "receive"])
  /\ UNCHANGED <<fixed, hdr, mem, holds, run, ready, pend, cancels, cq, bufs, calls, faults,
                 got>>

(***************************************************************************)
(* The timer and the end                                                   *)
(***************************************************************************)

\* set_timeout_ms(): an armed timer is only moved.
UringSetTimeout(t) ==
  /\ os = "uring" /\ Calling(t) /\ MaySetTimer
  /\ hdr' = IF hdr.timer THEN hdr ELSE [WithRef(hdr) EXCEPT !.timer = TRUE]
  /\ UNCHANGED <<mem, net, bufs>>

\* shutdown(): the timer goes with its reference.
UringShutdown(t) ==
  /\ os = "uring" /\ hdr.fd /\ Calling(t)
  /\ hdr' = [hdr EXCEPT !.timer = FALSE, !.disconnected = TRUE,
                        !.count = IF hdr.timer THEN @ - 1 ELSE @]
  /\ net' = [net EXCEPT !.shut = TRUE]
  /\ UNCHANGED <<mem, bufs>>

\* ~Socket().
UringDrop(t) ==
  /\ os = "uring" /\ Runs(t) /\ holds[t] /\ io[t].pc = "idle"
  /\ holds' = [holds EXCEPT ![t] = FALSE]
  /\ UringDestroyed([hdr EXCEPT !.count = @ - 1])
  /\ run' = None
  /\ UNCHANGED <<fixed, ready, io, pend, cancels, cq, calls, faults, got>>

\* Mutant: the timer resumes the coroutines itself, as on the reactor platforms.
UringTimeoutAndGo ==
  /\ os = "uring" /\ Idle /\ hdr.timer
  /\ proto = "connect" => ConnectTimers
  /\ UNCHANGED cancels
  /\ UringDestroyed([hdr EXCEPT !.timer = FALSE, !.count = @ - 1,
                                !.info = @ \cup {"TIMEOUT"}])
  /\ ready' = Queued(Waiter(hdr.read_op) \cup Waiter(hdr.write_op))
  /\ UNCHANGED <<fixed, holds, run, io, pend, cq, calls, faults, got>>

\* processSocketTimeout(): the operations the header knows are cancelled; their
\* completions resume the coroutines.
UringProcessSocketTimeout ==
  /\ os = "uring" /\ Idle /\ hdr.timer
  /\ proto = "connect" => ConnectTimers
  /\ cancels' = cancels \cup {p.id : p \in {q \in pend : q.id \in {hdr.read_op, hdr.write_op}}}
  /\ UringDestroyed([hdr EXCEPT !.timer = FALSE, !.count = @ - 1,
                                !.info = @ \cup {"TIMEOUT"}])
  /\ UNCHANGED <<fixed, holds, run, ready, io, pend, cq, calls, faults, got>>

UringStep(t) ==
  \/ FirstWrite(t) \/ SubmitSend(t) \/ UringAsyncWrite(t)
  \/ FirstRead(t) \/ SubmitRecv(t) \/ RecvWoken(t) \/ ReadRound(t) \/ MultishotRecvAwaiter(t)
  \/ UringAccept(t) \/ SubmitAccept(t) \/ AcceptWoken(t)
  \/ MultishotAcceptAwaiter(t) \/ UringAcceptAll(t)
  \/ UringConnect(t) \/ UringConnectWoken(t)
  \/ SendFileAwaiter(t) \/ UringSendfile(t) \/ UringRead(t) \/ UringWrite(t) \/ UringSend(t)
  \/ UringSetTimeout(t) \/ UringShutdown(t) \/ UringDrop(t)

UringLoop ==
  MultishotRecv \/ MultishotAccept \/ HandleCqe \/ UringProcessSocketTimeout
=============================================================================
