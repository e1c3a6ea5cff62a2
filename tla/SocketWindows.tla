---------------------------- MODULE SocketWindows ----------------------------
(***************************************************************************)
(* Socket<> over IOCP (net/SocketWindows.h) and IocpPoller.                *)
(*                                                                         *)
(* An overlapped operation is in the coroutine's frame.  The coroutine     *)
(* parks on the header's read or write word, as on the reactor platforms,  *)
(* and the poller, given the header and the operation of a packet, stores  *)
(* the number of bytes in the operation and fires the word.  An operation  *)
(* that succeeds at once queues its packet all the same: the port is not   *)
(* told to skip it.                                                        *)
(***************************************************************************)
EXTENDS CompletionIO

Windows(t, ops) == os = "iocp" /\ Runs(t) /\ io[t].op \in ops

Word(op) == IF op \in WriteOps THEN "wr" ELSE "rd"

handle_of(w) == {w} \cap Tasks

\* remove(): the descriptor is closed and no new reference taken.
Removed(h) == [h EXCEPT !.fd = FALSE, !.closed = TRUE]

(***************************************************************************)
(* Giving an operation to the kernel                                       *)
(***************************************************************************)

\* The operation is pending; the coroutine goes on to park.
Pends(t, kind, ask) ==
  /\ pend' = Submitted(t, kind, ask)
  /\ Become(t, [io[t] EXCEPT !.pc = "park"])
  /\ UNCHANGED <<fixed, hdr, mem, holds, run, ready, net, cancels, cq, bufs, calls, faults,
                 got>>

\* The operation succeeds at once with n bytes: its packet is queued.
AtOnce(t, kind, n) ==
  /\ cq' = Append(cq, Completion([id |-> io[t].id, kind |-> kind], n, <<>>, FALSE))
  /\ UNCHANGED <<fixed, mem, holds, run, ready, pend, cancels, bufs, calls, faults>>

\* AwaiterRead, AwaiterWrite: park() on the word, or go on at once with the hint
\* an earlier packet left in it (nobody disarms the word here).
Park(t) ==
  LET w == Word(io[t].op) IN
  /\ os = "iocp" /\ Runs(t) /\ io[t].pc = "park"
  /\ hdr' = [hdr EXCEPT ![w] = IF @ = READY THEN EMPTY ELSE t,
                        !.loose = @ \/ hdr[w] = READY]
  /\ ready' = IF hdr[w] = READY THEN Queued({t}) ELSE ready
  /\ run' = None
  /\ Become(t, Parked(io[t]))
  /\ UNCHANGED <<fixed, mem, holds, kernelvars, calls, got>>

(***************************************************************************)
(* IocpPoller::poll(), one packet                                          *)
(***************************************************************************)

\* The operations a packet's bytes may be stored in: its own, or, when that is
\* gone, whatever has its memory now.
Target(c) ==
  LET own == {t \in Tasks : io[t].id = c.id} IN
  IF own # {} THEN {own} ELSE {{}} \cup {{t} : t \in {u \in Tasks : io[u].id # NoId}}

Bytes(c) == IF c.kind \in {"recv", "send"} /\ c.res > 0 THEN c.res ELSE 0

\* fire_read(), fire_write().
FiredWord(h, w) == [h EXCEPT ![w] = READY]

\* A pending connection is decided here, from SO_ERROR.
Decided(c) ==
  IF c.kind \in {"recv", "accept"} \/ "CONNECTION_PENDING" \notin hdr.info THEN hdr.info
  ELSE (hdr.info \ {"CONNECTION_PENDING"}) \cup
       {e \in {"CONNECTION_FAILED"} : hdr.fd /\ (net.err \/ c.res = ECONNRESET)}

HandlePacket ==
  LET c == Head(cq)
      w == IF c.kind \in {"recv", "accept"} THEN "rd" ELSE "wr"
      hup == Bytes(c) = 0 /\ c.kind \in {"recv", "send"}
  IN
  /\ os = "iocp" /\ Idle /\ cq # <<>>
  /\ cq' = Tail(cq)
  /\ IF mem = "freed" THEN UNCHANGED <<hdr, ready, io>>
     ELSE /\ \E ts \in Target(c) :
               io' = [t \in Tasks |-> IF t \in ts
                        THEN [io[t] EXCEPT !.res = Bytes(c), !.data = c.data] ELSE io[t]]
          /\ hdr' = [FiredWord(hdr, w) EXCEPT
                       !.info = Decided(c), !.disconnected = @ \/ hup, !.fd = @ /\ ~hup]
          /\ ready' = Queued(handle_of(hdr[w]))
  /\ UNCHANGED <<fixed, mem, holds, run, net, pend, cancels, bufs, calls, faults, got>>

(***************************************************************************)
(* TCP                                                                     *)
(***************************************************************************)

\* async_read() up to the wait: WSARecv() fails, succeeds at once or is pending.
WindowsRead(t) ==
  LET n == Recv(MaxRead)
      l == io[t]
  IN
  /\ Windows(t, {"async_read", "async_read_raw"}) /\ l.pc = "go" /\ proto # "udp"
  /\ \/ /\ n \in {EBADF, ECONNRESET}
        /\ hdr' = Removed(hdr)
        /\ Become(t, Returned(l, FAILED))
        /\ UNCHANGED <<fixed, mem, holds, run, ready, kernelvars, calls, got>>
     \/ /\ n >= 0
        /\ net' = Took(n) /\ got' = got \o First(n)
        /\ hdr' = [(IF n = 0 THEN Removed(hdr) ELSE hdr) EXCEPT !.loose = TRUE]
        /\ Become(t, Returned([l EXCEPT !.total = n], n))
        /\ AtOnce(t, "recv", n)
     \/ n \notin {EBADF, ECONNRESET} /\ Pends(t, "recv", MaxRead)

\* async_read() after the wait.
WindowsReadWoken(t) ==
  LET l == io[t] IN
  /\ Windows(t, {"async_read", "async_read_raw"}) /\ l.pc = "woken"
  /\ hdr' = [(IF hdr.fd /\ l.res = 0 THEN Removed(hdr) ELSE hdr) EXCEPT
               !.loose = @ \/ \E p \in pend : p.id = l.id]
  /\ got' = IF hdr.fd THEN got \o l.data ELSE got
  /\ Become(t, IF hdr.fd THEN Returned([l EXCEPT !.total = Len(l.data)], l.res)
               ELSE Returned(l, FAILED))
  /\ UNCHANGED <<fixed, mem, holds, run, ready, kernelvars, calls>>

\* One WSASend() of async_write().
WindowsWrite(t) ==
  LET l == io[t]
      n == Send(MaxRead - l.total)
      sum == l.total + n
  IN
  /\ Windows(t, {"async_write"}) /\ l.pc = "go" /\ proto # "udp"
  /\ \/ /\ n \in {EBADF, ECONNRESET}
        /\ Become(t, Returned(l, FAILED))
        /\ UNCHANGED <<fixed, hdr, mem, holds, run, ready, kernelvars, calls, got>>
     \/ /\ n > 0
        /\ net' = Put(n)
        /\ hdr' = [hdr EXCEPT !.loose = TRUE]
        /\ Become(t, IF sum < MaxRead THEN [l EXCEPT !.total = sum]
                     ELSE Returned([l EXCEPT !.total = sum], sum))
        /\ UNCHANGED got
        /\ AtOnce(t, "send", n)
     \/ n \notin {EBADF, ECONNRESET} /\ Pends(t, "send", MaxRead - l.total)

\* async_write() after the wait.
WindowsWriteWoken(t) ==
  LET l == io[t]
      sum == l.total + l.res
  IN
  /\ Windows(t, {"async_write"}) /\ l.pc = "woken"
  /\ hdr' = [hdr EXCEPT !.loose = @ \/ \E p \in pend : p.id = l.id]
  /\ Become(t, CASE ~hdr.fd \/ l.res = 0 -> Returned(l, FAILED)
                 [] hdr.fd /\ l.res > 0 /\ sum < MaxRead -> [l EXCEPT !.total = sum, !.pc = "go"]
                 [] OTHER -> Returned([l EXCEPT !.total = sum], sum))
  /\ UNCHANGED <<fixed, mem, holds, run, ready, kernelvars, calls, got>>

\* async_send(): send() until it would block, then a wait nothing is posted
\* for.
WindowsAsyncSend(t) ==
  LET l == io[t]
      n == Send(MaxRead - l.total)
  IN
  /\ Windows(t, {"async_send"}) /\ l.pc \in {"go", "woken"}
  /\ IF hdr.disconnected
     THEN /\ Become(t, Returned(l, FAILED))
          /\ UNCHANGED <<hdr, net, faults>>
     ELSE \E r \in {n} \cup Interrupted :
          /\ CountFault(r)
          /\ net' = Put(r)
          /\ hdr' = IF r \in {EBADF, ECONNRESET} \/ (r = EINTR /\ l.tries + 1 >= MaxRetries)
                    THEN Removed(hdr) ELSE hdr
          /\ Become(t,
               CASE r > 0 -> IF l.total + r = MaxRead
                             THEN Returned([l EXCEPT !.total = MaxRead], MaxRead)
                             ELSE [l EXCEPT !.pc = "go", !.total = @ + r, !.tries = 0]
                 [] r = EAGAIN -> [l EXCEPT !.pc = "park"]
                 [] r = EINTR /\ l.tries + 1 < MaxRetries ->
                      [l EXCEPT !.pc = "go", !.tries = @ + 1]
                 [] OTHER -> Returned(l, FAILED))
  /\ UNCHANGED <<fixed, mem, holds, run, ready, pend, cancels, cq, bufs, calls, got>>

\* async_sendfile(): waits first, then TransmitFile(), which blocks the worker.
WindowsAsyncSendfile(t) ==
  LET l == io[t]
      n == Send(MaxRead)
  IN
  /\ Windows(t, {"async_sendfile"})
  /\ IF l.pc = "go"
     THEN Become(t, [l EXCEPT !.pc = "park"]) /\ UNCHANGED <<net, cq>>
     ELSE /\ l.pc = "woken"
          /\ IF hdr.disconnected \/ n < 0
             THEN Become(t, Returned(l, FAILED)) /\ UNCHANGED <<net, cq>>
             ELSE /\ Become(t, Returned([l EXCEPT !.total = n], n))
                  /\ net' = Put(n)
                  /\ cq' = Append(cq, Completion([id |-> l.id, kind |-> "send"], n, <<>>,
                                                 FALSE))
  /\ hdr' = [hdr EXCEPT !.loose = @ \/ cq' # cq]
  /\ UNCHANGED <<fixed, mem, holds, run, ready, pend, cancels, bufs, calls, faults, got>>

(***************************************************************************)
(* Accepting                                                               *)
(***************************************************************************)

AcceptOps == {"async_accept", "async_accept_all"}

\* A connection is handed out; async_accept(F) goes on with the next, in an
\* operation of its own.
Accepted(l) ==
  IF l.op = "async_accept_all" THEN [l EXCEPT !.pc = "go", !.total = @ + 1, !.res = 0,
                                              !.data = <<>>, !.id = @ + MaxCalls]
  ELSE Returned([l EXCEPT !.total = 1], 1)

\* AcceptEx(), up to the wait.
WindowsAccept(t) ==
  LET l == io[t] IN
  /\ Windows(t, AcceptOps) /\ l.pc = "go"
  /\ \/ /\ faults < MaxFaults
        /\ CountFault(EMFILE)
        /\ Become(t, Returned(l, FAILED))
        /\ UNCHANGED <<fixed, hdr, mem, holds, run, ready, net, pend, cancels, cq, bufs,
                       calls, got>>
     \/ /\ net.in # <<>>
        /\ net' = Took(1) /\ got' = got \o First(1)
        /\ hdr' = [hdr EXCEPT !.loose = TRUE]
        /\ Become(t, Accepted(l))
        /\ AtOnce(t, "accept", 1)
     \/ Pends(t, "accept", 1)

\* After the wait: WSAGetOverlappedResult() says whether it was this accept
\* that completed.
WindowsAcceptWoken(t) ==
  LET l == io[t]
      over == \A p \in pend : p.id # l.id
      ok == over /\ l.data # <<>>
  IN
  /\ Windows(t, AcceptOps) /\ l.pc = "woken"
  /\ got' = IF ok THEN got \o l.data ELSE got
  /\ hdr' = [hdr EXCEPT !.loose = @ \/ ~over]
  /\ Become(t, IF ok THEN Accepted(l) ELSE Returned(l, FAILED))
  /\ UNCHANGED <<fixed, mem, holds, run, ready, kernelvars, calls>>

(***************************************************************************)
(* Connecting.  io.total is 1 iff a timeout was given.                     *)
(***************************************************************************)

\* async_connect(), up to the wait: the timer is set before the operation.
WindowsConnect(t) ==
  /\ Windows(t, {"async_connect"}) /\ io[t].pc = "go"
  /\ \/ /\ Become(t, Returned(io[t], FAILED))
        /\ UNCHANGED <<hdr, pend>>
     \/ \E timed \in BOOLEAN, starts \in BOOLEAN :
          /\ hdr' = [(IF timed THEN WithRef(hdr) ELSE hdr) EXCEPT
                       !.fd = starts, !.timer = timed]
          /\ pend' = IF starts THEN Submitted(t, "connect", 1) ELSE pend
          /\ Become(t, IF starts THEN [io[t] EXCEPT !.pc = "park",
                                                    !.total = IF timed THEN 1 ELSE 0]
                       ELSE Returned(io[t], FAILED))
  /\ UNCHANGED <<fixed, mem, holds, run, ready, net, cancels, cq, bufs, calls, faults, got>>

\* async_connect() after the wait: a failure is called a timeout when there was
\* one, and leaves the timer; a descriptor the timer has closed is a failure.
WindowsConnectFailed(t) ==
  LET l == io[t]
      failed == "CONNECTION_FAILED" \in hdr.info
  IN
  /\ Windows(t, {"async_connect"}) /\ l.pc = "woken"
  /\ failed \/ ~hdr.fd
  /\ hdr' = [hdr EXCEPT !.fd = FALSE, !.loose = @ \/ \E p \in pend : p.id = l.id]
  /\ Become(t, Returned(l, IF failed /\ l.total = 1 THEN TIMEOUT ELSE FAILED))
  /\ UNCHANGED <<fixed, mem, holds, run, ready, kernelvars, calls, got>>

Connected(t) ==
  /\ Windows(t, {"async_connect"}) /\ io[t].pc = "woken"
  /\ "CONNECTION_FAILED" \notin hdr.info /\ hdr.fd
  /\ Become(t, Returned(io[t], 1))
  /\ UNCHANGED <<fixed, mem, holds, run, ready, kernelvars, calls, got>>

\* Connected: the lvalue overload drops the timer with its reference, the other
\* one moves it.
WindowsConnectedLvalue(t) ==
  Connected(t) /\ hdr' = [hdr EXCEPT !.timer = FALSE, !.count = @ - io[t].total]

WindowsConnectedRvalue(t) == Connected(t) /\ UNCHANGED hdr

(***************************************************************************)
(* Calls that do not wait                                                  *)
(***************************************************************************)

\* A round of recv(): read(), receive() in send(), and the UDP reads, which
\* remove the socket when they fail and return 0 when nothing is there.
WindowsRecvRound(t) ==
  LET l == io[t]
      raw == l.op = "async_read_raw"
      n == Recv(IF raw THEN MaxRead ELSE MaxRead - l.total)
      more == [l EXCEPT !.total = @ + n, !.tries = 0]
  IN
  /\ \/ Windows(t, {"read"}) /\ l.pc = "go"
     \/ Windows(t, {"send"}) /\ l.pc = "receive"
     \/ Windows(t, {"async_read", "async_read_raw"}) /\ l.pc = "go" /\ proto = "udp"
  /\ \E r \in {n} \cup (IF l.op = "send" THEN {} ELSE Interrupted) :
       /\ CountFault(r)
       /\ net' = Took(r)
       /\ got' = got \o First(r)
       /\ LET gives_up == r < 0 /\ r # EAGAIN /\ ~(r = EINTR /\ l.tries + 1 < MaxRetries)
          IN /\ hdr' = IF proto = "udp" /\ (gives_up \/ (r = 0 /\ ~raw))
                       THEN Removed(hdr) ELSE hdr
             /\ Become(t,
                  CASE gives_up -> Returned(l, FAILED)
                    [] r > 0 -> IF raw \/ l.total + r = MaxRead
                                THEN Returned(more, more.total) ELSE more
                    [] r \in {0, EAGAIN} -> Returned(l, l.total)
                    [] OTHER -> [l EXCEPT !.tries = @ + 1])
  /\ UNCHANGED <<fixed, mem, holds, run, ready, pend, cancels, cq, bufs, calls>>

\* A round of send(): write(), the UDP async_write(), which sends once, and the
\* first half of send().
WindowsSendRound(t) ==
  LET l == io[t]
      n == Send(MaxRead - l.total)
      more == [l EXCEPT !.total = @ + n, !.tries = 0]
      once == l.op # "write"
  IN
  /\ \/ Windows(t, {"write", "send", "sendfile"}) /\ l.pc = "go"
     \/ Windows(t, {"async_write"}) /\ l.pc = "go" /\ proto = "udp"
  /\ \E r \in {n} \cup (IF l.op \in {"send", "sendfile"} THEN {} ELSE Interrupted) :
       /\ CountFault(r)
       /\ net' = Put(r)
       /\ Become(t,
            CASE r > 0 /\ l.op = "send" -> [l EXCEPT !.pc = "receive"]
              [] r > 0 /\ l.op # "send" -> IF once \/ l.total + r = MaxRead
                                           THEN Returned(more, more.total) ELSE more
              [] r = EAGAIN /\ l.op \notin {"send", "sendfile"} -> Returned(l, l.total)
              [] r = EINTR /\ l.tries + 1 < MaxRetries -> [l EXCEPT !.tries = @ + 1]
              [] OTHER -> Returned(l, FAILED))
  /\ UNCHANGED <<fixed, hdr, mem, holds, run, ready, pend, cancels, cq, bufs, calls, got>>

(***************************************************************************)
(* The timer and the end                                                   *)
(***************************************************************************)

\* destroy(), when the last reference goes.
WindowsDestroyed(h) ==
  IF h.count > 0 THEN hdr' = h /\ UNCHANGED mem
  ELSE /\ hdr' = [h EXCEPT !.timer = FALSE, !.closed = TRUE, !.fd = FALSE]
       /\ mem' = "q_sh"

\* set_timeout_ms(): an armed timer is only moved.
WindowsSetTimeout(t) ==
  /\ os = "iocp" /\ Calling(t) /\ MaySetTimer
  /\ hdr' = IF hdr.timer THEN hdr ELSE [WithRef(hdr) EXCEPT !.timer = TRUE]
  /\ UNCHANGED <<mem, net, bufs>>

\* Mutant: the timer goes, its reference stays.
WindowsShutdownKeepsRef(t) ==
  /\ os = "iocp" /\ Calling(t)
  /\ hdr' = [hdr EXCEPT !.timer = FALSE]
  /\ net' = [net EXCEPT !.shut = @ \/ hdr.fd]
  /\ UNCHANGED <<mem, bufs>>

\* shutdown(): the timer goes with its reference.
WindowsShutdown(t) ==
  /\ os = "iocp" /\ Calling(t)
  /\ hdr' = [hdr EXCEPT !.timer = FALSE, !.count = IF hdr.timer THEN @ - 1 ELSE @]
  /\ net' = [net EXCEPT !.shut = @ \/ hdr.fd]
  /\ UNCHANGED <<mem, bufs>>

\* ~Socket().
WindowsDrop(t) ==
  /\ os = "iocp" /\ Runs(t) /\ holds[t] /\ io[t].pc = "idle"
  /\ holds' = [holds EXCEPT ![t] = FALSE]
  /\ WindowsDestroyed([hdr EXCEPT !.count = @ - 1])
  /\ run' = None
  /\ UNCHANGED <<fixed, ready, io, kernelvars, calls, got>>

\* processSocketTimeout(): both waiters are taken and resumed, the descriptor
\* is closed under whatever is pending.
WindowsProcessSocketTimeout ==
  /\ os = "iocp" /\ Idle /\ hdr.timer
  /\ proto = "connect" => ConnectTimers
  /\ WindowsDestroyed([hdr EXCEPT !.timer = FALSE, !.rd = EMPTY, !.wr = EMPTY, !.fd = FALSE,
                                  !.info = @ \cup {"TIMEOUT"}, !.count = @ - 1,
                                  !.loose = TRUE])
  /\ ready' = Queued(handle_of(hdr.rd) \cup handle_of(hdr.wr))
  /\ UNCHANGED <<fixed, holds, run, io, kernelvars, calls, got>>

WindowsStep(t) ==
  \/ Park(t) \/ WindowsRead(t) \/ WindowsReadWoken(t) \/ WindowsWrite(t)
  \/ WindowsWriteWoken(t) \/ WindowsAsyncSend(t) \/ WindowsAsyncSendfile(t)
  \/ WindowsAccept(t) \/ WindowsAcceptWoken(t) \/ WindowsConnect(t)
  \/ WindowsConnectFailed(t) \/ WindowsConnectedLvalue(t)
  \/ WindowsConnectedRvalue(t) \/ WindowsRecvRound(t) \/ WindowsSendRound(t)
  \/ WindowsSetTimeout(t) \/ WindowsShutdown(t) \/ WindowsDrop(t)

WindowsLoop == HandlePacket \/ WindowsProcessSocketTimeout
=============================================================================
