----------------------------- MODULE SocketLinux -----------------------------
(***************************************************************************)
(* The operations of Socket<> over epoll (net/SocketLinux.h) and the part  *)
(* of EPoller::poll() that wakes their coroutines.  An operation is a loop *)
(* around one non-blocking system call, its "probe"; a probe that would    *)
(* block leads to suspend_on() in SocketHeader.                            *)
(***************************************************************************)
EXTENDS SocketHeader

Probing(t, op) == os = "linux" /\ At(t, op, "probe")

\* The probe that returned res leaves the coroutine with the locals l.
After(t, res, l) ==
  /\ CountSignal(res)
  /\ Become(t, l)
  /\ UNCHANGED <<runtime, os, proto, mask, calls>>

\* The outcomes every TCP read has in common: the bytes so far are returned at
\* the end of the stream and when nothing more is there.
ReadTCP(l, res, ask) ==
  CASE res > 0 -> IF res < ask \/ l.total + res = MaxRead
                  THEN Returned(Plus(l, res), l.total + res) ELSE Plus(l, res)
    [] res = 0 -> Returned(l, l.total)
    [] res = EINTR -> IF OutOfTries(l) THEN Returned(l, FAILED) ELSE Retried(l)
    [] res = EAGAIN -> IF l.total > 0 THEN Returned(l, l.total) ELSE Parking(l)
    [] OTHER -> Returned(l, FAILED)

\* A datagram is read with one call; a failed call removes the socket.
ReadUDP(l, res) ==
  CASE res > 0 -> Returned(Plus(l, res), res)
    [] res = 0 -> Returned(l, 0)
    [] res = EINTR -> IF OutOfTries(l) THEN Returned(l, FAILED) ELSE Retried(l)
    [] res = EAGAIN -> Parking(l)
    [] OTHER -> Returned(l, FAILED)

RemovesUDP(l, res) == res < 0 /\ res # EAGAIN /\ (res = EINTR => OutOfTries(l))

\* Mutant: the end of the stream is reported and the bytes before it are not.
AsyncReadEofIsZero(t) ==
  LET ask == Least(Chunk, MaxRead - io[t].total) IN
  /\ Probing(t, "async_read") /\ proto # "udp"
  /\ \E res \in Recv(ask) :
       /\ net' = Received(res)
       /\ After(t, res, IF res = 0 THEN Returned(io[t], 0)
                                   ELSE ReadTCP(io[t], res, ask))
  /\ UNCHANGED hdr

\* async_read(DynamicBuffer&), TCP: pieces of at most 16384 bytes.
AsyncReadTCP(t) ==
  LET ask == Least(Chunk, MaxRead - io[t].total) IN
  /\ Probing(t, "async_read") /\ proto # "udp"
  /\ \E res \in Recv(ask) :
       net' = Received(res) /\ After(t, res, ReadTCP(io[t], res, ask))
  /\ UNCHANGED hdr

\* async_read(DynamicBuffer&), UDP.
AsyncReadUDP(t) ==
  /\ Probing(t, "async_read") /\ proto = "udp"
  /\ \E res \in Recv(1) :
       /\ net' = Received(res)
       /\ hdr' = IF RemovesUDP(io[t], res) THEN Removed ELSE hdr
       /\ After(t, res, ReadUDP(io[t], res))

\* async_read(uint8_t*), TCP: asks for all that is left.
AsyncReadRawTCP(t) ==
  LET ask == MaxRead - io[t].total IN
  /\ Probing(t, "async_read_raw") /\ proto # "udp"
  /\ \E res \in Recv(ask) :
       net' = Received(res) /\ After(t, res, ReadTCP(io[t], res, ask))
  /\ UNCHANGED hdr

\* async_read(uint8_t*), UDP.
AsyncReadRawUDP(t) ==
  /\ Probing(t, "async_read_raw") /\ proto = "udp"
  /\ \E res \in Recv(1) :
       /\ net' = Received(res)
       /\ hdr' = IF RemovesUDP(io[t], res) THEN Removed ELSE hdr
       /\ After(t, res, ReadUDP(io[t], res))

\* async_write(), TCP: goes on until everything is sent.
AsyncWriteTCP(t) ==
  LET l == io[t] IN
  /\ Probing(t, "async_write") /\ proto # "udp"
  /\ \E res \in Send(MaxRead - l.total) :
       /\ net' = Sent(res)
       /\ After(t, res,
            CASE res > 0 -> IF l.total + res = MaxRead
                            THEN Returned(Plus(l, res), MaxRead) ELSE Plus(l, res)
              [] res = EINTR -> IF OutOfTries(l) THEN Returned(l, FAILED) ELSE Retried(l)
              [] res = EAGAIN -> Parking(l)
              [] OTHER -> Returned(l, FAILED))
  /\ UNCHANGED hdr

\* async_write(), UDP: one datagram.
AsyncWriteUDP(t) ==
  LET l == io[t] IN
  /\ Probing(t, "async_write") /\ proto = "udp"
  /\ \E res \in Send(1) :
       /\ net' = Sent(res)
       /\ After(t, res,
            CASE res > 0 -> Returned(Plus(l, res), res)
              [] res = EINTR -> IF OutOfTries(l) THEN Returned(l, FAILED) ELSE Retried(l)
              [] res = EAGAIN -> Parking(l)
              [] OTHER -> Returned(l, FAILED))
  /\ UNCHANGED hdr

\* async_send(): a disconnected socket is not written to, and a failure
\* removes it.
AsyncSend(t) ==
  LET l == io[t] IN
  /\ Probing(t, "async_send")
  /\ IF hdr.disconnected
     THEN UNCHANGED <<hdr, net>> /\ After(t, 0, Returned(l, FAILED))
     ELSE \E res \in Send(MaxRead - l.total) :
            /\ net' = Sent(res)
            /\ hdr' = IF RemovesUDP(l, res) THEN Removed ELSE hdr
            /\ After(t, res,
                 CASE res > 0 -> IF l.total + res = MaxRead
                                 THEN Returned(Plus(l, res), MaxRead) ELSE Plus(l, res)
                   [] res = EINTR -> IF OutOfTries(l) THEN Returned(l, FAILED) ELSE Retried(l)
                   [] res = EAGAIN -> Parking(l)
                   [] OTHER -> Returned(l, FAILED))

\* async_sendfile(), after its wait: one call, and would-block removes the
\* socket.
AsyncSendfile(t) ==
  /\ Probing(t, "async_sendfile")
  /\ IF hdr.disconnected
     THEN UNCHANGED <<hdr, net>> /\ After(t, 0, Returned(io[t], FAILED))
     ELSE \E res \in Send(MaxRead) :
            /\ net' = Sent(res)
            /\ hdr' = IF res = EAGAIN THEN Removed ELSE hdr
            /\ After(t, res, IF res > 0 THEN Returned(Plus(io[t], res), res)
                                        ELSE Returned(io[t], FAILED))

\* sendfile(): the same without the wait.
Sendfile(t) ==
  /\ Probing(t, "sendfile")
  /\ \E res \in Send(MaxRead) :
       /\ net' = Sent(res)
       /\ hdr' = IF res = EAGAIN THEN Removed ELSE hdr
       /\ After(t, res, IF res > 0 THEN Returned(Plus(io[t], res), res)
                                   ELSE Returned(io[t], FAILED))

\* read(): what is there now.
ReadNow(t) ==
  LET l == io[t] IN
  /\ Probing(t, "read")
  /\ \E res \in Recv(MaxRead - l.total) :
       /\ net' = Received(res)
       /\ After(t, res,
            CASE res > 0 -> IF l.total + res = MaxRead
                            THEN Returned(Plus(l, res), MaxRead) ELSE Plus(l, res)
              [] res \in {0, EAGAIN} -> Returned(l, l.total)
              [] res = EINTR -> IF OutOfTries(l) THEN Returned(l, FAILED) ELSE Retried(l)
              [] OTHER -> Returned(l, FAILED))
  /\ UNCHANGED hdr

\* write(): what fits now.
WriteNow(t) ==
  LET l == io[t] IN
  /\ Probing(t, "write")
  /\ \E res \in Send(MaxRead - l.total) :
       /\ net' = Sent(res)
       /\ After(t, res,
            CASE res > 0 -> IF l.total + res = MaxRead
                            THEN Returned(Plus(l, res), MaxRead) ELSE Plus(l, res)
              [] res = EAGAIN -> Returned(l, l.total)
              [] res = EINTR -> IF OutOfTries(l) THEN Returned(l, FAILED) ELSE Retried(l)
              [] OTHER -> Returned(l, FAILED))
  /\ UNCHANGED hdr

\* send(): send_aux() once, and then receive() whatever is there.
SendNow(t) ==
  /\ Probing(t, "send")
  /\ \E res \in Send(MaxRead) :
       /\ net' = Sent(res)
       /\ After(t, res, IF res > 0 THEN [io[t] EXCEPT !.op = "receive"]
                                   ELSE Returned(io[t], FAILED))
  /\ UNCHANGED hdr

\* receive(): pieces until one is short; an interrupted call is an error.
Receive(t) ==
  LET l == io[t]
      ask == Least(Chunk, MaxRead - l.total) IN
  /\ Probing(t, "receive")
  /\ \E res \in Recv(ask) :
       /\ net' = Received(res)
       /\ After(t, res,
            CASE res > 0 -> IF res < ask \/ l.total + res = MaxRead
                            THEN Returned(Plus(l, res), l.total + res) ELSE Plus(l, res)
              [] res \in {0, EAGAIN} -> Returned(l, l.total)
              [] OTHER -> Returned(l, FAILED))
  /\ UNCHANGED hdr

\* accept4(): a connection, no descriptor left for it, or would-block.
AcceptResults ==
  IF net.in = 0 THEN Interrupted \cup {EAGAIN}
  ELSE {1} \cup (IF signals < MaxSignals THEN {EINTR, EMFILE} ELSE {})

CountFault(res) ==
  signals' = IF res \in {EINTR, EMFILE} THEN signals + 1 ELSE signals

\* async_accept(): one connection.  Without a descriptor it waits as if there
\* were no connection.
AsyncAccept(t) ==
  /\ Probing(t, "async_accept")
  /\ \E res \in AcceptResults :
       /\ net' = Received(res) /\ CountFault(res)
       /\ Become(t,
            CASE res = 1 -> Returned(Plus(io[t], 1), 1)
              [] res = EINTR -> Plus(io[t], 0)
              [] OTHER -> [Parking(io[t]) EXCEPT !.value = res])
  /\ UNCHANGED <<runtime, os, proto, hdr, mask, calls>>

\* async_accept(on_accept): every connection is handed over until none is left.
AsyncAcceptAll(t) ==
  /\ Probing(t, "async_accept_all")
  /\ \E res \in AcceptResults :
       /\ net' = Received(res) /\ CountFault(res)
       /\ Become(t,
            CASE res = 1 -> Plus(io[t], 1)
              [] res = EINTR -> Plus(io[t], 0)
              [] OTHER -> [Parking(io[t]) EXCEPT !.value = res])
  /\ UNCHANGED <<runtime, os, proto, hdr, mask, calls>>

\* After a co_await: a cancelled operation gives up (async_send() removes the
\* socket), the others probe again.
Woken(t) ==
  LET l == io[t] IN
  /\ os = "linux" /\ Runs(t) /\ l.pc = "woken" /\ l.op # "async_connect"
  /\ hdr' = IF requested[t] /\ l.op = "async_send" THEN Removed ELSE hdr
  /\ Become(t,
       IF requested[t] THEN Returned(l, FAILED)
       ELSE [l EXCEPT !.value = 0,
                      !.pc = IF l.op = "async_sendfile" THEN "probe" ELSE "disarm"])
  /\ UNCHANGED <<runtime, os, proto, net, mask, calls, signals>>

LinuxOp(t) ==
  \/ AsyncReadTCP(t) \/ AsyncReadUDP(t) \/ AsyncReadRawTCP(t) \/ AsyncReadRawUDP(t)
  \/ AsyncWriteTCP(t) \/ AsyncWriteUDP(t) \/ AsyncSend(t) \/ AsyncSendfile(t) \/ Sendfile(t)
  \/ ReadNow(t) \/ WriteNow(t) \/ SendNow(t) \/ Receive(t)
  \/ AsyncAccept(t) \/ AsyncAcceptAll(t) \/ Woken(t)

(***************************************************************************)
(* EPoller                                                                 *)
(***************************************************************************)

\* epoll_wait() reports what is ready now for a descriptor that had an edge,
\* and forgets the edge.  A hang-up marks the socket.
EpollWait ==
  LET hup == Hup /\ proto # "listener" IN
  /\ os = "linux" /\ running[Owner] = None /\ mask = {}
  /\ hdr.fd /\ net.edge # {}
  /\ net' = [net EXCEPT !.edge = {}]
  /\ mask' = {e \in {"IN", "OUT", "HUP"} :
                CASE e = "IN" -> Readable
                  [] e = "OUT" -> Writable
                  [] e = "HUP" -> hup}
  /\ hdr' = [hdr EXCEPT !.disconnected = @ \/ hup]
  /\ UNCHANGED <<runtime, os, proto, io, calls, signals>>

\* After a hang-up the descriptor is closed.
PollHup ==
  /\ mask = {"HUP"}
  /\ mask' = {}
  /\ hdr' = [hdr EXCEPT !.fd = FALSE]
  /\ UNCHANGED <<runtime, os, proto, net, io, calls, signals>>

=============================================================================
