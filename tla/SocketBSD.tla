------------------------------ MODULE SocketBSD ------------------------------
(***************************************************************************)
(* The operations of Socket<> over kqueue (net/SocketBSD.h) and the part   *)
(* of KQueuePoller::poll() that wakes their coroutines.  Nothing is        *)
(* forwarded between workers here and a parked coroutine has no cancel     *)
(* hook; the operations look at the descriptor themselves, because a       *)
(* removed socket has none.                                                *)
(***************************************************************************)
EXTENDS SocketHeader

OnBSD(t, op) == os = "bsd" /\ At(t, op, "probe")

\* One round of an operation's loop ends with the locals l.
Round1(t, res, l) ==
  /\ CountSignal(res)
  /\ Become(t, l)
  /\ UNCHANGED <<runtime, os, proto, mask, calls>>

\* Whether a failed or finished TCP read removes the socket.
Removes(l, res) ==
  res = 0 \/ (res < 0 /\ res # EAGAIN /\ (res = EINTR => OutOfTries(l)))

\* A TCP read goes on after a short piece; the end of the stream is reported
\* as 0 whatever was read before it, and removes the socket.
BSDReadTCP(l, res) ==
  CASE res > 0 -> IF l.total + res = MaxRead
                  THEN Returned(Plus(l, res), MaxRead) ELSE Plus(l, res)
    [] res = 0 -> Returned(l, 0)
    [] res = EINTR -> IF OutOfTries(l) THEN Returned(l, FAILED) ELSE Retried(l)
    [] res = EAGAIN -> IF l.total > 0 THEN Returned(l, l.total) ELSE Parking(l)
    [] OTHER -> Returned(l, FAILED)

\* async_read(DynamicBuffer&), TCP.
BSDAsyncReadTCP(t) ==
  LET l == io[t] IN
  /\ OnBSD(t, "async_read") /\ proto # "udp"
  /\ IF ~hdr.fd
     THEN /\ UNCHANGED <<hdr, net>>
          /\ Round1(t, 0, Returned(l, IF l.total > 0 THEN l.total ELSE FAILED))
     ELSE \E res \in Recv(Least(Chunk, MaxRead - l.total)) :
            /\ net' = Received(res)
            /\ hdr' = IF Removes(l, res) THEN Removed ELSE hdr
            /\ Round1(t, res, BSDReadTCP(l, res))

\* async_read(uint8_t*), TCP.
BSDAsyncReadRawTCP(t) ==
  LET l == io[t] IN
  /\ OnBSD(t, "async_read_raw") /\ proto # "udp"
  /\ IF ~hdr.fd
     THEN /\ UNCHANGED <<hdr, net>>
          /\ Round1(t, 0, Returned(l, IF l.total > 0 THEN l.total ELSE FAILED))
     ELSE \E res \in Recv(MaxRead - l.total) :
            /\ net' = Received(res)
            /\ hdr' = IF Removes(l, res) THEN Removed ELSE hdr
            /\ Round1(t, res, BSDReadTCP(l, res))

\* One datagram: an error removes the socket, a datagram of no bytes does not.
BSDReadDatagram(t) ==
  LET l == io[t] IN
  \E res \in Recv(1) :
    /\ net' = Received(res)
    /\ hdr' = IF res # 0 /\ hdr.fd /\ Removes(l, res) THEN Removed ELSE hdr
    /\ Round1(t, res,
         CASE res > 0 -> Returned(Plus(l, res), res)
           [] res = 0 -> Returned(l, 0)
           [] res = EINTR -> IF OutOfTries(l) THEN Returned(l, FAILED) ELSE Retried(l)
           [] res = EAGAIN -> Parking(l)
           [] OTHER -> Returned(l, FAILED))

\* async_read(DynamicBuffer&), UDP.
BSDAsyncReadUDP(t) ==
  OnBSD(t, "async_read") /\ proto = "udp" /\ BSDReadDatagram(t)

\* async_read(uint8_t*), UDP.
BSDAsyncReadRawUDP(t) ==
  OnBSD(t, "async_read_raw") /\ proto = "udp" /\ BSDReadDatagram(t)

\* async_write(), TCP.
BSDAsyncWriteTCP(t) ==
  LET l == io[t] IN
  /\ OnBSD(t, "async_write") /\ proto # "udp"
  /\ \E res \in Send(MaxRead - l.total) :
       /\ net' = Sent(res)
       /\ Round1(t, res,
            CASE res > 0 -> IF l.total + res = MaxRead
                            THEN Returned(Plus(l, res), MaxRead) ELSE Plus(l, res)
              [] res = EINTR -> IF OutOfTries(l) THEN Returned(l, FAILED) ELSE Retried(l)
              [] res = EAGAIN -> Parking(l)
              [] OTHER -> Returned(l, FAILED))
  /\ UNCHANGED hdr

\* async_write(), UDP: a datagram that does not fit now is not sent at all.
BSDAsyncWriteUDP(t) ==
  LET l == io[t] IN
  /\ OnBSD(t, "async_write") /\ proto = "udp"
  /\ \E res \in Send(1) :
       /\ net' = Sent(res)
       /\ Round1(t, res,
            CASE res > 0 -> Returned(Plus(l, res), res)
              [] res = EINTR -> IF OutOfTries(l) THEN Returned(l, FAILED) ELSE Retried(l)
              [] res = EAGAIN -> Returned(l, 0)
              [] OTHER -> Returned(l, FAILED))
  /\ UNCHANGED hdr

\* async_send().
BSDAsyncSend(t) ==
  LET l == io[t] IN
  /\ OnBSD(t, "async_send")
  /\ IF hdr.disconnected
     THEN UNCHANGED <<hdr, net>> /\ Round1(t, 0, Returned(l, FAILED))
     ELSE \E res \in Send(MaxRead - l.total) :
            /\ net' = Sent(res)
            /\ hdr' = IF Removes(l, res) THEN Removed ELSE hdr
            /\ Round1(t, res,
                 CASE res > 0 -> IF l.total + res = MaxRead
                                 THEN Returned(Plus(l, res), MaxRead) ELSE Plus(l, res)
                   [] res = EINTR -> IF OutOfTries(l) THEN Returned(l, FAILED) ELSE Retried(l)
                   [] res = EAGAIN -> Parking(l)
                   [] OTHER -> Returned(l, FAILED))

\* async_sendfile(), after its wait.
BSDAsyncSendfile(t) ==
  /\ OnBSD(t, "async_sendfile")
  /\ IF hdr.disconnected
     THEN net' = net /\ Round1(t, 0, Returned(io[t], FAILED))
     ELSE \E res \in Send(MaxRead) :
            /\ net' = Sent(res)
            /\ Round1(t, res, IF res > 0 THEN Returned(Plus(io[t], res), res)
                                         ELSE Returned(io[t], FAILED))
  /\ UNCHANGED hdr

\* read(): what is there now.
BSDReadNow(t) ==
  LET l == io[t] IN
  /\ OnBSD(t, "read")
  /\ \E res \in Recv(MaxRead - l.total) :
       /\ net' = Received(res)
       /\ Round1(t, res,
            CASE res > 0 -> IF l.total + res = MaxRead
                            THEN Returned(Plus(l, res), MaxRead) ELSE Plus(l, res)
              [] res \in {0, EAGAIN} -> Returned(l, l.total)
              [] res = EINTR -> IF OutOfTries(l) THEN Returned(l, FAILED) ELSE Retried(l)
              [] OTHER -> Returned(l, FAILED))
  /\ UNCHANGED hdr

\* write(): what fits now.
BSDWriteNow(t) ==
  LET l == io[t] IN
  /\ OnBSD(t, "write")
  /\ \E res \in Send(MaxRead - l.total) :
       /\ net' = Sent(res)
       /\ Round1(t, res,
            CASE res > 0 -> IF l.total + res = MaxRead
                            THEN Returned(Plus(l, res), MaxRead) ELSE Plus(l, res)
              [] res = EAGAIN -> Returned(l, l.total)
              [] res = EINTR -> IF OutOfTries(l) THEN Returned(l, FAILED) ELSE Retried(l)
              [] OTHER -> Returned(l, FAILED))
  /\ UNCHANGED hdr

\* send(): send_aux() once, and then receive() whatever is there.
BSDSendNow(t) ==
  /\ OnBSD(t, "send")
  /\ \E res \in Send(MaxRead) :
       /\ net' = Sent(res)
       /\ Round1(t, res, IF res > 0 THEN [io[t] EXCEPT !.op = "receive"]
                                    ELSE Returned(io[t], FAILED))
  /\ UNCHANGED hdr

\* receive(): pieces until one is short.
BSDReceive(t) ==
  LET l == io[t]
      ask == Least(Chunk, MaxRead - l.total) IN
  /\ OnBSD(t, "receive")
  /\ \E res \in Recv(ask) :
       /\ net' = Received(res)
       /\ Round1(t, res,
            CASE res > 0 -> IF res < ask \/ l.total + res = MaxRead
                            THEN Returned(Plus(l, res), l.total + res) ELSE Plus(l, res)
              [] res \in {0, EAGAIN} -> Returned(l, l.total)
              [] OTHER -> Returned(l, FAILED))
  /\ UNCHANGED hdr

\* sendfile(): any failure removes the socket.
BSDSendfile(t) ==
  /\ OnBSD(t, "sendfile")
  /\ \E res \in Send(MaxRead) :
       /\ net' = Sent(res)
       /\ hdr' = IF res < 0 THEN Removed ELSE hdr
       /\ Round1(t, res, IF res > 0 THEN Returned(Plus(io[t], res), res)
                                    ELSE Returned(io[t], FAILED))

\* accept() and the fcntl() calls after it: a connection whose flags cannot be
\* set is closed, and counts as none for async_accept().
BSDAccept(t, taken, lost) ==
  LET results == IF net.in = 0 THEN Interrupted \cup {EAGAIN}
                 ELSE {1} \cup (IF signals < MaxSignals THEN {EINTR, EMFILE, EBADF} ELSE {})
  IN \E res \in results :
       /\ net' = [net EXCEPT !.in = IF res \in {1, EBADF} THEN @ - 1 ELSE @]
       /\ signals' = IF res \in {1, EAGAIN} THEN signals ELSE signals + 1
       /\ Become(t,
            CASE res = 1 -> taken
              [] res = EINTR -> Plus(io[t], 0)
              [] res = EBADF -> lost
              [] OTHER -> Parking(io[t]))
       /\ UNCHANGED <<runtime, os, proto, hdr, mask, calls>>

BSDAsyncAccept(t) ==
  /\ OnBSD(t, "async_accept")
  /\ BSDAccept(t, Returned(Plus(io[t], 1), 1), Parking(io[t]))

BSDAsyncAcceptAll(t) ==
  /\ OnBSD(t, "async_accept_all")
  /\ BSDAccept(t, Plus(io[t], 1), Plus(io[t], 0))

\* After a co_await: a TCP write and a UDP read into a buffer look whether they
\* were cancelled meanwhile, the other reads whether the socket is gone.
BSDWoken(t) ==
  LET l == io[t]
      datagram == l.op = "async_read" /\ proto = "udp"
      cancelled == requested[t] /\ (l.op = "async_write" \/ datagram)
      gone == ~hdr.fd /\ l.op \in {"async_read", "async_read_raw"} /\ ~datagram
  IN
  /\ os = "bsd" /\ Runs(t) /\ l.pc = "woken" /\ l.op # "async_connect"
  /\ Become(t,
       CASE cancelled -> Returned(l, FAILED)
         [] ~cancelled /\ gone -> Returned(l, 0)
         [] OTHER -> [l EXCEPT !.pc = IF l.op = "async_sendfile" THEN "probe" ELSE "disarm"])
  /\ UNCHANGED <<runtime, os, proto, hdr, net, mask, calls, signals>>

BSDOp(t) ==
  \/ BSDAsyncReadTCP(t) \/ BSDAsyncReadRawTCP(t) \/ BSDAsyncReadUDP(t)
  \/ BSDAsyncWriteTCP(t) \/ BSDAsyncWriteUDP(t) \/ BSDAsyncSend(t)
  \/ BSDAsyncReadRawUDP(t) \/ BSDAsyncSendfile(t) \/ BSDReadNow(t) \/ BSDWriteNow(t)
  \/ BSDSendNow(t) \/ BSDReceive(t) \/ BSDSendfile(t)
  \/ BSDAsyncAccept(t) \/ BSDAsyncAcceptAll(t) \/ BSDWoken(t)

(***************************************************************************)
(* KQueuePoller                                                            *)
(***************************************************************************)

\* The filters that have an event.  A listener's is reported as long as it has
\* connections, the others once per edge.
Triggered ==
  IF proto = "listener" THEN {e \in {"IN"} : Readable}
  ELSE {e \in net.edge : IF e = "IN" THEN Readable ELSE Writable}

\* kevent(): the end of the stream or an error marks the socket and leaves the
\* descriptor open.
KqueueWait ==
  /\ os = "bsd" /\ running[Owner] = None /\ mask = {}
  /\ hdr.fd /\ Triggered # {}
  /\ proto = "listener" => hdr.rd # READY
  /\ net' = [net EXCEPT !.edge = {}]
  /\ mask' = Triggered
  /\ hdr' = [hdr EXCEPT
               !.disconnected = @ \/ (proto # "listener" /\ (net.eof \/ Hup))]
  /\ UNCHANGED <<runtime, os, proto, io, calls, signals>>
=============================================================================
