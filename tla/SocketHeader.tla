---------------------------- MODULE SocketHeader ----------------------------
(***************************************************************************)
(* What the reactor sockets share (net/SocketMetadata.h): the header of    *)
(* one socket with its read and write wake-up words, the awaiters that     *)
(* park a coroutine on a word, and the kernel's side of the descriptor.    *)
(* SocketLinux and SocketBSD add the operations and their pollers,         *)
(* SocketLifetime the timer and the end of the socket.                     *)
(*                                                                         *)
(* Bytes are counted, not named.  The bytes of a listener are the          *)
(* connections in its backlog.                                             *)
(***************************************************************************)
EXTENDS Coroutines, Sequences, FiniteSets

CONSTANTS
  Owner,       \* the worker whose poller and wheel have the socket
  MaxBytes,    \* bound: bytes, or connections, the peer sends
  MaxRoom,     \* the send buffer
  MaxRead,     \* max_read_size, and the size of what is written
  Chunk,       \* the largest piece async_read(DynamicBuffer&) asks for
  MaxRetries,  \* settings::max_read_retries and max_write_retries
  MaxCalls,    \* bound: operations started
  MaxSignals   \* bound: system calls interrupted by a signal

ASSUME OwnerAssumption == Owner \in Workers
ASSUME BoundsAssumption ==
  /\ MaxBytes \in Nat /\ MaxCalls \in Nat /\ MaxSignals \in Nat
  /\ {MaxRoom, MaxRead, Chunk, MaxRetries} \subseteq Nat \ {0}

VARIABLES
  os,       \* the platform: "linux" or "bsd"
  proto,    \* the socket: "tcp", "solo" (one coroutine), "udp",
            \* "listener", "timed" or "connect"
  hdr,      \* the SocketHeader
  net,      \* the kernel's side: bytes to read, room to write, edges
  mask,     \* the events of the socket the poller is handling
  io,       \* each coroutine's operation and its local variables
  calls,    \* operations started so far
  signals   \* system calls interrupted so far

sockvars == <<os, proto, hdr, net, mask, io, calls, signals>>

READY == "READY"
EMPTY == "0"

\* Error results of the system calls, and the operations' -1.
EAGAIN == -2
EINTR == -3
EBADF == -4
ECONNRESET == -5
EMFILE == -6
FAILED == -1

Least(a, b) == IF a <= b THEN a ELSE b

WriteOps == {"async_write", "async_send", "async_sendfile", "async_connect", "write",
             "sendfile"}

ReadOps == {"async_read", "async_read_raw", "async_accept", "async_accept_all",
            "read", "receive", "send"}

\* The word an operation parks on.
Side(op) == CASE op \in ReadOps -> "rd" [] op \in WriteOps -> "wr" [] OTHER -> "ctl"

NoOp == [op |-> "none", pc |-> "idle", total |-> 0, tries |-> 0, value |-> 0]

\* A fresh header.  An active TCP socket made from nothing is a pending
\* connection.
HeaderInit(fd, refs, info) ==
  [rd |-> EMPTY, wr |-> EMPTY, fd |-> fd, closed |-> FALSE,
   disconnected |-> FALSE, info |-> info, count |-> refs, timer_id |-> 0,
   tflags |-> {}, pending_ops |-> 0]

(***************************************************************************)
(* The wake-up words                                                       *)
(***************************************************************************)

\* handle_of(): the parked continuation, if the word is one.
handle_of(w) == {w} \cap Tasks

\* fire_read(), fire_write(): the hint stays set, the waiter is resumed.
Fired(side) == [hdr EXCEPT ![side] = READY]

\* disarm_read(), disarm_write(): the hint is dropped, a waiter stays.
Disarmed(side) ==
  IF hdr[side] = READY THEN [hdr EXCEPT ![side] = EMPTY] ELSE hdr

\* remove(): removeEvent() closes the descriptor, which takes it out of every
\* poller, and no new reference is taken.
Removed == [hdr EXCEPT !.fd = FALSE, !.closed = TRUE]

(***************************************************************************)
(* Steps of an operation                                                   *)
(***************************************************************************)

At(t, op, pc) == Runs(t) /\ io[t].op = op /\ io[t].pc = pc

Become(t, local) == io' = [io EXCEPT ![t] = local]

\* Where the next round of an operation's loop begins: the synchronous ones
\* leave the hint alone.
Round(op) ==
  IF op \in {"read", "write", "send", "receive", "sendfile"} THEN "probe" ELSE "disarm"

\* The local state after n bytes more, after an interrupted system call, when
\* the operation has returned v, and when it is about to park.
Plus(l, n) == [l EXCEPT !.pc = Round(l.op), !.total = @ + n, !.tries = 0]

Retried(l) == [l EXCEPT !.pc = Round(l.op), !.tries = @ + 1]

Returned(l, v) == [l EXCEPT !.pc = "done", !.value = v, !.tries = 0]

Parking(l) == [l EXCEPT !.pc = "arm"]

OutOfTries(l) == l.tries + 1 >= MaxRetries

\* The caller starts an operation: at most one on each side of the socket.
Begin(t, op, first) ==
  /\ Runs(t) /\ io[t].pc = "idle" /\ calls < MaxCalls
  /\ \A u \in Tasks : io[u].pc # "idle" => Side(io[u].op) # Side(op)
  /\ calls' = calls + 1
  /\ Become(t, [NoOp EXCEPT !.op = op, !.pc = first])
  /\ UNCHANGED <<runtime, os, proto, hdr, net, mask, signals>>

\* The caller has its result.
Finish(t) ==
  /\ Runs(t) /\ io[t].pc = "done"
  /\ Become(t, NoOp)
  /\ UNCHANGED <<runtime, os, proto, hdr, net, mask, calls, signals>>

\* The hint is dropped before the probe, never after it.
Disarm(t) ==
  /\ Runs(t) /\ io[t].pc = "disarm"
  /\ hdr' = Disarmed(Side(io[t].op))
  /\ Become(t, [io[t] EXCEPT !.pc = "probe"])
  /\ UNCHANGED <<runtime, os, proto, net, mask, calls, signals>>

\* Mutant: a request made before the wait is not looked at.
ArmCancelBlindly(t) ==
  /\ Runs(t) /\ io[t].pc = "arm"
  /\ cancel_fn' = [cancel_fn EXCEPT ![t] = os = "linux"]
  /\ Become(t, [io[t] EXCEPT !.pc = "park"])
  /\ UNCHANGED <<ready, running, requested, kick, os, proto, hdr, net, mask, calls, signals>>

\* suspend_on(), first half: where a parked coroutine can be cancelled the hook
\* is armed, and an earlier request keeps it from parking.
ArmCancel(t) ==
  /\ Runs(t) /\ io[t].pc = "arm"
  /\ IF os = "linux"
     THEN IF requested[t]
          THEN /\ ready' = resume_on({t})
               /\ Suspend(t)
               /\ Become(t, [io[t] EXCEPT !.pc = "parked"])
               /\ UNCHANGED cancel_fn
          ELSE /\ cancel_fn' = [cancel_fn EXCEPT ![t] = TRUE]
               /\ Become(t, [io[t] EXCEPT !.pc = "park"])
               /\ UNCHANGED <<ready, running>>
     ELSE /\ Become(t, [io[t] EXCEPT !.pc = "park"])
          /\ UNCHANGED <<ready, running, cancel_fn>>
  /\ UNCHANGED <<requested, kick, os, proto, hdr, net, mask, calls, signals>>

\* Mutant: the word is overwritten, whatever the poller left in it.
ParkBlindly(t) ==
  LET side == Side(io[t].op) IN
  /\ Runs(t) /\ io[t].pc = "park"
  /\ hdr' = [hdr EXCEPT ![side] = t]
  /\ ready' = ready
  /\ Suspend(t)
  /\ Become(t, [io[t] EXCEPT !.pc = "parked"])
  /\ UNCHANGED <<cancel_fn, requested, kick, os, proto, net, mask, calls, signals>>

\* park(): one CAS publishes the waiter or consumes the hint, in which case the
\* coroutine is put back into its own queue.
Park(t) ==
  LET side == Side(io[t].op) IN
  /\ Runs(t) /\ io[t].pc = "park"
  /\ hdr' = [hdr EXCEPT ![side] = IF @ = READY THEN EMPTY ELSE t]
  /\ ready' = IF hdr[side] = READY THEN resume_on({t}) ELSE ready
  /\ Suspend(t)
  /\ Become(t, [io[t] EXCEPT !.pc = "parked"])
  /\ UNCHANGED <<cancel_fn, requested, kick, os, proto, net, mask, calls, signals>>

\* cancel_socket_read(), cancel_socket_write(): un-park exactly this waiter.
OnCancel(t) ==
  LET side == Side(io[t].op) IN
  /\ TakeKick(t)
  /\ IF cancel_fn[t] /\ hdr[side] = t
     THEN hdr' = [hdr EXCEPT ![side] = EMPTY] /\ ready' = resume_on({t})
     ELSE UNCHANGED <<hdr, ready>>
  /\ UNCHANGED <<os, proto, net, mask, io, calls, signals>>

\* The worker resumes t, in its body or after a co_await of an operation.
Resume(t) ==
  /\ LoopResume(t)
  /\ Home[t] = Owner => mask = {}
  /\ Become(t, [io[t] EXCEPT !.pc = IF @ = "parked" THEN "woken" ELSE @])
  /\ UNCHANGED <<requested, kick, os, proto, hdr, net, mask, calls, signals>>

\* The coroutine awaits something else, or its cooperative budget is used up
\* before the first round of an operation, and its handle comes back.
Yield(t) ==
  /\ Runs(t)
  /\ \/ io[t].pc = "idle"
     \/ io[t].pc = "disarm" /\ io[t].total = 0 /\ io[t].tries = 0
        /\ io[t].op \in {"async_read", "async_write"}
  /\ Suspend(t)
  /\ ready' = resume_on({t})
  /\ UNCHANGED <<cancel_fn, requested, kick, sockvars>>

\* Bound: nothing happens to a socket that will not be used any more.
InUse == calls < MaxCalls \/ \E t \in Tasks : io[t].pc # "idle"

Cancel(t) ==
  ((RequestCancel(t) /\ InUse) \/ PushKick(t)) /\ UNCHANGED sockvars

(***************************************************************************)
(* The kernel                                                              *)
(***************************************************************************)

\* A call may be interrupted while one coroutine uses the socket.
Interrupted ==
  IF signals < MaxSignals /\ proto \in {"solo", "udp", "listener"} THEN {EINTR} ELSE {}

CountSignal(res) == signals' = IF res = EINTR THEN signals + 1 ELSE signals

\* recv() for at most k bytes.
Recv(k) ==
  IF ~hdr.fd THEN {EBADF}
  ELSE Interrupted \cup
       {CASE net.in > 0 -> Least(k, net.in)
          [] net.in = 0 /\ net.err -> ECONNRESET
          [] net.in = 0 /\ ~net.err /\ (net.eof \/ net.shut) -> 0
          [] OTHER -> EAGAIN}

\* send() of k bytes.
Send(k) ==
  IF ~hdr.fd THEN {EBADF}
  ELSE Interrupted \cup
       {CASE net.err \/ net.shut -> ECONNRESET
          [] ~(net.err \/ net.shut) /\ net.room > 0 -> Least(k, net.room)
          [] OTHER -> EAGAIN}

Received(res) == [net EXCEPT !.in = IF res > 0 THEN @ - res ELSE @]

Sent(res) == [net EXCEPT !.room = IF res > 0 THEN @ - res ELSE @]

Hup == net.err \/ net.shut

Readable == net.in > 0 \/ net.eof \/ Hup

Writable == proto # "listener" /\ (net.room > 0 \/ Hup)

\* The peer sends a byte, connects to the listener, closes, resets the
\* connection, or takes bytes out of the send buffer.
PeerSend ==
  /\ net.sent < MaxBytes /\ ~net.eof /\ ~Hup
  /\ net' = [net EXCEPT !.in = @ + 1, !.sent = @ + 1, !.edge = @ \cup {"IN"}]

PeerClose ==
  /\ proto \in {"solo", "timed"} /\ ~net.eof /\ ~Hup
  /\ net' = [net EXCEPT !.eof = TRUE, !.edge = @ \cup {"IN"}]

PeerReset ==
  /\ proto \in {"tcp", "solo"} /\ ~Hup
  /\ net' = [net EXCEPT !.err = TRUE, !.in = 0, !.edge = {"IN", "OUT"}]

PeerDrain ==
  /\ net.room = 0 /\ ~Hup
  /\ net' = [net EXCEPT !.room = MaxRoom, !.edge = @ \cup {"OUT"}]

Peer ==
  /\ proto # "connect" /\ InUse
  /\ hdr.fd
  /\ PeerSend \/ PeerClose \/ PeerReset \/ PeerDrain
  /\ UNCHANGED <<runtime, os, proto, hdr, mask, io, calls, signals>>

(***************************************************************************)
(* What the pollers do with an event: the waiter is resumed and the hint   *)
(* stays set.                                                              *)
(***************************************************************************)

PollRead ==
  /\ "IN" \in mask
  /\ mask' = mask \ {"IN"}
  /\ hdr' = Fired("rd")
  /\ ready' = resume_on(handle_of(hdr.rd))
  /\ UNCHANGED <<running, cancel_fn, requested, kick, os, proto, net, io, calls, signals>>

\* A pending connection is decided here: reading SO_ERROR clears it.
PollWrite ==
  /\ "OUT" \in mask /\ "IN" \notin mask
  /\ mask' = mask \ {"OUT"}
  /\ hdr' = [Fired("wr") EXCEPT
               !.info = IF "CONNECTION_PENDING" \notin @ THEN @
                        ELSE (@ \ {"CONNECTION_PENDING"}) \cup
                             {e \in {"CONNECTION_FAILED"} : net.err}]
  /\ ready' = resume_on(handle_of(hdr.wr))
  /\ UNCHANGED <<running, cancel_fn, requested, kick, os, proto, net, io, calls, signals>>

(***************************************************************************)
(* The start: a registered descriptor, writable from the beginning, or, to *)
(* be connected, none.                                                     *)
(***************************************************************************)
SocketInit(refs) ==
  LET pending == proto = "connect" IN
  /\ RuntimeInit
  /\ hdr = HeaderInit(~pending, refs,
                      {f \in {"CONNECTION_PENDING"} : pending})
  /\ net = [in |-> 0, sent |-> 0, eof |-> FALSE, err |-> FALSE, shut |-> FALSE,
            room |-> IF pending THEN 0 ELSE MaxRoom,
            edge |-> {e \in {"OUT"} : proto \in {"tcp", "solo", "udp", "timed"}}]
  /\ mask = {}
  /\ io = [t \in Tasks |-> NoOp]
  /\ calls = 0
  /\ signals = 0
=============================================================================
