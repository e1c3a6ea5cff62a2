---------------------------- MODULE CompletionIO ----------------------------
(***************************************************************************)
(* What the completion based sockets share: the worker that owns the       *)
(* socket, its coroutines, the header with its references and its timer,   *)
(* the operations the kernel has been given and the completions it has     *)
(* queued.  SocketIOUring and SocketWindows add the operations and what    *)
(* their pollers do with a completion.                                     *)
(*                                                                         *)
(* Everything runs on the owner, so the coroutines interleave only where   *)
(* they suspend; the kernel and the peer act at any time.  Bytes (of a     *)
(* listener: connections) are numbered in the order the peer sends them.   *)
(***************************************************************************)
EXTENDS Integers, Sequences, FiniteSets, SequencesExt

CONSTANTS
  Tasks,        \* the coroutines that use the socket
  None,         \* no coroutine
  MaxBytes,     \* bound: bytes, or connections, the peer sends
  MaxRoom,      \* the send buffer
  MaxRead,      \* max_read_size, and the size of what is written
  BufSize,      \* kBufSize
  BufCount,     \* kBufCount
  MaxRetries,   \* settings::max_read_retries and max_write_retries
  MaxCalls,     \* bound: operations started
  MaxFaults,    \* bound: interrupted calls, failed accepts, ended multishots
  ConnectTimers \* whether the timer of a connect may fire before it is decided

ASSUME CompletionBounds ==
  /\ {MaxBytes, MaxCalls, MaxFaults} \subseteq Nat
  /\ {MaxRoom, MaxRead, BufSize, BufCount, MaxRetries} \subseteq Nat \ {0}
  /\ ConnectTimers \in BOOLEAN /\ None \notin Tasks

VARIABLES
  os,      \* "uring" or "iocp"
  proto,   \* "tcp", "raw", "sync", "udp" (iocp), "listener" or "connect"
  ring,    \* io_uring: the kernel has provided-buffer rings
  hdr,     \* the SocketHeader; taken counts the references of its multishot
           \* receive, loose says that a completion was left without its
           \* operation (both for the properties)
  mem,     \* its memory: live, in q_sh, or freed
  holds,   \* the coroutines that have a Socket<> object
  run,     \* the coroutine the worker is running
  ready,   \* how often each coroutine is in the worker's queue
  io,      \* each coroutine's operation, awaiter and local variables
  net,     \* the kernel's side of the descriptor
  pend,    \* operations the kernel has
  cancels, \* operations it was asked to cancel
  cq,      \* completions it has queued
  bufs,    \* provided buffers in the ring
  calls,   \* operations started
  faults,  \* faults so far
  got      \* the bytes or connections handed to callers, in order

vars == <<os, proto, ring, hdr, mem, holds, run, ready, io, net, pend, cancels, cq, bufs,
          calls, faults, got>>

kernelvars == <<net, pend, cancels, cq, bufs, faults>>

fixed == <<os, proto, ring>>

READY == "READY"
EMPTY == "0"

\* Results of system calls and completions.
FAILED == -1
EAGAIN == -2
EINTR == -3
EBADF == -4
ECONNRESET == -5
EMFILE == -6
ECONNABORTED == -7
ENOBUFS == -8
ECANCELED == -9
TIMEOUT == -10

NoId == -1
MsId == 0    \* SocketHeader::ms_recv

Least(a, b) == IF a <= b THEN a ELSE b

\* op, awaiter and locals of a coroutine; id names the operation structure in
\* its frame, res and data are what a completion leaves there.
NoOp == [op |-> "none", pc |-> "idle", id |-> NoId, total |-> 0, tries |-> 0,
         value |-> 0, res |-> 0, data |-> <<>>, armed |-> FALSE, fds |-> <<>>]

(***************************************************************************)
(* Coroutines and the worker                                               *)
(***************************************************************************)

Runs(t) == run = t

At(t, op, pc) == Runs(t) /\ io[t].op = op /\ io[t].pc = pc

Become(t, l) == io' = [io EXCEPT ![t] = l]

Returned(l, v) == [l EXCEPT !.pc = "done", !.value = v, !.id = NoId, !.res = 0,
                            !.data = <<>>, !.tries = 0, !.armed = FALSE, !.fds = <<>>]

Parked(l) == [l EXCEPT !.pc = "parked"]

\* resume_waiter(): into the worker's queue.
Queued(ts) == [t \in Tasks |-> ready[t] + (IF t \in ts THEN 1 ELSE 0)]

Idle == run = None

Resume(t) ==
  /\ Idle /\ ready[t] > 0
  /\ run' = t
  /\ ready' = [ready EXCEPT ![t] = @ - 1]
  /\ Become(t, [io[t] EXCEPT !.pc = IF @ = "parked" THEN "woken" ELSE @])
  /\ UNCHANGED <<fixed, hdr, mem, holds, kernelvars, calls, got>>

\* The coroutine awaits something else and comes back.
Yield(t) ==
  /\ Runs(t) /\ io[t].pc = "idle"
  /\ run' = None
  /\ ready' = Queued({t})
  /\ UNCHANGED <<fixed, hdr, mem, holds, io, kernelvars, calls, got>>

WriteOps == {"async_write", "async_send", "async_sendfile", "async_connect", "write",
             "sendfile"}

\* Bound: one operation fewer on Windows once a completion was left behind.
MayCall == calls < IF os = "iocp" /\ hdr.loose THEN MaxCalls - 1 ELSE MaxCalls

Begin(t, op) ==
  /\ Runs(t) /\ holds[t] /\ io[t].pc = "idle" /\ MayCall
  /\ \A u \in Tasks :
       io[u].pc # "idle" => (io[u].op \in WriteOps) # (op \in WriteOps)
  /\ calls' = calls + 1
  /\ Become(t, [NoOp EXCEPT !.op = op, !.pc = "go", !.id = calls + 1])
  /\ UNCHANGED <<fixed, hdr, mem, holds, run, ready, kernelvars, got>>

Finish(t) ==
  /\ Runs(t) /\ io[t].pc = "done"
  /\ Become(t, NoOp)
  /\ UNCHANGED <<fixed, hdr, mem, holds, run, ready, kernelvars, calls, got>>

(***************************************************************************)
(* References, timer, end of the header                                    *)
(***************************************************************************)

\* add_ref(), unless the socket takes no new ones.
WithRef(h) == IF h.closed THEN h ELSE [h EXCEPT !.count = @ + 1]

OpenConnection == hdr.fd /\ proto # "connect"

Calling(t) ==
  /\ Runs(t) /\ holds[t] /\ io[t].pc = "idle" /\ proto \in {"tcp", "raw"} /\ MayCall
  /\ calls' = calls + 1
  /\ UNCHANGED <<fixed, holds, run, ready, io, pend, cancels, cq, faults, got>>

\* Assumption: no caller sets a timer on a socket that was removed, whose timer
\* would have no reference.
MaySetTimer == ~hdr.closed

\* The kernel gives up the operations of a descriptor that is closed under
\* them: only Windows does.
Aborted(p) == os = "iocp" /\ ~hdr.fd

(***************************************************************************)
(* System calls that do not wait                                           *)
(***************************************************************************)

Interrupted == IF faults < MaxFaults THEN {EINTR} ELSE {}

CountFault(res) ==
  faults' = IF res \in {EINTR, EMFILE, ECONNABORTED} THEN faults + 1 ELSE faults

\* recv() of at most k bytes, and send() of k.
Recv(k) ==
  IF ~hdr.fd THEN EBADF
  ELSE CASE net.in # <<>> -> Least(k, Len(net.in))
         [] net.in = <<>> /\ net.err -> ECONNRESET
         [] net.in = <<>> /\ ~net.err /\ (net.eof \/ net.shut) -> 0
         [] OTHER -> EAGAIN

Send(k) ==
  IF ~hdr.fd THEN EBADF
  ELSE CASE net.err \/ net.shut -> ECONNRESET
         [] ~(net.err \/ net.shut) /\ net.room > 0 -> Least(k, net.room)
         [] OTHER -> EAGAIN

Took(res) == [net EXCEPT !.in = IF res > 0 THEN SubSeq(@, res + 1, Len(@)) ELSE @]

First(res) == IF res > 0 THEN SubSeq(net.in, 1, res) ELSE <<>>

Put(res) == [net EXCEPT !.room = IF res > 0 THEN @ - res ELSE @]

(***************************************************************************)
(* The kernel and the peer                                                 *)
(***************************************************************************)

Submitted(t, kind, ask) == pend \cup {[id |-> io[t].id, kind |-> kind, ask |-> ask]}

Completion(p, res, data, more) ==
  [id |-> p.id, kind |-> p.kind, res |-> res, data |-> data, more |-> more]

\* The completions of an operation with one result.
Complete(p, res) ==
  /\ p \in pend
  /\ pend' = pend \ {p}
  /\ cancels' = cancels \ {p.id}
  /\ cq' = Append(cq, Completion(p, res, IF p.kind \in {"recv", "accept"} THEN First(res)
                                         ELSE <<>>, FALSE))
  /\ net' = CASE p.kind \in {"recv", "accept"} -> Took(res)
              [] p.kind = "send" -> Put(res)
              [] OTHER -> net

\* What the operation p can end with now.
Outcomes(p) ==
  (IF p.id \in cancels THEN {ECANCELED} ELSE {}) \cup
  (IF Aborted(p) THEN {ECANCELED} ELSE {}) \cup
  (IF ~hdr.fd THEN {}
   ELSE CASE p.kind = "recv" -> {Recv(p.ask)} \ {EAGAIN}
          [] p.kind = "send" -> {Send(p.ask)} \ {EAGAIN}
          [] p.kind = "accept" ->
               (IF net.in # <<>> THEN {1} ELSE {}) \cup
               (IF net.in # <<>> /\ faults < MaxFaults THEN {EMFILE, ECONNABORTED} ELSE {})
          [] p.kind = "connect" ->
               {0, ECONNRESET} \cup {e \in {TIMEOUT} : os = "uring" /\ "TIMEOUT" \in hdr.info}
          [] OTHER -> {})

Completes ==
  /\ \E p \in pend :
       /\ p.kind # "recv_ms" /\ p.kind # "accept_ms"
       /\ \E res \in Outcomes(p) : Complete(p, res) /\ CountFault(res)
  /\ UNCHANGED <<fixed, hdr, mem, holds, run, ready, io, bufs, calls, got>>

\* Bound: the peer acts on a socket that is still used.
InUse == calls < MaxCalls \/ \E t \in Tasks : io[t].pc # "idle"

Peer ==
  /\ InUse /\ OpenConnection /\ ~net.err /\ ~net.shut /\ ~net.eof
  /\ \/ /\ net.sent < MaxBytes
        /\ net' = [net EXCEPT !.in = Append(@, net.sent + 1), !.sent = @ + 1]
     \/ proto # "listener" /\ net' = [net EXCEPT !.eof = TRUE]
     \/ proto # "listener" /\ net' = [net EXCEPT !.err = TRUE, !.in = <<>>]
     \/ net.room = 0 /\ net' = [net EXCEPT !.room = MaxRoom]
  /\ UNCHANGED <<fixed, hdr, mem, holds, run, ready, io, pend, cancels, cq, bufs, calls,
                 faults, got>>

FreeHeader ==
  /\ Idle /\ mem = "q_sh"
  /\ mem' = "freed"
  /\ UNCHANGED <<fixed, hdr, holds, run, ready, io, kernelvars, calls, got>>

\* The socket's constructor: one object, handed to the coroutines.
CompletionInit ==
  /\ hdr = [fd |-> proto # "connect", closed |-> FALSE, disconnected |-> FALSE,
            count |-> Cardinality(Tasks), timer |-> FALSE,
            info |-> {f \in {"CONNECTION_PENDING"} : proto = "connect"},
            rd |-> EMPTY, wr |-> EMPTY, read_op |-> NoId, write_op |-> NoId,
            first_read |-> FALSE, first_write |-> FALSE,
            armed |-> FALSE, waiting |-> FALSE, term |-> 1, segs |-> <<>>, taken |-> 0,
            loose |-> FALSE]
  /\ mem = "live" /\ holds = [t \in Tasks |-> TRUE]
  /\ run = None /\ ready = [t \in Tasks |-> 1]
  /\ io = [t \in Tasks |-> NoOp]
  /\ net = [in |-> <<>>, sent |-> 0, eof |-> FALSE, err |-> FALSE, shut |-> FALSE,
            room |-> MaxRoom]
  /\ pend = {} /\ cancels = {} /\ cq = <<>> /\ bufs = BufCount
  /\ calls = 0 /\ faults = 0 /\ got = <<>>
=============================================================================
