------------------------------- MODULE Sockets -------------------------------
(***************************************************************************)
(* A reactor socket on Linux or BSD with the coroutines that use it: the   *)
(* operations, the poller, the timer and the end of the header together.   *)
(* The platform and the kind of socket are chosen at the start.            *)
(***************************************************************************)
EXTENDS SocketLinux, SocketBSD, SocketLifetime

vars == <<runtime, sockvars, lifevars>>

\* The coroutines that have the socket: on BSD, and where one coroutine does
\* everything, those of the owner.
Users == {t \in Tasks : holds[t]}

\* What a coroutine may start, and where each operation begins.
Operations ==
  CASE proto = "tcp" -> {"async_read", "async_write"}
    [] proto = "solo" -> {"async_read_raw", "read", "send", "write", "async_send",
                          "async_sendfile", "sendfile"}
    [] proto = "udp" -> {"async_read", "async_read_raw", "async_write"}
    [] proto = "listener" -> {"async_accept", "async_accept_all"}
    [] proto = "timed" -> {"async_read"}
    [] proto = "connect" -> {"async_connect"}

Entry(op) ==
  CASE op = "async_sendfile" -> "arm"
    [] op = "async_connect" -> "resolve"
    [] OTHER -> Round(op)

\* With a timer only the owner's coroutines wait on the socket.
Start(t) ==
  \E op \in Operations :
    /\ holds[t]
    /\ proto = "tcp" /\ Home[t] = Owner => op = "async_write"
    /\ proto = "timed" => Home[t] = Owner
    /\ proto = "connect" => Home[t] = Owner /\ calls = 0
    /\ Begin(t, op, Entry(op))

\* The steps of the component modules that leave the lifetime alone.
IOStep(t) ==
  \/ Start(t) \/ Finish(t) \/ Disarm(t) \/ ArmCancel(t) \/ Park(t)
  \/ OnCancel(t) \/ Resume(t) \/ Yield(t) \/ LinuxOp(t) \/ BSDOp(t)

Poll == EpollWait \/ KqueueWait \/ PollRead \/ PollWrite \/ PollHup

Loop ==
  \/ ProcessSocketTimeout \/ BSDProcessSocketTimeout \/ ApplySocketOp \/ FreeHeader

UserStep(t) ==
  t \in Users /\ ((IOStep(t) /\ UNCHANGED lifevars) \/ CallStep(t) \/ ConnectStep(t))

Init ==
  /\ os \in {"linux", "bsd"}
  /\ proto \in {"tcp", "solo", "udp", "listener", "timed", "connect"}
  /\ LifeInit
  /\ SocketInit(Cardinality(Users))

Next ==
  \/ \E t \in Tasks : UserStep(t) \/ (Cancel(t) /\ UNCHANGED lifevars)
  \/ (Poll /\ UNCHANGED lifevars)
  \/ (Peer /\ UNCHANGED lifevars)
  \/ KernelConnects
  \/ Loop

Spec == Init /\ [][Next]_vars

(***************************************************************************)
(* Properties                                                              *)
(***************************************************************************)

Parked(t) == io[t].pc = "parked"

\* The probe that led to this wait said would-block.  Neither async_sendfile(),
\* which waits before it tries, nor an accept without a descriptor, which
\* leaves its connection in the backlog, has such a probe.
Probed(t) == io[t].op # "async_sendfile" /\ io[t].value # EMFILE

Ready(t) == CASE Side(io[t].op) = "rd" -> Readable
              [] Side(io[t].op) = "wr" -> Writable

Event(t) == IF Side(io[t].op) = "rd" THEN "IN" ELSE "OUT"

OnWord(t) == Parked(t) /\ hdr[Side(io[t].op)] = t

\* No readiness is lost between a probe that would block and the wait after it:
\* whenever a coroutine is parked on an open descriptor that is ready, the edge
\* is still in the kernel or in the poller's hands.
NoLostEdge ==
  \A t \in Users :
    (OnWord(t) /\ hdr.fd /\ Probed(t) /\ Ready(t)) =>
      \/ Event(t) \in mask
      \/ os = "linux" /\ net.edge # {}
      \/ os = "bsd" /\ Event(t) \in Triggered

\* A cancelled or timed wait has somebody who will end it: the kick, the armed
\* timer, or an operation on its way to the owner that arms or shuts down.
EveryWaitHasAnEnd ==
  \A t \in Users :
    OnWord(t) =>
      /\ os = "linux" /\ requested[t] => cancel_fn[t] /\ kick[t] # "none"
      /\ (IF proto = "timed" THEN timing = "set" ELSE proto = "connect" /\ io[t].total = 1) =>
           \/ hdr.timer_id # 0 \/ ops # <<>> \/ Hup
           \/ \E u \in Tasks : io[u].op = "set_timeout"

\* A parked coroutine is known to exactly one place: the wake-up word or its
\* worker's queue, whoever of poller, timer and cancellation came first.
OneWayToBeResumed ==
  \A t \in Users :
    /\ Parked(t) => (hdr[Side(io[t].op)] = t) # (ready[t] = 1)
    /\ ready[t] + (IF Runs(t) THEN 1 ELSE 0) <= 1

\* An operation that succeeds reports the bytes it moved (on BSD the end of the
\* stream hides the ones before it), and async_connect() succeeds only when the
\* kernel connected.
ResultsAreTrue ==
  \A t \in Users :
    io[t].pc = "done" /\ io[t].value >= 0 =>
      CASE io[t].op = "async_connect" -> ~net.err /\ net.room > 0
        [] io[t].op # "async_connect" ->
             \/ io[t].value = io[t].total
             \/ os = "bsd" /\ Side(io[t].op) = "rd" /\ io[t].value = 0

\* Between two calls the references are those of the coroutines and of the
\* armed timer: the timer's is dropped exactly once, by the callback or by
\* shutdown().
TimerRefDroppedOnce ==
  (mem = "live" /\ ops = <<>> /\ \A t \in Tasks : io[t].pc = "idle") =>
    hdr.count = Cardinality(Users) + hdr.timer_id

\* The header outlives everybody who names it: coroutines with the socket,
\* forwarded operations and the armed timer.
HeaderOutlivesItsUsers ==
  /\ mem # "live" =>
       /\ hdr.timer_id = 0 /\ mask = {} /\ ops = <<>>
       /\ Users = {}
  /\ TimerRefDroppedOnce

\* A header without a user is freed, or the owner still has the operation, the
\* timer or the queue entry that leads there.
NoHeaderIsLeaked ==
  Users = {} => mem # "live" \/ ops # <<>> \/ hdr.timer_id # 0

\* A parked coroutine has one way to be resumed and somebody who will take it.
WaitsEndOnce == OneWayToBeResumed /\ EveryWaitHasAnEnd

\* The header lives exactly as long as its users, its timer and the operations on
\* their way to its owner (SocketHeader's counted references, q_sh), unless a timer
\* was used carelessly.
HeaderLivesWithItsUsers == timing # "careless" => HeaderOutlivesItsUsers /\ NoHeaderIsLeaked
=============================================================================
