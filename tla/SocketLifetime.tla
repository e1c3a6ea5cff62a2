--------------------------- MODULE SocketLifetime ---------------------------
(***************************************************************************)
(* The timer, the references and the end of a TCP socket.                  *)
(*                                                                         *)
(* The embedded timer is in the wheel of the socket's owner, and the timer *)
(* has a reference of its own.  On Linux a call made on another worker is  *)
(* forwarded to the owner through its sock_ops_q_; TIMER_CLAIMED says that *)
(* somebody has taken the timer's reference.  On BSD every call runs on    *)
(* the owner.  How long a timeout is does not matter here: an armed timer  *)
(* may fire at any time.                                                   *)
(***************************************************************************)
EXTENDS SocketHeader

VARIABLES
  ops,    \* sock_ops_q_ of the owner
  mem,    \* the header's memory: live, in q_sh, or freed
  holds,  \* the coroutines that have a Socket<> object of the header
  timing  \* history: whether a fresh timer was never asked for, was set, or was
          \* used carelessly: set again, or set or shut down before the owner
          \* had acted on what was forwarded, or set on a closed socket

lifevars == <<ops, mem, holds, timing>>

Foreign(t) == os = "linux" /\ Home[t] # Owner

\* The part of the state that release() and what follows it may change.
Life == [h |-> hdr, q |-> ops, m |-> mem]

Becomes(s) == hdr' = s.h /\ ops' = s.q /\ mem' = s.m

\* forward_socket_op().
forward_socket_op(s, kind) ==
  [s EXCEPT !.h.pending_ops = @ + 1, !.q = Append(@, kind)]

\* Mutant: the header goes although forwarded operations still name it.
TeardownEarly(s) ==
  [s EXCEPT !.h.timer_id = 0, !.h.closed = TRUE, !.h.fd = FALSE,
            !.h.tflags = @ \cup {"DESTROYED"}, !.m = "q_sh"]

\* teardown_socket_header_local(), and destroy() on BSD.
Teardown(s) ==
  [s EXCEPT !.h.timer_id = 0, !.h.closed = TRUE, !.h.fd = FALSE,
            !.h.tflags = @ \cup {"DESTROYED"},
            !.m = IF s.h.pending_ops = 0 THEN "q_sh" ELSE @]

\* destroy(): the owner takes the socket down.
Destroyed(s, foreign) ==
  IF foreign
  THEN forward_socket_op([s EXCEPT !.h.tflags = @ \cup {"TEARDOWN_PENDING"}], "Destroy")
  ELSE Teardown(s)

\* release(): the last reference destroys.
Released(s, foreign) ==
  LET s1 == [s EXCEPT !.h.count = @ - 1]
  IN IF s1.h.count = 0 THEN Destroyed(s1, foreign) ELSE s1

Shut == [net EXCEPT !.shut = TRUE, !.edge = IF hdr.fd THEN {"IN", "OUT"} ELSE @]

(***************************************************************************)
(* Calls of a coroutine that has the socket                                *)
(***************************************************************************)

Calls(t) ==
  /\ Runs(t) /\ holds[t] /\ io[t].pc = "idle" /\ proto = "timed"
  /\ calls < MaxCalls
  /\ calls' = calls + 1

Goes(t, op, pc) == Become(t, [NoOp EXCEPT !.op = op, !.pc = pc])

\* set_timeout_ms(), the first look at the timer: an armed one is refreshed.
SetTimeout(t) ==
  /\ Calls(t)
  /\ IF hdr.timer_id # 0
     THEN /\ Becomes(IF Foreign(t) THEN forward_socket_op(Life, "Timeout") ELSE Life)
          /\ UNCHANGED <<io, timing>>
     ELSE /\ Goes(t, "set_timeout", "addref")
          /\ timing' = IF timing = "never" /\ ~hdr.closed /\ ops = <<>> THEN "set"
                                                                       ELSE "careless"
          /\ UNCHANGED <<hdr, ops, mem>>
  /\ UNCHANGED <<runtime, os, proto, net, mask, signals, holds>>

\* The timer's reference, unless the socket takes no new ones.
AddTimerRef(t) ==
  /\ At(t, "set_timeout", "addref")
  /\ hdr' = IF hdr.closed THEN hdr ELSE [hdr EXCEPT !.count = @ + 1]
  /\ Become(t, [io[t] EXCEPT !.pc = "unclaim"])
  /\ UNCHANGED <<runtime, os, proto, net, mask, calls, signals, lifevars>>

\* A fresh timer's reference is unclaimed.
Unclaim(t) ==
  /\ At(t, "set_timeout", "unclaim")
  /\ hdr' = [hdr EXCEPT !.tflags = @ \ {"TIMER_CLAIMED"}]
  /\ Become(t, [io[t] EXCEPT !.pc = "arm_timer"])
  /\ UNCHANGED <<runtime, os, proto, net, mask, calls, signals, lifevars>>

\* The timer is armed here, or by the owner.
ArmTimer(t) ==
  /\ At(t, "set_timeout", "arm_timer")
  /\ Becomes(IF Foreign(t) THEN forward_socket_op(Life, "Timeout")
                           ELSE [Life EXCEPT !.h.timer_id = 1])
  /\ Become(t, NoOp)
  /\ UNCHANGED <<runtime, os, proto, net, mask, calls, signals, holds, timing>>

\* update_timeout(): nothing to do without a timer.
UpdateTimeout(t) ==
  /\ Calls(t)
  /\ Becomes(IF Foreign(t) /\ hdr.timer_id # 0
             THEN forward_socket_op(Life, "Timeout") ELSE Life)
  /\ UNCHANGED <<runtime, os, proto, net, mask, io, signals, holds, timing>>

\* shutdown() on the owner.
ShutdownHere(t) ==
  LET cancelled == [Life EXCEPT !.h.timer_id = 0,
                                !.h.tflags = @ \cup {"TIMER_CLAIMED"}]
      drops == hdr.timer_id # 0 /\ (os = "linux" => "TIMER_CLAIMED" \notin hdr.tflags)
  IN
  /\ Calls(t) /\ ~Foreign(t)
  /\ Becomes(CASE drops -> Released(cancelled, FALSE)
               [] ~drops /\ hdr.timer_id # 0 -> cancelled
               [] OTHER -> Life)
  /\ net' = Shut
  /\ UNCHANGED <<runtime, os, proto, mask, io, signals, holds, timing>>

\* shutdown() elsewhere: the owner is told, and then the timer's reference is
\* dropped if there was a timer.
ShutdownThere(t) ==
  /\ Calls(t) /\ Foreign(t)
  /\ Becomes(forward_socket_op(Life, "Shutdown"))
  /\ IF hdr.timer_id # 0 THEN Goes(t, "shutdown", "claim") ELSE UNCHANGED io
  /\ timing' = IF ops = <<>> /\ \A u \in Tasks : io[u].op # "set_timeout" THEN timing
                                                                         ELSE "careless"
  /\ UNCHANGED <<runtime, os, proto, net, mask, signals, holds>>

Claim(t) ==
  /\ At(t, "shutdown", "claim")
  /\ Becomes(IF "TIMER_CLAIMED" \in hdr.tflags THEN Life
             ELSE Released([Life EXCEPT !.h.tflags = @ \cup {"TIMER_CLAIMED"}], TRUE))
  /\ Become(t, NoOp)
  /\ UNCHANGED <<runtime, os, proto, net, mask, calls, signals, holds, timing>>

\* ~Socket(), as the coroutine ends.
Drop(t) ==
  /\ Runs(t) /\ holds[t] /\ io[t].pc = "idle" /\ proto \in {"timed", "connect"}
  /\ holds' = [holds EXCEPT ![t] = FALSE]
  /\ Becomes(Released(Life, Foreign(t)))
  /\ Suspend(t)
  /\ UNCHANGED <<ready, cancel_fn, requested, kick, os, proto, net, mask, io, calls,
                 signals, timing>>

CallStep(t) ==
  \/ SetTimeout(t) \/ AddTimerRef(t) \/ Unclaim(t) \/ ArmTimer(t)
  \/ UpdateTimeout(t) \/ ShutdownHere(t) \/ ShutdownThere(t) \/ Claim(t) \/ Drop(t)

(***************************************************************************)
(* async_connect(), on the owner.  io.total is 1 iff a timeout was given.  *)
(***************************************************************************)

\* No address, no descriptor, or connect() fails at once: the timer, which was
\* set before connect(), is left as it is.
ConnectFails(t) ==
  /\ At(t, "async_connect", "resolve")
  /\ \E timed \in BOOLEAN :
       hdr' = IF timed THEN [hdr EXCEPT !.count = @ + 1, !.timer_id = 1] ELSE hdr
  /\ Become(t, Returned(io[t], FAILED))
  /\ UNCHANGED <<runtime, os, proto, net, mask, calls, signals, lifevars>>

\* connect() is in progress and the socket is registered.
ConnectStarts(t) ==
  /\ At(t, "async_connect", "resolve")
  /\ \E timed \in {0, 1} :
       /\ hdr' = [hdr EXCEPT !.fd = TRUE, !.count = @ + timed, !.timer_id = timed]
       /\ Become(t, [io[t] EXCEPT !.pc = "arm", !.total = timed])
  /\ UNCHANGED <<runtime, os, proto, net, mask, calls, signals, lifevars>>

\* The kernel decides the connection.
KernelConnects ==
  /\ proto = "connect" /\ hdr.fd /\ net.room = 0 /\ ~net.err
  /\ \/ net' = [net EXCEPT !.room = MaxRoom, !.edge = {"OUT"}]
     \/ net' = [net EXCEPT !.err = TRUE, !.edge = {"IN", "OUT"}]
  /\ UNCHANGED <<runtime, os, proto, hdr, mask, io, calls, signals, lifevars>>

\* The connection is there: its timer and the timer's reference go.
Connected(t) == [hdr EXCEPT !.timer_id = 0, !.count = @ - io[t].total]

\* After the wait, on Linux: the kernel is asked once more, and a descriptor
\* that is given up is closed.
ConnectWoken(t) ==
  LET gives_up ==
        \/ requested[t] \/ ~hdr.fd
        \/ hdr.info \cap {"TIMEOUT", "CONNECTION_FAILED"} # {}
        \/ "CONNECTION_PENDING" \in hdr.info /\ net.err
  IN
  /\ os = "linux" /\ At(t, "async_connect", "woken")
  /\ hdr' = IF gives_up THEN [hdr EXCEPT !.fd = FALSE] ELSE Connected(t)
  /\ Become(t, Returned(io[t], IF gives_up THEN FAILED ELSE 1))
  /\ UNCHANGED <<runtime, os, proto, net, mask, calls, signals, lifevars>>

\* On BSD the poller's word counts, and only a cancelled one is closed.
BSDConnectWoken(t) ==
  LET gives_up ==
        requested[t] \/ hdr.info \cap {"TIMEOUT", "CONNECTION_FAILED"} # {}
  IN
  /\ os = "bsd" /\ At(t, "async_connect", "woken")
  /\ hdr' = IF gives_up THEN [hdr EXCEPT !.fd = @ /\ ~requested[t]] ELSE Connected(t)
  /\ Become(t, Returned(io[t], IF gives_up THEN FAILED ELSE 1))
  /\ UNCHANGED <<runtime, os, proto, net, mask, calls, signals, lifevars>>

ConnectStep(t) ==
  ConnectFails(t) \/ ConnectStarts(t) \/ ConnectWoken(t) \/ BSDConnectWoken(t)

(***************************************************************************)
(* The owner's loop                                                        *)
(***************************************************************************)

OwnerIdle == running[Owner] = None /\ mask = {}

\* The state and the waiters after a timeout: both waiters are taken, the
\* descriptor is closed and the timer's reference dropped.
TimedOut(flags) ==
  Released([Life EXCEPT !.h.timer_id = 0, !.h.tflags = @ \cup flags,
                        !.h.rd = EMPTY, !.h.wr = EMPTY, !.h.fd = FALSE,
                        !.h.info = @ \cup {"TIMEOUT"}], FALSE)

\* processSocketTimeout(): nothing is left to do for a timer whose reference
\* was claimed.
ProcessSocketTimeout ==
  LET claimed == hdr.tflags \cap {"TIMER_CLAIMED", "TEARDOWN_PENDING"} # {} IN
  /\ os = "linux" /\ OwnerIdle /\ hdr.timer_id # 0
  /\ IF claimed
     THEN /\ Becomes([Life EXCEPT !.h.timer_id = 0,
                                  !.h.tflags = @ \cup {"TIMER_CLAIMED"}])
          /\ UNCHANGED ready
     ELSE /\ Becomes(TimedOut({"TIMER_CLAIMED"}))
          /\ ready' = resume_on(handle_of(hdr.rd) \cup handle_of(hdr.wr))
  /\ UNCHANGED <<running, cancel_fn, requested, kick, os, proto, net, mask, io,
                 calls, signals, holds, timing>>

\* The same on BSD, where nobody claims.
BSDProcessSocketTimeout ==
  /\ os = "bsd" /\ OwnerIdle /\ hdr.timer_id # 0
  /\ Becomes(TimedOut({}))
  /\ ready' = resume_on(handle_of(hdr.rd) \cup handle_of(hdr.wr))
  /\ UNCHANGED <<running, cancel_fn, requested, kick, os, proto, net, mask, io,
                 calls, signals, holds, timing>>

\* What a forwarded operation does to a header that is not torn down.
Applied(s, kind) ==
  CASE "DESTROYED" \in s.h.tflags -> s
    [] "DESTROYED" \notin s.h.tflags /\ kind = "Timeout" ->
         IF "TEARDOWN_PENDING" \in s.h.tflags
            \/ (s.h.timer_id = 0 /\ "TIMER_CLAIMED" \in s.h.tflags)
         THEN s ELSE [s EXCEPT !.h.timer_id = 1]
    [] "DESTROYED" \notin s.h.tflags /\ kind = "Shutdown" -> [s EXCEPT !.h.timer_id = 0]
    [] "DESTROYED" \notin s.h.tflags /\ kind = "Destroy" -> Teardown(s)

\* apply_socket_op(): the last operation of a header that is torn down frees
\* it.
ApplySocketOp ==
  LET kind == Head(ops)
      s == Applied([Life EXCEPT !.q = Tail(@)], kind)
      last == s.h.pending_ops = 1 /\ "DESTROYED" \in s.h.tflags
  IN
  /\ OwnerIdle /\ ops # <<>>
  /\ Becomes([s EXCEPT !.h.pending_ops = @ - 1, !.m = IF last THEN "q_sh" ELSE @])
  /\ net' = IF kind = "Shutdown" /\ hdr.fd /\ "DESTROYED" \notin hdr.tflags
            THEN Shut ELSE net
  /\ UNCHANGED <<runtime, os, proto, mask, io, calls, signals, holds, timing>>

\* The loop deletes the headers in q_sh.
FreeHeader ==
  /\ OwnerIdle /\ mem = "q_sh"
  /\ mem' = "freed"
  /\ UNCHANGED <<runtime, sockvars, ops, holds, timing>>

\* On BSD, and where one coroutine does everything, it is on the owner.
LifeInit ==
  /\ ops = <<>> /\ mem = "live" /\ timing = "never"
  /\ holds = [t \in Tasks |->
                Home[t] = Owner \/ (os = "linux" /\ proto \notin {"solo", "connect"})]
=============================================================================
