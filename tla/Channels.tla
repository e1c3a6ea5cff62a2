------------------------------ MODULE Channels ------------------------------
(***************************************************************************)
(* AsyncChannel, AsyncUnboundedChannel, CancellationToken::on_cancel(),    *)
(* sync::select() and select_recv() (sync/AsyncChannel.h,                  *)
(* AsyncUnboundedChannel.h, AsyncCancellation.h, Select.h).                *)
(*                                                                         *)
(* All of them run one loop: poll every branch; when none completes, link  *)
(* one node per branch, look again, arm the cancel hook and suspend.  A    *)
(* branch is a pair: <<channel, "recv">>, <<channel, "send">>,             *)
(* <<Token, "cancel">> or <<task, "sleep">>.  recv(), send() and           *)
(* on_cancel() have one branch and claim a waiter by its node (OpWait);    *)
(* the selects have several nodes that share one winner word.              *)
(*                                                                         *)
(* A waker's glance at an empty list changes nothing, so it and the pop    *)
(* under the list lock are one step.                                       *)
(***************************************************************************)
EXTENDS Coroutines, WaitList, FiniteSets

CONSTANTS
  Chans,      \* the channels
  Unbounded,  \* those that are AsyncUnboundedChannel
  Capacity,   \* of the others
  Token,      \* an outside cancellation token
  Programs,   \* which operations each coroutine may call, one choice per run
  MaxCalls    \* bound: calls in all

ASSUME ChannelAssumption ==
  /\ Unbounded \subseteq Chans /\ Token \notin Chans
  /\ Capacity \in Nat \ {0} /\ MaxCalls \in Nat

ASSUME TasksAssumption == IsFiniteSet(Tasks)

VARIABLES
  prog,      \* the operations the coroutines call
  queue_,    \* the values in each channel, numbered as they were sent
  closed_,   \* closed_ of each channel
  token,     \* CancelState::requested of the token
  list,      \* the nodes <<task, branch index>> linked at each branch
  timer,     \* each select's sleep: off, armed or fired
  call,      \* each coroutine's operation and where it is in it
  winner,    \* the claim word: 0, the branch that fired, or Cancelled
  sent,      \* values put into each channel so far
  atclose,   \* of them, before it was closed
  calls      \* calls made

chanvars == <<prog, queue_, closed_, token, list, timer, call, winner, sent, atclose, calls>>

vars == <<runtime, chanvars>>

Cancelled == -2

Branches == (Chans \X {"recv", "send"}) \cup {<<Token, "cancel">>} \cup (Tasks \X {"sleep"})

Selects == {"select", "select_recv"}

Kinds == {"send", "try_send", "recv", "try_recv", "on_cancel", "close", "request"} \cup Selects

\* What a program may call: each operation has a branch, select_recv() only
\* receives, close() is called on a channel, on_cancel() waits for its token, and
\* a sleep is the coroutine's own.
ASSUME ProgramsAssumption ==
  \A p \in Programs : \A t \in Tasks : \A o \in p[t] :
    /\ o.kind \in Kinds /\ o.br \in Seq(Branches) /\ o.br # <<>>
    /\ o.entry \in {"poll", "close", "request"}
    /\ o.kind = "select_recv" => InList(o.br) \subseteq Chans \X {"recv"}
    /\ o.entry = "close" => o.br[1] \in Chans \X {"recv"}
    /\ o.kind = "on_cancel" => InList(o.br) \subseteq {<<Token, "cancel">>}
    /\ InList(o.br) \cap (Tasks \X {"sleep"}) \subseteq {<<t, "sleep">>}

NoCall == [kind |-> "none", pc |-> "idle", br |-> <<>>, k |-> 1, start |-> 1, alive |-> {},
           res |-> "none"]

Full(c) == c \notin Unbounded /\ Len(queue_[c]) >= Capacity

drained(c) == closed_[c] /\ queue_[c] = <<>>

(***************************************************************************)
(* Steps of a coroutine in its call                                        *)
(***************************************************************************)

At(t, pc) == Runs(t) /\ call[t].pc = pc

N(t) == Len(call[t].br)

\* The branch a polling round is at, rotated, and the one being linked.
Polled(t) == ((call[t].start + call[t].k - 2) % N(t)) + 1

Branch(t) == call[t].br[call[t].k]

Goto(t, pc) == call' = [call EXCEPT ![t].pc = pc]

Completed(t, res) == call' = [call EXCEPT ![t].pc = "finish", ![t].res = res]

\* The next branch of the round; after the last one a try_ call has failed and
\* the others wait.
NextPoll(t) ==
  call' = [call EXCEPT
    ![t].pc = CASE call[t].k < N(t) -> "poll"
                [] call[t].k = N(t) /\ call[t].kind \in {"try_send", "try_recv"} -> "finish"
                [] call[t].k = N(t) /\ call[t].kind = "select_recv" -> "drained"
                [] OTHER -> "check",
    ![t].k = IF call[t].k < N(t) THEN @ + 1 ELSE 1,
    ![t].res = IF call[t].k = N(t) THEN "failed" ELSE @]

\* A call; the selects begin at a rotating branch.
Start(t) ==
  /\ Runs(t) /\ call[t].pc = "idle" /\ calls < MaxCalls
  /\ \E o \in prog[t] :
       \E s \in (IF o.kind \in Selects THEN 1..Len(o.br) ELSE {1}) :
         call' = [call EXCEPT ![t] = [NoCall EXCEPT !.kind = o.kind, !.br = o.br, !.start = s,
                                        !.alive = DOMAIN o.br, !.pc = o.entry]]
  /\ calls' = calls + 1
  /\ UNCHANGED <<runtime, prog, queue_, closed_, token, list, timer, winner, sent, atclose>>

\* try_recv(): a dequeued value, and on a bounded channel a sender to wake;
\* otherwise recv() goes on to see whether the channel has ended.
PollRecv(t) ==
  LET b == call[t].br[Polled(t)]
      c == b[1]
  IN
  /\ At(t, "poll") /\ b[2] = "recv"
  /\ IF queue_[c] # <<>>
     THEN /\ queue_' = [queue_ EXCEPT ![c] = Tail(@)]
          /\ call' = [call EXCEPT ![t].pc = IF c \in Unbounded THEN "finish" ELSE "notify",
                                  ![t].res = "value", ![t].k = Polled(t), ![t].start = 1]
     ELSE /\ UNCHANGED queue_
          /\ IF call[t].kind \in {"recv", "select"} THEN Goto(t, "ended") ELSE NextPoll(t)
  /\ UNCHANGED <<runtime, prog, closed_, token, list, timer, winner, sent, atclose, calls>>

\* Mutant: a closed channel has ended, whatever it still holds.
RecvEndedEarly(t) ==
  /\ At(t, "ended")
  /\ IF closed_[call[t].br[Polled(t)][1]] THEN Completed(t, "nullopt") ELSE NextPoll(t)
  /\ UNCHANGED <<runtime, prog, queue_, closed_, token, list, timer, winner, sent, atclose,
                 calls>>

\* ChannelRecvOp::try_complete(): nullopt once closed and empty.
RecvEnded(t) ==
  /\ At(t, "ended")
  /\ IF drained(call[t].br[Polled(t)][1]) THEN Completed(t, "nullopt") ELSE NextPoll(t)
  /\ UNCHANGED <<runtime, prog, queue_, closed_, token, list, timer, winner, sent, atclose,
                 calls>>

\* ChannelSendOp::try_complete(): false once closed.
PollSend(t) ==
  LET b == call[t].br[Polled(t)] IN
  /\ At(t, "poll") /\ b[2] = "send"
  /\ IF closed_[b[1]] THEN Completed(t, "closed") ELSE Goto(t, "send")
  /\ UNCHANGED <<runtime, prog, queue_, closed_, token, list, timer, winner, sent, atclose,
                 calls>>

\* try_send_tuple(): looks at closed_ again, then enqueues.
SendChecked(t) ==
  /\ At(t, "send")
  /\ IF closed_[call[t].br[Polled(t)][1]] THEN NextPoll(t) ELSE Goto(t, "enqueue")
  /\ UNCHANGED <<runtime, prog, queue_, closed_, token, list, timer, winner, sent, atclose,
                 calls>>

Enqueue(t) ==
  LET c == call[t].br[Polled(t)][1] IN
  /\ At(t, "enqueue")
  /\ IF Full(c)
     THEN NextPoll(t) /\ UNCHANGED <<queue_, sent, atclose>>
     ELSE /\ queue_' = [queue_ EXCEPT ![c] = Append(@, sent[c] + 1)]
          /\ sent' = [sent EXCEPT ![c] = @ + 1]
          /\ atclose' = [atclose EXCEPT ![c] = IF closed_[c] THEN @ ELSE @ + 1]
          /\ call' = [call EXCEPT ![t].pc = "notify", ![t].res = "sent",
                                  ![t].k = Polled(t), ![t].start = 1]
  /\ UNCHANGED <<runtime, prog, closed_, token, list, timer, winner, calls>>

\* The token and the sleep.
PollFlag(t) ==
  LET b == call[t].br[Polled(t)] IN
  /\ At(t, "poll") /\ b[2] \in {"cancel", "sleep"}
  /\ IF (b[2] = "cancel" /\ token) \/ (b[2] = "sleep" /\ timer[t] = "fired")
     THEN Completed(t, "fired") ELSE NextPoll(t)
  /\ UNCHANGED <<runtime, prog, queue_, closed_, token, list, timer, winner, sent, atclose,
                 calls>>

\* select_recv() ends when every channel has, and waits on the others.
SelectDrained(t) ==
  LET alive == {i \in 1..N(t) : ~drained(call[t].br[i][1])} IN
  /\ At(t, "drained")
  /\ IF alive = {} THEN Completed(t, "nullopt")
     ELSE call' = [call EXCEPT ![t].pc = "check", ![t].alive = alive]
  /\ UNCHANGED <<runtime, prog, queue_, closed_, token, list, timer, winner, sent, atclose,
                 calls>>

(***************************************************************************)
(* Wakers                                                                  *)
(***************************************************************************)

\* Popped from the front: nodes up to and with the k-th that can be claimed.
Claimable(l, n) == {i \in 1..n : winner[l[i][1]] = 0}

PoppedFor(l, k) ==
  CHOOSE n \in 0..Len(l) :
    /\ n = Len(l) \/ Cardinality(Claimable(l, n)) = k
    /\ \A m \in 0..(n - 1) : Cardinality(Claimable(l, m)) < k

\* fire_waiter() on the popped nodes.
Fire(b, k) ==
  LET l == list[b]
      n == PoppedFor(l, k)
      fired == {l[i] : i \in Claimable(l, n)}
  IN /\ list' = [list EXCEPT ![b] = SubSeq(l, n + 1, Len(l))]
     /\ winner' = [t \in Tasks |->
                     IF \E f \in fired : f[1] = t THEN (CHOOSE f \in fired : f[1] = t)[2]
                     ELSE winner[t]]
     /\ ready' = resume_on({f[1] : f \in fired})

\* Whom the completed branch of t wakes.
Other(b) == <<b[1], IF b[2] = "send" THEN "recv" ELSE "send">>

\* wake_one_waiter().
WakeOneWaiter(t) ==
  /\ At(t, "notify")
  /\ Fire(Other(Branch(t)), 1)
  /\ Goto(t, "finish")
  /\ UNCHANGED <<running, cancel_fn, requested, kick, prog, queue_, closed_, token, timer, sent,
                 atclose, calls>>

\* close(): only the first one wakes.
Close(t) ==
  LET c == Branch(t)[1] IN
  /\ At(t, "close")
  /\ closed_' = [closed_ EXCEPT ![c] = TRUE]
  /\ Goto(t, IF closed_[c] THEN "finish" ELSE "wake_recv")
  /\ UNCHANGED <<runtime, prog, queue_, token, list, timer, winner, sent, atclose, calls>>

\* wake_all_waiters() for the receivers, then for the senders: pops every node.
WakeAllWaiters(t) ==
  LET side == IF call[t].pc = "wake_recv" THEN "recv" ELSE "send"
      b == <<Branch(t)[1], side>>
  IN
  /\ Runs(t) /\ call[t].pc \in {"wake_recv", "wake_send"}
  /\ Fire(b, Len(list[b]))
  /\ Goto(t, IF side = "recv" THEN "wake_send" ELSE "finish")
  /\ UNCHANGED <<running, cancel_fn, requested, kick, prog, queue_, closed_, token, timer, sent,
                 atclose, calls>>

\* CancellationSource::request_cancel(): the flag, then the token's waiters.
RequestToken(t) ==
  /\ At(t, "request")
  /\ token' = TRUE
  /\ Goto(t, IF token THEN "finish" ELSE "wake_token")
  /\ UNCHANGED <<runtime, prog, queue_, closed_, list, timer, winner, sent, atclose, calls>>

WakeToken(t) ==
  /\ At(t, "wake_token")
  /\ Fire(<<Token, "cancel">>, Len(list[<<Token, "cancel">>]))
  /\ Goto(t, "finish")
  /\ UNCHANGED <<running, cancel_fn, requested, kick, prog, queue_, closed_, token, timer, sent,
                 atclose, calls>>

\* SleepOp::on_fire(), from the worker's wheel.
OnFire(t) ==
  /\ Idle(t) /\ timer[t] = "armed"
  /\ timer' = [timer EXCEPT ![t] = "fired"]
  /\ Fire(<<t, "sleep">>, 1)
  /\ UNCHANGED <<running, cancel_fn, requested, kick, prog, queue_, closed_, token, call, sent,
                 atclose, calls>>

(***************************************************************************)
(* Waiting                                                                 *)
(***************************************************************************)

Linked(t, i) == <<t, i>> \in InList(list[call[t].br[i]])

Unlinked(t, i) == [list EXCEPT ![call[t].br[i]] = remove_locked(@, <<t, i>>)]

\* Whether the branch, looked at after the node was linked, must be waited for.
MustWait(t, b) ==
  CASE b[2] = "recv" -> queue_[b[1]] = <<>> /\ ~closed_[b[1]]
    [] b[2] = "send" -> Full(b[1]) /\ ~closed_[b[1]]
    [] b[2] = "cancel" -> ~token
    [] b[2] = "sleep" -> timer[t] # "fired"

Waits(t, points) == Runs(t) /\ call[t].pc \in points
                    /\ UNCHANGED <<prog, queue_, closed_, token, sent, atclose, calls>>

\* The first and the next branch with a node.
After(t, k) == {i \in call[t].alive : i > k}

Least(s) == CHOOSE i \in s : \A j \in s : i <= j

\* A task that is cancelled does not wait.
CheckCancel(t) ==
  /\ Waits(t, {"check"})
  /\ IF requested[t] THEN Completed(t, "cancelled")
     ELSE call' = [call EXCEPT ![t].pc = "attach", ![t].k = Least(call[t].alive)]
  /\ UNCHANGED <<runtime, list, timer, winner>>

\* attach(): link the node; the first park of a sleep adds its timer.
Attach(t) ==
  LET b == Branch(t) IN
  /\ Waits(t, {"attach"})
  /\ list' = [list EXCEPT ![b] = push_locked(@, <<t, call[t].k>>)]
  /\ timer' = IF b[2] = "sleep" /\ timer[t] = "off" THEN [timer EXCEPT ![t] = "armed"]
              ELSE timer
  /\ Goto(t, "recheck")
  /\ UNCHANGED <<runtime, winner>>

\* Mutant: attach() trusts the look before the node was linked.
RecheckSkipped(t) ==
  /\ Waits(t, {"recheck"})
  /\ call' = [call EXCEPT
       ![t].pc = IF After(t, call[t].k) # {} THEN "attach" ELSE "arm",
       ![t].k = IF After(t, @) # {} THEN Least(After(t, @)) ELSE 1]
  /\ UNCHANGED <<runtime, list, timer, winner>>

\* attach() after the fence: the first branch that need not be waited for ends
\* the linking.
Recheck(t) ==
  LET stays == MustWait(t, Branch(t)) IN
  /\ Waits(t, {"recheck"})
  /\ call' = [call EXCEPT
       ![t].pc = CASE ~stays -> "detach"
                   [] stays /\ After(t, call[t].k) # {} -> "attach"
                   [] OTHER -> "arm",
       ![t].k = IF stays /\ After(t, call[t].k) # {} THEN Least(After(t, call[t].k)) ELSE 1]
  /\ UNCHANGED <<runtime, list, timer, winner>>

\* Back to polling, with a fresh claim word.
Again(t) ==
  /\ call' = [call EXCEPT ![t].pc = "poll", ![t].k = 1]
  /\ winner' = [winner EXCEPT ![t] = 0]

Parks(t) == call' = [call EXCEPT ![t].pc = "parked", ![t].k = 1] /\ Suspend(t)

\* No wait: unlink, and poll again unless a waker has the coroutine already.
Detach(t) ==
  /\ Waits(t, {"detach"})
  /\ list' = Unlinked(t, call[t].k)
  /\ IF call[t].k < N(t)
     THEN call' = [call EXCEPT ![t].k = @ + 1] /\ UNCHANGED <<winner, running>>
     ELSE IF winner[t] = 0 THEN Again(t) /\ UNCHANGED running
     ELSE Parks(t) /\ UNCHANGED winner
  /\ UNCHANGED <<ready, cancel_fn, requested, kick, timer>>

ArmCancel(t) ==
  /\ Waits(t, {"arm"})
  /\ cancel_fn' = [cancel_fn EXCEPT ![t] = TRUE]
  /\ IF requested[t] THEN Goto(t, "withdraw") /\ UNCHANGED running ELSE Parks(t)
  /\ UNCHANGED <<ready, requested, kick, list, timer, winner>>

\* Cancelled while arming, unless a waker was first.  OpWait claims by
\* unlinking its node, a select by the winner word.
WithdrawSelf(t) ==
  /\ Waits(t, {"withdraw"})
  /\ IF winner[t] = 0
     THEN /\ winner' = [winner EXCEPT ![t] = Cancelled]
          /\ cancel_fn' = [cancel_fn EXCEPT ![t] = FALSE]
          /\ call' = [call EXCEPT ![t].pc = "leave", ![t].k = 1]
          /\ UNCHANGED running
     ELSE Parks(t) /\ UNCHANGED <<winner, cancel_fn>>
  /\ list' = IF call[t].kind \notin Selects THEN Unlinked(t, 1) ELSE list
  /\ UNCHANGED <<ready, requested, kick, timer>>

Resume(t) ==
  /\ LoopResume(t)
  /\ call' = IF call[t].pc = "parked" THEN [call EXCEPT ![t].pc = "leave", ![t].k = 1] ELSE call
  /\ UNCHANGED <<requested, kick, prog, queue_, closed_, token, list, timer, winner, sent,
                 atclose, calls>>

\* Mutant: a resumed select unlinks the branch that fired and forgets the rest.
LeaveOne(t) ==
  /\ Waits(t, {"leave"})
  /\ UNCHANGED list
  /\ IF winner[t] = Cancelled
     THEN Completed(t, "cancelled") /\ winner' = [winner EXCEPT ![t] = 0]
     ELSE Again(t)
  /\ UNCHANGED <<runtime, timer>>

\* await_resume(), one node after the other: cancelled, or poll again.
\* on_cancel() returns what the token says.
Leave(t) ==
  /\ Waits(t, {"leave"})
  /\ list' = Unlinked(t, call[t].k)
  /\ CASE call[t].k < N(t) -> call' = [call EXCEPT ![t].k = @ + 1] /\ UNCHANGED winner
       [] call[t].k = N(t) /\ winner[t] = Cancelled ->
            Completed(t, "cancelled") /\ winner' = [winner EXCEPT ![t] = 0]
       [] call[t].k = N(t) /\ winner[t] # Cancelled /\ call[t].kind = "on_cancel" ->
            Completed(t, IF token THEN "fired" ELSE "failed") /\ winner' = [winner EXCEPT ![t] = 0]
       [] OTHER -> Again(t)
  /\ UNCHANGED <<runtime, timer>>

\* on_cancel() of OpWait and of the selects, from the worker's kick queue.
OnCancel(t) ==
  /\ TakeKick(t)
  /\ IF cancel_fn[t] /\ winner[t] = 0
     THEN /\ winner' = [winner EXCEPT ![t] = Cancelled]
          /\ ready' = resume_on({t})
          /\ list' = IF call[t].kind \notin Selects THEN Unlinked(t, 1) ELSE list
     ELSE UNCHANGED <<winner, ready, list>>
  /\ UNCHANGED <<prog, queue_, closed_, token, timer, call, sent, atclose, calls>>

\* finalize() takes the timer back; the call returns.
Finish(t) ==
  /\ At(t, "finish")
  /\ timer' = [timer EXCEPT ![t] = "off"]
  /\ call' = [call EXCEPT ![t] = NoCall]
  /\ UNCHANGED <<runtime, prog, queue_, closed_, token, list, winner, sent, atclose, calls>>

Cancel(t) == (RequestCancel(t) \/ PushKick(t)) /\ UNCHANGED chanvars

Polling(t) ==
  \/ Start(t) \/ PollRecv(t) \/ RecvEnded(t) \/ PollSend(t) \/ SendChecked(t) \/ Enqueue(t)
  \/ PollFlag(t) \/ SelectDrained(t) \/ WakeOneWaiter(t) \/ Close(t) \/ WakeAllWaiters(t)
  \/ RequestToken(t) \/ WakeToken(t) \/ Finish(t)

Waiting(t) ==
  \/ CheckCancel(t) \/ Attach(t) \/ Recheck(t) \/ Detach(t) \/ ArmCancel(t) \/ WithdrawSelf(t)
  \/ Leave(t)

Looping(t) == Resume(t) \/ OnCancel(t) \/ OnFire(t)

Init ==
  /\ RuntimeInit
  /\ prog \in Programs
  /\ queue_ = [c \in Chans |-> <<>>] /\ closed_ = [c \in Chans |-> FALSE]
  /\ token = FALSE
  /\ list = [b \in Branches |-> <<>>]
  /\ timer = [t \in Tasks |-> "off"]
  /\ call = [t \in Tasks |-> NoCall]
  /\ winner = [t \in Tasks |-> 0]
  /\ sent = [c \in Chans |-> 0] /\ atclose = [c \in Chans |-> 0]
  /\ calls = 0

Next ==
  \E t \in Tasks : Polling(t) \/ Waiting(t) \/ Looping(t) \/ Cancel(t)

Spec == Init /\ [][Next]_vars

(***************************************************************************)
(* Properties                                                              *)
(***************************************************************************)

\* t is linked at b and has looked at it for the last time.
Committed(t, b) ==
  \E i \in DOMAIN call[t].br :
    /\ call[t].br[i] = b /\ Linked(t, i) /\ winner[t] = 0
    /\ \/ call[t].pc \in {"arm", "withdraw", "parked"}
       \/ call[t].pc = "attach" /\ i < call[t].k
       \/ call[t].pc = "recheck" /\ i < call[t].k

\* t will look at b, or is about to wake somebody who waits there.
Watching(t, b) ==
  \/ call[t].pc = "notify" /\ Other(Branch(t)) = b
  \/ call[t].pc = "wake_recv" /\ b[1] = Branch(t)[1]
  \/ call[t].pc = "wake_send" /\ b = <<Branch(t)[1], "send">>
  \/ call[t].pc = "wake_token" /\ b[2] = "cancel"
  \/ /\ b \in InList(call[t].br)
     /\ \/ call[t].pc \in {"poll", "ended", "send", "enqueue", "drained", "check", "attach",
                          "recheck", "detach"}
        \/ call[t].pc \in {"parked", "leave", "arm", "withdraw"} /\ winner[t] > 0

\* The calls that suspend, and programs in which the coroutines that wait on a
\* select's channels do so on different sides.
MayWait(o) == o.entry = "poll" /\ o.kind \notin {"try_send", "try_recv"}

Uncontended ==
  \A p \in Programs : \A t, u \in Tasks :
    t # u => \A o \in p[t], r \in p[u] :
      MayWait(o) /\ Len(o.br) > 1 /\ MayWait(r) =>
        InList(o.br) \cap InList(r.br) \cap (Chans \X {"recv", "send"}) = {}

\* Nobody is left waiting for what has happened: while a channel has a value, has
\* room or is closed, or the token is set, each coroutine that waits for it has a
\* waker on the way, or another that was woken is still to look; and one whose task
\* was cancelled has its kick on the way.  For channels on which a select competes
\* with another waiter see SenderResumesWithRoom.
NobodyStranded ==
  /\ \A b \in Branches : \A t \in Tasks :
       Committed(t, b) /\ ~MustWait(t, b) => \E u \in Tasks \ {t} : Watching(u, b)
  /\ \A t \in Tasks : call[t].pc = "parked" /\ requested[t] /\ winner[t] = 0 =>
       kick[t] # "none" /\ cancel_fn[t]

\* However many branches fire and whether the task is cancelled meanwhile, a
\* coroutine is resumed once: one handle, and none while it runs except in the
\* window in which its nodes are linked already.
ResumedOnce ==
  \A t \in Tasks :
    /\ ready[t] <= 1
    /\ Runs(t) /\ call[t].pc \notin {"attach", "recheck", "detach", "arm", "withdraw"} =>
         ready[t] = 0
    /\ call[t].pc = "parked" => (ready[t] = 1) = (winner[t] # 0)

\* The nodes are in the coroutine's frame: none is linked anywhere, and no timer
\* knows it, once the call polls again or returns.
NoDanglingNode ==
  /\ \A b \in Branches : \A n \in InList(list[b]) :
       call[n[1]].pc \in {"attach", "recheck", "detach", "arm", "withdraw", "parked", "leave"}
  /\ \A t \in Tasks : call[t].pc = "idle" => timer[t] = "off"

\* However a wait ends, it ends once and leaves nothing behind (SelectSuspend,
\* MultiRecvWait and their shared winner word).
WaitsEndCleanly == ResumedOnce /\ NoDanglingNode

\* docs/channels/channels.md: receivers drain what was buffered before the close:
\* when one is told that the channel has ended, all of that was taken.
DrainedBeforeTheEnd ==
  \A t \in Tasks : call[t].pc = "finish" /\ call[t].res = "nullopt" =>
    \E i \in DOMAIN call[t].br :
      LET c == call[t].br[i][1] IN
      /\ c \in Chans /\ closed_[c]
      /\ \A j \in DOMAIN queue_[c] : queue_[c][j] > atclose[c]

\* docs/channels/channels.md: "If the buffer is full, the coroutine suspends until
\* space becomes available."
SenderResumesWithRoom ==
  \A c \in Chans : \A t \in Tasks :
    Committed(t, <<c, "send">>) /\ ~Full(c) => \E u \in Tasks \ {t} : Watching(u, <<c, "send">>)
=============================================================================
