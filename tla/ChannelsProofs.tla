--------------------------- MODULE ChannelsProofs ---------------------------
(***************************************************************************)
(* Channels and select(), for any number of coroutines, channels and       *)
(* branches: a wait ends once and leaves no node behind; a receiver is     *)
(* told that a channel has ended only when all that was sent before the    *)
(* close has been taken; and nobody is left waiting for a value, for room, *)
(* for a close or for a cancellation that has come, where no select        *)
(* competes with another waiter.                                           *)
(***************************************************************************)
EXTENDS Channels, WaitListProofs, FiniteSetTheorems, WellFoundedInduction

\* Every nonempty set of naturals has a least element.
LEMMA LeastExists ==
  ASSUME NEW S \in SUBSET Nat, S # {}
  PROVE  \E i \in S : \A j \in S : i <= j
<1> DEFINE R == {p \in Nat \X Nat : p[1] < p[2]}
<1>1. IsWellFoundedOn(R, Nat)
  BY NatLessThanWellFounded, Zenon DEF OpToRel
<1>2. \E i \in S : \A j \in S : ~(<<j, i>> \in R)
  BY <1>1, WFMin, Zenon
<1>3. PICK i \in S : \A j \in S : ~(<<j, i>> \in R)
  BY <1>2
<1>4. ASSUME NEW j \in S PROVE i <= j
  <2>1. ~(j < i)
    BY <1>3 DEF R
  <2> QED
    BY <2>1
<1> QED
  BY <1>4

(***************************************************************************)
(* The inductive invariant                                                 *)
(***************************************************************************)

\* A coroutine that runs with no node linked.
Busy == {"poll", "ended", "send", "enqueue", "drained", "check", "notify", "close", "wake_recv",
         "wake_send", "request", "wake_token", "finish"}

\* It runs, and wakers may know its nodes.
Linking == {"attach", "recheck", "detach", "arm", "withdraw"}

Points == Busy \cup Linking \cup {"idle", "parked", "leave"}

Types ==
  /\ RuntimeTypeOK
  /\ prog \in Programs
  /\ queue_ \in [Chans -> Seq(Nat)] /\ closed_ \in [Chans -> BOOLEAN]
  /\ sent \in [Chans -> Nat] /\ atclose \in [Chans -> Nat]
  /\ timer \in [Tasks -> {"off", "armed", "fired"}]
  /\ winner \in [Tasks -> Nat \cup {Cancelled}]
  /\ DOMAIN call = Tasks
  /\ list \in [Branches -> Seq(Tasks \X Nat)]
  /\ \A b \in Branches : Distinct(list[b])

CallRecords ==
  [kind : Kinds \cup {"none"}, pc : Points, br : Seq(Branches), k : Nat, start : Nat,
   alive : SUBSET Nat,
   res : {"none", "value", "sent", "nullopt", "closed", "fired", "failed", "cancelled"}]

\* The record of a call: the branch it is at exists, and is of the right sort.
CallInv(t) ==
  LET c == call[t] IN
  /\ c \in CallRecords
  /\ c.pc # "idle" =>
       /\ c.k \in 1..N(t) /\ c.start \in 1..N(t)
       /\ c.alive \subseteq 1..N(t) /\ c.alive # {}
  /\ c.pc # "finish" => c.res # "nullopt"
  /\ c.kind = "select_recv" => InList(c.br) \subseteq Chans \X {"recv"}
  /\ c.pc = "drained" => c.kind = "select_recv"
  /\ c.pc = "ended" => c.br[Polled(t)] \in Chans \X {"recv"}
  /\ c.pc \in {"send", "enqueue"} => c.br[Polled(t)] \in Chans \X {"send"}
  /\ c.pc = "notify" => Branch(t) \in Chans \X {"recv", "send"}
  /\ c.pc \in {"close", "wake_recv", "wake_send"} => Branch(t) \in Chans \X {"recv"}

\* The right to resume a coroutine is in one place: while its claim word is 0
\* no handle of it is queued, and whoever claims the word queues one.  The hook
\* is armed only where a claim may still come from it.
TokenInv(t) ==
  /\ call[t].pc \in Busy => Runs(t) /\ ready[t] = 0 /\ winner[t] = 0
  /\ call[t].pc = "idle" =>
       ready[t] = (IF Runs(t) THEN 0 ELSE 1) /\ winner[t] = 0 /\ timer[t] = "off"
  /\ call[t].pc \in Linking =>
       Runs(t) /\ winner[t] # Cancelled /\ ready[t] = (IF winner[t] = 0 THEN 0 ELSE 1)
  /\ call[t].pc = "parked" => ~Runs(t) /\ ready[t] = (IF winner[t] = 0 THEN 0 ELSE 1)
  /\ call[t].pc = "leave" => Runs(t) /\ ready[t] = 0 /\ winner[t] # 0
  /\ cancel_fn[t] => call[t].pc \in {"withdraw", "parked"}

\* The node of branch i of t may be linked: linking goes up the branches, and
\* unlinking goes up them too.
MayBeLinked(t, i) ==
  \/ call[t].pc \in {"arm", "withdraw", "parked"}
  \/ call[t].pc = "attach" /\ i < call[t].k
  \/ call[t].pc = "recheck" /\ i <= call[t].k
  \/ call[t].pc \in {"detach", "leave"} /\ i >= call[t].k

\* A node that is linked is of a call that will unlink it, at its own branch.
LinkInv(t) ==
  \A b \in Branches : \A i \in Nat :
    <<t, i>> \in InList(list[b]) => i \in 1..N(t) /\ call[t].br[i] = b /\ MayBeLinked(t, i)

\* The channel c has ended for its receivers.
Ended(c) == closed_[c] /\ \A j \in DOMAIN queue_[c] : queue_[c][j] > atclose[c]

EndInv(t) ==
  call[t].pc = "finish" /\ call[t].res = "nullopt" =>
    \E i \in DOMAIN call[t].br : call[t].br[i][1] \in Chans /\ Ended(call[t].br[i][1])

TaskInv(t) == CallInv(t) /\ TokenInv(t) /\ LinkInv(t) /\ EndInv(t)

IInv ==
  /\ Types
  /\ \A c \in Chans : atclose[c] <= sent[c]
  /\ \A t \in Tasks : TaskInv(t)

(***************************************************************************)
(* Coroutines that a step does not concern                                 *)
(***************************************************************************)

\* Nothing that TaskInv(u) is about changes, but for nodes that are unlinked.
Unaffected(u) ==
  /\ call'[u] = call[u] /\ winner'[u] = winner[u] /\ ready'[u] = ready[u]
  /\ Runs(u)' <=> Runs(u)
  /\ cancel_fn'[u] => cancel_fn[u]
  /\ call[u].pc = "idle" => timer'[u] = timer[u]
  /\ \A b \in Branches : \A i \in Nat :
       <<u, i>> \in InList(list'[b]) => <<u, i>> \in InList(list[b])

\* A channel that has ended stays so.
EndsKept == \A c \in Chans : Ended(c) => Ended(c)'

Bound == \A c \in Chans : atclose[c] <= sent[c]

\* What a call was told of an ended channel stays true while its record stays.
LEMMA EndKept ==
  ASSUME NEW u \in Tasks, EndInv(u), EndsKept, call'[u] = call[u]
  PROVE  EndInv(u)'
BY DEF EndInv, EndsKept

\* A coroutine that a step does not touch keeps its invariant.
LEMMA UnaffectedKept ==
  ASSUME NEW u \in Tasks, TaskInv(u), Unaffected(u), EndsKept
  PROVE  TaskInv(u)'
<1>1. CallInv(u)'
  BY DEF TaskInv, Unaffected, CallInv, N, Polled, Branch
<1>2. TokenInv(u)'
  BY DEF TaskInv, Unaffected, TokenInv
<1>3. LinkInv(u)'
  BY DEF TaskInv, Unaffected, LinkInv, MayBeLinked, N
<1>4. EndInv(u)'
  BY EndKept DEF TaskInv, Unaffected
<1> QED
  BY <1>1, <1>2, <1>3, <1>4 DEF TaskInv

\* A step of t that concerns no other coroutine.
LEMMA LocalStep ==
  ASSUME IInv, NEW t \in Tasks, Types', Bound', EndsKept,
         \A u \in Tasks \ {t} : Unaffected(u), TaskInv(t)'
  PROVE  IInv'
BY UnaffectedKept DEF IInv, Bound

\* A step of t between two points at which none of its nodes is linked, which
\* touches no wait list.
LEMMA BusyStep ==
  ASSUME IInv, NEW t \in Tasks, Runs(t), call[t].pc \in Busy \cup {"idle"},
         UNCHANGED <<runtime, list, winner, timer>>,
         Types', Bound', EndsKept,
         \A u \in Tasks \ {t} : call'[u] = call[u],
         call'[t].pc \in Busy, CallInv(t)', EndInv(t)'
  PROVE  IInv'
<1>1. TaskInv(t) /\ Types
  BY DEF IInv
<1>2. \A u \in Tasks \ {t} : Unaffected(u)
  BY DEF Unaffected, Runs, runtime
<1>3. ready[t] = 0 /\ winner[t] = 0 /\ ~cancel_fn[t]
  BY <1>1 DEF TaskInv, TokenInv, Busy
<1>4. TokenInv(t)'
  <2>1. call'[t].pc \notin Linking \cup {"idle", "parked", "leave"}
    BY DEF Busy, Linking
  <2>2. Runs(t)' /\ ready'[t] = 0 /\ winner'[t] = 0 /\ ~cancel_fn'[t]
    BY <1>3 DEF runtime, Runs
  <2> QED
    BY <2>1, <2>2 DEF TokenInv
<1>5. \A b \in Branches : \A i \in Nat : <<t, i>> \notin InList(list[b])
  BY <1>1 DEF TaskInv, LinkInv, MayBeLinked, Busy
<1>6. LinkInv(t)'
  BY <1>5 DEF LinkInv
<1> QED
  BY <1>2, <1>4, <1>6, LocalStep DEF TaskInv

(***************************************************************************)
(* Polling                                                                 *)
(***************************************************************************)

\* The branch that try_complete() looks at is one of the call's branches.
LEMMA PolledIn ==
  ASSUME NEW t \in Tasks, CallInv(t), call[t].pc # "idle"
  PROVE  Polled(t) \in 1..N(t) /\ N(t) \in Nat \ {0}
<1>1. N(t) \in Nat /\ call[t].k \in 1..N(t) /\ call[t].start \in 1..N(t)
  BY DEF CallInv, N
<1>2. N(t) > 0
  BY <1>1
<1>3. call[t].start + call[t].k - 2 \in Nat
  BY <1>1
<1> DEFINE n == N(t)
           m == call[t].start + call[t].k - 2
<1> HIDE DEF n, m
<1>4. n \in Nat /\ n > 0 /\ m \in Nat
  BY <1>1, <1>2, <1>3 DEF n, m
<1>5. m % n \in 0..(n - 1)
  BY <1>4
<1>6. (m % n) + 1 \in 1..n
  BY <1>4, <1>5
<1> QED
  BY <1>4, <1>6 DEF n, m, Polled

\* The channels are as they were.
LEMMA SameChannels ==
  ASSUME IInv, UNCHANGED <<queue_, closed_, sent, atclose>>
  PROVE  Bound' /\ EndsKept
BY DEF IInv, Bound, EndsKept, Ended

\* A step of t that only moves t on, between points of Busy.
LEMMA MoveStep ==
  ASSUME IInv, NEW t \in Tasks, Runs(t), call[t].pc \in Busy,
         NEW r, call' = [call EXCEPT ![t] = r],
         UNCHANGED <<runtime, prog, queue_, closed_, list, timer, winner, sent, atclose>>,
         r.pc \in Busy, CallInv(t)', EndInv(t)'
  PROVE  IInv'
<1>1. Types'
  BY DEF IInv, Types, RuntimeTypeOK, runtime
<1>2. call'[t] = r /\ \A u \in Tasks \ {t} : call'[u] = call[u]
  BY DEF IInv, Types
<1>3. Bound' /\ EndsKept
  BY SameChannels
<1> QED
  BY <1>1, <1>2, <1>3, BusyStep

\* The next branch of the round, or its end.
LEMMA NextPollStep ==
  ASSUME IInv, NEW t \in Tasks, Runs(t), call[t].pc \in Busy \ {"finish"}, NextPoll(t),
         UNCHANGED <<runtime, prog, queue_, closed_, list, timer, winner, sent, atclose>>
  PROVE  IInv'
<1> DEFINE c == call[t]
           pcn == CASE c.k < N(t) -> "poll"
                    [] c.k = N(t) /\ c.kind \in {"try_send", "try_recv"} -> "finish"
                    [] c.k = N(t) /\ c.kind = "select_recv" -> "drained"
                    [] OTHER -> "check"
           kn == IF c.k < N(t) THEN c.k + 1 ELSE 1
           rn == IF c.k = N(t) THEN "failed" ELSE c.res
           r == [c EXCEPT !.pc = pcn, !.k = kn, !.res = rn]
<1>1. CallInv(t) /\ DOMAIN call = Tasks
  BY DEF IInv, Types, TaskInv
<1>2. c.k \in 1..N(t) /\ N(t) \in Nat
  BY <1>1 DEF CallInv, Busy, N
<1>3. call' = [call EXCEPT ![t] = r]
  <2> HIDE DEF pcn
  <2>1. call' = [call EXCEPT ![t].pc = pcn, ![t].k = IF c.k < N(t) THEN @ + 1 ELSE 1,
                             ![t].res = IF c.k = N(t) THEN "failed" ELSE @]
    BY Zenon DEF NextPoll, pcn
  <2> QED
    BY <1>1, <2>1 DEF CallInv, CallRecords
<1>4. kn \in 1..N(t) /\ pcn \in {"poll", "finish", "drained", "check"}
      /\ (pcn = "drained" => c.kind = "select_recv")
      /\ (pcn = "finish" => rn = "failed") /\ rn # "nullopt"
  BY <1>1, <1>2 DEF CallInv
<1> HIDE DEF pcn, kn, rn
<1>5. /\ r.pc = pcn /\ r.k = kn /\ r.res = rn /\ r.br = c.br /\ r.start = c.start
      /\ r.alive = c.alive /\ r.kind = c.kind
      /\ r \in CallRecords
  <2>1. c \in CallRecords /\ kn \in Nat /\ pcn \in Points
    BY <1>1, <1>2, <1>4 DEF CallInv, Points, Busy
  <2>2. rn \in {"none", "value", "sent", "nullopt", "closed", "fired", "failed", "cancelled"}
    BY <2>1 DEF rn, CallRecords
  <2> QED
    BY <2>1, <2>2 DEF CallRecords
<1>6. call'[t] = r
  BY <1>1, <1>3
<1>7. r.pc \in Busy
  BY <1>4, <1>5 DEF Busy
<1> HIDE DEF r
<1>8. CallInv(t)'
  BY <1>1, <1>4, <1>5, <1>6 DEF CallInv, N, Busy
<1>9. EndInv(t)'
  BY <1>4, <1>5, <1>6 DEF EndInv
<1> QED
  BY <1>3, <1>7, <1>8, <1>9, MoveStep

\* What a jump of t, and a result of t, change.
LEMMA GotoEffect ==
  ASSUME NEW t \in Tasks, CallInv(t), DOMAIN call = Tasks, NEW p \in Points, Goto(t, p)
  PROVE  /\ call' = [call EXCEPT ![t] = [call[t] EXCEPT !.pc = p]]
         /\ DOMAIN call' = Tasks
         /\ call'[t] \in CallRecords /\ call'[t] = [call[t] EXCEPT !.pc = p]
         /\ call'[t].pc = p /\ call'[t].kind = call[t].kind /\ call'[t].br = call[t].br
         /\ call'[t].k = call[t].k /\ call'[t].start = call[t].start
         /\ call'[t].alive = call[t].alive /\ call'[t].res = call[t].res
         /\ \A u \in Tasks \ {t} : call'[u] = call[u]
BY DEF CallInv, Goto, CallRecords

\* What finishing with a result does to the record of the call.
LEMMA CompletedEffect ==
  ASSUME NEW t \in Tasks, CallInv(t), DOMAIN call = Tasks,
         NEW res \in {"nullopt", "closed", "fired", "failed", "cancelled"}, Completed(t, res)
  PROVE  /\ call' = [call EXCEPT ![t] = [call[t] EXCEPT !.pc = "finish", !.res = res]]
         /\ DOMAIN call' = Tasks
         /\ call'[t] \in CallRecords
         /\ call'[t].pc = "finish" /\ call'[t].kind = call[t].kind /\ call'[t].br = call[t].br
         /\ call'[t].k = call[t].k /\ call'[t].start = call[t].start
         /\ call'[t].alive = call[t].alive /\ call'[t].res = res
         /\ \A u \in Tasks \ {t} : call'[u] = call[u]
BY DEF CallInv, Completed, CallRecords, Points, Busy

\* A jump from one point of Busy to another, where the new point's condition on
\* the branch holds.
LEMMA JumpStep ==
  ASSUME IInv, NEW t \in Tasks, Runs(t), call[t].pc \in Busy \ {"finish"}, NEW p \in Busy, Goto(t, p),
         UNCHANGED <<runtime, prog, queue_, closed_, list, timer, winner, sent, atclose>>,
         p = "drained" => call[t].kind = "select_recv",
         p = "ended" => call[t].br[Polled(t)] \in Chans \X {"recv"},
         p \in {"send", "enqueue"} => call[t].br[Polled(t)] \in Chans \X {"send"},
         p = "notify" => Branch(t) \in Chans \X {"recv", "send"},
         p \in {"close", "wake_recv", "wake_send"} => Branch(t) \in Chans \X {"recv"}
  PROVE  IInv'
<1>1. CallInv(t) /\ DOMAIN call = Tasks /\ p \in Points /\ call[t].pc \notin {"idle", "finish"}
  BY DEF IInv, Types, TaskInv, Points, Busy
<1> DEFINE r == [call[t] EXCEPT !.pc = p]
<1>2. /\ call' = [call EXCEPT ![t] = r]
      /\ call'[t] \in CallRecords /\ call'[t] = r
      /\ call'[t].pc = p /\ call'[t].kind = call[t].kind /\ call'[t].br = call[t].br
      /\ call'[t].k = call[t].k /\ call'[t].start = call[t].start
      /\ call'[t].alive = call[t].alive /\ call'[t].res = call[t].res
  BY <1>1, GotoEffect
<1> HIDE DEF r
<1>3. r.pc \in Busy
  BY <1>2
<1>4. CallInv(t)'
  BY <1>1, <1>2 DEF CallInv, N, Polled, Branch
<1>5. EndInv(t)'
  BY <1>1, <1>2 DEF EndInv, CallInv
<1> QED
  BY <1>2, <1>3, <1>4, <1>5, MoveStep

\* The call completes; if with nullopt, a channel of it has ended.
LEMMA CompleteStep ==
  ASSUME IInv, NEW t \in Tasks, Runs(t), call[t].pc \in Busy,
         NEW res \in {"nullopt", "closed", "fired", "failed", "cancelled"}, Completed(t, res),
         UNCHANGED <<runtime, prog, queue_, closed_, list, timer, winner, sent, atclose>>,
         res = "nullopt" =>
           \E i \in DOMAIN call[t].br : call[t].br[i][1] \in Chans /\ Ended(call[t].br[i][1])
  PROVE  IInv'
<1>1. CallInv(t) /\ DOMAIN call = Tasks /\ call[t].pc # "idle"
  BY DEF IInv, Types, TaskInv, Busy
<1>2. /\ call'[t] \in CallRecords
      /\ call'[t].pc = "finish" /\ call'[t].kind = call[t].kind /\ call'[t].br = call[t].br
      /\ call'[t].k = call[t].k /\ call'[t].start = call[t].start
      /\ call'[t].alive = call[t].alive /\ call'[t].res = res
  BY <1>1, CompletedEffect, Zenon
<1> DEFINE r == [call[t] EXCEPT !.pc = "finish", !.res = res]
<1>r. call' = [call EXCEPT ![t] = r] /\ call'[t] = r
  <2>1. call' = [call EXCEPT ![t] = r]
    BY <1>1, CompletedEffect
  <2> HIDE DEF r
  <2> QED
    BY <1>1, <2>1
<1> HIDE DEF r
<1>3. r.pc \in Busy
  BY <1>2, <1>r DEF Busy
<1>4. CallInv(t)'
  BY <1>1, <1>2 DEF CallInv, N, Polled, Branch
<1>5. EndInv(t)'
  BY <1>1, <1>2, SameChannels DEF EndInv, EndsKept
<1> QED
  BY <1>r, <1>3, <1>4, <1>5, MoveStep

\* The second look of a receive that found the queue empty and the channel
\* closed.
LEMMA RecvEndedStep == ASSUME IInv, NEW t \in Tasks, RecvEnded(t) PROVE IInv'
<1>1. Runs(t) /\ call[t].pc = "ended" /\ call[t].pc \in Busy /\ call[t].pc # "idle"
  BY DEF RecvEnded, At, Busy
<1>2. UNCHANGED <<runtime, prog, queue_, closed_, list, timer, winner, sent, atclose>>
  BY DEF RecvEnded
<1>3. CASE drained(call[t].br[Polled(t)][1])
  <2>1. CallInv(t)
    BY DEF IInv, TaskInv
  <2>2. Polled(t) \in DOMAIN call[t].br /\ call[t].br[Polled(t)][1] \in Chans
    BY <1>1, <2>1, PolledIn DEF CallInv, N, CallRecords
  <2>3. Ended(call[t].br[Polled(t)][1])
    BY <1>3 DEF drained, Ended
  <2>4. Completed(t, "nullopt")
    BY <1>3 DEF RecvEnded
  <2> QED
    BY <1>1, <1>2, <2>2, <2>3, <2>4, CompleteStep
<1>4. CASE ~drained(call[t].br[Polled(t)][1])
  <2>1. NextPoll(t)
    BY <1>4 DEF RecvEnded
  <2> QED
    BY <1>1, <1>2, <2>1, NextPollStep
<1> QED
  BY <1>3, <1>4

\* A send looks at closed_ and at the room of the channel.
LEMMA PollSendStep == ASSUME IInv, NEW t \in Tasks, PollSend(t) PROVE IInv'
<1> DEFINE b == call[t].br[Polled(t)]
<1>1. Runs(t) /\ call[t].pc = "poll" /\ call[t].pc \in Busy /\ call[t].pc # "idle" /\ b[2] = "send"
  BY DEF PollSend, At, Busy
<1>2. UNCHANGED <<runtime, prog, queue_, closed_, list, timer, winner, sent, atclose>>
  BY DEF PollSend
<1>3. b \in Branches
  <2>1. CallInv(t)
    BY DEF IInv, TaskInv
  <2> QED
    BY <1>1, <2>1, PolledIn DEF CallInv, N, CallRecords
<1>4. b \in Chans \X {"send"}
  BY <1>1, <1>3 DEF Branches
<1> HIDE DEF b
<1>5. CASE closed_[b[1]]
  <2>1. Completed(t, "closed")
    BY <1>5 DEF PollSend, b
  <2> QED
    BY <1>1, <1>2, <2>1, CompleteStep
<1>6. CASE ~closed_[b[1]]
  <2>1. Goto(t, "send") /\ "send" \in Busy
    BY <1>6 DEF PollSend, b, Busy
  <2>2. call[t].br[Polled(t)] \in Chans \X {"send"}
    BY <1>4 DEF b
  <2> QED
    BY <1>1, <1>2, <2>1, <2>2, JumpStep
<1> QED
  BY <1>5, <1>6

\* A send that has passed its check goes on to put its value.
LEMMA SendCheckedStep == ASSUME IInv, NEW t \in Tasks, SendChecked(t) PROVE IInv'
<1>1. Runs(t) /\ call[t].pc = "send" /\ call[t].pc \in Busy
  BY DEF SendChecked, At, Busy
<1>2. UNCHANGED <<runtime, prog, queue_, closed_, list, timer, winner, sent, atclose>>
  BY DEF SendChecked
<1>3. call[t].br[Polled(t)] \in Chans \X {"send"}
  BY <1>1 DEF IInv, TaskInv, CallInv
<1>4. NextPoll(t) \/ Goto(t, "enqueue")
  BY DEF SendChecked
<1>5. "enqueue" \in Busy
  BY DEF Busy
<1> QED
  BY <1>1, <1>2, <1>3, <1>4, <1>5, NextPollStep, JumpStep

\* A sleep branch looks at its timer, a cancel branch at its token.
LEMMA PollFlagStep == ASSUME IInv, NEW t \in Tasks, PollFlag(t) PROVE IInv'
<1>1. Runs(t) /\ call[t].pc = "poll" /\ call[t].pc \in Busy
  BY DEF PollFlag, At, Busy
<1>2. UNCHANGED <<runtime, prog, queue_, closed_, list, timer, winner, sent, atclose>>
  BY DEF PollFlag
<1>3. NextPoll(t) \/ Completed(t, "fired")
  BY DEF PollFlag
<1> QED
  BY <1>1, <1>2, <1>3, NextPollStep, CompleteStep

\* select_recv() leaves out the channels that have ended.
LEMMA SelectDrainedStep == ASSUME IInv, NEW t \in Tasks, SelectDrained(t) PROVE IInv'
<1> DEFINE alive == {i \in 1..N(t) : ~drained(call[t].br[i][1])}
           r == [call[t] EXCEPT !.pc = "check", !.alive = alive]
<1>1. Runs(t) /\ call[t].pc = "drained" /\ call[t].pc \in Busy /\ call[t].pc # "idle"
  BY DEF SelectDrained, At, Busy
<1>2. UNCHANGED <<runtime, prog, queue_, closed_, list, timer, winner, sent, atclose>>
  BY DEF SelectDrained
<1>3. CallInv(t) /\ call[t] \in CallRecords /\ DOMAIN call = Tasks
  BY DEF IInv, Types, TaskInv, CallInv
<1>4. N(t) \in Nat \ {0} /\ DOMAIN call[t].br = 1..N(t) /\ call[t].br[1] \in Chans \X {"recv"}
  <2>1. N(t) \in Nat \ {0} /\ DOMAIN call[t].br = 1..N(t)
    BY <1>1, <1>3, PolledIn DEF N, CallRecords
  <2>2. InList(call[t].br) \subseteq Chans \X {"recv"}
    BY <1>1, <1>3 DEF CallInv
  <2> QED
    BY <2>1, <2>2 DEF InList, N
<1>5. CASE alive = {}
  <2>1. Completed(t, "nullopt")
    BY <1>5 DEF SelectDrained
  <2>2. 1 \in DOMAIN call[t].br /\ call[t].br[1][1] \in Chans /\ drained(call[t].br[1][1])
    BY <1>4, <1>5
  <2>3. Ended(call[t].br[1][1])
    BY <2>2 DEF drained, Ended
  <2> QED
    BY <1>1, <1>2, <2>1, <2>2, <2>3, CompleteStep
<1>6. CASE alive # {}
  <2>1. call' = [call EXCEPT ![t].pc = "check", ![t].alive = alive]
    BY <1>6 DEF SelectDrained
  <2>2. alive \in SUBSET (1..N(t)) /\ alive \in SUBSET Nat
    BY <1>4
  <2> HIDE DEF alive
  <2>3. call' = [call EXCEPT ![t] = r] /\ call'[t] = r
    BY <1>3, <2>1 DEF CallRecords
  <2>4. /\ r.pc = "check" /\ r.k = call[t].k /\ r.res = call[t].res /\ r.br = call[t].br
        /\ r.start = call[t].start /\ r.alive = alive /\ r.kind = call[t].kind
        /\ r \in CallRecords
    BY <1>3, <2>2 DEF CallRecords, Points, Busy
  <2> HIDE DEF r
  <2>5. CallInv(t)'
    BY <1>1, <1>3, <1>6, <2>2, <2>3, <2>4 DEF CallInv, N
  <2>6. EndInv(t)' /\ r.pc \in Busy
    BY <2>3, <2>4 DEF EndInv, Busy
  <2> QED
    BY <1>1, <1>2, <2>3, <2>5, <2>6, MoveStep
<1> QED
  BY <1>5, <1>6

\* CancellationSource::request_cancel() sets the flag once.
LEMMA RequestTokenStep == ASSUME IInv, NEW t \in Tasks, RequestToken(t) PROVE IInv'
<1>1. Runs(t) /\ call[t].pc = "request" /\ call[t].pc \in Busy \ {"finish"}
  BY DEF RequestToken, At, Busy
<1>2. UNCHANGED <<runtime, prog, queue_, closed_, list, timer, winner, sent, atclose>>
  BY DEF RequestToken
<1>3. Goto(t, "finish") \/ Goto(t, "wake_token")
  BY DEF RequestToken
<1>4. "finish" \in Busy /\ "wake_token" \in Busy
  BY DEF Busy
<1> QED
  BY <1>1, <1>2, <1>3, <1>4, JumpStep

\* A call begins: a coroutine that runs has nothing queued, claimed or linked.
LEMMA StartStep == ASSUME IInv, NEW t \in Tasks, Start(t) PROVE IInv'
<1>1. Runs(t) /\ call[t].pc = "idle" /\ DOMAIN call = Tasks /\ prog \in Programs
  BY DEF Start, IInv, Types
<1>o. PICK o \in prog[t] : \E s \in (IF o.kind \in Selects THEN 1..Len(o.br) ELSE {1}) :
        call' = [call EXCEPT ![t] = [NoCall EXCEPT !.kind = o.kind, !.br = o.br, !.start = s,
                                        !.alive = DOMAIN o.br, !.pc = o.entry]]
  BY DEF Start
<1>2. PICK s \in (IF o.kind \in Selects THEN 1..Len(o.br) ELSE {1}) :
        call' = [call EXCEPT ![t] = [NoCall EXCEPT !.kind = o.kind, !.br = o.br, !.start = s,
                                        !.alive = DOMAIN o.br, !.pc = o.entry]]
  BY <1>o
<1>3. UNCHANGED <<runtime, prog, queue_, closed_, list, timer, winner, sent, atclose>>
  BY DEF Start
<1>4. /\ o.kind \in Kinds /\ o.br \in Seq(Branches) /\ o.br # <<>>
      /\ o.entry \in {"poll", "close", "request"}
      /\ o.kind = "select_recv" => InList(o.br) \subseteq Chans \X {"recv"}
      /\ o.entry = "close" => o.br[1] \in Chans \X {"recv"}
  BY <1>1, ProgramsAssumption
<1>5. Len(o.br) \in Nat \ {0} /\ DOMAIN o.br = 1..Len(o.br) /\ s \in 1..Len(o.br)
  BY <1>4
<1>6. /\ call'[t].kind = o.kind /\ call'[t].br = o.br /\ call'[t].start = s /\ call'[t].k = 1
      /\ call'[t].alive = 1..Len(o.br) /\ call'[t].pc = o.entry /\ call'[t].res = "none"
      /\ call'[t] \in CallRecords
      /\ \A u \in Tasks \ {t} : call'[u] = call[u]
      /\ DOMAIN call' = Tasks
  <2> DEFINE r == [NoCall EXCEPT !.kind = o.kind, !.br = o.br, !.start = s,
                                 !.alive = DOMAIN o.br, !.pc = o.entry]
  <2>1. /\ r.kind = o.kind /\ r.pc = o.entry /\ r.br = o.br /\ r.k = 1 /\ r.start = s
        /\ r.alive = DOMAIN o.br /\ r.res = "none"
    BY DEF NoCall
  <2>2. o.entry \in Points /\ DOMAIN o.br \in SUBSET Nat /\ s \in Nat
    BY <1>4, <1>5 DEF Points, Busy
  <2>3. call'[t] = r /\ DOMAIN call' = Tasks /\ \A u \in Tasks \ {t} : call'[u] = call[u]
    BY <1>1, <1>2, Zenon
  <2>4. r \in CallRecords
    <3>1. NoCall \in CallRecords
      BY DEF NoCall, CallRecords, Points
    <3> QED
      BY <1>4, <2>2, <3>1 DEF CallRecords
  <2> HIDE DEF r
  <2> QED
    BY <1>5, <2>1, <2>3, <2>4
<1>7. CallInv(t)'
  BY <1>4, <1>5, <1>6 DEF CallInv, N, Branch
<1>8. EndInv(t)' /\ call'[t].pc \in Busy
  BY <1>4, <1>6 DEF EndInv, Busy
<1>9. Types'
  BY <1>3, <1>6 DEF IInv, Types, RuntimeTypeOK, runtime
<1>10. Bound' /\ EndsKept
  BY <1>3, SameChannels
<1> QED
  BY <1>1, <1>3, <1>6, <1>7, <1>8, <1>9, <1>10, BusyStep

\* The result of a completed send or receive at the polled branch: who is woken
\* is the other side of that branch.
LEMMA ResultEffect ==
  ASSUME NEW t \in Tasks, CallInv(t), DOMAIN call = Tasks, call[t].pc \in Busy,
         NEW p \in {"finish", "notify"}, NEW res \in {"value", "sent"},
         call' = [call EXCEPT ![t].pc = p, ![t].res = res, ![t].k = Polled(t), ![t].start = 1],
         call[t].br[Polled(t)] \in Chans \X {"recv", "send"}
  PROVE  /\ CallInv(t)' /\ EndInv(t)' /\ call'[t].pc \in Busy /\ DOMAIN call' = Tasks
         /\ call'[t].pc = p /\ call'[t].kind = call[t].kind /\ call'[t].br = call[t].br
         /\ call'[t].k = Polled(t)
         /\ \A u \in Tasks \ {t} : call'[u] = call[u]
<1> DEFINE i == Polled(t)
<1>1. i \in 1..N(t) /\ N(t) \in Nat \ {0} /\ call[t].pc # "idle" /\ p \in Points /\ p \in Busy
  BY PolledIn DEF Busy, Points
<1> HIDE DEF i
<1>2. /\ call'[t].pc = p /\ call'[t].res = res /\ call'[t].k = i /\ call'[t].start = 1
      /\ call'[t].kind = call[t].kind /\ call'[t].br = call[t].br /\ call'[t].alive = call[t].alive
      /\ call'[t] \in CallRecords
      /\ DOMAIN call' = Tasks /\ \A u \in Tasks \ {t} : call'[u] = call[u]
  <2> DEFINE r == [call[t] EXCEPT !.pc = p, !.res = res, !.k = i, !.start = 1]
  <2>1. call[t] \in CallRecords
    BY DEF CallInv
  <2>2. call'[t] = r /\ DOMAIN call' = Tasks /\ \A u \in Tasks \ {t} : call'[u] = call[u]
    BY <2>1 DEF i, CallRecords
  <2> QED
    <3>1. /\ r.pc = p /\ r.res = res /\ r.k = i /\ r.start = 1
          /\ r.kind = call[t].kind /\ r.br = call[t].br /\ r.alive = call[t].alive
      BY <2>1 DEF CallRecords
    <3>2. i \in Nat
      BY <1>1
    <3>3. r \in CallRecords
      BY <1>1, <2>1, <3>2 DEF CallRecords
    <3> QED
      BY <2>2, <3>1, <3>3
<1>3. CallInv(t)'
  BY <1>1, <1>2 DEF CallInv, N, Branch, i
<1>4. EndInv(t)'
  BY <1>2 DEF EndInv
<1> QED
  BY <1>1, <1>2, <1>3, <1>4 DEF i

\* A receive takes the oldest value, or finds the queue empty.
LEMMA PollRecvStep == ASSUME IInv, NEW t \in Tasks, PollRecv(t) PROVE IInv'
<1> DEFINE b == call[t].br[Polled(t)]
           c == b[1]
<1>1. /\ Runs(t) /\ call[t].pc = "poll" /\ call[t].pc \in Busy \ {"finish"} /\ call[t].pc # "idle"
      /\ b[2] = "recv" /\ call[t].pc \in Busy
  BY DEF PollRecv, At, Busy
<1>2. UNCHANGED <<runtime, prog, closed_, list, timer, winner, sent, atclose>>
  BY DEF PollRecv
<1>3. CallInv(t) /\ DOMAIN call = Tasks
  BY DEF IInv, TaskInv, Types
<1>4. b \in Branches
  BY <1>1, <1>3, PolledIn DEF CallInv, N, CallRecords
<1>5. b \in Chans \X {"recv"} /\ c \in Chans
  BY <1>1, <1>4 DEF Branches
<1> HIDE DEF b
<1>6. CASE queue_[c] # <<>>
  <2>1. /\ queue_' = [queue_ EXCEPT ![c] = Tail(@)]
        /\ call' = [call EXCEPT ![t].pc = IF c \in Unbounded THEN "finish" ELSE "notify",
                                ![t].res = "value", ![t].k = Polled(t), ![t].start = 1]
    BY <1>6 DEF PollRecv, b
  <2>2. /\ CallInv(t)' /\ EndInv(t)' /\ call'[t].pc \in Busy /\ DOMAIN call' = Tasks
        /\ \A u \in Tasks \ {t} : call'[u] = call[u]
    <3>1. call[t].br[Polled(t)] \in Chans \X {"recv", "send"}
      BY <1>5 DEF b
    <3>2. CASE c \in Unbounded
      BY <1>1, <1>3, <2>1, <3>1, <3>2, ResultEffect
    <3>3. CASE c \notin Unbounded
      BY <1>1, <1>3, <2>1, <3>1, <3>3, ResultEffect
    <3> QED
      BY <3>2, <3>3
  <2>3. queue_ \in [Chans -> Seq(Nat)] /\ atclose \in [Chans -> Nat]
    BY DEF IInv, Types
  <2>4. queue_' \in [Chans -> Seq(Nat)]
    BY <1>5, <1>6, <2>1, <2>3
  <2>5. Types'
    BY <1>2, <2>2, <2>4 DEF IInv, Types, RuntimeTypeOK, runtime
  <2>6. ASSUME NEW d \in Chans, Ended(d) PROVE Ended(d)'
    <3>1. CASE d # c
      BY <1>2, <2>1, <2>3, <2>6, <3>1 DEF Ended
    <3>2. CASE d = c
      <4>1. queue_'[c] = Tail(queue_[c])
        BY <1>5, <2>1, <2>3
      <4>2. \A j \in DOMAIN Tail(queue_[c]) :
              j + 1 \in DOMAIN queue_[c] /\ Tail(queue_[c])[j] = queue_[c][j + 1]
        BY <1>5, <1>6, <2>3
      <4> QED
        BY <1>2, <2>6, <3>2, <4>1, <4>2 DEF Ended
    <3> QED
      BY <3>1, <3>2
  <2>7. EndsKept /\ Bound'
    BY <1>2, <2>6 DEF EndsKept, Bound, IInv
  <2> QED
    BY <1>1, <1>2, <2>2, <2>5, <2>7, BusyStep
<1>7. CASE ~(queue_[c] # <<>>)
  <2>1. UNCHANGED queue_ /\ (Goto(t, "ended") \/ NextPoll(t)) /\ "ended" \in Busy
    BY <1>7 DEF PollRecv, b, Busy
  <2>2. call[t].br[Polled(t)] \in Chans \X {"recv"}
    BY <1>5 DEF b
  <2> QED
    BY <1>1, <1>2, <2>1, <2>2, JumpStep, NextPollStep
<1> QED
  BY <1>6, <1>7

\* A value that is put into a closed channel is numbered after the close: the
\* senders that were past their look at closed_ do not reopen it.
LEMMA EnqueueStep == ASSUME IInv, NEW t \in Tasks, Enqueue(t) PROVE IInv'
<1> DEFINE b == call[t].br[Polled(t)]
           c == b[1]
<1>1. /\ Runs(t) /\ call[t].pc = "enqueue" /\ call[t].pc \in Busy \ {"finish"} /\ call[t].pc \in Busy
  BY DEF Enqueue, At, Busy
<1>2. UNCHANGED <<runtime, prog, closed_, list, timer, winner>>
  BY DEF Enqueue
<1>3. CallInv(t) /\ DOMAIN call = Tasks
  BY DEF IInv, TaskInv, Types
<1>4. b \in Chans \X {"send"} /\ c \in Chans
  BY <1>1, <1>3 DEF CallInv
<1> HIDE DEF b
<1>5. CASE Full(c)
  <2>1. NextPoll(t) /\ UNCHANGED <<queue_, sent, atclose>>
    BY <1>5 DEF Enqueue, b
  <2> QED
    BY <1>1, <1>2, <2>1, NextPollStep
<1>6. CASE ~Full(c)
  <2>1. /\ queue_' = [queue_ EXCEPT ![c] = Append(@, sent[c] + 1)]
        /\ sent' = [sent EXCEPT ![c] = @ + 1]
        /\ atclose' = [atclose EXCEPT ![c] = IF closed_[c] THEN @ ELSE @ + 1]
        /\ call' = [call EXCEPT ![t].pc = "notify", ![t].res = "sent",
                                ![t].k = Polled(t), ![t].start = 1]
    BY <1>6 DEF Enqueue, b
  <2>2. /\ CallInv(t)' /\ EndInv(t)' /\ call'[t].pc \in Busy /\ DOMAIN call' = Tasks
        /\ \A u \in Tasks \ {t} : call'[u] = call[u]
    <3>1. call[t].br[Polled(t)] \in Chans \X {"recv", "send"}
      BY <1>4 DEF b
    <3> QED
      BY <1>1, <1>3, <2>1, <3>1, ResultEffect
  <2>3. /\ queue_ \in [Chans -> Seq(Nat)] /\ atclose \in [Chans -> Nat] /\ sent \in [Chans -> Nat]
        /\ closed_ \in [Chans -> BOOLEAN] /\ \A d \in Chans : atclose[d] <= sent[d]
    BY DEF IInv, Types
  <2>4. /\ sent[c] + 1 \in Nat /\ atclose[c] \in Nat /\ atclose[c] + 1 \in Nat
        /\ sent[c] + 1 > atclose[c]
    BY <1>4, <2>3
  <2>5. /\ queue_' \in [Chans -> Seq(Nat)] /\ queue_'[c] = Append(queue_[c], sent[c] + 1)
        /\ \A d \in Chans \ {c} : queue_'[d] = queue_[d]
    BY <1>4, <2>1, <2>3, <2>4
  <2>6. /\ sent' \in [Chans -> Nat] /\ sent'[c] = sent[c] + 1
        /\ \A d \in Chans \ {c} : sent'[d] = sent[d]
    BY <1>4, <2>1, <2>3, <2>4
  <2>7. /\ atclose' \in [Chans -> Nat] /\ atclose'[c] = (IF closed_[c] THEN atclose[c] ELSE atclose[c] + 1)
        /\ \A d \in Chans \ {c} : atclose'[d] = atclose[d]
    BY <1>4, <2>1, <2>3, <2>4
  <2>8. Types'
    BY <1>2, <2>2, <2>5, <2>6, <2>7 DEF IInv, Types, RuntimeTypeOK, runtime
  <2>9. ASSUME NEW d \in Chans PROVE atclose'[d] <= sent'[d]
    <3>1. CASE d = c
      BY <2>3, <2>4, <2>6, <2>7, <3>1
    <3>2. CASE d # c
      BY <2>3, <2>6, <2>7, <3>2
    <3> QED
      BY <3>1, <3>2
  <2>10. ASSUME NEW d \in Chans, Ended(d) PROVE Ended(d)'
    <3>1. CASE d # c
      BY <1>2, <2>5, <2>7, <2>10, <3>1 DEF Ended
    <3>2. CASE d = c
      <4>1. closed_[c] /\ closed_'[c] /\ atclose'[c] = atclose[c]
        BY <1>2, <2>7, <2>10, <3>2 DEF Ended
      <4>2. \A j \in DOMAIN queue_'[c] :
              queue_'[c][j] = sent[c] + 1 \/ (j \in DOMAIN queue_[c] /\ queue_'[c][j] = queue_[c][j])
        <5> DEFINE l == queue_[c]
                   v == sent[c] + 1
        <5>1. l \in Seq(Nat) /\ v \in Nat /\ queue_'[c] = Append(l, v)
          BY <1>4, <2>3, <2>4, <2>5
        <5> HIDE DEF l, v
        <5>2. /\ Len(l) \in Nat /\ DOMAIN l = 1..Len(l) /\ DOMAIN Append(l, v) = 1..(Len(l) + 1)
              /\ Append(l, v)[Len(l) + 1] = v
              /\ \A j \in 1..Len(l) : Append(l, v)[j] = l[j]
          BY <5>1
        <5>3. \A j \in 1..(Len(l) + 1) : j \in 1..Len(l) \/ j = Len(l) + 1
          BY <5>2
        <5> QED
          BY <5>1, <5>2, <5>3 DEF l, v
      <4> QED
        BY <2>4, <2>10, <3>2, <4>1, <4>2 DEF Ended
    <3> QED
      BY <3>1, <3>2
  <2>11. EndsKept /\ Bound'
    BY <2>9, <2>10 DEF EndsKept, Bound
  <2> QED
    BY <1>1, <1>2, <2>2, <2>8, <2>11, BusyStep
<1> QED
  BY <1>5, <1>6

\* close() fixes which values were sent before it.
LEMMA CloseStep == ASSUME IInv, NEW t \in Tasks, Close(t) PROVE IInv'
<1> DEFINE c == Branch(t)[1]
           p == IF closed_[c] THEN "finish" ELSE "wake_recv"
<1>1. Runs(t) /\ call[t].pc = "close" /\ call[t].pc \in Busy
  BY DEF Close, At, Busy
<1>2. UNCHANGED <<runtime, prog, queue_, list, timer, winner, sent, atclose>>
  BY DEF Close
<1>3. closed_' = [closed_ EXCEPT ![c] = TRUE] /\ Goto(t, p)
  BY DEF Close
<1>4. CallInv(t) /\ DOMAIN call = Tasks /\ Branch(t) \in Chans \X {"recv"}
  BY <1>1 DEF IInv, TaskInv, Types, CallInv
<1>5. p \in {"finish", "wake_recv"} /\ p \in Busy /\ p \in Points
  BY DEF Busy, Points
<1> HIDE DEF c, p
<1>6. /\ call'[t] \in CallRecords /\ DOMAIN call' = Tasks
      /\ call'[t].pc = p /\ call'[t].kind = call[t].kind /\ call'[t].br = call[t].br
      /\ call'[t].k = call[t].k /\ call'[t].start = call[t].start
      /\ call'[t].alive = call[t].alive /\ call'[t].res = call[t].res
      /\ \A u \in Tasks \ {t} : call'[u] = call[u]
  BY <1>3, <1>4, <1>5, GotoEffect
<1>7. CallInv(t)'
  BY <1>1, <1>4, <1>5, <1>6 DEF CallInv, N, Branch
<1>8. EndInv(t)'
  BY <1>1, <1>4, <1>6 DEF EndInv, CallInv
<1>9. Types' /\ Bound'
  BY <1>2, <1>3, <1>6 DEF IInv, Types, RuntimeTypeOK, runtime, Bound
<1>10. EndsKept
  BY <1>2, <1>3 DEF IInv, Types, EndsKept, Ended
<1> QED
  BY <1>1, <1>2, <1>5, <1>6, <1>7, <1>8, <1>9, <1>10, BusyStep

\* The call returns: the coroutine is as it was before it.
LEMMA FinishStep == ASSUME IInv, NEW t \in Tasks, Finish(t) PROVE IInv'
<1>1. /\ Runs(t) /\ call[t].pc = "finish" /\ call[t].pc \in Busy
      /\ TaskInv(t) /\ DOMAIN call = Tasks /\ timer \in [Tasks -> {"off", "armed", "fired"}]
  BY DEF Finish, At, Busy, IInv, Types
<1>2. /\ UNCHANGED <<runtime, prog, queue_, closed_, list, winner, sent, atclose>>
      /\ timer' = [timer EXCEPT ![t] = "off"] /\ call' = [call EXCEPT ![t] = NoCall]
  BY DEF Finish
<1>3. /\ call'[t] = NoCall /\ DOMAIN call' = Tasks /\ timer' \in [Tasks -> {"off", "armed", "fired"}]
      /\ timer'[t] = "off" /\ \A u \in Tasks \ {t} : call'[u] = call[u] /\ timer'[u] = timer[u]
  BY <1>1, <1>2
<1>4. Types'
  BY <1>2, <1>3 DEF IInv, Types, RuntimeTypeOK, runtime
<1>5. Bound' /\ EndsKept
  BY <1>2, SameChannels
<1>6. \A u \in Tasks \ {t} : Unaffected(u)
  BY <1>2, <1>3 DEF Unaffected, Runs, runtime
<1>7. ready[t] = 0 /\ winner[t] = 0 /\ ~cancel_fn[t]
  BY <1>1 DEF TaskInv, TokenInv
<1>8. Runs(t)' /\ ready'[t] = 0 /\ winner'[t] = 0 /\ ~cancel_fn'[t]
  BY <1>1, <1>2, <1>7 DEF runtime, Runs
<1>9. NoCall.pc = "idle" /\ NoCall.kind = "none" /\ NoCall.res = "none" /\ NoCall \in CallRecords
  BY DEF NoCall, CallRecords, Points
<1>10. CallInv(t)' /\ TokenInv(t)' /\ EndInv(t)'
  <2>1. CallInv(t)'
    BY <1>3, <1>9 DEF CallInv
  <2>2. TokenInv(t)'
    BY <1>3, <1>8, <1>9 DEF TokenInv, Busy, Linking
  <2>3. EndInv(t)'
    BY <1>3, <1>9 DEF EndInv
  <2> QED
    BY <2>1, <2>2, <2>3
<1>11. LinkInv(t)'
  BY <1>1, <1>2 DEF TaskInv, LinkInv, MayBeLinked
<1> QED
  BY <1>4, <1>5, <1>6, <1>10, <1>11, LocalStep DEF TaskInv

(***************************************************************************)
(* Waking                                                                  *)
(***************************************************************************)

\* The nodes a waker pops are a prefix of the list: all of it, or as far as it
\* takes to claim k.
LEMMA PoppedIn ==
  ASSUME NEW S, NEW l \in Seq(S), NEW k \in Nat
  PROVE  /\ PoppedFor(l, k) \in 0..Len(l)
         /\ \/ PoppedFor(l, k) = Len(l)
            \/ Cardinality(Claimable(l, PoppedFor(l, k))) = k
<1> DEFINE card(n) == Cardinality(Claimable(l, n))
           P(n) == /\ n = Len(l) \/ card(n) = k
                   /\ \A m \in 0..(n - 1) : card(m) < k
           T == {n \in 0..Len(l) : n = Len(l) \/ card(n) >= k}
<1>1. Len(l) \in Nat
  OBVIOUS
<1>2. ASSUME NEW n \in 0..Len(l) PROVE IsFiniteSet(Claimable(l, n)) /\ card(n) \in Nat
  <2>1. IsFiniteSet(1..n)
    BY <1>1, FS_Interval
  <2>2. Claimable(l, n) \subseteq 1..n
    BY DEF Claimable
  <2> QED
    BY <2>1, <2>2, FS_Subset, FS_CardinalityType
<1>3. PICK n \in T : \A m \in T : n <= m
  <2>1. T \in SUBSET Nat /\ Len(l) \in T
    BY <1>1
  <2> HIDE DEF T
  <2> QED
    BY <2>1, LeastExists
<1>4. n \in 0..Len(l) /\ n \in Nat
  BY <1>1
<1> HIDE DEF card
<1>5. ASSUME NEW m \in 0..(n - 1) PROVE card(m) < k
  <2>1. m \in 0..Len(l) /\ m < n
    BY <1>1, <1>4
  <2>2. m \notin T
    BY <1>3, <1>4, <2>1
  <2> QED
    BY <1>2, <2>1, <2>2
<1>6. ASSUME n # Len(l) PROVE card(n) = k
  <2>1. card(n) >= k /\ card(n) \in Nat
    BY <1>2, <1>4, <1>6
  <2>2. CASE n = 0
    <3>1. Claimable(l, 0) = {}
      BY DEF Claimable
    <3>2. card(0) = 0
      BY <3>1, FS_EmptySet DEF card
    <3> QED
      BY <2>1, <2>2, <3>2
  <2>3. CASE n # 0
    <3>1. n - 1 \in 0..(n - 1) /\ n - 1 \in 0..Len(l)
      BY <1>1, <1>4, <2>3
    <3>2. IsFiniteSet(Claimable(l, n - 1)) /\ card(n - 1) \in Nat /\ card(n - 1) < k
      BY <1>2, <1>5, <3>1
    <3>3. Claimable(l, n) \subseteq Claimable(l, n - 1) \cup {n}
      BY <1>4 DEF Claimable
    <3>4. /\ IsFiniteSet(Claimable(l, n - 1) \cup {n})
          /\ Cardinality(Claimable(l, n - 1) \cup {n}) \in Nat
          /\ Cardinality(Claimable(l, n - 1) \cup {n}) <= card(n - 1) + 1
      <4>1. /\ IsFiniteSet(Claimable(l, n - 1) \cup {n})
            /\ Cardinality(Claimable(l, n - 1) \cup {n})
                 = IF n \in Claimable(l, n - 1) THEN card(n - 1) ELSE card(n - 1) + 1
        BY <3>2, FS_AddElement, Zenon DEF card
      <4> QED
        BY <3>2, <4>1
    <3>5. card(n) <= Cardinality(Claimable(l, n - 1) \cup {n})
      BY <3>3, <3>4, FS_Subset DEF card
    <3> QED
      BY <2>1, <3>2, <3>4, <3>5
  <2> QED
    BY <2>2, <2>3
<1>7. \E x \in 0..Len(l) : P(x)
  BY <1>4, <1>5, <1>6
<1>8. PoppedFor(l, k) = CHOOSE x \in 0..Len(l) : P(x)
  BY DEF PoppedFor, card
<1> HIDE DEF P
<1>9. PoppedFor(l, k) \in 0..Len(l) /\ P(PoppedFor(l, k))
  BY <1>7, <1>8
<1> QED
  BY <1>9 DEF P, card

\* Coroutines with a node at b whose word was still 0 have got the node's branch
\* as their winner and a handle each; nothing is linked, and nothing is left at b
\* if nobody was to be had.
Fired(b, k, fired) ==
  /\ list' \in [Branches -> Seq(Tasks \X Nat)]
  /\ \A d \in Branches : Distinct(list'[d]) /\ InList(list'[d]) \subseteq InList(list[d])
  /\ \A u \in fired :
       winner[u] = 0 /\ winner'[u] \in Nat \ {0} /\ <<u, winner'[u]>> \in InList(list[b])
  /\ winner' \in [Tasks -> Nat \cup {Cancelled}]
  /\ \A u \in Tasks \ fired : winner'[u] = winner[u]
  /\ ready' = resume_on(fired)
  /\ (k = 1 /\ fired = {}) \/ k = Len(list[b]) => InList(list'[b]) = {}

\* What fire_waiter() does on the popped nodes.
LEMMA FireEffect ==
  ASSUME IInv, NEW b \in Branches, NEW k \in Nat, Fire(b, k)
  PROVE  \E fired \in SUBSET Tasks : Fired(b, k, fired)
<1> DEFINE l == list[b]
           n == PoppedFor(l, k)
           nodes == {l[i] : i \in Claimable(l, n)}
           fired == {f[1] : f \in nodes}
           rest == SubSeq(l, n + 1, Len(l))
<1>1. /\ list' = [list EXCEPT ![b] = rest]
      /\ winner' = [t \in Tasks |->
                      IF \E f \in nodes : f[1] = t THEN (CHOOSE f \in nodes : f[1] = t)[2]
                      ELSE winner[t]]
      /\ ready' = resume_on(fired)
  BY DEF Fire
<1>2. /\ l \in Seq(Tasks \X Nat) /\ Distinct(l) /\ Len(l) \in Nat
      /\ list \in [Branches -> Seq(Tasks \X Nat)] /\ \A d \in Branches : Distinct(list[d])
      /\ winner \in [Tasks -> Nat \cup {Cancelled}]
  BY DEF IInv, Types
<1>3. n \in 0..Len(l) /\ (n = Len(l) \/ Cardinality(Claimable(l, n)) = k)
  BY <1>2, PoppedIn
<1> HIDE DEF n
<1>4. ASSUME NEW f \in nodes
      PROVE  f \in InList(l) /\ f \in Tasks \X Nat /\ winner[f[1]] = 0 /\ f[2] \in Nat \ {0}
  <2>1. PICK i \in Claimable(l, n) : f = l[i]
    OBVIOUS
  <2>2. i \in 1..Len(l) /\ winner[f[1]] = 0
    BY <1>2, <1>3, <2>1 DEF Claimable
  <2>3. f \in InList(l) /\ f \in Tasks \X Nat
    BY <1>2, <2>1, <2>2 DEF InList
  <2>4. f = <<f[1], f[2]>> /\ f[1] \in Tasks /\ f[2] \in Nat
    BY <2>3
  <2>5. LinkInv(f[1]) /\ N(f[1]) \in Nat
    BY <2>4 DEF IInv, TaskInv, CallInv, CallRecords, N
  <2>6. f[2] \in 1..N(f[1])
    BY <2>3, <2>4, <2>5 DEF LinkInv
  <2> QED
    BY <2>2, <2>3, <2>4, <2>5, <2>6
<1> HIDE DEF nodes
<1>5. /\ rest \in Seq(Tasks \X Nat) /\ Len(rest) = Len(l) - n
      /\ \A i \in 1..(Len(l) - n) : rest[i] = l[n + i]
  BY <1>2, <1>3
<1> HIDE DEF rest
<1>6. Distinct(rest) /\ InList(rest) \subseteq InList(l)
  <2>1. \A i \in 1..Len(rest) : n + i \in 1..Len(l) /\ rest[i] = l[n + i]
    BY <1>2, <1>3, <1>5
  <2>2. InList(rest) \subseteq InList(l)
    BY <2>1 DEF InList
  <2>3. ASSUME NEW i \in 1..Len(rest), NEW j \in 1..Len(rest), rest[i] = rest[j] PROVE i = j
    <3>0. n + i \in 1..Len(l) /\ n + j \in 1..Len(l) /\ l[n + i] = l[n + j]
      BY <2>1, <2>3
    <3>1. n + i = n + j
      BY <1>2, <3>0 DEF Distinct
    <3>2. i \in Int /\ j \in Int /\ n \in Int
      BY <1>3
    <3> QED
      BY <3>1, <3>2
  <2> QED
    BY <2>2, <2>3 DEF Distinct
<1>7. list' \in [Branches -> Seq(Tasks \X Nat)]
  BY <1>1, <1>2, <1>5
<1>8. ASSUME NEW d \in Branches PROVE Distinct(list'[d]) /\ InList(list'[d]) \subseteq InList(list[d])
  <2>1. CASE d = b
    BY <1>1, <1>2, <1>6, <2>1
  <2>2. CASE d # b
    BY <1>1, <1>2, <2>2
  <2> QED
    BY <2>1, <2>2
<1>9. fired \in SUBSET Tasks
  BY <1>4
<1>10. ASSUME NEW u \in fired
       PROVE  winner[u] = 0 /\ winner'[u] \in Nat \ {0} /\ <<u, winner'[u]>> \in InList(list[b])
  <2>1. PICK f \in nodes : f[1] = u
    OBVIOUS
  <2>2. f = <<u, f[2]>> /\ f[2] \in Nat /\ f \in InList(list[b]) /\ winner[u] = 0
    BY <1>4, <2>1
  <2>3. u \in Tasks
    BY <1>9
  <2> DEFINE g == CHOOSE h \in nodes : h[1] = u
  <2>4. g \in nodes /\ g[1] = u
    BY <2>1
  <2>5. winner'[u] = g[2]
    BY <1>1, <2>1, <2>3
  <2> HIDE DEF g
  <2>6. g \in InList(l) /\ g = <<u, g[2]>> /\ g[2] \in Nat \ {0}
    BY <1>4, <2>4
  <2> QED
    BY <2>2, <2>5, <2>6
<1>11. ASSUME NEW u \in Tasks \ fired PROVE winner'[u] = winner[u]
  BY <1>1
<1>12. winner' \in [Tasks -> Nat \cup {Cancelled}]
  <2>1. \A u \in Tasks : winner'[u] \in Nat \cup {Cancelled}
    BY <1>2, <1>10, <1>11
  <2> QED
    BY <1>1, <2>1
<1>13. ASSUME (k = 1 /\ fired = {}) \/ k = Len(list[b]) PROVE InList(list'[b]) = {}
  <2>1. n = Len(l)
    <3>1. CASE n # Len(l) /\ k = Len(l)
      <4>1. /\ IsFiniteSet(1..n) /\ Cardinality(1..n) = n
            /\ Claimable(l, n) \subseteq 1..n
        BY <1>3, FS_Interval DEF Claimable
      <4>2. Cardinality(Claimable(l, n)) <= n
        BY <4>1, FS_Subset
      <4> QED
        BY <1>2, <1>3, <3>1, <4>2
    <3>2. CASE n # Len(l) /\ k = 1 /\ fired = {}
      <4>1. Claimable(l, n) = {}
        BY <3>2 DEF nodes
      <4>2. Cardinality(Claimable(l, n)) = 0
        BY <4>1, FS_EmptySet
      <4> QED
        BY <1>3, <3>2, <4>2
    <3> QED
      BY <1>13, <3>1, <3>2
  <2>2. Len(rest) = 0
    BY <1>2, <1>5, <2>1
  <2>3. InList(rest) = {}
    BY <2>2 DEF InList
  <2> QED
    BY <1>1, <1>2, <2>3
<1> HIDE DEF fired
<1> QED
  BY <1>1, <1>7, <1>8, <1>9, <1>10, <1>11, <1>12, <1>13 DEF Fired

\* A coroutine that a waker does not run in: whether it was claimed or not, its
\* word and its handle agree.
LEMMA WokenStep ==
  ASSUME IInv, NEW b \in Branches, NEW k \in Nat, Fire(b, k),
         UNCHANGED <<running, cancel_fn, queue_, closed_, sent, atclose>>
  PROVE  /\ list' \in [Branches -> Seq(Tasks \X Nat)] /\ \A d \in Branches : Distinct(list'[d])
         /\ winner' \in [Tasks -> Nat \cup {Cancelled}] /\ ready' \in [Tasks -> Nat]
         /\ \A u \in Tasks : \A i \in Nat : \A d \in Branches :
              <<u, i>> \in InList(list'[d]) => <<u, i>> \in InList(list[d])
         /\ \A u \in Tasks :
              call'[u] = call[u] /\ (call[u].pc = "idle" => timer'[u] = timer[u]) => TaskInv(u)'
         /\ \A u \in Tasks : call[u].pc \in Busy => winner'[u] = winner[u] /\ ready'[u] = ready[u]
<1>0. PICK fired \in SUBSET Tasks : Fired(b, k, fired)
  BY FireEffect
<1>1. /\ list' \in [Branches -> Seq(Tasks \X Nat)]
      /\ \A d \in Branches : Distinct(list'[d]) /\ InList(list'[d]) \subseteq InList(list[d])
      /\ \A u \in fired :
           winner[u] = 0 /\ winner'[u] \in Nat \ {0} /\ <<u, winner'[u]>> \in InList(list[b])
      /\ winner' \in [Tasks -> Nat \cup {Cancelled}]
      /\ \A u \in Tasks \ fired : winner'[u] = winner[u]
      /\ ready' = resume_on(fired)
  BY <1>0 DEF Fired
<1>2. RuntimeTypeOK /\ \A u \in Tasks : TaskInv(u)
  BY DEF IInv, Types
<1>3. /\ ready' \in [Tasks -> Nat]
      /\ \A u \in Tasks : ready'[u] = IF u \in fired THEN ready[u] + 1 ELSE ready[u]
  BY <1>1, <1>2, ResumeOnEffect
<1>4. \A u \in Tasks : \A i \in Nat : \A d \in Branches :
        <<u, i>> \in InList(list'[d]) => <<u, i>> \in InList(list[d])
  BY <1>1
<1>5. EndsKept
  BY SameChannels
<1>6. \A u \in Tasks : Runs(u)' <=> Runs(u)
  BY SameRuns
<1>7. ASSUME NEW u \in fired
      PROVE  /\ call[u].pc \in Linking \cup {"parked"} /\ winner[u] = 0
             /\ ready[u] = 0 /\ ready'[u] = 1 /\ winner'[u] \in Nat \ {0}
  <2>1. PICK i \in Nat : <<u, i>> \in InList(list[b])
    BY <1>1
  <2>2. MayBeLinked(u, i) /\ TaskInv(u) /\ u \in Tasks /\ winner[u] = 0
    BY <1>1, <1>2, <2>1 DEF TaskInv, LinkInv
  <2>3. call[u].pc \in Linking \cup {"parked", "leave"}
    BY <2>2 DEF MayBeLinked, Linking
  <2>4. call[u].pc \in Linking \cup {"parked"} /\ ready[u] = 0
    BY <2>2, <2>3 DEF TaskInv, TokenInv
  <2>5. ready'[u] = ready[u] + 1 /\ winner'[u] \in Nat \ {0}
    BY <1>1, <1>3, <2>2
  <2> QED
    BY <2>2, <2>4, <2>5
<1>8. ASSUME NEW u \in Tasks, call'[u] = call[u], call[u].pc = "idle" => timer'[u] = timer[u]
      PROVE  TaskInv(u)'
  <2>1. CASE u \notin fired
    <3>1. Unaffected(u)
      BY <1>1, <1>3, <1>4, <1>6, <1>8, <2>1 DEF Unaffected
    <3> QED
      BY <1>2, <1>5, <3>1, UnaffectedKept
  <2>2. CASE u \in fired
    <3>1. CallInv(u)' /\ EndInv(u)'
      BY <1>2, <1>5, <1>8, EndKept DEF TaskInv, CallInv, N, Polled, Branch
    <3>2. LinkInv(u)'
      BY <1>2, <1>4, <1>8 DEF TaskInv, LinkInv, MayBeLinked, N
    <3>3. winner'[u] # 0 /\ winner'[u] # Cancelled
      BY <1>7, <2>2 DEF Cancelled
    <3>4. TokenInv(u)'
      BY <1>2, <1>6, <1>7, <1>8, <2>2, <3>3 DEF TaskInv, TokenInv, Linking, Busy
    <3> QED
      BY <3>1, <3>2, <3>4 DEF TaskInv
  <2> QED
    BY <2>1, <2>2
<1>9. ASSUME NEW u \in Tasks, call[u].pc \in Busy PROVE winner'[u] = winner[u] /\ ready'[u] = ready[u]
  <2>1. u \notin fired
    BY <1>7, <1>9 DEF Busy, Linking
  <2> QED
    BY <1>1, <1>3, <2>1
<1> QED
  BY <1>1, <1>3, <1>4, <1>8, <1>9

\* A waker goes on; it has no node that it could wake itself by.
LEMMA WakerStep ==
  ASSUME IInv, NEW t \in Tasks, Runs(t), call[t].pc \in Busy \ {"finish"},
         NEW b \in Branches, NEW k \in Nat, Fire(b, k),
         NEW p \in {"finish", "wake_send"}, Goto(t, p),
         p = "wake_send" => Branch(t) \in Chans \X {"recv"},
         UNCHANGED <<running, cancel_fn, requested, kick, prog, queue_, closed_, timer, sent,
                     atclose>>
  PROVE  IInv'
<1>1. TaskInv(t) /\ CallInv(t) /\ Types /\ DOMAIN call = Tasks
  BY DEF IInv, TaskInv, Types
<1>2. p \in Busy /\ p \in Points /\ call[t].pc # "idle" /\ call[t].pc \in Busy
  BY DEF Busy, Points
<1>3. /\ call'[t] \in CallRecords /\ DOMAIN call' = Tasks
      /\ call'[t].pc = p /\ call'[t].kind = call[t].kind /\ call'[t].br = call[t].br
      /\ call'[t].k = call[t].k /\ call'[t].start = call[t].start
      /\ call'[t].alive = call[t].alive /\ call'[t].res = call[t].res
      /\ \A u \in Tasks \ {t} : call'[u] = call[u]
  BY <1>1, <1>2, GotoEffect
<1>4. /\ list' \in [Branches -> Seq(Tasks \X Nat)] /\ \A d \in Branches : Distinct(list'[d])
      /\ winner' \in [Tasks -> Nat \cup {Cancelled}] /\ ready' \in [Tasks -> Nat]
      /\ \A u \in Tasks : \A i \in Nat : \A d \in Branches :
           <<u, i>> \in InList(list'[d]) => <<u, i>> \in InList(list[d])
      /\ \A u \in Tasks :
           call'[u] = call[u] /\ (call[u].pc = "idle" => timer'[u] = timer[u]) => TaskInv(u)'
      /\ \A u \in Tasks : call[u].pc \in Busy => winner'[u] = winner[u] /\ ready'[u] = ready[u]
  BY WokenStep
<1>5. Types'
  BY <1>1, <1>3, <1>4 DEF Types, RuntimeTypeOK
<1>6. \A c \in Chans : (atclose[c] <= sent[c])'
  BY DEF IInv
<1>7. CallInv(t)'
  BY <1>1, <1>2, <1>3 DEF CallInv, N, Branch
<1>8. EndInv(t)'
  BY <1>1, <1>3 DEF EndInv, CallInv
<1>9. TokenInv(t)'
  <2>1. Runs(t)' /\ ready'[t] = 0 /\ winner'[t] = 0 /\ ~cancel_fn'[t]
    BY <1>1, <1>2, <1>4 DEF TaskInv, TokenInv, Runs, Busy
  <2> QED
    BY <1>2, <1>3, <2>1 DEF TokenInv, Busy, Linking
<1>10. LinkInv(t)'
  <2>1. \A i \in Nat : ~MayBeLinked(t, i)
    BY <1>2 DEF MayBeLinked, Busy
  <2>2. \A d \in Branches : \A i \in Nat : <<t, i>> \notin InList(list[d])
    BY <1>1, <2>1 DEF TaskInv, LinkInv
  <2> QED
    BY <1>4, <2>2 DEF LinkInv
<1>11. \A u \in Tasks : TaskInv(u)'
  BY <1>3, <1>4, <1>7, <1>8, <1>9, <1>10 DEF TaskInv
<1> QED
  BY <1>5, <1>6, <1>11 DEF IInv

\* A finished send or receive wakes the first waiter of the other side.
LEMMA WakeOneWaiterStep == ASSUME IInv, NEW t \in Tasks, WakeOneWaiter(t) PROVE IInv'
<1>1. Runs(t) /\ call[t].pc = "notify" /\ call[t].pc \in Busy \ {"finish"}
  BY DEF WakeOneWaiter, At, Busy
<1>2. /\ Fire(Other(Branch(t)), 1) /\ Goto(t, "finish")
      /\ UNCHANGED <<running, cancel_fn, requested, kick, prog, queue_, closed_, timer, sent,
                     atclose>>
  BY DEF WakeOneWaiter
<1>3. Branch(t) \in Chans \X {"recv", "send"}
  BY <1>1 DEF IInv, TaskInv, CallInv
<1>4. Other(Branch(t)) \in Branches
  BY <1>3 DEF Other, Branches
<1> QED
  BY <1>1, <1>2, <1>4, WakerStep

\* close() wakes every receiver, then every sender.
LEMMA WakeAllWaitersStep == ASSUME IInv, NEW t \in Tasks, WakeAllWaiters(t) PROVE IInv'
<1> DEFINE side == IF call[t].pc = "wake_recv" THEN "recv" ELSE "send"
           p == IF side = "recv" THEN "wake_send" ELSE "finish"
<1>1. Runs(t) /\ call[t].pc \in {"wake_recv", "wake_send"} /\ call[t].pc \in Busy \ {"finish"}
  BY DEF WakeAllWaiters, Busy
<1>2. /\ Fire(<<Branch(t)[1], side>>, Len(list[<<Branch(t)[1], side>>])) /\ Goto(t, p)
      /\ UNCHANGED <<running, cancel_fn, requested, kick, prog, queue_, closed_, timer, sent,
                     atclose>>
  BY DEF WakeAllWaiters
<1>3. Branch(t) \in Chans \X {"recv"}
  BY <1>1 DEF IInv, TaskInv, CallInv
<1>4. <<Branch(t)[1], side>> \in Branches /\ p \in {"finish", "wake_send"}
  BY <1>3 DEF Branches
<1> DEFINE b == <<Branch(t)[1], side>>
           n == Len(list[b])
<1>5. b \in Branches /\ n \in Nat /\ Fire(b, n)
  <2>1. b \in Branches /\ list[b] \in Seq(Tasks \X Nat)
    BY <1>4 DEF IInv, Types
  <2>2. n \in Nat
    BY <2>1
  <2> QED
    BY <1>2, <2>1, <2>2
<1> HIDE DEF side, p, b, n
<1> QED
  BY <1>1, <1>2, <1>3, <1>4, <1>5, WakerStep

\* A token that is cancelled wakes every select that waits for it.
LEMMA WakeTokenStep == ASSUME IInv, NEW t \in Tasks, WakeToken(t) PROVE IInv'
<1>1. Runs(t) /\ call[t].pc = "wake_token" /\ call[t].pc \in Busy \ {"finish"}
  BY DEF WakeToken, At, Busy
<1>2. /\ Fire(<<Token, "cancel">>, Len(list[<<Token, "cancel">>])) /\ Goto(t, "finish")
      /\ UNCHANGED <<running, cancel_fn, requested, kick, prog, queue_, closed_, timer, sent,
                     atclose>>
  BY DEF WakeToken
<1>3. <<Token, "cancel">> \in Branches
  BY DEF Branches
<1>4. Len(list[<<Token, "cancel">>]) \in Nat
  <2>1. list[<<Token, "cancel">>] \in Seq(Tasks \X Nat)
    BY <1>3 DEF IInv, Types
  <2> QED
    BY <2>1
<1> QED
  BY <1>1, <1>2, <1>3, <1>4, WakerStep

\* The timer of a sleep branch fires its node.
LEMMA OnFireStep == ASSUME IInv, NEW t \in Tasks, OnFire(t) PROVE IInv'
<1>1. /\ timer[t] = "armed" /\ timer' = [timer EXCEPT ![t] = "fired"]
      /\ Fire(<<t, "sleep">>, 1) /\ call' = call
      /\ UNCHANGED <<running, cancel_fn, requested, kick, prog, queue_, closed_, sent, atclose>>
  BY DEF OnFire
<1>2. <<t, "sleep">> \in Branches /\ Types /\ TaskInv(t)
  BY DEF Branches, IInv
<1>3. /\ list' \in [Branches -> Seq(Tasks \X Nat)] /\ \A d \in Branches : Distinct(list'[d])
      /\ winner' \in [Tasks -> Nat \cup {Cancelled}] /\ ready' \in [Tasks -> Nat]
      /\ \A u \in Tasks :
           call'[u] = call[u] /\ (call[u].pc = "idle" => timer'[u] = timer[u]) => TaskInv(u)'
  BY <1>1, <1>2, WokenStep
<1>4. Types'
  BY <1>1, <1>2, <1>3 DEF Types, RuntimeTypeOK
<1>5. \A u \in Tasks : call[u].pc = "idle" => timer'[u] = timer[u]
  BY <1>1, <1>2 DEF TaskInv, TokenInv, Types
<1>6. \A c \in Chans : (atclose[c] <= sent[c])'
  BY <1>1 DEF IInv
<1> QED
  BY <1>1, <1>3, <1>4, <1>5, <1>6 DEF IInv

(***************************************************************************)
(* Waiting                                                                 *)
(***************************************************************************)

\* t is at p and at its branch kn; the rest of its call is the same.
Moved(t, p, kn) ==
  /\ DOMAIN call' = Tasks
  /\ call'[t] \in CallRecords
  /\ call'[t].pc = p /\ call'[t].k = kn
  /\ call'[t].kind = call[t].kind /\ call'[t].br = call[t].br /\ call'[t].start = call[t].start
  /\ call'[t].alive = call[t].alive /\ call'[t].res # "nullopt"
  /\ \A u \in Tasks \ {t} : call'[u] = call[u]

\* Going to another place of the code moves only the call's record.
LEMMA GotoMoved ==
  ASSUME NEW t \in Tasks, CallInv(t), DOMAIN call = Tasks, call[t].pc # "finish",
         NEW p \in Points, Goto(t, p)
  PROVE  Moved(t, p, call[t].k)
BY GotoEffect DEF Moved, CallInv

\* The same with the loop over the branches set to some branch.
LEMMA JumpMoved ==
  ASSUME NEW t \in Tasks, CallInv(t), DOMAIN call = Tasks, call[t].pc # "finish",
         NEW p \in Points, NEW kn \in Nat, call' = [call EXCEPT ![t].pc = p, ![t].k = kn]
  PROVE  Moved(t, p, kn)
<1>1. call[t] \in CallRecords /\ call[t].res # "nullopt"
  BY DEF CallInv
<1>2. call'[t] = [call[t] EXCEPT !.pc = p, !.k = kn] /\ DOMAIN call' = Tasks
      /\ \A u \in Tasks \ {t} : call'[u] = call[u]
  BY <1>1 DEF CallRecords
<1>3. call'[t] \in CallRecords
  BY <1>1, <1>2 DEF CallRecords
<1> QED
  BY <1>1, <1>2, <1>3 DEF Moved, CallRecords

\* The same with the loop over the branches one further.
LEMMA AdvanceMoved ==
  ASSUME NEW t \in Tasks, CallInv(t), DOMAIN call = Tasks, call[t].pc # "finish",
         call' = [call EXCEPT ![t].k = @ + 1]
  PROVE  Moved(t, call[t].pc, call[t].k + 1)
<1>1. call[t] \in CallRecords /\ call[t].res # "nullopt"
  BY DEF CallInv
<1>2. call'[t] = [call[t] EXCEPT !.k = @ + 1] /\ DOMAIN call' = Tasks
      /\ \A u \in Tasks \ {t} : call'[u] = call[u]
  BY <1>1 DEF CallRecords
<1>3. call[t].k + 1 \in Nat
  BY <1>1 DEF CallRecords
<1>4. call'[t] \in CallRecords
  BY <1>1, <1>2, <1>3 DEF CallRecords
<1> QED
  BY <1>1, <1>2, <1>4 DEF Moved, CallRecords

\* The same when the call finishes without a suspension.
LEMMA CompletedMoved ==
  ASSUME NEW t \in Tasks, CallInv(t), DOMAIN call = Tasks,
         NEW res \in {"fired", "failed", "cancelled"}, Completed(t, res)
  PROVE  Moved(t, "finish", call[t].k)
BY CompletedEffect DEF Moved

\* Points at which a waiting coroutine can arrive.
Arrivals == Linking \cup {"parked", "leave", "poll", "finish"}

\* A step of t in its wait: the other coroutines keep what they have, and t has
\* at its new point the word, the handle and the nodes it should have there.
LEMMA WaitingStep ==
  ASSUME IInv, NEW t \in Tasks, call[t].pc # "idle",
         NEW p \in Arrivals, NEW kn \in 1..N(t), Moved(t, p, kn),
         Types', UNCHANGED <<queue_, closed_, sent, atclose>>,
         \A u \in Tasks \ {t} :
           /\ winner'[u] = winner[u] /\ ready'[u] = ready[u] /\ timer'[u] = timer[u]
           /\ (Runs(u)' <=> Runs(u)) /\ (cancel_fn'[u] => cancel_fn[u]),
         \A u \in Tasks \ {t} : \A d \in Branches : \A i \in Nat :
           <<u, i>> \in InList(list'[d]) => <<u, i>> \in InList(list[d]),
         TokenInv(t)',
         \A d \in Branches : \A i \in Nat : <<t, i>> \in InList(list'[d]) =>
           i \in 1..N(t) /\ call[t].br[i] = d /\ MayBeLinked(t, i)'
  PROVE  IInv'
<1>1. CallInv(t)
  BY DEF IInv, TaskInv
<1>2. Bound' /\ EndsKept
  BY SameChannels
<1>3. \A u \in Tasks \ {t} : Unaffected(u)
  BY DEF Unaffected, Moved
<1>4. CallInv(t)'
  BY <1>1 DEF CallInv, Moved, N, Arrivals, Linking
<1>5. LinkInv(t)'
  <2>1. N(t)' = N(t) /\ call'[t].br = call[t].br
    BY DEF N, Moved
  <2> QED
    BY <2>1 DEF LinkInv
<1>6. EndInv(t)'
  BY DEF EndInv, Moved
<1> QED
  BY <1>2, <1>3, <1>4, <1>5, <1>6, LocalStep DEF TaskInv

\* Linking the node of a branch, and unlinking it.
LEMMA LinkEffect ==
  ASSUME Types, NEW b \in Branches, NEW n \in Tasks \X Nat, n \notin InList(list[b]),
         list' = [list EXCEPT ![b] = push_locked(@, n)]
  PROVE  /\ list' \in [Branches -> Seq(Tasks \X Nat)] /\ \A d \in Branches : Distinct(list'[d])
         /\ InList(list'[b]) = InList(list[b]) \cup {n}
         /\ \A d \in Branches \ {b} : list'[d] = list[d]
<1>1. /\ list \in [Branches -> Seq(Tasks \X Nat)] /\ \A d \in Branches : Distinct(list[d])
      /\ list[b] \in Seq(Tasks \X Nat) /\ Distinct(list[b])
  BY DEF Types
<1> DEFINE l == push_locked(list[b], n)
<1>2. l \in Seq(Tasks \X Nat) /\ InList(l) = InList(list[b]) \cup {n} /\ Distinct(l)
  BY <1>1, PushLocked
<1> HIDE DEF l
<1>3. list' = [list EXCEPT ![b] = l]
  BY DEF l
<1>4. list'[b] = l /\ \A d \in Branches \ {b} : list'[d] = list[d]
  BY <1>1, <1>3
<1> QED
  BY <1>1, <1>2, <1>3, <1>4

\* remove_locked() takes out the node of one branch and no other.
LEMMA UnlinkEffect ==
  ASSUME Types, NEW t \in Tasks, NEW i \in Nat, call[t].br[i] \in Branches, list' = Unlinked(t, i)
  PROVE  /\ list' \in [Branches -> Seq(Tasks \X Nat)] /\ \A d \in Branches : Distinct(list'[d])
         /\ <<t, i>> \notin InList(list'[call[t].br[i]])
         /\ \A d \in Branches : InList(list'[d]) \subseteq InList(list[d])
<1> DEFINE b == call[t].br[i]
           n == <<t, i>>
           l == remove_locked(list[b], n)
<1>1. /\ list \in [Branches -> Seq(Tasks \X Nat)] /\ \A d \in Branches : Distinct(list[d])
      /\ list[b] \in Seq(Tasks \X Nat) /\ Distinct(list[b])
  BY DEF Types
<1>2. list' = [list EXCEPT ![b] = l]
  BY DEF Unlinked
<1>3. /\ l \in Seq(Tasks \X Nat) /\ InList(l) \subseteq InList(list[b]) /\ Distinct(l)
      /\ n \notin InList(l)
  <2>1. CASE n \in InList(list[b])
    <3>1. l \in Seq(Tasks \X Nat) /\ InList(l) = InList(list[b]) \ {n} /\ Distinct(l)
      BY <1>1, <2>1, RemoveLocked
    <3> QED
      BY <3>1
  <2>2. CASE n \notin InList(list[b])
    BY <1>1, <2>2 DEF remove_locked
  <2> QED
    BY <2>1, <2>2
<1> HIDE DEF l
<1>4. list'[b] = l /\ \A d \in Branches \ {b} : list'[d] = list[d]
  BY <1>1, <1>2
<1> QED
  BY <1>1, <1>2, <1>3, <1>4

\* What the invariant says of one call in progress, in one place.
LEMMA Facts ==
  ASSUME IInv, NEW t \in Tasks, call[t].pc # "idle"
  PROVE  /\ CallInv(t) /\ TokenInv(t) /\ LinkInv(t) /\ Types /\ DOMAIN call = Tasks
         /\ N(t) \in Nat \ {0} /\ \A i \in 1..N(t) : call[t].br[i] \in Branches
         /\ call[t].k \in 1..N(t)
         /\ call[t].alive \in SUBSET (1..N(t)) /\ call[t].alive # {}
         /\ winner \in [Tasks -> Nat \cup {Cancelled}]
         /\ list \in [Branches -> Seq(Tasks \X Nat)]
         /\ cancel_fn \in [Tasks -> BOOLEAN] /\ timer \in [Tasks -> {"off", "armed", "fired"}]
<1>1. CallInv(t) /\ TokenInv(t) /\ LinkInv(t) /\ Types /\ DOMAIN call = Tasks
  BY DEF IInv, TaskInv, Types
<1>2. call[t].br \in Seq(Branches) /\ N(t) = Len(call[t].br) /\ call[t].k \in 1..N(t)
      /\ call[t].alive \in SUBSET (1..N(t)) /\ call[t].alive # {}
  BY <1>1 DEF CallInv, CallRecords, N
<1>3. N(t) \in Nat \ {0} /\ \A i \in 1..N(t) : call[t].br[i] \in Branches
  BY <1>2
<1> QED
  BY <1>1, <1>2, <1>3 DEF Types, RuntimeTypeOK

\* The first and the next branch with a node exist.
LEMMA LeastIn ==
  ASSUME NEW n \in Nat, NEW S \in SUBSET (1..n), S # {}
  PROVE  Least(S) \in S
<1>1. \E i \in S : \A j \in S : i <= j
  BY LeastExists
<1> QED
  BY <1>1 DEF Least

\* A call that is to wait looks whether its coroutine was cancelled first.
LEMMA CheckCancelStep == ASSUME IInv, NEW t \in Tasks, CheckCancel(t) PROVE IInv'
<1>1. /\ Runs(t) /\ call[t].pc = "check" /\ call[t].pc \in Busy
      /\ UNCHANGED <<prog, queue_, closed_, sent, atclose, runtime, list, timer, winner>>
  BY DEF CheckCancel, Waits, Busy
<1>2. CASE requested[t]
  <2>1. Completed(t, "cancelled")
    BY <1>2 DEF CheckCancel
  <2> QED
    BY <1>1, <2>1, CompleteStep
<1>3. CASE ~requested[t]
  <2> DEFINE k == Least(call[t].alive)
  <2>1. call' = [call EXCEPT ![t].pc = "attach", ![t].k = k]
    BY <1>3 DEF CheckCancel
  <2>2. k \in 1..N(t) /\ k \in Nat
    BY <1>1, Facts, LeastIn
  <2> HIDE DEF k
  <2>3. Moved(t, "attach", k)
    BY <1>1, <2>1, <2>2, Facts, JumpMoved DEF Points, Linking
  <2>4. Types'
    BY <1>1, <2>3, Facts DEF Types, Moved, RuntimeTypeOK, runtime
  <2>5. TokenInv(t)'
    <3>1. ready[t] = 0 /\ winner[t] = 0 /\ ~cancel_fn[t]
      BY <1>1, Facts DEF TokenInv
    <3>2. ready'[t] = 0 /\ winner'[t] = 0 /\ ~cancel_fn'[t] /\ Runs(t)' /\ call'[t].pc = "attach"
      BY <1>1, <2>3, <3>1 DEF runtime, Runs, Moved
    <3> QED
      BY <3>2 DEF TokenInv, Busy, Linking, Cancelled
  <2>6. \A d \in Branches : \A i \in Nat : <<t, i>> \notin InList(list'[d])
    <3>1. \A i \in Nat : ~MayBeLinked(t, i)
      BY <1>1 DEF MayBeLinked
    <3> QED
      BY <1>1, <3>1, Facts DEF LinkInv
  <2>7. "attach" \in Arrivals /\ call[t].pc # "idle"
    BY <1>1 DEF Arrivals, Linking
  <2>8. \A u \in Tasks \ {t} :
           /\ winner'[u] = winner[u] /\ ready'[u] = ready[u] /\ timer'[u] = timer[u]
           /\ (Runs(u)' <=> Runs(u)) /\ (cancel_fn'[u] => cancel_fn[u])
    BY <1>1 DEF runtime, Runs
  <2> QED
    BY <1>1, <2>2, <2>3, <2>4, <2>5, <2>6, <2>7, <2>8, WaitingStep
<1> QED
  BY <1>2, <1>3

\* The node of one branch is linked, and the timer of a sleep is started.
LEMMA AttachStep == ASSUME IInv, NEW t \in Tasks, Attach(t) PROVE IInv'
<1> DEFINE k == call[t].k
           b == Branch(t)
<1>1. /\ Runs(t) /\ call[t].pc = "attach" /\ Goto(t, "recheck")
      /\ list' = [list EXCEPT ![b] = push_locked(@, <<t, k>>)]
      /\ timer' = IF b[2] = "sleep" /\ timer[t] = "off" THEN [timer EXCEPT ![t] = "armed"] ELSE timer
      /\ UNCHANGED <<prog, queue_, closed_, sent, atclose, runtime, winner>>
  BY DEF Attach, Waits
<1>f. /\ CallInv(t) /\ DOMAIN call = Tasks /\ call[t].k \in 1..N(t) /\ N(t) \in Nat \ {0}
      /\ \A i \in 1..N(t) : call[t].br[i] \in Branches
      /\ timer \in [Tasks -> {"off", "armed", "fired"}]
  BY <1>1, Facts
<1>2. k \in 1..N(t) /\ k \in Nat /\ b = call[t].br[k] /\ b \in Branches
  BY <1>f DEF Branch
<1>3. Moved(t, "recheck", k)
  BY <1>1, Facts, GotoMoved DEF Points, Linking
<1>4. /\ timer' \in [Tasks -> {"off", "armed", "fired"}]
      /\ \A u \in Tasks \ {t} : timer'[u] = timer[u]
  <2>1. CASE b[2] = "sleep" /\ timer[t] = "off"
    BY <1>1, <1>f, <2>1
  <2>2. CASE ~(b[2] = "sleep" /\ timer[t] = "off")
    <3>1. timer' = timer
      BY <1>1, <2>2
    <3> QED
      BY <1>f, <3>1
  <2> QED
    BY <2>1, <2>2
<1>5. <<t, k>> \notin InList(list[b])
  <2>1. ~MayBeLinked(t, k)
    BY <1>1, <1>2 DEF MayBeLinked
  <2>2. LinkInv(t)
    BY <1>1, Facts
  <2> QED
    BY <1>2, <2>1, <2>2 DEF LinkInv
<1> HIDE DEF k, b
<1>6. /\ list' \in [Branches -> Seq(Tasks \X Nat)] /\ \A d \in Branches : Distinct(list'[d])
      /\ InList(list'[b]) = InList(list[b]) \cup {<<t, k>>}
      /\ \A d \in Branches \ {b} : list'[d] = list[d]
  <2>1. Types /\ <<t, k>> \in Tasks \X Nat
    BY <1>1, <1>2, Facts
  <2> QED
    BY <1>1, <1>2, <1>5, <2>1, LinkEffect
<1>7. Types'
  BY <1>1, <1>3, <1>4, <1>6, Facts DEF Types, Moved, RuntimeTypeOK, runtime
<1>8. TokenInv(t)'
  <2>1. TokenInv(t)
    BY <1>1, Facts
  <2>2. ready'[t] = ready[t] /\ winner'[t] = winner[t] /\ cancel_fn'[t] = cancel_fn[t]
        /\ Runs(t)' /\ call'[t].pc = "recheck"
    BY <1>1, <1>3 DEF runtime, Runs, Moved
  <2> QED
    BY <1>1, <2>1, <2>2 DEF TokenInv, Busy, Linking
<1>9. ASSUME NEW d \in Branches, NEW i \in Nat, <<t, i>> \in InList(list'[d])
      PROVE  i \in 1..N(t) /\ call[t].br[i] = d /\ MayBeLinked(t, i)'
  <2>0. call'[t].pc = "recheck" /\ call'[t].k = k
    BY <1>3 DEF Moved
  <2>1. CASE <<t, i>> \in InList(list[d])
    <3>1. i \in 1..N(t) /\ call[t].br[i] = d /\ MayBeLinked(t, i)
      BY <1>1, <2>1, Facts DEF LinkInv
    <3>2. i < k
      BY <1>1, <3>1 DEF MayBeLinked, k
    <3> QED
      BY <1>2, <2>0, <3>1, <3>2 DEF MayBeLinked
  <2>2. CASE <<t, i>> \notin InList(list[d])
    <3>1. d = b /\ i = k
      BY <1>6, <1>9, <2>2
    <3> QED
      BY <1>2, <2>0, <3>1 DEF MayBeLinked
  <2> QED
    BY <2>1, <2>2
<1>10. ASSUME NEW u \in Tasks \ {t}, NEW d \in Branches, NEW i \in Nat, <<u, i>> \in InList(list'[d])
       PROVE  <<u, i>> \in InList(list[d])
  BY <1>6, <1>10
<1>11. "recheck" \in Arrivals /\ call[t].pc # "idle"
  BY <1>1 DEF Arrivals, Linking
<1>12. \A u \in Tasks \ {t} :
           /\ winner'[u] = winner[u] /\ ready'[u] = ready[u] /\ timer'[u] = timer[u]
           /\ (Runs(u)' <=> Runs(u)) /\ (cancel_fn'[u] => cancel_fn[u])
  BY <1>1, <1>4 DEF runtime, Runs
<1> QED
  BY <1>1, <1>2, <1>3, <1>7, <1>8, <1>9, <1>10, <1>11, <1>12, WaitingStep

\* A step of t that touches its call only.
LEMMA SilentStep ==
  ASSUME IInv, NEW t \in Tasks, Runs(t), call[t].pc \in Linking,
         NEW p \in Linking, NEW kn \in 1..N(t), Moved(t, p, kn),
         UNCHANGED <<prog, queue_, closed_, sent, atclose, runtime, list, timer, winner>>,
         cancel_fn[t] => p = "withdraw",
         \A i \in 1..N(t) : MayBeLinked(t, i) => MayBeLinked(t, i)'
  PROVE  IInv'
<1>0. call[t].pc # "idle" /\ p \in Arrivals
  BY DEF Linking, Arrivals
<1>1. TokenInv(t) /\ LinkInv(t) /\ Types
  BY <1>0, Facts
<1>2. Types'
  BY <1>1 DEF Types, Moved, RuntimeTypeOK, runtime
<1>3. TokenInv(t)'
  <2>1. ready'[t] = ready[t] /\ winner'[t] = winner[t] /\ cancel_fn'[t] = cancel_fn[t]
        /\ Runs(t)' /\ call'[t].pc = p
    BY DEF runtime, Runs, Moved
  <2>2. winner[t] # Cancelled /\ ready[t] = (IF winner[t] = 0 THEN 0 ELSE 1)
    BY <1>1 DEF TokenInv
  <2> QED
    BY <2>1, <2>2 DEF TokenInv, Busy, Linking
<1>4. ASSUME NEW d \in Branches, NEW i \in Nat, <<t, i>> \in InList(list'[d])
      PROVE  i \in 1..N(t) /\ call[t].br[i] = d /\ MayBeLinked(t, i)'
  BY <1>1, <1>4 DEF LinkInv
<1>5. \A u \in Tasks \ {t} :
           /\ winner'[u] = winner[u] /\ ready'[u] = ready[u] /\ timer'[u] = timer[u]
           /\ (Runs(u)' <=> Runs(u)) /\ (cancel_fn'[u] => cancel_fn[u])
  BY DEF runtime, Runs
<1> QED
  BY <1>0, <1>2, <1>3, <1>4, <1>5, WaitingStep

\* Having linked a branch, the call looks at it again.
LEMMA RecheckStep == ASSUME IInv, NEW t \in Tasks, Recheck(t) PROVE IInv'
<1> DEFINE stays == MustWait(t, Branch(t))
           more == After(t, call[t].k)
           p == CASE ~stays -> "detach"
                  [] stays /\ more # {} -> "attach"
                  [] OTHER -> "arm"
           kn == IF stays /\ more # {} THEN Least(more) ELSE 1
<1>1. /\ Runs(t) /\ call[t].pc = "recheck" /\ call[t].pc \in Linking /\ call[t].pc # "idle"
      /\ UNCHANGED <<prog, queue_, closed_, sent, atclose, runtime, list, timer, winner>>
  BY DEF Recheck, Waits, Linking
<1>2. call' = [call EXCEPT ![t].pc = p, ![t].k = kn]
  BY DEF Recheck
<1>3. /\ CallInv(t) /\ DOMAIN call = Tasks /\ N(t) \in Nat \ {0} /\ call[t].k \in 1..N(t)
      /\ call[t].alive \in SUBSET (1..N(t)) /\ TokenInv(t)
  BY <1>1, Facts
<1> HIDE DEF stays
<1>4. more \in SUBSET (1..N(t)) /\ (more # {} => Least(more) \in more)
  <2>1. more \in SUBSET (1..N(t))
    BY <1>3 DEF After
  <2> QED
    BY <1>3, <2>1, LeastIn
<1>5. \A i \in more : i > call[t].k
  BY DEF After
<1> HIDE DEF more
<1>6. /\ p \in {"detach", "attach", "arm"} /\ kn \in 1..N(t)
      /\ (p = "attach" => kn > call[t].k) /\ (p = "detach" => kn = 1)
  BY <1>3, <1>4, <1>5
<1> HIDE DEF p, kn
<1>7. Moved(t, p, kn)
  <2>1. p \in Points /\ kn \in Nat /\ call[t].pc # "finish"
    BY <1>1, <1>6 DEF Points, Linking
  <2> QED
    BY <1>2, <1>3, <2>1, JumpMoved
<1>8. ASSUME NEW i \in 1..N(t), MayBeLinked(t, i) PROVE MayBeLinked(t, i)'
  <2>1. i <= call[t].k /\ i \in Nat /\ i >= 1 /\ call[t].k \in Nat /\ kn \in Nat
    BY <1>1, <1>3, <1>6, <1>8 DEF MayBeLinked
  <2>2. call'[t].pc = p /\ call'[t].k = kn
    BY <1>7 DEF Moved
  <2> QED
    BY <1>6, <2>1, <2>2 DEF MayBeLinked
<1>9. ~cancel_fn[t] /\ p \in Linking
  BY <1>1, <1>3, <1>6 DEF TokenInv, Linking
<1> QED
  BY <1>1, <1>6, <1>7, <1>8, <1>9, SilentStep

\* What t may still have linked once the node of its branch i is unlinked.
LEMMA OthersLinked ==
  ASSUME IInv, NEW t \in Tasks, call[t].pc # "idle", NEW i \in 1..N(t), list' = Unlinked(t, i)
  PROVE  /\ list' \in [Branches -> Seq(Tasks \X Nat)] /\ \A d \in Branches : Distinct(list'[d])
         /\ \A u \in Tasks : \A d \in Branches : \A j \in Nat :
              <<u, j>> \in InList(list'[d]) => <<u, j>> \in InList(list[d])
         /\ \A d \in Branches : \A j \in Nat : <<t, j>> \in InList(list'[d]) =>
              j \in 1..N(t) /\ call[t].br[j] = d /\ MayBeLinked(t, j) /\ j # i
<1>1. /\ LinkInv(t) /\ Types /\ N(t) \in Nat \ {0} /\ call[t].br[i] \in Branches /\ i \in Nat
  BY Facts
<1>2. /\ list' \in [Branches -> Seq(Tasks \X Nat)] /\ \A d \in Branches : Distinct(list'[d])
      /\ <<t, i>> \notin InList(list'[call[t].br[i]])
      /\ \A d \in Branches : InList(list'[d]) \subseteq InList(list[d])
  BY <1>1, UnlinkEffect
<1>3. \A u \in Tasks : \A d \in Branches : \A j \in Nat :
        <<u, j>> \in InList(list'[d]) => <<u, j>> \in InList(list[d])
  BY <1>2
<1>4. ASSUME NEW d \in Branches, NEW j \in Nat, <<t, j>> \in InList(list'[d])
      PROVE  j \in 1..N(t) /\ call[t].br[j] = d /\ MayBeLinked(t, j) /\ j # i
  BY <1>1, <1>2, <1>3, <1>4 DEF LinkInv
<1> QED
  BY <1>2, <1>3, <1>4

\* t, which runs, may stop here; no other coroutine notices.
LEMMA ParkEffect ==
  ASSUME Types, NEW t \in Tasks, Runs(t), CallInv(t), call[t].pc # "finish", Parks(t)
  PROVE  /\ Moved(t, "parked", 1)
         /\ running' \in [Workers -> Tasks \cup {None}] /\ ~Runs(t)'
         /\ \A u \in Tasks \ {t} : Runs(u)' <=> Runs(u)
<1>1. call' = [call EXCEPT ![t].pc = "parked", ![t].k = 1] /\ Suspend(t)
  BY DEF Parks
<1>2. Moved(t, "parked", 1)
  BY <1>1, JumpMoved DEF Types, Points
<1> QED
  BY <1>1, <1>2, SuspendEffect DEF Types

\* A call that need not wait after all takes its nodes out, or suspends if it
\* has lost the claim.
LEMMA DetachStep == ASSUME IInv, NEW t \in Tasks, Detach(t) PROVE IInv'
<1> DEFINE k == call[t].k
<1>1. /\ Runs(t) /\ call[t].pc = "detach" /\ list' = Unlinked(t, k)
      /\ UNCHANGED <<prog, queue_, closed_, sent, atclose, ready, cancel_fn, requested, kick, timer>>
  BY DEF Detach, Waits
<1>2. /\ CallInv(t) /\ TokenInv(t) /\ Types /\ DOMAIN call = Tasks
      /\ N(t) \in Nat \ {0} /\ k \in 1..N(t) /\ winner \in [Tasks -> Nat \cup {Cancelled}]
  BY <1>1, Facts
<1>3. /\ list' \in [Branches -> Seq(Tasks \X Nat)] /\ \A d \in Branches : Distinct(list'[d])
      /\ \A u \in Tasks : \A d \in Branches : \A j \in Nat :
           <<u, j>> \in InList(list'[d]) => <<u, j>> \in InList(list[d])
      /\ \A d \in Branches : \A j \in Nat : <<t, j>> \in InList(list'[d]) =>
           j \in 1..N(t) /\ call[t].br[j] = d /\ MayBeLinked(t, j) /\ j # k
  BY <1>1, <1>2, OthersLinked
<1>4. /\ ~cancel_fn[t] /\ winner[t] # Cancelled /\ ready[t] = (IF winner[t] = 0 THEN 0 ELSE 1)
      /\ call[t].pc # "idle" /\ call[t].pc # "finish"
  BY <1>1, <1>2 DEF TokenInv, Linking
<1>5. \A j \in Nat : MayBeLinked(t, j) => j >= k
  BY <1>1 DEF MayBeLinked
<1>6. CASE k < N(t)
  <2>1. call' = [call EXCEPT ![t].k = @ + 1] /\ UNCHANGED <<winner, running>>
    BY <1>6 DEF Detach
  <2>2. Moved(t, "detach", k + 1)
    BY <1>1, <1>2, <1>4, <2>1, AdvanceMoved
  <2>3. Types'
    BY <1>1, <1>2, <1>3, <2>1, <2>2 DEF Types, Moved, RuntimeTypeOK
  <2>4. Runs(t)' /\ call'[t].pc = "detach" /\ call'[t].k = k + 1
    BY <1>1, <2>1, <2>2 DEF Runs, Moved
  <2>5. TokenInv(t)'
    BY <1>1, <1>4, <2>1, <2>4 DEF TokenInv, Busy, Linking
  <2>6. ASSUME NEW d \in Branches, NEW j \in Nat, <<t, j>> \in InList(list'[d])
        PROVE  j \in 1..N(t) /\ call[t].br[j] = d /\ MayBeLinked(t, j)'
    <3>1. j \in 1..N(t) /\ call[t].br[j] = d /\ j >= k /\ j # k
      BY <1>3, <1>5, <2>6
    <3>2. j >= k + 1
      BY <1>2, <3>1
    <3> QED
      BY <2>4, <3>1, <3>2 DEF MayBeLinked
  <2>7. k + 1 \in 1..N(t) /\ "detach" \in Arrivals
    BY <1>2, <1>6 DEF Arrivals, Linking
  <2>8. \A u \in Tasks \ {t} :
           /\ winner'[u] = winner[u] /\ ready'[u] = ready[u] /\ timer'[u] = timer[u]
           /\ (Runs(u)' <=> Runs(u)) /\ (cancel_fn'[u] => cancel_fn[u])
    BY <1>1, <2>1 DEF Runs
  <2> HIDE DEF k
  <2> QED
    BY <1>1, <1>3, <1>4, <2>2, <2>3, <2>5, <2>6, <2>7, <2>8, WaitingStep
<1>7. CASE ~(k < N(t))
  <2>1. \A d \in Branches : \A j \in Nat : <<t, j>> \notin InList(list'[d])
    BY <1>2, <1>3, <1>5, <1>7
  <2>2. 1 \in 1..N(t) /\ "poll" \in Arrivals /\ "parked" \in Arrivals /\ "poll" \in Points
    BY <1>2 DEF Arrivals, Points, Busy
  <2>3. CASE winner[t] = 0
    <3>1. /\ call' = [call EXCEPT ![t].pc = "poll", ![t].k = 1] /\ winner' = [winner EXCEPT ![t] = 0]
          /\ running' = running
      BY <1>7, <2>3 DEF Detach, Again
    <3>2. Moved(t, "poll", 1)
      BY <1>2, <1>4, <2>2, <3>1, JumpMoved
    <3>3. winner' = winner
      BY <1>2, <2>3, <3>1
    <3>4. Types'
      BY <1>1, <1>2, <1>3, <3>1, <3>2, <3>3 DEF Types, Moved, RuntimeTypeOK
    <3>5. Runs(t)' /\ call'[t].pc = "poll"
      BY <1>1, <3>1, <3>2 DEF Runs, Moved
    <3>6. TokenInv(t)'
      BY <1>1, <1>4, <2>3, <3>3, <3>5 DEF TokenInv, Busy, Linking
    <3>7. \A u \in Tasks \ {t} :
             /\ winner'[u] = winner[u] /\ ready'[u] = ready[u] /\ timer'[u] = timer[u]
             /\ (Runs(u)' <=> Runs(u)) /\ (cancel_fn'[u] => cancel_fn[u])
      BY <1>1, <3>1, <3>3 DEF Runs
    <3> QED
      BY <1>1, <1>3, <1>4, <2>1, <2>2, <3>2, <3>4, <3>6, <3>7, WaitingStep
  <2>4. CASE winner[t] # 0
    <3>1. Parks(t) /\ winner' = winner
      BY <1>7, <2>4 DEF Detach
    <3>2. /\ Moved(t, "parked", 1)
          /\ running' \in [Workers -> Tasks \cup {None}] /\ ~Runs(t)'
          /\ \A u \in Tasks \ {t} : Runs(u)' <=> Runs(u)
      BY <1>1, <1>2, <1>4, <3>1, ParkEffect
    <3>3. Types'
      BY <1>1, <1>2, <1>3, <3>1, <3>2 DEF Types, Moved, RuntimeTypeOK
    <3>4. call'[t].pc = "parked"
      BY <3>2 DEF Moved
    <3>5. TokenInv(t)'
      BY <1>1, <1>4, <2>4, <3>1, <3>2, <3>4 DEF TokenInv, Busy, Linking
    <3>6. \A u \in Tasks \ {t} :
             /\ winner'[u] = winner[u] /\ ready'[u] = ready[u] /\ timer'[u] = timer[u]
             /\ (Runs(u)' <=> Runs(u)) /\ (cancel_fn'[u] => cancel_fn[u])
      BY <1>1, <3>1, <3>2
    <3> QED
      BY <1>1, <1>3, <1>4, <2>1, <2>2, <3>2, <3>3, <3>5, <3>6, WaitingStep
  <2> QED
    BY <2>3, <2>4
<1> QED
  BY <1>6, <1>7

\* The cancel hook is armed; the call suspends, or withdraws if it was
\* cancelled.
LEMMA ArmCancelStep == ASSUME IInv, NEW t \in Tasks, ArmCancel(t) PROVE IInv'
<1>1. /\ Runs(t) /\ call[t].pc = "arm" /\ cancel_fn' = [cancel_fn EXCEPT ![t] = TRUE]
      /\ UNCHANGED <<prog, queue_, closed_, sent, atclose, ready, requested, kick, list, timer, winner>>
  BY DEF ArmCancel, Waits
<1>2. /\ CallInv(t) /\ TokenInv(t) /\ LinkInv(t) /\ Types /\ DOMAIN call = Tasks
      /\ N(t) \in Nat \ {0} /\ call[t].k \in 1..N(t) /\ cancel_fn \in [Tasks -> BOOLEAN]
  BY <1>1, Facts
<1>3. /\ winner[t] # Cancelled /\ ready[t] = (IF winner[t] = 0 THEN 0 ELSE 1)
      /\ call[t].pc # "idle" /\ call[t].pc # "finish"
  BY <1>1, <1>2 DEF TokenInv, Linking
<1>4. /\ cancel_fn' \in [Tasks -> BOOLEAN]
      /\ \A u \in Tasks \ {t} : cancel_fn'[u] = cancel_fn[u]
  BY <1>1, <1>2
<1>5. PICK p \in {"withdraw", "parked"}, kn \in 1..N(t) :
        /\ Moved(t, p, kn) /\ running' \in [Workers -> Tasks \cup {None}]
        /\ Runs(t)' <=> (p = "withdraw")
        /\ \A u \in Tasks \ {t} : Runs(u)' <=> Runs(u)
  <2>1. CASE requested[t]
    <3>1. Goto(t, "withdraw") /\ running' = running /\ "withdraw" \in Points
      BY <2>1 DEF ArmCancel, Points, Linking
    <3>2. Moved(t, "withdraw", call[t].k)
      BY <1>2, <1>3, <3>1, GotoMoved
    <3>3. /\ running' \in [Workers -> Tasks \cup {None}] /\ Runs(t)'
          /\ \A u \in Tasks \ {t} : Runs(u)' <=> Runs(u)
      BY <1>1, <1>2, <3>1 DEF Runs, Types, RuntimeTypeOK
    <3> QED
      BY <1>2, <3>2, <3>3
  <2>2. CASE ~requested[t]
    <3>1. Parks(t) /\ 1 \in 1..N(t)
      BY <1>2, <2>2 DEF ArmCancel
    <3>2. /\ Moved(t, "parked", 1)
          /\ running' \in [Workers -> Tasks \cup {None}] /\ ~Runs(t)'
          /\ \A u \in Tasks \ {t} : Runs(u)' <=> Runs(u)
      BY <1>1, <1>2, <1>3, <3>1, ParkEffect
    <3> QED
      BY <3>1, <3>2
  <2> QED
    BY <2>1, <2>2
<1>6. Types'
  BY <1>1, <1>2, <1>4, <1>5 DEF Types, Moved, RuntimeTypeOK
<1>7. call'[t].pc = p /\ p \in Arrivals
  BY <1>5 DEF Moved, Arrivals, Linking
<1>8. TokenInv(t)'
  BY <1>1, <1>3, <1>5, <1>7 DEF TokenInv, Busy, Linking
<1>9. ASSUME NEW d \in Branches, NEW j \in Nat, <<t, j>> \in InList(list'[d])
      PROVE  j \in 1..N(t) /\ call[t].br[j] = d /\ MayBeLinked(t, j)'
  <2>1. j \in 1..N(t) /\ call[t].br[j] = d
    BY <1>1, <1>2, <1>9 DEF LinkInv
  <2> QED
    BY <1>5, <1>7, <2>1 DEF MayBeLinked
<1>10. \A u \in Tasks \ {t} :
         /\ winner'[u] = winner[u] /\ ready'[u] = ready[u] /\ timer'[u] = timer[u]
         /\ (Runs(u)' <=> Runs(u)) /\ (cancel_fn'[u] => cancel_fn[u])
  BY <1>1, <1>4, <1>5
<1> QED
  BY <1>1, <1>3, <1>5, <1>6, <1>7, <1>8, <1>9, <1>10, WaitingStep

\* A node that is unlinked by OpWait, or left to the nodes' owner by a select.
LEMMA MaybeUnlinked ==
  ASSUME IInv, NEW t \in Tasks, call[t].pc # "idle",
         list' = IF call[t].kind \notin Selects THEN Unlinked(t, 1) ELSE list
  PROVE  /\ list' \in [Branches -> Seq(Tasks \X Nat)] /\ \A d \in Branches : Distinct(list'[d])
         /\ \A u \in Tasks : \A d \in Branches : \A j \in Nat :
              <<u, j>> \in InList(list'[d]) => <<u, j>> \in InList(list[d])
<1>1. N(t) \in Nat \ {0} /\ Types
  BY Facts
<1>2. CASE list' = Unlinked(t, 1)
  BY <1>1, <1>2, OthersLinked
<1>3. CASE list' = list
  BY <1>1, <1>3 DEF Types
<1> QED
  BY <1>2, <1>3

\* A cancelled call claims its own wait, or suspends because someone has fired
\* it.
LEMMA WithdrawSelfStep == ASSUME IInv, NEW t \in Tasks, WithdrawSelf(t) PROVE IInv'
<1>1. /\ Runs(t) /\ call[t].pc = "withdraw"
      /\ list' = IF call[t].kind \notin Selects THEN Unlinked(t, 1) ELSE list
      /\ UNCHANGED <<prog, queue_, closed_, sent, atclose, ready, requested, kick, timer>>
  BY DEF WithdrawSelf, Waits
<1>2. /\ CallInv(t) /\ TokenInv(t) /\ LinkInv(t) /\ Types /\ DOMAIN call = Tasks
      /\ N(t) \in Nat \ {0} /\ cancel_fn \in [Tasks -> BOOLEAN]
      /\ winner \in [Tasks -> Nat \cup {Cancelled}]
  BY <1>1, Facts
<1>3. /\ winner[t] # Cancelled /\ ready[t] = (IF winner[t] = 0 THEN 0 ELSE 1)
      /\ call[t].pc # "idle" /\ call[t].pc # "finish" /\ 1 \in 1..N(t)
  BY <1>1, <1>2 DEF TokenInv, Linking
<1>4. /\ list' \in [Branches -> Seq(Tasks \X Nat)] /\ \A d \in Branches : Distinct(list'[d])
      /\ \A u \in Tasks : \A d \in Branches : \A j \in Nat :
           <<u, j>> \in InList(list'[d]) => <<u, j>> \in InList(list[d])
  BY <1>1, <1>3, MaybeUnlinked
<1>5. ASSUME NEW p \in {"leave", "parked"}, Moved(t, p, 1)
      PROVE  \A d \in Branches : \A j \in Nat : <<t, j>> \in InList(list'[d]) =>
               j \in 1..N(t) /\ call[t].br[j] = d /\ MayBeLinked(t, j)'
  <2> SUFFICES ASSUME NEW d \in Branches, NEW j \in Nat, <<t, j>> \in InList(list'[d])
               PROVE  j \in 1..N(t) /\ call[t].br[j] = d /\ MayBeLinked(t, j)'
    OBVIOUS
  <2>1. j \in 1..N(t) /\ call[t].br[j] = d
    BY <1>2, <1>4 DEF LinkInv
  <2>2. call'[t].pc = p /\ call'[t].k = 1 /\ j >= 1
    BY <1>2, <1>5, <2>1 DEF Moved
  <2> QED
    BY <1>5, <2>1, <2>2 DEF MayBeLinked
<1>6. CASE winner[t] = 0
  <2>1. /\ winner' = [winner EXCEPT ![t] = Cancelled] /\ cancel_fn' = [cancel_fn EXCEPT ![t] = FALSE]
        /\ call' = [call EXCEPT ![t].pc = "leave", ![t].k = 1] /\ running' = running
    BY <1>6 DEF WithdrawSelf
  <2>2. Moved(t, "leave", 1)
    BY <1>2, <1>3, <2>1, JumpMoved DEF Points
  <2>3. /\ winner' \in [Tasks -> Nat \cup {Cancelled}] /\ cancel_fn' \in [Tasks -> BOOLEAN]
        /\ winner'[t] = Cancelled /\ ~cancel_fn'[t]
        /\ \A u \in Tasks \ {t} : winner'[u] = winner[u] /\ cancel_fn'[u] = cancel_fn[u]
    BY <1>2, <2>1
  <2>4. Types'
    BY <1>1, <1>2, <1>4, <2>1, <2>2, <2>3 DEF Types, Moved, RuntimeTypeOK
  <2>5. Runs(t)' /\ call'[t].pc = "leave" /\ ready'[t] = 0
    BY <1>1, <1>3, <1>6, <2>1, <2>2 DEF Runs, Moved
  <2>6. TokenInv(t)'
    BY <2>3, <2>5 DEF TokenInv, Busy, Linking, Cancelled
  <2>7. \A u \in Tasks \ {t} :
           /\ winner'[u] = winner[u] /\ ready'[u] = ready[u] /\ timer'[u] = timer[u]
           /\ (Runs(u)' <=> Runs(u)) /\ (cancel_fn'[u] => cancel_fn[u])
    BY <1>1, <2>1, <2>3 DEF Runs
  <2>8. "leave" \in Arrivals
    BY DEF Arrivals
  <2> QED
    BY <1>1, <1>3, <1>4, <1>5, <2>2, <2>4, <2>6, <2>7, <2>8, WaitingStep
<1>7. CASE winner[t] # 0
  <2>1. Parks(t) /\ UNCHANGED <<winner, cancel_fn>>
    BY <1>7 DEF WithdrawSelf
  <2>2. /\ Moved(t, "parked", 1)
        /\ running' \in [Workers -> Tasks \cup {None}] /\ ~Runs(t)'
        /\ \A u \in Tasks \ {t} : Runs(u)' <=> Runs(u)
    BY <1>1, <1>2, <1>3, <2>1, ParkEffect
  <2>3. Types'
    BY <1>1, <1>2, <1>4, <2>1, <2>2 DEF Types, Moved, RuntimeTypeOK
  <2>4. call'[t].pc = "parked" /\ "parked" \in Arrivals
    BY <2>2 DEF Moved, Arrivals
  <2>5. TokenInv(t)'
    BY <1>1, <1>3, <1>7, <2>1, <2>2, <2>4 DEF TokenInv, Busy, Linking
  <2>6. \A u \in Tasks \ {t} :
           /\ winner'[u] = winner[u] /\ ready'[u] = ready[u] /\ timer'[u] = timer[u]
           /\ (Runs(u)' <=> Runs(u)) /\ (cancel_fn'[u] => cancel_fn[u])
    BY <1>1, <2>1, <2>2
  <2> QED
    BY <1>1, <1>3, <1>4, <1>5, <2>2, <2>3, <2>4, <2>5, <2>6, WaitingStep
<1> QED
  BY <1>6, <1>7

\* await_resume() unlinks one node after the other; after the last one t has
\* none, and goes on with a fresh word.
LEMMA LeaveStep == ASSUME IInv, NEW t \in Tasks, Leave(t) PROVE IInv'
<1> DEFINE k == call[t].k
<1>1. /\ Runs(t) /\ call[t].pc = "leave" /\ list' = Unlinked(t, k)
      /\ UNCHANGED <<prog, queue_, closed_, sent, atclose, runtime, timer>>
  BY DEF Leave, Waits
<1>2. /\ CallInv(t) /\ TokenInv(t) /\ Types /\ DOMAIN call = Tasks
      /\ N(t) \in Nat \ {0} /\ k \in 1..N(t) /\ winner \in [Tasks -> Nat \cup {Cancelled}]
  BY <1>1, Facts
<1>3. /\ list' \in [Branches -> Seq(Tasks \X Nat)] /\ \A d \in Branches : Distinct(list'[d])
      /\ \A u \in Tasks : \A d \in Branches : \A j \in Nat :
           <<u, j>> \in InList(list'[d]) => <<u, j>> \in InList(list[d])
      /\ \A d \in Branches : \A j \in Nat : <<t, j>> \in InList(list'[d]) =>
           j \in 1..N(t) /\ call[t].br[j] = d /\ MayBeLinked(t, j) /\ j # k
  <2> HIDE DEF k
  <2>1. call[t].pc # "idle"
    BY <1>1
  <2> QED
    BY <1>1, <1>2, <2>1, OthersLinked
<1>4. ~cancel_fn[t] /\ winner[t] # 0 /\ ready[t] = 0 /\ call[t].pc # "idle" /\ call[t].pc # "finish"
  BY <1>1, <1>2 DEF TokenInv
<1>5. \A j \in Nat : MayBeLinked(t, j) => j >= k
  BY <1>1 DEF MayBeLinked
<1>6. ~cancel_fn'[t] /\ ready'[t] = 0 /\ Runs(t)'
  BY <1>1, <1>4 DEF runtime, Runs
<1>7. CASE k < N(t)
  <2>1. call' = [call EXCEPT ![t].k = @ + 1] /\ winner' = winner
    BY <1>2, <1>7 DEF Leave
  <2>2. Moved(t, "leave", k + 1)
    BY <1>1, <1>2, <1>4, <2>1, AdvanceMoved
  <2>3. Types'
    BY <1>1, <1>2, <1>3, <2>1, <2>2 DEF Types, Moved, RuntimeTypeOK, runtime
  <2>4. call'[t].pc = "leave" /\ call'[t].k = k + 1
    BY <2>2 DEF Moved
  <2>5. TokenInv(t)'
    BY <1>4, <1>6, <2>1, <2>4 DEF TokenInv, Busy, Linking
  <2>6. ASSUME NEW d \in Branches, NEW j \in Nat, <<t, j>> \in InList(list'[d])
        PROVE  j \in 1..N(t) /\ call[t].br[j] = d /\ MayBeLinked(t, j)'
    <3>1. j \in 1..N(t) /\ call[t].br[j] = d /\ j >= k /\ j # k
      BY <1>3, <1>5, <2>6
    <3>2. j >= k + 1
      BY <1>2, <3>1
    <3> QED
      BY <2>4, <3>1, <3>2 DEF MayBeLinked
  <2>7. k + 1 \in 1..N(t) /\ "leave" \in Arrivals
    BY <1>2, <1>7 DEF Arrivals
  <2>8. \A u \in Tasks \ {t} :
           /\ winner'[u] = winner[u] /\ ready'[u] = ready[u] /\ timer'[u] = timer[u]
           /\ (Runs(u)' <=> Runs(u)) /\ (cancel_fn'[u] => cancel_fn[u])
    BY <1>1, <2>1 DEF Runs, runtime
  <2> HIDE DEF k
  <2> QED
    BY <1>1, <1>3, <1>4, <2>2, <2>3, <2>5, <2>6, <2>7, <2>8, WaitingStep
<1>8. CASE k = N(t)
  <2>1. \A d \in Branches : \A j \in Nat : <<t, j>> \notin InList(list'[d])
    BY <1>2, <1>3, <1>5, <1>8
  <2>2. winner' = [winner EXCEPT ![t] = 0]
    BY <1>2, <1>8 DEF Leave, Again
  <2>3. PICK p \in {"finish", "poll"}, kn \in 1..N(t) : Moved(t, p, kn)
    <3>1. \/ Completed(t, "cancelled") \/ Completed(t, "fired") \/ Completed(t, "failed")
          \/ call' = [call EXCEPT ![t].pc = "poll", ![t].k = 1]
      BY <1>2, <1>8 DEF Leave, Again
    <3>2. Moved(t, "finish", k) \/ Moved(t, "poll", 1)
      <4>1. "poll" \in Points
        BY DEF Points, Busy
      <4> QED
        BY <1>2, <1>4, <3>1, <4>1, CompletedMoved, JumpMoved
    <3> QED
      BY <1>2, <3>2
  <2>4. /\ winner' \in [Tasks -> Nat \cup {Cancelled}] /\ winner'[t] = 0
        /\ \A u \in Tasks \ {t} : winner'[u] = winner[u]
    BY <1>2, <2>2
  <2>5. Types'
    BY <1>1, <1>2, <1>3, <2>3, <2>4 DEF Types, Moved, RuntimeTypeOK, runtime
  <2>6. call'[t].pc = p /\ p \in Arrivals
    BY <2>3 DEF Moved, Arrivals
  <2>7. TokenInv(t)'
    BY <1>6, <2>4, <2>6 DEF TokenInv, Busy, Linking
  <2>8. \A u \in Tasks \ {t} :
           /\ winner'[u] = winner[u] /\ ready'[u] = ready[u] /\ timer'[u] = timer[u]
           /\ (Runs(u)' <=> Runs(u)) /\ (cancel_fn'[u] => cancel_fn[u])
    BY <1>1, <2>4 DEF Runs, runtime
  <2> QED
    BY <1>1, <1>3, <1>4, <2>1, <2>3, <2>5, <2>6, <2>7, <2>8, WaitingStep
<1> QED
  BY <1>2, <1>7, <1>8

\* The worker's loop resumes a coroutine whose handle is queued.
LEMMA ResumeStep == ASSUME IInv, NEW t \in Tasks, Resume(t) PROVE IInv'
<1>1. /\ LoopResume(t)
      /\ call' = IF call[t].pc = "parked" THEN [call EXCEPT ![t].pc = "leave", ![t].k = 1] ELSE call
      /\ UNCHANGED <<requested, kick, prog, queue_, closed_, list, timer, winner, sent, atclose>>
  BY DEF Resume
<1>2. Types /\ RuntimeTypeOK /\ TaskInv(t) /\ DOMAIN call = Tasks /\ CallInv(t) /\ TokenInv(t) /\ LinkInv(t)
  BY DEF IInv, Types, TaskInv
<1>3. /\ running' \in [Workers -> Tasks \cup {None}] /\ ready' \in [Tasks -> Nat]
      /\ cancel_fn' \in [Tasks -> BOOLEAN] /\ ~Runs(t) /\ Runs(t)'
      /\ ready[t] \in Nat \ {0} /\ ready'[t] = ready[t] - 1
      /\ \A u \in Tasks \ {t} : (Runs(u)' <=> Runs(u)) /\ ready'[u] = ready[u]
  BY <1>1, <1>2, LoopResumeEffect
<1>4. ~cancel_fn'[t] /\ \A u \in Tasks \ {t} : cancel_fn'[u] => cancel_fn[u]
  BY <1>1, <1>2 DEF LoopResume, RuntimeTypeOK
<1>5. call[t].pc \in {"idle", "parked"}
  BY <1>2, <1>3 DEF TokenInv, CallInv, CallRecords, Points
<1>6. CASE call[t].pc = "parked"
  <2>1. call' = [call EXCEPT ![t].pc = "leave", ![t].k = 1]
    BY <1>1, <1>6
  <2>2. Moved(t, "leave", 1)
    BY <1>2, <1>6, <2>1, JumpMoved DEF Points
  <2>3. N(t) \in Nat \ {0} /\ call[t].pc # "idle"
    BY <1>6, Facts
  <2>4. Types'
    BY <1>1, <1>2, <1>3, <2>2 DEF Types, Moved, RuntimeTypeOK
  <2>5. winner[t] # 0 /\ ready[t] = 1
    BY <1>2, <1>3, <1>6 DEF TokenInv
  <2>6. ready'[t] = 0 /\ winner'[t] # 0
    BY <1>1, <1>3, <2>5
  <2>7. call'[t].pc = "leave" /\ call'[t].k = 1 /\ "leave" \in Arrivals /\ 1 \in 1..N(t)
    BY <2>2, <2>3 DEF Moved, Arrivals
  <2>8. TokenInv(t)'
    BY <1>3, <1>4, <2>6, <2>7 DEF TokenInv, Busy, Linking
  <2>9. ASSUME NEW d \in Branches, NEW j \in Nat, <<t, j>> \in InList(list'[d])
        PROVE  j \in 1..N(t) /\ call[t].br[j] = d /\ MayBeLinked(t, j)'
    <3>1. j \in 1..N(t) /\ call[t].br[j] = d
      BY <1>1, <1>2, <2>9 DEF LinkInv
    <3> QED
      BY <2>3, <2>7, <3>1 DEF MayBeLinked
  <2> QED
    BY <1>1, <1>3, <1>4, <2>2, <2>3, <2>4, <2>7, <2>8, <2>9, WaitingStep
<1>7. CASE call[t].pc = "idle"
  <2>1. call' = call
    BY <1>1, <1>7
  <2>2. Types'
    BY <1>1, <1>2, <1>3, <2>1 DEF Types, RuntimeTypeOK
  <2>3. Bound' /\ EndsKept
    BY <1>1, SameChannels
  <2>4. \A u \in Tasks \ {t} : Unaffected(u)
    BY <1>1, <1>3, <1>4, <2>1 DEF Unaffected
  <2>5. ready[t] = 1
    BY <1>2, <1>3, <1>7 DEF TokenInv
  <2>6. ready'[t] = 0
    BY <1>3, <2>5
  <2>7. TokenInv(t)'
    BY <1>1, <1>2, <1>3, <1>4, <1>7, <2>1, <2>6 DEF TokenInv, Busy, Linking
  <2>8. CallInv(t)' /\ EndInv(t)'
    BY <1>2, <2>1, <2>3, EndKept DEF TaskInv, CallInv, N, Polled, Branch
  <2>9. LinkInv(t)'
    BY <1>1, <1>2, <2>1 DEF LinkInv, MayBeLinked, N
  <2> QED
    BY <2>2, <2>3, <2>4, <2>7, <2>8, <2>9, LocalStep DEF TaskInv
<1> QED
  BY <1>5, <1>6, <1>7

\* The kick of a cancelled task: its hook claims the word of a parked coroutine,
\* and queues the handle, unless a waker has claimed it.
LEMMA OnCancelStep == ASSUME IInv, NEW t \in Tasks, OnCancel(t) PROVE IInv'
<1>1. /\ TakeKick(t) /\ call' = call
      /\ UNCHANGED <<prog, queue_, closed_, timer, sent, atclose>>
  BY DEF OnCancel
<1>2. /\ Types /\ RuntimeTypeOK /\ TaskInv(t) /\ DOMAIN call = Tasks
      /\ CallInv(t) /\ TokenInv(t) /\ LinkInv(t)
      /\ winner \in [Tasks -> Nat \cup {Cancelled}] /\ ready \in [Tasks -> Nat]
  BY DEF IInv, Types, TaskInv, RuntimeTypeOK
<1>3. /\ ~Runs(t) /\ running' = running /\ requested' = requested
      /\ cancel_fn' \in [Tasks -> BOOLEAN] /\ kick' \in [Tasks -> {"none", "due", "queued"}]
      /\ ~cancel_fn'[t] /\ \A u \in Tasks \ {t} : cancel_fn'[u] = cancel_fn[u]
  BY <1>1, <1>2, NoneAssumption DEF TakeKick, Idle, Runs, RuntimeTypeOK
<1>4. \A u \in Tasks : Runs(u)' <=> Runs(u)
  BY <1>3 DEF Runs
<1>5. Bound' /\ EndsKept
  BY <1>1, SameChannels
<1>6. CallInv(t)' /\ EndInv(t)'
  BY <1>1, <1>2, <1>5, EndKept DEF TaskInv, CallInv, N, Polled, Branch
<1>7. ASSUME winner' \in [Tasks -> Nat \cup {Cancelled}], ready' \in [Tasks -> Nat],
             list' \in [Branches -> Seq(Tasks \X Nat)], \A d \in Branches : Distinct(list'[d]),
             \A u \in Tasks : \A d \in Branches : \A j \in Nat :
               <<u, j>> \in InList(list'[d]) => <<u, j>> \in InList(list[d]),
             \A u \in Tasks \ {t} : winner'[u] = winner[u] /\ ready'[u] = ready[u],
             TokenInv(t)'
      PROVE  IInv'
  <2>1. Types'
    BY <1>1, <1>2, <1>3, <1>7 DEF Types, RuntimeTypeOK
  <2>2. \A u \in Tasks \ {t} : Unaffected(u)
    BY <1>1, <1>3, <1>4, <1>7 DEF Unaffected
  <2>3. LinkInv(t)'
    BY <1>1, <1>2, <1>7 DEF LinkInv, MayBeLinked, N
  <2> QED
    BY <1>5, <1>6, <1>7, <2>1, <2>2, <2>3, LocalStep DEF TaskInv
<1>8. CASE cancel_fn[t] /\ winner[t] = 0
  <2>1. /\ winner' = [winner EXCEPT ![t] = Cancelled] /\ ready' = resume_on({t})
        /\ list' = IF call[t].kind \notin Selects THEN Unlinked(t, 1) ELSE list
    BY <1>8 DEF OnCancel
  <2>2. call[t].pc = "parked" /\ ready[t] = 0
    BY <1>2, <1>3, <1>8 DEF TokenInv, Linking
  <2>3. /\ list' \in [Branches -> Seq(Tasks \X Nat)] /\ \A d \in Branches : Distinct(list'[d])
        /\ \A u \in Tasks : \A d \in Branches : \A j \in Nat :
             <<u, j>> \in InList(list'[d]) => <<u, j>> \in InList(list[d])
    BY <2>1, <2>2, MaybeUnlinked
  <2>4. /\ winner' \in [Tasks -> Nat \cup {Cancelled}] /\ winner'[t] = Cancelled
        /\ \A u \in Tasks \ {t} : winner'[u] = winner[u]
    BY <1>2, <2>1
  <2>5. /\ ready' \in [Tasks -> Nat] /\ ready'[t] = 1
        /\ \A u \in Tasks \ {t} : ready'[u] = ready[u]
    BY <1>2, <2>1, <2>2 DEF resume_on
  <2>6. call'[t].pc = "parked" /\ ~Runs(t)' /\ Cancelled # 0
    BY <1>1, <1>3, <1>4, <2>2 DEF Cancelled
  <2>7. TokenInv(t)'
    BY <1>3, <2>4, <2>5, <2>6 DEF TokenInv, Busy, Linking
  <2> QED
    BY <1>7, <2>3, <2>4, <2>5, <2>7
<1>9. CASE ~(cancel_fn[t] /\ winner[t] = 0)
  <2>1. UNCHANGED <<winner, ready, list>>
    BY <1>9 DEF OnCancel
  <2>2. TokenInv(t)'
    BY <1>1, <1>2, <1>3, <1>4, <2>1 DEF TokenInv
  <2>3. list \in [Branches -> Seq(Tasks \X Nat)] /\ \A d \in Branches : Distinct(list[d])
    BY <1>2 DEF Types
  <2> QED
    BY <1>2, <1>7, <2>1, <2>2, <2>3
<1> QED
  BY <1>8, <1>9

\* request_cancel() and the push of the kick touch no wait.
LEMMA CancelStep == ASSUME IInv, NEW t \in Tasks, Cancel(t) PROVE IInv'
<1>1. /\ UNCHANGED <<prog, queue_, closed_, list, timer, call, winner, sent, atclose>>
      /\ UNCHANGED <<running, ready, cancel_fn>>
  BY DEF Cancel, chanvars, RequestCancel, PushKick
<1>2. Types /\ RuntimeTypeOK
  BY DEF IInv, Types
<1>3. requested' \in [Tasks -> BOOLEAN] /\ kick' \in [Tasks -> {"none", "due", "queued"}]
  BY <1>2 DEF Cancel, RequestCancel, PushKick, RuntimeTypeOK
<1>4. Types'
  BY <1>1, <1>2, <1>3 DEF Types, RuntimeTypeOK
<1>5. Bound' /\ EndsKept
  BY <1>1, SameChannels
<1>6. \A u \in Tasks : Unaffected(u)
  BY <1>1 DEF Unaffected, Runs
<1>7. TaskInv(t)'
  BY <1>5, <1>6, UnaffectedKept DEF IInv
<1> QED
  BY <1>4, <1>5, <1>6, <1>7, LocalStep

(***************************************************************************)
(* The theorems                                                            *)
(***************************************************************************)

\* The invariant holds initially.
LEMMA InitIInv == Init => IInv
<1> SUFFICES ASSUME Init PROVE IInv
  OBVIOUS
<1>1. NoCall \in CallRecords
  <2>1. <<>> \in Seq(Branches)
    OBVIOUS
  <2> QED
    BY <2>1 DEF NoCall, CallRecords, Points
<1>2. /\ \A t \in Tasks : call[t] = NoCall /\ winner[t] = 0 /\ timer[t] = "off"
      /\ \A t \in Tasks : ready[t] = 1 /\ ~cancel_fn[t] /\ ~Runs(t)
      /\ \A b \in Branches : list[b] = <<>>
  BY HomeAssumption, NoneAssumption DEF Init, RuntimeInit, Runs
<1>3. Types
  <2>1. RuntimeTypeOK
    BY DEF Init, RuntimeInit, RuntimeTypeOK
  <2>2. list \in [Branches -> Seq(Tasks \X Nat)] /\ \A b \in Branches : Distinct(list[b])
    BY DEF Init, Distinct
  <2>3. queue_ \in [Chans -> Seq(Nat)] /\ closed_ \in [Chans -> BOOLEAN]
    BY DEF Init
  <2> QED
    BY <2>1, <2>2, <2>3 DEF Init, Types
<1>4. \A c \in Chans : atclose[c] <= sent[c]
  BY DEF Init
<1>5. NoCall.pc = "idle" /\ NoCall.kind = "none" /\ NoCall.res = "none"
  BY DEF NoCall
<1>6. ASSUME NEW t \in Tasks PROVE TaskInv(t)
  <2>1. CallInv(t)
    BY <1>1, <1>2, <1>5 DEF CallInv
  <2>2. TokenInv(t)
    BY <1>2, <1>5 DEF TokenInv, Busy, Linking
  <2>3. LinkInv(t)
    BY <1>2 DEF LinkInv, InList
  <2>4. EndInv(t)
    BY <1>2, <1>5 DEF EndInv
  <2> QED
    BY <2>1, <2>2, <2>3, <2>4 DEF TaskInv
<1> QED
  BY <1>3, <1>4, <1>6 DEF IInv

\* The invariant survives a step that changes nothing.
LEMMA StutterStep == ASSUME IInv, UNCHANGED vars PROVE IInv'
<1>1. /\ UNCHANGED <<prog, queue_, closed_, list, timer, call, winner, sent, atclose>>
      /\ UNCHANGED <<running, ready, cancel_fn, requested, kick>>
  BY DEF vars, chanvars, runtime
<1>2. Types' /\ Bound' /\ EndsKept
  BY <1>1, SameChannels DEF IInv, Types, RuntimeTypeOK
<1>3. \A u \in Tasks : Unaffected(u)
  BY <1>1 DEF Unaffected, Runs
<1> QED
  BY <1>2, <1>3, UnaffectedKept DEF IInv, Bound

\* Every step of the coroutines, the workers and the canceller.
LEMMA NextIInv == IInv /\ [Next]_vars => IInv'
<1> SUFFICES ASSUME IInv, [Next]_vars PROVE IInv'
  OBVIOUS
<1>1. CASE UNCHANGED vars
  BY <1>1, StutterStep
<1>2. ASSUME NEW t \in Tasks, Polling(t) PROVE IInv'
  BY <1>2, StartStep, PollRecvStep, RecvEndedStep, PollSendStep, SendCheckedStep, EnqueueStep,
     PollFlagStep, SelectDrainedStep, WakeOneWaiterStep, CloseStep, WakeAllWaitersStep,
     RequestTokenStep, WakeTokenStep, FinishStep DEF Polling
<1>3. ASSUME NEW t \in Tasks, Waiting(t) PROVE IInv'
  BY <1>3, CheckCancelStep, AttachStep, RecheckStep, DetachStep, ArmCancelStep,
     WithdrawSelfStep, LeaveStep DEF Waiting
<1>4. ASSUME NEW t \in Tasks, Looping(t) \/ Cancel(t) PROVE IInv'
  BY <1>4, ResumeStep, OnCancelStep, OnFireStep, CancelStep DEF Looping
<1> QED
  BY <1>1, <1>2, <1>3, <1>4 DEF Next

\* The inductive invariant of channels and select() (AsyncChannel.h, Select.h):
\* the claim word, the queued handle and the linked nodes of every coroutine
\* agree at each point of its call, and each channel that was reported as ended
\* has ended.
THEOREM ChannelsInvariant == Spec => []IInv
BY InitIInv, NextIInv, PTL DEF Spec

\* The invariant implies the property of the run about how waits end.
LEMMA IInvWaits == IInv => WaitsEndCleanly
<1> SUFFICES ASSUME IInv PROVE WaitsEndCleanly
  OBVIOUS
<1>1. \A t \in Tasks : CallInv(t) /\ TokenInv(t) /\ LinkInv(t)
  BY DEF IInv, TaskInv
<1>2. \A t \in Tasks : call[t].pc \in Points
  BY <1>1 DEF CallInv, CallRecords
<1>3. ResumedOnce
  <2> SUFFICES ASSUME NEW t \in Tasks
               PROVE  /\ ready[t] <= 1
                      /\ Runs(t) /\ call[t].pc \notin Linking => ready[t] = 0
                      /\ call[t].pc = "parked" => (ready[t] = 1) = (winner[t] # 0)
    BY DEF ResumedOnce, Linking
  <2>1. CASE call[t].pc \in Busy \cup {"idle", "leave"}
    BY <1>1, <2>1 DEF TokenInv, Busy
  <2>2. CASE call[t].pc \in Linking
    BY <1>1, <2>2 DEF TokenInv, Linking
  <2>3. CASE call[t].pc = "parked"
    BY <1>1, <2>3 DEF TokenInv, Linking
  <2> QED
    BY <1>2, <2>1, <2>2, <2>3 DEF Points
<1>4. ASSUME NEW b \in Branches, NEW n \in InList(list[b])
      PROVE  call[n[1]].pc \in {"attach", "recheck", "detach", "arm", "withdraw", "parked", "leave"}
  <2>1. list[b] \in Seq(Tasks \X Nat)
    BY DEF IInv, Types
  <2>2. n \in Tasks \X Nat
    BY <2>1 DEF InList
  <2>3. n[1] \in Tasks /\ n[2] \in Nat /\ <<n[1], n[2]>> \in InList(list[b])
    BY <2>2
  <2> QED
    BY <1>1, <2>3 DEF LinkInv, MayBeLinked
<1>5. \A t \in Tasks : call[t].pc = "idle" => timer[t] = "off"
  BY <1>1 DEF TokenInv
<1> QED
  BY <1>3, <1>4, <1>5 DEF WaitsEndCleanly, NoDanglingNode

\* A recv(), a send(), an on_cancel() or a select() of any number of branches
\* that several wakers, its timer and a cancellation race for is resumed once,
\* and when it polls again or returns none of its nodes is in a channel's or a
\* token's list (fire_waiter(), SelectSuspend, OpWait).
THEOREM WaitsEndOnceAndCleanly == Spec => []WaitsEndCleanly
BY ChannelsInvariant, IInvWaits, PTL

\* The invariant implies the property of the run about the end of a channel.
LEMMA IInvDrained == IInv => DrainedBeforeTheEnd
BY DEF IInv, TaskInv, EndInv, Ended, DrainedBeforeTheEnd

\* A receiver is told that a channel has ended only when every value that was
\* put into it before close() has been taken, whoever else receives meanwhile
\* (ChannelRecvOp::try_complete(), select_recv()).
THEOREM DrainedBeforeTheReceiverIsTold == Spec => []DrainedBeforeTheEnd
BY ChannelsInvariant, IInvDrained, PTL

(***************************************************************************)
(* Nobody is left waiting                                                  *)
(***************************************************************************)

\* The branches at which values and room are waited for.
Sides == Chans \X {"recv", "send"}

\* A call that polls, and one that waits.
Polls == {"poll", "ended", "send", "enqueue", "drained", "check"}

InWait == Linking \cup {"parked", "leave"}

\* The record of a call is of an operation of the coroutine's program; only the
\* operations that poll do so, and the try_ ones do not wait.
OpInv(t) ==
  call[t].pc # "idle" =>
    \E o \in prog[t] :
      /\ o.kind = call[t].kind /\ o.br = call[t].br
      /\ call[t].pc \in Polls \cup InWait => o.entry = "poll"
      /\ call[t].pc \in {"check"} \cup InWait => o.kind \notin {"try_send", "try_recv"}

\* A parked coroutine that nobody has claimed can be claimed by its hook, and a
\* cancellation that came since has its kick on the way.
HookInv(t) ==
  call[t].pc = "parked" /\ winner[t] = 0 => cancel_fn[t] /\ (requested[t] => kick[t] # "none")

\* A timer that fired has claimed the coroutine.
SleepInv(t) == Committed(t, <<t, "sleep">>) => timer[t] # "fired"

\* v is on its way to wake everybody at b.
Ending(v, b) ==
  \/ call[v].pc = "wake_recv" /\ b \in Sides /\ b[1] = Branch(v)[1]
  \/ call[v].pc = "wake_send" /\ b = <<Branch(v)[1], "send">>
  \/ call[v].pc = "wake_token" /\ b = <<Token, "cancel">>

\* The channel is closed, or the token is set.
Over(b) == IF b \in Sides THEN closed_[b[1]] ELSE token

\* Who waits where it is over is woken.
EndingInv(b) ==
  \A t \in Tasks : Committed(t, b) /\ Over(b) => \E v \in Tasks : Ending(v, b)

\* The values, or the places, that the branch b may take.
Stock(b) == IF b[2] = "recv" THEN Len(queue_[b[1]]) ELSE Capacity - Len(queue_[b[1]])

\* The coroutines through which one of them is on its way: one that put it, or
\* took a value, and wakes next; one that is to look at b; one that b woke.
OnItsWay(b) ==
  {u \in Tasks :
     \/ call[u].pc = "notify" /\ Other(Branch(u)) = b
     \/ call[u].pc \in {"poll", "send", "enqueue"} /\ call[u].br[Polled(u)] = b
     \/ /\ call[u].pc \in InWait
        /\ winner[u] \in DOMAIN call[u].br /\ call[u].br[winner[u]] = b}

\* While somebody waits at b, there is a coroutine on its way for each of them.
StockInv(b) ==
  \A t \in Tasks : Committed(t, b) /\ ~closed_[b[1]] =>
    (b[2] = "send" => b[1] \notin Unbounded) /\ Stock(b) <= Cardinality(OnItsWay(b))

SInv ==
  /\ \A t \in Tasks : OpInv(t) /\ HookInv(t) /\ SleepInv(t)
  /\ \A b \in Sides \cup {<<Token, "cancel">>} : EndingInv(b)
  /\ \A b \in Sides : StockInv(b)

\* The branches of a call, and the two kinds of them.
LEMMA SideBranches == Sides \subseteq Branches /\ <<Token, "cancel">> \in Branches \ Sides
BY ChannelAssumption DEF Sides, Branches

\* A coroutine whose call a step leaves alone, which may be claimed and unlinked.
Kept(u) ==
  /\ call'[u] = call[u] /\ (winner'[u] = 0 => winner[u] = 0)
  /\ \A d \in Branches : \A i \in Nat :
       <<u, i>> \in InList(list'[d]) => <<u, i>> \in InList(list[d])

\* The branches of a call are branches.
LEMMA BranchesOf ==
  ASSUME IInv, NEW u \in Tasks
  PROVE  /\ call[u] \in CallRecords /\ call[u].br \in Seq(Branches)
         /\ \A i \in DOMAIN call[u].br : i \in Nat /\ i \in 1..N(u) /\ call[u].br[i] \in Branches
BY DEF IInv, TaskInv, CallInv, CallRecords, N

\* It does not begin to wait anywhere.
LEMMA CommittedKept ==
  ASSUME IInv, NEW u \in Tasks, NEW b, Kept(u), Committed(u, b)'
  PROVE  Committed(u, b)
<1>1. PICK i \in DOMAIN call[u].br :
        /\ call[u].br[i] = b /\ <<u, i>> \in InList(list'[b]) /\ winner'[u] = 0
        /\ \/ call[u].pc \in {"arm", "withdraw", "parked"}
           \/ call[u].pc = "attach" /\ i < call[u].k
           \/ call[u].pc = "recheck" /\ i < call[u].k
  BY DEF Committed, Kept, Linked
<1>2. i \in Nat /\ b \in Branches
  BY <1>1, BranchesOf
<1>3. <<u, i>> \in InList(list[b]) /\ winner[u] = 0
  BY <1>1, <1>2 DEF Kept
<1> QED
  BY <1>1, <1>3 DEF Committed, Linked

\* Who waits is in its wait, unclaimed, with a node at the branch.
LEMMA CommittedAt ==
  ASSUME IInv, NEW u \in Tasks, NEW b, Committed(u, b)
  PROVE  /\ call[u].pc \in {"arm", "withdraw", "parked", "attach", "recheck"} /\ winner[u] = 0
         /\ call[u].pc \in InWait
         /\ b \in Branches /\ b \in InList(call[u].br)
         /\ \E i \in DOMAIN call[u].br : call[u].br[i] = b /\ <<u, i>> \in InList(list[b])
<1>1. PICK i \in DOMAIN call[u].br :
        /\ call[u].br[i] = b /\ <<u, i>> \in InList(list[b]) /\ winner[u] = 0
        /\ \/ call[u].pc \in {"arm", "withdraw", "parked"}
           \/ call[u].pc = "attach" /\ i < call[u].k
           \/ call[u].pc = "recheck" /\ i < call[u].k
  BY DEF Committed, Linked
<1>2. b \in Branches /\ i \in 1..Len(call[u].br)
  BY <1>1, BranchesOf DEF N
<1>3. b \in InList(call[u].br)
  BY <1>1, <1>2 DEF InList
<1> QED
  BY <1>1, <1>2, <1>3 DEF InWait, Linking

\* The coroutines on their way can be counted.
LEMMA WayCounted ==
  ASSUME NEW S \in SUBSET Tasks, NEW R \in SUBSET Tasks
  PROVE  /\ IsFiniteSet(S) /\ Cardinality(S) \in Nat
         /\ S \subseteq R => Cardinality(S) <= Cardinality(R)
<1>1. IsFiniteSet(S) /\ IsFiniteSet(R)
  BY TasksAssumption, FS_Subset
<1> QED
  BY <1>1, FS_Subset, FS_CardinalityType

\* What is in stock is a number, and none is while the branch must be waited for.
LEMMA StockCounted ==
  ASSUME IInv, NEW b \in Sides
  PROVE  /\ Stock(b) \in Int
         /\ \A t \in Tasks : MustWait(t, b) =>
              Stock(b) <= 0 /\ ~closed_[b[1]] /\ (b[2] = "send" => b[1] \notin Unbounded)
<1>1. b[1] \in Chans /\ b[2] \in {"recv", "send"}
  BY DEF Sides
<1>2. queue_[b[1]] \in Seq(Nat) /\ Len(queue_[b[1]]) \in Nat /\ Capacity \in Nat
  BY <1>1, ChannelAssumption DEF IInv, Types
<1>3. Stock(b) \in Int
  BY <1>2 DEF Stock
<1>4. CASE b[2] = "recv"
  BY <1>1, <1>2, <1>3, <1>4 DEF MustWait, Stock
<1>5. CASE b[2] = "send"
  BY <1>1, <1>2, <1>3, <1>5 DEF MustWait, Stock, Full
<1> QED
  BY <1>1, <1>3, <1>4, <1>5

\* What is true of a coroutine that a step leaves alone stays so.
LEMMA AloneKept ==
  ASSUME IInv, SInv, NEW u \in Tasks, Kept(u), prog' = prog, requested'[u] = requested[u],
         kick'[u] = kick[u], cancel_fn'[u] = cancel_fn[u], timer'[u] = timer[u]
  PROVE  OpInv(u)' /\ HookInv(u)' /\ SleepInv(u)'
<1>1. OpInv(u) /\ HookInv(u) /\ SleepInv(u)
  BY DEF SInv
<1>2. OpInv(u)'
  BY <1>1 DEF OpInv, Kept
<1>3. HookInv(u)'
  BY <1>1 DEF HookInv, Kept
<1>4. SleepInv(u)'
  <2> SUFFICES ASSUME Committed(u, <<u, "sleep">>)' PROVE timer'[u] # "fired"
    BY DEF SleepInv
  <2>1. Committed(u, <<u, "sleep">>)
    BY CommittedKept
  <2> QED
    BY <1>1, <2>1 DEF SleepInv
<1> QED
  BY <1>2, <1>3, <1>4

\* A step of t that neither puts nor takes, and wakes nobody: where t waits now it
\* waited or must wait, and it goes off its way only if there is nothing at b or
\* nobody waits there.
LEMMA OwnStep ==
  ASSUME IInv, SInv, NEW t \in Tasks,
         UNCHANGED <<prog, queue_, closed_, token>>,
         \A u \in Tasks \ {t} :
           /\ Kept(u) /\ winner'[u] = winner[u] /\ requested'[u] = requested[u]
           /\ kick'[u] = kick[u] /\ cancel_fn'[u] = cancel_fn[u] /\ timer'[u] = timer[u],
         OpInv(t)', HookInv(t)', timer'[t] = "fired" => timer[t] = "fired",
         \A b \in Branches : Committed(t, b)' => Committed(t, b) \/ MustWait(t, b),
         call'[t] = call[t] \/ call[t].pc \notin {"wake_recv", "wake_send", "wake_token"},
         \A b \in Sides :
           t \in OnItsWay(b) => \/ t \in OnItsWay(b)' \/ closed_[b[1]] \/ Stock(b) <= 0
                                \/ \A u \in Tasks : ~Committed(u, b)'
  PROVE  SInv'
<1>1. /\ \A u \in Tasks : OpInv(u) /\ HookInv(u) /\ SleepInv(u)
      /\ \A b \in Sides \cup {<<Token, "cancel">>} : EndingInv(b)
      /\ \A b \in Sides : StockInv(b)
  BY DEF SInv
<1>2. \A u \in Tasks \ {t} : OpInv(u)' /\ HookInv(u)' /\ SleepInv(u)'
  BY AloneKept
<1>3. ASSUME NEW u \in Tasks, NEW b \in Branches, Committed(u, b)'
      PROVE  Committed(u, b) \/ (u = t /\ MustWait(t, b))
  BY <1>3, CommittedKept
<1>4. SleepInv(t)'
  <2> SUFFICES ASSUME Committed(t, <<t, "sleep">>)' PROVE timer'[t] # "fired"
    BY DEF SleepInv
  <2>1. <<t, "sleep">> \in Branches
    BY DEF Branches
  <2>2. Committed(t, <<t, "sleep">>) \/ MustWait(t, <<t, "sleep">>)
    BY <1>3, <2>1
  <2>3. timer[t] # "fired"
    BY <1>1, <2>2 DEF SleepInv, MustWait
  <2> QED
    BY <2>3
<1>5. ASSUME NEW b \in Sides \cup {<<Token, "cancel">>} PROVE EndingInv(b)'
  <2> SUFFICES ASSUME NEW u \in Tasks, Committed(u, b)', Over(b)'
               PROVE  \E v \in Tasks : Ending(v, b)'
    BY DEF EndingInv
  <2>1. b \in Branches /\ Over(b)
    BY SideBranches DEF Sides, Over
  <2>2. ~MustWait(t, b)
    <3>1. CASE b \in Sides
      BY <2>1, <3>1, StockCounted DEF Over
    <3>2. CASE b = <<Token, "cancel">>
      <4>1. b[2] = "cancel" /\ token
        BY <2>1, <3>2, SideBranches DEF Over
      <4> QED
        BY <4>1 DEF MustWait
    <3> QED
      BY <3>1, <3>2
  <2>3. Committed(u, b)
    BY <1>3, <2>1, <2>2
  <2>4. PICK v \in Tasks : Ending(v, b)
    BY <1>1, <2>1, <2>3 DEF EndingInv
  <2>5. call'[v] = call[v]
    BY <2>4 DEF Ending, Kept
  <2> QED
    BY <2>4, <2>5 DEF Ending, Branch
<1>6. ASSUME NEW b \in Sides PROVE StockInv(b)'
  <2> SUFFICES ASSUME NEW u \in Tasks, Committed(u, b)', ~closed_'[b[1]]
               PROVE  /\ b[2] = "send" => b[1] \notin Unbounded
                      /\ Stock(b)' <= Cardinality(OnItsWay(b)')
    BY DEF StockInv
  <2>1. b \in Branches /\ ~closed_[b[1]] /\ Stock(b)' = Stock(b) /\ Stock(b) \in Int
    BY SideBranches, StockCounted DEF Stock
  <2> DEFINE S == OnItsWay(b)
             R == OnItsWay(b)'
  <2>2. S \in SUBSET Tasks /\ R \in SUBSET Tasks
    BY DEF OnItsWay
  <2>3. S \ {t} \subseteq R
    BY DEF OnItsWay, Kept, Branch, Polled, N
  <2>4. t \in S => t \in R \/ Stock(b) <= 0
    BY <2>1
  <2> HIDE DEF S, R
  <2>5. Cardinality(S) \in Nat /\ Cardinality(R) \in Nat
        /\ (S \subseteq R => Cardinality(S) <= Cardinality(R))
    BY <2>2, WayCounted
  <2>6. CASE u = t /\ MustWait(t, b)
    <3>1. Stock(b) <= 0 /\ (b[2] = "send" => b[1] \notin Unbounded)
      BY <2>6, StockCounted
    <3> QED
      BY <2>1, <2>5, <3>1 DEF R
  <2>7. CASE Committed(u, b)
    <3>1. (b[2] = "send" => b[1] \notin Unbounded) /\ Stock(b) <= Cardinality(S)
      BY <1>1, <2>1, <2>7 DEF StockInv, S
    <3>2. S \subseteq R \/ Stock(b) <= 0
      BY <2>3, <2>4
    <3>3. Stock(b) <= Cardinality(R)
      BY <2>1, <2>5, <3>1, <3>2
    <3> QED
      BY <2>1, <3>1, <3>3 DEF R
  <2> QED
    BY <1>3, <2>1, <2>6, <2>7
<1> QED
  BY <1>1, <1>2, <1>4, <1>5, <1>6 DEF SInv

\* A coroutine with no node that does not wait.
LEMMA NowhereCommitted ==
  ASSUME IInv, NEW t \in Tasks, call[t].pc \in Busy \cup {"idle"}, list' = list, NEW b \in Branches
  PROVE  ~Committed(t, b) /\ ~Committed(t, b)'
<1>1. \A i \in Nat : <<t, i>> \notin InList(list[b])
  BY DEF IInv, TaskInv, LinkInv, MayBeLinked, Busy
<1>2. list[b] \in Seq(Tasks \X Nat)
  BY DEF IInv, Types
<1>3. \A n \in InList(list[b]) : n[2] \in Nat
  BY <1>2 DEF InList
<1>4. \A i : <<t, i>> \notin InList(list[b])
  BY <1>1, <1>3
<1> QED
  BY <1>4 DEF Committed, Linked

\* A step of t where none of its nodes is linked.
LEMMA BusyOwnStep ==
  ASSUME IInv, SInv, NEW t \in Tasks, call[t].pc \in Busy \cup {"idle"},
         call[t].pc \notin {"wake_recv", "wake_send", "wake_token"},
         UNCHANGED <<runtime, prog, queue_, closed_, token, list, winner>>,
         \A u \in Tasks \ {t} : call'[u] = call[u] /\ timer'[u] = timer[u],
         timer'[t] = "fired" => timer[t] = "fired",
         OpInv(t)', call'[t].pc # "parked",
         \A b \in Sides :
           t \in OnItsWay(b) => t \in OnItsWay(b)' \/ closed_[b[1]] \/ Stock(b) <= 0
  PROVE  SInv'
<1>1. \A b \in Branches : ~Committed(t, b)'
  BY NowhereCommitted
<1>2. HookInv(t)'
  BY DEF HookInv
<1>3. \A u \in Tasks \ {t} :
        /\ Kept(u) /\ winner'[u] = winner[u] /\ requested'[u] = requested[u]
        /\ kick'[u] = kick[u] /\ cancel_fn'[u] = cancel_fn[u] /\ timer'[u] = timer[u]
  BY DEF Kept, runtime
<1> QED
  BY <1>1, <1>2, <1>3, OwnStep

\* The call is still of the same operation.
LEMMA OpKept ==
  ASSUME SInv, NEW t \in Tasks, call[t].pc # "idle", prog' = prog,
         call'[t].kind = call[t].kind, call'[t].br = call[t].br,
         call'[t].pc \in Polls \cup InWait => call[t].pc \in Polls \cup InWait,
         call'[t].pc \in {"check"} \cup InWait =>
           \/ call[t].pc \in {"check"} \cup InWait
           \/ call[t].kind \notin {"try_send", "try_recv"}
  PROVE  OpInv(t)'
<1>1. PICK o \in prog[t] :
        /\ o.kind = call[t].kind /\ o.br = call[t].br
        /\ call[t].pc \in Polls \cup InWait => o.entry = "poll"
        /\ call[t].pc \in {"check"} \cup InWait => o.kind \notin {"try_send", "try_recv"}
  BY DEF SInv, OpInv
<1> QED
  BY <1>1 DEF OpInv

\* t has gone on in its polling round, or has left it.
Rounded(t) ==
  /\ call'[t].kind = call[t].kind /\ call'[t].br = call[t].br
  /\ call'[t].pc \in Polls \cup {"attach", "finish"}
  /\ call'[t].pc \in {"check", "attach"} =>
       call[t].pc = "check" \/ call[t].kind \notin {"try_send", "try_recv"}
  /\ \A u \in Tasks \ {t} : call'[u] = call[u]

\* The next branch of the round, or its end.
LEMMA NextPollRounded ==
  ASSUME NEW t \in Tasks, CallInv(t), DOMAIN call = Tasks, call[t].pc \in Polls, NextPoll(t)
  PROVE  Rounded(t)
<1> DEFINE c == call[t]
           pcn == CASE c.k < N(t) -> "poll"
                    [] c.k = N(t) /\ c.kind \in {"try_send", "try_recv"} -> "finish"
                    [] c.k = N(t) /\ c.kind = "select_recv" -> "drained"
                    [] OTHER -> "check"
           kn == IF c.k < N(t) THEN c.k + 1 ELSE 1
           rn == IF c.k = N(t) THEN "failed" ELSE c.res
<1>1. c \in CallRecords /\ c.k \in 1..N(t) /\ N(t) \in Nat
  BY DEF CallInv, Polls, N, CallRecords
<1>2. /\ pcn \in {"poll", "finish", "drained", "check"}
      /\ pcn = "check" => c.kind \notin {"try_send", "try_recv"}
  BY <1>1
<1> HIDE DEF pcn
<1>3. call' = [call EXCEPT ![t].pc = pcn, ![t].k = IF call[t].k < N(t) THEN @ + 1 ELSE 1,
                           ![t].res = IF call[t].k = N(t) THEN "failed" ELSE @]
  BY Zenon DEF NextPoll, pcn
<1>4. call'[t].pc = pcn /\ call'[t].kind = c.kind /\ call'[t].br = c.br
      /\ \A u \in Tasks \ {t} : call'[u] = call[u]
  BY <1>1, <1>3 DEF CallRecords
<1> QED
  BY <1>2, <1>4 DEF Rounded, Polls

\* The same of a result.
LEMMA CompletedRounded ==
  ASSUME NEW t \in Tasks, CallInv(t), DOMAIN call = Tasks,
         NEW res \in {"nullopt", "closed", "fired", "failed", "cancelled"}, Completed(t, res)
  PROVE  Rounded(t)
BY CompletedEffect DEF Rounded

\* The same of the next look at the same branch.
LEMMA GotoRounded ==
  ASSUME NEW t \in Tasks, CallInv(t), DOMAIN call = Tasks,
         NEW p \in {"ended", "send", "enqueue"}, Goto(t, p)
  PROVE  /\ Rounded(t) /\ call'[t].pc = p /\ call'[t].k = call[t].k
         /\ call'[t].start = call[t].start
<1>1. p \in Points
  BY DEF Points, Busy
<1> QED
  BY <1>1, GotoEffect DEF Rounded, Polls

\* A step of the polling round.
LEMMA RoundStep ==
  ASSUME IInv, SInv, NEW t \in Tasks, call[t].pc \in Polls, Rounded(t),
         UNCHANGED <<runtime, prog, queue_, closed_, token, list, timer, winner>>,
         \A b \in Sides :
           t \in OnItsWay(b) => t \in OnItsWay(b)' \/ closed_[b[1]] \/ Stock(b) <= 0
  PROVE  SInv'
<1>1. call[t].pc \in Busy /\ call[t].pc \notin {"idle", "wake_recv", "wake_send", "wake_token"}
  BY DEF Polls, Busy
<1>2. OpInv(t)'
  BY <1>1, OpKept DEF Rounded, Polls, InWait, Linking
<1>3. call'[t].pc # "parked"
  BY DEF Rounded, Polls
<1> QED
  BY <1>1, <1>2, <1>3, BusyOwnStep DEF Rounded

\* What a polling coroutine looks at is a branch, and it is on its way to no other.
LEMMA PollFacts ==
  ASSUME IInv, NEW t \in Tasks, call[t].pc \in Polls
  PROVE  /\ CallInv(t) /\ DOMAIN call = Tasks /\ call[t].br[Polled(t)] \in Branches
         /\ \A b : t \in OnItsWay(b) =>
              b = call[t].br[Polled(t)] /\ call[t].pc \in {"poll", "send", "enqueue"}
<1>1. CallInv(t) /\ DOMAIN call = Tasks /\ call[t].pc # "idle"
  BY DEF IInv, Types, TaskInv, Polls
<1>2. call[t].br[Polled(t)] \in Branches
  BY <1>1, PolledIn DEF CallInv, N, CallRecords
<1>3. call[t].pc # "notify" /\ call[t].pc \notin InWait
  BY DEF Polls, InWait, Linking
<1> QED
  BY <1>1, <1>2, <1>3 DEF OnItsWay

\* The look of a receive at an empty queue.
LEMMA PollRecvEmptySafe ==
  ASSUME IInv, SInv, NEW t \in Tasks, PollRecv(t), queue_[call[t].br[Polled(t)][1]] = <<>>
  PROVE  SInv'
<1> DEFINE b == call[t].br[Polled(t)]
<1>1. /\ call[t].pc = "poll" /\ call[t].pc \in Polls /\ b[2] = "recv" /\ Stock(b) = 0
      /\ UNCHANGED <<runtime, prog, queue_, closed_, token, list, timer, winner>>
      /\ Goto(t, "ended") \/ NextPoll(t)
  BY DEF PollRecv, At, Polls, Stock
<1>2. Rounded(t)
  BY <1>1, PollFacts, GotoRounded, NextPollRounded
<1>3. \A d \in Sides : t \in OnItsWay(d) => Stock(d) <= 0
  BY <1>1, PollFacts
<1> QED
  BY <1>1, <1>2, <1>3, RoundStep

\* The second look at an ended channel.
LEMMA RecvEndedSafe == ASSUME IInv, SInv, NEW t \in Tasks, RecvEnded(t) PROVE SInv'
<1>1. /\ call[t].pc = "ended" /\ call[t].pc \in Polls
      /\ UNCHANGED <<runtime, prog, queue_, closed_, token, list, timer, winner>>
      /\ Completed(t, "nullopt") \/ NextPoll(t)
  BY DEF RecvEnded, At, Polls
<1>2. Rounded(t)
  BY <1>1, PollFacts, CompletedRounded, NextPollRounded
<1>3. \A d \in Sides : t \notin OnItsWay(d)
  BY <1>1, PollFacts
<1> QED
  BY <1>1, <1>2, <1>3, RoundStep

\* The look of a send at the channel.
LEMMA PollSendSafe == ASSUME IInv, SInv, NEW t \in Tasks, PollSend(t) PROVE SInv'
<1> DEFINE b == call[t].br[Polled(t)]
<1>1. /\ call[t].pc = "poll" /\ call[t].pc \in Polls
      /\ UNCHANGED <<runtime, prog, queue_, closed_, token, list, timer, winner>>
      /\ IF closed_[b[1]] THEN Completed(t, "closed") ELSE Goto(t, "send")
  BY DEF PollSend, At, Polls
<1>2. \A d \in Sides : t \in OnItsWay(d) => d = b
  BY <1>1, PollFacts
<1>3. CASE closed_[b[1]]
  <2>1. Rounded(t)
    BY <1>1, <1>3, PollFacts, CompletedRounded
  <2> QED
    BY <1>1, <1>2, <1>3, <2>1, RoundStep
<1>4. CASE ~closed_[b[1]]
  <2>1. /\ Rounded(t) /\ call'[t].pc = "send" /\ call'[t].k = call[t].k
        /\ call'[t].start = call[t].start
    BY <1>1, <1>4, PollFacts, GotoRounded
  <2>2. \A d \in Sides : t \in OnItsWay(d) => t \in OnItsWay(d)'
    BY <1>1, <1>2, <2>1 DEF OnItsWay, Rounded, Polled, N
  <2> QED
    BY <1>1, <2>1, <2>2, RoundStep
<1> QED
  BY <1>3, <1>4

\* Its second look.
LEMMA SendCheckedSafe == ASSUME IInv, SInv, NEW t \in Tasks, SendChecked(t) PROVE SInv'
<1> DEFINE b == call[t].br[Polled(t)]
<1>1. /\ call[t].pc = "send" /\ call[t].pc \in Polls
      /\ UNCHANGED <<runtime, prog, queue_, closed_, token, list, timer, winner>>
      /\ IF closed_[b[1]] THEN NextPoll(t) ELSE Goto(t, "enqueue")
  BY DEF SendChecked, At, Polls
<1>2. \A d \in Sides : t \in OnItsWay(d) => d = b
  BY <1>1, PollFacts
<1>3. CASE closed_[b[1]]
  <2>1. Rounded(t)
    BY <1>1, <1>3, PollFacts, NextPollRounded
  <2> QED
    BY <1>1, <1>2, <1>3, <2>1, RoundStep
<1>4. CASE ~closed_[b[1]]
  <2>1. /\ Rounded(t) /\ call'[t].pc = "enqueue" /\ call'[t].k = call[t].k
        /\ call'[t].start = call[t].start
    BY <1>1, <1>4, PollFacts, GotoRounded
  <2>2. \A d \in Sides : t \in OnItsWay(d) => t \in OnItsWay(d)'
    BY <1>1, <1>2, <2>1 DEF OnItsWay, Rounded, Polled, N
  <2> QED
    BY <1>1, <2>1, <2>2, RoundStep
<1> QED
  BY <1>3, <1>4

\* A send that found the channel full.
LEMMA EnqueueFullSafe ==
  ASSUME IInv, SInv, NEW t \in Tasks, Enqueue(t), Full(call[t].br[Polled(t)][1])
  PROVE  SInv'
<1> DEFINE b == call[t].br[Polled(t)]
<1>1. /\ call[t].pc = "enqueue" /\ call[t].pc \in Polls /\ NextPoll(t)
      /\ UNCHANGED <<runtime, prog, queue_, closed_, token, list, timer, winner>>
  BY DEF Enqueue, At, Polls
<1>2. b \in Chans \X {"send"} /\ \A d \in Sides : t \in OnItsWay(d) => d = b
  BY <1>1, PollFacts DEF CallInv
<1>3. Stock(b) <= 0
  <2>1. b[1] \in Chans /\ b[2] = "send"
    BY <1>2
  <2>2. queue_[b[1]] \in Seq(Nat) /\ Len(queue_[b[1]]) \in Nat /\ Capacity \in Nat
    BY <2>1, ChannelAssumption DEF IInv, Types
  <2> QED
    BY <2>1, <2>2 DEF Full, Stock
<1>4. Rounded(t)
  BY <1>1, PollFacts, NextPollRounded
<1> QED
  BY <1>1, <1>2, <1>3, <1>4, RoundStep

\* The look at the token, and at the timer.
LEMMA PollFlagSafe == ASSUME IInv, SInv, NEW t \in Tasks, PollFlag(t) PROVE SInv'
<1> DEFINE b == call[t].br[Polled(t)]
<1>1. /\ call[t].pc = "poll" /\ call[t].pc \in Polls /\ b[2] \in {"cancel", "sleep"}
      /\ UNCHANGED <<runtime, prog, queue_, closed_, token, list, timer, winner>>
      /\ Completed(t, "fired") \/ NextPoll(t)
  BY DEF PollFlag, At, Polls
<1>2. Rounded(t)
  BY <1>1, PollFacts, CompletedRounded, NextPollRounded
<1>3. \A d \in Sides : t \notin OnItsWay(d)
  BY <1>1, PollFacts DEF Sides
<1> QED
  BY <1>1, <1>2, <1>3, RoundStep

\* select_recv() goes on to wait.
LEMMA SelectDrainedSafe == ASSUME IInv, SInv, NEW t \in Tasks, SelectDrained(t) PROVE SInv'
<1> DEFINE alive == {i \in 1..N(t) : ~drained(call[t].br[i][1])}
<1>1. /\ call[t].pc = "drained" /\ call[t].pc \in Polls
      /\ UNCHANGED <<runtime, prog, queue_, closed_, token, list, timer, winner>>
      /\ \/ Completed(t, "nullopt")
         \/ call' = [call EXCEPT ![t].pc = "check", ![t].alive = alive]
  BY DEF SelectDrained, At, Polls
<1>2. CallInv(t) /\ DOMAIN call = Tasks /\ call[t].kind = "select_recv" /\ call[t] \in CallRecords
  BY <1>1, PollFacts DEF CallInv
<1> HIDE DEF alive
<1>3. Rounded(t)
  <2>1. CASE Completed(t, "nullopt")
    BY <1>2, <2>1, CompletedRounded
  <2>2. CASE call' = [call EXCEPT ![t].pc = "check", ![t].alive = alive]
    <3>1. /\ call'[t].pc = "check" /\ call'[t].kind = call[t].kind /\ call'[t].br = call[t].br
          /\ \A u \in Tasks \ {t} : call'[u] = call[u]
      BY <1>2, <2>2 DEF CallRecords
    <3> QED
      BY <1>2, <3>1 DEF Rounded, Polls
  <2> QED
    BY <1>1, <2>1, <2>2
<1>4. \A d \in Sides : t \notin OnItsWay(d)
  BY <1>1, PollFacts
<1> QED
  BY <1>1, <1>3, <1>4, RoundStep

\* A coroutine whose task is cancelled does not wait.
LEMMA CheckCancelSafe == ASSUME IInv, SInv, NEW t \in Tasks, CheckCancel(t) PROVE SInv'
<1> DEFINE k == Least(call[t].alive)
<1>1. /\ call[t].pc = "check" /\ call[t].pc \in Polls
      /\ UNCHANGED <<runtime, prog, queue_, closed_, token, list, timer, winner>>
      /\ \/ Completed(t, "cancelled")
         \/ call' = [call EXCEPT ![t].pc = "attach", ![t].k = k]
  BY DEF CheckCancel, Waits, Polls
<1>2. CallInv(t) /\ DOMAIN call = Tasks /\ call[t] \in CallRecords
  BY <1>1, PollFacts DEF CallInv
<1> HIDE DEF k
<1>3. Rounded(t)
  <2>1. CASE Completed(t, "cancelled")
    BY <1>2, <2>1, CompletedRounded
  <2>2. CASE call' = [call EXCEPT ![t].pc = "attach", ![t].k = k]
    <3>1. /\ call'[t].pc = "attach" /\ call'[t].kind = call[t].kind /\ call'[t].br = call[t].br
          /\ \A u \in Tasks \ {t} : call'[u] = call[u]
      BY <1>2, <2>2 DEF CallRecords
    <3> QED
      BY <1>1, <3>1 DEF Rounded
  <2> QED
    BY <1>1, <2>1, <2>2
<1>4. \A d \in Sides : t \notin OnItsWay(d)
  BY <1>1, PollFacts
<1> QED
  BY <1>1, <1>3, <1>4, RoundStep

\* A call begins.
LEMMA StartSafe == ASSUME IInv, SInv, NEW t \in Tasks, Start(t) PROVE SInv'
<1>1. /\ call[t].pc = "idle"
      /\ UNCHANGED <<runtime, prog, queue_, closed_, token, list, timer, winner>>
  BY DEF Start
<1>2. PICK o \in prog[t], s \in Nat :
        call' = [call EXCEPT ![t] = [NoCall EXCEPT !.kind = o.kind, !.br = o.br, !.start = s,
                                       !.alive = DOMAIN o.br, !.pc = o.entry]]
  <2>1. PICK o \in prog[t] :
          \E s \in (IF o.kind \in Selects THEN 1..Len(o.br) ELSE {1}) :
            call' = [call EXCEPT ![t] = [NoCall EXCEPT !.kind = o.kind, !.br = o.br, !.start = s,
                                           !.alive = DOMAIN o.br, !.pc = o.entry]]
    BY DEF Start
  <2>2. PICK s \in (IF o.kind \in Selects THEN 1..Len(o.br) ELSE {1}) :
          call' = [call EXCEPT ![t] = [NoCall EXCEPT !.kind = o.kind, !.br = o.br, !.start = s,
                                         !.alive = DOMAIN o.br, !.pc = o.entry]]
    BY <2>1
  <2>3. s \in Nat
    OBVIOUS
  <2> QED
    BY <2>2, <2>3
<1>3. o.entry \in {"poll", "close", "request"}
  BY ProgramsAssumption DEF IInv, Types
<1>4. /\ call'[t].pc = o.entry /\ call'[t].kind = o.kind /\ call'[t].br = o.br
      /\ \A u \in Tasks \ {t} : call'[u] = call[u]
  <2> DEFINE r == [NoCall EXCEPT !.kind = o.kind, !.br = o.br, !.start = s,
                                 !.alive = DOMAIN o.br, !.pc = o.entry]
  <2>1. r.pc = o.entry /\ r.kind = o.kind /\ r.br = o.br
    BY DEF NoCall
  <2>2. call' = [call EXCEPT ![t] = r]
    BY <1>2
  <2> HIDE DEF r
  <2> QED
    BY <2>1, <2>2 DEF IInv, Types
<1>5. OpInv(t)'
  <2>1. call'[t].pc \in Polls \cup InWait => o.entry = "poll"
    BY <1>3, <1>4 DEF Polls, InWait, Linking
  <2>2. call'[t].pc \notin {"check"} \cup InWait
    BY <1>3, <1>4 DEF InWait, Linking
  <2> QED
    BY <1>1, <1>4, <2>1, <2>2 DEF OpInv
<1>6. \A b \in Sides : t \notin OnItsWay(b)
  BY <1>1 DEF OnItsWay, InWait, Linking
<1> QED
  BY <1>1, <1>3, <1>4, <1>5, <1>6, BusyOwnStep

\* A call returns.
LEMMA FinishSafe == ASSUME IInv, SInv, NEW t \in Tasks, Finish(t) PROVE SInv'
<1>1. /\ call[t].pc = "finish" /\ call[t].pc \in Busy
      /\ UNCHANGED <<runtime, prog, queue_, closed_, token, list, winner>>
      /\ timer' = [timer EXCEPT ![t] = "off"] /\ call' = [call EXCEPT ![t] = NoCall]
  BY DEF Finish, At, Busy
<1>2. call'[t].pc = "idle" /\ timer'[t] = "off"
      /\ \A u \in Tasks \ {t} : call'[u] = call[u] /\ timer'[u] = timer[u]
  BY <1>1 DEF IInv, Types, NoCall
<1>3. OpInv(t)'
  BY <1>2 DEF OpInv
<1>4. \A b \in Sides : t \notin OnItsWay(b)
  BY <1>1 DEF OnItsWay, InWait, Linking
<1> QED
  BY <1>1, <1>2, <1>3, <1>4, BusyOwnStep

\* close() or the request of the token: t will wake those for whom it is over now.
LEMMA OverStep ==
  ASSUME IInv, SInv, NEW t \in Tasks, call[t].pc \in {"close", "request"},
         UNCHANGED <<runtime, prog, queue_, list, timer, winner>>,
         \A u \in Tasks \ {t} : call'[u] = call[u],
         call'[t].kind = call[t].kind, call'[t].br = call[t].br,
         call'[t].pc \in {"finish", "wake_recv", "wake_token"},
         \A c \in Chans : closed_[c] => closed_'[c],
         \A b \in Sides \cup {<<Token, "cancel">>} : Over(b)' => Over(b) \/ Ending(t, b)'
  PROVE  SInv'
<1>1. call[t].pc \in Busy /\ call[t].pc # "idle"
  BY DEF Busy
<1>2. \A u \in Tasks \ {t} :
        /\ Kept(u) /\ requested'[u] = requested[u]
        /\ kick'[u] = kick[u] /\ cancel_fn'[u] = cancel_fn[u] /\ timer'[u] = timer[u]
  BY DEF Kept, runtime
<1>3. \A u \in Tasks \ {t} : OpInv(u)' /\ HookInv(u)' /\ SleepInv(u)'
  BY <1>2, AloneKept
<1>4. \A b \in Branches : ~Committed(t, b)'
  BY <1>1, NowhereCommitted
<1>5. OpInv(t)'
  BY <1>1, OpKept DEF Polls, InWait, Linking
<1>6. HookInv(t)' /\ SleepInv(t)'
  <2>1. <<t, "sleep">> \in Branches
    BY DEF Branches
  <2> QED
    BY <1>4, <2>1 DEF HookInv, SleepInv
<1>7. ASSUME NEW u \in Tasks, NEW b \in Branches, Committed(u, b)' PROVE Committed(u, b)
  BY <1>2, <1>4, <1>7, CommittedKept
<1>8. ASSUME NEW b \in Sides \cup {<<Token, "cancel">>} PROVE EndingInv(b)'
  <2> SUFFICES ASSUME NEW u \in Tasks, Committed(u, b)', Over(b)'
               PROVE  \E v \in Tasks : Ending(v, b)'
    BY DEF EndingInv
  <2>1. b \in Branches /\ EndingInv(b)
    BY SideBranches DEF SInv
  <2>2. CASE Over(b)
    <3>1. PICK v \in Tasks : Ending(v, b)
      BY <1>7, <2>1, <2>2 DEF EndingInv
    <3>2. call'[v] = call[v]
      BY <3>1 DEF Ending
    <3> QED
      BY <3>1, <3>2 DEF Ending, Branch
  <2> QED
    BY <2>2
<1>9. ASSUME NEW b \in Sides PROVE StockInv(b)'
  <2> SUFFICES ASSUME NEW u \in Tasks, Committed(u, b)', ~closed_'[b[1]]
               PROVE  /\ b[2] = "send" => b[1] \notin Unbounded
                      /\ Stock(b)' <= Cardinality(OnItsWay(b)')
    BY DEF StockInv
  <2>1. b \in Branches /\ ~closed_[b[1]] /\ Stock(b)' = Stock(b) /\ Stock(b) \in Int
    BY SideBranches, StockCounted DEF Stock, Sides
  <2>2. (b[2] = "send" => b[1] \notin Unbounded) /\ Stock(b) <= Cardinality(OnItsWay(b))
    BY <1>7, <2>1 DEF SInv, StockInv
  <2> DEFINE S == OnItsWay(b)
             R == OnItsWay(b)'
  <2>3. S \in SUBSET Tasks /\ R \in SUBSET Tasks
    BY DEF OnItsWay
  <2>4. S \subseteq R
    BY DEF OnItsWay, Branch, Polled, N, InWait, Linking
  <2>5. Cardinality(S) \in Nat /\ Cardinality(R) \in Nat /\ Cardinality(S) <= Cardinality(R)
    BY <2>3, <2>4, WayCounted
  <2> HIDE DEF S, R
  <2>6. Stock(b) <= Cardinality(R)
    BY <2>1, <2>2, <2>5 DEF S
  <2> QED
    BY <2>1, <2>2, <2>6 DEF R
<1> QED
  BY <1>3, <1>5, <1>6, <1>8, <1>9 DEF SInv

\* close() of a channel.
LEMMA CloseSafe == ASSUME IInv, SInv, NEW t \in Tasks, Close(t) PROVE SInv'
<1> DEFINE c == Branch(t)[1]
<1>1. /\ call[t].pc = "close" /\ closed_' = [closed_ EXCEPT ![c] = TRUE]
      /\ Goto(t, IF closed_[c] THEN "finish" ELSE "wake_recv")
      /\ UNCHANGED <<runtime, prog, queue_, token, list, timer, winner>>
  BY DEF Close, At
<1>2. CallInv(t) /\ DOMAIN call = Tasks /\ closed_ \in [Chans -> BOOLEAN] /\ c \in Chans
  BY <1>1 DEF IInv, Types, TaskInv, CallInv
<1> DEFINE p == IF closed_[c] THEN "finish" ELSE "wake_recv"
<1>3. /\ call'[t].pc = p /\ call'[t].kind = call[t].kind /\ call'[t].br = call[t].br
      /\ call'[t].k = call[t].k /\ \A u \in Tasks \ {t} : call'[u] = call[u]
  <2>1. p \in Points /\ Goto(t, p)
    BY <1>1 DEF Points, Busy
  <2> HIDE DEF p
  <2> QED
    BY <1>2, <2>1, GotoEffect
<1>4. closed_'[c] /\ \A d \in Chans \ {c} : closed_'[d] = closed_[d]
  BY <1>1, <1>2
<1>5. ASSUME NEW b \in Sides \cup {<<Token, "cancel">>}, Over(b)'
      PROVE  Over(b) \/ Ending(t, b)'
  <2>1. CASE b \in Sides /\ b[1] = c /\ ~closed_[c]
    BY <1>3, <2>1 DEF Ending, Branch
  <2>2. CASE ~(b \in Sides /\ b[1] = c /\ ~closed_[c])
    BY <1>1, <1>4, <1>5, <2>2 DEF Over, Sides
  <2> QED
    BY <2>1, <2>2
<1>6. \A d \in Chans : closed_[d] => closed_'[d]
  BY <1>2, <1>4
<1> QED
  BY <1>1, <1>3, <1>5, <1>6, OverStep

\* request_cancel() of the token.
LEMMA RequestTokenSafe == ASSUME IInv, SInv, NEW t \in Tasks, RequestToken(t) PROVE SInv'
<1> DEFINE p == IF token THEN "finish" ELSE "wake_token"
<1>1. /\ call[t].pc = "request" /\ token' = TRUE /\ Goto(t, p) /\ p \in Points
      /\ UNCHANGED <<runtime, prog, queue_, closed_, list, timer, winner>>
  BY DEF RequestToken, At, Points, Busy
<1>2. CallInv(t) /\ DOMAIN call = Tasks
  BY DEF IInv, Types, TaskInv
<1>3. /\ call'[t].pc = p /\ call'[t].kind = call[t].kind /\ call'[t].br = call[t].br
      /\ call'[t].k = call[t].k /\ \A u \in Tasks \ {t} : call'[u] = call[u]
  <2> HIDE DEF p
  <2> QED
    BY <1>1, <1>2, GotoEffect
<1>5. ASSUME NEW b \in Sides \cup {<<Token, "cancel">>}, Over(b)'
      PROVE  Over(b) \/ Ending(t, b)'
  <2>1. CASE b \notin Sides /\ ~token
    <3>1. b = <<Token, "cancel">>
      BY <2>1
    <3> QED
      BY <1>3, <2>1, <3>1 DEF Ending
  <2>2. CASE b \in Sides \/ token
    BY <1>1, <1>5, <2>2 DEF Over
  <2> QED
    BY <2>1, <2>2
<1> QED
  BY <1>1, <1>3, <1>5, OverStep

\* What a fired coroutine has: it is in its wait, and its word names its branch b.
LEMMA FiredFacts ==
  ASSUME IInv, NEW b \in Branches, NEW k \in Nat, NEW fired \in SUBSET Tasks, Fired(b, k, fired)
  PROVE  /\ \A u \in fired :
              /\ call[u].pc \in InWait /\ winner[u] = 0 /\ winner'[u] # 0
              /\ winner'[u] \in DOMAIN call[u].br /\ call[u].br[winner'[u]] = b
         /\ \A u \in Tasks \ fired : winner'[u] = winner[u]
         /\ \A u \in Tasks : \A d \in Branches : \A i \in Nat :
              <<u, i>> \in InList(list'[d]) => <<u, i>> \in InList(list[d])
<1>1. ASSUME NEW u \in fired
      PROVE  /\ call[u].pc \in InWait /\ winner[u] = 0 /\ winner'[u] # 0
             /\ winner'[u] \in DOMAIN call[u].br /\ call[u].br[winner'[u]] = b
  <2>1. /\ u \in Tasks /\ winner[u] = 0 /\ winner'[u] \in Nat \ {0}
        /\ <<u, winner'[u]>> \in InList(list[b])
    BY DEF Fired
  <2>2. LinkInv(u) /\ call[u].br \in Seq(Branches)
    BY <2>1, BranchesOf DEF IInv, TaskInv
  <2>3. winner'[u] \in 1..N(u) /\ call[u].br[winner'[u]] = b /\ MayBeLinked(u, winner'[u])
    BY <2>1, <2>2 DEF LinkInv
  <2>4. winner'[u] \in DOMAIN call[u].br
    BY <2>2, <2>3 DEF N
  <2>5. call[u].pc \in InWait
    BY <2>3 DEF MayBeLinked, InWait, Linking
  <2> QED
    BY <2>1, <2>3, <2>4, <2>5
<1> QED
  BY <1>1 DEF Fired

\* One more and one less of a finite set.
LEMMA Exchanged ==
  ASSUME NEW S \in SUBSET Tasks, NEW R \in SUBSET Tasks, NEW t, NEW v \in R \ S, S \ {t} \subseteq R
  PROVE  Cardinality(S) <= Cardinality(R)
<1>1. IsFiniteSet(S) /\ IsFiniteSet(R) /\ Cardinality(S) \in Nat /\ Cardinality(R) \in Nat
  BY WayCounted
<1>2. CASE t \notin S
  BY <1>2, WayCounted
<1>3. CASE t \in S
  <2> DEFINE Q == S \ {t}
  <2>1. IsFiniteSet(Q) /\ Cardinality(Q) = Cardinality(S) - 1
    BY <1>1, <1>3, FS_RemoveElement
  <2>2. v \notin Q /\ Q \cup {v} \subseteq R /\ Q \cup {v} \in SUBSET Tasks
    OBVIOUS
  <2> HIDE DEF Q
  <2>3. Cardinality(Q \cup {v}) = Cardinality(Q) + 1
    BY <2>1, <2>2, FS_AddElement
  <2>4. Cardinality(Q \cup {v}) <= Cardinality(R)
    BY <2>2, WayCounted
  <2> QED
    BY <1>1, <2>1, <2>3, <2>4
<1> QED
  BY <1>2, <1>3

\* A waker at b: whom it wakes is on its way to b in its place, or nobody waits there.
LEMMA FireSafe ==
  ASSUME IInv, SInv, NEW t \in Tasks, NEW b \in Branches, NEW k \in Nat, Fire(b, k),
         k = 1 \/ k = Len(list[b]),
         UNCHANGED <<cancel_fn, requested, kick, prog, queue_, closed_, token>>,
         \A u \in Tasks \ {t} : call'[u] = call[u],
         \/ call'[t] = call[t]
         \/ /\ call[t].pc \in Busy
            /\ call'[t].pc \in {"finish", "wake_send"}
            /\ call'[t].kind = call[t].kind /\ call'[t].br = call[t].br
            /\ \A d : Ending(t, d) => Ending(t, d)' \/ (d = b /\ k = Len(list[b]))
            /\ \A d : t \in OnItsWay(d) => d = b,
         \A u \in Tasks : timer'[u] = timer[u] \/ ~Committed(u, <<u, "sleep">>)'
  PROVE  SInv'
<1>1. PICK fired \in SUBSET Tasks : Fired(b, k, fired)
  BY FireEffect
<1>2. /\ \A u \in fired :
           /\ call[u].pc \in InWait /\ winner[u] = 0 /\ winner'[u] # 0
           /\ winner'[u] \in DOMAIN call[u].br /\ call[u].br[winner'[u]] = b
      /\ \A u \in Tasks \ fired : winner'[u] = winner[u]
      /\ \A u \in Tasks : \A d \in Branches : \A i \in Nat :
           <<u, i>> \in InList(list'[d]) => <<u, i>> \in InList(list[d])
  BY <1>1, FiredFacts
<1>3. \A u \in Tasks : call'[u] = call[u] => Kept(u)
  BY <1>2 DEF Kept
<1>4. call'[t] # call[t] => \A d : ~Committed(t, d)'
  BY DEF Committed
<1>5. ASSUME NEW u \in Tasks, NEW d, Committed(u, d)' PROVE Committed(u, d)
  BY <1>3, <1>4, <1>5, CommittedKept
<1>6. \A u \in Tasks : OpInv(u)'
  <2>1. \A u \in Tasks : call'[u] = call[u] => OpInv(u)'
    BY DEF SInv, OpInv
  <2>2. call'[t] # call[t] => OpInv(t)'
    BY OpKept DEF Busy, Polls, InWait, Linking
  <2> QED
    BY <2>1, <2>2
<1>7. \A u \in Tasks : HookInv(u)'
  <2>1. \A u \in Tasks : call'[u] = call[u] => HookInv(u)'
    BY <1>3 DEF SInv, HookInv, Kept
  <2>2. call'[t] # call[t] => HookInv(t)'
    BY DEF HookInv
  <2> QED
    BY <2>1, <2>2
<1>8. \A u \in Tasks : SleepInv(u)'
  <2> SUFFICES ASSUME NEW u \in Tasks, Committed(u, <<u, "sleep">>)' PROVE timer'[u] # "fired"
    BY DEF SleepInv
  <2>1. Committed(u, <<u, "sleep">>) /\ timer'[u] = timer[u]
    BY <1>5
  <2> QED
    BY <2>1 DEF SInv, SleepInv
<1>9. ASSUME NEW u \in Tasks, Committed(u, b)' PROVE k = 1 /\ k # Len(list[b]) /\ fired # {}
  <2>1. PICK i : <<u, i>> \in InList(list'[b])
    BY <1>9 DEF Committed, Linked
  <2> QED
    BY <1>1, <2>1 DEF Fired
<1>10. ASSUME NEW d \in Sides \cup {<<Token, "cancel">>} PROVE EndingInv(d)'
  <2> SUFFICES ASSUME NEW u \in Tasks, Committed(u, d)', Over(d)'
               PROVE  \E v \in Tasks : Ending(v, d)'
    BY DEF EndingInv
  <2>1. Committed(u, d) /\ Over(d)
    BY <1>5 DEF Over
  <2>2. PICK v \in Tasks : Ending(v, d)
    BY <2>1 DEF SInv, EndingInv
  <2>3. CASE call'[v] = call[v]
    BY <2>2, <2>3 DEF Ending, Branch
  <2>4. CASE call'[v] # call[v]
    BY <1>9, <2>2, <2>4
  <2> QED
    BY <2>3, <2>4
<1>11. ASSUME NEW d \in Sides PROVE StockInv(d)'
  <2> SUFFICES ASSUME NEW u \in Tasks, Committed(u, d)', ~closed_'[d[1]]
               PROVE  /\ d[2] = "send" => d[1] \notin Unbounded
                      /\ Stock(d)' <= Cardinality(OnItsWay(d)')
    BY DEF StockInv
  <2>1. Committed(u, d) /\ ~closed_[d[1]] /\ Stock(d)' = Stock(d) /\ Stock(d) \in Int
    BY <1>5, StockCounted DEF Stock
  <2>2. (d[2] = "send" => d[1] \notin Unbounded) /\ Stock(d) <= Cardinality(OnItsWay(d))
    BY <2>1 DEF SInv, StockInv
  <2> DEFINE S == OnItsWay(d)
             R == OnItsWay(d)'
  <2>3. S \in SUBSET Tasks /\ R \in SUBSET Tasks
    BY DEF OnItsWay
  <2>4. ASSUME NEW v \in S PROVE v \notin fired
    <3>1. v \in Tasks /\ call[v].br \in Seq(Branches)
      BY BranchesOf DEF OnItsWay
    <3>2. 0 \notin DOMAIN call[v].br
      BY <3>1
    <3> QED
      BY <1>2, <3>2 DEF OnItsWay, InWait, Linking
  <2>5. ASSUME NEW v \in S, call'[v] = call[v] PROVE v \in R
    <3>1. v \in Tasks /\ winner'[v] = winner[v]
      BY <1>2, <2>3, <2>4
    <3> QED
      BY <2>5, <3>1 DEF OnItsWay, Branch, Polled, N
  <2>6. S \ {t} \subseteq R /\ (t \in S => t \in R \/ d = b)
    BY <2>3, <2>5
  <2>7. ASSUME d = b PROVE \E v \in R : v \notin S
    <3>1. PICK v \in fired : TRUE
      BY <1>9, <2>7
    <3>2. v \in Tasks /\ v \notin S /\ call[v].pc \in InWait
      BY <1>2, <2>4, <3>1
    <3>3. call'[v] = call[v]
      BY <3>2 DEF InWait, Linking, Busy
    <3>4. v \in R
      BY <1>2, <2>7, <3>2, <3>3 DEF OnItsWay
    <3> QED
      BY <3>2, <3>4
  <2> HIDE DEF S, R
  <2>8. Cardinality(S) <= Cardinality(R)
    <3>1. CASE S \subseteq R
      BY <2>3, <3>1, WayCounted
    <3>2. CASE ~(S \subseteq R)
      <4>1. d = b
        BY <2>6, <3>2
      <4>2. PICK v \in R : v \notin S
        BY <2>7, <4>1
      <4> QED
        BY <2>3, <2>6, <4>2, Exchanged
    <3> QED
      BY <3>1, <3>2
  <2>9. Cardinality(S) \in Nat /\ Cardinality(R) \in Nat
    BY <2>3, WayCounted
  <2>10. Stock(d) <= Cardinality(R)
    BY <2>1, <2>2, <2>8, <2>9 DEF S
  <2> QED
    BY <2>1, <2>2, <2>10 DEF R
<1> QED
  BY <1>6, <1>7, <1>8, <1>10, <1>11 DEF SInv

\* A finished send or receive wakes one of the other side.
LEMMA WakeOneWaiterSafe == ASSUME IInv, SInv, NEW t \in Tasks, WakeOneWaiter(t) PROVE SInv'
<1> DEFINE b == Other(Branch(t))
<1>1. /\ call[t].pc = "notify" /\ call[t].pc \in Busy /\ Fire(b, 1) /\ Goto(t, "finish")
      /\ UNCHANGED <<cancel_fn, requested, kick, prog, queue_, closed_, token, timer>>
  BY DEF WakeOneWaiter, At, Busy
<1>2. CallInv(t) /\ DOMAIN call = Tasks /\ b \in Branches
  BY <1>1 DEF IInv, Types, TaskInv, CallInv, Other, Branches
<1>3. /\ call'[t].pc = "finish" /\ call'[t].kind = call[t].kind /\ call'[t].br = call[t].br
      /\ \A u \in Tasks \ {t} : call'[u] = call[u]
  BY <1>1, <1>2, GotoEffect DEF Points, Busy
<1>4. \A d : ~Ending(t, d) /\ (t \in OnItsWay(d) => d = b)
  BY <1>1 DEF Ending, OnItsWay, InWait, Linking
<1> HIDE DEF b
<1> QED
  BY <1>1, <1>2, <1>3, <1>4, FireSafe

\* close() wakes all the receivers, then all the senders.
LEMMA WakeAllWaitersSafe == ASSUME IInv, SInv, NEW t \in Tasks, WakeAllWaiters(t) PROVE SInv'
<1> DEFINE side == IF call[t].pc = "wake_recv" THEN "recv" ELSE "send"
           b == <<Branch(t)[1], side>>
           p == IF side = "recv" THEN "wake_send" ELSE "finish"
           k == Len(list[b])
<1>1. /\ call[t].pc \in {"wake_recv", "wake_send"} /\ call[t].pc \in Busy
      /\ Fire(b, k) /\ Goto(t, p)
      /\ UNCHANGED <<cancel_fn, requested, kick, prog, queue_, closed_, token, timer>>
  BY DEF WakeAllWaiters, Busy
<1>2. CallInv(t) /\ DOMAIN call = Tasks /\ b \in Branches /\ p \in Points
  BY <1>1 DEF IInv, Types, TaskInv, CallInv, Branches, Points, Busy
<1>3. /\ call'[t].pc = p /\ call'[t].kind = call[t].kind /\ call'[t].br = call[t].br
      /\ call'[t].k = call[t].k /\ \A u \in Tasks \ {t} : call'[u] = call[u]
  <2> HIDE DEF p, b, k
  <2> QED
    BY <1>1, <1>2, GotoEffect
<1>4. ASSUME NEW d, Ending(t, d) PROVE Ending(t, d)' \/ d = b
  <2>1. CASE call[t].pc = "wake_recv"
    <3>1. d \in Sides /\ d[1] = Branch(t)[1]
      BY <1>4, <2>1 DEF Ending
    <3>2. d = <<Branch(t)[1], "recv">> \/ d = <<Branch(t)[1], "send">>
      BY <3>1 DEF Sides
    <3>3. call'[t].pc = "wake_send" /\ Branch(t)' = Branch(t)
      BY <1>3, <2>1 DEF Branch
    <3> QED
      BY <2>1, <3>2, <3>3 DEF Ending
  <2>2. CASE call[t].pc = "wake_send"
    BY <1>4, <2>2 DEF Ending
  <2> QED
    BY <1>1, <2>1, <2>2
<1>5. \A d : t \notin OnItsWay(d)
  BY <1>1 DEF OnItsWay, InWait, Linking
<1>6. k \in Nat
  <2>1. list[b] \in Seq(Tasks \X Nat)
    BY <1>2 DEF IInv, Types
  <2> QED
    BY <2>1
<1>7. p \in {"finish", "wake_send"}
  OBVIOUS
<1> HIDE DEF b, p
<1> QED
  BY <1>1, <1>2, <1>3, <1>4, <1>5, <1>6, <1>7, FireSafe

\* The request of the token wakes all who wait for it.
LEMMA WakeTokenSafe == ASSUME IInv, SInv, NEW t \in Tasks, WakeToken(t) PROVE SInv'
<1> DEFINE b == <<Token, "cancel">>
           k == Len(list[b])
<1>1. /\ call[t].pc = "wake_token" /\ call[t].pc \in Busy /\ Fire(b, k) /\ Goto(t, "finish")
      /\ UNCHANGED <<cancel_fn, requested, kick, prog, queue_, closed_, token, timer>>
  BY DEF WakeToken, At, Busy
<1>2. CallInv(t) /\ DOMAIN call = Tasks /\ b \in Branches
  BY SideBranches DEF IInv, Types, TaskInv
<1>3. /\ call'[t].pc = "finish" /\ call'[t].kind = call[t].kind /\ call'[t].br = call[t].br
      /\ \A u \in Tasks \ {t} : call'[u] = call[u]
  BY <1>1, <1>2, GotoEffect DEF Points, Busy
<1>4. \A d : (Ending(t, d) => d = b) /\ t \notin OnItsWay(d)
  BY <1>1 DEF Ending, OnItsWay, InWait, Linking
<1>5. k \in Nat
  <2>1. list[b] \in Seq(Tasks \X Nat)
    BY <1>2 DEF IInv, Types
  <2> QED
    BY <2>1
<1> HIDE DEF b
<1> QED
  BY <1>1, <1>2, <1>3, <1>4, <1>5, FireSafe

\* A sleep belongs to the coroutine that waits for it.
LEMMA OwnSleep ==
  ASSUME IInv, SInv, NEW u \in Tasks, call[u].pc # "idle", NEW t \in Tasks,
         NEW i \in DOMAIN call[u].br, call[u].br[i] = <<t, "sleep">>
  PROVE  u = t
<1>1. PICK o \in prog[u] : o.br = call[u].br
  BY DEF SInv, OpInv
<1>2. InList(o.br) \cap (Tasks \X {"sleep"}) \subseteq {<<u, "sleep">>} /\ o.br \in Seq(Branches)
  BY ProgramsAssumption DEF IInv, Types
<1>3. <<t, "sleep">> \in InList(o.br)
  BY <1>1, <1>2 DEF InList
<1>4. <<t, "sleep">> \in {<<u, "sleep">>}
  BY <1>2, <1>3
<1> QED
  BY <1>4

\* The timer of a sleep claims its coroutine.
LEMMA OnFireSafe == ASSUME IInv, SInv, NEW t \in Tasks, OnFire(t) PROVE SInv'
<1> DEFINE b == <<t, "sleep">>
<1>1. /\ timer' = [timer EXCEPT ![t] = "fired"] /\ Fire(b, 1) /\ call' = call
      /\ UNCHANGED <<cancel_fn, requested, kick, prog, queue_, closed_, token>>
  BY DEF OnFire
<1>2. b \in Branches /\ timer \in [Tasks -> {"off", "armed", "fired"}]
  BY DEF Branches, IInv, Types
<1>3. PICK fired \in SUBSET Tasks : Fired(b, 1, fired)
  BY <1>1, <1>2, FireEffect
<1>4. ~Committed(t, b)'
  <2> SUFFICES ASSUME Committed(t, b)' PROVE FALSE
    OBVIOUS
  <2>1. winner'[t] = 0 /\ \E i : <<t, i>> \in InList(list'[b])
    BY DEF Committed, Linked
  <2>2. PICK v \in fired : TRUE
    BY <1>3, <2>1 DEF Fired
  <2>3. /\ v \in Tasks /\ call[v].pc \in InWait /\ winner'[v] # 0
        /\ winner'[v] \in DOMAIN call[v].br /\ call[v].br[winner'[v]] = b
    BY <1>2, <1>3, <2>2, FiredFacts
  <2>4. call[v].pc # "idle"
    BY <2>3 DEF InWait, Linking
  <2>5. v = t
    BY <2>3, <2>4, OwnSleep
  <2> QED
    BY <2>1, <2>3, <2>5
<1>5. \A u \in Tasks : timer'[u] = timer[u] \/ ~Committed(u, <<u, "sleep">>)'
  BY <1>1, <1>2, <1>4
<1> HIDE DEF b
<1> QED
  BY <1>1, <1>2, <1>5, FireSafe

\* One more of a finite set, and one less.
LEMMA OneMore ==
  ASSUME NEW S \in SUBSET Tasks, NEW R \in SUBSET Tasks, NEW t
  PROVE  /\ t \notin S /\ t \in R /\ S \subseteq R => Cardinality(S) + 1 <= Cardinality(R)
         /\ S \ {t} \subseteq R => Cardinality(S) - 1 <= Cardinality(R)
<1>1. IsFiniteSet(S) /\ IsFiniteSet(R) /\ Cardinality(S) \in Nat /\ Cardinality(R) \in Nat
  BY WayCounted
<1>2. ASSUME t \notin S, t \in R, S \subseteq R PROVE Cardinality(S) + 1 <= Cardinality(R)
  <2> DEFINE Q == S \cup {t}
  <2>1. Cardinality(Q) = Cardinality(S) + 1
    BY <1>1, <1>2, FS_AddElement
  <2>2. Q \in SUBSET Tasks /\ Q \subseteq R
    BY <1>2
  <2> HIDE DEF Q
  <2>3. Cardinality(Q) <= Cardinality(R)
    BY <2>2, WayCounted
  <2> QED
    BY <2>1, <2>3
<1>3. ASSUME S \ {t} \subseteq R PROVE Cardinality(S) - 1 <= Cardinality(R)
  <2> DEFINE Q == S \ {t}
  <2>1. Cardinality(S) - 1 <= Cardinality(Q) /\ Cardinality(Q) \in Nat
    <3>1. CASE t \in S
      <4>1. Cardinality(Q) = Cardinality(S) - 1 /\ IsFiniteSet(Q)
        BY <1>1, <3>1, FS_RemoveElement
      <4>2. Cardinality(Q) \in Nat
        BY <4>1, FS_CardinalityType
      <4> QED
        BY <1>1, <4>1, <4>2
    <3>2. CASE t \notin S
      <4>1. Q = S
        BY <3>2
      <4> QED
        BY <1>1, <4>1
    <3> QED
      BY <3>1, <3>2
  <2>2. Q \in SUBSET Tasks /\ Q \subseteq R
    BY <1>3
  <2> HIDE DEF Q
  <2>3. Cardinality(Q) <= Cardinality(R)
    BY <2>2, WayCounted
  <2> QED
    BY <1>1, <2>1, <2>3
<1> QED
  BY <1>2, <1>3

\* A value is put or taken at b: there is one less for b and one more for the other
\* side, whom t wakes next unless nobody ever waits there.
LEMMA QueueStep ==
  ASSUME IInv, SInv, NEW t \in Tasks, call[t].pc \in {"poll", "enqueue"},
         NEW b \in Sides, b = call[t].br[Polled(t)],
         UNCHANGED <<runtime, prog, closed_, token, list, timer, winner>>,
         \A u \in Tasks \ {t} : call'[u] = call[u],
         call'[t].kind = call[t].kind, call'[t].br = call[t].br,
         \/ call'[t].pc = "notify" /\ Branch(t)' = b
         \/ call'[t].pc = "finish" /\ b[2] = "recv" /\ b[1] \in Unbounded,
         Stock(b)' = Stock(b) - 1, Stock(Other(b))' = Stock(Other(b)) + 1,
         \A d \in Sides \ {b, Other(b)} : Stock(d)' = Stock(d)
  PROVE  SInv'
<1>1. /\ call[t].pc \in Busy /\ call[t].pc \notin {"idle", "notify"} /\ call[t].pc \notin InWait
      /\ ~(\E d : Ending(t, d))
  BY DEF Busy, InWait, Linking, Ending
<1>2. \A u \in Tasks \ {t} :
        /\ Kept(u) /\ requested'[u] = requested[u]
        /\ kick'[u] = kick[u] /\ cancel_fn'[u] = cancel_fn[u] /\ timer'[u] = timer[u]
  BY DEF Kept, runtime
<1>3. \A u \in Tasks \ {t} : OpInv(u)' /\ HookInv(u)' /\ SleepInv(u)'
  BY <1>2, AloneKept
<1>4. \A d \in Branches : ~Committed(t, d)'
  BY <1>1, NowhereCommitted
<1>5. OpInv(t)'
  BY <1>1, OpKept DEF Polls, InWait, Linking
<1>6. HookInv(t)' /\ SleepInv(t)'
  <2>1. <<t, "sleep">> \in Branches
    BY DEF Branches
  <2> QED
    BY <1>4, <2>1 DEF HookInv, SleepInv
<1>7. ASSUME NEW u \in Tasks, NEW d \in Branches, Committed(u, d)' PROVE Committed(u, d)
  BY <1>2, <1>4, <1>7, CommittedKept
<1>8. ASSUME NEW d \in Sides \cup {<<Token, "cancel">>} PROVE EndingInv(d)'
  <2> SUFFICES ASSUME NEW u \in Tasks, Committed(u, d)', Over(d)'
               PROVE  \E v \in Tasks : Ending(v, d)'
    BY DEF EndingInv
  <2>1. d \in Branches /\ EndingInv(d) /\ Over(d)
    BY SideBranches DEF SInv, Over
  <2>2. PICK v \in Tasks : Ending(v, d)
    BY <1>7, <2>1 DEF EndingInv
  <2>3. call'[v] = call[v]
    BY <1>1, <2>2
  <2> QED
    BY <2>2, <2>3 DEF Ending, Branch
<1>9. Other(b) \in Sides /\ Other(b) # b
  BY DEF Other, Sides
<1>10. ASSUME NEW d \in Sides PROVE StockInv(d)'
  <2> SUFFICES ASSUME NEW u \in Tasks, Committed(u, d)', ~closed_'[d[1]]
               PROVE  /\ d[2] = "send" => d[1] \notin Unbounded
                      /\ Stock(d)' <= Cardinality(OnItsWay(d)')
    BY DEF StockInv
  <2>1. d \in Branches /\ ~closed_[d[1]] /\ Stock(d) \in Int
    BY SideBranches, StockCounted
  <2>2. (d[2] = "send" => d[1] \notin Unbounded) /\ Stock(d) <= Cardinality(OnItsWay(d))
    BY <1>7, <2>1 DEF SInv, StockInv
  <2> DEFINE S == OnItsWay(d)
             R == OnItsWay(d)'
  <2>3. S \in SUBSET Tasks /\ R \in SUBSET Tasks
    BY DEF OnItsWay
  <2>4. S \ {t} \subseteq R
    BY DEF OnItsWay, Branch, Polled, N
  <2>5. t \in S => d = b
    BY <1>1 DEF OnItsWay
  <2>6. d = Other(b) => t \in R
    <3>1. ASSUME d = Other(b) PROVE call'[t].pc = "notify" /\ Branch(t)' = b
      <4>1. ~(b[2] = "recv" /\ b[1] \in Unbounded)
        BY <2>2, <3>1 DEF Other
      <4> QED
        BY <4>1
    <3>2. ASSUME d = Other(b) PROVE Other(Branch(t))' = d
      BY <3>1, <3>2 DEF Other
    <3> QED
      BY <3>1, <3>2 DEF OnItsWay
  <2> HIDE DEF S, R
  <2>7. Cardinality(S) \in Nat /\ Cardinality(R) \in Nat
    BY <2>3, WayCounted
  <2>8. Stock(d)' <= Cardinality(R)
    <3>1. CASE d = b
      <4>1. Cardinality(S) - 1 <= Cardinality(R)
        BY <2>3, <2>4, OneMore
      <4> QED
        BY <2>1, <2>2, <2>7, <3>1, <4>1 DEF S
    <3>2. CASE d = Other(b)
      <4>1. Cardinality(S) + 1 <= Cardinality(R)
        BY <1>9, <2>3, <2>4, <2>5, <2>6, <3>2, OneMore
      <4> QED
        BY <2>1, <2>2, <2>7, <3>2, <4>1 DEF S
    <3>3. CASE d # b /\ d # Other(b)
      <4>1. Cardinality(S) <= Cardinality(R)
        BY <2>3, <2>4, <2>5, <3>3, WayCounted
      <4>2. Stock(d)' = Stock(d)
        BY <3>3
      <4> QED
        BY <2>1, <2>2, <2>7, <4>1, <4>2 DEF S
    <3> QED
      BY <3>1, <3>2, <3>3
  <2> QED
    BY <2>2, <2>8 DEF R
<1> QED
  BY <1>3, <1>5, <1>6, <1>8, <1>10 DEF SInv

\* The stock of the two sides of a channel.
LEMMA StockOf ==
  ASSUME NEW c
  PROVE  /\ Stock(<<c, "recv">>) = Len(queue_[c]) /\ Stock(<<c, "recv">>)' = Len(queue_'[c])
         /\ Stock(<<c, "send">>) = Capacity - Len(queue_[c])
         /\ Stock(<<c, "send">>)' = Capacity - Len(queue_'[c])
BY DEF Stock

\* A receive takes a value, or finds none.
LEMMA PollRecvSafe == ASSUME IInv, SInv, NEW t \in Tasks, PollRecv(t) PROVE SInv'
<1>0. PICK b : b = call[t].br[Polled(t)]
  OBVIOUS
<1> DEFINE c == b[1]
           p == IF c \in Unbounded THEN "finish" ELSE "notify"
<1>1. CASE queue_[c] = <<>>
  BY <1>0, <1>1, PollRecvEmptySafe
<1>2. CASE queue_[c] # <<>>
  <2>1. /\ call[t].pc = "poll" /\ call[t].pc \in Polls /\ call[t].pc \in Busy /\ b[2] = "recv"
        /\ UNCHANGED <<runtime, prog, closed_, token, list, timer, winner>>
        /\ queue_' = [queue_ EXCEPT ![c] = Tail(@)]
        /\ call' = [call EXCEPT ![t].pc = p, ![t].res = "value", ![t].k = Polled(t), ![t].start = 1]
    BY <1>0, <1>2 DEF PollRecv, At, Polls, Busy
  <2>2. CallInv(t) /\ DOMAIN call = Tasks /\ b \in Chans \X {"recv"}
    BY <1>0, <2>1, PollFacts DEF Branches
  <2>3. /\ call'[t].pc = p /\ call'[t].kind = call[t].kind /\ call'[t].br = call[t].br
        /\ call'[t].k = Polled(t) /\ \A u \in Tasks \ {t} : call'[u] = call[u]
    <3>1. p \in {"finish", "notify"} /\ b \in Chans \X {"recv", "send"}
      BY <2>2
    <3> HIDE DEF p
    <3> QED
      BY <1>0, <2>1, <2>2, <3>1, ResultEffect
  <2>4. c \in Chans /\ b = <<c, "recv">> /\ Other(b) = <<c, "send">> /\ b \in Sides
    BY <2>2 DEF Other, Sides
  <2>5. queue_ \in [Chans -> Seq(Nat)] /\ Capacity \in Nat
    BY ChannelAssumption DEF IInv, Types
  <2>6. /\ Len(queue_'[c]) = Len(queue_[c]) - 1 /\ Len(queue_[c]) \in Nat
        /\ \A d \in Chans \ {c} : queue_'[d] = queue_[d]
    BY <1>2, <2>1, <2>4, <2>5
  <2> HIDE DEF c
  <2>7. Stock(b)' = Stock(b) - 1 /\ Stock(Other(b))' = Stock(Other(b)) + 1
    BY <2>4, <2>5, <2>6, StockOf
  <2>8. \A d \in Sides \ {b, Other(b)} : Stock(d)' = Stock(d)
    BY <2>4, <2>6 DEF Stock, Sides
  <2>9. Branch(t)' = b
    BY <1>0, <2>3 DEF Branch
  <2>10. \/ call'[t].pc = "notify" /\ Branch(t)' = b
         \/ call'[t].pc = "finish" /\ b[2] = "recv" /\ b[1] \in Unbounded
    BY <2>1, <2>3, <2>9 DEF c
  <2> QED
    BY <1>0, <2>1, <2>3, <2>4, <2>7, <2>8, <2>10, QueueStep
<1> QED
  BY <1>1, <1>2

\* A send puts a value, or finds no room.
LEMMA EnqueueSafe == ASSUME IInv, SInv, NEW t \in Tasks, Enqueue(t) PROVE SInv'
<1>0. PICK b : b = call[t].br[Polled(t)]
  OBVIOUS
<1> DEFINE c == b[1]
<1>1. CASE Full(c)
  BY <1>0, <1>1, EnqueueFullSafe
<1>2. CASE ~Full(c)
  <2>1. /\ call[t].pc = "enqueue" /\ call[t].pc \in Polls /\ call[t].pc \in Busy
        /\ UNCHANGED <<runtime, prog, closed_, token, list, timer, winner>>
        /\ queue_' = [queue_ EXCEPT ![c] = Append(@, sent[c] + 1)]
        /\ call' = [call EXCEPT ![t].pc = "notify", ![t].res = "sent",
                                ![t].k = Polled(t), ![t].start = 1]
    BY <1>0, <1>2 DEF Enqueue, At, Polls, Busy
  <2>2. CallInv(t) /\ DOMAIN call = Tasks /\ b \in Chans \X {"send"}
    BY <1>0, <2>1, PollFacts DEF CallInv
  <2>3. /\ call'[t].pc = "notify" /\ call'[t].kind = call[t].kind /\ call'[t].br = call[t].br
        /\ call'[t].k = Polled(t) /\ \A u \in Tasks \ {t} : call'[u] = call[u]
    <3>1. b \in Chans \X {"recv", "send"}
      BY <2>2
    <3> QED
      BY <1>0, <2>1, <2>2, <3>1, ResultEffect
  <2>4. c \in Chans /\ b = <<c, "send">> /\ Other(b) = <<c, "recv">> /\ b \in Sides
    BY <2>2 DEF Other, Sides
  <2>5. queue_ \in [Chans -> Seq(Nat)] /\ Capacity \in Nat
    BY ChannelAssumption DEF IInv, Types
  <2>6. /\ Len(queue_'[c]) = Len(queue_[c]) + 1 /\ Len(queue_[c]) \in Nat
        /\ \A d \in Chans \ {c} : queue_'[d] = queue_[d]
    <3>1. sent[c] + 1 \in Nat
      BY <2>4 DEF IInv, Types
    <3>2. queue_[c] \in Seq(Nat) /\ queue_'[c] = Append(queue_[c], sent[c] + 1)
      BY <2>1, <2>4, <2>5
    <3>3. Len(queue_'[c]) = Len(queue_[c]) + 1 /\ Len(queue_[c]) \in Nat
      BY <3>1, <3>2
    <3> QED
      BY <2>1, <2>4, <2>5, <3>3
  <2> HIDE DEF c
  <2>7. Stock(b)' = Stock(b) - 1 /\ Stock(Other(b))' = Stock(Other(b)) + 1
    BY <2>4, <2>5, <2>6, StockOf
  <2>8. \A d \in Sides \ {b, Other(b)} : Stock(d)' = Stock(d)
    BY <2>4, <2>6 DEF Stock, Sides
  <2>9. Branch(t)' = b
    BY <1>0, <2>3 DEF Branch
  <2> QED
    BY <1>0, <2>1, <2>3, <2>4, <2>7, <2>8, <2>9, QueueStep
<1> QED
  BY <1>1, <1>2

\* A coroutine that nobody has claimed, or that was cancelled, is on no way by it.
LEMMA UnclaimedOffWay ==
  ASSUME IInv, NEW t \in Tasks, call[t].pc \in InWait, NEW b, t \in OnItsWay(b)
  PROVE  /\ winner[t] \in 1..N(t) /\ call[t].br[winner[t]] = b
         /\ winner[t] # 0 /\ winner[t] # Cancelled
<1>1. winner[t] \in DOMAIN call[t].br /\ call[t].br[winner[t]] = b
  BY DEF OnItsWay, InWait, Linking
<1>2. winner[t] \in 1..N(t) /\ N(t) \in Nat
  BY <1>1, BranchesOf DEF N
<1> QED
  BY <1>1, <1>2 DEF Cancelled

\* A step of t in its wait.
LEMMA WaitSafe ==
  ASSUME IInv, SInv, NEW t \in Tasks, call[t].pc \in InWait,
         UNCHANGED <<prog, queue_, closed_, token>>,
         \A u \in Tasks \ {t} :
           /\ call'[u] = call[u] /\ winner'[u] = winner[u] /\ requested'[u] = requested[u]
           /\ kick'[u] = kick[u] /\ cancel_fn'[u] = cancel_fn[u] /\ timer'[u] = timer[u],
         \A u \in Tasks \ {t} : \A d \in Branches : \A i \in Nat :
           <<u, i>> \in InList(list'[d]) => <<u, i>> \in InList(list[d]),
         call'[t].kind = call[t].kind, call'[t].br = call[t].br,
         HookInv(t)', timer'[t] = "fired" => timer[t] = "fired",
         \A b \in Branches : Committed(t, b)' => Committed(t, b) \/ MustWait(t, b),
         \/ winner'[t] = winner[t] /\ call'[t].pc \in InWait
         \/ winner[t] \in {0, Cancelled}
         \/ \A b \in Sides : t \in OnItsWay(b) =>
              t \in OnItsWay(b)' \/ \A u \in Tasks : ~Committed(u, b)'
  PROVE  SInv'
<1>1. /\ call[t].pc \notin {"idle", "notify", "poll", "send", "enqueue"}
      /\ call[t].pc \notin {"wake_recv", "wake_send", "wake_token"}
  BY DEF InWait, Linking
<1>2. \A u \in Tasks \ {t} : Kept(u)
  BY DEF Kept
<1>3. OpInv(t)'
  BY <1>1, OpKept
<1>4. ASSUME NEW b \in Sides, t \in OnItsWay(b)
      PROVE  t \in OnItsWay(b)' \/ \A u \in Tasks : ~Committed(u, b)'
  <2>1. CASE winner'[t] = winner[t] /\ call'[t].pc \in InWait
    BY <1>1, <1>4, <2>1 DEF OnItsWay
  <2>2. CASE winner[t] \in {0, Cancelled}
    BY <1>4, <2>2, UnclaimedOffWay
  <2> QED
    BY <1>4, <2>1, <2>2
<1> QED
  BY <1>1, <1>2, <1>3, <1>4, OwnStep

\* Linking a node.
LEMMA AttachSafe == ASSUME IInv, SInv, NEW t \in Tasks, Attach(t) PROVE SInv'
<1> DEFINE k == call[t].k
<1>1. /\ call[t].pc = "attach" /\ call[t].pc \in InWait /\ Goto(t, "recheck")
      /\ UNCHANGED <<prog, queue_, closed_, token, runtime, winner>>
      /\ list' = [list EXCEPT ![Branch(t)] = push_locked(@, <<t, k>>)]
      /\ timer' = timer \/ timer' = [timer EXCEPT ![t] = "armed"]
  BY DEF Attach, Waits, InWait, Linking
<1>2. /\ Types /\ CallInv(t) /\ LinkInv(t) /\ DOMAIN call = Tasks /\ k \in 1..N(t) /\ N(t) \in Nat
      /\ \A i \in 1..N(t) : call[t].br[i] \in Branches
      /\ timer \in [Tasks -> {"off", "armed", "fired"}]
  BY <1>1, Facts
<1>3. /\ call'[t].pc = "recheck" /\ call'[t].kind = call[t].kind /\ call'[t].br = call[t].br
      /\ call'[t].k = k /\ \A u \in Tasks \ {t} : call'[u] = call[u]
  BY <1>1, <1>2, GotoEffect DEF Points, Linking
<1>4. Branch(t) \in Branches /\ <<t, k>> \in Tasks \X Nat /\ <<t, k>> \notin InList(list[Branch(t)])
  BY <1>1, <1>2 DEF Branch, LinkInv, MayBeLinked
<1>5. \A d \in Branches : InList(list'[d]) \subseteq InList(list[d]) \cup {<<t, k>>}
  <2>1. PICK b \in Branches, n \in Tasks \X Nat :
          /\ b = Branch(t) /\ n = <<t, k>> /\ n \notin InList(list[b])
          /\ list' = [list EXCEPT ![b] = push_locked(@, n)]
    BY <1>1, <1>4
  <2>2. /\ InList(list'[b]) = InList(list[b]) \cup {n}
        /\ \A d \in Branches \ {b} : list'[d] = list[d]
    BY <1>2, <2>1, LinkEffect
  <2>3. \A d \in Branches : InList(list'[d]) \subseteq InList(list[d]) \cup {n}
    BY <2>2
  <2> QED
    BY <2>1, <2>3
<1>6. ASSUME NEW b \in Branches, Committed(t, b)' PROVE Committed(t, b)
  <2>1. PICK i \in DOMAIN call[t].br :
          call[t].br[i] = b /\ <<t, i>> \in InList(list'[b]) /\ winner[t] = 0 /\ i < k
    BY <1>1, <1>3, <1>6 DEF Committed, Linked
  <2>2. i # k
    BY <1>2, <2>1, BranchesOf
  <2>3. <<t, i>> \in InList(list[b])
    BY <1>5, <2>1, <2>2
  <2> QED
    BY <1>1, <2>1, <2>3 DEF Committed, Linked
<1>7. HookInv(t)'
  BY <1>3 DEF HookInv
<1>8. \A u \in Tasks \ {t} : timer'[u] = timer[u]
  BY <1>1, <1>2
<1>9. timer'[t] = "fired" => timer[t] = "fired"
  BY <1>1, <1>2
<1>10. "recheck" \in InWait
  BY DEF InWait, Linking
<1> HIDE DEF k
<1>11. \A u \in Tasks \ {t} : \A d \in Branches : \A i \in Nat :
         <<u, i>> \in InList(list'[d]) => <<u, i>> \in InList(list[d])
  BY <1>5
<1> QED
  BY <1>1, <1>3, <1>6, <1>7, <1>8, <1>9, <1>10, <1>11, WaitSafe DEF runtime

\* The look after linking.
LEMMA RecheckSafe == ASSUME IInv, SInv, NEW t \in Tasks, Recheck(t) PROVE SInv'
<1> DEFINE k == call[t].k
           stays == MustWait(t, Branch(t))
           more == After(t, k) # {}
           p == CASE ~stays -> "detach"
                  [] stays /\ more -> "attach"
                  [] OTHER -> "arm"
           kn == IF stays /\ more THEN Least(After(t, k)) ELSE 1
<1>1. /\ call[t].pc = "recheck" /\ call[t].pc \in InWait
      /\ UNCHANGED <<prog, queue_, closed_, token, runtime, list, timer, winner>>
      /\ call' = [call EXCEPT ![t].pc = p, ![t].k = kn]
  BY DEF Recheck, Waits, InWait, Linking
<1>2. /\ CallInv(t) /\ LinkInv(t) /\ DOMAIN call = Tasks /\ k \in 1..N(t) /\ N(t) \in Nat
      /\ call[t] \in CallRecords
  BY <1>1, Facts DEF CallInv
<1>3. p \in {"detach", "attach", "arm"} /\ (p # "detach" => stays)
  OBVIOUS
<1> HIDE DEF p, kn
<1>4. /\ call'[t].pc = p /\ call'[t].kind = call[t].kind /\ call'[t].br = call[t].br
      /\ \A u \in Tasks \ {t} : call'[u] = call[u]
  BY <1>1, <1>2 DEF CallRecords
<1>5. p \in InWait
  BY <1>3 DEF InWait, Linking
<1>6. ASSUME NEW b \in Branches, Committed(t, b)' PROVE Committed(t, b) \/ MustWait(t, b)
  <2>1. PICK i \in DOMAIN call[t].br :
          call[t].br[i] = b /\ <<t, i>> \in InList(list[b]) /\ winner[t] = 0
    BY <1>1, <1>4, <1>6 DEF Committed, Linked
  <2>2. p # "detach"
    BY <1>4, <1>6 DEF Committed
  <2>3. i \in Nat /\ i <= k
    BY <1>1, <1>2, <2>1, BranchesOf DEF LinkInv, MayBeLinked
  <2>4. CASE i = k
    BY <1>3, <2>1, <2>2, <2>4 DEF Branch
  <2>5. CASE i < k
    BY <1>1, <2>1, <2>5 DEF Committed, Linked
  <2> QED
    BY <1>2, <2>3, <2>4, <2>5
<1>7. HookInv(t)'
  BY <1>3, <1>4 DEF HookInv
<1> QED
  BY <1>1, <1>4, <1>5, <1>6, <1>7, WaitSafe DEF runtime

\* No wait: the nodes are unlinked one after the other.
LEMMA DetachSafe == ASSUME IInv, SInv, NEW t \in Tasks, Detach(t) PROVE SInv'
<1> DEFINE k == call[t].k
<1>1. /\ Runs(t) /\ call[t].pc = "detach" /\ call[t].pc \in InWait /\ list' = Unlinked(t, k)
      /\ UNCHANGED <<prog, queue_, closed_, token, ready, cancel_fn, requested, kick, timer>>
  BY DEF Detach, Waits, InWait, Linking
<1>2. /\ CallInv(t) /\ TokenInv(t) /\ Types /\ DOMAIN call = Tasks /\ k \in 1..N(t)
      /\ winner \in [Tasks -> Nat \cup {Cancelled}]
  BY <1>1, Facts
<1>3. \A u \in Tasks : \A d \in Branches : \A j \in Nat :
        <<u, j>> \in InList(list'[d]) => <<u, j>> \in InList(list[d])
  BY <1>1, <1>2, OthersLinked
<1>4. PICK p \in {"detach", "poll", "parked"}, kn \in Nat :
        /\ Moved(t, p, kn) /\ winner' = winner
        /\ p = "poll" => winner[t] = 0
        /\ p = "parked" => winner[t] # 0
  <2>1. CASE k < N(t)
    <3>1. call' = [call EXCEPT ![t].k = @ + 1] /\ winner' = winner
      BY <2>1 DEF Detach
    <3>2. Moved(t, "detach", k + 1)
      BY <1>1, <1>2, <3>1, AdvanceMoved
    <3>3. k + 1 \in Nat
      BY <1>2
    <3> QED
      BY <3>1, <3>2, <3>3
  <2>2. CASE ~(k < N(t)) /\ winner[t] = 0
    <3>1. call' = [call EXCEPT ![t].pc = "poll", ![t].k = 1] /\ winner' = [winner EXCEPT ![t] = 0]
      BY <2>2 DEF Detach, Again
    <3>2. Moved(t, "poll", 1)
      BY <1>1, <1>2, <3>1, JumpMoved DEF Points, Busy
    <3> QED
      BY <1>2, <2>2, <3>1, <3>2
  <2>3. CASE ~(k < N(t)) /\ winner[t] # 0
    <3>1. Parks(t) /\ winner' = winner
      BY <2>3 DEF Detach
    <3>2. Moved(t, "parked", 1)
      BY <1>1, <1>2, <3>1, ParkEffect
    <3> QED
      BY <2>3, <3>1, <3>2
  <2> QED
    BY <2>1, <2>2, <2>3
<1>5. /\ call'[t].pc = p /\ call'[t].kind = call[t].kind /\ call'[t].br = call[t].br
      /\ \A u \in Tasks \ {t} : call'[u] = call[u]
  BY <1>4 DEF Moved
<1>6. \A b \in Branches : ~Committed(t, b)'
  BY <1>4, <1>5 DEF Committed
<1>7. HookInv(t)'
  BY <1>4, <1>5 DEF HookInv
<1>8. (winner'[t] = winner[t] /\ call'[t].pc \in InWait) \/ winner[t] \in {0, Cancelled}
  BY <1>4, <1>5 DEF InWait, Linking
<1> QED
  BY <1>1, <1>3, <1>4, <1>5, <1>6, <1>7, <1>8, WaitSafe

\* The hook is armed before the call suspends.
LEMMA ArmCancelSafe == ASSUME IInv, SInv, NEW t \in Tasks, ArmCancel(t) PROVE SInv'
<1>1. /\ Runs(t) /\ call[t].pc = "arm" /\ call[t].pc \in InWait
      /\ cancel_fn' = [cancel_fn EXCEPT ![t] = TRUE]
      /\ UNCHANGED <<prog, queue_, closed_, token, ready, requested, kick, list, timer, winner>>
  BY DEF ArmCancel, Waits, InWait, Linking
<1>2. /\ CallInv(t) /\ Types /\ DOMAIN call = Tasks /\ cancel_fn \in [Tasks -> BOOLEAN]
  BY <1>1, Facts
<1>3. PICK p \in {"withdraw", "parked"}, kn \in Nat :
        Moved(t, p, kn) /\ (p = "parked" => ~requested[t])
  <2>1. CASE requested[t]
    <3>1. Moved(t, "withdraw", call[t].k)
      BY <1>1, <1>2, <2>1, GotoMoved DEF ArmCancel, Points, Linking
    <3>2. call[t].k \in Nat
      BY <1>1, Facts
    <3> QED
      BY <3>1, <3>2
  <2>2. CASE ~requested[t]
    <3>1. Moved(t, "parked", 1)
      BY <1>1, <1>2, <2>2, ParkEffect DEF ArmCancel
    <3> QED
      BY <2>2, <3>1
  <2> QED
    BY <2>1, <2>2
<1>4. /\ call'[t].pc = p /\ call'[t].kind = call[t].kind /\ call'[t].br = call[t].br
      /\ \A u \in Tasks \ {t} : call'[u] = call[u]
  BY <1>3 DEF Moved
<1>5. cancel_fn'[t] /\ \A u \in Tasks \ {t} : cancel_fn'[u] = cancel_fn[u]
  BY <1>1, <1>2
<1>6. ASSUME NEW b \in Branches, Committed(t, b)' PROVE Committed(t, b)
  BY <1>1, <1>4, <1>6 DEF Committed, Linked
<1>7. HookInv(t)'
  BY <1>1, <1>3, <1>4, <1>5 DEF HookInv
<1>8. call'[t].pc \in InWait
  BY <1>4 DEF InWait, Linking
<1> QED
  BY <1>1, <1>4, <1>5, <1>6, <1>7, <1>8, WaitSafe

\* A cancelled call claims its own wait.
LEMMA WithdrawSelfSafe == ASSUME IInv, SInv, NEW t \in Tasks, WithdrawSelf(t) PROVE SInv'
<1>1. /\ Runs(t) /\ call[t].pc = "withdraw" /\ call[t].pc \in InWait /\ call[t].pc # "idle"
      /\ list' = IF call[t].kind \notin Selects THEN Unlinked(t, 1) ELSE list
      /\ UNCHANGED <<prog, queue_, closed_, token, ready, requested, kick, timer>>
  BY DEF WithdrawSelf, Waits, InWait, Linking
<1>2. /\ CallInv(t) /\ Types /\ DOMAIN call = Tasks /\ cancel_fn \in [Tasks -> BOOLEAN]
      /\ winner \in [Tasks -> Nat \cup {Cancelled}]
  BY <1>1, Facts
<1>3. \A u \in Tasks : \A d \in Branches : \A j \in Nat :
        <<u, j>> \in InList(list'[d]) => <<u, j>> \in InList(list[d])
  BY <1>1, MaybeUnlinked
<1>4. /\ \A u \in Tasks \ {t} : winner'[u] = winner[u] /\ cancel_fn'[u] = cancel_fn[u]
      /\ winner'[t] # 0
      /\ Moved(t, "leave", 1) \/ Moved(t, "parked", 1)
      /\ winner'[t] = winner[t] \/ winner[t] = 0
  <2>1. CASE winner[t] = 0
    <3>1. /\ winner' = [winner EXCEPT ![t] = Cancelled] /\ cancel_fn' = [cancel_fn EXCEPT ![t] = FALSE]
          /\ call' = [call EXCEPT ![t].pc = "leave", ![t].k = 1]
      BY <2>1 DEF WithdrawSelf
    <3>2. Moved(t, "leave", 1)
      BY <1>1, <1>2, <3>1, JumpMoved DEF Points
    <3> QED
      BY <1>2, <2>1, <3>1, <3>2 DEF Cancelled
  <2>2. CASE winner[t] # 0
    <3>1. Parks(t) /\ UNCHANGED <<winner, cancel_fn>>
      BY <2>2 DEF WithdrawSelf
    <3>2. Moved(t, "parked", 1)
      BY <1>1, <1>2, <3>1, ParkEffect
    <3> QED
      BY <2>2, <3>1, <3>2
  <2> QED
    BY <2>1, <2>2
<1>5. /\ call'[t].pc \in InWait /\ call'[t].kind = call[t].kind /\ call'[t].br = call[t].br
      /\ \A u \in Tasks \ {t} : call'[u] = call[u]
  BY <1>4 DEF Moved, InWait, Linking
<1>6. \A b \in Branches : ~Committed(t, b)'
  BY <1>4 DEF Committed
<1>7. HookInv(t)'
  BY <1>4 DEF HookInv
<1> QED
  BY <1>1, <1>3, <1>4, <1>5, <1>6, <1>7, WaitSafe

\* The side at which a waiting call was woken belongs to it alone if it has others.
LEMMA AloneThere ==
  ASSUME IInv, SInv, Uncontended, NEW t \in Tasks, call[t].pc \in InWait, N(t) > 1,
         NEW b \in Sides, b \in InList(call[t].br), NEW u \in Tasks \ {t}
  PROVE  ~Committed(u, b)
<1> SUFFICES ASSUME Committed(u, b) PROVE FALSE
  OBVIOUS
<1>1. call[u].pc \in InWait /\ b \in InList(call[u].br)
  BY CommittedAt
<1>2. "idle" \notin InWait
  BY DEF InWait, Linking
<1>3. PICK o \in prog[t] : o.br = call[t].br /\ MayWait(o)
  BY <1>2 DEF SInv, OpInv, MayWait
<1>4. PICK r \in prog[u] : r.br = call[u].br /\ MayWait(r)
  BY <1>1, <1>2 DEF SInv, OpInv, MayWait
<1>5. prog \in Programs
  BY DEF IInv, Types
<1>6. InList(o.br) \cap InList(r.br) \cap Sides = {}
  BY <1>3, <1>4, <1>5 DEF Uncontended, Sides, N
<1> QED
  BY <1>1, <1>3, <1>4, <1>6

\* on_cancel() waits at no channel.
LEMMA TokenOnly ==
  ASSUME IInv, SInv, NEW t \in Tasks, call[t].pc # "idle", call[t].kind = "on_cancel", NEW b \in Sides
  PROVE  b \notin InList(call[t].br)
<1>1. PICK o \in prog[t] : o.br = call[t].br /\ o.kind = "on_cancel"
  BY DEF SInv, OpInv
<1>2. InList(o.br) \subseteq {<<Token, "cancel">>}
  BY <1>1, ProgramsAssumption DEF IInv, Types
<1> QED
  BY <1>1, <1>2, SideBranches

\* await_resume(): the nodes are unlinked one after the other; a call that was woken
\* polls the side again, and one with several sides leaves nobody behind there.
LEMMA LeaveSafe == ASSUME IInv, SInv, Uncontended, NEW t \in Tasks, Leave(t) PROVE SInv'
<1> DEFINE k == call[t].k
<1>1. /\ call[t].pc = "leave" /\ call[t].pc \in InWait /\ list' = Unlinked(t, k)
      /\ UNCHANGED <<prog, queue_, closed_, token, runtime, timer>>
  BY DEF Leave, Waits, InWait, Linking
<1>2. /\ CallInv(t) /\ TokenInv(t) /\ Types /\ DOMAIN call = Tasks /\ k \in 1..N(t)
      /\ N(t) \in Nat \ {0} /\ winner \in [Tasks -> Nat \cup {Cancelled}]
  BY <1>1, Facts
<1>3. \A u \in Tasks : \A d \in Branches : \A j \in Nat :
        <<u, j>> \in InList(list'[d]) => <<u, j>> \in InList(list[d])
  <2> HIDE DEF k
  <2> QED
    BY <1>1, <1>2, OthersLinked
<1>4. /\ \E p \in {"leave", "finish", "poll"} : \E kn \in 1..N(t) :
           Moved(t, p, kn) /\ (p = "poll" => kn = 1)
      /\ \A u \in Tasks \ {t} : winner'[u] = winner[u]
      /\ \/ winner'[t] = winner[t] /\ call'[t].pc \in InWait
         \/ winner[t] = Cancelled
         \/ call[t].kind = "on_cancel"
         \/ call'[t].pc = "poll"
  <2>1. CASE k < N(t)
    <3>1. call' = [call EXCEPT ![t].k = @ + 1] /\ winner' = winner
      BY <1>2, <2>1 DEF Leave
    <3>2. Moved(t, "leave", k + 1)
      BY <1>1, <1>2, <3>1, AdvanceMoved
    <3>3. call'[t].pc \in InWait
      BY <3>2 DEF Moved, InWait
    <3>4. k + 1 \in 1..N(t)
      BY <1>2, <2>1
    <3> QED
      BY <3>1, <3>2, <3>3, <3>4
  <2>2. CASE k = N(t)
    <3>1. winner' = [winner EXCEPT ![t] = 0]
      BY <1>2, <2>2 DEF Leave, Again
    <3>2. /\ \/ Completed(t, "cancelled") \/ Completed(t, "fired") \/ Completed(t, "failed")
             \/ call' = [call EXCEPT ![t].pc = "poll", ![t].k = 1]
          /\ \/ winner[t] = Cancelled \/ call[t].kind = "on_cancel"
             \/ call' = [call EXCEPT ![t].pc = "poll", ![t].k = 1]
      BY <1>2, <2>2 DEF Leave, Again
    <3>3. Moved(t, "finish", k) \/ Moved(t, "poll", 1)
      <4>1. "poll" \in Points
        BY DEF Points, Busy
      <4> QED
        BY <1>1, <1>2, <3>2, <4>1, CompletedMoved, JumpMoved
    <3>4. winner[t] = Cancelled \/ call[t].kind = "on_cancel" \/ call'[t].pc = "poll"
      <4>1. CASE call' = [call EXCEPT ![t].pc = "poll", ![t].k = 1]
        BY <1>2, <4>1 DEF CallInv, CallRecords
      <4> QED
        BY <3>2, <4>1
    <3>5. \A u \in Tasks \ {t} : winner'[u] = winner[u]
      BY <1>2, <3>1
    <3> QED
      BY <1>2, <3>3, <3>4, <3>5
  <2> QED
    BY <1>2, <2>1, <2>2
<1>5. PICK p \in {"leave", "finish", "poll"}, kn \in 1..N(t) :
        Moved(t, p, kn) /\ (p = "poll" => kn = 1)
  BY <1>4
<1>6. /\ call'[t].pc = p /\ call'[t].kind = call[t].kind /\ call'[t].br = call[t].br
      /\ call'[t].k = kn /\ call'[t].start = call[t].start
      /\ \A u \in Tasks \ {t} : call'[u] = call[u]
  BY <1>5 DEF Moved
<1>7. \A b \in Branches : ~Committed(t, b)'
  BY <1>6 DEF Committed
<1>8. HookInv(t)'
  BY <1>6 DEF HookInv
<1>9. \A u \in Tasks \ {t} :
         /\ call'[u] = call[u] /\ winner'[u] = winner[u] /\ requested'[u] = requested[u]
         /\ kick'[u] = kick[u] /\ cancel_fn'[u] = cancel_fn[u] /\ timer'[u] = timer[u]
  BY <1>1, <1>4, <1>6 DEF runtime
<1>10. ASSUME NEW b \in Sides, t \in OnItsWay(b), call[t].kind = "on_cancel"
       PROVE  FALSE
  <2>1. winner[t] \in 1..N(t) /\ call[t].br[winner[t]] = b
    BY <1>1, <1>10, UnclaimedOffWay
  <2>2. b \in InList(call[t].br)
    BY <2>1 DEF InList, N
  <2> QED
    BY <1>1, <1>10, <2>2, TokenOnly
<1>11. ASSUME NEW b \in Sides, t \in OnItsWay(b), call'[t].pc = "poll"
       PROVE  t \in OnItsWay(b)' \/ \A u \in Tasks : ~Committed(u, b)'
  <2>1. winner[t] \in 1..N(t) /\ call[t].br[winner[t]] = b
    BY <1>1, <1>11, UnclaimedOffWay
  <2>2. b \in InList(call[t].br) /\ b \in Branches
    BY <2>1, SideBranches DEF InList, N
  <2>3. CASE N(t) = 1
    <3>1. N(t)' = N(t)
      BY <1>6 DEF N
    <3>2. p = "poll" /\ kn = 1
      BY <1>5, <1>6, <1>11
    <3>3. call[t].start = 1
      BY <1>1, <1>2, <2>3 DEF CallInv
    <3>4. winner[t] = 1
      BY <2>1, <2>3
    <3>5. call'[t].k = 1 /\ call'[t].start = 1
      BY <1>6, <3>2, <3>3
    <3>6. Polled(t)' = 1
      BY <2>3, <3>1, <3>5 DEF Polled
    <3> QED
      BY <1>6, <1>11, <2>1, <3>4, <3>6 DEF OnItsWay
  <2>4. CASE N(t) > 1
    <3>1. \A u \in Tasks \ {t} : ~Committed(u, b)
      BY <1>1, <2>2, <2>4, AloneThere
    <3>2. \A u \in Tasks \ {t} : Kept(u)
      BY <1>3, <1>9 DEF Kept
    <3>3. \A u \in Tasks \ {t} : ~Committed(u, b)'
      BY <3>1, <3>2, CommittedKept
    <3> QED
      BY <1>7, <2>2, <3>3
  <2> QED
    BY <1>2, <2>3, <2>4
<1>12. \/ winner'[t] = winner[t] /\ call'[t].pc \in InWait
       \/ winner[t] \in {0, Cancelled}
       \/ \A b \in Sides : t \in OnItsWay(b) =>
            t \in OnItsWay(b)' \/ \A u \in Tasks : ~Committed(u, b)'
  BY <1>4, <1>10, <1>11
<1> HIDE DEF k
<1> QED
  BY <1>1, <1>3, <1>6, <1>7, <1>8, <1>9, <1>12, WaitSafe

\* A coroutine whose call and word a step leaves alone is on its way as before.
LEMMA SameWay ==
  ASSUME NEW t \in Tasks, call'[t] = call[t], winner'[t] = winner[t] \/ call[t].pc = "idle",
         NEW b, t \in OnItsWay(b)
  PROVE  t \in OnItsWay(b)'
<1>1. "idle" \notin InWait
  BY DEF InWait, Linking
<1> QED
  BY <1>1 DEF OnItsWay, Branch, Polled, N

\* A resumption begins a wait's end, or a coroutine's next call.
LEMMA ResumeSafe == ASSUME IInv, SInv, NEW t \in Tasks, Resume(t) PROVE SInv'
<1>1. /\ LoopResume(t)
      /\ call' = IF call[t].pc = "parked" THEN [call EXCEPT ![t].pc = "leave", ![t].k = 1] ELSE call
      /\ UNCHANGED <<requested, kick, prog, queue_, closed_, token, list, timer, winner>>
  BY DEF Resume
<1>2. Types /\ RuntimeTypeOK /\ DOMAIN call = Tasks /\ CallInv(t) /\ TokenInv(t)
  BY DEF IInv, Types, TaskInv
<1>3. /\ ready[t] > 0 /\ ~Runs(t) /\ \A u \in Tasks \ {t} : cancel_fn'[u] = cancel_fn[u]
  BY <1>1, <1>2, LoopResumeEffect DEF LoopResume, RuntimeTypeOK
<1>4. CASE call[t].pc = "parked"
  <2>1. call' = [call EXCEPT ![t].pc = "leave", ![t].k = 1]
    BY <1>1, <1>4
  <2>2. Moved(t, "leave", 1)
    BY <1>2, <1>4, <2>1, JumpMoved DEF Points
  <2>3. /\ call'[t].pc = "leave" /\ call'[t].kind = call[t].kind /\ call'[t].br = call[t].br
        /\ \A u \in Tasks \ {t} : call'[u] = call[u]
    BY <2>2 DEF Moved
  <2>4. call[t].pc \in InWait /\ call'[t].pc \in InWait
    BY <1>4, <2>3 DEF InWait
  <2>5. HookInv(t)' /\ \A b \in Branches : ~Committed(t, b)'
    BY <2>3 DEF HookInv, Committed
  <2> QED
    BY <1>1, <1>3, <2>3, <2>4, <2>5, WaitSafe
<1>5. CASE call[t].pc # "parked"
  <2>1. call' = call
    BY <1>1, <1>5
  <2>2. OpInv(t)' /\ HookInv(t)'
    BY <1>1, <1>5, <2>1 DEF SInv, OpInv, HookInv
  <2>3. \A u \in Tasks : Kept(u)
    BY <1>1, <2>1 DEF Kept
  <2>4. \A b \in Branches : Committed(t, b)' => Committed(t, b)
    BY <2>3, CommittedKept
  <2>5. \A b \in Sides : t \in OnItsWay(b) => t \in OnItsWay(b)'
    BY <1>1, <2>1, SameWay
  <2> QED
    BY <1>1, <1>3, <2>1, <2>2, <2>3, <2>4, <2>5, OwnStep
<1> QED
  BY <1>4, <1>5

\* The kick reaches the hook: it claims the call, or someone else has.
LEMMA OnCancelSafe == ASSUME IInv, SInv, NEW t \in Tasks, OnCancel(t) PROVE SInv'
<1>1. /\ TakeKick(t) /\ call' = call
      /\ UNCHANGED <<prog, queue_, closed_, token, timer>>
  BY DEF OnCancel
<1>2. /\ Types /\ RuntimeTypeOK /\ DOMAIN call = Tasks /\ TokenInv(t)
      /\ winner \in [Tasks -> Nat \cup {Cancelled}]
  BY DEF IInv, Types, TaskInv
<1>3. /\ ~Runs(t) /\ requested' = requested
      /\ \A u \in Tasks \ {t} : cancel_fn'[u] = cancel_fn[u] /\ kick'[u] = kick[u]
  BY <1>1, <1>2, NoneAssumption DEF TakeKick, Idle, Runs, RuntimeTypeOK
<1>4. CASE cancel_fn[t] /\ winner[t] = 0
  <2>1. /\ winner' = [winner EXCEPT ![t] = Cancelled]
        /\ list' = IF call[t].kind \notin Selects THEN Unlinked(t, 1) ELSE list
    BY <1>4 DEF OnCancel
  <2>2. call[t].pc = "parked" /\ call[t].pc \in InWait
    BY <1>2, <1>3, <1>4 DEF TokenInv, Linking, InWait
  <2>3. \A u \in Tasks : \A d \in Branches : \A j \in Nat :
          <<u, j>> \in InList(list'[d]) => <<u, j>> \in InList(list[d])
    BY <2>1, <2>2, MaybeUnlinked
  <2>4. winner'[t] # 0 /\ \A u \in Tasks \ {t} : winner'[u] = winner[u]
    BY <1>2, <2>1 DEF Cancelled
  <2>5. HookInv(t)' /\ \A b \in Branches : ~Committed(t, b)'
    BY <2>4 DEF HookInv, Committed
  <2> QED
    BY <1>1, <1>3, <1>4, <2>2, <2>3, <2>4, <2>5, WaitSafe
<1>5. CASE ~(cancel_fn[t] /\ winner[t] = 0)
  <2>1. UNCHANGED <<winner, list>>
    BY <1>5 DEF OnCancel
  <2>2. OpInv(t)'
    BY <1>1 DEF SInv, OpInv
  <2>3. HookInv(t)'
    BY <1>1, <1>5, <2>1 DEF SInv, HookInv
  <2>4. \A u \in Tasks : Kept(u)
    BY <1>1, <2>1 DEF Kept
  <2>5. \A b \in Branches : Committed(t, b)' => Committed(t, b)
    BY <2>4, CommittedKept
  <2>6. \A b \in Sides : t \in OnItsWay(b) => t \in OnItsWay(b)'
    BY <1>1, <2>1, SameWay
  <2> QED
    BY <1>1, <1>3, <2>1, <2>2, <2>3, <2>4, <2>5, <2>6, OwnStep
<1> QED
  BY <1>4, <1>5

\* A cancellation request and the push of its kick.
LEMMA CancelSafe == ASSUME IInv, SInv, NEW t \in Tasks, Cancel(t) PROVE SInv'
<1>1. /\ UNCHANGED <<prog, queue_, closed_, token, list, timer, call, winner>>
      /\ UNCHANGED <<running, ready, cancel_fn>>
  BY DEF Cancel, chanvars, RequestCancel, PushKick
<1>2. /\ requested \in [Tasks -> BOOLEAN] /\ kick \in [Tasks -> {"none", "due", "queued"}]
  BY DEF IInv, Types, RuntimeTypeOK
<1>3. /\ kick'[t] # "none"
      /\ \A u \in Tasks \ {t} : requested'[u] = requested[u] /\ kick'[u] = kick[u]
  BY <1>2 DEF Cancel, RequestCancel, PushKick
<1>4. OpInv(t)' /\ HookInv(t)'
  BY <1>1, <1>3 DEF SInv, OpInv, HookInv
<1>5. \A u \in Tasks : Kept(u)
  BY <1>1 DEF Kept
<1>6. \A b \in Branches : Committed(t, b)' => Committed(t, b)
  BY <1>5, CommittedKept
<1>7. \A b \in Sides : t \in OnItsWay(b) => t \in OnItsWay(b)'
  BY <1>1, SameWay
<1> QED
  BY <1>1, <1>3, <1>4, <1>5, <1>6, <1>7, OwnStep

\* A stutter.
LEMMA StutterSafe == ASSUME SInv, UNCHANGED vars PROVE SInv'
<1>1. UNCHANGED <<running, ready, cancel_fn, requested, kick, prog, queue_, closed_, token, list,
                  timer, call, winner>>
  BY DEF vars, runtime, chanvars
<1>2. \A b : \A t \in Tasks : Committed(t, b)' <=> Committed(t, b)
  BY <1>1 DEF Committed, Linked
<1>3. \A t \in Tasks : OpInv(t)' /\ HookInv(t)' /\ SleepInv(t)'
  BY <1>1, <1>2 DEF SInv, OpInv, HookInv, SleepInv
<1>4. \A b \in Sides \cup {<<Token, "cancel">>} : EndingInv(b)'
  BY <1>1, <1>2 DEF SInv, EndingInv, Over, Ending, Branch
<1>5. \A b \in Sides : StockInv(b)'
  <2>1. \A b : OnItsWay(b)' = OnItsWay(b) /\ Stock(b)' = Stock(b)
    BY <1>1 DEF OnItsWay, Branch, Polled, N, Stock
  <2> QED
    BY <1>1, <1>2, <2>1 DEF SInv, StockInv
<1> QED
  BY <1>3, <1>4, <1>5 DEF SInv

\* Nobody waits initially.
LEMMA InitSInv == Init => SInv
<1> SUFFICES ASSUME Init PROVE SInv
  OBVIOUS
<1>1. \A t \in Tasks : call[t].pc = "idle"
  BY DEF Init, NoCall
<1>2. \A t \in Tasks : \A b : ~Committed(t, b)
  BY <1>1 DEF Committed
<1> QED
  BY <1>1, <1>2 DEF SInv, OpInv, HookInv, SleepInv, EndingInv, StockInv

\* Every step.
LEMMA NextSInv == ASSUME IInv, SInv, Uncontended, [Next]_vars PROVE SInv'
<1>1. CASE UNCHANGED vars
  BY <1>1, StutterSafe
<1>2. ASSUME NEW t \in Tasks, Polling(t) PROVE SInv'
  BY <1>2, StartSafe, PollRecvSafe, RecvEndedSafe, PollSendSafe, SendCheckedSafe, EnqueueSafe,
     PollFlagSafe, SelectDrainedSafe, WakeOneWaiterSafe, CloseSafe, WakeAllWaitersSafe,
     RequestTokenSafe, WakeTokenSafe, FinishSafe DEF Polling
<1>3. ASSUME NEW t \in Tasks, Waiting(t) PROVE SInv'
  BY <1>3, CheckCancelSafe, AttachSafe, RecheckSafe, DetachSafe, ArmCancelSafe,
     WithdrawSelfSafe, LeaveSafe DEF Waiting
<1>4. ASSUME NEW t \in Tasks, Looping(t) \/ Cancel(t) PROVE SInv'
  BY <1>4, ResumeSafe, OnCancelSafe, OnFireSafe, CancelSafe DEF Looping
<1> QED
  BY <1>1, <1>2, <1>3, <1>4 DEF Next

\* A coroutine on its way to a side watches it.
LEMMA WayWatches ==
  ASSUME IInv, NEW b \in Sides, NEW u \in OnItsWay(b)
  PROVE  Watching(u, b)
<1>1. u \in Tasks /\ CallInv(u) /\ call[u].br \in Seq(Branches)
  BY BranchesOf DEF OnItsWay, IInv, TaskInv
<1>2. CASE call[u].pc = "notify" /\ Other(Branch(u)) = b
  BY <1>2 DEF Watching
<1>3. CASE call[u].pc \in {"poll", "send", "enqueue"} /\ call[u].br[Polled(u)] = b
  <2>1. Polled(u) \in 1..N(u)
    BY <1>1, <1>3, PolledIn DEF CallInv
  <2>2. b \in InList(call[u].br)
    BY <1>3, <2>1 DEF InList, N
  <2> QED
    BY <1>3, <2>2 DEF Watching
<1>4. CASE call[u].pc \in InWait /\ winner[u] \in DOMAIN call[u].br /\ call[u].br[winner[u]] = b
  <2>1. winner[u] \in 1..N(u)
    BY <1>1, <1>4 DEF N
  <2>2. b \in InList(call[u].br) /\ winner[u] > 0
    BY <1>1, <1>4, <2>1 DEF InList, N
  <2> QED
    BY <1>4, <2>2 DEF Watching, InWait, Linking
<1> QED
  BY <1>2, <1>3, <1>4 DEF OnItsWay

\* The invariant implies the property of the run.
LEMMA SInvStranded == IInv /\ SInv => NobodyStranded
<1> SUFFICES ASSUME IInv, SInv PROVE NobodyStranded
  OBVIOUS
<1>1. ASSUME NEW b \in Branches, NEW t \in Tasks, Committed(t, b), ~MustWait(t, b)
      PROVE  \E u \in Tasks \ {t} : Watching(u, b)
  <2>1. /\ call[t].pc \in {"arm", "withdraw", "parked", "attach", "recheck"} /\ winner[t] = 0
        /\ \E i \in DOMAIN call[t].br : call[t].br[i] = b
    BY <1>1, CommittedAt
  <2>2. CASE b \in Tasks \X {"sleep"}
    <3>1. b = <<t, "sleep">>
      BY <2>1, <2>2, OwnSleep
    <3>2. timer[t] # "fired"
      BY <1>1, <3>1 DEF SInv, SleepInv
    <3> QED
      BY <1>1, <3>1, <3>2 DEF MustWait
  <2>3. CASE b \in Sides \cup {<<Token, "cancel">>} /\ Over(b)
    <3>1. PICK v \in Tasks : Ending(v, b)
      BY <1>1, <2>3 DEF SInv, EndingInv
    <3>2. v # t
      BY <2>1, <3>1 DEF Ending
    <3>3. Watching(v, b)
      BY <3>1 DEF Ending, Watching
    <3> QED
      BY <3>2, <3>3
  <2>4. CASE b = <<Token, "cancel">> /\ ~Over(b)
    <3>1. ~token
      BY <2>4, SideBranches DEF Over
    <3> QED
      BY <1>1, <2>4, <3>1 DEF MustWait
  <2>5. CASE b \in Sides /\ ~Over(b)
    <3>1. ~closed_[b[1]] /\ b[1] \in Chans /\ b[2] \in {"recv", "send"}
      BY <2>5 DEF Over, Sides
    <3>2. (b[2] = "send" => b[1] \notin Unbounded) /\ Stock(b) <= Cardinality(OnItsWay(b))
      BY <1>1, <2>5, <3>1 DEF SInv, StockInv
    <3>3. Stock(b) >= 1
      <4>1. queue_[b[1]] \in Seq(Nat) /\ Capacity \in Nat
        BY <3>1, ChannelAssumption DEF IInv, Types
      <4>2. CASE b[2] = "recv"
        BY <1>1, <3>1, <4>1, <4>2 DEF MustWait, Stock
      <4>3. CASE b[2] = "send"
        BY <1>1, <3>1, <3>2, <4>1, <4>3 DEF MustWait, Stock, Full
      <4> QED
        BY <3>1, <4>2, <4>3
    <3>4. OnItsWay(b) # {}
      <4>1. Cardinality({}) = 0 /\ Stock(b) \in Int
        BY <2>5, FS_EmptySet, StockCounted
      <4> QED
        BY <3>2, <3>3, <4>1
    <3>5. PICK u \in OnItsWay(b) : TRUE
      BY <3>4
    <3>6. u # t
      <4>1. t \notin OnItsWay(b)
        BY <2>1, BranchesOf DEF OnItsWay, InWait, Linking
      <4> QED
        BY <3>5, <4>1
    <3>7. u \in Tasks /\ Watching(u, b)
      BY <2>5, <3>5, WayWatches DEF OnItsWay
    <3> QED
      BY <3>6, <3>7
  <2> QED
    BY <2>2, <2>3, <2>4, <2>5 DEF Branches, Sides
<1>2. ASSUME NEW t \in Tasks, call[t].pc = "parked", requested[t], winner[t] = 0
      PROVE  kick[t] # "none" /\ cancel_fn[t]
  BY <1>2 DEF SInv, HookInv
<1> QED
  BY <1>1, <1>2 DEF NobodyStranded

\* In programs that do not contend for the channels of a select, nobody is left
\* waiting for what has happened: ChannelRecvOp, ChannelSendOp and the selects
\* (AsyncChannel.h, Select.h) look again after they have linked, and each value or
\* place has a coroutine on its way to take it, which looks again or wakes the next.
THEOREM NobodyIsLeftWaiting == ASSUME Uncontended PROVE Spec => []NobodyStranded
<1>1. IInv /\ SInv /\ [Next]_vars => (IInv /\ SInv)'
  BY NextIInv, NextSInv
<1>2. Init => IInv /\ SInv
  BY InitIInv, InitSInv
<1>3. IInv /\ SInv => NobodyStranded
  BY SInvStranded
<1> QED
  BY <1>1, <1>2, <1>3, PTL DEF Spec
=============================================================================
