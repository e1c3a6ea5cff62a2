------------------------ MODULE WaitPrimitivesProofs ------------------------
(***************************************************************************)
(* The semaphore, the event and the wait group, for any number of          *)
(* coroutines, workers, permits and pieces of work.                        *)
(*                                                                         *)
(* The three share the waiting and the waking, so the invariant has a part *)
(* about OpWait that knows nothing of the condition: where the one right   *)
(* to resume a waiter is.  On top of it each primitive needs why a waiter  *)
(* that is left alone need not be woken.  A coroutine still looking at the *)
(* condition may be linked, and a waker that pops it adds nobody new to    *)
(* those on their way; so wake-ups are counted by who was woken, not by    *)
(* who is looking.                                                         *)
(***************************************************************************)
EXTENDS WaitPrimitives, WaitListProofs, FiniteSetTheorems

Points == WaitPoints \cup {"notify", "wake"}

\* Where a node may be linked.
Parking == Attached \cup {"parked"}

\* Where a coroutine executes with no node.
Busy == {"try", "check", "attach", "notify", "wake"}

\* A coroutine between two suspension points runs, and only then; its node is
\* unclaimed before it is linked, and cancelled only once it was suspended.
\* The right to resume a waiter is in one place: its node is linked and nobody
\* has claimed it, or it was claimed and its handle is queued.
TaskInv(t) ==
  /\ pc[t] \in Busy => Runs(t) /\ ready[t] = 0
  /\ pc[t] = "idle" => ready[t] = IF Runs(t) THEN 0 ELSE 1
  /\ pc[t] \in Attached => Runs(t) /\ own[t] # "cancelled"
  /\ pc[t] = "parked" => ~Runs(t)
  /\ pc[t] \notin Parking => own[t] = "none"
  /\ t \in InList(waiters_) => pc[t] \in Parking /\ own[t] = "none" /\ ready[t] = 0
  /\ pc[t] \in Parking /\ t \notin InList(waiters_) => own[t] # "none" /\ ready[t] = 1

WaitInv ==
  /\ WaitTypeOK(Points)
  /\ Distinct(waiters_)
  /\ \A t \in Tasks : TaskInv(t)

\* Woken, and not yet back at the condition.
Woken(t) == pc[t] = "try" \/ own[t] = "fired"

WokenTasks == {t \in Tasks : Woken(t)}

\* A free permit that a waiter depends on has its own woken coroutine, or its
\* own wake-up that a release() still owes.
PermitInv ==
  /\ PermitsConserved
  /\ \A t \in Tasks : ~Waking(t) => k[t] = 0
  /\ (\E t \in Tasks : Committed(t)) =>
       count_ <= Cardinality(WokenTasks) + Cardinality(Units(k, Initial))

\* A set flag that a waiter depends on has a set() or a woken coroutine.
SignalInv ==
  set_ /\ (\E t \in Tasks : Committed(t)) =>
    \E u \in Tasks : Waking(u) \/ (reset_ = "Auto" /\ Woken(u))

\* The counter is the work that is open.
WorkInv ==
  /\ cnt_ = Cardinality(Units(owed, MaxWork))
  /\ NoWaiterAtZero

IInv ==
  /\ TypeOK /\ WaitInv
  /\ kind = "semaphore" => PermitInv
  /\ kind = "event" => SignalInv
  /\ kind = "group" => WorkInv

(***************************************************************************)
(* The waiting and the waking                                              *)
(***************************************************************************)

\* A step leaves a coroutine and its node alone.
Unaffected(u) ==
  /\ pc'[u] = pc[u] /\ own'[u] = own[u] /\ ready'[u] = ready[u]
  /\ Runs(u)' <=> Runs(u)
  /\ u \in InList(waiters_') <=> u \in InList(waiters_)

\* A step makes nobody depend on a wake-up and takes none back.
Quiet ==
  \A u \in Tasks :
    (Committed(u)' => Committed(u)) /\ (Waking(u)' <=> Waking(u)) /\ (Woken(u) => Woken(u)')

\* Only coroutines are linked.
LEMMA LinkedAreTasks == ASSUME WaitInv PROVE InList(waiters_) \subseteq Tasks
BY DEF WaitInv, WaitTypeOK, InList

\* What is said of a coroutine outlives the steps that leave it alone.
LEMMA UnaffectedKept ==
  ASSUME NEW u \in Tasks, Unaffected(u)
  PROVE  /\ TaskInv(u) => TaskInv(u)'
         /\ Committed(u)' <=> Committed(u)
         /\ Waking(u)' <=> Waking(u)
         /\ Woken(u)' <=> Woken(u)
<1>1. TaskInv(u) => TaskInv(u)'
  BY DEF Unaffected, TaskInv
<1>2. Committed(u)' <=> Committed(u)
  BY DEF Unaffected, Committed
<1>3. (Waking(u)' <=> Waking(u)) /\ (Woken(u)' <=> Woken(u))
  BY DEF Unaffected, Waking, Woken
<1> QED
  BY <1>1, <1>2, <1>3

\* A step of t alone has only t to account for.
LEMMA LocalStep ==
  ASSUME WaitInv, NEW t \in Tasks, \A u \in Tasks \ {t} : Unaffected(u),
         WaitTypeOK(Points)', Distinct(waiters_'), TaskInv(t)'
  PROVE  WaitInv'
<1>1. \A u \in Tasks \ {t} : TaskInv(u)'
  BY UnaffectedKept DEF WaitInv
<1> QED
  BY <1>1 DEF WaitInv

\* A step of t that neither commits t nor takes its wake-up away is quiet.
LEMMA LocalQuiet ==
  ASSUME NEW t \in Tasks, \A u \in Tasks \ {t} : Unaffected(u),
         Committed(t)' => Committed(t), Waking(t)' <=> Waking(t), Woken(t) => Woken(t)'
  PROVE  Quiet
<1>1. \A u \in Tasks \ {t} : /\ Committed(u)' <=> Committed(u)
                             /\ Waking(u)' <=> Waking(u)
                             /\ Woken(u)' <=> Woken(u)
  BY UnaffectedKept
<1> QED
  BY <1>1 DEF Quiet

\* A coroutine that executes without a node goes on to another such place.
LEMMA JumpStep ==
  ASSUME WaitInv, NEW t \in Tasks, Runs(t), pc[t] \in Busy \cup {"idle"},
         NEW where \in Busy \cup {"idle"}, Goto(t, where),
         UNCHANGED <<runtime, waiters_, own>>
  PROVE  /\ WaitInv'
         /\ \A u \in Tasks \ {t} : Unaffected(u)
         /\ pc'[t] = where /\ own[t] = "none" /\ own' = own
         /\ ~Committed(t) /\ ~Committed(t)'
<1> USE DEF Goto, runtime
<1>1. \A u \in Tasks : Runs(u)' <=> Runs(u)
  BY SameRuns
<1>2. pc' \in [Tasks -> Points] /\ pc'[t] = where /\ \A u \in Tasks \ {t} : pc'[u] = pc[u]
  BY DEF WaitInv, WaitTypeOK, Points, WaitPoints, Busy
<1>3. \A u \in Tasks \ {t} : Unaffected(u)
  BY <1>1, <1>2 DEF Unaffected
<1>4. pc[t] \notin Parking /\ where \notin Parking
  BY DEF Busy, Parking, Attached
<1>5. own[t] = "none" /\ ready[t] = 0 /\ t \notin InList(waiters_)
  <2>1. TaskInv(t)
    BY DEF WaitInv
  <2> QED
    BY <1>4, <2>1 DEF TaskInv
<1>6. WaitTypeOK(Points)'
  BY <1>2 DEF WaitInv, WaitTypeOK, RuntimeTypeOK
<1>7. TaskInv(t)'
  <2>1. where # "parked" /\ where \notin Attached
    BY <1>4 DEF Parking
  <2> QED
    BY <1>1, <1>2, <1>4, <1>5, <2>1 DEF TaskInv
<1>8. WaitInv'
  BY <1>3, <1>6, <1>7, LocalStep DEF WaitInv
<1> QED
  BY <1>2, <1>3, <1>5, <1>8 DEF Committed

\* await_suspend() looks whether the coroutine was cancelled before it waits.
LEMMA CheckCancelStep == ASSUME WaitInv, NEW t \in Tasks, CheckCancel(t) PROVE WaitInv' /\ Quiet
<1> DEFINE where == IF requested[t] THEN "idle" ELSE "attach"
<1>1. /\ Runs(t) /\ pc[t] = "check" /\ Goto(t, where)
      /\ UNCHANGED <<runtime, waiters_, own>>
  BY DEF CheckCancel
<1>2. where \in {"idle", "attach"}
  OBVIOUS
<1> HIDE DEF where
<1>3. /\ WaitInv'
      /\ \A u \in Tasks \ {t} : Unaffected(u)
      /\ pc'[t] = where /\ own[t] = "none" /\ own' = own
      /\ ~Committed(t) /\ ~Committed(t)'
  BY <1>1, <1>2, JumpStep DEF Busy
<1>4. (Waking(t)' <=> Waking(t)) /\ (Woken(t) => Woken(t)')
  BY <1>1, <1>2, <1>3 DEF Waking, Woken
<1> QED
  BY <1>3, <1>4, LocalQuiet

\* attach() links a node that nobody has claimed.
LEMMA AttachStep == ASSUME WaitInv, NEW t \in Tasks, Attach(t) PROVE WaitInv' /\ Quiet
<1> USE DEF Attach, Goto, runtime
<1>0. pc[t] = "attach" /\ own[t] = "none" /\ ready[t] = 0 /\ t \notin InList(waiters_) /\ Runs(t)
  <2>1. TaskInv(t)
    BY DEF WaitInv
  <2> QED
    BY <2>1 DEF TaskInv, Busy, Parking, Attached
<1>1. /\ waiters_' \in Seq(Tasks)
      /\ InList(waiters_') = InList(waiters_) \cup {t}
      /\ Distinct(waiters_')
  BY <1>0, PushLocked DEF WaitInv, WaitTypeOK
<1>2. pc' \in [Tasks -> Points] /\ pc'[t] = "recheck" /\ \A u \in Tasks \ {t} : pc'[u] = pc[u]
  BY DEF WaitInv, WaitTypeOK, Points, WaitPoints, Attached
<1>3. \A u \in Tasks : Runs(u)' <=> Runs(u)
  BY SameRuns
<1>4. \A u \in Tasks \ {t} : Unaffected(u)
  BY <1>1, <1>2, <1>3 DEF Unaffected
<1>5. WaitTypeOK(Points)'
  BY <1>1, <1>2 DEF WaitInv, WaitTypeOK, RuntimeTypeOK
<1>6. TaskInv(t)'
  BY <1>0, <1>1, <1>2, <1>3 DEF TaskInv, Parking, Attached, Busy
<1>7. WaitInv'
  BY <1>1, <1>4, <1>5, <1>6, LocalStep
<1>8. ~Committed(t)' /\ (Waking(t)' <=> Waking(t)) /\ (Woken(t) => Woken(t)')
  BY <1>0, <1>2 DEF Committed, Waking, Woken
<1> QED
  BY <1>4, <1>7, <1>8, LocalQuiet

\* The second look commits a waiter that stays, and wakes nobody.
LEMMA RecheckStep ==
  ASSUME WaitInv, NEW t \in Tasks, NEW stay, Recheck(t, stay)
  PROVE  /\ WaitInv'
         /\ \A u \in Tasks \ {t} : Unaffected(u)
         /\ ~stay => ~Committed(t)'
         /\ Waking(t)' <=> Waking(t)
         /\ Woken(t)' <=> Woken(t)
<1> USE DEF Recheck, Goto, runtime
<1>1. /\ pc' \in [Tasks -> Points] /\ \A u \in Tasks \ {t} : pc'[u] = pc[u]
      /\ pc[t] = "recheck" /\ pc'[t] \in {"arm", "detach"} /\ (~stay => pc'[t] = "detach")
  BY DEF WaitInv, WaitTypeOK, Points, WaitPoints, Attached
<1>2. \A u \in Tasks : Runs(u)' <=> Runs(u)
  BY SameRuns
<1>3. \A u \in Tasks \ {t} : Unaffected(u)
  BY <1>1, <1>2 DEF Unaffected
<1>4. WaitTypeOK(Points)'
  BY <1>1 DEF WaitInv, WaitTypeOK, RuntimeTypeOK
<1>5. TaskInv(t)'
  <2>1. TaskInv(t)
    BY DEF WaitInv
  <2> QED
    BY <1>1, <1>2, <2>1 DEF TaskInv, Parking, Attached, Busy
<1>6. WaitInv'
  BY <1>3, <1>4, <1>5, LocalStep DEF WaitInv
<1>7. (Waking(t)' <=> Waking(t)) /\ (Woken(t)' <=> Woken(t))
  BY <1>1 DEF Waking, Woken
<1> QED
  BY <1>1, <1>3, <1>6, <1>7 DEF Committed

\* Unlinking t, if it is linked, leaves the others where they are.
LEMMA Unlink ==
  ASSUME WaitInv, NEW t \in Tasks, waiters_' = remove_locked(waiters_, t)
  PROVE  /\ waiters_' \in Seq(Tasks)
         /\ InList(waiters_') = InList(waiters_) \ {t}
         /\ Distinct(waiters_')
<1>1. waiters_ \in Seq(Tasks) /\ Distinct(waiters_)
  BY DEF WaitInv, WaitTypeOK
<1>2. CASE t \in InList(waiters_)
  BY <1>1, <1>2, RemoveLocked
<1>3. CASE t \notin InList(waiters_)
  BY <1>1, <1>3 DEF remove_locked
<1> QED
  BY <1>2, <1>3

\* detach(): the node is unlinked, or its handle is on the way.
LEMMA DetachStep == ASSUME WaitInv, NEW t \in Tasks, Detach(t) PROVE WaitInv' /\ Quiet
<1> USE DEF Detach, Goto
<1>0. TaskInv(t) /\ RuntimeTypeOK /\ Runs(t) /\ pc[t] = "detach"
  BY DEF WaitInv, WaitTypeOK
<1>1. CASE t \in InList(waiters_)
  <2>1. /\ waiters_' \in Seq(Tasks)
        /\ InList(waiters_') = InList(waiters_) \ {t}
        /\ Distinct(waiters_')
    BY <1>1, Unlink
  <2>2. pc' \in [Tasks -> Points] /\ pc'[t] = "try" /\ \A u \in Tasks \ {t} : pc'[u] = pc[u]
    BY <1>1 DEF WaitInv, WaitTypeOK, Points, WaitPoints
  <2>3. \A u \in Tasks : Runs(u)' <=> Runs(u)
    BY <1>1, SameRuns
  <2>4. \A u \in Tasks \ {t} : Unaffected(u)
    BY <2>1, <2>2, <2>3 DEF Unaffected
  <2>5. WaitTypeOK(Points)'
    BY <1>1, <2>1, <2>2 DEF WaitInv, WaitTypeOK, RuntimeTypeOK
  <2>6. TaskInv(t)'
    BY <1>0, <1>1, <2>1, <2>2, <2>3 DEF TaskInv, Parking, Attached, Busy
  <2>7. WaitInv'
    BY <2>1, <2>4, <2>5, <2>6, LocalStep
  <2>8. ~Committed(t)' /\ (Waking(t)' <=> Waking(t)) /\ Woken(t)'
    BY <1>0, <2>2 DEF Committed, Waking, Woken
  <2> QED
    BY <2>4, <2>7, <2>8, LocalQuiet
<1>2. CASE t \notin InList(waiters_)
  <2>1. own[t] = "fired" /\ ready[t] = 1
    <3>1. own[t] \in {"none", "fired", "cancelled"}
      BY DEF WaitInv, WaitTypeOK
    <3> QED
      BY <1>0, <1>2, <3>1 DEF TaskInv, Parking, Attached
  <2>2. pc' \in [Tasks -> Points] /\ pc'[t] = "parked" /\ \A u \in Tasks \ {t} : pc'[u] = pc[u]
    BY <1>2 DEF WaitInv, WaitTypeOK, Points, WaitPoints
  <2>3. /\ running' \in [Workers -> Tasks \cup {None}]
        /\ ~Runs(t)'
        /\ \A u \in Tasks \ {t} : Runs(u)' <=> Runs(u)
    BY <1>0, <1>2, SuspendEffect
  <2>4. \A u \in Tasks \ {t} : Unaffected(u)
    BY <1>2, <2>2, <2>3 DEF Unaffected
  <2>5. WaitTypeOK(Points)'
    BY <1>2, <2>2, <2>3 DEF WaitInv, WaitTypeOK, RuntimeTypeOK
  <2>6. TaskInv(t)'
    BY <1>2, <2>1, <2>2, <2>3 DEF TaskInv, Parking, Attached, Busy
  <2>7. WaitInv'
    BY <1>2, <2>4, <2>5, <2>6, LocalStep DEF WaitInv
  <2>8. ~Committed(t)' /\ (Waking(t)' <=> Waking(t)) /\ Woken(t)'
    BY <1>0, <1>2, <2>1, <2>2 DEF Committed, Waking, Woken
  <2> QED
    BY <2>4, <2>7, <2>8, LocalQuiet
<1> QED
  BY <1>1, <1>2

\* Suspending with the hook armed leaves the right to resume where it is.
LEMMA ArmCancelStep == ASSUME WaitInv, NEW t \in Tasks, ArmCancel(t) PROVE WaitInv' /\ Quiet
<1> USE DEF ArmCancel, Goto
<1>0. TaskInv(t) /\ RuntimeTypeOK /\ Runs(t) /\ pc[t] = "arm"
  BY DEF WaitInv, WaitTypeOK
<1>1. /\ pc' \in [Tasks -> Points] /\ \A u \in Tasks \ {t} : pc'[u] = pc[u]
      /\ pc'[t] = IF requested[t] THEN "withdraw" ELSE "parked"
  BY DEF WaitInv, WaitTypeOK, Points, WaitPoints, Attached
<1>2. /\ running' \in [Workers -> Tasks \cup {None}]
      /\ Runs(t)' <=> requested[t]
      /\ \A u \in Tasks \ {t} : Runs(u)' <=> Runs(u)
  <2>1. CASE requested[t]
    BY <1>0, <2>1, SameRuns DEF RuntimeTypeOK
  <2>2. CASE ~requested[t]
    BY <1>0, <2>2, SuspendEffect
  <2> QED
    BY <2>1, <2>2
<1>3. \A u \in Tasks \ {t} : Unaffected(u)
  BY <1>1, <1>2 DEF Unaffected
<1>4. WaitTypeOK(Points)'
  BY <1>1, <1>2 DEF WaitInv, WaitTypeOK, RuntimeTypeOK
<1>5. TaskInv(t)'
  <2>1. CASE requested[t]
    BY <1>0, <1>1, <1>2, <2>1 DEF TaskInv, Parking, Attached, Busy
  <2>2. CASE ~requested[t]
    BY <1>0, <1>1, <1>2, <2>2 DEF TaskInv, Parking, Attached, Busy
  <2> QED
    BY <2>1, <2>2
<1>6. WaitInv'
  BY <1>3, <1>4, <1>5, LocalStep DEF WaitInv
<1>7. (Committed(t)' => Committed(t)) /\ (Waking(t)' <=> Waking(t)) /\ (Woken(t) => Woken(t)')
  BY <1>0, <1>1 DEF Committed, Waking, Woken
<1> QED
  BY <1>3, <1>6, <1>7, LocalQuiet

\* Withdrawing unlinks the waiter or leaves it to the waker that popped it.
LEMMA WithdrawSelfStep ==
  ASSUME WaitInv, NEW t \in Tasks, WithdrawSelf(t) PROVE WaitInv' /\ Quiet
<1> USE DEF WithdrawSelf, Goto
<1>0. TaskInv(t) /\ RuntimeTypeOK /\ Runs(t) /\ pc[t] = "withdraw"
  BY DEF WaitInv, WaitTypeOK
<1>1. CASE t \in InList(waiters_)
  <2>1. /\ waiters_' \in Seq(Tasks)
        /\ InList(waiters_') = InList(waiters_) \ {t}
        /\ Distinct(waiters_')
    BY <1>1, Unlink
  <2>2. pc' \in [Tasks -> Points] /\ pc'[t] = "idle" /\ \A u \in Tasks \ {t} : pc'[u] = pc[u]
    BY <1>1 DEF WaitInv, WaitTypeOK, Points, WaitPoints
  <2>3. \A u \in Tasks : Runs(u)' <=> Runs(u)
    BY <1>1, SameRuns
  <2>4. \A u \in Tasks \ {t} : Unaffected(u)
    BY <2>1, <2>2, <2>3 DEF Unaffected
  <2>5. WaitTypeOK(Points)'
    BY <1>1, <2>1, <2>2 DEF WaitInv, WaitTypeOK, RuntimeTypeOK
  <2>6. TaskInv(t)'
    BY <1>0, <1>1, <2>1, <2>2, <2>3 DEF TaskInv, Parking, Attached, Busy
  <2>7. WaitInv'
    BY <2>1, <2>4, <2>5, <2>6, LocalStep
  <2>8. ~Committed(t)' /\ (Waking(t)' <=> Waking(t)) /\ ~Woken(t)
    BY <1>0, <1>1, <2>2 DEF Committed, Waking, Woken, TaskInv
  <2> QED
    BY <2>4, <2>7, <2>8, LocalQuiet
<1>2. CASE t \notin InList(waiters_)
  <2>1. own[t] = "fired" /\ ready[t] = 1
    <3>1. own[t] \in {"none", "fired", "cancelled"}
      BY DEF WaitInv, WaitTypeOK
    <3> QED
      BY <1>0, <1>2, <3>1 DEF TaskInv, Parking, Attached
  <2>2. pc' \in [Tasks -> Points] /\ pc'[t] = "parked" /\ \A u \in Tasks \ {t} : pc'[u] = pc[u]
    BY <1>2 DEF WaitInv, WaitTypeOK, Points, WaitPoints
  <2>3. /\ running' \in [Workers -> Tasks \cup {None}]
        /\ ~Runs(t)'
        /\ \A u \in Tasks \ {t} : Runs(u)' <=> Runs(u)
    BY <1>0, <1>2, SuspendEffect
  <2>4. \A u \in Tasks \ {t} : Unaffected(u)
    BY <1>2, <2>2, <2>3 DEF Unaffected
  <2>5. WaitTypeOK(Points)'
    BY <1>2, <2>2, <2>3 DEF WaitInv, WaitTypeOK, RuntimeTypeOK
  <2>6. TaskInv(t)'
    BY <1>2, <2>1, <2>2, <2>3 DEF TaskInv, Parking, Attached, Busy
  <2>7. WaitInv'
    BY <1>2, <2>4, <2>5, <2>6, LocalStep DEF WaitInv
  <2>8. ~Committed(t)' /\ (Waking(t)' <=> Waking(t)) /\ Woken(t)'
    BY <1>0, <1>2, <2>1, <2>2 DEF Committed, Waking, Woken
  <2> QED
    BY <2>4, <2>7, <2>8, LocalQuiet
<1> QED
  BY <1>1, <1>2

\* Resuming uses up the one handle of the coroutine, whose node is not linked.
LEMMA ResumeStep == ASSUME WaitInv, NEW t \in Tasks, Resume(t) PROVE WaitInv' /\ Quiet
<1> USE DEF Resume
<1>0. TaskInv(t) /\ RuntimeTypeOK
  BY DEF WaitInv, WaitTypeOK
<1>1. /\ running' \in [Workers -> Tasks \cup {None}]
      /\ ready' \in [Tasks -> Nat]
      /\ cancel_fn' \in [Tasks -> BOOLEAN]
      /\ ~Runs(t) /\ Runs(t)'
      /\ ready[t] \in Nat \ {0} /\ ready'[t] = ready[t] - 1
      /\ \A u \in Tasks \ {t} : (Runs(u)' <=> Runs(u)) /\ ready'[u] = ready[u]
  BY <1>0, LoopResumeEffect
<1>2. pc[t] \in {"idle", "parked"} /\ t \notin InList(waiters_) /\ ready'[t] = 0
  <2>1. pc[t] \in Points
    BY DEF WaitInv, WaitTypeOK
  <2>2. pc[t] \in {"idle", "parked"}
    BY <1>0, <1>1, <2>1 DEF TaskInv, Busy, Points, WaitPoints
  <2>3. t \notin InList(waiters_) /\ ready[t] = 1
    BY <1>0, <1>1, <2>2 DEF TaskInv, Parking, Attached
  <2> QED
    BY <1>1, <2>2, <2>3
<1>3. CASE pc[t] = "parked"
  <2>1. /\ waiters_' \in Seq(Tasks)
        /\ InList(waiters_') = InList(waiters_) \ {t}
        /\ Distinct(waiters_')
    BY <1>3, Unlink
  <2>2. /\ pc' \in [Tasks -> Points] /\ \A u \in Tasks \ {t} : pc'[u] = pc[u]
        /\ pc'[t] = IF own[t] = "cancelled" THEN "idle" ELSE "try"
    BY <1>3 DEF WaitInv, WaitTypeOK, Points, WaitPoints, Goto
  <2>3. /\ own' \in [Tasks -> {"none", "fired", "cancelled"}]
        /\ own'[t] = "none" /\ \A u \in Tasks \ {t} : own'[u] = own[u]
    BY <1>3 DEF WaitInv, WaitTypeOK
  <2>4. \A u \in Tasks \ {t} : Unaffected(u)
    BY <1>1, <2>1, <2>2, <2>3 DEF Unaffected
  <2>5. WaitTypeOK(Points)'
    BY <1>1, <2>1, <2>2, <2>3 DEF WaitInv, WaitTypeOK, RuntimeTypeOK
  <2>6. TaskInv(t)'
    BY <1>1, <1>2, <2>1, <2>2, <2>3 DEF TaskInv, Parking, Attached, Busy
  <2>7. WaitInv'
    BY <2>1, <2>4, <2>5, <2>6, LocalStep
  <2>8. ~Committed(t)' /\ (Waking(t)' <=> Waking(t)) /\ (Woken(t) => Woken(t)')
    BY <1>3, <2>2 DEF Committed, Waking, Woken
  <2> QED
    BY <2>4, <2>7, <2>8, LocalQuiet
<1>4. CASE pc[t] # "parked"
  <2>1. UNCHANGED <<waiters_, pc, own>>
    BY <1>4 DEF waitvars
  <2>2. \A u \in Tasks \ {t} : Unaffected(u)
    BY <1>1, <2>1 DEF Unaffected
  <2>3. WaitTypeOK(Points)'
    BY <1>1, <2>1 DEF WaitInv, WaitTypeOK, RuntimeTypeOK
  <2>4. TaskInv(t)'
    BY <1>0, <1>1, <1>2, <1>4, <2>1 DEF TaskInv, Parking, Attached, Busy
  <2>5. WaitInv'
    BY <2>1, <2>2, <2>3, <2>4, LocalStep DEF WaitInv
  <2>6. (Committed(t)' => Committed(t)) /\ (Waking(t)' <=> Waking(t)) /\ (Woken(t) => Woken(t)')
    BY <2>1 DEF Committed, Waking, Woken
  <2> QED
    BY <2>2, <2>5, <2>6, LocalQuiet
<1> QED
  BY <1>3, <1>4

\* on_cancel() claims a waiter that nobody has claimed, and owes it one handle.
LEMMA OnCancelStep == ASSUME WaitInv, NEW t \in Tasks, OnCancel(t) PROVE WaitInv' /\ Quiet
<1> USE DEF OnCancel, TakeKick
<1>0. TaskInv(t) /\ RuntimeTypeOK
  BY DEF WaitInv, WaitTypeOK
<1>1. /\ kick' \in [Tasks -> {"none", "due", "queued"}] /\ cancel_fn' \in [Tasks -> BOOLEAN]
      /\ \A u \in Tasks : Runs(u)' <=> Runs(u)
      /\ ~Runs(t) /\ pc' = pc
  BY <1>0, SameRuns, HomeAssumption, NoneAssumption DEF RuntimeTypeOK, Idle, Runs
<1>2. CASE cancel_fn[t] /\ t \in InList(waiters_)
  <2>1. /\ waiters_' \in Seq(Tasks)
        /\ InList(waiters_') = InList(waiters_) \ {t}
        /\ Distinct(waiters_')
    BY <1>2, Unlink
  <2>2. /\ ready' \in [Tasks -> Nat]
        /\ \A u \in Tasks : ready'[u] = IF u \in {t} THEN ready[u] + 1 ELSE ready[u]
    BY <1>0, <1>2, ResumeOnEffect
  <2>3. /\ own' \in [Tasks -> {"none", "fired", "cancelled"}]
        /\ own'[t] = "cancelled" /\ \A u \in Tasks \ {t} : own'[u] = own[u]
    BY <1>2 DEF WaitInv, WaitTypeOK
  <2>4. \A u \in Tasks \ {t} : Unaffected(u)
    BY <1>1, <2>1, <2>2, <2>3 DEF Unaffected
  <2>5. WaitTypeOK(Points)'
    BY <1>1, <2>1, <2>2, <2>3 DEF WaitInv, WaitTypeOK, RuntimeTypeOK
  <2>6. pc[t] = "parked" /\ ready[t] = 0 /\ own[t] = "none"
    BY <1>0, <1>1, <1>2 DEF TaskInv, Parking
  <2>7. TaskInv(t)'
    <3>1. ready'[t] = 1
      BY <2>2, <2>6
    <3> QED
      BY <1>1, <2>1, <2>3, <2>6, <3>1 DEF TaskInv, Parking, Attached, Busy
  <2>8. WaitInv'
    BY <2>1, <2>4, <2>5, <2>7, LocalStep
  <2>9. ~Committed(t)' /\ (Waking(t)' <=> Waking(t)) /\ ~Woken(t)
    BY <1>1, <2>1, <2>6 DEF Committed, Waking, Woken
  <2> QED
    BY <2>4, <2>8, <2>9, LocalQuiet
<1>3. CASE ~(cancel_fn[t] /\ t \in InList(waiters_))
  <2>1. UNCHANGED <<waiters_, own, ready, pc>>
    BY <1>3
  <2>2. \A u \in Tasks : Unaffected(u)
    BY <1>1, <2>1 DEF Unaffected
  <2>3. WaitTypeOK(Points)'
    BY <1>1, <2>1 DEF WaitInv, WaitTypeOK, RuntimeTypeOK
  <2>4. WaitInv' /\ Quiet
    BY <2>1, <2>2, <2>3, UnaffectedKept DEF WaitInv, Quiet
  <2> QED
    BY <2>4
<1> QED
  BY <1>2, <1>3

\* A coroutine that awaits something else has one handle on its way.
LEMMA YieldStep == ASSUME WaitInv, NEW t \in Tasks, Yield(t) PROVE WaitInv' /\ Quiet
<1> USE DEF Yield, waitvars
<1>0. TaskInv(t) /\ RuntimeTypeOK /\ Runs(t) /\ pc[t] = "idle" /\ ready[t] = 0
  BY DEF WaitInv, WaitTypeOK, TaskInv
<1>1. /\ running' \in [Workers -> Tasks \cup {None}]
      /\ ~Runs(t)'
      /\ \A u \in Tasks \ {t} : Runs(u)' <=> Runs(u)
  BY <1>0, SuspendEffect
<1>2. /\ ready' \in [Tasks -> Nat]
      /\ \A u \in Tasks : ready'[u] = IF u \in {t} THEN ready[u] + 1 ELSE ready[u]
  BY <1>0, ResumeOnEffect
<1>3. \A u \in Tasks \ {t} : Unaffected(u)
  BY <1>1, <1>2 DEF Unaffected
<1>4. WaitTypeOK(Points)'
  BY <1>1, <1>2 DEF WaitInv, WaitTypeOK, RuntimeTypeOK
<1>5. TaskInv(t)'
  <2>1. ready'[t] = 1
    BY <1>0, <1>2
  <2> QED
    BY <1>0, <1>1, <2>1 DEF TaskInv, Parking, Attached, Busy
<1>6. WaitInv'
  BY <1>3, <1>4, <1>5, LocalStep DEF WaitInv
<1>7. (Committed(t)' => Committed(t)) /\ (Waking(t)' <=> Waking(t)) /\ (Woken(t) => Woken(t)')
  BY DEF Committed, Waking, Woken
<1> QED
  BY <1>3, <1>6, <1>7, LocalQuiet

\* A request to cancel touches neither the nodes nor the queues.
LEMMA CancelStep == ASSUME WaitInv, NEW t \in Tasks, Cancel(t) PROVE WaitInv' /\ Quiet
<1> USE DEF Cancel, waitvars
<1>0. RuntimeTypeOK' /\ UNCHANGED <<running, ready, cancel_fn>>
  BY CancelEffect DEF WaitInv, WaitTypeOK
<1>1. \A u \in Tasks : Unaffected(u)
  BY <1>0 DEF Unaffected, Runs
<1>2. WaitTypeOK(Points)'
  BY <1>0 DEF WaitInv, WaitTypeOK
<1> QED
  BY <1>1, <1>2, UnaffectedKept DEF WaitInv, Quiet

\* The steps of await_suspend() and of the worker's loop are quiet.
LEMMA QuietStep ==
  ASSUME WaitInv, NEW t \in Tasks, SuspendStep(t) \/ LoopStep(t) PROVE WaitInv' /\ Quiet
BY CheckCancelStep, AttachStep, DetachStep, ArmCancelStep, WithdrawSelfStep, ResumeStep,
   OnCancelStep, YieldStep, CancelStep DEF SuspendStep, LoopStep

\* A waker that may claim n nodes claims the first n linked ones, or all.
LEMMA PoppedEffect ==
  ASSUME WaitInv, NEW n \in Nat
  PROVE  /\ Popped(n) = IF n <= Len(waiters_) THEN n ELSE Len(waiters_)
         /\ Claimable(Popped(n)) = 1..Popped(n)
<1> DEFINE len == Len(waiters_)
           m == IF n <= len THEN n ELSE len
           P(x) == /\ x = len \/ Cardinality(Claimable(x)) = n
                   /\ \A j \in 0..(x - 1) : Cardinality(Claimable(j)) < n
<1>1. len \in Nat /\ m \in 0..len
  BY DEF WaitInv, WaitTypeOK
<1>2. \A i \in 1..len : own[waiters_[i]] = "none"
  <2>1. \A t \in InList(waiters_) : own[t] = "none"
    BY LinkedAreTasks DEF WaitInv, TaskInv
  <2> QED
    BY <2>1 DEF InList
<1> HIDE DEF len
<1>3. ASSUME NEW j \in 0..len PROVE Claimable(j) = 1..j /\ Cardinality(Claimable(j)) = j
  <2>1. Claimable(j) = 1..j
    BY <1>1, <1>2, <1>3 DEF Claimable
  <2>2. Cardinality(1..j) = j
    BY <1>1, FS_Interval
  <2> QED
    BY <2>1, <2>2
<1>4. P(m)
  BY <1>1, <1>3
<1>5. Popped(n) = CHOOSE x \in 0..len : P(x)
  BY DEF Popped, len
<1>6. Popped(n) \in 0..len /\ P(Popped(n))
  BY <1>1, <1>4, <1>5
<1>7. Popped(n) = m
  <2> DEFINE x == Popped(n)
  <2>1. x \in 0..len /\ (x = len \/ x = n)
    BY <1>3, <1>6
  <2>2. x > 0 => x - 1 < n
    <3> SUFFICES ASSUME x > 0 PROVE x - 1 < n
      OBVIOUS
    <3>1. x - 1 \in 0..(x - 1) /\ x - 1 \in 0..len
      BY <1>1, <2>1
    <3> QED
      BY <1>3, <1>6, <3>1
  <2> HIDE DEF x
  <2>3. x = m
    BY <1>1, <2>1, <2>2
  <2> QED
    BY <2>3 DEF x
<1> QED
  BY <1>1, <1>3, <1>7 DEF len

\* What fire_waiters(n) does: it claims as many linked waiters as it may, each
\* gets one handle, and somebody is left only if n were claimed.
LEMMA FireEffect ==
  ASSUME WaitInv, NEW n \in Nat, fire_waiters(n)
  PROVE  \E fired \in SUBSET InList(waiters_) :
           /\ waiters_' \in Seq(Tasks) /\ Distinct(waiters_')
           /\ InList(waiters_') = InList(waiters_) \ fired
           /\ IsFiniteSet(fired)
           /\ InList(waiters_') # {} => Cardinality(fired) = n
           /\ n >= Len(waiters_) => InList(waiters_') = {}
           /\ own' = [t \in Tasks |-> IF t \in fired THEN "fired" ELSE own[t]]
           /\ ready' = resume_on(fired)
<1> DEFINE m == Popped(n)
           fired == {waiters_[i] : i \in 1..m}
           len == Len(waiters_)
<1>1. len \in Nat /\ waiters_ \in Seq(Tasks) /\ Distinct(waiters_)
  BY DEF WaitInv, WaitTypeOK
<1>2. m = (IF n <= len THEN n ELSE len) /\ Claimable(m) = 1..m
  BY PoppedEffect
<1>3. /\ waiters_' = SubSeq(waiters_, m + 1, len)
      /\ own' = [t \in Tasks |-> IF t \in fired THEN "fired" ELSE own[t]]
      /\ ready' = resume_on(fired)
  BY <1>2 DEF fire_waiters
<1> HIDE DEF m
<1>4. m \in 0..len
  BY <1>1, <1>2
<1>5. /\ waiters_' \in Seq(Tasks)
      /\ Len(waiters_') = len - m
      /\ \A i \in 1..(len - m) : waiters_'[i] = waiters_[m + i]
  BY <1>1, <1>3, <1>4
<1>6. fired \in SUBSET InList(waiters_)
  BY <1>1, <1>4 DEF InList
<1>7. Distinct(waiters_')
  <2> SUFFICES ASSUME NEW i \in 1..(len - m), NEW j \in 1..(len - m), waiters_'[i] = waiters_'[j]
               PROVE  i = j
    BY <1>5 DEF Distinct
  <2>1. m + i \in 1..len /\ m + j \in 1..len /\ waiters_[m + i] = waiters_[m + j]
    BY <1>1, <1>4, <1>5
  <2>2. m + i = m + j
    BY <1>1, <2>1 DEF Distinct
  <2> QED
    BY <1>4, <2>2
<1>8. InList(waiters_') = InList(waiters_) \ fired
  <2>1. ASSUME NEW x \in InList(waiters_') PROVE x \in InList(waiters_) \ fired
    <3>1. PICK i \in 1..(len - m) : x = waiters_[m + i]
      BY <1>5 DEF InList
    <3>2. m + i \in 1..len /\ \A j \in 1..m : j \in 1..len /\ j # m + i
      BY <1>1, <1>4
    <3>3. \A j \in 1..m : waiters_[j] # x
      BY <1>1, <3>1, <3>2 DEF Distinct
    <3> QED
      BY <3>1, <3>2, <3>3 DEF InList
  <2>2. ASSUME NEW x \in InList(waiters_) \ fired PROVE x \in InList(waiters_')
    <3>1. PICK j \in 1..len : x = waiters_[j]
      BY DEF InList
    <3>2. j \notin 1..m
      BY <3>1
    <3>3. j - m \in 1..(len - m) /\ waiters_'[j - m] = x
      BY <1>1, <1>4, <1>5, <3>1, <3>2
    <3> QED
      BY <1>5, <3>3 DEF InList
  <2> QED
    BY <2>1, <2>2
<1>9. IsFiniteSet(fired) /\ Cardinality(fired) = m
  <2> DEFINE f == [i \in 1..m |-> waiters_[i]]
  <2>1. \A i, j \in 1..m : f[i] = f[j] => i = j
    BY <1>1, <1>4 DEF Distinct
  <2>2. f \in [1..m -> fired] /\ \A x \in fired : \E i \in 1..m : f[i] = x
    OBVIOUS
  <2>3. f \in Bijection(1..m, fired)
    BY <2>1, <2>2 DEF Bijection, Injection, Surjection, IsInjective
  <2>4. ExistsBijection(1..m, fired)
    BY <2>3 DEF ExistsBijection
  <2>5. IsFiniteSet(1..m) /\ Cardinality(1..m) = m
    BY <1>1, <1>4, FS_Interval
  <2> QED
    BY <2>4, <2>5, FS_Bijection
<1>10. InList(waiters_') # {} => Cardinality(fired) = n
  BY <1>1, <1>2, <1>5, <1>9 DEF InList
<1>11. n >= len => InList(waiters_') = {}
  BY <1>1, <1>2, <1>5 DEF InList
<1> QED
  BY <1>3, <1>5, <1>6, <1>7, <1>8, <1>9, <1>10, <1>11

\* What a waker's pass under the list lock does: it wakes as many as it may.
LEMMA WakeStep ==
  ASSUME WaitInv, NEW t \in Tasks, Runs(t), pc[t] = "wake", NEW n \in Nat,
         fire_waiters(n), Goto(t, "idle"), UNCHANGED <<running, cancel_fn, requested, kick>>
  PROVE  /\ WaitInv'
         /\ ~Waking(t)' /\ \A u \in Tasks \ {t} : Waking(u)' <=> Waking(u)
         /\ \A u \in Tasks : Committed(u)' => Committed(u)
         /\ \E fired \in SUBSET Tasks :
              /\ IsFiniteSet(fired) /\ fired \cap WokenTasks = {}
              /\ WokenTasks' = WokenTasks \cup fired
              /\ (\E u \in Tasks : Committed(u)') => Cardinality(fired) = n
              /\ n >= Len(waiters_) => \A u \in Tasks : ~Committed(u)'
<1>1. PICK fired \in SUBSET InList(waiters_) :
           /\ waiters_' \in Seq(Tasks) /\ Distinct(waiters_')
           /\ InList(waiters_') = InList(waiters_) \ fired
           /\ IsFiniteSet(fired)
           /\ InList(waiters_') # {} => Cardinality(fired) = n
           /\ n >= Len(waiters_) => InList(waiters_') = {}
           /\ own' = [u \in Tasks |-> IF u \in fired THEN "fired" ELSE own[u]]
           /\ ready' = resume_on(fired)
  BY FireEffect
<1>2. /\ fired \subseteq Tasks
      /\ \A u \in fired : pc[u] \in Parking /\ own[u] = "none" /\ ready[u] = 0
      /\ t \notin InList(waiters_)
  <2>1. InList(waiters_) \subseteq Tasks /\ \A u \in Tasks : TaskInv(u)
    BY LinkedAreTasks DEF WaitInv
  <2>2. \A u \in InList(waiters_) : pc[u] \in Parking /\ own[u] = "none" /\ ready[u] = 0
    BY <2>1 DEF TaskInv
  <2>3. "wake" \notin Parking
    BY DEF Parking, Attached
  <2> QED
    BY <2>1, <2>2, <2>3
<1>3. /\ pc' \in [Tasks -> Points] /\ pc'[t] = "idle"
      /\ \A u \in Tasks \ {t} : pc'[u] = pc[u]
  BY DEF WaitInv, WaitTypeOK, Goto, Points, WaitPoints
<1>4. /\ ready' \in [Tasks -> Nat]
      /\ \A u \in Tasks : ready'[u] = IF u \in fired THEN ready[u] + 1 ELSE ready[u]
  BY <1>1, ResumeOnEffect DEF WaitInv, WaitTypeOK
<1>5. /\ own' \in [Tasks -> {"none", "fired", "cancelled"}]
      /\ \A u \in Tasks : own'[u] = IF u \in fired THEN "fired" ELSE own[u]
  BY <1>1 DEF WaitInv, WaitTypeOK
<1>6. \A u \in Tasks : Runs(u)' <=> Runs(u)
  BY SameRuns
<1>7. WaitInv'
  <2>1. WaitTypeOK(Points)'
    BY <1>1, <1>3, <1>4, <1>5 DEF WaitInv, WaitTypeOK, RuntimeTypeOK
  <2>2. TaskInv(t)'
    <3>1. TaskInv(t) /\ t \notin fired
      BY <1>2 DEF WaitInv
    <3>2. ready[t] = 0 /\ own[t] = "none"
      BY <3>1 DEF TaskInv, Busy, Parking, Attached
    <3>3. ready'[t] = 0 /\ own'[t] = "none" /\ t \notin InList(waiters_')
      BY <1>1, <1>2, <1>4, <1>5, <3>1, <3>2
    <3> QED
      BY <1>3, <1>6, <3>3 DEF TaskInv, Busy, Parking, Attached
  <2>3. ASSUME NEW u \in fired PROVE TaskInv(u)'
    <3>1. u \in Tasks /\ u # t /\ pc'[u] = pc[u] /\ u \notin InList(waiters_')
      BY <1>1, <1>2, <1>3
    <3>2. ready'[u] = 1 /\ own'[u] = "fired"
      BY <1>2, <1>4, <1>5, <3>1
    <3>3. TaskInv(u) /\ pc[u] \in Parking
      BY <1>2, <3>1 DEF WaitInv
    <3> QED
      BY <1>6, <3>1, <3>2, <3>3 DEF TaskInv, Busy, Parking, Attached
  <2>4. ASSUME NEW u \in Tasks \ {t}, u \notin fired PROVE TaskInv(u)'
    <3>1. Unaffected(u)
      BY <1>1, <1>3, <1>4, <1>5, <1>6, <2>4 DEF Unaffected
    <3> QED
      BY <3>1, UnaffectedKept DEF WaitInv
  <2> QED
    BY <1>1, <2>1, <2>2, <2>3, <2>4 DEF WaitInv
<1>8. ~Waking(t)' /\ \A u \in Tasks \ {t} : Waking(u)' <=> Waking(u)
  BY <1>3 DEF Waking
<1>12. \A u \in Tasks : Committed(u)' => Committed(u)
  BY <1>1, <1>3 DEF Committed
<1>9. fired \cap WokenTasks = {}
  BY <1>2 DEF WokenTasks, Woken, Parking, Attached
<1>10. WokenTasks' = WokenTasks \cup fired
  <2>1. \A u \in Tasks : Woken(u)' <=> Woken(u) \/ u \in fired
    BY <1>2, <1>3, <1>5 DEF Woken
  <2> QED
    BY <1>2, <2>1 DEF WokenTasks
<1>11. \A u \in Tasks : Committed(u)' => u \in InList(waiters_')
  BY DEF Committed
<1> QED
  BY <1>1, <1>2, <1>7, <1>8, <1>9, <1>10, <1>11, <1>12

(***************************************************************************)
(* Counting units                                                          *)
(***************************************************************************)

\* The units of a bounded count are finite in number.
LEMMA UnitsFinite ==
  ASSUME NEW n \in Nat, NEW f
  PROVE  IsFiniteSet(Units(f, n)) /\ Cardinality(Units(f, n)) \in Nat
<1>1. IsFiniteSet(1..n)
  BY FS_Interval
<1>2. IsFiniteSet(Tasks \X (1..n))
  BY <1>1, TasksAssumption, FS_Product
<1>3. Units(f, n) \in SUBSET (Tasks \X (1..n))
  BY DEF Units
<1>4. IsFiniteSet(Units(f, n))
  BY <1>2, <1>3, FS_Subset
<1> QED
  BY <1>4, FS_CardinalityType

\* Raising the count of one coroutine by d adds d units.
LEMMA UnitsAdd ==
  ASSUME NEW n \in Nat, NEW f \in [Tasks -> 0..n], NEW g \in [Tasks -> 0..n],
         NEW t \in Tasks, NEW d \in Nat, g[t] = f[t] + d, \A u \in Tasks \ {t} : g[u] = f[u]
  PROVE  Cardinality(Units(g, n)) = Cardinality(Units(f, n)) + d
<1> DEFINE more == {t} \X ((f[t] + 1)..(f[t] + d))
<1>1. f[t] \in 0..n /\ f[t] + d \in 0..n
  OBVIOUS
<1>2. Units(g, n) = Units(f, n) \cup more
  <2>1. ASSUME NEW p \in Units(g, n) PROVE p \in Units(f, n) \cup more
    <3>1. p \in Tasks \X (1..n) /\ p[2] <= g[p[1]] /\ p[1] \in Tasks /\ p[2] \in 1..n /\ p = <<p[1], p[2]>>
      BY DEF Units
    <3>2. CASE p[1] = t
      <4>1. p[2] <= f[t] \/ p[2] \in (f[t] + 1)..(f[t] + d)
        BY <1>1, <3>1, <3>2
      <4> QED
        BY <3>1, <3>2, <4>1 DEF Units
    <3>3. CASE p[1] # t
      BY <3>1, <3>3 DEF Units
    <3> QED
      BY <3>2, <3>3
  <2>2. ASSUME NEW p \in Units(f, n) PROVE p \in Units(g, n)
    <3>1. p \in Tasks \X (1..n) /\ p[2] <= f[p[1]] /\ p[1] \in Tasks /\ p[2] \in 1..n
      BY DEF Units
    <3>2. p[2] <= g[p[1]]
      <4>1. CASE p[1] = t
        BY <1>1, <3>1, <4>1
      <4>2. CASE p[1] # t
        BY <3>1, <4>2
      <4> QED
        BY <4>1, <4>2
    <3> QED
      BY <3>1, <3>2 DEF Units
  <2>3. ASSUME NEW p \in more PROVE p \in Units(g, n)
    <3>1. p[1] = t /\ p[2] \in (f[t] + 1)..(f[t] + d) /\ p = <<p[1], p[2]>>
      OBVIOUS
    <3>2. p[2] \in 1..n /\ p[2] <= g[t]
      BY <1>1, <3>1
    <3> QED
      BY <3>1, <3>2 DEF Units
  <2> QED
    BY <2>1, <2>2, <2>3
<1>3. Units(f, n) \cap more = {}
  BY <1>1 DEF Units
<1>4. IsFiniteSet(more) /\ Cardinality(more) = d
  <2> DEFINE I == (f[t] + 1)..(f[t] + d)
  <2>1. PICK a \in Int, b \in Int : a = f[t] + 1 /\ b = f[t] + d
    BY <1>1
  <2>2. IsFiniteSet(a..b) /\ Cardinality(a..b) = IF a > b THEN 0 ELSE b - a + 1
    BY FS_Interval
  <2>3. IsFiniteSet(I) /\ Cardinality(I) = d
    BY <1>1, <2>1, <2>2
  <2>4. IsFiniteSet({t}) /\ Cardinality({t}) = 1
    BY FS_Singleton
  <2> HIDE DEF I
  <2>b. IsFiniteSet({t} \X I) /\ Cardinality({t} \X I) = Cardinality({t}) * Cardinality(I)
    BY <2>3, <2>4, FS_Product
  <2>5. IsFiniteSet({t} \X I) /\ Cardinality({t} \X I) = d
    BY <2>3, <2>4, <2>b
  <2> QED
    BY <2>5 DEF I
<1> HIDE DEF more
<1>5. IsFiniteSet(Units(f, n)) /\ Cardinality(Units(f, n)) \in Nat
  BY UnitsFinite
<1>6. Cardinality(Units(f, n) \cup more)
        = Cardinality(Units(f, n)) + Cardinality(more) - Cardinality(Units(f, n) \cap more)
  BY <1>4, <1>5, FS_Union
<1>7. Cardinality({}) = 0
  BY FS_EmptySet
<1>8. Cardinality(Units(f, n) \cap more) = 0
  BY <1>3, <1>7, Zenon
<1>9. Cardinality(Units(g, n)) = Cardinality(Units(f, n)) + Cardinality(more) - 0
  BY <1>2, <1>6, <1>8, Zenon
<1> QED
  BY <1>4, <1>5, <1>9

\* Nobody has a unit when every count is zero.
LEMMA UnitsNone ==
  ASSUME NEW n \in Nat, NEW f, \A u \in Tasks : f[u] = 0
  PROVE  Cardinality(Units(f, n)) = 0
<1>1. ASSUME NEW p \in Units(f, n) PROVE FALSE
  <2>1. p[1] \in Tasks /\ p[2] \in 1..n /\ p[2] <= f[p[1]]
    BY DEF Units
  <2> QED
    BY <2>1
<1>2. Units(f, n) = {}
  BY <1>1
<1>3. Cardinality({}) = 0
  BY FS_EmptySet
<1> QED
  BY <1>2, <1>3

\* Every set of coroutines is finite, and a larger one has no fewer elements.
LEMMA TasksFinite ==
  ASSUME NEW S \in SUBSET Tasks, NEW T \in SUBSET S
  PROVE  /\ IsFiniteSet(S) /\ Cardinality(S) \in Nat
         /\ IsFiniteSet(T) /\ Cardinality(T) \in Nat /\ Cardinality(T) <= Cardinality(S)
<1>1. IsFiniteSet(S)
  BY TasksAssumption, FS_Subset
<1>2. IsFiniteSet(T) /\ Cardinality(T) <= Cardinality(S)
  BY <1>1, FS_Subset
<1> QED
  BY <1>1, <1>2, FS_CardinalityType

(***************************************************************************)
(* The primitives                                                          *)
(***************************************************************************)

\* The typing of each primitive's own variables.
SemaphoreTypes == count_ \in Int /\ held \in [Tasks -> 0..Initial] /\ k \in [Tasks -> 0..Initial]
EventTypes == set_ \in BOOLEAN /\ reset_ \in {"Auto", "Manual"}
GroupTypes == cnt_ \in Nat /\ owed \in [Tasks -> 0..MaxWork]

OwnTypes ==
  kind \in {"semaphore", "event", "group"} /\ SemaphoreTypes /\ EventTypes /\ GroupTypes

\* The type invariant is that of the wait protocol and that of the primitive.
LEMMA TypeSplit == TypeOK <=> WaitTypeOK(Points) /\ OwnTypes
BY DEF TypeOK, SemaphoreTypeOK, EventTypeOK, GroupTypeOK, OwnTypes, SemaphoreTypes, EventTypes,
       GroupTypes, Points

\* A step that leaves the semaphore alone and is quiet.
LEMMA PermitQuiet ==
  ASSUME SemaphoreTypes, PermitInv, Quiet, UNCHANGED semaphore PROVE PermitInv'
<1> USE DEF semaphore
<1>1. PermitsConserved'
  BY DEF PermitInv, PermitsConserved, Units
<1>2. \A t \in Tasks : (~Waking(t) => k[t] = 0)'
  BY DEF PermitInv, Quiet
<1>3. ASSUME \E t \in Tasks : Committed(t)'
      PROVE  count_ <= Cardinality(WokenTasks') + Cardinality(Units(k, Initial))
  <2>1. count_ <= Cardinality(WokenTasks) + Cardinality(Units(k, Initial))
    BY <1>3 DEF PermitInv, Quiet
  <2>2. WokenTasks' \in SUBSET Tasks /\ WokenTasks \in SUBSET WokenTasks'
    BY DEF WokenTasks, Quiet
  <2>3. /\ Cardinality(WokenTasks') \in Nat /\ Cardinality(WokenTasks) \in Nat
        /\ Cardinality(WokenTasks) <= Cardinality(WokenTasks')
    BY <2>2, TasksFinite
  <2>4. Cardinality(Units(k, Initial)) \in Nat
    BY UnitsFinite, InitialAssumption
  <2> QED
    BY <2>1, <2>3, <2>4 DEF SemaphoreTypes
<1>4. Units(k, Initial)' = Units(k, Initial)
  BY DEF Units
<1> QED
  BY <1>1, <1>2, <1>3, <1>4 DEF PermitInv

\* A step that touches none of a coroutine's waiting.
LEMMA SameWaiting ==
  ASSUME UNCHANGED <<runtime, waitvars>>
  PROVE  /\ WaitInv => WaitInv'
         /\ WokenTasks' = WokenTasks
         /\ \A u \in Tasks : (Committed(u)' <=> Committed(u)) /\ (Waking(u)' <=> Waking(u))
<1> USE DEF runtime, waitvars
<1>1. \A u \in Tasks : Unaffected(u)
  BY DEF Unaffected, Runs
<1>2. WaitTypeOK(Points) => WaitTypeOK(Points)'
  BY DEF WaitTypeOK, RuntimeTypeOK
<1>3. WaitInv => WaitInv'
  BY <1>1, <1>2, UnaffectedKept DEF WaitInv
<1> QED
  BY <1>1, <1>3, UnaffectedKept DEF WokenTasks

\* The second look of acquire(): a waiter commits only when there is no permit.
LEMMA RecheckCountStep ==
  ASSUME WaitInv, SemaphoreTypes, PermitInv, NEW t \in Tasks, RecheckCount(t)
  PROVE  WaitInv' /\ SemaphoreTypes' /\ PermitInv'
<1>1. /\ WaitInv'
      /\ \A u \in Tasks \ {t} : Unaffected(u)
      /\ ~(count_ <= 0) => ~Committed(t)'
      /\ Waking(t)' <=> Waking(t)
      /\ Woken(t)' <=> Woken(t)
  BY RecheckStep DEF RecheckCount
<1>2. CASE count_ > 0
  <2>1. ~Committed(t)'
    BY <1>1, <1>2 DEF SemaphoreTypes
  <2>2. Quiet
    BY <1>1, <2>1, LocalQuiet
  <2> QED
    BY <1>1, <2>2, PermitQuiet DEF RecheckCount, SemaphoreTypes, semaphore
<1>3. CASE ~(count_ > 0)
  <2>1. \A u \in Tasks : Waking(u)' <=> Waking(u)
    BY <1>1, UnaffectedKept
  <2>2. WokenTasks' \in SUBSET Tasks
    BY DEF WokenTasks
  <2>3. Cardinality(WokenTasks') \in Nat
    BY <2>2, TasksFinite
  <2>4. UNCHANGED <<count_, held, k>>
    BY DEF RecheckCount, semaphore
  <2>5. Units(k, Initial)' = Units(k, Initial) /\ Cardinality(Units(k, Initial)) \in Nat
    BY <2>4, UnitsFinite, InitialAssumption DEF Units
  <2>6. count_ <= Cardinality(WokenTasks') + Cardinality(Units(k, Initial))
    BY <1>3, <2>3, <2>5 DEF SemaphoreTypes
  <2>7. PermitsConserved' /\ \A u \in Tasks : (~Waking(u) => k[u] = 0)'
    BY <2>1, <2>4 DEF PermitInv, PermitsConserved, Units
  <2> QED
    BY <1>1, <2>4, <2>5, <2>6, <2>7 DEF PermitInv, SemaphoreTypes
<1> QED
  BY <1>2, <1>3


\* Taking a permit, or finding none: a woken coroutine takes the permit that it
\* was counted for.
LEMMA TakePermit ==
  ASSUME SemaphoreTypes, PermitInv, NEW t \in Tasks, held[t] < MaxHeld,
         IF count_ > 0
         THEN count_' = count_ - 1 /\ held' = [held EXCEPT ![t] = @ + 1]
         ELSE UNCHANGED <<count_, held>>,
         k' = k, WokenTasks \ {t} \subseteq WokenTasks',
         \A u \in Tasks : (Committed(u)' => Committed(u)) /\ (Waking(u)' <=> Waking(u))
  PROVE  SemaphoreTypes' /\ PermitInv'
<1> USE InitialAssumption, MaxHeldAssumption DEF SemaphoreTypes
<1>1. SemaphoreTypes'
  <2>1. CASE count_ > 0
    <3>1. held[t] + 1 \in 0..Initial
      OBVIOUS
    <3> QED
      BY <2>1, <3>1
  <2>2. CASE ~(count_ > 0)
    BY <2>2
  <2> QED
    BY <2>1, <2>2
<1>t. /\ count_ \in Int /\ count_' \in Int /\ Initial \in Nat
      /\ held \in [Tasks -> 0..Initial] /\ held' \in [Tasks -> 0..Initial]
  BY <1>1
<1> HIDE InitialAssumption, MaxHeldAssumption DEF SemaphoreTypes
<1>2. Cardinality(Units(held, Initial)) \in Nat /\ Cardinality(Units(k, Initial)) \in Nat
  BY <1>t, UnitsFinite
<1>3. count_ >= 0 /\ count_ + Cardinality(Units(held, Initial)) = Initial
  BY DEF PermitInv, PermitsConserved
<1>4. PermitsConserved'
  <2>1. CASE count_ > 0
    <3>1. held'[t] = held[t] + 1 /\ \A u \in Tasks \ {t} : held'[u] = held[u]
      BY <1>t, <2>1
    <3>2. Cardinality(Units(held', Initial)) = Cardinality(Units(held, Initial)) + 1
      BY <1>t, <3>1, UnitsAdd
    <3>3. count_' >= 0 /\ count_' + Cardinality(Units(held', Initial)) = Initial
      BY <1>t, <1>2, <1>3, <2>1, <3>2
    <3>4. Units(held, Initial)' = Units(held', Initial)
      BY DEF Units
    <3> QED
      BY <3>3, <3>4 DEF PermitsConserved
  <2>2. CASE ~(count_ > 0)
    BY <1>3, <2>2 DEF PermitsConserved, Units
  <2> QED
    BY <2>1, <2>2
<1>5. \A u \in Tasks : (~Waking(u) => k[u] = 0)'
  BY DEF PermitInv
<1>6. Units(k, Initial)' = Units(k, Initial)
  BY DEF Units
<1>7. ASSUME \E u \in Tasks : Committed(u)'
      PROVE  count_' <= Cardinality(WokenTasks') + Cardinality(Units(k, Initial))
  <2>1. count_ <= Cardinality(WokenTasks) + Cardinality(Units(k, Initial))
    BY <1>7 DEF PermitInv
  <2>2. /\ WokenTasks \in SUBSET Tasks /\ WokenTasks' \in SUBSET Tasks
        /\ WokenTasks \ {t} \in SUBSET WokenTasks'
    BY DEF WokenTasks
  <2>3. IsFiniteSet(WokenTasks) /\ Cardinality(WokenTasks) \in Nat
    BY <2>2, TasksFinite
  <2>4. /\ Cardinality(WokenTasks') \in Nat /\ Cardinality(WokenTasks \ {t}) \in Nat
        /\ Cardinality(WokenTasks \ {t}) <= Cardinality(WokenTasks')
    BY <2>2, TasksFinite
  <2>5. Cardinality(WokenTasks \ {t}) >= Cardinality(WokenTasks) - 1
    <3>1. Cardinality(WokenTasks \ {t})
            = IF t \in WokenTasks THEN Cardinality(WokenTasks) - 1 ELSE Cardinality(WokenTasks)
      BY <2>3, FS_RemoveElement, Zenon
    <3> QED
      BY <2>3, <3>1
  <2>6. CASE count_ > 0
    BY <1>t, <1>2, <2>1, <2>3, <2>4, <2>5, <2>6
  <2>7. CASE ~(count_ > 0)
    BY <1>t, <1>2, <1>3, <2>4, <2>7
  <2> QED
    BY <2>6, <2>7
<1> QED
  BY <1>1, <1>4, <1>5, <1>6, <1>7 DEF PermitInv

\* A round of acquire() from outside or after a wake-up.
LEMMA AcquireStep ==
  ASSUME WaitInv, SemaphoreTypes, PermitInv, NEW t \in Tasks, Acquire(t)
  PROVE  WaitInv' /\ SemaphoreTypes' /\ PermitInv'
<1> DEFINE where == IF count_ > 0 THEN "idle" ELSE "check"
<1>1. /\ Runs(t) /\ pc[t] \in {"idle", "try"} /\ Goto(t, where) /\ k' = k
      /\ held[t] < MaxHeld
      /\ UNCHANGED <<runtime, waiters_, own>>
      /\ IF count_ > 0
         THEN count_' = count_ - 1 /\ held' = [held EXCEPT ![t] = @ + 1]
         ELSE UNCHANGED <<count_, held>>
  BY DEF Acquire
<1>2. where \in {"idle", "check"}
  OBVIOUS
<1> HIDE DEF where
<1>3. /\ WaitInv'
      /\ \A u \in Tasks \ {t} : Unaffected(u)
      /\ pc'[t] = where /\ own[t] = "none" /\ own' = own
      /\ ~Committed(t) /\ ~Committed(t)'
  BY <1>1, <1>2, JumpStep DEF Busy
<1>4. \A u \in Tasks \ {t} : /\ Committed(u)' <=> Committed(u)
                             /\ Waking(u)' <=> Waking(u)
                             /\ Woken(u)' <=> Woken(u)
  BY <1>3, UnaffectedKept
<1>5. ~Waking(t) /\ ~Waking(t)'
  BY <1>1, <1>2, <1>3 DEF Waking
<1>6. WokenTasks \ {t} \subseteq WokenTasks'
  BY <1>4 DEF WokenTasks
<1> QED
  BY <1>1, <1>3, <1>4, <1>5, <1>6, TakePermit

\* try_acquire() takes a permit from count_ and tells nobody.
LEMMA TryAcquireStep ==
  ASSUME WaitInv, SemaphoreTypes, PermitInv, NEW t \in Tasks, TryAcquire(t)
  PROVE  WaitInv' /\ SemaphoreTypes' /\ PermitInv'
<1>1. /\ WaitInv'
      /\ WokenTasks' = WokenTasks
      /\ \A u \in Tasks : (Committed(u)' <=> Committed(u)) /\ (Waking(u)' <=> Waking(u))
  BY SameWaiting DEF TryAcquire
<1> QED
  BY <1>1, TakePermit DEF TryAcquire

\* release(n) adds n permits and owes n wake-ups.
LEMMA ReleaseStep ==
  ASSUME WaitInv, SemaphoreTypes, PermitInv, NEW t \in Tasks, NEW n \in 1..Initial, Release(t, n)
  PROVE  WaitInv' /\ SemaphoreTypes' /\ PermitInv'
<1> USE InitialAssumption DEF SemaphoreTypes
<1>0. /\ Runs(t) /\ pc[t] = "idle" /\ Goto(t, "notify") /\ n \in 1..held[t]
      /\ UNCHANGED <<runtime, waiters_, own>>
      /\ held' = [held EXCEPT ![t] = @ - n]
      /\ count_' = count_ + n
      /\ k' = [k EXCEPT ![t] = n]
  BY DEF Release
<1>1. /\ WaitInv'
      /\ \A u \in Tasks \ {t} : Unaffected(u)
      /\ pc'[t] = "notify" /\ own[t] = "none" /\ own' = own
      /\ ~Committed(t) /\ ~Committed(t)'
  BY <1>0, JumpStep DEF Busy
<1>2. \A u \in Tasks \ {t} : /\ Committed(u)' <=> Committed(u)
                             /\ Waking(u)' <=> Waking(u)
                             /\ Woken(u)' <=> Woken(u)
  BY <1>1, UnaffectedKept
<1>3. ~Waking(t) /\ Waking(t)' /\ (Woken(t)' <=> Woken(t))
  BY <1>0, <1>1 DEF Waking, Woken
<1>4. WokenTasks' = WokenTasks
  BY <1>2, <1>3 DEF WokenTasks
<1>5. k[t] = 0
  BY <1>3 DEF PermitInv
<1>6. SemaphoreTypes'
  <2>1. held[t] - n \in 0..Initial
    BY <1>0
  <2> QED
    BY <1>0, <2>1
<1>7. Cardinality(Units(held, Initial)) = Cardinality(Units(held', Initial)) + n
  <2>1. held[t] = held'[t] + n /\ \A u \in Tasks \ {t} : held[u] = held'[u]
    BY <1>0
  <2>2. held \in [Tasks -> 0..Initial] /\ held' \in [Tasks -> 0..Initial] /\ n \in Nat /\ Initial \in Nat
    BY <1>6
  <2> HIDE DEF SemaphoreTypes
  <2> QED
    BY <2>1, <2>2, UnitsAdd
<1>8. Cardinality(Units(k', Initial)) = Cardinality(Units(k, Initial)) + n
  <2>1. k'[t] = k[t] + n /\ \A u \in Tasks \ {t} : k'[u] = k[u]
    BY <1>0, <1>5
  <2>2. k \in [Tasks -> 0..Initial] /\ k' \in [Tasks -> 0..Initial] /\ n \in Nat /\ Initial \in Nat
    BY <1>6
  <2> HIDE DEF SemaphoreTypes
  <2> QED
    BY <2>1, <2>2, UnitsAdd
<1>9. /\ Cardinality(Units(held', Initial)) \in Nat /\ Cardinality(Units(k, Initial)) \in Nat
      /\ Units(held, Initial)' = Units(held', Initial) /\ Units(k, Initial)' = Units(k', Initial)
  BY UnitsFinite DEF Units
<1>10. PermitsConserved'
  <2>1. count_ >= 0 /\ count_ + Cardinality(Units(held, Initial)) = Initial
    BY DEF PermitInv, PermitsConserved
  <2>2. count_' >= 0 /\ count_' + Cardinality(Units(held', Initial)) = Initial
    BY <1>0, <1>7, <1>9, <2>1
  <2> QED
    BY <1>9, <2>2 DEF PermitsConserved
<1>11. \A u \in Tasks : (~Waking(u) => k[u] = 0)'
  BY <1>0, <1>2, <1>3 DEF PermitInv
<1>12. ASSUME \E u \in Tasks : Committed(u)'
       PROVE  count_' <= Cardinality(WokenTasks') + Cardinality(Units(k', Initial))
  <2>1. count_ <= Cardinality(WokenTasks) + Cardinality(Units(k, Initial))
    BY <1>1, <1>2, <1>12 DEF PermitInv
  <2>2. WokenTasks \in SUBSET Tasks
    BY DEF WokenTasks
  <2>3. Cardinality(WokenTasks) \in Nat
    BY <2>2, TasksFinite
  <2>4. count_' <= Cardinality(WokenTasks) + Cardinality(Units(k', Initial))
    BY <1>0, <1>8, <1>9, <2>1, <2>3
  <2> QED
    BY <1>4, <2>4
<1> QED
  BY <1>1, <1>6, <1>9, <1>10, <1>11, <1>12 DEF PermitInv

\* release() may stop when nobody is linked: then nobody depends on it.
LEMMA ReleaseCheckStep ==
  ASSUME WaitInv, SemaphoreTypes, PermitInv, NEW t \in Tasks, ReleaseCheck(t)
  PROVE  WaitInv' /\ SemaphoreTypes' /\ PermitInv'
<1> USE InitialAssumption DEF SemaphoreTypes
<1> DEFINE where == IF waiters_ = <<>> THEN "idle" ELSE "wake"
<1>0. /\ Runs(t) /\ pc[t] = "notify" /\ Goto(t, where)
      /\ UNCHANGED <<runtime, waiters_, own, count_, held>>
      /\ k' = IF waiters_ = <<>> THEN [k EXCEPT ![t] = 0] ELSE k
  BY DEF ReleaseCheck, NotifyCheck
<1>1. where \in {"idle", "wake"} /\ (where = "idle" <=> waiters_ = <<>>)
  OBVIOUS
<1> HIDE DEF where
<1>2. /\ WaitInv'
      /\ \A u \in Tasks \ {t} : Unaffected(u)
      /\ pc'[t] = where /\ own[t] = "none" /\ own' = own
      /\ ~Committed(t) /\ ~Committed(t)'
  BY <1>0, <1>1, JumpStep DEF Busy
<1>3. \A u \in Tasks \ {t} : /\ Committed(u)' <=> Committed(u)
                             /\ Waking(u)' <=> Waking(u)
                             /\ Woken(u)' <=> Woken(u)
  BY <1>2, UnaffectedKept
<1>4. SemaphoreTypes'
  BY <1>0
<1>5. PermitsConserved'
  BY <1>0 DEF PermitInv, PermitsConserved, Units
<1>6. CASE waiters_ = <<>>
  <2>1. \A u \in Tasks : ~Committed(u)'
    BY <1>0, <1>6 DEF Committed, InList
  <2>2. \A u \in Tasks : (~Waking(u) => k[u] = 0)'
    BY <1>0, <1>3, <1>6 DEF PermitInv
  <2> QED
    BY <1>2, <1>4, <1>5, <2>1, <2>2 DEF PermitInv
<1>7. CASE waiters_ # <<>>
  <2>1. Waking(t) /\ Waking(t)' /\ (Woken(t)' <=> Woken(t))
    BY <1>0, <1>1, <1>2, <1>7 DEF Waking, Woken
  <2>2. Quiet
    BY <1>2, <2>1, LocalQuiet
  <2> QED
    BY <1>0, <1>2, <1>4, <1>7, <2>2, PermitQuiet DEF semaphore
<1> QED
  BY <1>6, <1>7

\* release() wakes as many as it owes: every wake-up it leaves is a coroutine.
LEMMA ReleaseWakeStep ==
  ASSUME WaitInv, SemaphoreTypes, PermitInv, NEW t \in Tasks, ReleaseWake(t)
  PROVE  WaitInv' /\ SemaphoreTypes' /\ PermitInv'
<1> USE InitialAssumption DEF SemaphoreTypes
<1>0. /\ Runs(t) /\ pc[t] = "wake" /\ fire_waiters(k[t]) /\ Goto(t, "idle")
      /\ UNCHANGED <<running, cancel_fn, requested, kick>>
      /\ k' = [k EXCEPT ![t] = 0] /\ UNCHANGED <<count_, held>>
      /\ k[t] \in Nat
  BY DEF ReleaseWake
<1>1. /\ WaitInv'
      /\ ~Waking(t)' /\ \A u \in Tasks \ {t} : Waking(u)' <=> Waking(u)
      /\ \A u \in Tasks : Committed(u)' => Committed(u)
  BY <1>0, WakeStep
<1>2. PICK fired \in SUBSET Tasks :
              /\ IsFiniteSet(fired) /\ fired \cap WokenTasks = {}
              /\ WokenTasks' = WokenTasks \cup fired
              /\ (\E u \in Tasks : Committed(u)') => Cardinality(fired) = k[t]
  BY <1>0, WakeStep
<1>3. SemaphoreTypes'
  BY <1>0
<1>4. PermitsConserved'
  BY <1>0 DEF PermitInv, PermitsConserved, Units
<1>5. \A u \in Tasks : (~Waking(u) => k[u] = 0)'
  BY <1>0, <1>1 DEF PermitInv
<1>6. Cardinality(Units(k, Initial)) = Cardinality(Units(k', Initial)) + k[t]
  <2>1. k[t] = k'[t] + k[t] /\ \A u \in Tasks \ {t} : k[u] = k'[u]
    BY <1>0
  <2>2. k \in [Tasks -> 0..Initial] /\ k' \in [Tasks -> 0..Initial] /\ k[t] \in Nat /\ Initial \in Nat
    BY <1>0, <1>3
  <2> HIDE DEF SemaphoreTypes
  <2> QED
    BY <2>1, <2>2, UnitsAdd
<1>7. Cardinality(Units(k', Initial)) \in Nat /\ Units(k, Initial)' = Units(k', Initial)
  BY UnitsFinite DEF Units
<1>8. ASSUME \E u \in Tasks : Committed(u)'
      PROVE  count_ <= Cardinality(WokenTasks') + Cardinality(Units(k', Initial))
  <2>1. count_ <= Cardinality(WokenTasks) + Cardinality(Units(k, Initial))
    BY <1>1, <1>8 DEF PermitInv
  <2>2. WokenTasks \in SUBSET Tasks
    BY DEF WokenTasks
  <2>3. IsFiniteSet(WokenTasks) /\ Cardinality(WokenTasks) \in Nat
    BY <2>2, TasksFinite
  <2>4. Cardinality(WokenTasks \cup fired)
          = Cardinality(WokenTasks) + Cardinality(fired) - Cardinality(WokenTasks \cap fired)
    BY <1>2, <2>3, FS_Union
  <2>5. WokenTasks \cap fired = {}
    BY <1>2
  <2>6. Cardinality({}) = 0
    BY FS_EmptySet
  <2>7. Cardinality(WokenTasks \cap fired) = 0
    BY <2>5, <2>6, Zenon
  <2>8. Cardinality(WokenTasks') = Cardinality(WokenTasks) + k[t] - 0
    BY <1>2, <1>8, <2>4, <2>7, Zenon
  <2> QED
    BY <1>0, <1>6, <1>7, <2>1, <2>3, <2>8
<1> QED
  BY <1>0, <1>1, <1>3, <1>4, <1>5, <1>7, <1>8 DEF PermitInv

\* Every step of a semaphore keeps its permits and its wake-ups.
LEMMA SemaphoreStep ==
  ASSUME WaitInv, SemaphoreTypes, PermitInv, NEW t \in Tasks, SemaphoreOp(t) \/ SemaphoreCall(t)
  PROVE  WaitInv' /\ SemaphoreTypes' /\ PermitInv'
<1>1. CASE SuspendStep(t) /\ UNCHANGED semaphore
  <2>1. WaitInv' /\ Quiet
    BY <1>1, QuietStep
  <2> QED
    BY <1>1, <2>1, PermitQuiet DEF SemaphoreTypes, semaphore
<1>2. CASE \E n \in 1..Initial : Release(t, n)
  BY <1>2, ReleaseStep
<1> QED
  BY <1>1, <1>2, RecheckCountStep, ReleaseCheckStep, ReleaseWakeStep, AcquireStep, TryAcquireStep
     DEF SemaphoreOp, SemaphoreCall

\* Every step of an event leaves a set flag with somebody on the way.
LEMMA EventStep ==
  ASSUME WaitInv, EventTypes, SignalInv, NEW t \in Tasks, EventOp(t) \/ EventCall(t)
  PROVE  WaitInv' /\ EventTypes' /\ SignalInv'
<1> DEFINE Kept == \A u \in Tasks \ {t} : /\ Committed(u)' <=> Committed(u)
                                          /\ Waking(u)' <=> Waking(u)
                                          /\ Woken(u)' <=> Woken(u)
<1>1. CASE SuspendStep(t) /\ UNCHANGED event
  <2>1. WaitInv' /\ Quiet
    BY <1>1, QuietStep
  <2>2. UNCHANGED <<set_, reset_>>
    BY <1>1 DEF event
  <2>3. SignalInv'
    BY <2>1, <2>2 DEF SignalInv, Quiet
  <2> QED
    BY <2>1, <2>2, <2>3 DEF EventTypes
<1>2. CASE RecheckFlag(t)
  <2>1. /\ WaitInv'
        /\ \A u \in Tasks \ {t} : Unaffected(u)
        /\ ~(~set_) => ~Committed(t)'
        /\ Waking(t)' <=> Waking(t)
        /\ Woken(t)' <=> Woken(t)
    BY <1>2, RecheckStep DEF RecheckFlag
  <2>2. Kept
    BY <2>1, UnaffectedKept
  <2>3. UNCHANGED <<set_, reset_>>
    BY <1>2 DEF RecheckFlag, event
  <2>4. SignalInv'
    BY <2>1, <2>2, <2>3 DEF SignalInv
  <2> QED
    BY <2>1, <2>3, <2>4 DEF EventTypes
<1>3. CASE SetCheck(t)
  <2> DEFINE where == IF waiters_ = <<>> THEN "idle" ELSE "wake"
  <2>1. /\ Runs(t) /\ pc[t] = "notify" /\ Goto(t, where)
        /\ UNCHANGED <<runtime, waiters_, own>> /\ UNCHANGED <<set_, reset_>>
    BY <1>3 DEF SetCheck, NotifyCheck, event
  <2>2. where \in {"idle", "wake"} /\ (where = "idle" <=> waiters_ = <<>>)
    OBVIOUS
  <2> HIDE DEF where
  <2>3. /\ WaitInv'
        /\ \A u \in Tasks \ {t} : Unaffected(u)
        /\ pc'[t] = where
    BY <2>1, <2>2, JumpStep DEF Busy
  <2>4. CASE waiters_ = <<>>
    <3>1. \A u \in Tasks : ~Committed(u)'
      BY <2>1, <2>4 DEF Committed, InList
    <3> QED
      BY <2>1, <2>3, <3>1 DEF SignalInv, EventTypes
  <2>5. CASE waiters_ # <<>>
    <3>1. Waking(t)'
      BY <2>2, <2>3, <2>5 DEF Waking
    <3> QED
      BY <2>1, <2>3, <3>1 DEF SignalInv, EventTypes
  <2> QED
    BY <2>4, <2>5
<1>4. CASE SetWake(t)
  <2> DEFINE n == IF reset_ = "Auto" THEN 1 ELSE Len(waiters_)
  <2>1. /\ Runs(t) /\ pc[t] = "wake" /\ fire_waiters(n) /\ Goto(t, "idle")
        /\ UNCHANGED <<running, cancel_fn, requested, kick>> /\ UNCHANGED <<set_, reset_>>
    BY <1>4 DEF SetWake, event
  <2>2. Len(waiters_) \in Nat /\ n \in Nat
    BY DEF WaitInv, WaitTypeOK
  <2>3. reset_ = "Auto" => n = 1
    OBVIOUS
  <2>4. reset_ # "Auto" => n = Len(waiters_)
    OBVIOUS
  <2> HIDE DEF n
  <2>5. WaitInv'
    BY <2>1, <2>2, WakeStep
  <2>6. PICK fired \in SUBSET Tasks :
              /\ IsFiniteSet(fired) /\ fired \cap WokenTasks = {}
              /\ WokenTasks' = WokenTasks \cup fired
              /\ (\E u \in Tasks : Committed(u)') => Cardinality(fired) = n
              /\ n >= Len(waiters_) => \A u \in Tasks : ~Committed(u)'
    BY <2>1, <2>2, WakeStep
  <2>7. CASE reset_ = "Auto"
    <3>1. ASSUME NEW u \in Tasks, Committed(u)' PROVE \E v \in Tasks : Woken(v)'
      <4>1. Cardinality(fired) = 1
        BY <2>3, <2>6, <2>7, <3>1
      <4>2. fired # {}
        BY <4>1, FS_EmptySet
      <4> QED
        BY <2>6, <4>2 DEF WokenTasks
    <3> QED
      BY <2>1, <2>5, <2>7, <3>1 DEF SignalInv, EventTypes
  <2>8. CASE reset_ # "Auto"
    <3>1. \A u \in Tasks : ~Committed(u)'
      BY <2>2, <2>4, <2>6, <2>8
    <3> QED
      BY <2>1, <2>5, <3>1 DEF SignalInv, EventTypes
  <2> QED
    BY <2>7, <2>8
<1>5. CASE TryConsume(t)
  <2> DEFINE where == IF set_ THEN "idle" ELSE "check"
  <2>1. /\ Runs(t) /\ pc[t] \in {"idle", "try"} /\ Goto(t, where)
        /\ UNCHANGED <<runtime, waiters_, own>> /\ reset_' = reset_
        /\ set_' = (set_ /\ reset_ = "Manual")
    BY <1>5 DEF TryConsume, EventTypes
  <2>2. where \in {"idle", "check"}
    OBVIOUS
  <2> HIDE DEF where
  <2>3. /\ WaitInv'
        /\ \A u \in Tasks \ {t} : Unaffected(u)
        /\ pc'[t] = where
        /\ ~Committed(t) /\ ~Committed(t)'
    BY <2>1, <2>2, JumpStep DEF Busy
  <2>4. Kept /\ ~Waking(t)
    BY <2>1, <2>3, UnaffectedKept DEF Waking
  <2>5. SignalInv'
    BY <2>1, <2>3, <2>4 DEF SignalInv, EventTypes
  <2> QED
    BY <2>1, <2>3, <2>5 DEF EventTypes
<1>6. CASE Set(t)
  <2> DEFINE where == IF set_ THEN "idle" ELSE "notify"
  <2>1. /\ Runs(t) /\ pc[t] = "idle" /\ Goto(t, where)
        /\ UNCHANGED <<runtime, waiters_, own>> /\ reset_' = reset_ /\ set_' = TRUE
    BY <1>6 DEF Set
  <2>2. where \in {"idle", "notify"} /\ (set_ => where = "idle") /\ (~set_ => where = "notify")
    OBVIOUS
  <2> HIDE DEF where
  <2>3. /\ WaitInv'
        /\ \A u \in Tasks \ {t} : Unaffected(u)
        /\ pc'[t] = where /\ own[t] = "none" /\ own' = own
        /\ ~Committed(t) /\ ~Committed(t)'
    BY <2>1, <2>2, JumpStep DEF Busy
  <2>4. Kept /\ ~Waking(t) /\ ~Woken(t)
    BY <2>1, <2>3, UnaffectedKept DEF Waking, Woken
  <2>5. SignalInv'
    <3>1. CASE set_
      BY <2>1, <2>3, <2>4, <3>1 DEF SignalInv
    <3>2. CASE ~set_
      <4>1. Waking(t)'
        BY <2>2, <2>3, <3>2 DEF Waking
      <4> QED
        BY <4>1 DEF SignalInv
    <3> QED
      BY <3>1, <3>2
  <2> QED
    BY <2>1, <2>3, <2>5 DEF EventTypes
<1>7. CASE ResetFlag(t)
  <2>1. UNCHANGED <<runtime, waitvars>> /\ set_' = FALSE /\ reset_' = reset_
    BY <1>7 DEF ResetFlag
  <2>2. WaitInv'
    BY <2>1, SameWaiting
  <2> QED
    BY <2>1, <2>2 DEF SignalInv, EventTypes
<1> QED
  BY <1>1, <1>2, <1>3, <1>4, <1>5, <1>6, <1>7 DEF EventOp, EventCall

\* Every step of a wait group keeps the counter equal to the open work, and at
\* zero leaves a done() to wake whoever is left.
LEMMA GroupStep ==
  ASSUME WaitInv, GroupTypes, WorkInv, NEW t \in Tasks, GroupOp(t) \/ GroupCall(t)
  PROVE  WaitInv' /\ GroupTypes' /\ WorkInv'
<1> USE MaxWorkAssumption
<1> DEFINE Kept == \A u \in Tasks \ {t} : /\ Committed(u)' <=> Committed(u)
                                          /\ Waking(u)' <=> Waking(u)
<1>a. ASSUME UNCHANGED <<cnt_, owed>>
      PROVE  GroupTypes' /\ cnt_' = Cardinality(Units(owed, MaxWork)')
  BY <1>a DEF WorkInv, GroupTypes, Units
<1>1. CASE SuspendStep(t) /\ UNCHANGED group
  <2>1. WaitInv' /\ Quiet
    BY <1>1, QuietStep
  <2>2. UNCHANGED <<cnt_, owed>>
    BY <1>1 DEF group
  <2>3. NoWaiterAtZero'
    BY <2>1, <2>2 DEF WorkInv, NoWaiterAtZero, Quiet
  <2> QED
    BY <1>a, <2>1, <2>2, <2>3 DEF WorkInv
<1>2. CASE RecheckWork(t)
  <2>1. /\ WaitInv'
        /\ \A u \in Tasks \ {t} : Unaffected(u)
        /\ ~(cnt_ # 0) => ~Committed(t)'
        /\ Waking(t)' <=> Waking(t)
    BY <1>2, RecheckStep DEF RecheckWork
  <2>2. Kept
    BY <2>1, UnaffectedKept
  <2>3. UNCHANGED <<cnt_, owed>>
    BY <1>2 DEF RecheckWork, group
  <2>4. NoWaiterAtZero'
    BY <2>1, <2>2, <2>3 DEF WorkInv, NoWaiterAtZero
  <2> QED
    BY <1>a, <2>1, <2>3, <2>4 DEF WorkInv
<1>3. CASE DoneCheck(t)
  <2> DEFINE where == IF waiters_ = <<>> THEN "idle" ELSE "wake"
  <2>1. /\ Runs(t) /\ pc[t] = "notify" /\ Goto(t, where)
        /\ UNCHANGED <<runtime, waiters_, own>> /\ UNCHANGED <<cnt_, owed>>
    BY <1>3 DEF DoneCheck, NotifyCheck, group
  <2>2. where \in {"idle", "wake"} /\ (where = "idle" <=> waiters_ = <<>>)
    OBVIOUS
  <2> HIDE DEF where
  <2>3. WaitInv' /\ pc'[t] = where
    BY <2>1, <2>2, JumpStep DEF Busy
  <2>4. NoWaiterAtZero'
    <3>1. CASE waiters_ = <<>>
      BY <2>1, <3>1 DEF NoWaiterAtZero, Committed, InList
    <3>2. CASE waiters_ # <<>>
      BY <2>2, <2>3, <3>2 DEF NoWaiterAtZero, Waking
    <3> QED
      BY <3>1, <3>2
  <2> QED
    BY <1>a, <2>1, <2>3, <2>4 DEF WorkInv
<1>4. CASE DoneWake(t)
  <2>1. /\ Runs(t) /\ pc[t] = "wake" /\ fire_waiters(Len(waiters_)) /\ Goto(t, "idle")
        /\ UNCHANGED <<running, cancel_fn, requested, kick>> /\ UNCHANGED <<cnt_, owed>>
    BY <1>4 DEF DoneWake, group
  <2>2. Len(waiters_) \in Nat /\ Len(waiters_) >= Len(waiters_)
    BY DEF WaitInv, WaitTypeOK
  <2>3. WaitInv'
    BY <2>1, <2>2, WakeStep
  <2>4. \A u \in Tasks : ~Committed(u)'
    BY <2>1, <2>2, WakeStep
  <2> QED
    BY <1>a, <2>1, <2>3, <2>4 DEF WorkInv, NoWaiterAtZero
<1>5. CASE TryWait(t)
  <2> DEFINE where == IF cnt_ = 0 THEN "idle" ELSE "check"
  <2>1. /\ Runs(t) /\ pc[t] \in {"idle", "try"} /\ Goto(t, where)
        /\ UNCHANGED <<runtime, waiters_, own>> /\ UNCHANGED <<cnt_, owed>>
    BY <1>5 DEF TryWait, group
  <2>2. where \in {"idle", "check"}
    OBVIOUS
  <2> HIDE DEF where
  <2>3. /\ WaitInv'
        /\ \A u \in Tasks \ {t} : Unaffected(u)
        /\ ~Committed(t)'
    BY <2>1, <2>2, JumpStep DEF Busy
  <2>4. Kept /\ ~Waking(t)
    BY <2>1, <2>3, UnaffectedKept DEF Waking
  <2>5. NoWaiterAtZero'
    BY <2>1, <2>3, <2>4 DEF WorkInv, NoWaiterAtZero
  <2> QED
    BY <1>a, <2>1, <2>3, <2>5 DEF WorkInv
<1>6. CASE Done(t)
  <2> DEFINE where == IF cnt_ # 1 THEN "idle" ELSE "notify"
  <2>1. /\ Runs(t) /\ pc[t] = "idle" /\ Goto(t, where) /\ owed[t] > 0
        /\ UNCHANGED <<runtime, waiters_, own>>
        /\ cnt_' = cnt_ - 1 /\ owed' = [owed EXCEPT ![t] = @ - 1]
    BY <1>6 DEF Done
  <2>2. where \in {"idle", "notify"} /\ (cnt_ = 1 => where = "notify")
    OBVIOUS
  <2> HIDE DEF where
  <2>3. /\ WaitInv'
        /\ \A u \in Tasks \ {t} : Unaffected(u)
        /\ pc'[t] = where
    BY <2>1, <2>2, JumpStep DEF Busy
  <2>4. owed' \in [Tasks -> 0..MaxWork] /\ owed \in [Tasks -> 0..MaxWork] /\ MaxWork \in Nat
    BY <2>1 DEF GroupTypes
  <2>5. owed[t] = owed'[t] + 1 /\ \A u \in Tasks \ {t} : owed[u] = owed'[u]
    BY <2>1 DEF GroupTypes
  <2>6. Cardinality(Units(owed, MaxWork)) = Cardinality(Units(owed', MaxWork)) + 1
    BY <2>4, <2>5, UnitsAdd
  <2>7. Cardinality(Units(owed', MaxWork)) \in Nat /\ Units(owed, MaxWork)' = Units(owed', MaxWork)
    BY UnitsFinite DEF Units
  <2>8. cnt_' \in Nat /\ cnt_' = Cardinality(Units(owed', MaxWork))
    BY <2>1, <2>6, <2>7 DEF WorkInv, GroupTypes
  <2>9. NoWaiterAtZero'
    <3>1. cnt_' = 0 => Waking(t)'
      BY <2>1, <2>2, <2>3 DEF Waking, GroupTypes
    <3> QED
      BY <3>1 DEF NoWaiterAtZero
  <2> QED
    BY <2>3, <2>4, <2>7, <2>8, <2>9 DEF WorkInv, GroupTypes
<1>7. ASSUME NEW n \in 1..MaxWork, Add(t, n) PROVE WaitInv' /\ GroupTypes' /\ WorkInv'
  <2>1. /\ UNCHANGED <<runtime, waitvars>> /\ owed[t] + n <= MaxWork
        /\ cnt_' = cnt_ + n /\ owed' = [owed EXCEPT ![t] = @ + n]
    BY <1>7 DEF Add
  <2>2. WaitInv'
    BY <2>1, SameWaiting
  <2>3. owed[t] + n \in 0..MaxWork
    BY <2>1 DEF GroupTypes
  <2>4. owed' \in [Tasks -> 0..MaxWork] /\ owed \in [Tasks -> 0..MaxWork] /\ MaxWork \in Nat /\ n \in Nat
    BY <2>1, <2>3 DEF GroupTypes
  <2>5. owed'[t] = owed[t] + n /\ \A u \in Tasks \ {t} : owed'[u] = owed[u]
    BY <2>1 DEF GroupTypes
  <2>6. Cardinality(Units(owed', MaxWork)) = Cardinality(Units(owed, MaxWork)) + n
    BY <2>4, <2>5, UnitsAdd
  <2>7. Units(owed, MaxWork)' = Units(owed', MaxWork)
    BY DEF Units
  <2>8. cnt_' \in Nat /\ cnt_' = Cardinality(Units(owed', MaxWork)) /\ cnt_' # 0
    BY <2>1, <2>6 DEF WorkInv, GroupTypes
  <2> QED
    BY <2>2, <2>4, <2>7, <2>8 DEF WorkInv, GroupTypes, NoWaiterAtZero
<1> QED
  BY <1>1, <1>2, <1>3, <1>4, <1>5, <1>6, <1>7 DEF GroupOp, GroupCall

(***************************************************************************)
(* The theorems                                                            *)
(***************************************************************************)

\* A fresh primitive satisfies the invariant.
LEMMA InitIInv == Init => IInv
<1> SUFFICES ASSUME Init PROVE IInv
  OBVIOUS
<1> USE DEF Init, SemaphoreInit, EventInit, GroupInit
<1>1. WaitTypeOK(Points)
  BY DEF WaitInit, RuntimeInit, WaitTypeOK, RuntimeTypeOK, Points, WaitPoints
<1>2. OwnTypes
  BY InitialAssumption, MaxWorkAssumption DEF OwnTypes, SemaphoreTypes, EventTypes, GroupTypes
<1>3. InList(waiters_) = {} /\ Distinct(waiters_)
  BY DEF WaitInit, InList, Distinct
<1>4. \A t \in Tasks : TaskInv(t)
  <2>1. ASSUME NEW t \in Tasks PROVE pc[t] = "idle" /\ ready[t] = 1 /\ own[t] = "none" /\ ~Runs(t)
    BY HomeAssumption, NoneAssumption DEF WaitInit, RuntimeInit, Runs
  <2> QED
    BY <1>3, <2>1 DEF TaskInv, Busy, Parking, Attached
<1>5. \A t \in Tasks : ~Committed(t)
  BY <1>3 DEF Committed
<1>6. PermitInv
  <2>1. Cardinality(Units(held, Initial)) = 0
    BY UnitsNone, InitialAssumption
  <2> QED
    BY <1>5, <2>1, InitialAssumption DEF PermitInv, PermitsConserved
<1>7. WorkInv
  <2>1. Cardinality(Units(owed, MaxWork)) = 0
    BY UnitsNone, MaxWorkAssumption
  <2> QED
    BY <1>5, <2>1 DEF WorkInv, NoWaiterAtZero
<1> QED
  BY <1>1, <1>2, <1>3, <1>4, <1>5, <1>6, <1>7, TypeSplit DEF IInv, WaitInv, SignalInv

\* Every step of every primitive keeps it.
LEMMA NextIInv == IInv /\ [Next]_vars => IInv'
<1> SUFFICES ASSUME IInv, [Next]_vars PROVE IInv'
  OBVIOUS
<1>0. /\ WaitInv /\ OwnTypes
      /\ kind = "semaphore" => PermitInv
      /\ kind = "event" => SignalInv
      /\ kind = "group" => WorkInv
  BY TypeSplit DEF IInv
<1>1. TypeOK' <=> WaitTypeOK(Points)' /\ OwnTypes'
  BY DEF TypeOK, SemaphoreTypeOK, EventTypeOK, GroupTypeOK, OwnTypes, SemaphoreTypes, EventTypes,
         GroupTypes, Points
<1>2. ASSUME NEW t \in Tasks, OnSemaphore(SemaphoreOp(t)) \/ OnSemaphore(SemaphoreCall(t))
      PROVE  IInv'
  <2>1. /\ kind = "semaphore" /\ kind' = kind /\ (SemaphoreOp(t) \/ SemaphoreCall(t))
        /\ UNCHANGED <<set_, reset_, cnt_, owed>>
    BY <1>2 DEF OnSemaphore, event, group
  <2>2. WaitInv' /\ SemaphoreTypes' /\ PermitInv'
    BY <1>0, <2>1, SemaphoreStep DEF OwnTypes
  <2>3. OwnTypes'
    BY <1>0, <2>1, <2>2 DEF OwnTypes, EventTypes, GroupTypes
  <2> QED
    BY <1>1, <2>1, <2>2, <2>3 DEF IInv, WaitInv
<1>3. ASSUME NEW t \in Tasks, OnEvent(EventOp(t)) \/ OnEvent(EventCall(t))
      PROVE  IInv'
  <2>1. /\ kind = "event" /\ kind' = kind /\ (EventOp(t) \/ EventCall(t))
        /\ UNCHANGED <<count_, held, k, cnt_, owed>>
    BY <1>3 DEF OnEvent, semaphore, group
  <2>2. WaitInv' /\ EventTypes' /\ SignalInv'
    BY <1>0, <2>1, EventStep DEF OwnTypes
  <2>3. OwnTypes'
    BY <1>0, <2>1, <2>2 DEF OwnTypes, SemaphoreTypes, GroupTypes
  <2> QED
    BY <1>1, <2>1, <2>2, <2>3 DEF IInv, WaitInv
<1>4. ASSUME NEW t \in Tasks, OnGroup(GroupOp(t)) \/ OnGroup(GroupCall(t))
      PROVE  IInv'
  <2>1. /\ kind = "group" /\ kind' = kind /\ (GroupOp(t) \/ GroupCall(t))
        /\ UNCHANGED <<count_, held, k, set_, reset_>>
    BY <1>4 DEF OnGroup, semaphore, event
  <2>2. WaitInv' /\ GroupTypes' /\ WorkInv'
    BY <1>0, <2>1, GroupStep DEF OwnTypes
  <2>3. OwnTypes'
    BY <1>0, <2>1, <2>2 DEF OwnTypes, SemaphoreTypes, EventTypes
  <2> QED
    BY <1>1, <2>1, <2>2, <2>3 DEF IInv, WaitInv
<1>5. ASSUME UNCHANGED <<semaphore, event, group, kind>>, WaitInv', Quiet
      PROVE  IInv'
  <2>1. UNCHANGED <<count_, held, k, set_, reset_, cnt_, owed, kind>>
    BY <1>5 DEF semaphore, event, group
  <2>2. OwnTypes'
    BY <1>0, <2>1 DEF OwnTypes, SemaphoreTypes, EventTypes, GroupTypes
  <2>3. kind = "semaphore" => PermitInv'
    BY <1>0, <1>5, PermitQuiet DEF OwnTypes
  <2>4. kind = "event" => SignalInv'
    BY <1>0, <1>5, <2>1 DEF SignalInv, Quiet
  <2>5. kind = "group" => WorkInv'
    <3>1. Units(owed, MaxWork)' = Units(owed, MaxWork)
      BY <2>1 DEF Units
    <3> QED
      BY <1>0, <1>5, <2>1, <3>1 DEF WorkInv, NoWaiterAtZero, Quiet
  <2> QED
    BY <1>1, <1>5, <2>1, <2>2, <2>3, <2>4, <2>5 DEF IInv, WaitInv
<1>6. ASSUME NEW t \in Tasks, OnAny(LoopStep(t)) PROVE IInv'
  BY <1>0, <1>5, <1>6, QuietStep DEF OnAny
<1>7. CASE Next
  BY <1>2, <1>3, <1>4, <1>6, <1>7 DEF Next, Op, Call
<1>8. CASE UNCHANGED vars
  <2>1. UNCHANGED <<runtime, waitvars>> /\ UNCHANGED <<semaphore, event, group, kind>>
    BY <1>8 DEF vars
  <2>2. WaitInv' /\ WokenTasks' = WokenTasks
        /\ \A u \in Tasks : (Committed(u)' <=> Committed(u)) /\ (Waking(u)' <=> Waking(u))
    BY <1>0, <2>1, SameWaiting
  <2>3. Quiet
    BY <2>2 DEF Quiet, WokenTasks
  <2> QED
    BY <1>5, <2>1, <2>2, <2>3
<1> QED
  BY <1>7, <1>8

\* The invariant holds in every behaviour, whichever primitive is shared.
THEOREM WaitPrimitivesInvariant == Spec => []IInv
BY InitIInv, NextIInv, PTL DEF Spec

\* OpWait and Waiter::claim: a suspended coroutine stays reachable and is
\* enqueued once, by its waker or by its cancellation.
THEOREM WaitersResumedExactlyOnce == Spec => []ResumedExactlyOnce
<1>1. ASSUME IInv, NEW t \in Tasks
      PROVE  /\ ready[t] <= 1
             /\ Runs(t) /\ pc[t] \notin Attached => ready[t] = 0
             /\ pc[t] = "parked" => t \in InList(waiters_) \/ ready[t] = 1
  <2>1. TaskInv(t) /\ pc[t] \in Points
    BY <1>1 DEF IInv, WaitInv, WaitTypeOK
  <2>2. pc[t] \in Busy \/ pc[t] = "idle" \/ pc[t] \in Attached \/ pc[t] = "parked"
    BY <2>1 DEF Points, WaitPoints, Busy
  <2>3. ready[t] \in {0, 1}
    BY <2>1, <2>2 DEF TaskInv, Parking
  <2> QED
    BY <2>1, <2>2, <2>3 DEF TaskInv, Parking
<1>2. IInv => ResumedExactlyOnce
  BY <1>1 DEF IInv, ResumedExactlyOnce, ResumedOnce, NeverParkedForGood
<1> QED
  BY <1>2, WaitPrimitivesInvariant, PTL

\* try_acquire() and release(): no permit is lost or made up.
THEOREM PermitsAreConserved == Spec => []SemaphorePermitsConserved
<1>1. IInv => SemaphorePermitsConserved
  BY DEF IInv, PermitInv, SemaphorePermitsConserved
<1> QED
  BY <1>1, WaitPrimitivesInvariant, PTL

\* release(), set() and done() against the second look of attach(): while a
\* coroutine depends on being woken, somebody is on the way to every permit, to
\* the flag, or, at zero, to the waiters.
THEOREM NoWakeupIsMissed == Spec => []NoMissedWakeup
<1>1. ASSUME IInv PROVE NoMissedWakeup
  <2>0. OwnTypes
    BY <1>1, TypeSplit DEF IInv
  <2>1. ASSUME NEW t \in Tasks, Woken(t) PROVE Looking(t)
    <3>1. TaskInv(t) /\ pc[t] \in Points
      BY <1>1 DEF IInv, WaitInv, WaitTypeOK
    <3> QED
      BY <2>1, <3>1 DEF Woken, Looking, TaskInv, Parking, Attached
  <2>2. ASSUME PermitInv PROVE NoLostPermit
    <3> DEFINE owing == {p \in Units(k, Initial) : Waking(p[1])}
               looking == {t \in Tasks : Looking(t)}
    <3>1. ASSUME NEW p \in Units(k, Initial) PROVE Waking(p[1])
      <4>1. p[1] \in Tasks /\ p[2] \in 1..Initial /\ p[2] <= k[p[1]]
        BY DEF Units
      <4>2. k[p[1]] # 0
        BY <4>1
      <4> QED
        BY <2>2, <4>1, <4>2 DEF PermitInv
    <3>2. owing = Units(k, Initial)
      BY <3>1
    <3>3. looking \in SUBSET Tasks /\ WokenTasks \in SUBSET looking
      BY <2>1 DEF WokenTasks
    <3> HIDE DEF owing, looking
    <3>4. /\ Cardinality(looking) \in Nat /\ Cardinality(WokenTasks) \in Nat
          /\ Cardinality(WokenTasks) <= Cardinality(looking)
      BY <3>3, TasksFinite
    <3>5. Cardinality(Units(k, Initial)) \in Nat
      BY UnitsFinite, InitialAssumption
    <3>6. ASSUME \E t \in Tasks : Committed(t) PROVE count_ <= Cardinality(looking) + Cardinality(owing)
      <4>1. count_ <= Cardinality(WokenTasks) + Cardinality(Units(k, Initial))
        BY <2>2, <3>6 DEF PermitInv
      <4>2. count_ <= Cardinality(looking) + Cardinality(Units(k, Initial))
        BY <2>0, <3>4, <3>5, <4>1 DEF OwnTypes, SemaphoreTypes
      <4> QED
        BY <3>2, <4>2, Zenon
    <3> QED
      BY <3>6 DEF NoLostPermit, owing, looking
  <2>3. SignalInv => NoLostSignal
    BY <2>1 DEF SignalInv, NoLostSignal
  <2> QED
    BY <1>1, <2>0, <2>2, <2>3 DEF IInv, NoMissedWakeup, WorkInv, OwnTypes
<1> QED
  BY <1>1, WaitPrimitivesInvariant, PTL
=============================================================================
