-------------------------- MODULE AsyncMutexProofs --------------------------
(***************************************************************************)
(* The mutex's safety for any number of coroutines and workers.            *)
(*                                                                         *)
(* Neither "one owner" nor "resumed once" is inductive: both rest on where *)
(* the single right to resume a waiter is.  A linked waiter has no handle  *)
(* in any queue; whoever unlinks it, unlock() or a cancellation, owes it   *)
(* exactly one, and an unlock() that still owes it is the only one.        *)
(***************************************************************************)
EXTENDS AsyncMutex, WaitListProofs

Waiting == Attached \cup {"parked"}

\* Some unlock() has popped t and not yet enqueued its handle.
InFlight(t) == \E u \in Tasks : pc[u] = "handoff" /\ target[u] = t

\* The linked waiters are inside lock() and unclaimed.
ListInv ==
  /\ Distinct(waiters_)
  /\ \A t \in InList(waiters_) : pc[t] \in Waiting /\ ~own[t]

\* A coroutine between two suspension points runs, and only then.
RunInv ==
  \A t \in Tasks :
    /\ pc[t] \in {"check", "enlist", "handoff"} => Runs(t) /\ ready[t] = 0
    /\ pc[t] \in {"out", "guard"} => ready[t] = IF Runs(t) THEN 0 ELSE 1
    /\ pc[t] \in Attached => Runs(t)
    /\ pc[t] \in Attached \cup {"enlist"} => ~own[t]
    /\ pc[t] = "parked" => ~Runs(t)

\* The right to resume a waiter is in one place.
TokenInv ==
  \A t \in Tasks : pc[t] \in Waiting =>
    /\ t \in InList(waiters_) => ready[t] = 0
    /\ t \notin InList(waiters_) /\ own[t] => ready[t] = 1
    /\ Granted(t) => ready[t] = IF InFlight(t) THEN 0 ELSE 1

\* One hand-off at a time, to a coroutine that already owns the mutex.
HandoffInv ==
  /\ \A u \in Tasks : pc[u] = "handoff" => target[u] \in Tasks /\ Granted(target[u])
  /\ \A u, v \in Tasks : pc[u] = "handoff" /\ pc[v] = "handoff" => u = v

IInv ==
  /\ TypeOK /\ ListInv /\ RunInv /\ TokenInv /\ HandoffInv
  /\ ExactlyOneOwner /\ NoStrandedWaiter

\* A fresh mutex (AsyncMutex.h, state_ zero and an empty list) satisfies it.
LEMMA InitIInv == Init => IInv
<1> SUFFICES ASSUME Init PROVE IInv
  OBVIOUS
<1> USE HomeAssumption, NoneAssumption DEF Init, RuntimeInit
<1>1. InList(waiters_) = {}
  BY DEF InList
<1>2. TypeOK
  BY DEF TypeOK, RuntimeTypeOK
<1>3. ListInv
  BY <1>1 DEF ListInv, Distinct
<1>4. RunInv
  BY DEF RunInv, Runs, Attached
<1>5. TokenInv /\ HandoffInv
  BY DEF TokenInv, HandoffInv, Waiting, Attached
<1>6. ExactlyOneOwner /\ NoStrandedWaiter
  BY DEF ExactlyOneOwner, NoStrandedWaiter, Owners, Granted, Attached
<1> QED
  BY <1>2, <1>3, <1>4, <1>5, <1>6 DEF IInv

\* Only coroutines are linked.
LEMMA LinkedAreTasks == TypeOK => InList(waiters_) \subseteq Tasks
BY DEF TypeOK, InList

\* The compare-and-swap of await_ready() keeps the invariant.
LEMMA LockFastStep == ASSUME IInv, NEW t \in Tasks, LockFast(t) PROVE IInv'
<1> USE HomeAssumption, NoneAssumption DEF LockFast, runtime, Goto
<1>1. TypeOK'
  BY LinkedAreTasks DEF IInv, TypeOK, RuntimeTypeOK
<1>2. ListInv'
  BY LinkedAreTasks DEF IInv, ListInv, TypeOK, Waiting, Attached
<1>3. RunInv'
  BY LinkedAreTasks DEF IInv, RunInv, Runs, TypeOK, Attached
<1>4. TokenInv'
  BY LinkedAreTasks DEF IInv, TokenInv, TypeOK, Waiting, Granted, InFlight, Attached
<1>5. HandoffInv'
  BY LinkedAreTasks DEF IInv, HandoffInv, TypeOK, Granted, Attached
<1>6. ExactlyOneOwner' /\ NoStrandedWaiter'
  BY LinkedAreTasks DEF IInv, ExactlyOneOwner, NoStrandedWaiter, TypeOK, Owners, Granted, Attached
<1> QED
  BY <1>1, <1>2, <1>3, <1>4, <1>5, <1>6 DEF IInv

\* So does the first test for cancellation.
LEMMA CheckCancelStep == ASSUME IInv, NEW t \in Tasks, CheckCancel(t) PROVE IInv'
<1> USE HomeAssumption, NoneAssumption DEF CheckCancel, runtime, Goto
<1>1. TypeOK'
  BY LinkedAreTasks DEF IInv, TypeOK, RuntimeTypeOK
<1>2. ListInv'
  BY LinkedAreTasks DEF IInv, ListInv, TypeOK, Waiting, Attached
<1>3. RunInv'
  BY LinkedAreTasks DEF IInv, RunInv, Runs, TypeOK, Attached
<1>4. TokenInv'
  BY LinkedAreTasks DEF IInv, TokenInv, TypeOK, Waiting, Granted, InFlight, Attached
<1>5. HandoffInv'
  BY LinkedAreTasks DEF IInv, HandoffInv, TypeOK, Granted, Attached
<1>6. ExactlyOneOwner' /\ NoStrandedWaiter'
  BY LinkedAreTasks DEF IInv, ExactlyOneOwner, NoStrandedWaiter, TypeOK, Owners, Granted, Attached
<1> QED
  BY <1>1, <1>2, <1>3, <1>4, <1>5, <1>6 DEF IInv

\* Linking the node keeps it: nobody may resume a coroutine that is linked.
LEMMA EnlistStep == ASSUME IInv, NEW t \in Tasks, Enlist(t) PROVE IInv'
<1> USE HomeAssumption, NoneAssumption DEF Enlist, runtime, Goto
<1>0. pc[t] \notin Waiting /\ t \notin InList(waiters_)
  BY DEF IInv, ListInv, Waiting, Attached
<1>a. state_ # 0 => /\ waiters_' \in Seq(Tasks)
                    /\ InList(waiters_') = InList(waiters_) \cup {t}
                    /\ Distinct(waiters_')
                    /\ waiters_' # <<>>
  BY <1>0, PushLocked DEF IInv, TypeOK, ListInv
<1>1. TypeOK'
  BY <1>0, <1>a, LinkedAreTasks DEF IInv, TypeOK, RuntimeTypeOK, Attached
<1>2. ListInv'
  <2>1. CASE state_ = 0
    BY <2>1, LinkedAreTasks DEF IInv, ListInv, TypeOK, Waiting, Attached
  <2>2. CASE state_ # 0
    <3>1. ~own[t]
      BY DEF IInv, RunInv
    <3> QED
      BY <1>a, <2>2, <3>1, LinkedAreTasks DEF IInv, ListInv, TypeOK, Waiting, Attached
  <2> QED
    BY <2>1, <2>2
<1>3. RunInv'
  <2>1. \A u \in Tasks : Runs(u)' <=> Runs(u)
    BY DEF Runs
  <2>2. \A u \in Tasks \ {t} : pc'[u] = pc[u]
    BY DEF IInv, TypeOK
  <2>3. pc'[t] \in {"guard", "arm"} /\ Runs(t) /\ ready[t] = 0 /\ ~own[t]
    BY DEF IInv, TypeOK, RunInv
  <2> QED
    BY <2>1, <2>2, <2>3 DEF IInv, RunInv, Attached
<1>4. TokenInv'
  <2>1. CASE state_ = 0
    BY <2>1 DEF IInv, TokenInv, TypeOK, Waiting, Granted, InFlight, Attached
  <2>2. CASE state_ # 0
    <3>1. \A u \in Tasks \ {t} : /\ pc'[u] = pc[u]
                                 /\ u \in InList(waiters_') <=> u \in InList(waiters_)
      BY <1>a, <2>2 DEF IInv, TypeOK
    <3>2. t \in InList(waiters_') /\ ready[t] = 0 /\ pc'[t] = "arm"
      BY <1>a, <2>2 DEF IInv, RunInv, TypeOK
    <3>3. \A u \in Tasks : InFlight(u)' <=> InFlight(u)
      BY <3>1, <3>2 DEF InFlight
    <3> QED
      BY <3>1, <3>2, <3>3 DEF IInv, TokenInv, Granted, Waiting
  <2> QED
    BY <2>1, <2>2
<1>5. HandoffInv'
  BY <1>0, <1>a, LinkedAreTasks DEF IInv, HandoffInv, TypeOK, Granted, Attached
<1>6. ExactlyOneOwner' /\ NoStrandedWaiter'
  BY <1>0, <1>a, LinkedAreTasks DEF IInv, ExactlyOneOwner, NoStrandedWaiter, TypeOK, Owners, Granted, Attached
<1> QED
  BY <1>1, <1>2, <1>3, <1>4, <1>5, <1>6 DEF IInv

\* Arming the hook, with or without suspending, keeps it.
LEMMA ArmCancelStep == ASSUME IInv, NEW t \in Tasks, ArmCancel(t) PROVE IInv'
<1> USE HomeAssumption, NoneAssumption DEF ArmCancel, runtime, Suspend, Goto
<1>1. TypeOK'
  BY LinkedAreTasks DEF IInv, TypeOK, RuntimeTypeOK, Attached
<1>2. ListInv'
  BY LinkedAreTasks DEF IInv, ListInv, TypeOK, Waiting, Attached
<1>3. RunInv'
  <2>1. \A u \in Tasks \ {t} : Runs(u)' <=> Runs(u)
    <3>1. ASSUME NEW u \in Tasks \ {t} PROVE Runs(u)' <=> Runs(u)
      <4>1. CASE running' = running
        BY <4>1 DEF Runs
      <4>2. CASE running' = [running EXCEPT ![Home[t]] = None] /\ Home[u] = Home[t]
        BY <4>2, <3>1 DEF IInv, TypeOK, RuntimeTypeOK, Runs
      <4>3. CASE running' = [running EXCEPT ![Home[t]] = None] /\ Home[u] # Home[t]
        BY <4>3 DEF IInv, TypeOK, RuntimeTypeOK, Runs
      <4> QED
        BY <4>1, <4>2, <4>3
    <3> QED
      BY <3>1
  <2>2. Runs(t)' <=> requested[t]
    BY DEF IInv, TypeOK, RuntimeTypeOK, Runs
  <2> QED
    BY <2>1, <2>2 DEF IInv, RunInv, TypeOK, Attached
<1>4. TokenInv'
  BY LinkedAreTasks DEF IInv, TokenInv, TypeOK, Waiting, Granted, InFlight, Attached
<1>5. HandoffInv'
  BY LinkedAreTasks DEF IInv, HandoffInv, TypeOK, Granted, Attached
<1>6. ExactlyOneOwner' /\ NoStrandedWaiter'
  BY LinkedAreTasks DEF IInv, ExactlyOneOwner, NoStrandedWaiter, TypeOK, Owners, Granted, Attached
<1> QED
  BY <1>1, <1>2, <1>3, <1>4, <1>5, <1>6 DEF IInv

\* Withdrawing unlinks the waiter or leaves it to the unlock() that popped it.
LEMMA WithdrawSelfStep == ASSUME IInv, NEW t \in Tasks, WithdrawSelf(t) PROVE IInv'
<1> USE HomeAssumption, NoneAssumption DEF WithdrawSelf, runtime, Suspend, Goto
<1>a. t \in InList(waiters_) => /\ waiters_' \in Seq(Tasks)
                                 /\ InList(waiters_') = InList(waiters_) \ {t}
                                 /\ Distinct(waiters_')
  BY RemoveLocked DEF IInv, TypeOK, ListInv
<1>0. t \in InList(waiters_) => waiters_ # <<>>
  BY DEF InList
<1>1. TypeOK'
  BY <1>0, <1>a, LinkedAreTasks DEF IInv, TypeOK, RuntimeTypeOK
<1>2. ListInv'
  BY <1>0, <1>a, LinkedAreTasks DEF IInv, ListInv, TypeOK, Waiting, Attached
<1>3. RunInv'
  BY <1>0, <1>a, LinkedAreTasks DEF IInv, RunInv, TokenInv, Runs, TypeOK, RuntimeTypeOK, Waiting, Attached
<1>4. TokenInv'
  BY <1>0, <1>a, LinkedAreTasks DEF IInv, TokenInv, TypeOK, Waiting, Granted, InFlight, Attached
<1>5. HandoffInv'
  BY <1>0, <1>a, LinkedAreTasks DEF IInv, HandoffInv, TypeOK, Granted, Attached
<1>6. ExactlyOneOwner' /\ NoStrandedWaiter'
  BY <1>0, <1>a, LinkedAreTasks DEF IInv, ExactlyOneOwner, NoStrandedWaiter, TypeOK, Owners, Granted, Attached
<1> QED
  BY <1>1, <1>2, <1>3, <1>4, <1>5, <1>6 DEF IInv

\* Resuming uses up the one handle of the coroutine.
LEMMA ResumeStep == ASSUME IInv, NEW t \in Tasks, Resume(t) PROVE IInv'
<1> USE HomeAssumption, NoneAssumption DEF Resume, LoopResume, Idle, Goto
<1>0. /\ ready[t] \in Nat \ {0}
      /\ pc[t] \in {"out", "guard", "parked"}
      /\ pc[t] = "parked" => t \notin InList(waiters_)
      /\ pc' \in [Tasks -> {"out", "check", "enlist", "parked", "guard", "handoff"} \cup Attached]
      /\ pc'[t] \in {"out", "guard"}
      /\ \A u \in Tasks \ {t} : pc'[u] = pc[u]
  <2>1. ready[t] \in Nat \ {0} /\ pc[t] \in {"out", "check", "enlist", "parked", "guard", "handoff"} \cup Attached
    BY DEF IInv, TypeOK, RuntimeTypeOK
  <2>2. pc[t] \in {"out", "guard", "parked"}
    BY <2>1 DEF IInv, RunInv, Runs, Attached
  <2>3. pc[t] = "parked" => t \notin InList(waiters_)
    BY <2>1 DEF IInv, TokenInv, Waiting
  <2> QED
    BY <2>1, <2>2, <2>3 DEF IInv, TypeOK
<1>1. TypeOK'
  <2>1. ready' \in [Tasks -> Nat]
    BY <1>0 DEF IInv, TypeOK, RuntimeTypeOK
  <2>2. running' \in [Workers -> Tasks \cup {None}] /\ cancel_fn' \in [Tasks -> BOOLEAN]
    BY DEF IInv, TypeOK, RuntimeTypeOK
  <2> QED
    BY <1>0, <2>1, <2>2 DEF IInv, TypeOK, RuntimeTypeOK
<1>2. ListInv'
  BY LinkedAreTasks DEF IInv, ListInv, TypeOK, TokenInv, Waiting, Attached
<1>3. RunInv'
  <2>1. Runs(t)' /\ \A u \in Tasks \ {t} : Runs(u)' <=> Runs(u)
    BY DEF IInv, TypeOK, RuntimeTypeOK, Runs
  <2>2. ready'[t] = 0
    <3>1. ready[t] = 1
      BY <1>0 DEF IInv, RunInv, TokenInv, Runs, Waiting, Granted
    <3> QED
      BY <3>1 DEF IInv, TypeOK, RuntimeTypeOK
  <2>3. \A u \in Tasks \ {t} : ready'[u] = ready[u]
    BY DEF IInv, TypeOK, RuntimeTypeOK
  <2> QED
    BY <1>0, <2>1, <2>2, <2>3 DEF IInv, RunInv, Attached
<1>4. TokenInv'
  BY LinkedAreTasks DEF IInv, TokenInv, RunInv, Runs, TypeOK, RuntimeTypeOK, Waiting, Granted, InFlight, Attached
<1>5. HandoffInv'
  BY LinkedAreTasks DEF IInv, HandoffInv, TypeOK, TokenInv, Granted, InFlight, Waiting, Attached
<1>6. ExactlyOneOwner' /\ NoStrandedWaiter'
  <2>1. \A u \in Tasks \ {t} : Granted(u)' <=> Granted(u)
    BY <1>0 DEF Granted
  <2>2. (pc[t] = "guard" \/ Granted(t)) <=> (pc'[t] = "guard" \/ Granted(t)')
    BY <1>0 DEF IInv, TypeOK, Granted, Attached
  <2>3. Owners' = Owners
    BY <1>0, <2>1, <2>2 DEF Owners
  <2> QED
    BY <2>3 DEF IInv, ExactlyOneOwner, NoStrandedWaiter
<1> QED
  BY <1>1, <1>2, <1>3, <1>4, <1>5, <1>6 DEF IInv

\* The cancel hook owes a waiter it unlinks exactly one handle.
LEMMA OnCancelStep == ASSUME IInv, NEW t \in Tasks, OnCancel(t) PROVE IInv'
<1> USE HomeAssumption, NoneAssumption DEF OnCancel, TakeKick, Idle, resume_on
<1>a. t \in InList(waiters_) => /\ remove_locked(waiters_, t) \in Seq(Tasks)
                                 /\ InList(remove_locked(waiters_, t)) = InList(waiters_) \ {t}
                                 /\ Distinct(remove_locked(waiters_, t))
  BY RemoveLocked DEF IInv, TypeOK, ListInv
<1>0. t \in InList(waiters_) => waiters_ # <<>>
  BY DEF InList
<1>1. TypeOK'
  <2>1. ready' \in [Tasks -> Nat]
    BY DEF IInv, TypeOK, RuntimeTypeOK
  <2>2. waiters_' \in Seq(Tasks) /\ own' \in [Tasks -> BOOLEAN]
    BY <1>a DEF IInv, TypeOK
  <2>3. kick' \in [Tasks -> {"none", "due", "queued"}] /\ cancel_fn' \in [Tasks -> BOOLEAN]
    BY DEF IInv, TypeOK, RuntimeTypeOK
  <2> QED
    BY <2>1, <2>2, <2>3 DEF IInv, TypeOK, RuntimeTypeOK
<1>2. ListInv'
  BY <1>0, <1>a, LinkedAreTasks DEF IInv, ListInv, TypeOK, Waiting, Attached
<1>3. RunInv'
  BY <1>0, <1>a, LinkedAreTasks DEF IInv, RunInv, ListInv, TokenInv, HandoffInv, Runs, TypeOK, RuntimeTypeOK, Waiting, Granted, InFlight, Attached
<1>4. TokenInv'
  BY <1>0, <1>a, LinkedAreTasks DEF IInv, TokenInv, TypeOK, Waiting, Granted, InFlight, Attached
<1>5. HandoffInv'
  BY <1>0, <1>a, LinkedAreTasks DEF IInv, HandoffInv, TypeOK, Granted, Attached
<1>6. ExactlyOneOwner' /\ NoStrandedWaiter'
  <2>1. \A u \in Tasks : Granted(u)' <=> Granted(u)
    BY <1>a DEF IInv, TypeOK, Granted
  <2>2. Owners' = Owners
    BY <2>1 DEF Owners
  <2> QED
    BY <1>0, <2>2 DEF IInv, ExactlyOneOwner, NoStrandedWaiter
<1> QED
  BY <1>1, <1>2, <1>3, <1>4, <1>5, <1>6 DEF IInv

\* try_lock() takes the lock word only when nobody owns it.
LEMMA TryLockStep == ASSUME IInv, NEW t \in Tasks, TryLock(t) PROVE IInv'
<1> USE HomeAssumption, NoneAssumption DEF TryLock, runtime, Goto
<1>1. TypeOK'
  BY LinkedAreTasks DEF IInv, TypeOK, RuntimeTypeOK
<1>2. ListInv'
  BY LinkedAreTasks DEF IInv, ListInv, TypeOK, Waiting, Attached
<1>3. RunInv'
  BY LinkedAreTasks DEF IInv, RunInv, Runs, TypeOK, Attached
<1>4. TokenInv'
  BY LinkedAreTasks DEF IInv, TokenInv, TypeOK, Waiting, Granted, InFlight, Attached
<1>5. HandoffInv'
  BY LinkedAreTasks DEF IInv, HandoffInv, TypeOK, Granted, Attached
<1>6. ExactlyOneOwner' /\ NoStrandedWaiter'
  BY LinkedAreTasks DEF IInv, ExactlyOneOwner, NoStrandedWaiter, TypeOK, Owners, Granted, Attached
<1> QED
  BY <1>1, <1>2, <1>3, <1>4, <1>5, <1>6 DEF IInv

\* unlock() is called by the only owner, so no other hand-off is under way.
LEMMA UnlockStep == ASSUME IInv, NEW t \in Tasks, Unlock(t) PROVE IInv'
<1> USE HomeAssumption, NoneAssumption DEF Unlock, runtime, Goto
<1>a. waiters_ # <<>> => /\ Tail(waiters_) \in Seq(Tasks)
                         /\ Head(waiters_) \in InList(waiters_)
                         /\ Head(waiters_) \in Tasks
                         /\ InList(Tail(waiters_)) = InList(waiters_) \ {Head(waiters_)}
                         /\ Distinct(Tail(waiters_))
  BY PopFront DEF IInv, TypeOK, ListInv
<1>0. Owners = {t} /\ \A u \in Tasks : pc[u] # "handoff"
  BY DEF IInv, ExactlyOneOwner, HandoffInv, Owners, Granted, TypeOK, Attached
<1>1. TypeOK'
  <2>1. CASE waiters_ = <<>>
    BY <2>1 DEF IInv, TypeOK, RuntimeTypeOK, Attached
  <2>2. CASE waiters_ # <<>>
    <3>1. pc' = [pc EXCEPT ![t] = "handoff"] /\ target' = [target EXCEPT ![t] = Head(waiters_)]
      BY <2>2
    <3>2. /\ pc' \in [Tasks -> {"out", "check", "enlist", "parked", "guard", "handoff"} \cup Attached]
          /\ target' \in [Tasks -> Tasks \cup {None}]
      BY <2>2, <3>1, <1>a DEF IInv, TypeOK
    <3>3. /\ waiters_' \in Seq(Tasks) /\ state_' \in {0, 1} /\ own' \in [Tasks -> BOOLEAN]
          /\ RuntimeTypeOK'
      BY <2>2, <1>a DEF IInv, TypeOK, RuntimeTypeOK
    <3> QED
      BY <3>2, <3>3 DEF TypeOK
  <2> QED
    BY <2>1, <2>2
<1>2. ListInv'
  BY <1>0, <1>a, LinkedAreTasks DEF IInv, ListInv, TypeOK, Waiting, Attached
<1>3. RunInv'
  BY <1>0, <1>a, LinkedAreTasks DEF IInv, RunInv, Runs, TypeOK, Attached
<1>b. \A u \in Tasks : ~Granted(u)
  BY <1>0 DEF Owners, Granted, Attached
<1>c. waiters_ # <<>> =>
        /\ pc[Head(waiters_)] \in Waiting /\ ~own[Head(waiters_)]
        /\ Head(waiters_) # t
        /\ \A u \in Tasks : Granted(u)' <=> u = Head(waiters_)
  <2> SUFFICES ASSUME waiters_ # <<>>
               PROVE  /\ pc[Head(waiters_)] \in Waiting /\ ~own[Head(waiters_)]
                      /\ Head(waiters_) # t
                      /\ \A u \in Tasks : Granted(u)' <=> u = Head(waiters_)
    OBVIOUS
  <2>1. PICK h \in Tasks : h = Head(waiters_)
    BY <1>a
  <2>2. pc[h] \in Waiting /\ ~own[h] /\ h # t
    BY <1>a, <2>1 DEF IInv, ListInv, Waiting, Attached
  <2>3. Granted(h)'
    BY <1>a, <2>1, <2>2 DEF IInv, TypeOK, Granted, Waiting
  <2>4. ASSUME NEW u \in Tasks, Granted(u)', u # h PROVE FALSE
    <3>1. u # t
      BY <2>4 DEF IInv, TypeOK, Granted, Attached
    <3>2. pc'[u] = pc[u] /\ own'[u] = own[u]
      BY <3>1 DEF IInv, TypeOK
    <3> QED
      BY <1>a, <1>b, <2>1, <2>4, <3>2 DEF Granted
  <2> QED
    BY <2>1, <2>2, <2>3, <2>4
<1>d. waiters_ = <<>> => \A u \in Tasks : ~Granted(u)'
  BY <1>b DEF IInv, TypeOK, Granted, Attached
<1>e. /\ \A u \in Tasks \ {t} : pc'[u] = pc[u] /\ target'[u] = target[u]
      /\ waiters_ = <<>> => pc'[t] = "out"
      /\ waiters_ # <<>> => pc'[t] = "handoff" /\ target'[t] = Head(waiters_)
  BY DEF IInv, TypeOK
<1>4. TokenInv'
  <2> SUFFICES ASSUME NEW u \in Tasks, pc'[u] \in Waiting
               PROVE  /\ u \in InList(waiters_)' => ready[u] = 0
                      /\ u \notin InList(waiters_)' /\ own[u] => ready[u] = 1
                      /\ Granted(u)' => ready[u] = IF InFlight(u)' THEN 0 ELSE 1
    BY DEF TokenInv
  <2>1. u # t /\ pc[u] \in Waiting
    BY <1>e DEF Waiting, Attached
  <2>2. /\ u \in InList(waiters_)' => ready[u] = 0
        /\ u \notin InList(waiters_)' /\ own[u] => ready[u] = 1
    BY <1>a, <2>1 DEF IInv, TokenInv, ListInv
  <2>3. ASSUME Granted(u)' PROVE ready[u] = IF InFlight(u)' THEN 0 ELSE 1
    <3>1. waiters_ # <<>> /\ u = Head(waiters_)
      BY <1>c, <1>d, <2>3
    <3>2. ready[u] = 0
      BY <1>a, <2>1, <3>1 DEF IInv, TokenInv
    <3>3. InFlight(u)'
      BY <1>e, <3>1 DEF InFlight
    <3> QED
      BY <3>2, <3>3
  <2> QED
    BY <2>2, <2>3
<1>5. HandoffInv'
  BY <1>0, <1>a, <1>c, <1>e DEF HandoffInv
<1>6. ExactlyOneOwner' /\ NoStrandedWaiter'
  <2>1. \A u \in Tasks : pc'[u] # "guard"
    BY <1>0, <1>e DEF Owners
  <2>2. CASE waiters_ = <<>>
    <3>1. Owners' = {}
      BY <1>d, <2>1, <2>2 DEF Owners
    <3> QED
      BY <2>2, <3>1 DEF ExactlyOneOwner, NoStrandedWaiter
  <2>3. CASE waiters_ # <<>>
    <3>1. PICK h \in Tasks : h = Head(waiters_)
      BY <1>a, <2>3
    <3>2. Owners' = {h}
      BY <1>c, <2>1, <2>3, <3>1 DEF Owners
    <3>3. state_' = 1
      BY <1>0, <2>3 DEF IInv, TypeOK, ExactlyOneOwner
    <3> QED
      BY <3>2, <3>3 DEF ExactlyOneOwner, NoStrandedWaiter
  <2> QED
    BY <2>2, <2>3
<1> QED
  BY <1>1, <1>2, <1>3, <1>4, <1>5, <1>6 DEF IInv

\* The hand-off enqueues the handle the new owner is owed.
LEMMA HandoffStep == ASSUME IInv, NEW t \in Tasks, Handoff(t) PROVE IInv'
<1> USE HomeAssumption, NoneAssumption DEF Handoff, resume_on, Goto
<1>1. TypeOK'
  BY LinkedAreTasks DEF IInv, TypeOK, RuntimeTypeOK
<1>2. ListInv'
  BY LinkedAreTasks DEF IInv, ListInv, TypeOK, Waiting, Attached
<1>3. RunInv'
  <2>1. target[t] \in Tasks /\ pc[target[t]] \in Waiting
    BY DEF IInv, HandoffInv, Granted, Waiting
  <2>2. target[t] # t
    BY <2>1 DEF Waiting, Attached
  <2>3. /\ pc' = [pc EXCEPT ![t] = "out"]
        /\ \A u \in Tasks : u # target[t] => ready'[u] = ready[u]
        /\ running' = running /\ own' = own
    BY <2>1 DEF IInv, TypeOK, RuntimeTypeOK
  <2> QED
    BY <2>1, <2>2, <2>3 DEF IInv, RunInv, Runs, TypeOK, Waiting, Attached
<1>4. TokenInv'
  BY LinkedAreTasks DEF IInv, TokenInv, HandoffInv, RunInv, TypeOK, RuntimeTypeOK, Waiting, Granted, InFlight, Attached
<1>5. HandoffInv'
  BY LinkedAreTasks DEF IInv, HandoffInv, TypeOK, Granted, Attached
<1>6. ExactlyOneOwner' /\ NoStrandedWaiter'
  BY LinkedAreTasks DEF IInv, ExactlyOneOwner, NoStrandedWaiter, TypeOK, Owners, Granted, Attached
<1> QED
  BY <1>1, <1>2, <1>3, <1>4, <1>5, <1>6 DEF IInv

\* A coroutine that awaits something else leaves the mutex alone.
LEMMA YieldStep == ASSUME IInv, NEW t \in Tasks, Yield(t) PROVE IInv'
<1> USE HomeAssumption, NoneAssumption DEF Yield, Suspend, resume_on
<1>1. TypeOK'
  BY LinkedAreTasks DEF IInv, TypeOK, RuntimeTypeOK
<1>2. ListInv'
  BY LinkedAreTasks DEF IInv, ListInv, TypeOK, Waiting, Attached
<1>3. RunInv'
  BY LinkedAreTasks DEF IInv, RunInv, Runs, TypeOK, RuntimeTypeOK, Attached
<1>4. TokenInv'
  BY LinkedAreTasks DEF IInv, TokenInv, TypeOK, Waiting, Granted, InFlight, Attached
<1>5. HandoffInv'
  BY LinkedAreTasks DEF IInv, HandoffInv, TypeOK, Granted, Attached
<1>6. ExactlyOneOwner' /\ NoStrandedWaiter'
  BY LinkedAreTasks DEF IInv, ExactlyOneOwner, NoStrandedWaiter, TypeOK, Owners, Granted, Attached
<1> QED
  BY <1>1, <1>2, <1>3, <1>4, <1>5, <1>6 DEF IInv

\* A request only sets the flag and queues the kick.
LEMMA CancelStep == ASSUME IInv, NEW t \in Tasks, Cancel(t) PROVE IInv'
<1> USE HomeAssumption, NoneAssumption DEF Cancel, RequestCancel, PushKick
<1>1. TypeOK'
  BY LinkedAreTasks DEF IInv, TypeOK, RuntimeTypeOK
<1>2. ListInv'
  BY LinkedAreTasks DEF IInv, ListInv, TypeOK, Waiting, Attached
<1>3. RunInv'
  BY LinkedAreTasks DEF IInv, RunInv, Runs, TypeOK, Attached
<1>4. TokenInv'
  BY LinkedAreTasks DEF IInv, TokenInv, TypeOK, Waiting, Granted, InFlight, Attached
<1>5. HandoffInv'
  BY LinkedAreTasks DEF IInv, HandoffInv, TypeOK, Granted, Attached
<1>6. ExactlyOneOwner' /\ NoStrandedWaiter'
  BY LinkedAreTasks DEF IInv, ExactlyOneOwner, NoStrandedWaiter, TypeOK, Owners, Granted, Attached
<1> QED
  BY <1>1, <1>2, <1>3, <1>4, <1>5, <1>6 DEF IInv

\* Every step of the mutex keeps the inductive invariant.
LEMMA NextIInv == IInv /\ [Next]_vars => IInv'
<1> SUFFICES ASSUME IInv, [Next]_vars PROVE IInv'
  OBVIOUS
<1>1. CASE Next
  BY <1>1, LockFastStep, CheckCancelStep, EnlistStep, ArmCancelStep, WithdrawSelfStep,
     ResumeStep, OnCancelStep, TryLockStep, UnlockStep, HandoffStep, YieldStep, CancelStep
     DEF Next, LockStep
<1>2. CASE UNCHANGED vars
  <2> USE DEF Waiting
  <2>0. /\ running' = running /\ ready' = ready /\ cancel_fn' = cancel_fn
        /\ requested' = requested /\ kick' = kick
        /\ state_' = state_ /\ waiters_' = waiters_ /\ pc' = pc
        /\ own' = own /\ target' = target
    BY <1>2 DEF vars, runtime
  <2>1. ASSUME NEW t \in Tasks
        PROVE  /\ Runs(t)' <=> Runs(t)
               /\ Granted(t)' <=> Granted(t)
               /\ InFlight(t)' <=> InFlight(t)
    <3>1. Runs(t)' <=> Runs(t)
      BY <2>0 DEF Runs
    <3>2. Granted(t)' <=> Granted(t)
      BY <2>0 DEF Granted
    <3>3. InFlight(t)' <=> InFlight(t)
      BY <2>0 DEF InFlight
    <3> QED
      BY <3>1, <3>2, <3>3
  <2>2. TypeOK' /\ ListInv'
    BY <2>0 DEF IInv, TypeOK, RuntimeTypeOK, ListInv
  <2>3. RunInv' /\ TokenInv' /\ HandoffInv'
    <3>1. RunInv'
      BY <2>0, <2>1 DEF IInv, RunInv
    <3>2. TokenInv'
      BY <2>0, <2>1 DEF IInv, TokenInv
    <3>3. HandoffInv'
      BY <2>0, <2>1 DEF IInv, HandoffInv
    <3> QED
      BY <3>1, <3>2, <3>3
  <2>4. Owners' = Owners
    BY <2>0, <2>1 DEF Owners
  <2>5. ExactlyOneOwner' /\ NoStrandedWaiter'
    BY <2>0, <2>4 DEF IInv, ExactlyOneOwner, NoStrandedWaiter
  <2> QED
    BY <2>2, <2>3, <2>5 DEF IInv
<1> QED
  BY <1>1, <1>2

\* The inductive invariant holds in every state of every behaviour.
THEOREM MutexInvariant == Spec => []IInv
<1> QED
  BY InitIInv, NextIInv, PTL DEF Spec

\* Type correctness of the mutex, for any coroutines and workers.
THEOREM MutexTypeOK == Spec => []TypeOK
<1>1. IInv => TypeOK
  BY DEF IInv
<1> QED
  BY <1>1, MutexInvariant, PTL

\* Mutual exclusion without leaks: AsyncMutex::unlock and the cancellation of
\* waiters never leave the lock word set without an owner, nor two owners.
THEOREM MutexExactlyOneOwner == Spec => []ExactlyOneOwner
<1>1. IInv => ExactlyOneOwner
  BY DEF IInv
<1> QED
  BY <1>1, MutexInvariant, PTL

\* A linked waiter always has an owner to wait for.
THEOREM MutexNoStrandedWaiter == Spec => []NoStrandedWaiter
<1>1. IInv => NoStrandedWaiter
  BY DEF IInv
<1> QED
  BY <1>1, MutexInvariant, PTL

\* No coroutine is resumed twice, however unlock() and on_cancel() race.
THEOREM MutexResumedOnce == Spec => []ResumedOnce
<1>1. IInv => ResumedOnce
  <2> SUFFICES ASSUME IInv, NEW t \in Tasks
               PROVE  ready[t] <= 1 /\ (Runs(t) /\ pc[t] \notin Attached => ready[t] = 0)
    BY DEF ResumedOnce
  <2>1. pc[t] \in {"out", "check", "enlist", "parked", "guard", "handoff"} \cup Attached
    BY DEF IInv, TypeOK
  <2>2. ready[t] \in {0, 1}
    BY <2>1 DEF IInv, RunInv, TokenInv, Waiting, Granted
  <2> QED
    BY <2>1, <2>2 DEF IInv, RunInv
<1> QED
  BY <1>1, MutexInvariant, PTL

(***************************************************************************)
(* The refinement                                                          *)
(***************************************************************************)

\* The abstract owner is the only one there is.
LEMMA OwnerIsUnique ==
  ASSUME IInv
  PROVE  /\ state_ = 0 => Owners = {} /\ Owner = None
         /\ state_ # 0 => Owner \in Tasks /\ Owners = {Owner}
BY NoneAssumption DEF IInv, TypeOK, ExactlyOneOwner, Owner, Owners

\* All steps but the four that acquire or release keep the owner.
LEMMA OwnersKept ==
  ASSUME IInv, NEW t \in Tasks,
         \/ CheckCancel(t) \/ ArmCancel(t) \/ WithdrawSelf(t) \/ Resume(t)
         \/ OnCancel(t) \/ Handoff(t) \/ Yield(t) \/ Cancel(t)
  PROVE  Owners' = Owners
<1> SUFFICES \A u \in Tasks : (pc[u] = "guard" \/ Granted(u)) <=> (pc'[u] = "guard" \/ Granted(u)')
  BY DEF Owners
<1> USE DEF IInv
<1>1. CASE CheckCancel(t)
  BY <1>1 DEF CheckCancel, Goto, TypeOK, Granted, Attached
<1>2. CASE ArmCancel(t)
  BY <1>2 DEF ArmCancel, Goto, TypeOK, Granted, Attached
<1>3. CASE WithdrawSelf(t)
  <2>1. t \in InList(waiters_) => InList(waiters_') = InList(waiters_) \ {t}
    BY <1>3, RemoveLocked DEF WithdrawSelf, TypeOK, ListInv
  <2> QED
    BY <1>3, <2>1 DEF WithdrawSelf, Goto, TypeOK, Granted, Attached
<1>4. CASE Resume(t)
  <2>1. pc[t] = "parked" => t \notin InList(waiters_)
    BY <1>4 DEF Resume, LoopResume, TypeOK, RuntimeTypeOK, TokenInv, Waiting
  <2>2. pc[t] \notin Attached
    BY <1>4, NoneAssumption DEF Resume, LoopResume, Idle, RunInv, Runs
  <2> QED
    BY <1>4, <2>1, <2>2 DEF Resume, Goto, TypeOK, Granted, Attached
<1>5. CASE OnCancel(t)
  <2>1. t \in InList(waiters_) => InList(remove_locked(waiters_, t)) = InList(waiters_) \ {t}
    BY RemoveLocked DEF TypeOK, ListInv
  <2> QED
    BY <1>5, <2>1 DEF OnCancel, TypeOK, Granted
<1>6. CASE Handoff(t)
  BY <1>6 DEF Handoff, Goto, TypeOK, Granted, Attached
<1>7. CASE Yield(t) \/ Cancel(t)
  BY <1>7 DEF Yield, Cancel, Granted
<1> QED
  BY <1>1, <1>2, <1>3, <1>4, <1>5, <1>6, <1>7

\* Taking the lock word makes t the owner of a lock nobody waits for.
LEMMA AcquireStep ==
  ASSUME IInv, IInv', NEW t \in Tasks, state_ = 0, state_' = 1, pc'[t] = "guard",
         waiters_' = waiters_
  PROVE  Lock!Acquire(t)
<1>1. Owner = None /\ waiters_ = <<>>
  BY OwnerIsUnique DEF IInv, NoStrandedWaiter
<1>2. t \in Owners'
  BY DEF Owners
<1>3. Owners' = {t}
  BY <1>2 DEF IInv, ExactlyOneOwner
<1>4. Owner' = t
  BY <1>3 DEF Owner
<1> QED
  BY <1>1, <1>4 DEF Lock!Acquire

\* Every step of the mutex is a step of the abstract lock or leaves it alone.
LEMMA StepRefines == IInv /\ IInv' /\ [Next]_vars => [Lock!LockNext]_(Lock!lockvars)
<1> SUFFICES ASSUME IInv, IInv', [Next]_vars
             PROVE  Lock!LockNext \/ (Owner' = Owner /\ waiters_' = waiters_)
  BY DEF Lock!lockvars
<1>1. Owners' = Owners => Owner' = Owner
  BY DEF Owner
<1>2. ASSUME NEW t \in Tasks, LockFast(t)
      PROVE  Lock!LockNext \/ (Owner' = Owner /\ waiters_' = waiters_)
  <2>1. CASE state_ = 0
    <3>1. state_' = 1 /\ pc'[t] = "guard" /\ waiters_' = waiters_
      BY <1>2, <2>1 DEF LockFast, Goto, IInv, TypeOK
    <3> QED
      BY <2>1, <3>1, AcquireStep DEF Lock!LockNext
  <2>2. CASE state_ # 0
    <3>1. waiters_' = waiters_ /\ pc' = [pc EXCEPT ![t] = "check"] /\ pc[t] = "out" /\ own' = own
      BY <1>2, <2>2 DEF LockFast, Goto
    <3>2. Owners' = Owners
      BY <3>1 DEF IInv, TypeOK, Owners, Granted, Attached
    <3> QED
      BY <1>1, <3>1, <3>2
  <2> QED
    BY <2>1, <2>2
<1>3. ASSUME NEW t \in Tasks, Enlist(t) PROVE Lock!LockNext
  <2>1. CASE state_ = 0
    <3>1. state_' = 1 /\ pc'[t] = "guard" /\ waiters_' = waiters_
      BY <1>3, <2>1 DEF Enlist, Goto, IInv, TypeOK
    <3> QED
      BY <2>1, <3>1, AcquireStep DEF Lock!LockNext
  <2>2. CASE state_ # 0
    <3>1. /\ waiters_' = Append(waiters_, t) /\ pc' = [pc EXCEPT ![t] = "arm"]
          /\ pc[t] = "enlist" /\ own' = own
      BY <1>3, <2>2 DEF Enlist, Goto, push_locked
    <3>2. t \notin InList(waiters_)
      BY <3>1 DEF IInv, ListInv, Waiting, Attached
    <3>3. InList(waiters_') = InList(waiters_) \cup {t}
      BY <3>1, <3>2, PushLocked DEF IInv, TypeOK, ListInv, push_locked
    <3>4. Owners' = Owners
      BY <3>1, <3>2, <3>3 DEF IInv, TypeOK, Owners, Granted, Attached
    <3>5. Owner \in Tasks \ {t}
      BY <2>2, <3>1, OwnerIsUnique DEF Owners, Granted, Attached
    <3>6. Lock!Wait(t)
      BY <1>1, <3>1, <3>2, <3>4, <3>5 DEF Lock!Wait, Lock!InList, InList
    <3> QED
      BY <3>6 DEF Lock!LockNext
  <2> QED
    BY <2>1, <2>2
<1>4. ASSUME NEW t \in Tasks, TryLock(t) PROVE Lock!LockNext
  <2>1. state_ = 0 /\ state_' = 1 /\ pc'[t] = "guard" /\ waiters_' = waiters_
    BY <1>4 DEF TryLock, Goto, IInv, TypeOK
  <2> QED
    BY <2>1, AcquireStep DEF Lock!LockNext
<1>5. ASSUME NEW t \in Tasks, Unlock(t) PROVE Lock!LockNext
  <2>1. state_ # 0 /\ Owner = t
    BY <1>5, OwnerIsUnique DEF Unlock, Owners
  <2>2. CASE waiters_ = <<>>
    <3>1. state_' = 0 /\ waiters_' = waiters_
      BY <1>5, <2>2 DEF Unlock
    <3>2. Owner' = None
      BY <3>1 DEF IInv, ExactlyOneOwner, Owner
    <3> QED
      BY <2>1, <2>2, <3>1, <3>2, NoneAssumption DEF Lock!LockNext, Lock!Release
  <2>3. CASE waiters_ # <<>>
    <3>1. /\ waiters_' = Tail(waiters_) /\ pc' = [pc EXCEPT ![t] = "handoff"]
          /\ pc[t] = "guard" /\ own' = own
      BY <1>5, <2>3 DEF Unlock, Goto
    <3>2. /\ Head(waiters_) \in InList(waiters_) /\ Head(waiters_) \in Tasks
          /\ InList(waiters_') = InList(waiters_) \ {Head(waiters_)}
      BY <2>3, <3>1, PopFront DEF IInv, TypeOK, ListInv
    <3>3. PICK h \in Tasks : h = Head(waiters_)
      BY <3>2
    <3>4. h # t /\ pc[h] \in Waiting /\ ~own[h]
      BY <3>1, <3>2, <3>3 DEF IInv, ListInv, Waiting, Attached
    <3>5. Granted(h)'
      BY <3>1, <3>2, <3>3, <3>4 DEF IInv, TypeOK, Granted, Waiting
    <3>6. h \in Owners'
      BY <3>5 DEF Owners
    <3>7. Owner' = h
      BY <3>6 DEF IInv, TypeOK, ExactlyOneOwner, Owner
    <3> QED
      BY <2>1, <2>3, <3>1, <3>3, <3>7, NoneAssumption DEF Lock!LockNext, Lock!Release
  <2> QED
    BY <2>2, <2>3
<1>6. ASSUME NEW t \in Tasks, WithdrawSelf(t) \/ OnCancel(t)
      PROVE  Lock!LockNext \/ (Owner' = Owner /\ waiters_' = waiters_)
  <2>1. Owner' = Owner
    BY <1>1, <1>6, OwnersKept
  <2>2. \/ waiters_' = waiters_
        \/ t \in InList(waiters_) /\ waiters_' = remove_locked(waiters_, t)
    BY <1>6 DEF WithdrawSelf, OnCancel
  <2> QED
    BY <2>1, <2>2 DEF Lock!LockNext, Lock!Withdraw, Lock!InList, Lock!remove_locked,
                      InList, remove_locked
<1>7. ASSUME NEW t \in Tasks, \/ CheckCancel(t) \/ ArmCancel(t) \/ Resume(t)
                              \/ Handoff(t) \/ Yield(t) \/ Cancel(t)
      PROVE  Owner' = Owner /\ waiters_' = waiters_
  <2>1. Owner' = Owner
    BY <1>1, <1>7, OwnersKept
  <2> QED
    BY <1>7, <2>1 DEF CheckCancel, ArmCancel, Resume, Handoff, Yield, Cancel
<1>8. CASE UNCHANGED vars
  <2>1. waiters_' = waiters_ /\ pc' = pc /\ own' = own
    BY <1>8 DEF vars
  <2>2. Owners' = Owners
    BY <2>1 DEF Owners, Granted
  <2> QED
    BY <1>1, <2>1, <2>2
<1> QED
  BY <1>2, <1>3, <1>4, <1>5, <1>6, <1>7, <1>8 DEF Next, LockStep

\* The mutex implements the lock with hand-off: mutual exclusion, first come
\* first served, and no barging past a waiter (AsyncMutex.cpp, lock, unlock).
THEOREM MutexImplementsHandoffLock == Spec => ImplementsHandoffLock
<1>1. Init => Lock!LockInit
  BY DEF Init, Owner, Owners, Granted, Attached, Lock!LockInit
<1> QED
  BY <1>1, StepRefines, MutexInvariant, PTL DEF Spec, ImplementsHandoffLock, Lock!LockSpec
=============================================================================
