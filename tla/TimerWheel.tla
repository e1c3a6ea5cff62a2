----------------------------- MODULE TimerWheel -----------------------------
(***************************************************************************)
(* utils::TimerWheel (utils/timer/TimerWheel.{h,cpp}) and the part of the  *)
(* worker's loop around it (system/Thread.cpp): the worker sleeps in its   *)
(* poller, runs coroutines that arm, refresh and cancel timers, and ticks  *)
(* the wheel.  The wheel belongs to the worker (UVENT_ENABLE_REUSEADDR).   *)
(*                                                                         *)
(* Of a bucket entry's position only the bucket is kept: removal looks the *)
(* entry up, which is what the code falls back to.  What a timer does when *)
(* it fires, resume a coroutine or call a function, is one event.          *)
(***************************************************************************)
EXTENDS Integers, Sequences, FiniteSets

CONSTANTS
  Heap,       \* timers allocated for one use and deleted by the wheel
  Embedded,   \* timers inside a socket's header, armed again and again
  None,       \* no timer
  Slots,      \* slots per level (256 in the code)
  Levels,     \* levels (settings::tw_levels)
  Start,      \* the values the clock may have when the wheel is made
  Durations,  \* the durations asked for
  MaxTime,    \* bound: the clock stops here
  IdleFallback, \* settings::idle_fallback_ms
  MaxLag,     \* bound: how far the wheel's time falls behind while the worker runs
  MaxId,      \* bound: timers armed
  MaxCalls    \* bound: calls of the coroutines

Timers == Heap \cup Embedded
Ids == 1..MaxId

ASSUME WheelAssumption ==
  /\ Heap \cap Embedded = {} /\ None \notin Timers
  /\ Slots \in Nat \ {0, 1} /\ Levels \in Nat \ {0}
  /\ Start \subseteq 1..MaxTime /\ Durations \subseteq Nat
  /\ {MaxTime, IdleFallback, MaxLag, MaxId, MaxCalls} \subseteq Nat

VARIABLES
  now,                  \* the steady clock
  phase,                \* what the worker is doing
  newTime,              \* the time the tick in progress advances to
  wakeAt,               \* when the poll in progress times out
  polledAt,             \* history: when that timeout was computed
  currentTime_, buckets_, timerMap_, activeTimerCount_, timerIdCounter_,
  nextExpiryTime_, nextExpiryDirty_,
  timer_operations_queue, cancelledPending_, detachedPending_, maxAddedId_,
  alive, active, expiryTime, id, place,  \* the Timer objects
  fate,                 \* history: what became of each id
  due,                  \* history: the earliest moment it may fire
  calls                 \* history: calls made so far

pollvars == <<wakeAt, polledAt>>
loopvars == <<phase, newTime, pollvars>>
expiryvars == <<nextExpiryTime_, nextExpiryDirty_>>
wheelvars == <<buckets_, timerMap_, activeTimerCount_, expiryvars>>
opvars == <<timer_operations_queue, cancelledPending_, detachedPending_>>
idvars == <<timerIdCounter_, maxAddedId_>>
timervars == <<alive, active, expiryTime, id, place>>
history == <<fate, due>>
vars == <<now, loopvars, currentTime_, wheelvars, opvars, idvars, timervars,
          history, calls>>

Op == [op : {"ADD"}, id : Ids, timer : Timers]
      \cup [op : {"UPDATE"}, id : Ids, new_dur : Nat]
      \cup [op : {"REMOVE"}, id : Ids]

TypeOK ==
  /\ {now, newTime, wakeAt, polledAt, currentTime_, nextExpiryTime_} \subseteq Nat
  /\ phase \in {"poll", "sleep", "run", "drain", "advance", "slots"}
  /\ buckets_ \in [0..(Levels - 1) -> [0..(Slots - 1) -> Seq(Timers)]]
  /\ timerMap_ \in [Ids -> Timers \cup {None}]
  /\ activeTimerCount_ \in Nat
  /\ timerIdCounter_ \in 0..MaxId /\ maxAddedId_ \in 0..MaxId
  /\ nextExpiryDirty_ \in BOOLEAN
  /\ timer_operations_queue \in Seq(Op)
  /\ cancelledPending_ \subseteq Ids /\ detachedPending_ \subseteq Ids
  /\ alive \in [Timers -> BOOLEAN] /\ active \in [Timers -> BOOLEAN]
  /\ expiryTime \in [Timers -> Nat] /\ id \in [Timers -> 0..MaxId]
  /\ place \in [Timers -> (0..(Levels - 1)) \X (0..(Slots - 1))]
  /\ fate \in [Ids -> {"none", "armed", "fired", "cancelled", "wrong"}]
  /\ due \in [Ids -> Nat] /\ calls \in 0..MaxCalls

Init ==
  /\ now \in Start /\ currentTime_ = now
  /\ phase = "poll" /\ newTime = 0 /\ wakeAt = 0 /\ polledAt = 0
  /\ buckets_ = [l \in 0..(Levels - 1) |-> [s \in 0..(Slots - 1) |-> <<>>]]
  /\ timerMap_ = [i \in Ids |-> None]
  /\ activeTimerCount_ = 0 /\ timerIdCounter_ = 0 /\ maxAddedId_ = 0
  /\ nextExpiryTime_ = 0 /\ nextExpiryDirty_ = FALSE
  /\ timer_operations_queue = <<>>
  /\ cancelledPending_ = {} /\ detachedPending_ = {}
  /\ alive = [t \in Timers |-> t \in Embedded]
  /\ active = [t \in Timers |-> TRUE]
  /\ expiryTime = [t \in Timers |-> 0] /\ id = [t \in Timers |-> 0]
  /\ place = [t \in Timers |-> <<0, 0>>]
  /\ fate = [i \in Ids |-> "none"] /\ due = [i \in Ids |-> 0] /\ calls = 0

(***************************************************************************)
(* The buckets                                                             *)
(***************************************************************************)

interval_(level) == Slots ^ level

\* addTimerToWheel(): the first level whose range covers the distance, or the
\* last one; the slot from the expiry, or the next one for a timer that is due.
LevelFor(diff) ==
  CHOOSE l \in 0..(Levels - 1) :
    /\ l = Levels - 1 \/ diff < interval_(l) * Slots
    /\ \A m \in 0..(l - 1) : diff >= interval_(m) * Slots

\* Mutant: a timer that is due goes to the slot of its expiry.
PlaceForNoDueSlot(expiry) ==
  LET diff == IF expiry > currentTime_ THEN expiry - currentTime_ ELSE 0
      level == LevelFor(diff)
  IN  <<level, (expiry \div interval_(level)) % Slots>>

PlaceFor(expiry) ==
  LET diff == IF expiry > currentTime_ THEN expiry - currentTime_ ELSE 0
      level == LevelFor(diff)
  IN  <<level, IF diff = 0 THEN (currentTime_ + 1) % Slots
                           ELSE (expiry \div interval_(level)) % Slots>>

Push(b, at, t) == [b EXCEPT ![at[1]][at[2]] = Append(@, t)]

\* The last entry takes the place of the one removed.
SwapPop(entries, p) ==
  [i \in 1..(Len(entries) - 1) |-> IF i = p THEN entries[Len(entries)]
                                            ELSE entries[i]]

Linked(b, at) == {b[at[1]][at[2]][i] : i \in 1..Len(b[at[1]][at[2]])}

\* Mutant: the entry stays in its bucket.
UnlinkNothing(b, t) == b

\* removeTimerFromWheel()
Unlink(b, t) ==
  LET at == place[t]
      entries == b[at[1]][at[2]]
      p == CHOOSE i \in 1..Len(entries) : entries[i] = t
  IN  IF t \in Linked(b, at)
      THEN [b EXCEPT ![at[1]][at[2]] = SwapPop(entries, p)]
      ELSE b

Earlier(next, expiry) == IF next = 0 \/ expiry < next THEN expiry ELSE next

\* Removing, or firing, the earliest timer.
Disturbs(t) == nextExpiryDirty_ \/ expiryTime[t] = nextExpiryTime_

(***************************************************************************)
(* The coroutines' calls                                                   *)
(***************************************************************************)

Queue(op) == timer_operations_queue' = Append(timer_operations_queue, op)

\* A heap timer is newly allocated; an embedded one is not armed.
Free(t) ==
  IF t \in Heap THEN ~alive[t] ELSE id[t] \notin {i \in Ids : fate[i] = "armed"}

\* Timer::bind, arm_raw or arm_embedded, then addTimer().
addTimer(t, d) ==
  LET i == timerIdCounter_ + 1
  IN  /\ phase = "run" /\ Free(t) /\ i <= MaxId
      /\ alive' = [alive EXCEPT ![t] = TRUE]
      /\ active' = [active EXCEPT ![t] = TRUE]
      /\ expiryTime' = [expiryTime EXCEPT ![t] = now + d]
      /\ id' = [id EXCEPT ![t] = i]
      /\ timerIdCounter_' = i
      /\ Queue([op |-> "ADD", id |-> i, timer |-> t])
      /\ fate' = [fate EXCEPT ![i] = "armed"]
      /\ due' = [due EXCEPT ![i] = now + d]
      /\ UNCHANGED <<now, loopvars, currentTime_, wheelvars, cancelledPending_,
                     detachedPending_, maxAddedId_, place>>

\* Of a timer that has fired or was cancelled: the wheel will not find it.
updateTimer(i, d) ==
  /\ phase = "run" /\ i <= timerIdCounter_
  /\ Queue([op |-> "UPDATE", id |-> i, new_dur |-> d])
  /\ due' = [due EXCEPT ![i] = IF fate[i] = "armed" THEN now + d ELSE @]
  /\ UNCHANGED <<now, loopvars, currentTime_, wheelvars, cancelledPending_,
                 detachedPending_, idvars, timervars, fate>>

\* Nobody reads these again before the timer is armed again.
Forget(t) ==
  /\ expiryTime' = [expiryTime EXCEPT ![t] = 0]
  /\ place' = [place EXCEPT ![t] = <<0, 0>>]

\* What becomes of id i: it is no longer armed.
Settle(i, outcome) ==
  /\ fate' = [fate EXCEPT ![i] = outcome]
  /\ due' = [due EXCEPT ![i] = 0]

\* The owner does not use the timer again until the wheel has dropped it.
removeTimer(i) ==
  /\ phase = "run" /\ i <= timerIdCounter_
  /\ \A t \in Embedded : id[t] # i
  /\ Queue([op |-> "REMOVE", id |-> i])
  /\ IF fate[i] = "armed" THEN Settle(i, "cancelled") ELSE UNCHANGED history
  /\ UNCHANGED <<now, loopvars, currentTime_, wheelvars, cancelledPending_,
                 detachedPending_, idvars, timervars>>

\* Take a timer that the map knows out of the wheel.
Drop(t) ==
  /\ Forget(t)
  /\ active' = [active EXCEPT ![t] = FALSE]
  /\ buckets_' = Unlink(buckets_, t)
  /\ nextExpiryDirty_' = Disturbs(t)
  /\ timerMap_' = [timerMap_ EXCEPT ![id[t]] = None]
  /\ activeTimerCount_' = activeTimerCount_ - 1

Delete(t) == alive' = [alive EXCEPT ![t] = @ /\ t \in Embedded]

\* cancelTimer(): true if the addition is still queued or the timer is linked.
cancelTimer(i) ==
  LET t == timerMap_[i]
  IN  /\ phase = "run" /\ fate[i] = "armed"
      /\ \/ /\ t = None /\ i > maxAddedId_
            /\ cancelledPending_' = cancelledPending_ \cup {i}
            /\ UNCHANGED <<wheelvars, active, alive, expiryTime, place>>
         \/ /\ t # None /\ active[t]
            /\ Drop(t) /\ Delete(t)
            /\ UNCHANGED <<nextExpiryTime_, cancelledPending_>>
      /\ Settle(i, "cancelled")
      /\ UNCHANGED <<now, loopvars, currentTime_, timer_operations_queue,
                     detachedPending_, idvars, id>>

\* cancelTimerDetach(): the same without deleting; the caller, who now owns the
\* timer, deletes it at once (SleepAwaiter, SleepOp).
cancelTimerDetach(i) ==
  LET t == timerMap_[i]
  IN  /\ phase = "run" /\ fate[i] = "armed"
      /\ \E u \in Heap : id[u] = i /\ Delete(u)
      /\ \/ /\ t = None /\ i > maxAddedId_
            /\ detachedPending_' = detachedPending_ \cup {i}
            /\ UNCHANGED <<wheelvars, active, expiryTime, place>>
         \/ /\ t # None /\ active[t]
            /\ Drop(t)
            /\ UNCHANGED <<nextExpiryTime_, detachedPending_>>
      /\ Settle(i, "cancelled")
      /\ UNCHANGED <<now, loopvars, currentTime_, timer_operations_queue,
                     cancelledPending_, idvars, id>>

(***************************************************************************)
(* tick(): the queued operations                                           *)
(***************************************************************************)

First == Head(timer_operations_queue)

Draining(op) ==
  /\ phase = "drain" /\ timer_operations_queue # <<>> /\ First.op = op
  /\ timer_operations_queue' = Tail(timer_operations_queue)
  /\ UNCHANGED <<now, loopvars, currentTime_, timerIdCounter_, history>>

Link(t) ==
  /\ place' = [place EXCEPT ![t] = PlaceFor(expiryTime[t])]
  /\ buckets_' = Push(buckets_, PlaceFor(expiryTime[t]), t)
  /\ nextExpiryTime_' = Earlier(nextExpiryTime_, expiryTime[t])
  /\ timerMap_' = [timerMap_ EXCEPT ![id[t]] = t]
  /\ activeTimerCount_' = activeTimerCount_ + 1

\* Mutant: a cancelled addition is linked.
DrainAddCancelled ==
  LET i == First.id
  IN  /\ Draining("ADD")
      /\ maxAddedId_' = IF i > maxAddedId_ THEN i ELSE maxAddedId_
      /\ IF i \in detachedPending_
         THEN /\ detachedPending_' = detachedPending_ \ {i}
              /\ UNCHANGED <<wheelvars, place>>
         ELSE Link(First.timer) /\ UNCHANGED <<detachedPending_, nextExpiryDirty_>>
      /\ UNCHANGED <<cancelledPending_, alive, active, expiryTime, id>>

\* A timer cancelled meanwhile is dropped, a detached one not even looked at.
DrainAdd ==
  LET t == First.timer
      i == First.id
  IN  /\ Draining("ADD")
      /\ maxAddedId_' = IF i > maxAddedId_ THEN i ELSE maxAddedId_
      /\ IF i \in detachedPending_
         THEN /\ detachedPending_' = detachedPending_ \ {i}
              /\ UNCHANGED <<cancelledPending_, wheelvars, alive, place>>
         ELSE IF i \in cancelledPending_
         THEN /\ cancelledPending_' = cancelledPending_ \ {i}
              /\ Delete(t)
              /\ UNCHANGED <<detachedPending_, wheelvars, place>>
         ELSE /\ Link(t)
              /\ UNCHANGED <<cancelledPending_, detachedPending_,
                             nextExpiryDirty_, alive>>
      /\ UNCHANGED <<active, expiryTime, id>>

\* Mutant: counted from the wheel's time.
UpdatedExpiryWheelTime == currentTime_ + First.new_dur

\* From the clock now: the wheel's time may lag, and the call was earlier.
UpdatedExpiry == now + First.new_dur

DrainUpdate ==
  LET t == timerMap_[First.id]
      expiry == UpdatedExpiry
  IN  /\ Draining("UPDATE")
      /\ IF t # None /\ active[t]
         THEN /\ expiryTime' = [expiryTime EXCEPT ![t] = expiry]
              /\ place' = [place EXCEPT ![t] = PlaceFor(expiry)]
              /\ buckets_' = Push(Unlink(buckets_, t), PlaceFor(expiry), t)
              /\ nextExpiryDirty_' = Disturbs(t)
              /\ nextExpiryTime_' = Earlier(nextExpiryTime_, expiry)
         ELSE UNCHANGED <<expiryTime, place, buckets_, expiryvars>>
      /\ UNCHANGED <<timerMap_, activeTimerCount_, cancelledPending_,
                     detachedPending_, maxAddedId_, alive, active, id>>

DrainRemove ==
  LET t == timerMap_[First.id]
  IN  /\ Draining("REMOVE")
      /\ IF t # None /\ active[t]
         THEN Drop(t) /\ Delete(t) /\ UNCHANGED <<nextExpiryTime_, cancelledPending_>>
         ELSE /\ cancelledPending_' = cancelledPending_ \cup
                   (IF t = None /\ First.id > maxAddedId_ THEN {First.id} ELSE {})
              /\ UNCHANGED <<wheelvars, active, alive, expiryTime, place>>
      /\ UNCHANGED <<detachedPending_, maxAddedId_, id>>

(***************************************************************************)
(* tick(): time                                                            *)
(***************************************************************************)

\* updateNextExpiryTime(): the earliest of the active timers in the wheel.
ActiveTimers ==
  {t \in Timers : active[t] /\ \E l \in 0..(Levels - 1), s \in 0..(Slots - 1) :
                                  t \in Linked(buckets_, <<l, s>>)}

EarliestExpiry ==
  IF ActiveTimers = {} THEN 0
  ELSE CHOOSE e \in {expiryTime[t] : t \in ActiveTimers} :
         \A t \in ActiveTimers : e <= expiryTime[t]

refreshNextExpiry ==
  /\ nextExpiryTime_' =
       IF activeTimerCount_ = 0 THEN 0
       ELSE IF nextExpiryDirty_ \/ nextExpiryTime_ = 0 THEN EarliestExpiry
       ELSE nextExpiryTime_
  /\ nextExpiryDirty_' = FALSE

\* The queue is empty: read the clock, and return if it has not moved.
DrainEnd ==
  /\ phase = "drain" /\ timer_operations_queue = <<>>
  /\ IF now <= currentTime_
     THEN phase' = "poll" /\ newTime' = 0 /\ refreshNextExpiry
     ELSE phase' = "advance" /\ newTime' = now /\ UNCHANGED expiryvars
  /\ UNCHANGED <<now, pollvars, currentTime_, buckets_, timerMap_,
                 activeTimerCount_, opvars, idvars, timervars, history>>

\* The slots of the levels that the new time starts an interval of, from the
\* highest level down, and the slot of level 0.
Turning(time) == {l \in 1..(Levels - 1) : time % interval_(l) = 0}

SlotsAt(time) ==
  LET n == Cardinality(Turning(time))
  IN  [k \in 1..(n + 1) |->
         <<n + 1 - k, (time \div interval_(n + 1 - k)) % Slots>>]

\* advance()
advance ==
  /\ phase = "advance" /\ currentTime_ < newTime
  /\ currentTime_' = currentTime_ + 1
  /\ phase' = "slots"
  /\ UNCHANGED <<now, newTime, pollvars, wheelvars, opvars, idvars, timervars, history>>

TickEnd ==
  /\ phase = "advance" /\ currentTime_ = newTime
  /\ phase' = "poll" /\ newTime' = 0
  /\ refreshNextExpiry
  /\ UNCHANGED <<now, pollvars, currentTime_, buckets_, timerMap_,
                 activeTimerCount_, opvars, idvars, timervars, history>>

\* The slot being processed is the first that is not empty: a timer that moves
\* goes to one that comes later, or that this advance() does not reach.
Waiting == {k \in 1..Len(SlotsAt(currentTime_)) :
              Linked(buckets_, SlotsAt(currentTime_)[k]) # {}}
Slot == SlotsAt(currentTime_)[CHOOSE k \in Waiting : \A j \in Waiting : k <= j]
Entries == buckets_[Slot[1]][Slot[2]]

\* One round of the loop of processSlot(): the first entry fires, moves to
\* where it belongs now, or is stale; in any case it leaves the bucket.
ProcessEntry ==
  LET t == Head(Entries)
      fires == active[t] /\ expiryTime[t] <= currentTime_
      moves == active[t] /\ ~fires
      b == IF moves THEN Push(buckets_, PlaceFor(expiryTime[t]), t) ELSE buckets_
      bucket == b[Slot[1]][Slot[2]]
  IN  /\ phase = "slots" /\ Waiting # {}
      /\ buckets_' = [b EXCEPT ![Slot[1]][Slot[2]] = SwapPop(bucket, 1)]
      /\ nextExpiryTime_' = IF moves THEN Earlier(nextExpiryTime_, expiryTime[t])
                                     ELSE nextExpiryTime_
      /\ IF fires
         THEN /\ active' = [active EXCEPT ![t] = FALSE]
              /\ timerMap_' = [timerMap_ EXCEPT ![id[t]] = None]
              /\ activeTimerCount_' = activeTimerCount_ - 1
              /\ nextExpiryDirty_' = Disturbs(t)
              /\ Delete(t) /\ Forget(t)
              /\ Settle(id[t], IF fate[id[t]] = "armed" THEN "fired" ELSE "wrong")
         ELSE /\ place' = IF moves THEN [place EXCEPT ![t] = PlaceFor(expiryTime[t])]
                                   ELSE place
              /\ UNCHANGED <<active, timerMap_, activeTimerCount_,
                             nextExpiryDirty_, alive, expiryTime, history>>
      /\ UNCHANGED <<now, loopvars, currentTime_, opvars, idvars, id>>

AdvanceEnd ==
  /\ phase = "slots" /\ Waiting = {}
  /\ phase' = "advance"
  /\ UNCHANGED <<now, newTime, pollvars, currentTime_, wheelvars, opvars, idvars,
                 timervars, history>>

(***************************************************************************)
(* The loop and the clock                                                  *)
(***************************************************************************)

\* getNextTimeout(): -1 if there is no timer, 0 if the earliest is already due.
getNextTimeout ==
  IF nextExpiryTime_ = 0 THEN -1
  ELSE IF nextExpiryTime_ <= now THEN 0 ELSE nextExpiryTime_ - now

\* Only a positive timeout is used: with a timer that is already due the poller
\* waits as long as with none.
PollTimeout == IF getNextTimeout > 0 THEN getNextTimeout ELSE IdleFallback

\* The top of the loop.  With coroutines ready the poll does not wait: that is a
\* poll that returns at once.
PollBegin ==
  /\ phase = "poll" /\ phase' = "sleep"
  /\ polledAt' = now /\ wakeAt' = now + PollTimeout
  /\ UNCHANGED <<now, newTime, currentTime_, wheelvars, opvars, idvars,
                 timervars, history>>

\* poll() returns: after its timeout, or earlier because something happened.
PollReturn ==
  /\ phase = "sleep" /\ phase' = "run"
  /\ polledAt' = 0 /\ wakeAt' = 0
  /\ UNCHANGED <<now, newTime, currentTime_, wheelvars, opvars, idvars,
                 timervars, history>>

\* The coroutines have run.
TickBegin ==
  /\ phase = "run" /\ phase' = "drain"
  /\ UNCHANGED <<now, newTime, pollvars, currentTime_, wheelvars, opvars, idvars,
                 timervars, history>>

\* The operating system ends the sleep in time.  While the wheel advances nobody
\* reads the clock.
Clock ==
  /\ now < MaxTime
  /\ IF phase = "sleep" THEN now < wakeAt
     ELSE phase \in {"poll", "run", "drain"} /\ now < currentTime_ + MaxLag
  /\ now' = now + 1
  /\ UNCHANGED <<loopvars, currentTime_, wheelvars, opvars, idvars, timervars,
                 history, calls>>

Coroutine ==
  /\ calls < MaxCalls /\ calls' = calls + 1
  /\ \/ \E d \in Durations : \/ \E t \in Timers : addTimer(t, d)
                             \/ \E i \in Ids : updateTimer(i, d)
     \/ \E i \in Ids : removeTimer(i) \/ cancelTimer(i) \/ cancelTimerDetach(i)

Worker ==
  /\ UNCHANGED calls
  /\ \/ PollBegin \/ PollReturn \/ TickBegin
     \/ DrainAdd \/ DrainUpdate \/ DrainRemove \/ DrainEnd
     \/ advance \/ ProcessEntry \/ AdvanceEnd \/ TickEnd

Next == Coroutine \/ Worker \/ Clock

Spec == Init /\ [][Next]_vars

(***************************************************************************)
(* Properties                                                              *)
(***************************************************************************)

Queued(i) ==
  \E k \in 1..Len(timer_operations_queue) :
    timer_operations_queue[k].op = "ADD" /\ timer_operations_queue[k].id = i

\* A timer fires once, and not after a cancellation that was told "true",
\* although its node, and its memory, may be in use again by then.
FiresOnceOrNever == \A i \in Ids : fate[i] # "wrong"

\* Nothing fires before its deadline; a refreshed timer has the new one from
\* the moment of the call, though the wheel learns of it at the next tick.
NeverEarly ==
  [][\A i \in Ids : fate[i] = "armed" /\ fate'[i] = "fired" => now >= due[i]]_vars

\* Nothing is skipped: whatever the wheel still holds when the tick is over is
\* due at the wheel's time or later, whichever levels it has come through.
NoneOverdue ==
  phase \in {"poll", "sleep", "run"} =>
    \A t \in ActiveTimers : expiryTime[t] >= currentTime_

\* "Keeps nextExpiryTime_ consistent after a tick": it is the earliest of the
\* timers in the wheel, and not that of a timer that is gone.
EarliestIsKnown == phase \in {"poll", "sleep"} => nextExpiryTime_ = EarliestExpiry

\* The sleep ends with the earliest timer, unless a timer was due already when the
\* timeout was computed: then it lasts idle_fallback_ms from there at most.
SleepEndsInTime ==
  phase = "sleep" => \A t \in ActiveTimers :
    \/ wakeAt <= expiryTime[t]
    \/ /\ \E u \in ActiveTimers : expiryTime[u] <= polledAt
       /\ wakeAt <= polledAt + IdleFallback

\* "Returns true iff the timer had not fired yet": whatever is armed can be
\* cancelled, because its addition is queued or the wheel has it; and the count
\* that decides whether there is anything to wait for is that of the wheel.
ArmedIsKnown ==
  /\ phase = "run" => \A i \in Ids : fate[i] = "armed" =>
       IF Queued(i) THEN i > maxAddedId_ /\ timerMap_[i] = None
       ELSE timerMap_[i] \in ActiveTimers /\ id[timerMap_[i]] = i
  /\ activeTimerCount_ = Cardinality(ActiveTimers)

\* The wheel has no pointer to a deleted timer: not in a bucket, not in its
\* map, and not in a queued addition that it will not drop unseen.
NoUseAfterFree ==
  /\ \A l \in 0..(Levels - 1), s \in 0..(Slots - 1) :
       \A t \in Linked(buckets_, <<l, s>>) : alive[t]
  /\ \A i \in Ids : timerMap_[i] # None => alive[timerMap_[i]]
  /\ \A k \in 1..Len(timer_operations_queue) :
       LET op == timer_operations_queue[k]
       IN  op.op = "ADD" => alive[op.timer] \/ op.id \in detachedPending_

\* How late a timer can be: a tick leaves nothing behind (tick, processSlot), the
\* earliest expiry is known exactly (updateNextExpiryTime), and the poll waits for
\* it, or, if it has passed by then, idle_fallback_ms (getNextTimeout, Thread.cpp).
LatenessIsBounded == NoneOverdue /\ EarliestIsKnown /\ SleepEndsInTime

\* The wheel and the program agree on what is armed and on what exists.
WheelIsSound == TypeOK /\ ArmedIsKnown /\ NoUseAfterFree
=============================================================================
