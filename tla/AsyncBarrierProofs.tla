------------------------- MODULE AsyncBarrierProofs -------------------------
(***************************************************************************)
(* The barrier's safety for any number of parties, coroutines and workers. *)
(*                                                                         *)
(* The properties speak of phases, the code of a counter it resets.  The   *)
(* inductive invariant ties the two together: the arrivals before the      *)
(* phase being filled are a multiple of parties_, so a coroutine's phase   *)
(* is full exactly when its ticket is below them, and the waiters of full  *)
(* phases are exactly those in a list that a last arriver took.            *)
(***************************************************************************)
EXTENDS AsyncBarrier, WaitListProofs

\* The arrivals of the phases that are full.
Settled == arrivals - arrived_

\* The counter of the code is what is left over of the arrivals.
CountInv == \E q \in 0..arrivals : Settled = q * parties_

\* A ticket is an arrival; whoever is past the barrier has one of a full phase.
TicketInv ==
  \A t \in Tasks :
    /\ ticket[t] < arrivals
    /\ pc[t] # "out" => ticket[t] >= 0
    /\ pc[t] # "parked" => ticket[t] < Settled

\* A coroutine between two suspension points runs, and only then.
RunInv ==
  \A t \in Tasks :
    /\ pc[t] = "release" => Runs(t) /\ ready[t] = 0
    /\ pc[t] = "out" => ready[t] = IF Runs(t) THEN 0 ELSE 1
    /\ pc[t] = "parked" => ~Runs(t)

\* The lists hold parked coroutines, each once and in one list: waiters_ those
\* of the phase being filled, a list taken from it those of a full one.
ListInv ==
  /\ Distinct(waiters_)
  /\ \A t \in InList(waiters_) : pc[t] = "parked" /\ ticket[t] >= Settled
  /\ \A u \in Tasks : Distinct(list[u])
  /\ \A u \in Tasks : \A t \in InList(list[u]) :
       pc[u] = "release" /\ pc[t] = "parked" /\ ready[t] = 0 /\ ticket[t] < Settled
  /\ \A u, v \in Tasks : InList(list[u]) \cap InList(list[v]) # {} => u = v

\* Some last arriver has t still to resume.
Due(t) == \E u \in Tasks : t \in InList(list[u])

\* The right to resume a waiter is in one place.
TokenInv ==
  \A t \in Tasks : pc[t] = "parked" =>
    IF ticket[t] < Settled
    THEN ready[t] = IF Due(t) THEN 0 ELSE 1
    ELSE t \in InList(waiters_) /\ ready[t] = 0

IInv == TypeOK /\ CountInv /\ TicketInv /\ RunInv /\ ListInv /\ TokenInv

\* Multiplication by a positive number is strictly monotonic.
LEMMA TimesMonotonic ==
  ASSUME NEW n \in Nat \ {0}, NEW a \in Int, NEW b \in Int, a < b
  PROVE  (a + 1) * n <= b * n
<1>1. PICK d \in Nat : b = a + 1 + d
  <2>1. b - a - 1 \in Nat /\ b = a + 1 + (b - a - 1)
    OBVIOUS
  <2> QED
    BY <2>1
<1>2. b * n = (a + 1) * n + d * n
  BY <1>1
<1>3. d * n >= 0
  BY <1>1
<1>4. (a + 1) * n \in Int /\ d * n \in Int
  OBVIOUS
<1> QED
  BY <1>2, <1>3, <1>4

\* A phase is full exactly when its arrivals are among the settled ones.
LEMMA FullIsSettled ==
  ASSUME TypeOK, CountInv, NEW t \in Tasks, ticket[t] >= 0
  PROVE  PhaseFull(t) <=> ticket[t] < Settled
<1> USE PartiesAssumption
<1>1. PICK q \in 0..arrivals : Settled = q * parties_
  BY DEF CountInv
<1> DEFINE d == ticket[t] \div parties_
<1>2. /\ ticket[t] \in Nat /\ arrivals \in Nat
      /\ arrived_ \in Nat /\ arrived_ < parties_
      /\ arrivals = Settled + arrived_
      /\ Settled \in Int
  BY DEF TypeOK, Settled
<1>3. d \in Int /\ d * parties_ <= ticket[t] /\ ticket[t] < d * parties_ + parties_
  <2>1. d * parties_ <= ticket[t]
    BY <1>2
  <2>2. ticket[t] < d * parties_ + parties_
    BY <1>2
  <2>3. d \in Int
    BY <1>2
  <2> QED
    BY <2>1, <2>2, <2>3
<1>4. PhaseFull(t) <=> arrivals >= (d + 1) * parties_
  BY DEF PhaseFull
<1> HIDE DEF d
<1>a. /\ (d + 1) * parties_ = d * parties_ + parties_
      /\ (q + 1) * parties_ = q * parties_ + parties_
      /\ d * parties_ \in Int /\ q * parties_ \in Int
  BY <1>3
<1>5. CASE d < q
  <2>1. (d + 1) * parties_ <= q * parties_
    BY <1>3, <1>5, TimesMonotonic
  <2> QED
    BY <1>1, <1>2, <1>3, <1>4, <1>a, <2>1
<1>6. CASE ~(d < q)
  <2>1. (q - 1) + 1 = q /\ q - 1 < d /\ q - 1 \in Int
    BY <1>3, <1>6
  <2>2. q * parties_ <= d * parties_
    BY <1>3, <2>1, TimesMonotonic
  <2> QED
    BY <1>1, <1>2, <1>3, <1>4, <1>a, <2>2
<1> QED
  BY <1>5, <1>6

\* A fresh barrier (AsyncBarrier.h, arrived_ zero and an empty list) satisfies it.
LEMMA InitIInv == Init => IInv
<1> SUFFICES ASSUME Init PROVE IInv
  OBVIOUS
<1> USE PartiesAssumption
<1>1. InList(waiters_) = {} /\ \A u \in Tasks : InList(list[u]) = {}
  BY DEF Init, InList
<1>2. TypeOK
  <2>1. RuntimeTypeOK
    BY DEF Init, RuntimeInit, RuntimeTypeOK
  <2> QED
    BY <2>1 DEF Init, TypeOK
<1>3. CountInv
  <2>1. 0 \in 0..arrivals /\ Settled = 0 * parties_
    BY DEF Init, Settled
  <2> QED
    BY <2>1 DEF CountInv
<1>4. TicketInv
  <2>1. arrivals = 0 /\ Settled = 0
    BY DEF Init, Settled
  <2>2. ASSUME NEW t \in Tasks PROVE pc[t] = "out" /\ ticket[t] < 0
    <3>1. pc[t] = "out" /\ ticket[t] = -1
      BY DEF Init
    <3> QED
      BY <3>1
  <2> QED
    BY <2>1, <2>2 DEF TicketInv
<1>5. RunInv
  BY HomeAssumption, NoneAssumption DEF Init, RuntimeInit, RunInv, Runs
<1>6. ListInv
  BY <1>1 DEF Init, ListInv, Distinct
<1>7. TokenInv
  BY DEF Init, TokenInv
<1> QED
  BY <1>2, <1>3, <1>4, <1>5, <1>6, <1>7 DEF IInv

\* Only coroutines are linked.
LEMMA LinkedAreTasks ==
  TypeOK => InList(waiters_) \subseteq Tasks /\ \A u \in Tasks : InList(list[u]) \subseteq Tasks
<1> SUFFICES ASSUME TypeOK
             PROVE  InList(waiters_) \subseteq Tasks /\ \A u \in Tasks : InList(list[u]) \subseteq Tasks
  OBVIOUS
<1>1. ASSUME NEW l \in Seq(Tasks) PROVE InList(l) \subseteq Tasks
  BY DEF InList
<1>2. waiters_ \in Seq(Tasks) /\ \A u \in Tasks : list[u] \in Seq(Tasks)
  BY DEF TypeOK
<1> QED
  BY <1>1, <1>2

\* A step that changes neither arrivals nor lists nor tickets moves no phase.
LEMMA SamePhases ==
  ASSUME CountInv, UNCHANGED <<arrived_, arrivals>>
  PROVE  CountInv' /\ Settled' = Settled
BY DEF CountInv, Settled

\* An arrival that does not complete the phase links its node.
LEMMA ArriveParks ==
  ASSUME IInv, NEW t \in Tasks, Arrive(t), arrived_ + 1 # parties_
  PROVE  IInv'
<1> USE PartiesAssumption
<1>0. RuntimeTypeOK /\ pc[t] = "out" /\ t \notin InList(waiters_) /\ ready[t] = 0 /\ ~Due(t)
  BY DEF Arrive, IInv, TypeOK, ListInv, RunInv, Due
<1>1. /\ waiters_' \in Seq(Tasks)
      /\ InList(waiters_') = InList(waiters_) \cup {t}
      /\ Distinct(waiters_')
  <2>1. waiters_' = <<t>> \o waiters_ /\ waiters_ \in Seq(Tasks) /\ Distinct(waiters_)
    BY DEF Arrive, IInv, TypeOK, ListInv
  <2> QED
    BY <1>0, <2>1, PushFront
<1>2. /\ running' \in [Workers -> Tasks \cup {None}]
      /\ ~Runs(t)'
      /\ \A u \in Tasks \ {t} : Runs(u)' <=> Runs(u)
  BY <1>0, SuspendEffect DEF Arrive
<1>3. /\ arrived_' = arrived_ + 1 /\ arrivals' = arrivals + 1
      /\ list' = list /\ ready' = ready
      /\ arrived_ \in Nat /\ arrivals \in Nat /\ Settled \in Int
      /\ Settled' = Settled /\ Settled <= arrivals
      /\ pc'[t] = "parked" /\ ticket'[t] = arrivals
      /\ \A u \in Tasks \ {t} : pc'[u] = pc[u] /\ ticket'[u] = ticket[u]
      /\ \A u \in Tasks : ticket[u] \in Int
  BY DEF Arrive, IInv, TypeOK, Settled, Goto
<1>a. InList(waiters_) \subseteq Tasks /\ \A u \in Tasks : InList(list[u]) \subseteq Tasks
  BY LinkedAreTasks DEF IInv
<1>4. TypeOK'
  <2>1. pc' \in [Tasks -> {"out", "parked", "release"}]
    BY DEF Arrive, IInv, TypeOK, Goto
  <2>4. arrived_' \in 0..(parties_ - 1) /\ arrivals' \in 0..MaxArrivals
    BY <1>3 DEF Arrive, IInv, TypeOK
  <2>2. arrivals \in -1..(MaxArrivals - 1)
    BY DEF Arrive, IInv, TypeOK
  <2>3. ticket' \in [Tasks -> -1..(MaxArrivals - 1)]
    BY <2>2 DEF Arrive, IInv, TypeOK
  <2> QED
    BY <1>1, <1>2, <2>1, <2>3, <2>4, <1>3 DEF Arrive, IInv, TypeOK, RuntimeTypeOK
<1>5. CountInv'
  <2>1. PICK q \in 0..arrivals : Settled = q * parties_
    BY DEF IInv, CountInv
  <2>2. q \in 0..arrivals'
    BY <1>3
  <2> QED
    BY <1>3, <2>1, <2>2 DEF CountInv
<1>6. TicketInv'
  BY <1>3 DEF IInv, TicketInv
<1>7. RunInv'
  BY <1>2, <1>3 DEF IInv, RunInv
<1>8. ListInv'
  <2>1. \A u \in InList(waiters_)' : pc'[u] = "parked" /\ ticket'[u] >= Settled'
    BY <1>1, <1>3, <1>a DEF IInv, ListInv
  <2>2. \A u \in Tasks : \A v \in InList(list[u]) :
          pc'[u] = "release" /\ pc'[v] = "parked" /\ ready[v] = 0 /\ ticket'[v] < Settled
    BY <1>0, <1>3, <1>a DEF IInv, ListInv
  <2>3. /\ \A u \in Tasks : Distinct(list[u])
        /\ \A u, v \in Tasks : InList(list[u]) \cap InList(list[v]) # {} => u = v
    BY DEF IInv, ListInv
  <2> QED
    BY <1>1, <1>3, <2>1, <2>2, <2>3 DEF ListInv
<1>9. TokenInv'
  <2>1. \A u \in Tasks : Due(u)' <=> Due(u)
    BY <1>3 DEF Due
  <2> QED
    BY <1>0, <1>1, <1>3, <2>1 DEF IInv, TokenInv
<1> QED
  BY <1>4, <1>5, <1>6, <1>7, <1>8, <1>9 DEF IInv

\* The last arrival of a phase takes all of its waiters.
LEMMA ArriveCompletes ==
  ASSUME IInv, NEW t \in Tasks, Arrive(t), arrived_ + 1 = parties_
  PROVE  IInv'
<1> USE PartiesAssumption
<1>0. RuntimeTypeOK /\ pc[t] = "out" /\ Runs(t) /\ ready[t] = 0
  BY DEF Arrive, IInv, TypeOK, RunInv
<1>a. InList(waiters_) \subseteq Tasks /\ \A u \in Tasks : InList(list[u]) \subseteq Tasks
  BY LinkedAreTasks DEF IInv
<1>1. /\ arrived_' = 0 /\ arrivals' = arrivals + 1
      /\ waiters_' = <<>> /\ running' = running /\ ready' = ready
      /\ arrived_ \in Nat /\ arrivals \in Nat /\ Settled \in Int
      /\ Settled' = arrivals + 1 /\ Settled + parties_ = Settled' /\ Settled < Settled'
      /\ pc'[t] = "release" /\ ticket'[t] = arrivals /\ list'[t] = waiters_
      /\ \A u \in Tasks \ {t} :
           pc'[u] = pc[u] /\ ticket'[u] = ticket[u] /\ list'[u] = list[u]
      /\ \A u \in Tasks : ticket[u] \in Int
  BY DEF Arrive, IInv, TypeOK, Settled, Goto
<1>2. \A u \in Tasks : Runs(u)' <=> Runs(u)
  BY <1>1, SameRuns
<1>3. InList(waiters_)' = {} /\ Distinct(waiters_)'
  BY <1>1 DEF InList, Distinct
<1>4. TypeOK'
  <2>1. pc' \in [Tasks -> {"out", "parked", "release"}]
    BY DEF Arrive, IInv, TypeOK, Goto
  <2>6. arrived_' \in 0..(parties_ - 1) /\ arrivals' \in 0..MaxArrivals
    BY <1>1 DEF Arrive, IInv, TypeOK
  <2>2. arrivals \in -1..(MaxArrivals - 1)
    BY DEF Arrive, IInv, TypeOK
  <2>3. ticket' \in [Tasks -> -1..(MaxArrivals - 1)]
    BY <2>2 DEF Arrive, IInv, TypeOK
  <2>4. list' = [list EXCEPT ![t] = waiters_] /\ waiters_ \in Seq(Tasks) /\ list \in [Tasks -> Seq(Tasks)]
    BY DEF Arrive, IInv, TypeOK
  <2>5. list' \in [Tasks -> Seq(Tasks)] /\ waiters_' \in Seq(Tasks)
    BY <1>1, <2>4
  <2> QED
    BY <1>1, <2>1, <2>3, <2>5, <2>6 DEF Arrive, IInv, TypeOK, RuntimeTypeOK
<1>5. CountInv'
  <2>1. PICK q \in 0..arrivals : Settled = q * parties_
    BY DEF IInv, CountInv
  <2>2. q + 1 \in 0..arrivals'
    BY <1>1
  <2>3. (q + 1) * parties_ = q * parties_ + parties_
    BY <1>1
  <2> QED
    BY <1>1, <2>1, <2>2, <2>3 DEF CountInv
<1>6. TicketInv'
  BY <1>1 DEF IInv, TicketInv
<1>7. RunInv'
  BY <1>0, <1>1, <1>2 DEF IInv, RunInv
<1>8. ListInv'
  <2>1. \A v \in InList(waiters_) : pc[v] = "parked" /\ ready[v] = 0 /\ v # t
    BY <1>0, <1>a, <1>1 DEF IInv, ListInv, TokenInv
  <2>2. \A u \in Tasks \ {t} : InList(list[u]) \cap InList(waiters_) = {}
    BY <1>a, <1>1 DEF IInv, ListInv
  <2>3. InList(list[t]) = {}
    BY <1>0 DEF IInv, ListInv
  <2>4. \A u \in Tasks : Distinct(list'[u])
    BY <1>1 DEF IInv, ListInv
  <2>5. ASSUME NEW u \in Tasks, NEW v \in InList(list'[u])
        PROVE  pc'[u] = "release" /\ pc'[v] = "parked" /\ ready[v] = 0 /\ ticket'[v] < Settled'
    <3>1. CASE u = t
      <4>1. v \in Tasks \ {t} /\ pc[v] = "parked" /\ ready[v] = 0
        BY <1>1, <1>a, <2>1, <2>5, <3>1
      <4> QED
        BY <1>1, <3>1, <4>1 DEF IInv, TicketInv
    <3>2. CASE u # t
      <4>1. v \in InList(list[u])
        BY <1>1, <2>5, <3>2
      <4>2. v \in Tasks \ {t} /\ pc[u] = "release" /\ pc[v] = "parked" /\ ready[v] = 0
        BY <1>0, <1>a, <4>1 DEF IInv, ListInv
      <4> QED
        BY <1>1, <3>2, <4>2 DEF IInv, TicketInv
    <3> QED
      BY <3>1, <3>2
  <2>6. ASSUME NEW u \in Tasks, NEW v \in Tasks, InList(list'[u]) \cap InList(list'[v]) # {}
        PROVE  u = v
    BY <1>1, <2>2, <2>6 DEF IInv, ListInv
  <2> QED
    BY <1>1, <1>3, <2>4, <2>5, <2>6 DEF ListInv
<1>9. TokenInv'
  <2> SUFFICES ASSUME NEW u \in Tasks, pc'[u] = "parked"
               PROVE  ticket'[u] < Settled' /\ ready[u] = IF Due(u)' THEN 0 ELSE 1
    BY <1>1 DEF TokenInv
  <2>1. u # t /\ pc[u] = "parked" /\ ticket'[u] < Settled'
    BY <1>1 DEF IInv, TicketInv
  <2>2. CASE ticket[u] < Settled
    <3>1. Due(u)' <=> Due(u)
      <4>1. u \notin InList(waiters_) /\ u \notin InList(list[t])
        BY <1>0, <1>1, <2>2 DEF IInv, ListInv
      <4> QED
        BY <1>1, <4>1 DEF Due
    <3> QED
      BY <2>1, <2>2, <3>1 DEF IInv, TokenInv
  <2>3. CASE ~(ticket[u] < Settled)
    <3>1. u \in InList(waiters_) /\ ready[u] = 0
      BY <2>1, <2>3 DEF IInv, TokenInv
    <3>2. Due(u)'
      BY <1>1, <3>1 DEF Due
    <3> QED
      BY <2>1, <3>1, <3>2
  <2> QED
    BY <2>2, <2>3
<1> QED
  BY <1>4, <1>5, <1>6, <1>7, <1>8, <1>9 DEF IInv

\* A round of the resuming loop hands its waiter's right over to the queue.
LEMMA ReleaseNextStep == ASSUME IInv, NEW t \in Tasks, ReleaseNext(t) PROVE IInv'
<1> DEFINE h == Head(list[t])
<1>0. RuntimeTypeOK /\ pc[t] = "release"
  BY DEF ReleaseNext, IInv, TypeOK
<1>a. InList(waiters_) \subseteq Tasks /\ \A u \in Tasks : InList(list[u]) \subseteq Tasks
  BY LinkedAreTasks DEF IInv
<1>1. /\ Tail(list[t]) \in Seq(Tasks)
      /\ h \in InList(list[t]) /\ h \in Tasks
      /\ InList(Tail(list[t])) = InList(list[t]) \ {h}
      /\ Distinct(Tail(list[t]))
  <2>1. list[t] \in Seq(Tasks) /\ list[t] # <<>> /\ Distinct(list[t])
    BY DEF ReleaseNext, IInv, TypeOK, ListInv
  <2> QED
    BY <2>1, PopFront
<1>2. /\ ready' \in [Tasks -> Nat]
      /\ \A u \in Tasks : ready'[u] = IF u \in {h} THEN ready[u] + 1 ELSE ready[u]
  BY <1>0, ResumeOnEffect DEF ReleaseNext
<1> HIDE DEF h
<1>3. /\ list' \in [Tasks -> Seq(Tasks)]
      /\ InList(list'[t]) = InList(list[t]) \ {h} /\ Distinct(list'[t])
      /\ \A u \in Tasks \ {t} : list'[u] = list[u]
      /\ waiters_' = waiters_ /\ pc' = pc /\ ticket' = ticket
  BY <1>1 DEF ReleaseNext, IInv, TypeOK, h
<1>4. CountInv' /\ Settled' = Settled
  BY SamePhases DEF ReleaseNext, IInv
<1>5. pc[h] = "parked" /\ ready[h] = 0 /\ ticket[h] < Settled
  BY <1>1 DEF IInv, ListInv
<1>6. TypeOK'
  <2>1. RuntimeTypeOK'
    BY <1>2 DEF ReleaseNext, IInv, TypeOK, RuntimeTypeOK
  <2>2. UNCHANGED <<arrived_, waiters_, pc, arrivals, ticket>>
    BY DEF ReleaseNext
  <2> QED
    BY <1>3, <2>1, <2>2 DEF IInv, TypeOK
<1>7. TicketInv'
  BY <1>3, <1>4 DEF ReleaseNext, IInv, TicketInv
<1>8. RunInv'
  <2>1. \A u \in Tasks : Runs(u)' <=> Runs(u)
    BY SameRuns DEF ReleaseNext
  <2>2. \A u \in Tasks : pc[u] # "parked" => ready'[u] = ready[u]
    BY <1>2, <1>5
  <2> QED
    BY <1>3, <2>1, <2>2 DEF IInv, RunInv
<1>9. \A u \in Tasks : InList(list'[u]) = InList(list[u]) \ {h}
  <2>1. \A u \in Tasks \ {t} : h \notin InList(list[u])
    BY <1>1 DEF IInv, ListInv
  <2> QED
    BY <1>3, <2>1
<1>10. ListInv'
  <2>1. \A u \in Tasks : Distinct(list'[u])
    BY <1>3 DEF IInv, ListInv
  <2>2. \A u \in Tasks : \A v \in InList(list'[u]) :
          pc[u] = "release" /\ pc[v] = "parked" /\ ready'[v] = 0 /\ ticket[v] < Settled
    <3>1. ASSUME NEW u \in Tasks, NEW v \in InList(list[u]) \ {h}
          PROVE  pc[u] = "release" /\ pc[v] = "parked" /\ ready'[v] = 0 /\ ticket[v] < Settled
      <4>1. v \in Tasks /\ ready'[v] = ready[v]
        BY <1>a, <1>2
      <4> QED
        BY <4>1 DEF IInv, ListInv
    <3> QED
      BY <1>9, <3>1
  <2>3. \A u, v \in Tasks : InList(list'[u]) \cap InList(list'[v]) # {} => u = v
    BY <1>9 DEF IInv, ListInv
  <2>4. Distinct(waiters_) /\ \A u \in InList(waiters_) : pc[u] = "parked" /\ ticket[u] >= Settled
    BY DEF IInv, ListInv
  <2> QED
    BY <1>3, <1>4, <2>1, <2>2, <2>3, <2>4 DEF ListInv
<1>11. TokenInv'
  <2>1. \A u \in Tasks : Due(u)' <=> Due(u) /\ u # h
    BY <1>9 DEF Due
  <2>2. Due(h)
    BY <1>1 DEF Due
  <2> QED
    <3> SUFFICES ASSUME NEW u \in Tasks, pc[u] = "parked"
                 PROVE  IF ticket[u] < Settled
                        THEN ready'[u] = IF Due(u)' THEN 0 ELSE 1
                        ELSE u \in InList(waiters_) /\ ready'[u] = 0
      BY <1>3, <1>4 DEF TokenInv
    <3>1. CASE u = h
      BY <1>2, <1>5, <2>1, <3>1
    <3>2. CASE u # h
      BY <1>2, <2>1, <3>2 DEF IInv, TokenInv
    <3> QED
      BY <3>1, <3>2
<1> QED
  BY <1>4, <1>6, <1>7, <1>8, <1>10, <1>11 DEF IInv

\* The last arriver goes on when its list is empty.
LEMMA PassStep == ASSUME IInv, NEW t \in Tasks, Pass(t) PROVE IInv'
<1> USE DEF Pass, Goto, runtime
<1>1. /\ pc' \in [Tasks -> {"out", "parked", "release"}]
      /\ pc[t] = "release" /\ pc'[t] = "out" /\ \A u \in Tasks \ {t} : pc'[u] = pc[u]
      /\ Runs(t) /\ InList(list[t]) = {}
  BY DEF IInv, TypeOK, InList
<1>2. CountInv' /\ Settled' = Settled
  BY SamePhases DEF IInv
<1>a. InList(waiters_) \subseteq Tasks /\ \A u \in Tasks : InList(list[u]) \subseteq Tasks
  BY LinkedAreTasks DEF IInv
<1>3. TypeOK'
  BY <1>1 DEF IInv, TypeOK, RuntimeTypeOK
<1>4. TicketInv'
  BY <1>1, <1>2 DEF IInv, TicketInv
<1>5. RunInv'
  <2>1. \A u \in Tasks : Runs(u)' <=> Runs(u)
    BY SameRuns
  <2> QED
    BY <1>1, <2>1 DEF IInv, RunInv
<1>6. ListInv'
  <2>1. \A u \in Tasks : InList(list[u]) # {} => pc'[u] = pc[u]
    BY <1>1
  <2>2. \A u \in Tasks : pc[u] = "parked" => pc'[u] = "parked"
    BY <1>1
  <2> QED
    BY <1>2, <1>a, <2>1, <2>2 DEF IInv, ListInv
<1>7. TokenInv'
  <2>1. \A u \in Tasks : Due(u)' <=> Due(u)
    BY DEF Due
  <2> QED
    BY <1>1, <1>2, <2>1 DEF IInv, TokenInv
<1> QED
  BY <1>2, <1>3, <1>4, <1>5, <1>6, <1>7 DEF IInv

\* Resuming uses up the one handle of the coroutine.
LEMMA ResumeStep == ASSUME IInv, NEW t \in Tasks, Resume(t) PROVE IInv'
<1> USE DEF Resume
<1>0. RuntimeTypeOK
  BY DEF IInv, TypeOK
<1>1. /\ running' \in [Workers -> Tasks \cup {None}]
      /\ ready' \in [Tasks -> Nat]
      /\ cancel_fn' \in [Tasks -> BOOLEAN]
      /\ ~Runs(t) /\ Runs(t)'
      /\ ready[t] \in Nat \ {0} /\ ready'[t] = ready[t] - 1
      /\ \A u \in Tasks \ {t} : (Runs(u)' <=> Runs(u)) /\ ready'[u] = ready[u]
  BY <1>0, LoopResumeEffect
<1>2. /\ pc' \in [Tasks -> {"out", "parked", "release"}]
      /\ pc'[t] = "out" /\ \A u \in Tasks \ {t} : pc'[u] = pc[u]
  BY DEF IInv, TypeOK, Goto
<1>3. CountInv' /\ Settled' = Settled
  BY SamePhases DEF IInv
<1>4. pc[t] \in {"out", "parked"}
  BY <1>1 DEF IInv, RunInv, TypeOK
<1>5. ready[t] = 1 /\ ticket[t] < Settled /\ t \notin InList(waiters_) /\ ~Due(t)
  <2>1. CASE pc[t] = "out"
    BY <1>1, <2>1 DEF IInv, RunInv, TicketInv, ListInv, Due
  <2>2. CASE pc[t] = "parked"
    <3>1. ticket[t] < Settled /\ ready[t] = 1 /\ ~Due(t)
      BY <1>1, <2>2 DEF IInv, TokenInv
    <3>2. ticket[t] \in Int /\ Settled \in Int
      BY DEF IInv, TypeOK, Settled
    <3>3. t \notin InList(waiters_)
      BY <3>1, <3>2 DEF IInv, ListInv
    <3> QED
      BY <3>1, <3>3
  <2> QED
    BY <1>4, <2>1, <2>2
<1>a. InList(waiters_) \subseteq Tasks /\ \A u \in Tasks : InList(list[u]) \subseteq Tasks
  BY LinkedAreTasks DEF IInv
<1>6. TypeOK'
  BY <1>1, <1>2 DEF IInv, TypeOK, RuntimeTypeOK
<1>7. TicketInv'
  BY <1>2, <1>3, <1>5 DEF IInv, TicketInv
<1>8. RunInv'
  BY <1>1, <1>2, <1>5 DEF IInv, RunInv
<1>9. ListInv'
  <2>1. \A u \in Tasks : pc[u] = "release" => pc'[u] = "release"
    BY <1>2, <1>4
  <2>2. \A u \in Tasks : t \notin InList(list[u])
    BY <1>5 DEF Due
  <2> QED
    BY <1>1, <1>2, <1>3, <1>5, <1>a, <2>1, <2>2 DEF IInv, ListInv
<1>10. TokenInv'
  <2>1. \A u \in Tasks : Due(u)' <=> Due(u)
    BY DEF Due
  <2> QED
    BY <1>1, <1>2, <1>3, <2>1 DEF IInv, TokenInv
<1> QED
  BY <1>3, <1>6, <1>7, <1>8, <1>9, <1>10 DEF IInv

\* A kick has nothing to run: the awaiter arms no hook.
LEMMA OnCancelStep == ASSUME IInv, NEW t \in Tasks, OnCancel(t) PROVE IInv'
<1> USE DEF OnCancel, TakeKick, barriervars
<1>1. CountInv' /\ Settled' = Settled
  BY SamePhases DEF IInv
<1>2. TypeOK'
  BY DEF IInv, TypeOK, RuntimeTypeOK
<1>3. TicketInv'
  BY <1>1 DEF IInv, TicketInv
<1>4. RunInv' /\ TokenInv'
  BY <1>1 DEF IInv, RunInv, Runs, TokenInv, Due
<1>5. ListInv'
  BY <1>1 DEF IInv, ListInv
<1> QED
  BY <1>1, <1>2, <1>3, <1>4, <1>5 DEF IInv

\* A coroutine that awaits something else has one handle on its way.
LEMMA YieldStep == ASSUME IInv, NEW t \in Tasks, Yield(t) PROVE IInv'
<1> USE DEF Yield, barriervars
<1>0. RuntimeTypeOK /\ Runs(t) /\ pc[t] = "out" /\ ready[t] = 0
  BY DEF IInv, TypeOK, RunInv
<1>1. /\ running' \in [Workers -> Tasks \cup {None}]
      /\ ~Runs(t)'
      /\ \A u \in Tasks \ {t} : Runs(u)' <=> Runs(u)
  BY <1>0, SuspendEffect
<1>2. /\ ready' \in [Tasks -> Nat]
      /\ \A u \in Tasks : ready'[u] = IF u = t THEN ready[u] + 1 ELSE ready[u]
  BY <1>0, ResumeOnEffect
<1>3. CountInv' /\ Settled' = Settled
  BY SamePhases DEF IInv
<1>a. InList(waiters_) \subseteq Tasks /\ \A u \in Tasks : InList(list[u]) \subseteq Tasks
  BY LinkedAreTasks DEF IInv
<1>4. TypeOK'
  BY <1>1, <1>2 DEF IInv, TypeOK, RuntimeTypeOK
<1>5. TicketInv'
  BY <1>3 DEF IInv, TicketInv
<1>6. RunInv'
  <2>1. \A u \in Tasks \ {t} : ready'[u] = ready[u]
    BY <1>2
  <2>2. ready'[t] = 1
    <3>1. ready'[t] = ready[t] + 1
      BY <1>2
    <3> QED
      BY <1>0, <3>1
  <2> QED
    BY <1>0, <1>1, <2>1, <2>2 DEF IInv, RunInv
<1>7. ListInv'
  <2>1. \A u \in Tasks : \A v \in InList(list[u]) : ready'[v] = ready[v]
    BY <1>0, <1>2, <1>a DEF IInv, ListInv
  <2>2. \A u \in Tasks : \A v \in InList(list[u]) :
          pc[u] = "release" /\ pc[v] = "parked" /\ ready'[v] = 0 /\ ticket[v] < Settled
    BY <2>1 DEF IInv, ListInv
  <2> QED
    BY <1>3, <2>2 DEF IInv, ListInv
<1>8. TokenInv'
  BY <1>0, <1>2, <1>3 DEF IInv, TokenInv, Due
<1> QED
  BY <1>3, <1>4, <1>5, <1>6, <1>7, <1>8 DEF IInv

\* A request to cancel touches neither the barrier nor the queues.
LEMMA CancelStep == ASSUME IInv, NEW t \in Tasks, Cancel(t) PROVE IInv'
<1> USE DEF Cancel, barriervars
<1>0. RuntimeTypeOK' /\ UNCHANGED <<running, ready, cancel_fn>>
  BY CancelEffect DEF IInv, TypeOK
<1>1. CountInv' /\ Settled' = Settled
  BY SamePhases DEF IInv
<1>2. TypeOK' /\ TicketInv'
  BY <1>0, <1>1 DEF IInv, TypeOK, TicketInv
<1>3. RunInv' /\ TokenInv'
  BY <1>0, <1>1 DEF IInv, RunInv, Runs, TokenInv, Due
<1>4. ListInv'
  BY <1>0, <1>1 DEF IInv, ListInv
<1> QED
  BY <1>1, <1>2, <1>3, <1>4 DEF IInv

\* Every step of every coroutine keeps the invariant.
LEMMA NextIInv == IInv /\ [Next]_vars => IInv'
<1> SUFFICES ASSUME IInv, [Next]_vars PROVE IInv'
  OBVIOUS
<1>1. ASSUME NEW t \in Tasks, Arrive(t) PROVE IInv'
  BY <1>1, ArriveParks, ArriveCompletes
<1>2. CASE Next
  BY <1>1, <1>2, ReleaseNextStep, PassStep, ResumeStep, OnCancelStep, YieldStep, CancelStep DEF Next
<1>3. CASE UNCHANGED vars
  <2> USE <1>3 DEF vars, runtime, barriervars
  <2>1. CountInv' /\ Settled' = Settled
    BY SamePhases DEF IInv
  <2>2. TypeOK' /\ TicketInv'
    BY <2>1 DEF IInv, TypeOK, RuntimeTypeOK, TicketInv
  <2>3. RunInv' /\ TokenInv'
    BY <2>1 DEF IInv, RunInv, Runs, TokenInv, Due
  <2>4. ListInv'
    BY <2>1 DEF IInv, ListInv
  <2> QED
    BY <2>1, <2>2, <2>3, <2>4 DEF IInv
<1> QED
  BY <1>2, <1>3

\* The invariant holds in every behaviour, for every parties_ and set of tasks.
THEOREM BarrierInvariant == Spec => []IInv
BY InitIInv, NextIInv, PTL DEF Spec

\* "No participant can pass early": whoever await_suspend() let go on, or whose
\* handle a last arriver enqueued, is of a phase all its parties have reached.
THEOREM BarrierNobodyPassesEarly == Spec => []NobodyPassesEarly
<1>1. IInv => NobodyPassesEarly
  <2> SUFFICES ASSUME IInv, NEW t \in Tasks, ticket[t] >= 0, pc[t] # "parked" \/ ready[t] > 0
               PROVE  PhaseFull(t)
    BY DEF NobodyPassesEarly
  <2>1. ticket[t] < Settled
    <3>1. CASE pc[t] # "parked"
      BY <3>1 DEF IInv, TicketInv
    <3>2. CASE pc[t] = "parked"
      BY <3>2 DEF IInv, TokenInv
    <3> QED
      BY <3>1, <3>2
  <2> QED
    BY <2>1, FullIsSettled DEF IInv
<1> QED
  BY <1>1, BarrierInvariant, PTL

\* The resuming loop of await_suspend(): a waiter of a full phase is resumed by
\* exactly one last arriver, one of an unfinished phase by nobody yet, and no
\* node the loop comes to belongs to a coroutine that has gone on.
THEOREM BarrierReleaseIsSound == Spec => []ReleaseIsSound
<1>1. IInv => EveryWaiterHasOneWaker
  <2> SUFFICES ASSUME IInv, NEW t \in Tasks, pc[t] = "parked",
                      NEW wakers, wakers = {u \in Tasks : t \in InList(list[u])}
               PROVE  IF PhaseFull(t)
                      THEN /\ t \notin InList(waiters_)
                           /\ ready[t] + (IF wakers = {} THEN 0 ELSE 1) = 1
                           /\ \A u, v \in wakers : u = v
                      ELSE t \in InList(waiters_) /\ wakers = {} /\ ready[t] = 0
    BY DEF EveryWaiterHasOneWaker
  <2>1. /\ PhaseFull(t) <=> ticket[t] < Settled
        /\ ticket[t] \in Int /\ Settled \in Int
    <3>1. ticket[t] >= 0
      BY DEF IInv, TicketInv
    <3>2. ticket[t] \in Int /\ Settled \in Int
      BY DEF IInv, TypeOK, Settled
    <3> QED
      BY <3>1, <3>2, FullIsSettled DEF IInv
  <2>2. Due(t) <=> wakers # {}
    BY DEF Due
  <2>3. \A u, v \in wakers : u = v
    BY DEF IInv, ListInv
  <2>4. CASE ticket[t] < Settled
    <3>1. t \notin InList(waiters_)
      BY <2>1, <2>4 DEF IInv, ListInv
    <3>2. ready[t] = IF wakers = {} THEN 1 ELSE 0
      BY <2>2, <2>4 DEF IInv, TokenInv
    <3> QED
      BY <2>1, <2>3, <2>4, <3>1, <3>2
  <2>5. CASE ~(ticket[t] < Settled)
    <3>1. t \in InList(waiters_) /\ ready[t] = 0
      BY <2>5 DEF IInv, TokenInv
    <3>2. wakers = {}
      BY <2>5 DEF IInv, ListInv
    <3> QED
      BY <2>1, <2>5, <3>1, <3>2
  <2> QED
    BY <2>4, <2>5
<1>2. IInv => ReleaseIsSound
  BY <1>1 DEF IInv, ListInv, NoDanglingNode, ReleaseIsSound
<1> QED
  BY <1>2, BarrierInvariant, PTL
=============================================================================
