--------------------------- MODULE WaitListProofs ---------------------------
(***************************************************************************)
(* What every proof about an awaitable uses: what the wait list's          *)
(* operations do to the set of linked waiters, and what suspending,        *)
(* resuming and enqueueing do to the coroutines of a worker.               *)
(***************************************************************************)
EXTENDS Coroutines, WaitList, TLAPS

\* push_locked links exactly the node it is given, once.
LEMMA PushLocked ==
  ASSUME NEW S, NEW list \in Seq(S), NEW w \in S,
         Distinct(list), w \notin InList(list)
  PROVE  /\ push_locked(list, w) \in Seq(S)
         /\ InList(push_locked(list, w)) = InList(list) \cup {w}
         /\ Distinct(push_locked(list, w))
         /\ push_locked(list, w) # <<>>
BY DEF push_locked, InList, Distinct

\* Linking a node at the head (AsyncBarrier.h) links exactly that node, once.
LEMMA PushFront ==
  ASSUME NEW S, NEW list \in Seq(S), NEW w \in S,
         Distinct(list), w \notin InList(list)
  PROVE  /\ <<w>> \o list \in Seq(S)
         /\ InList(<<w>> \o list) = InList(list) \cup {w}
         /\ Distinct(<<w>> \o list)
<1> DEFINE l == <<w>> \o list
<1>1. /\ l \in Seq(S)
      /\ Len(list) \in Nat
      /\ Len(l) = Len(list) + 1
      /\ \A i \in 1..Len(l) : l[i] = IF i = 1 THEN w ELSE list[i - 1]
  OBVIOUS
<1> HIDE DEF l
<1>2. Distinct(l)
  <2> SUFFICES ASSUME NEW i \in 1..Len(l), NEW j \in 1..Len(l), l[i] = l[j], i # j
               PROVE  FALSE
    BY DEF Distinct
  <2>1. ASSUME NEW n \in 1..Len(l), n # 1
        PROVE  n - 1 \in 1..Len(list) /\ l[n] = list[n - 1] /\ l[n] # w
    <3>1. n - 1 \in 1..Len(list) /\ l[n] = list[n - 1]
      BY <1>1, <2>1
    <3> QED
      BY <3>1 DEF InList
  <2>2. CASE i # 1 /\ j # 1
    <3>1. i - 1 = j - 1
      BY <2>1, <2>2 DEF Distinct
    <3> QED
      BY <3>1
  <2>3. CASE i = 1 \/ j = 1
    BY <1>1, <2>1, <2>3
  <2> QED
    BY <2>2, <2>3
<1>3. ASSUME NEW x PROVE x \in InList(l) => x \in InList(list) \cup {w}
  BY <1>1 DEF InList
<1>4. ASSUME NEW x \in InList(list) PROVE x \in InList(l)
  <2>1. PICK i \in 1..Len(list) : list[i] = x
    BY DEF InList
  <2>2. i + 1 \in 1..Len(l) /\ l[i + 1] = x
    BY <1>1, <2>1
  <2> QED
    BY <2>2 DEF InList
<1>5. w \in InList(l)
  BY <1>1 DEF InList
<1> QED
  BY <1>1, <1>2, <1>3, <1>4, <1>5 DEF l

\* Popping the front unlinks exactly the first node.
LEMMA PopFront ==
  ASSUME NEW S, NEW list \in Seq(S), Distinct(list), list # <<>>
  PROVE  /\ Tail(list) \in Seq(S)
         /\ Head(list) \in InList(list)
         /\ Head(list) \in S
         /\ InList(Tail(list)) = InList(list) \ {Head(list)}
         /\ Distinct(Tail(list))
<1>1. /\ Tail(list) \in Seq(S)
      /\ Head(list) = list[1]
      /\ Len(list) \in Nat \ {0}
      /\ Len(Tail(list)) = Len(list) - 1
      /\ \A i \in 1..(Len(list) - 1) : Tail(list)[i] = list[i + 1]
  OBVIOUS
<1>2. Head(list) \in InList(list) /\ Head(list) \in S
  BY <1>1 DEF InList
<1>3. Distinct(Tail(list))
  BY <1>1 DEF Distinct
<1>4. ASSUME NEW x PROVE x \in InList(Tail(list)) => x \in InList(list) \ {Head(list)}
  BY <1>1 DEF InList, Distinct
<1>5. ASSUME NEW x \in InList(list) \ {Head(list)} PROVE x \in InList(Tail(list))
  <2>1. PICK i \in 1..Len(list) : list[i] = x
    BY DEF InList
  <2>2. i - 1 \in 1..(Len(list) - 1) /\ Tail(list)[i - 1] = x
    BY <1>1, <2>1
  <2> QED
    BY <1>1, <2>2 DEF InList
<1> QED
  BY <1>1, <1>2, <1>3, <1>4, <1>5

\* remove_locked unlinks exactly the node it is given and keeps the order.
LEMMA RemoveLocked ==
  ASSUME NEW S, NEW list \in Seq(S), Distinct(list), NEW w \in InList(list)
  PROVE  /\ remove_locked(list, w) \in Seq(S)
         /\ InList(remove_locked(list, w)) = InList(list) \ {w}
         /\ Distinct(remove_locked(list, w))
<1> DEFINE at == CHOOSE i \in 1..Len(list) : list[i] = w
           rest == SubSeq(list, 1, at - 1) \o SubSeq(list, at + 1, Len(list))
<1>1. /\ Len(list) \in Nat
      /\ at \in 1..Len(list)
      /\ list[at] = w
  BY DEF InList
<1>2. remove_locked(list, w) = rest
  BY DEF remove_locked
<1> HIDE DEF at
<1>3. /\ rest \in Seq(S)
      /\ Len(rest) = Len(list) - 1
      /\ \A i \in 1..(Len(list) - 1) : rest[i] = IF i < at THEN list[i] ELSE list[i + 1]
  <2> DEFINE a == SubSeq(list, 1, at - 1)
             b == SubSeq(list, at + 1, Len(list))
  <2>1. /\ a \in Seq(S)
        /\ Len(a) = at - 1
        /\ \A i \in 1..(at - 1) : a[i] = list[i]
    BY <1>1
  <2>2. /\ b \in Seq(S)
        /\ Len(b) = Len(list) - at
        /\ \A i \in 1..(Len(list) - at) : b[i] = list[at + i]
    BY <1>1
  <2> HIDE DEF a, b
  <2>3. /\ a \o b \in Seq(S)
        /\ Len(a \o b) = Len(list) - 1
    <3>1. a \o b \in Seq(S) /\ Len(a \o b) = Len(a) + Len(b)
      BY <2>1, <2>2
    <3> QED
      BY <1>1, <2>1, <2>2, <3>1
  <2>4. ASSUME NEW i \in 1..(Len(list) - 1)
        PROVE  (a \o b)[i] = IF i < at THEN list[i] ELSE list[i + 1]
    <3>1. CASE i < at
      BY <1>1, <2>1, <2>2, <3>1
    <3>2. CASE ~(i < at)
      <4>1. i - (at - 1) \in 1..(Len(list) - at) /\ i > Len(a) /\ i <= Len(a) + Len(b)
        BY <1>1, <2>1, <2>2, <3>2
      <4>2. (a \o b)[i] = b[i - (at - 1)]
        BY <1>1, <2>1, <2>2, <4>1
      <4> QED
        BY <1>1, <2>2, <3>2, <4>1, <4>2
    <3> QED
      BY <3>1, <3>2
  <2> QED
    BY <2>3, <2>4 DEF a, b
<1> HIDE DEF rest
<1> DEFINE from(i) == IF i < at THEN i ELSE i + 1
<1>a. \A i \in 1..Len(rest) :
        from(i) \in 1..Len(list) /\ from(i) # at /\ rest[i] = list[from(i)]
  BY <1>1, <1>3
<1>b. \A i, j \in 1..Len(rest) : i # j => from(i) # from(j)
  BY <1>1, <1>3
<1> HIDE DEF from
<1>4. Distinct(rest)
  BY <1>a, <1>b DEF Distinct
<1>5. ASSUME NEW x PROVE x \in InList(rest) => x \in InList(list) \ {w}
  BY <1>1, <1>a DEF InList, Distinct
<1>6. ASSUME NEW x \in InList(list) \ {w} PROVE x \in InList(rest)
  <2>1. PICK i \in 1..Len(list) : list[i] = x
    BY DEF InList
  <2>2. CASE i < at
    BY <1>1, <1>3, <2>1, <2>2 DEF InList
  <2>3. CASE i > at
    <3>1. i - 1 \in 1..Len(rest) /\ rest[i - 1] = x
      BY <1>1, <1>3, <2>1, <2>3
    <3> QED
      BY <3>1 DEF InList
  <2> QED
    BY <1>1, <2>1, <2>2, <2>3
<1> QED
  BY <1>2, <1>3, <1>4, <1>5, <1>6

\* A coroutine that suspends stops running; no other coroutine is affected.
LEMMA SuspendEffect ==
  ASSUME RuntimeTypeOK, NEW t \in Tasks, Runs(t), Suspend(t)
  PROVE  /\ running' \in [Workers -> Tasks \cup {None}]
         /\ ~Runs(t)'
         /\ \A u \in Tasks \ {t} : Runs(u)' <=> Runs(u)
<1> USE HomeAssumption, NoneAssumption DEF Suspend, RuntimeTypeOK, Runs
<1>1. running' \in [Workers -> Tasks \cup {None}] /\ ~Runs(t)'
  OBVIOUS
<1>2. ASSUME NEW u \in Tasks \ {t} PROVE Runs(u)' <=> Runs(u)
  <2>1. CASE Home[u] = Home[t]
    BY <2>1
  <2>2. CASE Home[u] # Home[t]
    BY <2>2
  <2> QED
    BY <2>1, <2>2
<1> QED
  BY <1>1, <1>2

\* The loop takes one handle of a coroutine that does not run, and runs it.
LEMMA LoopResumeEffect ==
  ASSUME RuntimeTypeOK, NEW t \in Tasks, LoopResume(t)
  PROVE  /\ running' \in [Workers -> Tasks \cup {None}]
         /\ ready' \in [Tasks -> Nat]
         /\ cancel_fn' \in [Tasks -> BOOLEAN]
         /\ ~Runs(t) /\ Runs(t)'
         /\ ready[t] \in Nat \ {0} /\ ready'[t] = ready[t] - 1
         /\ \A u \in Tasks \ {t} : (Runs(u)' <=> Runs(u)) /\ ready'[u] = ready[u]
<1> USE HomeAssumption, NoneAssumption DEF LoopResume, Idle, RuntimeTypeOK, Runs
<1>1. /\ running' \in [Workers -> Tasks \cup {None}]
      /\ cancel_fn' \in [Tasks -> BOOLEAN]
      /\ ~Runs(t) /\ Runs(t)'
  OBVIOUS
<1>2. ready[t] \in Nat \ {0} /\ ready'[t] = ready[t] - 1
  OBVIOUS
<1>3. ready' \in [Tasks -> Nat]
  BY <1>2
<1>4. ASSUME NEW u \in Tasks \ {t} PROVE (Runs(u)' <=> Runs(u)) /\ ready'[u] = ready[u]
  <2>1. ready'[u] = ready[u]
    OBVIOUS
  <2>2. CASE Home[u] = Home[t]
    BY <2>1, <2>2
  <2>3. CASE Home[u] # Home[t]
    BY <2>1, <2>3
  <2> QED
    BY <2>2, <2>3
<1> QED
  BY <1>1, <1>2, <1>3, <1>4

\* Enqueueing adds one handle for each coroutine it is given.
LEMMA ResumeOnEffect ==
  ASSUME RuntimeTypeOK, NEW S, ready' = resume_on(S)
  PROVE  /\ ready' \in [Tasks -> Nat]
         /\ \A u \in Tasks : ready'[u] = IF u \in S THEN ready[u] + 1 ELSE ready[u]
BY DEF RuntimeTypeOK, resume_on

\* Nobody is affected by a step that leaves running alone.
LEMMA SameRuns ==
  ASSUME running' = running
  PROVE  \A u \in Tasks : Runs(u)' <=> Runs(u)
BY DEF Runs

\* Asking for a cancellation touches the flag and the kick only.
LEMMA CancelEffect ==
  ASSUME RuntimeTypeOK, NEW t \in Tasks, RequestCancel(t) \/ PushKick(t)
  PROVE  RuntimeTypeOK' /\ UNCHANGED <<running, ready, cancel_fn>>
BY DEF RuntimeTypeOK, RequestCancel, PushKick
=============================================================================
