-------------------------- MODULE CancelTreeProofs --------------------------
(***************************************************************************)
(* The tree of cancellation states, for any tree of scopes and tasks, any  *)
(* holders of their handles, any number of threads and any depth of the    *)
(* walks: nothing is used after it is deleted, the reference counts are    *)
(* exact, and a cancellation misses nobody.                                *)
(*                                                                         *)
(* A walk follows pointers that it has no reference for.  What keeps a     *)
(* child alive meanwhile is the parent's lock, which a release needs       *)
(* before it deletes; so the invariant says of every call under way what   *)
(* its pointer hangs on.                                                   *)
(***************************************************************************)
EXTENDS CancelTree, FiniteSetTheorems, TLAPS

(***************************************************************************)
(* The inductive invariant                                                 *)
(***************************************************************************)

\* What is used exists, and what has not been spawned was never used.
Alive ==
  \A n \in Nodes :
    /\ handle[n] \/ Active(n) \/ Kicks(n) # {} => life[n] = "live"
    /\ life[n] = "none" => coro[n] = "none" /\ owner_tid[n] = None
    /\ coro[n] \in {"running", "parked"} => owner_tid[n] \in Workers
    /\ Parent[n] # None /\ life[n] = "live" => life[Parent[n]] = "live"

\* The children of a node.
Linked ==
  \A p \in Nodes :
    /\ Distinct(children[p])
    /\ \A c \in InList(children[p]) : c \in Nodes /\ Parent[c] = p /\ life[c] = "live"

\* A call hangs on the one below it: on the lock of the parent, or on the
\* reference that ~TaskScope() drops after the cancellation.
Above(call, below, last) ==
  /\ call.fn = "cancel"
  /\ \/ below.fn = "cancel" /\ below.at = "walk" /\ call.n \in InList(children[below.n])
     \/ below.fn = "release" /\ below.at = "begin" /\ below.n = call.n /\ last

\* The code of h runs on x, if it runs.
BelongsTo(x, h) == h = x \/ (h \in Tasks /\ owner_tid[h] = x)

\* What a call on the stack of x relies on; last if no other is below it.
Local(x, call, last) ==
  LET n == call.n IN
  /\ life[n] = "live"
  /\ call.next >= 1 /\ (call.at # "walk" => call.next = 1)
  /\ call.fn = "cancel" =>
       /\ call.at \in {"begin", "kick", "kick_ref", "lock", "walk"}
       /\ last => BelongsTo(x, Holder[n]) /\ handle[n]
  /\ call.fn = "spawn" => call.at = "begin" /\ n \in Tasks /\ coro[n] = "none" /\ ~handle[n]
  /\ call.fn = "adopt" =>
       /\ call.at \in {"begin", "kick", "kick_ref"}
       /\ x \in Workers /\ n \in Tasks /\ coro[n] = "queued" /\ owner_tid[n] = x
  /\ call.fn = "release" =>
       /\ call.at \in {"begin", "unlink", "delete"}
       /\ call.at # "begin" => refs[n] = 0
       /\ call.at = "unlink" => Parent[n] # None
       /\ call.at = "delete" /\ Parent[n] # None => n \notin InList(children[Parent[n]])
  /\ call.at = "walk" => tree_lock[n] = x
  /\ call.at \in {"kick", "kick_ref"} => n \in Tasks
  /\ call.at = "kick_ref" => kick_pending[n] /\ owner_tid[n] \in Workers /\ Kicks(n) = {}

\* What the call at position i of the stack of x relies on.
Frame(x, i) ==
  /\ Local(x, stack[x][i], i = Len(stack[x]))
  /\ i # Len(stack[x]) => Above(stack[x][i], stack[x][i + 1], i + 1 = Len(stack[x]))

\* The calls under way have what they rely on.
Frames == \A x \in Threads : \A i \in 1..Len(stack[x]) : Frame(x, i)

\* Two calls that cannot both be under way.
Exclude(a, b) ==
  /\ a.n = b.n
  /\ \/ a.at = "walk" /\ b.at = "walk"
     \/ a.at = "kick_ref" /\ b.at = "kick_ref"
     \/ a.fn = "spawn" /\ b.fn = "spawn"
     \/ a.at \in {"unlink", "delete"} /\ b.at \in {"unlink", "delete"}

\* Locks, claims and deletions have one thread each.
Alone ==
  \A x, y \in Threads : \A i \in 1..Len(stack[x]), j \in 1..Len(stack[y]) :
    Exclude(stack[x][i], stack[y][j]) => x = y /\ i = j

\* A state is queued once, for its owner.
Queued ==
  /\ \A w \in Workers : Distinct(kick_q[w])
  /\ \A w \in Workers : \A n \in InList(kick_q[w]) : kick_pending[n] /\ owner_tid[n] = w

\* A kick that is pending is queued or about to be.
Pending ==
  \A n \in Nodes : kick_pending[n] =>
    Kicks(n) # {} \/ \E call \in Calls : call.n = n /\ call.at = "kick_ref"

\* What a walk has passed is cancelled, or is what it is about to cancel.
Walked ==
  \A x \in Threads : \A i \in 1..Len(stack[x]) :
    LET call == stack[x][i] IN
    call.at = "walk" =>
      \A j \in 1..Len(children[call.n]) :
        \/ j >= call.next
        \/ requested[children[call.n][j]]
        \/ i > 1 /\ stack[x][i - 1] = Call("cancel", children[call.n][j], "begin")

\* What the lifetimes need.
LifeInv == TypeOK /\ Alive /\ Linked /\ Frames /\ Alone /\ Queued /\ RefsAreExact

\* What cancellations need.
ReachInv == Pending /\ Walked /\ CancelMissesNobody

\* What has not been spawned has not been cancelled.
Fresh == \A n \in Nodes : life[n] = "none" => ~requested[n]

\* The inductive invariant.
IInv == LifeInv /\ Fresh /\ ReachInv

(***************************************************************************)
(* Lists                                                                   *)
(***************************************************************************)

\* A list from which one node was taken, the others in place.
LEMMA TakenOut ==
  ASSUME NEW S, NEW list \in Seq(S), Distinct(list), NEW at \in 1..Len(list), NEW rest \in Seq(S),
         Len(rest) = Len(list) - 1,
         \A i \in 1..(Len(list) - 1) : rest[i] = IF i < at THEN list[i] ELSE list[i + 1]
  PROVE  InList(rest) = InList(list) \ {list[at]} /\ Distinct(rest)
<1> DEFINE from(i) == IF i < at THEN i ELSE i + 1
<1>1. Len(list) \in Nat
  OBVIOUS
<1>a. \A i \in 1..Len(rest) :
        from(i) \in 1..Len(list) /\ from(i) # at /\ rest[i] = list[from(i)]
  BY <1>1
<1>b. \A i, j \in 1..Len(rest) : i # j => from(i) # from(j)
  BY <1>1
<1> HIDE DEF from
<1>4. Distinct(rest)
  BY <1>a, <1>b DEF Distinct
<1>5. ASSUME NEW x PROVE x \in InList(rest) => x \in InList(list) \ {list[at]}
  BY <1>1, <1>a DEF InList, Distinct
<1>6. ASSUME NEW x \in InList(list) \ {list[at]} PROVE x \in InList(rest)
  <2>1. PICK i \in 1..Len(list) : list[i] = x
    BY DEF InList
  <2>2. CASE i < at
    <3>1. i \in 1..Len(rest) /\ rest[i] = x
      BY <1>1, <2>1, <2>2
    <3> QED
      BY <3>1 DEF InList
  <2>3. CASE i > at
    <3>1. i - 1 \in 1..Len(rest) /\ rest[i - 1] = x
      BY <1>1, <2>1, <2>3
    <3> QED
      BY <3>1 DEF InList
  <2> QED
    BY <1>1, <2>1, <2>2, <2>3
<1> QED
  BY <1>4, <1>5, <1>6

\* Taking the first kick of a queue.
LEMMA QueueTail ==
  ASSUME NEW S, NEW list \in Seq(S), Distinct(list), list # <<>>
  PROVE  /\ Tail(list) \in Seq(S) /\ Head(list) \in InList(list) /\ Head(list) \in S
         /\ InList(Tail(list)) = InList(list) \ {Head(list)} /\ Distinct(Tail(list))
<1>1. /\ Tail(list) \in Seq(S) /\ Len(list) \in Nat \ {0} /\ Len(Tail(list)) = Len(list) - 1
      /\ \A i \in 1..(Len(list) - 1) : Tail(list)[i] = list[i + 1]
      /\ Head(list) = list[1] /\ list[1] \in S
  OBVIOUS
<1>2. 1 \in 1..Len(list) /\ \A i \in 1..(Len(list) - 1) : Tail(list)[i] = IF i < 1 THEN list[i] ELSE list[i + 1]
  BY <1>1
<1>3. InList(Tail(list)) = InList(list) \ {list[1]} /\ Distinct(Tail(list))
  BY <1>1, <1>2, TakenOut
<1>4. list[1] \in InList(list)
  BY <1>2 DEF InList
<1> QED
  BY <1>1, <1>3, <1>4

\* Queueing a kick at the end.
LEMMA QueueAppend ==
  ASSUME NEW S, NEW list \in Seq(S), NEW n \in S, Distinct(list), n \notin InList(list)
  PROVE  /\ Append(list, n) \in Seq(S) /\ InList(Append(list, n)) = InList(list) \cup {n}
         /\ Distinct(Append(list, n))
BY DEF InList, Distinct

\* Linking a child at the head.
LEMMA PushHead ==
  ASSUME NEW S, NEW list \in Seq(S), NEW a \in S
  PROVE  /\ <<a>> \o list \in Seq(S) /\ Len(<<a>> \o list) = Len(list) + 1
         /\ (<<a>> \o list)[1] = a
         /\ \A i \in 1..Len(list) : (<<a>> \o list)[i + 1] = list[i]
         /\ \A i \in 2..(Len(list) + 1) : (<<a>> \o list)[i] = list[i - 1]
         /\ InList(<<a>> \o list) = InList(list) \cup {a}
<1> DEFINE l == <<a>> \o list
<1>1. /\ l \in Seq(S)
      /\ Len(list) \in Nat
      /\ Len(l) = Len(list) + 1
      /\ \A i \in 1..Len(l) : l[i] = IF i = 1 THEN a ELSE list[i - 1]
  OBVIOUS
<1> HIDE DEF l
<1>2. ASSUME NEW i \in 1..Len(list) PROVE l[i + 1] = list[i]
  <2>1. i + 1 \in 1..Len(l) /\ i + 1 # 1 /\ (i + 1) - 1 = i
    BY <1>1
  <2> QED
    BY <1>1, <2>1
<1>3. ASSUME NEW e PROVE e \in InList(l) => e \in InList(list) \cup {a}
  BY <1>1 DEF InList
<1>4. ASSUME NEW e \in InList(list) PROVE e \in InList(l)
  <2>1. PICK i \in 1..Len(list) : list[i] = e
    BY DEF InList
  <2>2. i + 1 \in 1..Len(l) /\ l[i + 1] = e
    BY <1>1, <1>2, <2>1
  <2> QED
    BY <2>2 DEF InList
<1>5. a \in InList(l) /\ l[1] = a
  BY <1>1 DEF InList
<1>6. \A i \in 2..(Len(list) + 1) : l[i] = list[i - 1]
  BY <1>1
<1> QED
  BY <1>1, <1>2, <1>3, <1>4, <1>5, <1>6 DEF l

\* A new child is linked once.
LEMMA PushHeadDistinct ==
  ASSUME NEW S, NEW list \in Seq(S), NEW a \in S, Distinct(list), a \notin InList(list)
  PROVE  Distinct(<<a>> \o list)
<1> DEFINE l == <<a>> \o list
<1>1. /\ Len(l) = Len(list) + 1 /\ l[1] = a /\ Len(list) \in Nat
      /\ \A i \in 2..(Len(list) + 1) : l[i] = list[i - 1]
  BY PushHead
<1> HIDE DEF l
<1>2. ASSUME NEW i \in 1..Len(l), i # 1
      PROVE  i - 1 \in 1..Len(list) /\ l[i] = list[i - 1] /\ l[i] # a
  <2>1. i - 1 \in 1..Len(list) /\ l[i] = list[i - 1]
    BY <1>1, <1>2
  <2> QED
    BY <2>1 DEF InList
<1>3. ASSUME NEW i \in 1..Len(l), NEW j \in 1..Len(l), l[i] = l[j] PROVE i = j
  <2>1. CASE i # 1 /\ j # 1
    <3>1. i - 1 = j - 1
      BY <1>2, <1>3, <2>1 DEF Distinct
    <3> QED
      BY <3>1
  <2>2. CASE i = 1 \/ j = 1
    BY <1>1, <1>2, <1>3, <2>2
  <2> QED
    BY <2>1, <2>2
<1> QED
  BY <1>3 DEF Distinct, l

\* A call takes the place of the only one.
LEMMA OverOne ==
  ASSUME NEW S, NEW s \in Seq(S), Len(s) = 1, NEW c \in S
  PROVE  <<c>> \o Tail(s) = <<c>>
<1>1. Tail(s) \in Seq(S) /\ Len(Tail(s)) = 0
  OBVIOUS
<1>2. PICK t \in Seq(S) : t = Tail(s)
  BY <1>1
<1>3. Len(t) = 0
  BY <1>1, <1>2
<1>4. t = <<>>
  BY <1>3
<1>5. <<c>> \o t = <<c>>
  BY <1>4
<1> QED
  BY <1>2, <1>5

\* Unlinking a child.
LEMMA RemoveChild ==
  ASSUME NEW S, NEW list \in Seq(S), Distinct(list), NEW w
  PROVE  /\ remove_locked(list, w) \in Seq(S) /\ Distinct(remove_locked(list, w))
         /\ InList(remove_locked(list, w)) = InList(list) \ {w}
<1> DEFINE at == CHOOSE i \in 1..Len(list) : list[i] = w
           a == SubSeq(list, 1, at - 1)
           b == SubSeq(list, at + 1, Len(list))
           rest == a \o b
<1>1. CASE w \notin InList(list)
  BY <1>1 DEF remove_locked
<1>2. CASE w \in InList(list)
  <2>1. /\ Len(list) \in Nat
        /\ at \in 1..Len(list)
        /\ list[at] = w
    BY <1>2 DEF InList
  <2>2. remove_locked(list, w) = rest
    BY <1>2 DEF remove_locked
  <2> HIDE DEF at
  <2>3. a \in Seq(S) /\ Len(a) = at - 1 /\ \A i \in 1..(at - 1) : a[i] = list[i]
    BY <2>1
  <2>4. b \in Seq(S) /\ Len(b) = Len(list) - at /\ \A i \in 1..(Len(list) - at) : b[i] = list[at + i]
    BY <2>1
  <2> HIDE DEF a, b
  <2>5. rest \in Seq(S) /\ Len(rest) = Len(a) + Len(b)
    BY <2>3, <2>4
  <2>6. ASSUME NEW i \in 1..(Len(list) - 1)
        PROVE  rest[i] = IF i < at THEN list[i] ELSE list[i + 1]
    <3>1. CASE i < at
      BY <2>1, <2>3, <2>4, <3>1
    <3>2. CASE ~(i < at)
      <4>1. i - (at - 1) \in 1..(Len(list) - at) /\ i > Len(a) /\ i <= Len(a) + Len(b)
        BY <2>1, <2>3, <2>4, <3>2
      <4>2. rest[i] = b[i - (at - 1)]
        BY <2>1, <2>3, <2>4, <4>1
      <4> QED
        BY <2>1, <2>4, <3>2, <4>1, <4>2
    <3> QED
      BY <3>1, <3>2
  <2> HIDE DEF rest
  <2>7. Len(rest) = Len(list) - 1
    BY <2>1, <2>3, <2>4, <2>5
  <2>8. InList(rest) = InList(list) \ {list[at]} /\ Distinct(rest)
    BY <2>1, <2>5, <2>6, <2>7, TakenOut
  <2> QED
    BY <2>1, <2>2, <2>5, <2>8
<1> QED
  BY <1>1, <1>2

(***************************************************************************)
(* Calls under way                                                         *)
(***************************************************************************)

\* The calls there can be.
CallRecords ==
  [fn : {"spawn", "adopt", "cancel", "release"}, n : Nodes, at : Points, next : Nat]

\* A step leaves alone what the call at position i of the stack of y relies on.
Spared(y, i) ==
  LET call == stack[y][i]
      n == call.n
  IN
  /\ life'[n] = "live"
  /\ call.fn = "cancel" /\ i = Len(stack[y]) =>
       handle'[n] /\ (Holder[n] \in Tasks /\ owner_tid[Holder[n]] = y => owner_tid'[Holder[n]] = y)
  /\ call.fn = "spawn" => coro'[n] = "none" /\ ~handle'[n]
  /\ call.fn = "adopt" => coro'[n] = "queued" /\ owner_tid'[n] = owner_tid[n]
  /\ call.fn = "release" /\ call.at # "begin" => refs'[n] = 0
  /\ call.fn = "release" /\ call.at = "delete" /\ Parent[n] # None => n \notin InList(children'[Parent[n]])
  /\ call.at = "walk" => tree_lock'[n] = y /\ InList(children[n]) \subseteq InList(children'[n])
  /\ call.at = "kick_ref" =>
       kick_pending'[n] /\ owner_tid'[n] \in Workers /\ \A w \in Workers : n \notin InList(kick_q'[w])

\* Nothing has changed that a call may rely on.
LEMMA SparedSame ==
  ASSUME NEW y \in Threads, NEW i, Frame(y, i),
         UNCHANGED <<life, handle, coro, owner_tid, refs, children, tree_lock, kick_pending, kick_q>>
  PROVE  Spared(y, i)
<1>1. Local(y, stack[y][i], i = Len(stack[y]))
  BY DEF Frame
<1> QED
  BY <1>1 DEF Local, Spared, Kicks, BelongsTo

\* A call that stays where it is.
LEMMA FrameStays ==
  ASSUME NEW y \in Threads, NEW i \in 1..Len(stack[y]), Frames, Spared(y, i),
         i # Len(stack[y]) => Spared(y, i + 1), Len(stack[y]) \in Nat,
         Len(stack'[y]) \in Nat,
         NEW j \in 1..Len(stack'[y]), stack'[y][j] = stack[y][i],
         j = Len(stack'[y]) <=> i = Len(stack[y]),
         j + 1 = Len(stack'[y]) <=> i + 1 = Len(stack[y]),
         i # Len(stack[y]) => stack'[y][j + 1] = stack[y][i + 1]
  PROVE  Frame(y, j)'
<1>1. Local(y, stack[y][i], i = Len(stack[y]))
  BY DEF Frames, Frame
<1>2. Local(y, stack[y][j], j = Len(stack[y]))'
  BY <1>1 DEF Local, Spared, BelongsTo, Kicks
<1>3. ASSUME i # Len(stack[y])
      PROVE  Above(stack[y][j], stack[y][j + 1], j + 1 = Len(stack[y]))'
  <2>1. i + 1 \in 1..Len(stack[y])
    BY <1>3
  <2>2. Above(stack[y][i], stack[y][i + 1], i + 1 = Len(stack[y]))
    BY <1>3 DEF Frames, Frame
  <2> QED
    BY <1>3, <2>1, <2>2 DEF Above, Spared
<1> QED
  BY <1>2, <1>3 DEF Frame

\* The frames of the threads that do not act.
LEMMA OtherFrames ==
  ASSUME TypeOK, Frames, NEW x \in Threads, \A y \in Threads \ {x} : stack'[y] = stack[y],
         \A y \in Threads \ {x} : \A i \in 1..Len(stack[y]) : Spared(y, i)
  PROVE  \A y \in Threads \ {x} : \A i \in 1..Len(stack'[y]) : Frame(y, i)'
<1> SUFFICES ASSUME NEW y \in Threads \ {x}, NEW i \in 1..Len(stack'[y])
             PROVE  Frame(y, i)'
  OBVIOUS
<1>0. stack \in [Threads -> Seq(CallRecords)]
  BY DEF TypeOK, CallRecords
<1>1. stack'[y] = stack[y] /\ stack[y] \in Seq(CallRecords) /\ Len(stack[y]) \in Nat
  BY <1>0
<1>2. i \in 1..Len(stack[y]) /\ (i # Len(stack[y]) => i + 1 \in 1..Len(stack[y]))
  BY <1>1
<1> QED
  BY <1>1, <1>2, FrameStays

(***************************************************************************)
(* The operations on a stack.  Each lemma says what has to be shown of a   *)
(* step for the calls under way to remain as they should be.               *)
(***************************************************************************)

\* The innermost call goes on to another place of its code.
LEMMA GotoEffect ==
  ASSUME TypeOK, NEW x \in Threads, ~Quiet(x), NEW at \in Points, Goto(x, at)
  PROVE  /\ stack' \in [Threads -> Seq(CallRecords)]
         /\ \A y \in Threads \ {x} : stack'[y] = stack[y]
         /\ Len(stack'[x]) = Len(stack[x]) /\ Len(stack[x]) \in Nat \ {0}
         /\ stack'[x][1] = [stack[x][1] EXCEPT !.at = at]
         /\ \A i \in 2..Len(stack[x]) : stack'[x][i] = stack[x][i]
         /\ stack[x][1] \in CallRecords /\ Head(stack[x]) = stack[x][1]
<1> DEFINE s == stack[x]
           c == [s[1] EXCEPT !.at = at]
<1>1. s \in Seq(CallRecords) /\ s # <<>> /\ stack \in [Threads -> Seq(CallRecords)]
  BY DEF TypeOK, Quiet, CallRecords
<1>2. Len(s) \in Nat \ {0} /\ s[1] \in CallRecords /\ Head(s) = s[1] /\ 1 \in 1..Len(s)
  BY <1>1
<1>3. c \in CallRecords
  BY <1>2 DEF CallRecords
<1>4. stack' = [stack EXCEPT ![x] = [s EXCEPT ![1] = c]]
  BY DEF Goto
<1> HIDE DEF c
<1>5. /\ [s EXCEPT ![1] = c] \in Seq(CallRecords) /\ Len([s EXCEPT ![1] = c]) = Len(s)
      /\ \A j \in 1..Len(s) : [s EXCEPT ![1] = c][j] = IF j = 1 THEN c ELSE s[j]
  BY <1>1, <1>2, <1>3
<1>6. stack'[x] = [s EXCEPT ![1] = c] /\ \A y \in Threads \ {x} : stack'[y] = stack[y]
  BY <1>1, <1>4
<1>7. stack' \in [Threads -> Seq(CallRecords)]
  BY <1>1, <1>4, <1>5
<1> QED
  BY <1>2, <1>5, <1>6, <1>7 DEF c

\* The calls under way when the innermost one goes on as c.
LEMMA GotoFrames ==
  ASSUME TypeOK, Frames, Alone, NEW x \in Threads, ~Quiet(x), NEW at \in Points, Goto(x, at),
         NEW c, c = [stack[x][1] EXCEPT !.at = at], NEW last \in BOOLEAN,
         last <=> Len(stack[x]) = 1, Local(x, c, last)',
         \A y \in Threads : \A i \in 1..Len(stack[y]) : (y = x /\ i = 1) \/ Spared(y, i),
         \A y \in Threads : \A i \in 1..Len(stack[y]) : (y = x /\ i = 1) \/ ~Exclude(c, stack[y][i])
  PROVE  Frames' /\ Alone'
<1>1. /\ stack' \in [Threads -> Seq(CallRecords)]
      /\ \A y \in Threads \ {x} : stack'[y] = stack[y]
      /\ Len(stack'[x]) = Len(stack[x]) /\ Len(stack[x]) \in Nat \ {0}
      /\ stack'[x][1] = c
      /\ \A i \in 2..Len(stack[x]) : stack'[x][i] = stack[x][i]
      /\ stack[x][1] \in CallRecords /\ c.fn = stack[x][1].fn /\ c.n = stack[x][1].n
  BY GotoEffect DEF CallRecords
<1>2. \A y \in Threads \ {x} : \A i \in 1..Len(stack'[y]) : Frame(y, i)'
  BY <1>1, OtherFrames
<1>3. ASSUME NEW i \in 1..Len(stack'[x]) PROVE Frame(x, i)'
  <2>0. i \in 1..Len(stack[x]) /\ i \in Nat /\ (i # Len(stack[x]) => i + 1 \in 2..Len(stack[x]))
    BY <1>1
  <2>1. CASE i # 1
    <3>1. i \in 2..Len(stack[x]) /\ stack'[x][i] = stack[x][i] /\ Spared(x, i)
      BY <1>1, <2>0, <2>1
    <3>2. ASSUME i # Len(stack[x]) PROVE Spared(x, i + 1) /\ stack'[x][i + 1] = stack[x][i + 1]
      <4>1. i + 1 \in 1..Len(stack[x]) /\ i + 1 # 1 /\ i + 1 \in 2..Len(stack[x])
        BY <1>1, <2>0, <3>2
      <4> QED
        BY <1>1, <4>1
    <3> QED
      BY <1>1, <2>0, <3>1, <3>2, FrameStays
  <2>2. CASE i = 1
    <3>1. Local(x, stack[x][i], i = Len(stack[x]))'
      BY <1>1, <2>2 DEF Local
    <3>2. ASSUME i # Len(stack[x]) PROVE Above(stack[x][i], stack[x][i + 1], i + 1 = Len(stack[x]))'
      <4>1. 2 \in 2..Len(stack[x]) /\ 2 \in 1..Len(stack[x]) /\ i + 1 = 2
        BY <1>1, <2>0, <2>2, <3>2
      <4>2. Spared(x, 2) /\ stack'[x][2] = stack[x][2]
        BY <1>1, <4>1
      <4>3. Above(stack[x][1], stack[x][2], 2 = Len(stack[x]))
        <5>1. Frame(x, i)
          BY <2>0 DEF Frames
        <5> QED
          BY <2>2, <3>2, <4>1, <5>1 DEF Frame
      <4>4. /\ stack'[x][1].fn = stack[x][1].fn /\ stack'[x][1].n = stack[x][1].n
            /\ 2 = Len(stack'[x]) <=> 2 = Len(stack[x])
        BY <1>1
      <4>5. stack[x][2].at = "walk" => InList(children[stack[x][2].n]) \subseteq InList(children'[stack[x][2].n])
        BY <4>2 DEF Spared
      <4> QED
        BY <2>2, <4>1, <4>2, <4>3, <4>4, <4>5 DEF Above
    <3> QED
      BY <1>1, <3>1, <3>2 DEF Frame
  <2> QED
    BY <2>1, <2>2
<1>4. Alone'
  <2> SUFFICES ASSUME NEW y \in Threads, NEW z \in Threads,
                      NEW i \in 1..Len(stack'[y]), NEW j \in 1..Len(stack'[z]),
                      Exclude(stack'[y][i], stack'[z][j])
               PROVE  y = z /\ i = j
    BY DEF Alone, Exclude
  <2>1. i \in 1..Len(stack[y]) /\ j \in 1..Len(stack[z])
    <3>1. Len(stack'[y]) = Len(stack[y]) /\ Len(stack'[z]) = Len(stack[z])
      BY <1>1
    <3> QED
      BY <3>1
  <2>2. /\ stack'[y][i] = IF y = x /\ i = 1 THEN c ELSE stack[y][i]
        /\ stack'[z][j] = IF z = x /\ j = 1 THEN c ELSE stack[z][j]
    <3>1. ASSUME NEW u \in Threads, NEW k \in 1..Len(stack[u])
          PROVE  stack'[u][k] = IF u = x /\ k = 1 THEN c ELSE stack[u][k]
      <4>1. CASE u # x
        BY <1>1, <4>1
      <4>2. CASE u = x /\ k = 1
        BY <1>1, <4>2
      <4>3. CASE u = x /\ k # 1
        <5>1. k \in 2..Len(stack[x])
          BY <1>1, <4>3
        <5> QED
          BY <1>1, <4>3, <5>1
      <4> QED
        BY <4>1, <4>2, <4>3
    <3> QED
      BY <2>1, <3>1
  <2> QED
    BY <2>1, <2>2 DEF Alone, Exclude
<1> QED
  BY <1>2, <1>3, <1>4 DEF Frames

\* The innermost call returns.
LEMMA ReturnEffect ==
  ASSUME TypeOK, NEW x \in Threads, ~Quiet(x), Return(x)
  PROVE  /\ stack' \in [Threads -> Seq(CallRecords)]
         /\ \A y \in Threads \ {x} : stack'[y] = stack[y]
         /\ Len(stack'[x]) = Len(stack[x]) - 1 /\ Len(stack[x]) \in Nat \ {0}
         /\ \A i \in 1..(Len(stack[x]) - 1) : stack'[x][i] = stack[x][i + 1]
         /\ stack[x][1] \in CallRecords /\ Head(stack[x]) = stack[x][1]
<1> DEFINE s == stack[x]
<1>1. s \in Seq(CallRecords) /\ s # <<>> /\ stack \in [Threads -> Seq(CallRecords)]
  BY DEF TypeOK, Quiet, CallRecords
<1>2. stack' = [stack EXCEPT ![x] = Tail(s)]
  BY DEF Return
<1>3. /\ Len(s) \in Nat \ {0} /\ Len(Tail(s)) = Len(s) - 1 /\ Tail(s) \in Seq(CallRecords)
      /\ \A i \in 1..(Len(s) - 1) : Tail(s)[i] = s[i + 1]
      /\ s[1] \in CallRecords /\ Head(s) = s[1]
  BY <1>1
<1>4. stack'[x] = Tail(s) /\ \A y \in Threads \ {x} : stack'[y] = stack[y]
  BY <1>1, <1>2
<1>5. stack' \in [Threads -> Seq(CallRecords)]
  BY <1>1, <1>2, <1>3
<1> QED
  BY <1>3, <1>4, <1>5

\* The calls under way when the innermost one returns.
LEMMA ReturnFrames ==
  ASSUME TypeOK, Frames, Alone, NEW x \in Threads, ~Quiet(x), Return(x),
         \A y \in Threads : \A i \in 1..Len(stack[y]) : (y = x /\ i = 1) \/ Spared(y, i)
  PROVE  Frames' /\ Alone'
<1>1. /\ stack' \in [Threads -> Seq(CallRecords)]
      /\ \A y \in Threads \ {x} : stack'[y] = stack[y]
      /\ Len(stack'[x]) = Len(stack[x]) - 1 /\ Len(stack[x]) \in Nat \ {0}
      /\ \A i \in 1..(Len(stack[x]) - 1) : stack'[x][i] = stack[x][i + 1]
  BY ReturnEffect
<1>2. \A y \in Threads \ {x} : \A i \in 1..Len(stack'[y]) : Frame(y, i)'
  BY <1>1, OtherFrames
<1>3. ASSUME NEW i \in 1..Len(stack'[x]) PROVE Frame(x, i)'
  <2>1. /\ i \in Nat /\ i + 1 \in 1..Len(stack[x]) /\ i + 1 # 1 /\ i \in 1..(Len(stack[x]) - 1)
        /\ i = Len(stack'[x]) <=> i + 1 = Len(stack[x])
        /\ i + 1 = Len(stack'[x]) <=> (i + 1) + 1 = Len(stack[x])
        /\ Len(stack'[x]) \in Nat
    BY <1>1
  <2>2. stack'[x][i] = stack[x][i + 1] /\ Spared(x, i + 1)
    BY <1>1, <2>1
  <2>3. ASSUME i + 1 # Len(stack[x])
        PROVE  Spared(x, (i + 1) + 1) /\ stack'[x][i + 1] = stack[x][(i + 1) + 1]
    <3>1. (i + 1) + 1 \in 1..Len(stack[x]) /\ (i + 1) + 1 # 1 /\ i + 1 \in 1..(Len(stack[x]) - 1)
      BY <1>1, <2>1, <2>3
    <3> QED
      BY <1>1, <3>1
  <2> QED
    BY <1>1, <2>1, <2>2, <2>3, FrameStays
<1>4. Alone'
  <2> SUFFICES ASSUME NEW y \in Threads, NEW z \in Threads,
                      NEW i \in 1..Len(stack'[y]), NEW j \in 1..Len(stack'[z]),
                      Exclude(stack'[y][i], stack'[z][j])
               PROVE  y = z /\ i = j
    BY DEF Alone, Exclude
  <2> DEFINE from(u, k) == IF u = x THEN k + 1 ELSE k
  <2>1. ASSUME NEW u \in Threads, NEW k \in 1..Len(stack'[u])
        PROVE  from(u, k) \in 1..Len(stack[u]) /\ stack'[u][k] = stack[u][from(u, k)]
    <3>1. CASE u # x
      BY <1>1, <3>1
    <3>2. CASE u = x
      <4>1. k \in 1..(Len(stack[x]) - 1) /\ k + 1 \in 1..Len(stack[x])
        BY <1>1, <3>2
      <4> QED
        BY <1>1, <3>2, <4>1
    <3> QED
      BY <3>1, <3>2
  <2>2. y = z /\ from(y, i) = from(z, j)
    <3>1. Exclude(stack[y][from(y, i)], stack[z][from(z, j)])
      BY <2>1
    <3>2. from(y, i) \in 1..Len(stack[y]) /\ from(z, j) \in 1..Len(stack[z])
      BY <2>1
    <3> HIDE DEF from
    <3> QED
      BY <3>1, <3>2 DEF Alone
  <2> QED
    BY <2>2
<1> QED
  BY <1>2, <1>3, <1>4 DEF Frames

\* The only call of a thread begins, or takes the place of another one.
LEMMA OnlyFrames ==
  ASSUME TypeOK, Frames, Alone, NEW x \in Threads, NEW c \in CallRecords,
         stack' = [stack EXCEPT ![x] = <<c>>], Local(x, c, TRUE)',
         \A y \in Threads \ {x} : \A i \in 1..Len(stack[y]) : Spared(y, i),
         \A y \in Threads \ {x} : \A i \in 1..Len(stack[y]) : ~Exclude(c, stack[y][i])
  PROVE  /\ stack' \in [Threads -> Seq(CallRecords)] /\ Frames' /\ Alone'
<1>1. stack \in [Threads -> Seq(CallRecords)]
  BY DEF TypeOK, CallRecords
<1>2. /\ stack' \in [Threads -> Seq(CallRecords)] /\ stack'[x] = <<c>>
      /\ \A y \in Threads \ {x} : stack'[y] = stack[y]
      /\ Len(stack'[x]) = 1 /\ stack'[x][1] = c
  BY <1>1
<1>3. \A y \in Threads \ {x} : \A i \in 1..Len(stack'[y]) : Frame(y, i)'
  BY <1>2, OtherFrames
<1>4. ASSUME NEW i \in 1..Len(stack'[x]) PROVE Frame(x, i)'
  <2>1. i = 1 /\ i = Len(stack'[x])
    BY <1>2
  <2>2. Local(x, stack[x][i], i = Len(stack[x]))'
    BY <1>2, <2>1 DEF Local
  <2> QED
    BY <2>1, <2>2 DEF Frame
<1>5. Alone'
  <2> SUFFICES ASSUME NEW y \in Threads, NEW z \in Threads,
                      NEW i \in 1..Len(stack'[y]), NEW j \in 1..Len(stack'[z]),
                      Exclude(stack'[y][i], stack'[z][j])
               PROVE  y = z /\ i = j
    BY DEF Alone, Exclude
  <2>1. ASSUME NEW k \in 1..Len(stack'[x]) PROVE k = 1 /\ stack'[x][k] = c
    BY <1>2
  <2>2. CASE y = x /\ z = x
    BY <2>1, <2>2
  <2>3. CASE y = x /\ z # x
    BY <1>2, <2>1, <2>3
  <2>4. CASE y # x /\ z = x
    <3>1. Exclude(c, stack[y][i])
      BY <1>2, <2>1, <2>4 DEF Exclude
    <3> QED
      BY <1>2, <2>4, <3>1
  <2>5. CASE y # x /\ z # x
    BY <1>2, <2>5 DEF Alone
  <2> QED
    BY <2>2, <2>3, <2>4, <2>5
<1> QED
  BY <1>2, <1>3, <1>4, <1>5 DEF Frames

\* ~TaskScope(): a cancellation, and a release below it.
LEMMA BothFrames ==
  ASSUME TypeOK, Frames, Alone, NEW x \in Threads, NEW n \in Nodes,
         stack' = [stack EXCEPT ![x] = <<Call("cancel", n, "begin"), Call("release", n, "begin")>>],
         life'[n] = "live",
         \A y \in Threads \ {x} : \A i \in 1..Len(stack[y]) : Spared(y, i)
  PROVE  /\ stack' \in [Threads -> Seq(CallRecords)] /\ Frames' /\ Alone'
<1> DEFINE a == Call("cancel", n, "begin")
           b == Call("release", n, "begin")
<1>1. stack \in [Threads -> Seq(CallRecords)]
  BY DEF TypeOK, CallRecords
<1>a. /\ a \in CallRecords /\ b \in CallRecords
      /\ a.fn = "cancel" /\ b.fn = "release" /\ a.n = n /\ b.n = n /\ a.at = "begin" /\ b.at = "begin"
      /\ a.next = 1 /\ b.next = 1
  BY DEF Call, CallRecords, Points
<1> HIDE DEF a, b
<1>b. stack' = [stack EXCEPT ![x] = <<a, b>>]
  BY DEF a, b
<1>2. /\ stack' \in [Threads -> Seq(CallRecords)] /\ stack'[x] = <<a, b>>
      /\ \A y \in Threads \ {x} : stack'[y] = stack[y]
      /\ Len(stack'[x]) = 2 /\ stack'[x][1] = a /\ stack'[x][2] = b
  BY <1>1, <1>a, <1>b
<1>3. \A y \in Threads \ {x} : \A i \in 1..Len(stack'[y]) : Frame(y, i)'
  BY <1>2, OtherFrames
<1>4. ASSUME NEW i \in 1..Len(stack'[x]) PROVE Frame(x, i)'
  <2>1. CASE i = 1
    <3>1. Local(x, stack[x][i], i = Len(stack[x]))'
      BY <1>2, <1>a, <2>1 DEF Local
    <3>2. Above(stack[x][i], stack[x][i + 1], i + 1 = Len(stack[x]))'
      BY <1>2, <1>a, <2>1 DEF Above
    <3> QED
      BY <3>1, <3>2 DEF Frame
  <2>2. CASE i = 2
    <3>1. Local(x, stack[x][i], i = Len(stack[x]))'
      BY <1>2, <1>a, <2>2 DEF Local
    <3> QED
      BY <1>2, <2>2, <3>1 DEF Frame
  <2> QED
    BY <1>2, <2>1, <2>2
<1>5. Alone'
  <2> SUFFICES ASSUME NEW y \in Threads, NEW z \in Threads,
                      NEW i \in 1..Len(stack'[y]), NEW j \in 1..Len(stack'[z]),
                      Exclude(stack'[y][i], stack'[z][j])
               PROVE  y = z /\ i = j
    BY DEF Alone, Exclude
  <2>1. ASSUME NEW k \in 1..Len(stack'[x])
        PROVE  stack'[x][k].at = "begin" /\ stack'[x][k].fn # "spawn"
    BY <1>2, <1>a
  <2>2. y # x /\ z # x
    BY <2>1 DEF Exclude
  <2> QED
    BY <1>2, <2>2 DEF Alone
<1> QED
  BY <1>2, <1>3, <1>4, <1>5 DEF Frames

\* The walk calls request_cancel() of a child.
Descend(x, child) ==
  stack' = [stack EXCEPT ![x] =
              <<Call("cancel", child, "begin"), [Head(@) EXCEPT !.next = Head(stack[x]).next + 1]>> \o Tail(@)]

\* The stacks when a walk calls request_cancel() of a child.
LEMMA DescendEffect ==
  ASSUME TypeOK, NEW x \in Threads, ~Quiet(x), NEW child \in Nodes, Descend(x, child)
  PROVE  /\ stack' \in [Threads -> Seq(CallRecords)]
         /\ \A y \in Threads \ {x} : stack'[y] = stack[y]
         /\ Len(stack'[x]) = Len(stack[x]) + 1 /\ Len(stack[x]) \in Nat \ {0}
         /\ stack'[x][1] = Call("cancel", child, "begin")
         /\ stack'[x][2] = [stack[x][1] EXCEPT !.next = stack[x][1].next + 1]
         /\ \A i \in 3..(Len(stack[x]) + 1) : stack'[x][i] = stack[x][i - 1]
         /\ stack[x][1] \in CallRecords /\ Head(stack[x]) = stack[x][1]
<1> DEFINE s == stack[x]
           a == Call("cancel", child, "begin")
           b == [s[1] EXCEPT !.next = s[1].next + 1]
           l == <<a, b>> \o Tail(s)
<1>1. s \in Seq(CallRecords) /\ s # <<>> /\ stack \in [Threads -> Seq(CallRecords)]
  BY DEF TypeOK, Quiet, CallRecords
<1>2. /\ Len(s) \in Nat \ {0} /\ Len(Tail(s)) = Len(s) - 1 /\ Tail(s) \in Seq(CallRecords)
      /\ \A i \in 1..(Len(s) - 1) : Tail(s)[i] = s[i + 1]
      /\ s[1] \in CallRecords /\ Head(s) = s[1]
  BY <1>1
<1>3. a \in CallRecords /\ b \in CallRecords
  <2>1. a \in CallRecords
    BY DEF CallRecords, Call, Points
  <2>2. s[1].next + 1 \in Nat
    BY <1>2 DEF CallRecords
  <2>3. \A r \in CallRecords, k \in Nat : [r EXCEPT !.next = k] \in CallRecords
    BY DEF CallRecords
  <2> QED
    BY <1>2, <2>1, <2>2, <2>3
<1>4. stack' = [stack EXCEPT ![x] = l]
  BY <1>1, <1>2 DEF Descend
<1> HIDE DEF a, b
<1>5. /\ l \in Seq(CallRecords) /\ Len(l) = Len(s) + 1 /\ l[1] = a /\ l[2] = b
  BY <1>2, <1>3
<1>6. ASSUME NEW i \in 3..(Len(s) + 1) PROVE l[i] = s[i - 1]
  <2>1. i - 2 \in 1..(Len(s) - 1) /\ (i - 2) + 1 = i - 1 /\ i > 2 /\ i <= 2 + Len(Tail(s))
    BY <1>2
  <2>2. l[i] = Tail(s)[i - 2]
    BY <1>2, <1>3, <2>1
  <2> QED
    BY <1>2, <2>1, <2>2
<1> HIDE DEF l
<1>7. stack'[x] = l /\ \A y \in Threads \ {x} : stack'[y] = stack[y]
  BY <1>1, <1>4
<1>8. stack' \in [Threads -> Seq(CallRecords)]
  BY <1>1, <1>4, <1>5
<1> QED
  BY <1>2, <1>5, <1>6, <1>7, <1>8 DEF a, b

\* The calls under way then.
LEMMA DescendFrames ==
  ASSUME TypeOK, Frames, Alone, NEW x \in Threads, ~Quiet(x), NEW child \in Nodes, Descend(x, child),
         stack[x][1].fn = "cancel", stack[x][1].at = "walk",
         child \in InList(children[stack[x][1].n]), life[child] = "live",
         UNCHANGED <<life, handle, coro, owner_tid, refs, children, tree_lock, kick_pending, kick_q>>
  PROVE  Frames' /\ Alone'
<1>1. /\ stack' \in [Threads -> Seq(CallRecords)]
      /\ \A y \in Threads \ {x} : stack'[y] = stack[y]
      /\ Len(stack'[x]) = Len(stack[x]) + 1 /\ Len(stack[x]) \in Nat \ {0}
      /\ stack'[x][1] = Call("cancel", child, "begin")
      /\ stack'[x][2] = [stack[x][1] EXCEPT !.next = stack[x][1].next + 1]
      /\ \A i \in 3..(Len(stack[x]) + 1) : stack'[x][i] = stack[x][i - 1]
      /\ stack[x][1] \in CallRecords
  BY DescendEffect
<1>a. /\ stack'[x][1].fn = "cancel" /\ stack'[x][1].n = child /\ stack'[x][1].at = "begin"
      /\ stack'[x][1].next = 1
      /\ stack'[x][2].fn = "cancel" /\ stack'[x][2].n = stack[x][1].n /\ stack'[x][2].at = "walk"
  BY <1>1 DEF Call, CallRecords
<1>b. \A y \in Threads : \A i \in 1..Len(stack[y]) : Spared(y, i)
  BY SparedSame DEF Frames
<1>d. stack'[x][2].next >= 1
  <2>1. stack[x][1].next \in Nat /\ stack'[x][2].next = stack[x][1].next + 1
    BY <1>1 DEF CallRecords
  <2> QED
    BY <2>1
<1>c. Len(stack[x]) \in Nat \ {0} /\ Len(stack'[x]) = Len(stack[x]) + 1
  BY <1>1
<1>2. \A y \in Threads \ {x} : \A i \in 1..Len(stack'[y]) : Frame(y, i)'
  BY <1>1, <1>b, OtherFrames
<1>3. ASSUME NEW i \in 1..Len(stack'[x]) PROVE Frame(x, i)'
  <2>1. CASE i = 1
    <3>1. Local(x, stack[x][i], i = Len(stack[x]))'
      <4>1. i # Len(stack'[x])
        BY <1>1, <2>1
      <4> QED
        BY <1>a, <2>1, <4>1 DEF Local
    <3>2. Above(stack[x][i], stack[x][i + 1], i + 1 = Len(stack[x]))'
      BY <1>a, <2>1 DEF Above
    <3> QED
      BY <3>1, <3>2 DEF Frame
  <2>2. CASE i = 2
    <3>a. /\ 1 \in 1..Len(stack[x])
          /\ 2 = Len(stack'[x]) <=> 1 = Len(stack[x])
          /\ 3 = Len(stack'[x]) <=> 2 = Len(stack[x])
      <4>1. \A l, m \in Nat : m = l + 1 => (2 = m <=> 1 = l) /\ (3 = m <=> 2 = l)
        OBVIOUS
      <4>2. 1 \in 1..Len(stack[x]) /\ Len(stack'[x]) \in Nat
        BY <1>c
      <4> QED
        BY <1>c, <4>1, <4>2
    <3>0. Frame(x, 1) /\ Spared(x, 1)
      BY <1>b, <3>a DEF Frames
    <3>1. Local(x, stack[x][i], i = Len(stack[x]))'
      <4>1. Local(x, stack[x][1], 1 = Len(stack[x]))
        BY <3>0 DEF Frame
      <4> QED
        BY <1>a, <1>d, <2>2, <3>a, <4>1 DEF Local, BelongsTo
    <3>2. ASSUME 1 # Len(stack[x]) PROVE Above(stack[x][i], stack[x][i + 1], i + 1 = Len(stack[x]))'
      <4>0. \A l \in Nat \ {0, 1} : 3 \in 3..(l + 1) /\ 3 - 1 = 2 /\ 2 + 1 = 3 /\ 1 + 1 = 2
        OBVIOUS
      <4>1. 3 \in 3..(Len(stack[x]) + 1) /\ 3 - 1 = 2 /\ i + 1 = 3 /\ 1 + 1 = 2
        BY <1>c, <2>2, <3>2, <4>0
      <4>2. stack'[x][3] = stack[x][2]
        BY <1>1, <4>1
      <4>3. Above(stack[x][1], stack[x][2], 2 = Len(stack[x]))
        BY <3>0, <3>2, <4>1 DEF Frame
      <4> QED
        BY <1>a, <2>2, <3>a, <4>1, <4>2, <4>3 DEF Above
    <3> QED
      BY <2>2, <3>a, <3>1, <3>2 DEF Frame
  <2>3. CASE i \notin {1, 2}
    <3>1. /\ i \in 3..(Len(stack[x]) + 1) /\ i - 1 \in 1..Len(stack[x])
          /\ i = Len(stack'[x]) <=> i - 1 = Len(stack[x])
          /\ i + 1 = Len(stack'[x]) <=> (i - 1) + 1 = Len(stack[x])
          /\ Len(stack'[x]) \in Nat
      BY <1>c, <2>3
    <3>2. stack'[x][i] = stack[x][i - 1] /\ Spared(x, i - 1)
      BY <1>1, <1>b, <3>1
    <3>3. ASSUME i - 1 # Len(stack[x])
          PROVE  Spared(x, (i - 1) + 1) /\ stack'[x][i + 1] = stack[x][(i - 1) + 1]
      <4>1. (i - 1) + 1 \in 1..Len(stack[x]) /\ i + 1 \in 3..(Len(stack[x]) + 1)
            /\ (i + 1) - 1 = (i - 1) + 1
        BY <1>c, <3>1, <3>3
      <4> QED
        BY <1>1, <1>b, <4>1
    <3> QED
      BY <1>1, <3>1, <3>2, <3>3, FrameStays
  <2> QED
    BY <2>1, <2>2, <2>3
<1>4. Alone'
  <2> SUFFICES ASSUME NEW y \in Threads, NEW z \in Threads,
                      NEW i \in 1..Len(stack'[y]), NEW j \in 1..Len(stack'[z]),
                      Exclude(stack'[y][i], stack'[z][j])
               PROVE  y = z /\ i = j
    BY DEF Alone, Exclude
  <2>0. ~(y = x /\ i = 1) /\ ~(z = x /\ j = 1)
    BY <1>a DEF Exclude
  <2> DEFINE from(u, k) == IF u = x THEN k - 1 ELSE k
  <2>1. ASSUME NEW u \in Threads, NEW k \in 1..Len(stack'[u]), ~(u = x /\ k = 1)
        PROVE  /\ from(u, k) \in 1..Len(stack[u])
               /\ stack'[u][k].fn = stack[u][from(u, k)].fn /\ stack'[u][k].n = stack[u][from(u, k)].n
               /\ stack'[u][k].at = stack[u][from(u, k)].at
    <3>1. CASE u # x
      BY <1>1, <3>1
    <3>2. CASE u = x /\ k = 2
      <4>1. from(u, k) = 1 /\ 1 \in 1..Len(stack[x])
        BY <1>c, <3>2
      <4> QED
        BY <1>a, <3>2, <4>1
    <3>3. CASE u = x /\ k # 2
      <4>1. k \in 3..(Len(stack[x]) + 1) /\ k - 1 \in 1..Len(stack[x])
        BY <1>1, <2>1, <3>3
      <4> QED
        BY <1>1, <3>3, <4>1
    <3> QED
      BY <3>1, <3>2, <3>3
  <2>2. y = z /\ from(y, i) = from(z, j)
    <3>1. Exclude(stack[y][from(y, i)], stack[z][from(z, j)])
      BY <2>0, <2>1 DEF Exclude
    <3>2. from(y, i) \in 1..Len(stack[y]) /\ from(z, j) \in 1..Len(stack[z])
      BY <2>0, <2>1
    <3> HIDE DEF from
    <3> QED
      BY <3>1, <3>2 DEF Alone
  <2> QED
    BY <2>2
<1> QED
  BY <1>2, <1>3, <1>4 DEF Frames

\* A thread that was doing nothing makes a call.
LEMMA EnterQuiet ==
  ASSUME TypeOK, NEW x \in Threads, Quiet(x), NEW c \in CallRecords, Enter(x, <<c>>)
  PROVE  /\ stack' = [stack EXCEPT ![x] = <<c>>] /\ stack'[x] = <<c>>
         /\ \A y \in Threads \ {x} : stack'[y] = stack[y]
<1>1. stack \in [Threads -> Seq(CallRecords)]
  BY DEF TypeOK, CallRecords
<1>2. <<c>> \o stack[x] = <<c>>
  BY DEF Quiet
<1>3. stack' = [stack EXCEPT ![x] = <<c>>]
  BY <1>2 DEF Enter
<1> QED
  BY <1>1, <1>3

(***************************************************************************)
(* References                                                              *)
(***************************************************************************)

\* Those who have a reference to n: its children, and the threads that owe one.
Kids(n) == {c \in Nodes : Parent[c] = n /\ life[c] = "live"}

Owing(n) == {x \in Threads : Owes(x, n)}

\* A call that has a reference to its node.
HasRef(call) == call.fn = "spawn" \/ (call.fn = "release" /\ call.at = "begin")

\* RefsAreExact of one state.
ExactAt(n) ==
  life[n] = "live" =>
    refs[n] = (IF handle[n] THEN 1 ELSE 0) + (IF Active(n) THEN 1 ELSE 0)
              + Cardinality(Kids(n)) + Cardinality(Kicks(n)) + Cardinality(Owing(n))

\* The counts are exact if each one is.
LEMMA ExactSplit == RefsAreExact <=> \A n \in Nodes : ExactAt(n)
BY DEF RefsAreExact, ExactAt, Kids, Owing

\* The same of the next state.
LEMMA ExactSplitNext == RefsAreExact' <=> \A n \in Nodes : ExactAt(n)'
BY DEF RefsAreExact, ExactAt, Kids, Owing, Kicks, Active, Owes

\* What is counted is finite.
LEMMA Counted ==
  ASSUME NEW n
  PROVE  /\ IsFiniteSet(Kids(n)) /\ IsFiniteSet(Kicks(n)) /\ IsFiniteSet(Owing(n))
         /\ Cardinality(Kids(n)) \in Nat /\ Cardinality(Kicks(n)) \in Nat /\ Cardinality(Owing(n)) \in Nat
<1>1. Kids(n) \subseteq Nodes /\ Kicks(n) \subseteq Threads /\ Owing(n) \subseteq Threads
  BY DEF Kids, Kicks, Owing, Nodes, Threads
<1>2. IsFiniteSet(Nodes) /\ IsFiniteSet(Threads)
  BY FiniteAssumption
<1> QED
  BY <1>1, <1>2, FS_Subset, FS_CardinalityType

\* A set that gains an element.
LEMMA OneMore ==
  ASSUME NEW S, NEW T, IsFiniteSet(S), NEW e, e \notin S, T = S \cup {e}
  PROVE  Cardinality(T) = Cardinality(S) + 1
BY FS_AddElement

\* A set that loses an element.
LEMMA OneLess ==
  ASSUME NEW S, NEW T, IsFiniteSet(S), NEW e \in S, T = S \ {e}
  PROVE  Cardinality(T) = Cardinality(S) - 1
BY FS_RemoveElement

\* A state to which there is a reference has a count.
LEMMA Referenced ==
  ASSUME TypeOK, RefsAreExact, NEW n \in Nodes, life[n] = "live",
         handle[n] \/ Active(n) \/ Kids(n) # {} \/ Kicks(n) # {} \/ Owing(n) # {}
  PROVE  refs[n] \in Nat \ {0}
<1>1. ExactAt(n) /\ refs[n] \in Nat
  BY ExactSplit DEF TypeOK
<1>2. ASSUME NEW S, IsFiniteSet(S), S # {} PROVE Cardinality(S) # 0
  BY <1>2, FS_EmptySet
<1>3. \/ handle[n] \/ Active(n) \/ Cardinality(Kids(n)) # 0 \/ Cardinality(Kicks(n)) # 0
      \/ Cardinality(Owing(n)) # 0
  BY <1>2, Counted
<1> DEFINE h == IF handle[n] THEN 1 ELSE 0
           a == IF Active(n) THEN 1 ELSE 0
<1>4. h \in {0, 1} /\ a \in {0, 1} /\ (handle[n] => h = 1) /\ (Active(n) => a = 1)
  OBVIOUS
<1>5. refs[n] = h + a + Cardinality(Kids(n)) + Cardinality(Kicks(n)) + Cardinality(Owing(n))
  BY <1>1 DEF ExactAt
<1> HIDE DEF h, a
<1>6. \A c1, c2, c3 \in Nat : \A b1, b2 \in {0, 1} :
        b1 + b2 + c1 + c2 + c3 = 0 => b1 = 0 /\ b2 = 0 /\ c1 = 0 /\ c2 = 0 /\ c3 = 0
  OBVIOUS
<1> QED
  BY <1>1, <1>3, <1>4, <1>5, <1>6, Counted

\* A call that is not a cancellation is the only one of its thread.
LEMMA OnlyCall ==
  ASSUME TypeOK, Frames, NEW x \in Threads, ~Quiet(x), stack[x][1].fn # "cancel"
  PROVE  Len(stack[x]) = 1 /\ stack[x] = <<stack[x][1]>> /\ stack[x][1] \in CallRecords
<1>1. stack[x] \in Seq(CallRecords) /\ stack[x] # <<>>
  BY DEF TypeOK, Quiet, CallRecords
<1>2. Len(stack[x]) \in Nat \ {0} /\ 1 \in 1..Len(stack[x])
  BY <1>1
<1>3. Frame(x, 1)
  BY <1>2 DEF Frames
<1>4. Len(stack[x]) = 1
  BY <1>3 DEF Frame, Above
<1> QED
  BY <1>1, <1>4

\* Which nodes a thread with one call owes something.
LEMMA OwesOne ==
  ASSUME NEW x \in Threads, NEW c, stack[x] = <<c>>, NEW n
  PROVE  Owes(x, n) <=> c.n = n /\ HasRef(c)
BY DEF Owes, InList, HasRef

\* The same of the next state.
LEMMA OwesOneNext ==
  ASSUME NEW x \in Threads, NEW c, stack'[x] = <<c>>, NEW n
  PROVE  Owes(x, n)' <=> c.n = n /\ HasRef(c)
BY DEF Owes, InList, HasRef

\* A thread that is in no call owes nothing.
LEMMA OwesNothing ==
  ASSUME NEW x \in Threads, Quiet(x), NEW n
  PROVE  ~Owes(x, n)
BY DEF Owes, InList, Quiet

\* The threads that do not act owe the same.
LEMMA OwesElsewhere ==
  ASSUME NEW x \in Threads, \A y \in Threads \ {x} : stack'[y] = stack[y], NEW n,
         Owes(x, n)' <=> Owes(x, n)
  PROVE  Owing(n)' = Owing(n)
<1>1. ASSUME NEW y \in Threads PROVE Owes(y, n)' <=> Owes(y, n)
  BY DEF Owes
<1> QED
  BY <1>1 DEF Owing

\* x comes to owe a reference to n.
LEMMA OwesMore ==
  ASSUME NEW x \in Threads, \A y \in Threads \ {x} : stack'[y] = stack[y], NEW n,
         Owes(x, n)', ~Owes(x, n)
  PROVE  Cardinality(Owing(n)') = Cardinality(Owing(n)) + 1
<1>1. ASSUME NEW y \in Threads \ {x} PROVE Owes(y, n)' <=> Owes(y, n)
  BY DEF Owes
<1>2. Owing(n)' = Owing(n) \cup {x} /\ x \notin Owing(n)
  BY <1>1 DEF Owing
<1> QED
  BY <1>2, Counted, OneMore

\* x no longer owes a reference to n.
LEMMA OwesLess ==
  ASSUME NEW x \in Threads, \A y \in Threads \ {x} : stack'[y] = stack[y], NEW n,
         ~Owes(x, n)', Owes(x, n)
  PROVE  Cardinality(Owing(n)') = Cardinality(Owing(n)) - 1
<1>1. ASSUME NEW y \in Threads \ {x} PROVE Owes(y, n)' <=> Owes(y, n)
  BY DEF Owes
<1>2. Owing(n)' = Owing(n) \ {x} /\ x \in Owing(n)
  BY <1>1 DEF Owing
<1> QED
  BY <1>2, Counted, OneLess

\* What is known of the innermost call of a thread.
LEMMA TopFacts ==
  ASSUME TypeOK, Frames, NEW x \in Threads, ~Quiet(x)
  PROVE  /\ Head(stack[x]) = stack[x][1] /\ Top(x) = stack[x][1].n /\ Top(x) \in Nodes
         /\ stack[x][1] \in CallRecords /\ stack[x] \in Seq(CallRecords)
         /\ Len(stack[x]) \in Nat \ {0} /\ 1 \in 1..Len(stack[x])
         /\ Local(x, stack[x][1], 1 = Len(stack[x])) /\ Frame(x, 1)
<1>1. stack[x] \in Seq(CallRecords) /\ stack[x] # <<>>
  BY DEF TypeOK, Quiet, CallRecords
<1>2. /\ Head(stack[x]) = stack[x][1] /\ stack[x][1] \in CallRecords
      /\ Len(stack[x]) \in Nat \ {0} /\ 1 \in 1..Len(stack[x])
  BY <1>1
<1>3. Frame(x, 1)
  BY <1>2 DEF Frames
<1>4. Top(x) = stack[x][1].n /\ Top(x) \in Nodes
  BY <1>2 DEF Top, CallRecords
<1> QED
  BY <1>1, <1>2, <1>3, <1>4 DEF Frame

\* A cancellation that goes on, returns or descends owes what it owed.
LEMMA GotoOwes ==
  ASSUME TypeOK, NEW x \in Threads, ~Quiet(x), NEW at \in Points, Goto(x, at),
         stack[x][1].fn \notin {"spawn", "release"}, NEW n
  PROVE  Owing(n)' = Owing(n)
<1>1. /\ \A y \in Threads \ {x} : stack'[y] = stack[y]
      /\ Len(stack'[x]) = Len(stack[x]) /\ Len(stack[x]) \in Nat \ {0}
      /\ stack'[x][1] = [stack[x][1] EXCEPT !.at = at]
      /\ \A i \in 2..Len(stack[x]) : stack'[x][i] = stack[x][i]
      /\ stack[x][1] \in CallRecords
  BY GotoEffect
<1>2. ~HasRef(stack[x][1]) /\ ~HasRef(stack'[x][1])
  BY <1>1 DEF HasRef, CallRecords
<1>3. \A i \in 1..Len(stack[x]) : i = 1 \/ stack'[x][i] = stack[x][i]
  BY <1>1
<1>4. Owes(x, n) <=> \E i \in 1..Len(stack[x]) : stack[x][i].n = n /\ HasRef(stack[x][i])
  BY DEF Owes, InList, HasRef
<1>5. Owes(x, n)' <=> \E i \in 1..Len(stack'[x]) : stack'[x][i].n = n /\ HasRef(stack'[x][i])
  BY DEF Owes, InList, HasRef
<1>6. Len(stack'[x]) = Len(stack[x])
  BY <1>1
<1>7. Owes(x, n)' <=> Owes(x, n)
  BY <1>2, <1>3, <1>4, <1>5, <1>6
<1> QED
  BY <1>1, <1>7, OwesElsewhere

\* A call that returns without a reference.
LEMMA ReturnOwes ==
  ASSUME TypeOK, NEW x \in Threads, ~Quiet(x), Return(x),
         stack[x][1].fn \notin {"spawn", "release"}, NEW n
  PROVE  Owing(n)' = Owing(n)
<1>1. /\ \A y \in Threads \ {x} : stack'[y] = stack[y]
      /\ Len(stack'[x]) = Len(stack[x]) - 1 /\ Len(stack[x]) \in Nat \ {0}
      /\ \A i \in 1..(Len(stack[x]) - 1) : stack'[x][i] = stack[x][i + 1]
  BY ReturnEffect
<1>2. ~HasRef(stack[x][1])
  BY DEF HasRef
<1>4. Owes(x, n) <=> \E i \in 1..Len(stack[x]) : stack[x][i].n = n /\ HasRef(stack[x][i])
  BY DEF Owes, InList, HasRef
<1>5. Owes(x, n)' <=> \E i \in 1..Len(stack'[x]) : stack'[x][i].n = n /\ HasRef(stack'[x][i])
  BY DEF Owes, InList, HasRef
<1>6. ASSUME Owes(x, n) PROVE Owes(x, n)'
  <2>1. PICK i \in 1..Len(stack[x]) : stack[x][i].n = n /\ HasRef(stack[x][i])
    BY <1>4, <1>6
  <2>2. i - 1 \in 1..(Len(stack[x]) - 1) /\ (i - 1) + 1 = i /\ i - 1 \in 1..Len(stack'[x])
    BY <1>1, <1>2, <2>1
  <2>3. stack'[x][i - 1] = stack[x][i]
    BY <1>1, <2>2
  <2> QED
    BY <1>5, <2>1, <2>2, <2>3
<1>7. ASSUME Owes(x, n)' PROVE Owes(x, n)
  <2>1. PICK i \in 1..Len(stack'[x]) : stack'[x][i].n = n /\ HasRef(stack'[x][i])
    BY <1>5, <1>7
  <2>2. i \in 1..(Len(stack[x]) - 1) /\ i + 1 \in 1..Len(stack[x])
    BY <1>1
  <2>3. stack'[x][i] = stack[x][i + 1]
    BY <1>1, <2>2
  <2> QED
    BY <1>4, <2>1, <2>2, <2>3
<1> QED
  BY <1>1, <1>6, <1>7, OwesElsewhere

\* A walk that calls request_cancel() of a child.
LEMMA DescendOwes ==
  ASSUME TypeOK, NEW x \in Threads, ~Quiet(x), NEW child \in Nodes, Descend(x, child),
         stack[x][1].fn = "cancel", NEW n
  PROVE  Owing(n)' = Owing(n)
<1>1. /\ \A y \in Threads \ {x} : stack'[y] = stack[y]
      /\ Len(stack'[x]) = Len(stack[x]) + 1 /\ Len(stack[x]) \in Nat \ {0}
      /\ stack'[x][1] = Call("cancel", child, "begin")
      /\ stack'[x][2] = [stack[x][1] EXCEPT !.next = stack[x][1].next + 1]
      /\ \A i \in 3..(Len(stack[x]) + 1) : stack'[x][i] = stack[x][i - 1]
      /\ stack[x][1] \in CallRecords
  BY DescendEffect
<1>2. ~HasRef(stack[x][1]) /\ ~HasRef(stack'[x][1]) /\ ~HasRef(stack'[x][2])
  BY <1>1 DEF HasRef, Call, CallRecords
<1>3. Len(stack[x]) \in Nat \ {0} /\ Len(stack'[x]) = Len(stack[x]) + 1
  BY <1>1
<1>4. Owes(x, n) <=> \E i \in 1..Len(stack[x]) : stack[x][i].n = n /\ HasRef(stack[x][i])
  BY DEF Owes, InList, HasRef
<1>5. Owes(x, n)' <=> \E i \in 1..Len(stack'[x]) : stack'[x][i].n = n /\ HasRef(stack'[x][i])
  BY DEF Owes, InList, HasRef
<1>6. ASSUME Owes(x, n) PROVE Owes(x, n)'
  <2>1. PICK i \in 1..Len(stack[x]) : stack[x][i].n = n /\ HasRef(stack[x][i])
    BY <1>4, <1>6
  <2>2. i # 1
    BY <1>2, <2>1
  <2>3. i + 1 \in 3..(Len(stack[x]) + 1) /\ (i + 1) - 1 = i /\ i + 1 \in 1..Len(stack'[x])
    BY <1>3, <2>2
  <2>4. stack'[x][i + 1] = stack[x][i]
    BY <1>1, <2>3
  <2> QED
    BY <1>5, <2>1, <2>3, <2>4
<1>7. ASSUME Owes(x, n)' PROVE Owes(x, n)
  <2>1. PICK i \in 1..Len(stack'[x]) : stack'[x][i].n = n /\ HasRef(stack'[x][i])
    BY <1>5, <1>7
  <2>2. i # 1 /\ i # 2
    BY <1>2, <2>1
  <2>3. i \in 3..(Len(stack[x]) + 1) /\ i - 1 \in 1..Len(stack[x])
    BY <1>3, <2>2
  <2>4. stack'[x][i] = stack[x][i - 1]
    BY <1>1, <2>3
  <2> QED
    BY <1>4, <2>1, <2>3, <2>4
<1> QED
  BY <1>1, <1>6, <1>7, OwesElsewhere

(***************************************************************************)
(* Parts of the invariant that a step leaves alone                         *)
(***************************************************************************)

\* Steps that leave alone what these parts of the invariant are about.
LEMMA AliveKept ==
  ASSUME Alive, UNCHANGED <<handle, coro, kick_q, life, owner_tid>>
  PROVE  Alive'
BY DEF Alive, Active, Kicks

\* No child comes or goes, and none is deleted.
LEMMA LinkedKept ==
  ASSUME Linked, UNCHANGED <<children, life>>
  PROVE  Linked'
BY DEF Linked

\* No kick is queued or processed.
LEMMA QueuedKept ==
  ASSUME Queued, UNCHANGED <<kick_q, kick_pending, owner_tid>>
  PROVE  Queued'
BY DEF Queued

\* The references to n are as many as before.
LEMMA ExactKept ==
  ASSUME NEW n \in Nodes, ExactAt(n), life'[n] = "live" => life[n] = "live", refs'[n] = refs[n],
         handle'[n] = handle[n], Active(n)' <=> Active(n), Kids(n)' = Kids(n), Kicks(n)' = Kicks(n),
         Cardinality(Owing(n)') = Cardinality(Owing(n))
  PROVE  ExactAt(n)'
BY DEF ExactAt

\* Only calls that hold no reference have moved.
LEMMA CallsOnly ==
  ASSUME LifeInv, UNCHANGED <<refs, life, kick_q, handle>>,
         TypeOK', Alive', Linked', Frames', Alone', Queued',
         \A n \in Nodes : Owing(n)' = Owing(n) /\ (Active(n)' <=> Active(n))
  PROVE  LifeInv'
<1>2. ASSUME NEW n \in Nodes PROVE ExactAt(n)'
  <2>1. Kids(n)' = Kids(n) /\ Kicks(n)' = Kicks(n)
    BY DEF Kids, Kicks
  <2>2. ExactAt(n)
    BY ExactSplit DEF LifeInv
  <2> QED
    BY <2>1, <2>2, ExactKept
<1> QED
  BY <1>2, ExactSplitNext DEF LifeInv

\* Only calls, flags and locks have changed.
LEMMA LocksOnly ==
  ASSUME LifeInv, UNCHANGED <<refs, life, children, owner_tid, kick_pending, kick_q, coro, handle>>,
         TypeOK', Frames', Alone', \A n \in Nodes : Owing(n)' = Owing(n)
  PROVE  LifeInv'
<1>1. Alive' /\ Linked' /\ Queued'
  BY AliveKept, LinkedKept, QueuedKept DEF LifeInv
<1>2. \A n \in Nodes : Active(n)' <=> Active(n)
  BY DEF Active
<1> QED
  BY <1>1, <1>2, CallsOnly

\* What is known of a call under way.
LEMMA CallFacts ==
  ASSUME LifeInv, NEW y \in Threads, NEW i \in 1..Len(stack[y])
  PROVE  /\ stack[y][i] \in CallRecords /\ stack[y][i].n \in Nodes
         /\ Local(y, stack[y][i], i = Len(stack[y])) /\ life[stack[y][i].n] = "live"
         /\ HasRef(stack[y][i]) => y \in Owing(stack[y][i].n) /\ refs[stack[y][i].n] \in Nat \ {0}
<1>1. stack[y] \in Seq(CallRecords)
  BY DEF LifeInv, TypeOK, CallRecords
<1>2. stack[y][i] \in CallRecords
  BY <1>1
<1>3. stack[y][i].n \in Nodes
  BY <1>2 DEF CallRecords
<1>a. Local(y, stack[y][i], i = Len(stack[y]))
  BY DEF LifeInv, Frames, Frame
<1>4. Local(y, stack[y][i], i = Len(stack[y])) /\ life[stack[y][i].n] = "live"
  BY <1>a DEF Local
<1>5. HasRef(stack[y][i]) => y \in Owing(stack[y][i].n)
  BY DEF HasRef, Owing, Owes, InList
<1> QED
  BY <1>2, <1>3, <1>4, <1>5, Referenced DEF LifeInv

\* Nothing refers to a state that is about to be deleted.
LEMMA Unreferenced ==
  ASSUME LifeInv, NEW n \in Nodes, life[n] = "live", refs[n] = 0
  PROVE  ~handle[n] /\ ~Active(n) /\ Kids(n) = {} /\ Kicks(n) = {} /\ Owing(n) = {}
BY Referenced DEF LifeInv

\* The stacks do not change.
LEMMA SameFrames ==
  ASSUME TypeOK, Frames, Alone, stack' = stack,
         \A y \in Threads : \A i \in 1..Len(stack[y]) : Spared(y, i)
  PROVE  Frames' /\ Alone'
<1>1. ASSUME NEW y \in Threads, NEW i \in 1..Len(stack[y]) PROVE Frame(y, i)'
  <2>1. stack[y] \in Seq(CallRecords) /\ stack'[y] = stack[y]
    BY DEF TypeOK, CallRecords
  <2>2. Len(stack[y]) \in Nat /\ i + 1 \in Nat /\ (i # Len(stack[y]) => i + 1 \in 1..Len(stack[y]))
    BY <2>1
  <2> QED
    BY <2>1, <2>2, FrameStays
<1> QED
  BY <1>1 DEF Frames, Alone, Exclude

(***************************************************************************)
(* request_cancel()                                                        *)
(***************************************************************************)

\* JoinHandle::cancel() and TaskScope::cancel() rely on the handle.
LEMMA CallCancelLife ==
  ASSUME LifeInv, NEW x \in Threads, NEW n \in Nodes, CallCancel(x, n)
  PROVE  LifeInv'
<1>0. x \in Threads
  OBVIOUS
<1> DEFINE d == Call("cancel", n, "begin")
<1>1. /\ Quiet(x) /\ BelongsTo(x, Holder[n]) /\ handle[n]
      /\ Enter(x, <<d>>)
      /\ UNCHANGED <<refs, life, requested, children, tree_lock, owner_tid, kick_pending, kick_q, coro, handle>>
  BY DEF CallCancel, Holds, Runs, BelongsTo, treevars, kickvars
<1>2. PICK c : c = d
  OBVIOUS
<1>3. c \in CallRecords /\ c.fn = "cancel" /\ c.n = n /\ c.at = "begin" /\ c.next = 1 /\ ~HasRef(c)
  BY <1>2 DEF Call, CallRecords, Points, HasRef
<1>4. TypeOK /\ Alive /\ Frames /\ Alone /\ stack \in [Threads -> Seq(CallRecords)]
  BY DEF LifeInv, TypeOK, CallRecords
<1>5. /\ stack' = [stack EXCEPT ![x] = <<c>>] /\ stack'[x] = <<c>>
      /\ \A y \in Threads \ {x} : stack'[y] = stack[y]
  BY <1>0, <1>1, <1>2, <1>3, <1>4, EnterQuiet
<1>6. Local(x, c, TRUE)'
  <2>1. BelongsTo(x, Holder[n])'
    BY <1>1 DEF BelongsTo
  <2> QED
    BY <1>1, <1>3, <1>4, <2>1 DEF Local, Alive
<1>7. \A y \in Threads : \A i \in 1..Len(stack[y]) : Spared(y, i)
  BY <1>1, <1>4, SparedSame DEF Frames
<1>8. \A y \in Threads \ {x} : \A i \in 1..Len(stack[y]) : ~Exclude(c, stack[y][i])
  BY <1>3 DEF Exclude
<1>9. stack' \in [Threads -> Seq(CallRecords)] /\ Frames' /\ Alone'
  BY <1>0, <1>3, <1>4, <1>5, <1>6, <1>7, <1>8, OnlyFrames
<1>10. TypeOK'
  BY <1>1, <1>4, <1>9 DEF TypeOK, CallRecords
<1>11. \A m \in Nodes : Owing(m)' = Owing(m)
  BY <1>0, <1>1, <1>3, <1>5, OwesOneNext, OwesNothing, OwesElsewhere
<1> QED
  BY <1>1, <1>9, <1>10, <1>11, LocksOnly

\* The innermost cancellation of x goes on without touching anything it shares
\* but flags and locks.
LEMMA CancelGoes ==
  ASSUME LifeInv, NEW x \in Threads, ~Quiet(x), stack[x][1].fn = "cancel",
         NEW at \in {"begin", "kick", "lock", "walk"}, Goto(x, at),
         at = "kick" => stack[x][1].n \in Tasks,
         at # "walk" => tree_lock' = tree_lock,
         at = "walk" => /\ stack[x][1].at = "lock" /\ tree_lock[stack[x][1].n] = None
                        /\ tree_lock' = [tree_lock EXCEPT ![stack[x][1].n] = x],
         stack[x][1].at # "walk", requested' \in [Nodes -> BOOLEAN],
         UNCHANGED <<refs, life, children, owner_tid, kick_pending, kick_q, coro, handle>>
  PROVE  LifeInv'
<1>1. /\ stack[x][1] \in CallRecords /\ Len(stack[x]) \in Nat \ {0} /\ 1 \in 1..Len(stack[x])
      /\ Local(x, stack[x][1], 1 = Len(stack[x]))
  BY TopFacts DEF LifeInv
<1>2. TypeOK /\ Frames /\ Alone
  BY DEF LifeInv
<1>3. at \in Points
  BY DEF Points
<1>4. PICK c : c = [stack[x][1] EXCEPT !.at = at]
  OBVIOUS
<1>5. c.fn = "cancel" /\ c.n = stack[x][1].n /\ c.at = at /\ c.next = stack[x][1].next /\ c.n \in Nodes
  BY <1>1, <1>4 DEF CallRecords
<1>6. PICK last \in BOOLEAN : last <=> Len(stack[x]) = 1
  OBVIOUS
<1>7. at = "walk" => tree_lock'[c.n] = x
  BY <1>2, <1>5 DEF TypeOK
<1>8. Local(x, c, last)'
  BY <1>1, <1>5, <1>6, <1>7 DEF Local, Kicks, BelongsTo
<1>9. ASSUME NEW y \in Threads, NEW i \in 1..Len(stack[y]), ~(y = x /\ i = 1)
      PROVE  Spared(y, i) /\ ~Exclude(c, stack[y][i])
  <2>1. Local(y, stack[y][i], i = Len(stack[y]))
    BY <1>2 DEF Frames, Frame
  <2>2. CASE at # "walk"
    <3>1. Spared(y, i)
      BY <1>2, <2>2, SparedSame DEF Frames
    <3> QED
      BY <1>5, <2>2, <3>1 DEF Exclude
  <2>3. CASE at = "walk"
    <3>1. stack[y][i].at = "walk" => stack[y][i].n # c.n
      BY <1>5, <2>1, <2>3, TreeAssumption DEF Local, Threads
    <3>2. stack[y][i].at = "walk" => tree_lock'[stack[y][i].n] = y
      <4>1. stack[y] \in Seq(CallRecords)
        BY <1>2 DEF TypeOK, CallRecords
      <4>a. stack[y][i] \in CallRecords
        BY <4>1
      <4>2. stack[y][i].n \in Nodes
        BY <4>a DEF CallRecords
      <4>3. tree_lock \in [Nodes -> Threads \cup {None}] /\ c.n \in Nodes
        BY <1>2, <1>5 DEF TypeOK
      <4>4. stack[y][i].at = "walk" => tree_lock[stack[y][i].n] = y
        BY <2>1 DEF Local
      <4>5. tree_lock' = [tree_lock EXCEPT ![c.n] = x]
        BY <1>5, <2>3
      <4> QED
        BY <3>1, <4>2, <4>3, <4>4, <4>5
    <3>3. Spared(y, i)
      BY <2>1, <3>2 DEF Local, Spared, BelongsTo, Kicks
    <3>4. ~Exclude(c, stack[y][i])
      BY <1>5, <2>3, <3>1 DEF Exclude
    <3> QED
      BY <3>3, <3>4
  <2> QED
    BY <2>2, <2>3
<1>10. Frames' /\ Alone'
  BY <1>2, <1>3, <1>4, <1>6, <1>8, <1>9, GotoFrames
<1>11. TypeOK'
  <2>1. stack' \in [Threads -> Seq(CallRecords)]
    BY <1>2, <1>3, GotoEffect
  <2>2. tree_lock' \in [Nodes -> Threads \cup {None}]
    BY <1>2, <1>5 DEF TypeOK
  <2> QED
    BY <1>2, <2>1, <2>2 DEF TypeOK, CallRecords
<1>12. \A m \in Nodes : Owing(m)' = Owing(m)
  BY <1>2, <1>3, GotoOwes
<1> QED
  BY <1>10, <1>11, <1>12, LocksOnly

\* It returns, and gives back the lock if it has it.
LEMMA CancelReturns ==
  ASSUME LifeInv, NEW x \in Threads, ~Quiet(x), stack[x][1].fn = "cancel", Return(x),
         stack[x][1].at # "walk" => tree_lock' = tree_lock,
         stack[x][1].at = "walk" => tree_lock' = [tree_lock EXCEPT ![stack[x][1].n] = None],
         requested' \in [Nodes -> BOOLEAN],
         UNCHANGED <<refs, life, children, owner_tid, kick_pending, kick_q, coro, handle>>
  PROVE  LifeInv'
<1>1. /\ stack[x][1] \in CallRecords /\ Len(stack[x]) \in Nat \ {0} /\ 1 \in 1..Len(stack[x])
      /\ Local(x, stack[x][1], 1 = Len(stack[x])) /\ stack[x][1].n \in Nodes
  BY TopFacts DEF LifeInv, CallRecords
<1>2. TypeOK /\ Frames /\ Alone
  BY DEF LifeInv
<1>9. ASSUME NEW y \in Threads, NEW i \in 1..Len(stack[y]), ~(y = x /\ i = 1)
      PROVE  Spared(y, i)
  <2>1. Local(y, stack[y][i], i = Len(stack[y])) /\ Frame(y, i)
    BY <1>2 DEF Frames, Frame
  <2>2. CASE stack[x][1].at # "walk"
    BY <2>1, <2>2, SparedSame
  <2>3. CASE stack[x][1].at = "walk"
    <3>1. stack[y][i].at = "walk" => stack[y][i].n # stack[x][1].n
      BY <1>1, <1>2, <1>9, <2>3 DEF Alone, Exclude
    <3>2. stack[y][i].at = "walk" => tree_lock'[stack[y][i].n] = y
      <4>1. stack[y] \in Seq(CallRecords)
        BY <1>2 DEF TypeOK, CallRecords
      <4>a. stack[y][i] \in CallRecords
        BY <4>1
      <4>2. stack[y][i].n \in Nodes
        BY <4>a DEF CallRecords
      <4>3. tree_lock \in [Nodes -> Threads \cup {None}]
        BY <1>2 DEF TypeOK
      <4>4. stack[y][i].at = "walk" => tree_lock[stack[y][i].n] = y
        BY <2>1 DEF Local
      <4> QED
        BY <1>1, <2>3, <3>1, <4>2, <4>3, <4>4
    <3> QED
      BY <2>1, <3>2 DEF Local, Spared, BelongsTo, Kicks
  <2> QED
    BY <2>2, <2>3
<1>10. Frames' /\ Alone'
  BY <1>2, <1>9, ReturnFrames
<1>11. TypeOK'
  <2>1. stack' \in [Threads -> Seq(CallRecords)]
    BY <1>2, ReturnEffect
  <2>2. tree_lock' \in [Nodes -> Threads \cup {None}]
    BY <1>1, <1>2 DEF TypeOK
  <2> QED
    BY <1>2, <2>1, <2>2 DEF TypeOK, CallRecords
<1>12. \A m \in Nodes : Owing(m)' = Owing(m)
  BY <1>2, ReturnOwes
<1> QED
  BY <1>10, <1>11, <1>12, LocksOnly

\* requested.exchange(true).
LEMMA CancelExchangeLife == ASSUME LifeInv, NEW x \in Threads, CancelExchange(x) PROVE LifeInv'
<1>1. /\ ~Quiet(x) /\ Head(stack[x]).fn = "cancel" /\ Head(stack[x]).at = "begin"
      /\ requested' = [requested EXCEPT ![Top(x)] = TRUE]
      /\ \/ Return(x)
         \/ Goto(x, IF Top(x) \in Tasks THEN "kick" ELSE "lock")
      /\ UNCHANGED <<refs, life, children, tree_lock, owner_tid, kick_pending, kick_q, coro, handle>>
  BY DEF CancelExchange, At, kickvars
<1>2. Head(stack[x]) = stack[x][1] /\ Top(x) = stack[x][1].n /\ Top(x) \in Nodes /\ TypeOK
  BY <1>1, TopFacts DEF LifeInv
<1>3. requested' \in [Nodes -> BOOLEAN]
  BY <1>1, <1>2 DEF TypeOK
<1>4. CASE Return(x)
  BY <1>1, <1>2, <1>3, <1>4, CancelReturns
<1>5. CASE Goto(x, IF Top(x) \in Tasks THEN "kick" ELSE "lock")
  <2>1. CASE Top(x) \in Tasks
    <3>1. Goto(x, "kick")
      BY <1>5, <2>1
    <3> QED
      BY <1>1, <1>2, <1>3, <2>1, <3>1, CancelGoes
  <2>2. CASE Top(x) \notin Tasks
    <3>1. Goto(x, "lock")
      BY <1>5, <2>2
    <3> QED
      BY <1>1, <1>2, <1>3, <3>1, CancelGoes
  <2> QED
    BY <2>1, <2>2
<1> QED
  BY <1>1, <1>4, <1>5

\* The lock of the node whose children are to be walked.
LEMMA CancelLockLife == ASSUME LifeInv, NEW x \in Threads, CancelLock(x) PROVE LifeInv'
<1>1. /\ ~Quiet(x) /\ Head(stack[x]).fn = "cancel" /\ Head(stack[x]).at = "lock"
      /\ tree_lock[Top(x)] = None /\ tree_lock' = [tree_lock EXCEPT ![Top(x)] = x]
      /\ Goto(x, "walk")
      /\ UNCHANGED <<refs, life, requested, children, owner_tid, kick_pending, kick_q, coro, handle>>
  BY DEF CancelLock, At, kickvars
<1>2. Head(stack[x]) = stack[x][1] /\ Top(x) = stack[x][1].n /\ TypeOK
  BY <1>1, TopFacts DEF LifeInv
<1>3. requested' \in [Nodes -> BOOLEAN]
  BY <1>1, <1>2 DEF TypeOK
<1> QED
  BY <1>1, <1>2, <1>3, CancelGoes

\* The loop over the children under that lock.
LEMMA CancelWalkLife == ASSUME LifeInv, NEW x \in Threads, CancelWalk(x) PROVE LifeInv'
<1> DEFINE n == stack[x][1].n
           i == stack[x][1].next
<1>1. /\ ~Quiet(x) /\ Head(stack[x]).fn = "cancel" /\ Head(stack[x]).at = "walk"
      /\ UNCHANGED <<refs, life, requested, children, owner_tid, kick_pending, kick_q, coro, handle>>
  BY DEF CancelWalk, At, kickvars
<1>2. /\ Head(stack[x]) = stack[x][1] /\ Top(x) = n /\ Top(x) \in Nodes /\ TypeOK /\ Frames /\ Alone
      /\ stack[x][1] \in CallRecords /\ Local(x, stack[x][1], 1 = Len(stack[x]))
  BY <1>1, TopFacts DEF LifeInv
<1>3. requested' \in [Nodes -> BOOLEAN]
  BY <1>1, <1>2 DEF TypeOK
<1>4. CASE i <= Len(children[n])
  <2>1. Descend(x, children[n][i]) /\ tree_lock' = tree_lock
    BY <1>2, <1>4 DEF CancelWalk, Descend
  <2>2. children[n] \in Seq(Nodes) /\ i \in Nat
    BY <1>2 DEF TypeOK, CallRecords
  <2>3. i \in 1..Len(children[n])
    <3>1. i >= 1
      BY <1>2 DEF Local
    <3> QED
      BY <1>4, <2>2, <3>1
  <2>4. children[n][i] \in Nodes /\ children[n][i] \in InList(children[n])
    BY <2>2, <2>3 DEF InList
  <2>5. PICK child \in Nodes : child = children[n][i]
    BY <2>4
  <2>6. life[child] = "live"
    BY <1>2, <2>4, <2>5 DEF LifeInv, Linked
  <2>7. Frames' /\ Alone'
    BY <1>1, <1>2, <2>1, <2>4, <2>5, <2>6, DescendFrames
  <2>8. stack' \in [Threads -> Seq(CallRecords)] /\ \A m \in Nodes : Owing(m)' = Owing(m)
    BY <1>1, <1>2, <2>1, <2>5, DescendEffect, DescendOwes
  <2>9. TypeOK'
    BY <1>1, <1>2, <2>1, <2>8 DEF TypeOK, CallRecords
  <2> QED
    BY <1>1, <2>7, <2>8, <2>9, LocksOnly
<1>5. CASE ~(i <= Len(children[n]))
  <2>1. Return(x) /\ tree_lock' = [tree_lock EXCEPT ![n] = None]
    BY <1>2, <1>5 DEF CancelWalk
  <2> QED
    BY <1>1, <1>2, <1>3, <2>1, CancelReturns
<1> QED
  BY <1>4, <1>5

(***************************************************************************)
(* The task's coroutine                                                    *)
(***************************************************************************)

\* The coroutine suspends or is resumed.
LEMMA ParkWakeLife ==
  ASSUME LifeInv, NEW w \in Workers, NEW n \in Tasks,
         owner_tid[n] = w, coro[n] \in {"running", "parked"}, NEW new \in {"running", "parked"},
         coro' = [coro EXCEPT ![n] = new],
         UNCHANGED <<refs, life, requested, children, tree_lock, owner_tid, kick_pending, kick_q, handle, stack>>
  PROVE  LifeInv'
<1>1. TypeOK /\ Alive /\ Linked /\ Frames /\ Alone /\ Queued
  BY DEF LifeInv
<1>2. n \in Nodes /\ coro \in [Nodes -> {"none", "queued", "running", "parked", "done"}]
  BY <1>1 DEF TypeOK, Nodes
<1>3. coro'[n] = new /\ \A m \in Nodes \ {n} : coro'[m] = coro[m]
  BY <1>2
<1>4. coro' \in [Nodes -> {"none", "queued", "running", "parked", "done"}]
  BY <1>2
<1>5. TypeOK'
  BY <1>1, <1>4 DEF TypeOK
<1>6. \A m \in Nodes : Active(m)' <=> Active(m)
  BY <1>3 DEF Active
<1>7. Alive'
  <2> SUFFICES ASSUME NEW m \in Nodes
               PROVE  /\ handle[m] \/ Active(m)' \/ Kicks(m)' # {} => life[m] = "live"
                      /\ life[m] = "none" => coro'[m] = "none" /\ owner_tid[m] = None
                      /\ coro'[m] \in {"running", "parked"} => owner_tid[m] \in Workers
                      /\ Parent[m] # None /\ life[m] = "live" => life[Parent[m]] = "live"
    BY DEF Alive, Active, Kicks
  <2>1. Kicks(m)' = Kicks(m)
    BY DEF Kicks
  <2> QED
    BY <1>1, <1>3, <1>6, <2>1 DEF Alive
<1>8. ASSUME NEW y \in Threads, NEW i \in 1..Len(stack[y]) PROVE Spared(y, i)
  <2>1. stack[y][i].n \in Nodes /\ Local(y, stack[y][i], i = Len(stack[y]))
    BY CallFacts
  <2> QED
    BY <1>3, <2>1 DEF Local, Spared, BelongsTo, Kicks
<1>9. Frames' /\ Alone'
  BY <1>1, <1>8, SameFrames
<1>10. Linked' /\ Queued'
  BY <1>1, LinkedKept, QueuedKept
<1>11. \A m \in Nodes : Owing(m)' = Owing(m)
  BY DEF Owing, Owes
<1> QED
  BY <1>5, <1>6, <1>7, <1>9, <1>10, <1>11, CallsOnly

\* The coroutine ends: its reference goes to complete().
LEMMA CompleteLife ==
  ASSUME LifeInv, NEW w \in Workers, NEW n \in Tasks, Complete(w, n)
  PROVE  LifeInv'
<1>0. w \in Threads /\ n \in Nodes
  BY DEF Threads, Nodes
<1> DEFINE d == Call("release", n, "begin")
<1>1. /\ Quiet(w) /\ coro[n] = "running" /\ coro' = [coro EXCEPT ![n] = "done"]
      /\ Enter(w, <<d>>)
      /\ UNCHANGED <<refs, life, requested, children, tree_lock, owner_tid, kick_pending, kick_q, handle>>
  BY DEF Complete, treevars, kickvars
<1>2. PICK c : c = d
  OBVIOUS
<1>3. c \in CallRecords /\ c.fn = "release" /\ c.n = n /\ c.at = "begin" /\ c.next = 1 /\ HasRef(c)
  BY <1>0, <1>2 DEF Call, CallRecords, Points, HasRef
<1>4. TypeOK /\ Alive /\ Linked /\ Frames /\ Alone /\ Queued
  BY DEF LifeInv
<1>5. /\ stack' = [stack EXCEPT ![w] = <<c>>] /\ stack'[w] = <<c>>
      /\ \A y \in Threads \ {w} : stack'[y] = stack[y]
  BY <1>0, <1>1, <1>2, <1>3, <1>4, EnterQuiet
<1>6. coro \in [Nodes -> {"none", "queued", "running", "parked", "done"}]
  BY <1>4 DEF TypeOK
<1>7. coro'[n] = "done" /\ \A m \in Nodes \ {n} : coro'[m] = coro[m]
  BY <1>0, <1>1, <1>6
<1>8. life[n] = "live"
  BY <1>0, <1>1, <1>4 DEF Alive, Active
<1>9. Alive'
  <2> SUFFICES ASSUME NEW m \in Nodes
               PROVE  /\ handle[m] \/ Active(m)' \/ Kicks(m)' # {} => life[m] = "live"
                      /\ life[m] = "none" => coro'[m] = "none" /\ owner_tid[m] = None
                      /\ coro'[m] \in {"running", "parked"} => owner_tid[m] \in Workers
                      /\ Parent[m] # None /\ life[m] = "live" => life[Parent[m]] = "live"
    BY <1>1 DEF Alive, Active, Kicks
  <2>1. Kicks(m)' = Kicks(m) /\ (Active(m)' => Active(m))
    BY <1>1, <1>7 DEF Kicks, Active
  <2> QED
    BY <1>4, <1>7, <1>8, <2>1 DEF Alive
<1>10. ASSUME NEW y \in Threads, NEW i \in 1..Len(stack[y]) PROVE Spared(y, i)
  <2>1. stack[y][i].n \in Nodes /\ Local(y, stack[y][i], i = Len(stack[y]))
    BY CallFacts
  <2> QED
    BY <1>1, <1>7, <2>1 DEF Local, Spared, BelongsTo, Kicks
<1>11. Local(w, c, TRUE)'
  BY <1>1, <1>3, <1>8 DEF Local
<1>12. \A y \in Threads \ {w} : \A i \in 1..Len(stack[y]) : ~Exclude(c, stack[y][i])
  BY <1>3 DEF Exclude
<1>13. stack' \in [Threads -> Seq(CallRecords)] /\ Frames' /\ Alone'
  BY <1>0, <1>3, <1>4, <1>5, <1>10, <1>11, <1>12, OnlyFrames
<1>14. TypeOK'
  <2>1. coro' \in [Nodes -> {"none", "queued", "running", "parked", "done"}]
    BY <1>1, <1>6
  <2> QED
    BY <1>1, <1>4, <1>13, <2>1 DEF TypeOK, CallRecords
<1>15. ASSUME NEW m \in Nodes PROVE ExactAt(m)'
  <2>1. Kids(m)' = Kids(m) /\ Kicks(m)' = Kicks(m)
    BY <1>1 DEF Kids, Kicks
  <2>2. ExactAt(m) /\ ~Owes(w, m)
    BY <1>0, <1>1, ExactSplit, OwesNothing DEF LifeInv
  <2>3. CASE m # n
    <3>1. Owing(m)' = Owing(m)
      BY <1>0, <1>3, <1>5, <2>2, <2>3, OwesOneNext, OwesElsewhere
    <3> QED
      BY <1>1, <1>7, <2>1, <2>2, <2>3, <3>1, ExactKept DEF Active
  <2>4. CASE m = n
    <3>1. Cardinality(Owing(m)') = Cardinality(Owing(m)) + 1
      BY <1>0, <1>3, <1>5, <2>2, <2>4, OwesOneNext, OwesMore
    <3>2. Active(m) /\ ~Active(m)'
      BY <1>1, <1>7, <2>4 DEF Active
    <3> QED
      BY <1>1, <2>1, <2>2, <3>1, <3>2, Counted DEF ExactAt
  <2> QED
    BY <2>3, <2>4
<1>16. Linked' /\ Queued'
  BY <1>1, <1>4, LinkedKept, QueuedKept
<1> QED
  BY <1>9, <1>13, <1>14, <1>15, <1>16, ExactSplitNext DEF LifeInv

\* A worker takes the task from the shared queue.
LEMMA AdoptLife ==
  ASSUME LifeInv, NEW w \in Workers, NEW n \in Tasks, Adopt(w, n)
  PROVE  LifeInv'
<1>0. w \in Threads /\ n \in Nodes /\ None \notin Threads
  BY TreeAssumption DEF Threads, Nodes
<1> DEFINE d == Call("adopt", n, "begin")
<1>1. /\ Quiet(w) /\ coro[n] = "queued" /\ owner_tid[n] = None
      /\ owner_tid' = [owner_tid EXCEPT ![n] = w]
      /\ Enter(w, <<d>>)
      /\ UNCHANGED <<refs, life, requested, children, tree_lock, coro, kick_pending, kick_q, handle>>
  BY DEF Adopt, treevars
<1>2. PICK c : c = d
  OBVIOUS
<1>3. c \in CallRecords /\ c.fn = "adopt" /\ c.n = n /\ c.at = "begin" /\ c.next = 1 /\ ~HasRef(c)
  BY <1>0, <1>2 DEF Call, CallRecords, Points, HasRef
<1>4. TypeOK /\ Alive /\ Linked /\ Frames /\ Alone /\ Queued
  BY DEF LifeInv
<1>5. /\ stack' = [stack EXCEPT ![w] = <<c>>] /\ stack'[w] = <<c>>
      /\ \A y \in Threads \ {w} : stack'[y] = stack[y]
  BY <1>0, <1>1, <1>2, <1>3, <1>4, EnterQuiet
<1>6. owner_tid \in [Nodes -> Workers \cup {None}]
  BY <1>4 DEF TypeOK
<1>7. owner_tid'[n] = w /\ \A m \in Nodes \ {n} : owner_tid'[m] = owner_tid[m]
  BY <1>0, <1>1, <1>6
<1>8. life[n] = "live"
  BY <1>0, <1>1, <1>4 DEF Alive, Active
<1>9. Alive'
  BY <1>1, <1>4, <1>7 DEF Alive, Active, Kicks
<1>10. ASSUME NEW y \in Threads, NEW i \in 1..Len(stack[y]) PROVE Spared(y, i)
  <2>1. stack[y][i].n \in Nodes /\ Local(y, stack[y][i], i = Len(stack[y]))
    BY CallFacts
  <2>2. stack[y][i].fn = "adopt" => owner_tid[stack[y][i].n] # None
    BY <1>0, <2>1 DEF Local
  <2>3. owner_tid[n] # y
    BY <1>0, <1>1
  <2>4. Holder[stack[y][i].n] \in Tasks => Holder[stack[y][i].n] \in Nodes
    BY DEF Nodes
  <2> QED
    BY <1>1, <1>7, <2>1, <2>2, <2>3, <2>4 DEF Local, Spared, BelongsTo, Kicks
<1>11. Local(w, c, TRUE)'
  BY <1>1, <1>3, <1>7, <1>8 DEF Local
<1>12. \A y \in Threads \ {w} : \A i \in 1..Len(stack[y]) : ~Exclude(c, stack[y][i])
  BY <1>3 DEF Exclude
<1>13. stack' \in [Threads -> Seq(CallRecords)] /\ Frames' /\ Alone'
  BY <1>0, <1>3, <1>4, <1>5, <1>10, <1>11, <1>12, OnlyFrames
<1>14. TypeOK'
  <2>1. owner_tid' \in [Nodes -> Workers \cup {None}]
    BY <1>1, <1>6
  <2> QED
    BY <1>1, <1>4, <1>13, <2>1 DEF TypeOK, CallRecords
<1>15. \A m \in Nodes : Owing(m)' = Owing(m) /\ (Active(m)' <=> Active(m))
  BY <1>0, <1>1, <1>3, <1>5, OwesOneNext, OwesNothing, OwesElsewhere DEF Active
<1>16. Queued'
  <2>1. \A v \in Workers : InList(kick_q[v]) \subseteq Nodes
    BY <1>4 DEF TypeOK, InList, Nodes
  <2>2. \A v \in Workers : n \notin InList(kick_q[v])
    BY <1>0, <1>1, <1>4 DEF Queued, Threads
  <2> QED
    BY <1>1, <1>4, <1>7, <2>1, <2>2 DEF Queued
<1>17. Linked'
  BY <1>1, <1>4, LinkedKept
<1> QED
  BY <1>1, <1>9, <1>13, <1>14, <1>15, <1>16, <1>17, CallsOnly

\* The adoption is over: the coroutine may run.
LEMMA AdoptEnds ==
  ASSUME LifeInv, NEW x \in Threads, ~Quiet(x), stack[x][1].fn = "adopt", Return(x),
         coro' = [coro EXCEPT ![stack[x][1].n] = "running"],
         UNCHANGED <<life, children, tree_lock, owner_tid, handle>>,
         \A y \in Threads : \A i \in 1..Len(stack[y]) : (y = x /\ i = 1) \/
           LET call == stack[y][i] IN
             /\ call.fn = "release" /\ call.at # "begin" => refs'[call.n] = 0
             /\ call.at = "kick_ref" =>
                  kick_pending'[call.n] /\ \A w \in Workers : call.n \notin InList(kick_q'[w])
  PROVE  /\ Frames' /\ Alone' /\ stack' \in [Threads -> Seq(CallRecords)]
         /\ coro' \in [Nodes -> {"none", "queued", "running", "parked", "done"}]
         /\ \A m \in Nodes : Owing(m)' = Owing(m) /\ (Active(m)' <=> Active(m))
         /\ \A m \in Nodes : coro'[m] # coro[m] => owner_tid[m] \in Workers /\ life[m] = "live"
<1>1. TypeOK /\ Frames /\ Alone
  BY DEF LifeInv
<1>2. PICK n \in Nodes : n = stack[x][1].n
  BY <1>1, TopFacts
<1>3. 1 \in 1..Len(stack[x]) /\ Local(x, stack[x][1], 1 = Len(stack[x]))
  BY <1>1, TopFacts
<1>4. coro[n] = "queued" /\ owner_tid[n] = x /\ x \in Workers /\ life[n] = "live"
  BY <1>2, <1>3 DEF Local
<1>5. coro \in [Nodes -> {"none", "queued", "running", "parked", "done"}]
  BY <1>1 DEF TypeOK
<1>6. coro'[n] = "running" /\ \A m \in Nodes \ {n} : coro'[m] = coro[m]
  BY <1>2, <1>5
<1>7. coro' \in [Nodes -> {"none", "queued", "running", "parked", "done"}]
  BY <1>2, <1>5
<1>8. ASSUME NEW y \in Threads, NEW i \in 1..Len(stack[y]), ~(y = x /\ i = 1) PROVE Spared(y, i)
  <2>1. stack[y][i].n \in Nodes /\ Local(y, stack[y][i], i = Len(stack[y]))
    BY CallFacts
  <2>2. stack[y][i].fn = "adopt" => stack[y][i].n # n
    <3>1. Len(stack[x]) = 1
      BY <1>1, OnlyCall
    <3>2. y = x => i = 1
      BY <3>1
    <3> QED
      BY <1>4, <1>8, <2>1, <3>2 DEF Local
  <2> QED
    BY <1>4, <1>6, <1>8, <2>1, <2>2 DEF Local, Spared, BelongsTo
<1>9. Frames' /\ Alone' /\ stack' \in [Threads -> Seq(CallRecords)]
  BY <1>1, <1>8, ReturnFrames, ReturnEffect
<1>10. \A m \in Nodes : Owing(m)' = Owing(m) /\ (Active(m)' <=> Active(m))
  BY <1>1, <1>4, <1>6, ReturnOwes DEF Active
<1> QED
  BY <1>4, <1>6, <1>7, <1>9, <1>10

\* A coroutine that runs belongs to a worker.
LEMMA AliveStarted ==
  ASSUME Alive, UNCHANGED <<handle, kick_q, life, owner_tid>>,
         \A m \in Nodes : Active(m)' <=> Active(m),
         \A m \in Nodes : coro'[m] # coro[m] => owner_tid[m] \in Workers /\ life[m] = "live"
  PROVE  Alive'
<1> SUFFICES ASSUME NEW m \in Nodes
             PROVE  /\ handle[m] \/ Active(m)' \/ Kicks(m)' # {} => life[m] = "live"
                    /\ life[m] = "none" => coro'[m] = "none" /\ owner_tid[m] = None
                    /\ coro'[m] \in {"running", "parked"} => owner_tid[m] \in Workers
                    /\ Parent[m] # None /\ life[m] = "live" => life[Parent[m]] = "live"
  BY DEF Alive, Active, Kicks
<1>1. Kicks(m)' = Kicks(m) /\ (Active(m)' => Active(m))
  BY DEF Kicks
<1> QED
  BY <1>1 DEF Alive

\* The worker looks whether the task it took was cancelled.
LEMMA AdoptCheckLife == ASSUME LifeInv, NEW x \in Threads, AdoptCheck(x) PROVE LifeInv'
<1>1. /\ ~Quiet(x) /\ Head(stack[x]).fn = "adopt" /\ Head(stack[x]).at = "begin"
      /\ \/ Goto(x, "kick") /\ coro' = coro
         \/ coro' = [coro EXCEPT ![Top(x)] = "running"] /\ Return(x)
      /\ UNCHANGED <<refs, life, requested, children, tree_lock, owner_tid, kick_pending, kick_q, handle>>
  BY DEF AdoptCheck, At, treevars, kickvars
<1>2. TypeOK /\ Alive /\ Linked /\ Frames /\ Alone /\ Queued
  BY DEF LifeInv
<1>3. /\ Head(stack[x]) = stack[x][1] /\ Top(x) = stack[x][1].n /\ Top(x) \in Nodes
      /\ stack[x][1] \in CallRecords /\ Local(x, stack[x][1], 1 = Len(stack[x]))
  BY <1>1, <1>2, TopFacts
<1>4. CASE Goto(x, "kick") /\ coro' = coro
  <2>1. PICK c : c = [stack[x][1] EXCEPT !.at = "kick"]
    OBVIOUS
  <2>2. c.fn = "adopt" /\ c.n = stack[x][1].n /\ c.at = "kick" /\ c.next = stack[x][1].next
    BY <1>1, <1>3, <2>1 DEF CallRecords
  <2>3. PICK last \in BOOLEAN : last <=> Len(stack[x]) = 1
    OBVIOUS
  <2>4. Local(x, c, last)'
    BY <1>1, <1>3, <1>4, <2>2, <2>3 DEF Local
  <2>5. \A y \in Threads : \A i \in 1..Len(stack[y]) : Spared(y, i) /\ ~Exclude(c, stack[y][i])
    BY <1>1, <1>2, <1>4, <2>2, SparedSame DEF Frames, Exclude
  <2>6. "kick" \in Points
    BY DEF Points
  <2>7. Frames' /\ Alone'
    BY <1>1, <1>2, <1>4, <2>1, <2>3, <2>4, <2>5, <2>6, GotoFrames
  <2>8. stack' \in [Threads -> Seq(CallRecords)]
    BY <1>1, <1>2, <1>4, <2>6, GotoEffect
  <2>9. TypeOK'
    BY <1>1, <1>2, <1>4, <2>8 DEF TypeOK, CallRecords
  <2>10. \A m \in Nodes : Owing(m)' = Owing(m)
    BY <1>1, <1>2, <1>3, <1>4, <2>6, GotoOwes
  <2> QED
    BY <1>1, <1>4, <2>7, <2>9, <2>10, LocksOnly
<1>5. CASE coro' = [coro EXCEPT ![Top(x)] = "running"] /\ Return(x)
  <2>1. ASSUME NEW y \in Threads, NEW i \in 1..Len(stack[y])
        PROVE  LET call == stack[y][i] IN
             /\ call.fn = "release" /\ call.at # "begin" => refs'[call.n] = 0
             /\ call.at = "kick_ref" =>
                  kick_pending'[call.n] /\ \A w \in Workers : call.n \notin InList(kick_q'[w])
    <3>1. Local(y, stack[y][i], i = Len(stack[y]))
      BY CallFacts
    <3> QED
      BY <1>1, <3>1 DEF Local, Kicks
  <2>2. /\ Frames' /\ Alone' /\ stack' \in [Threads -> Seq(CallRecords)]
        /\ coro' \in [Nodes -> {"none", "queued", "running", "parked", "done"}]
        /\ \A m \in Nodes : Owing(m)' = Owing(m) /\ (Active(m)' <=> Active(m))
        /\ \A m \in Nodes : coro'[m] # coro[m] => owner_tid[m] \in Workers /\ life[m] = "live"
    BY <1>1, <1>3, <1>5, <2>1, AdoptEnds
  <2>3. TypeOK'
    BY <1>1, <1>2, <2>2 DEF TypeOK, CallRecords
  <2>4. Alive' /\ Linked' /\ Queued'
    BY <1>1, <1>2, <2>2, AliveStarted, LinkedKept, QueuedKept
  <2> QED
    BY <1>1, <2>2, <2>3, <2>4, CallsOnly
<1> QED
  BY <1>1, <1>4, <1>5

(***************************************************************************)
(* kick()                                                                  *)
(***************************************************************************)

\* The caller of kick() goes on.
LEMMA AfterKickFrames ==
  ASSUME LifeInv, NEW x \in Threads, ~Quiet(x), stack[x][1].fn \in {"cancel", "adopt"},
         stack[x][1].at \in {"kick", "kick_ref"}, AfterKick(x),
         UNCHANGED <<life, children, tree_lock, owner_tid, handle>>,
         \A y \in Threads : \A i \in 1..Len(stack[y]) : (y = x /\ i = 1) \/
           LET call == stack[y][i] IN
             /\ call.fn = "release" /\ call.at # "begin" => refs'[call.n] = 0
             /\ call.at = "kick_ref" =>
                  kick_pending'[call.n] /\ \A w \in Workers : call.n \notin InList(kick_q'[w])
  PROVE  /\ Frames' /\ Alone' /\ stack' \in [Threads -> Seq(CallRecords)]
         /\ coro' \in [Nodes -> {"none", "queued", "running", "parked", "done"}]
         /\ \A m \in Nodes : Owing(m)' = Owing(m) /\ (Active(m)' <=> Active(m))
         /\ \A m \in Nodes : coro'[m] # coro[m] => owner_tid[m] \in Workers /\ life[m] = "live"
<1>1. TypeOK /\ Frames /\ Alone
  BY DEF LifeInv
<1>2. /\ Head(stack[x]) = stack[x][1] /\ Top(x) = stack[x][1].n
      /\ stack[x][1] \in CallRecords /\ Local(x, stack[x][1], 1 = Len(stack[x]))
  BY <1>1, TopFacts
<1>3. CASE stack[x][1].fn = "adopt"
  <2>1. coro' = [coro EXCEPT ![stack[x][1].n] = "running"] /\ Return(x)
    BY <1>2, <1>3 DEF AfterKick
  <2> QED
    BY <1>3, <2>1, AdoptEnds
<1>4. CASE stack[x][1].fn = "cancel"
  <2>0. Goto(x, "lock") /\ coro' = coro
    BY <1>2, <1>4 DEF AfterKick
  <2>1. PICK c : c = [stack[x][1] EXCEPT !.at = "lock"]
    OBVIOUS
  <2>2. c.fn = "cancel" /\ c.n = stack[x][1].n /\ c.at = "lock" /\ c.next = stack[x][1].next
    BY <1>2, <1>4, <2>1 DEF CallRecords
  <2>3. PICK last \in BOOLEAN : last <=> Len(stack[x]) = 1
    OBVIOUS
  <2>4. Local(x, c, last)'
    BY <1>2, <1>4, <2>2, <2>3 DEF Local, BelongsTo
  <2>5. ASSUME NEW y \in Threads, NEW i \in 1..Len(stack[y]), ~(y = x /\ i = 1)
        PROVE  Spared(y, i) /\ ~Exclude(c, stack[y][i])
    <3>1. Local(y, stack[y][i], i = Len(stack[y]))
      BY CallFacts
    <3>2. ~Exclude(c, stack[y][i])
      BY <2>2 DEF Exclude
    <3>3. Spared(y, i)
      BY <2>0, <2>5, <3>1 DEF Local, Spared, BelongsTo
    <3> QED
      BY <3>2, <3>3
  <2>6. "lock" \in Points
    BY DEF Points
  <2>7. Frames' /\ Alone'
    BY <1>1, <2>0, <2>1, <2>3, <2>4, <2>5, <2>6, GotoFrames
  <2>8. stack' \in [Threads -> Seq(CallRecords)]
    BY <1>1, <2>0, <2>6, GotoEffect
  <2>9. coro' \in [Nodes -> {"none", "queued", "running", "parked", "done"}]
    BY <1>1, <2>0 DEF TypeOK
  <2>10. \A m \in Nodes : Owing(m)' = Owing(m) /\ (Active(m)' <=> Active(m))
    BY <1>1, <1>4, <2>0, <2>6, GotoOwes DEF Active
  <2> QED
    BY <2>0, <2>7, <2>8, <2>9, <2>10
<1> QED
  BY <1>3, <1>4

\* kick_pending.exchange(true), unless there is no owner.
LEMMA KickClaimLife == ASSUME LifeInv, NEW x \in Threads, KickClaim(x) PROVE LifeInv'
<1>1. /\ ~Quiet(x) /\ Head(stack[x]).fn \in {"cancel", "adopt"} /\ Head(stack[x]).at = "kick"
      /\ \/ AfterKick(x) /\ kick_pending' = kick_pending
         \/ /\ owner_tid[Top(x)] # None /\ ~kick_pending[Top(x)]
            /\ kick_pending' = [kick_pending EXCEPT ![Top(x)] = TRUE]
            /\ Goto(x, "kick_ref") /\ coro' = coro
      /\ UNCHANGED <<refs, life, requested, children, tree_lock, owner_tid, kick_q, handle>>
  BY DEF KickClaim, At, treevars
<1>2. TypeOK /\ Alive /\ Linked /\ Frames /\ Alone /\ Queued
  BY DEF LifeInv
<1>3. /\ Head(stack[x]) = stack[x][1] /\ Top(x) = stack[x][1].n /\ Top(x) \in Nodes
      /\ stack[x][1] \in CallRecords /\ Local(x, stack[x][1], 1 = Len(stack[x]))
  BY <1>1, <1>2, TopFacts
<1>4. CASE AfterKick(x) /\ kick_pending' = kick_pending
  <2>1. ASSUME NEW y \in Threads, NEW i \in 1..Len(stack[y])
        PROVE  LET call == stack[y][i] IN
             /\ call.fn = "release" /\ call.at # "begin" => refs'[call.n] = 0
             /\ call.at = "kick_ref" =>
                  kick_pending'[call.n] /\ \A w \in Workers : call.n \notin InList(kick_q'[w])
    <3>1. Local(y, stack[y][i], i = Len(stack[y]))
      BY CallFacts
    <3> QED
      BY <1>1, <1>4, <3>1 DEF Local, Kicks
  <2>2. /\ Frames' /\ Alone' /\ stack' \in [Threads -> Seq(CallRecords)]
        /\ coro' \in [Nodes -> {"none", "queued", "running", "parked", "done"}]
        /\ \A m \in Nodes : Owing(m)' = Owing(m) /\ (Active(m)' <=> Active(m))
        /\ \A m \in Nodes : coro'[m] # coro[m] => owner_tid[m] \in Workers /\ life[m] = "live"
    BY <1>1, <1>3, <1>4, <2>1, AfterKickFrames
  <2>3. TypeOK'
    BY <1>1, <1>2, <1>4, <2>2 DEF TypeOK, CallRecords
  <2>4. Alive' /\ Linked' /\ Queued'
    BY <1>1, <1>2, <1>4, <2>2, AliveStarted, LinkedKept, QueuedKept
  <2> QED
    BY <1>1, <2>2, <2>3, <2>4, CallsOnly
<1>5. CASE /\ owner_tid[Top(x)] # None /\ ~kick_pending[Top(x)]
           /\ kick_pending' = [kick_pending EXCEPT ![Top(x)] = TRUE]
           /\ Goto(x, "kick_ref") /\ coro' = coro
  <2>1. PICK n \in Nodes : n = stack[x][1].n
    BY <1>3
  <2>2. kick_pending \in [Nodes -> BOOLEAN] /\ owner_tid \in [Nodes -> Workers \cup {None}]
    BY <1>2 DEF TypeOK
  <2>3. /\ kick_pending'[n] /\ \A m \in Nodes \ {n} : kick_pending'[m] = kick_pending[m]
        /\ owner_tid[n] \in Workers /\ ~kick_pending[n]
    BY <1>3, <1>5, <2>1, <2>2
  <2>4. \A w \in Workers : n \notin InList(kick_q[w])
    BY <1>2, <2>3 DEF Queued
  <2>5. PICK c : c = [stack[x][1] EXCEPT !.at = "kick_ref"]
    OBVIOUS
  <2>6. c.fn = stack[x][1].fn /\ c.n = n /\ c.at = "kick_ref" /\ c.next = stack[x][1].next
    BY <1>1, <1>3, <2>1, <2>5 DEF CallRecords
  <2>7. PICK last \in BOOLEAN : last <=> Len(stack[x]) = 1
    OBVIOUS
  <2>8. Local(x, c, last)'
    BY <1>1, <1>3, <1>5, <2>1, <2>3, <2>4, <2>6, <2>7 DEF Local, Kicks, BelongsTo
  <2>9. ASSUME NEW y \in Threads, NEW i \in 1..Len(stack[y])
        PROVE  Spared(y, i) /\ ~Exclude(c, stack[y][i])
    <3>1. Local(y, stack[y][i], i = Len(stack[y])) /\ stack[y][i].n \in Nodes
      BY CallFacts
    <3>2. stack[y][i].at = "kick_ref" => stack[y][i].n # n
      BY <2>3, <3>1 DEF Local
    <3>3. ~Exclude(c, stack[y][i])
      BY <1>1, <1>3, <2>6, <3>2 DEF Exclude
    <3>4. Spared(y, i)
      BY <1>1, <1>5, <2>3, <3>1, <3>2 DEF Local, Spared, BelongsTo, Kicks
    <3> QED
      BY <3>3, <3>4
  <2>10. "kick_ref" \in Points
    BY DEF Points
  <2>11. Frames' /\ Alone'
    BY <1>1, <1>2, <1>5, <2>5, <2>7, <2>8, <2>9, <2>10, GotoFrames
  <2>12. stack' \in [Threads -> Seq(CallRecords)]
    BY <1>1, <1>2, <1>5, <2>10, GotoEffect
  <2>13. kick_pending' \in [Nodes -> BOOLEAN]
    BY <1>5, <2>2
  <2>14. TypeOK'
    BY <1>1, <1>2, <1>5, <2>12, <2>13 DEF TypeOK, CallRecords
  <2>15. \A m \in Nodes : Owing(m)' = Owing(m) /\ (Active(m)' <=> Active(m))
    BY <1>1, <1>2, <1>3, <1>5, <2>10, GotoOwes DEF Active
  <2>16. Queued'
    <3>1. \A w \in Workers : InList(kick_q[w]) \subseteq Nodes
      BY <1>2 DEF TypeOK, InList, Nodes
    <3> QED
      BY <1>1, <1>2, <2>3, <3>1 DEF Queued
  <2>17. Alive' /\ Linked'
    BY <1>1, <1>2, <1>5, AliveKept, LinkedKept
  <2> QED
    BY <1>1, <2>11, <2>14, <2>15, <2>16, <2>17, CallsOnly
<1> QED
  BY <1>1, <1>4, <1>5

\* try_add_ref(), and the kick is queued for the owner.
LEMMA KickPushLife == ASSUME LifeInv, NEW x \in Threads, KickPush(x) PROVE LifeInv'
<1>1. /\ ~Quiet(x) /\ Head(stack[x]).fn \in {"cancel", "adopt"} /\ Head(stack[x]).at = "kick_ref"
      /\ \/ /\ refs[Top(x)] = 0 /\ kick_pending' = [kick_pending EXCEPT ![Top(x)] = FALSE]
            /\ UNCHANGED <<refs, kick_q>>
         \/ /\ refs[Top(x)] # 0 /\ refs' = [refs EXCEPT ![Top(x)] = @ + 1]
            /\ kick_q' = [kick_q EXCEPT ![owner_tid[Top(x)]] = Append(@, Top(x))]
            /\ kick_pending' = kick_pending
      /\ AfterKick(x)
      /\ UNCHANGED <<life, requested, children, tree_lock, owner_tid, handle>>
  BY DEF KickPush, At, treevars
<1>2. TypeOK /\ Alive /\ Linked /\ Frames /\ Alone /\ Queued
  BY DEF LifeInv
<1>3. /\ Head(stack[x]) = stack[x][1] /\ Top(x) = stack[x][1].n /\ Top(x) \in Nodes
      /\ 1 \in 1..Len(stack[x]) /\ Local(x, stack[x][1], 1 = Len(stack[x]))
  BY <1>1, <1>2, TopFacts
<1>4. PICK n \in Nodes : n = Top(x)
  BY <1>3
<1>5. /\ n \in Tasks /\ kick_pending[n] /\ owner_tid[n] \in Workers /\ life[n] = "live"
      /\ Kicks(n) = {}
  BY <1>1, <1>3, <1>4 DEF Local
<1>6. \A w \in Workers : n \notin InList(kick_q[w])
  BY <1>5 DEF Kicks
<1>7. ASSUME NEW y \in Threads, NEW i \in 1..Len(stack[y]), ~(y = x /\ i = 1),
             stack[y][i].at = "kick_ref"
      PROVE  stack[y][i].n # n
  <2>1. stack[x][1].n = n /\ stack[x][1].at = "kick_ref"
    BY <1>1, <1>3, <1>4
  <2>2. stack[y][i].n = n => Exclude(stack[x][1], stack[y][i])
    BY <1>7, <2>1 DEF Exclude
  <2> QED
    BY <1>2, <1>3, <1>7, <2>2 DEF Alone
<1>8. /\ refs \in [Nodes -> Nat] /\ kick_pending \in [Nodes -> BOOLEAN]
      /\ kick_q \in [Workers -> Seq(Tasks)]
  BY <1>2 DEF TypeOK
<1>9. \A w \in Workers : InList(kick_q[w]) \subseteq Nodes
  BY <1>8 DEF InList, Nodes
<1>10. CASE /\ refs[Top(x)] = 0 /\ kick_pending' = [kick_pending EXCEPT ![Top(x)] = FALSE]
            /\ UNCHANGED <<refs, kick_q>>
  <2>0. \A m \in Nodes \ {n} : kick_pending'[m] = kick_pending[m]
    BY <1>4, <1>8, <1>10
  <2>1. ASSUME NEW y \in Threads, NEW i \in 1..Len(stack[y]), ~(y = x /\ i = 1)
        PROVE  LET call == stack[y][i] IN
             /\ call.fn = "release" /\ call.at # "begin" => refs'[call.n] = 0
             /\ call.at = "kick_ref" =>
                  kick_pending'[call.n] /\ \A w \in Workers : call.n \notin InList(kick_q'[w])
    <3>1. Local(y, stack[y][i], i = Len(stack[y])) /\ stack[y][i].n \in Nodes
      BY CallFacts
    <3> QED
      BY <1>1, <1>7, <1>10, <2>0, <2>1, <3>1 DEF Local, Kicks
  <2>2. /\ Frames' /\ Alone' /\ stack' \in [Threads -> Seq(CallRecords)]
        /\ coro' \in [Nodes -> {"none", "queued", "running", "parked", "done"}]
        /\ \A m \in Nodes : Owing(m)' = Owing(m) /\ (Active(m)' <=> Active(m))
        /\ \A m \in Nodes : coro'[m] # coro[m] => owner_tid[m] \in Workers /\ life[m] = "live"
    BY <1>1, <1>3, <2>1, AfterKickFrames
  <2>3. kick_pending' \in [Nodes -> BOOLEAN]
    BY <1>8, <1>10
  <2>4. TypeOK'
    BY <1>1, <1>2, <1>10, <2>2, <2>3 DEF TypeOK, CallRecords
  <2>5. Alive' /\ Linked'
    BY <1>1, <1>2, <1>10, <2>2, AliveStarted, LinkedKept
  <2>6. Queued'
    <3>1. \A w \in Workers : \A m \in InList(kick_q[w]) : kick_pending'[m] = kick_pending[m]
      BY <1>6, <1>9, <2>0
    <3>2. kick_q' = kick_q /\ owner_tid' = owner_tid
      BY <1>1, <1>10
    <3> QED
      BY <1>2, <3>1, <3>2 DEF Queued
  <2> QED
    BY <1>1, <1>10, <2>2, <2>4, <2>5, <2>6, CallsOnly
<1>11. CASE /\ refs[Top(x)] # 0 /\ refs' = [refs EXCEPT ![Top(x)] = @ + 1]
            /\ kick_q' = [kick_q EXCEPT ![owner_tid[Top(x)]] = Append(@, Top(x))]
            /\ kick_pending' = kick_pending
  <2>a. PICK o \in Workers : o = owner_tid[n]
    BY <1>5
  <2> DEFINE q == kick_q[o]
  <2>0. q \in Seq(Tasks) /\ Distinct(q) /\ n \notin InList(q)
    BY <1>2, <1>6, <1>8 DEF Queued
  <2>1. Append(q, n) \in Seq(Tasks) /\ InList(Append(q, n)) = InList(q) \cup {n} /\ Distinct(Append(q, n))
    BY <1>5, <2>0, QueueAppend
  <2>2. kick_q' = [kick_q EXCEPT ![o] = Append(q, n)]
    BY <1>4, <1>11, <2>a
  <2> HIDE DEF q
  <2>3. /\ kick_q' \in [Workers -> Seq(Tasks)]
        /\ kick_q'[o] = Append(q, n)
        /\ \A w \in Workers \ {o} : kick_q'[w] = kick_q[w]
    BY <1>8, <2>1, <2>2
  <2>4. \A w \in Workers : InList(kick_q'[w]) = IF w = o THEN InList(kick_q[w]) \cup {n} ELSE InList(kick_q[w])
    BY <2>1, <2>3 DEF q
  <2>5. /\ refs' \in [Nodes -> Nat] /\ refs'[n] = refs[n] + 1
        /\ \A m \in Nodes \ {n} : refs'[m] = refs[m]
    BY <1>4, <1>8, <1>11
  <2>6. ASSUME NEW y \in Threads, NEW i \in 1..Len(stack[y]), ~(y = x /\ i = 1)
        PROVE  LET call == stack[y][i] IN
             /\ call.fn = "release" /\ call.at # "begin" => refs'[call.n] = 0
             /\ call.at = "kick_ref" =>
                  kick_pending'[call.n] /\ \A w \in Workers : call.n \notin InList(kick_q'[w])
    <3>1. Local(y, stack[y][i], i = Len(stack[y])) /\ stack[y][i].n \in Nodes
      BY CallFacts
    <3>2. ASSUME stack[y][i].fn = "release", stack[y][i].at # "begin" PROVE refs'[stack[y][i].n] = 0
      <4>1. refs[stack[y][i].n] = 0
        BY <3>1, <3>2 DEF Local
      <4> QED
        BY <1>4, <1>11, <2>5, <3>1, <4>1
    <3>3. ASSUME stack[y][i].at = "kick_ref"
          PROVE  kick_pending'[stack[y][i].n] /\ \A w \in Workers : stack[y][i].n \notin InList(kick_q'[w])
      <4>1. stack[y][i].n # n
        BY <1>7, <2>6, <3>3
      <4>2. kick_pending[stack[y][i].n] /\ \A w \in Workers : stack[y][i].n \notin InList(kick_q[w])
        BY <3>1, <3>3 DEF Local, Kicks
      <4>3. kick_pending'[stack[y][i].n]
        BY <1>11, <4>2
      <4> QED
        BY <2>4, <4>1, <4>2, <4>3
    <3> QED
      BY <3>2, <3>3
  <2>7. /\ Frames' /\ Alone' /\ stack' \in [Threads -> Seq(CallRecords)]
        /\ coro' \in [Nodes -> {"none", "queued", "running", "parked", "done"}]
        /\ \A m \in Nodes : Owing(m)' = Owing(m) /\ (Active(m)' <=> Active(m))
        /\ \A m \in Nodes : coro'[m] # coro[m] => owner_tid[m] \in Workers /\ life[m] = "live"
    BY <1>1, <1>3, <2>6, AfterKickFrames
  <2>8. TypeOK'
    BY <1>1, <1>2, <1>11, <2>3, <2>5, <2>7 DEF TypeOK, CallRecords
  <2>9. \A m \in Nodes : Kicks(m)' = IF m = n THEN {o} ELSE Kicks(m)
    BY <1>6, <2>4 DEF Kicks
  <2>10. Alive'
    <3> SUFFICES ASSUME NEW m \in Nodes
                 PROVE  /\ handle'[m] \/ Active(m)' \/ Kicks(m)' # {} => life'[m] = "live"
                        /\ life'[m] = "none" => coro'[m] = "none" /\ owner_tid'[m] = None
                        /\ coro'[m] \in {"running", "parked"} => owner_tid'[m] \in Workers
                        /\ Parent[m] # None /\ life'[m] = "live" => life'[Parent[m]] = "live"
      BY DEF Alive, Active, Kicks
    <3> QED
      BY <1>1, <1>2, <1>5, <2>7, <2>9 DEF Alive
  <2>11. Linked'
    BY <1>1, <1>2, LinkedKept
  <2>12. Queued'
    <3>1. \A w \in Workers : Distinct(kick_q'[w])
      BY <1>2, <2>1, <2>3 DEF Queued
    <3>2. kick_pending' = kick_pending /\ owner_tid' = owner_tid
      BY <1>1, <1>11
    <3>3. ASSUME NEW w \in Workers, NEW m \in InList(kick_q'[w]) PROVE kick_pending[m] /\ owner_tid[m] = w
      <4>1. m \in InList(kick_q[w]) \/ (m = n /\ w = o)
        BY <2>4
      <4> QED
        BY <1>2, <1>5, <2>a, <4>1 DEF Queued
    <3> QED
      BY <3>1, <3>2, <3>3 DEF Queued
  <2>13. ASSUME NEW m \in Nodes PROVE ExactAt(m)'
    <3>1. ExactAt(m)
      BY ExactSplit DEF LifeInv
    <3>2. Kids(m)' = Kids(m)
      BY <1>1 DEF Kids
    <3>3. CASE m # n
      BY <1>1, <2>5, <2>7, <2>9, <3>1, <3>2, <3>3, ExactKept
    <3>4. CASE m = n
      <4>1. Cardinality(Kicks(m)') = Cardinality(Kicks(m)) + 1
        <5>1. Kicks(m) = {} /\ Kicks(m)' = {o} /\ IsFiniteSet({})
          BY <1>5, <2>9, <3>4, FS_EmptySet
        <5>2. {o} = {} \cup {o} /\ o \notin {}
          OBVIOUS
        <5>3. Cardinality({o}) = Cardinality({}) + 1
          BY <5>1, <5>2, OneMore
        <5> QED
          BY <5>1, <5>3
      <4>2. refs'[m] = refs[m] + 1 /\ life'[m] = "live" /\ life[m] = "live" /\ handle'[m] = handle[m]
        BY <1>1, <1>5, <2>5, <3>4
      <4>3. Owing(m)' = Owing(m) /\ (Active(m)' <=> Active(m))
        BY <2>7
      <4> QED
        BY <3>1, <3>2, <4>1, <4>2, <4>3, Counted DEF ExactAt
    <3> QED
      BY <3>3, <3>4
  <2> QED
    BY <2>7, <2>8, <2>10, <2>11, <2>12, <2>13, ExactSplitNext DEF LifeInv
<1> QED
  BY <1>1, <1>10, <1>11

\* processCancelKicks(): the kick's reference goes to the release after it.
LEMMA ProcessKickLife == ASSUME LifeInv, NEW w \in Workers, ProcessKick(w) PROVE LifeInv'
<1>0. w \in Threads
  BY DEF Threads
<1>1. /\ Quiet(w) /\ kick_q[w] # <<>>
      /\ kick_q' = [kick_q EXCEPT ![w] = Tail(@)]
      /\ kick_pending' = [kick_pending EXCEPT ![Head(kick_q[w])] = FALSE]
      /\ coro' = [coro EXCEPT ![Head(kick_q[w])] = IF @ = "parked" THEN "running" ELSE @]
      /\ Enter(w, <<Call("release", Head(kick_q[w]), "begin")>>)
      /\ UNCHANGED <<refs, life, requested, children, tree_lock, owner_tid, handle>>
  BY DEF ProcessKick, treevars
<1>2. TypeOK /\ Alive /\ Linked /\ Frames /\ Alone /\ Queued
  BY DEF LifeInv
<1>3. /\ kick_q \in [Workers -> Seq(Tasks)] /\ kick_pending \in [Nodes -> BOOLEAN]
      /\ coro \in [Nodes -> {"none", "queued", "running", "parked", "done"}]
  BY <1>2 DEF TypeOK
<1>4. PICK n : n = Head(kick_q[w])
  OBVIOUS
<1>5. /\ Tail(kick_q[w]) \in Seq(Tasks) /\ n \in InList(kick_q[w]) /\ n \in Tasks
      /\ InList(Tail(kick_q[w])) = InList(kick_q[w]) \ {n} /\ Distinct(Tail(kick_q[w]))
  <2>1. kick_q[w] \in Seq(Tasks) /\ Distinct(kick_q[w])
    BY <1>2, <1>3 DEF Queued
  <2> QED
    BY <1>1, <1>4, <2>1, QueueTail
<1>6. n \in Nodes /\ \A v \in Workers : n \in InList(kick_q[v]) => v = w
  BY <1>2, <1>5 DEF Queued, Nodes
<1>7. /\ kick_q' \in [Workers -> Seq(Tasks)] /\ kick_q'[w] = Tail(kick_q[w])
      /\ \A v \in Workers \ {w} : kick_q'[v] = kick_q[v]
  BY <1>1, <1>3, <1>5
<1>8. \A v \in Workers : InList(kick_q'[v]) = InList(kick_q[v]) \ {n}
  BY <1>5, <1>6, <1>7
<1>9. \A m \in Nodes : Kicks(m)' = IF m = n THEN {} ELSE Kicks(m)
  BY <1>8 DEF Kicks
<1>10. Kicks(n) = {w} /\ life[n] = "live"
  <2>1. Kicks(n) = {w}
    BY <1>5, <1>6 DEF Kicks
  <2> QED
    BY <1>2, <1>6, <2>1 DEF Alive
<1>11. /\ kick_pending' \in [Nodes -> BOOLEAN]
       /\ \A m \in Nodes \ {n} : kick_pending'[m] = kick_pending[m]
  BY <1>1, <1>3, <1>4, <1>6
<1>12. /\ coro' \in [Nodes -> {"none", "queued", "running", "parked", "done"}]
       /\ \A m \in Nodes : coro'[m] = coro[m] \/ (coro[m] = "parked" /\ coro'[m] = "running")
  BY <1>1, <1>3, <1>4, <1>6
<1>13. PICK c : c = Call("release", n, "begin")
  OBVIOUS
<1>14. c \in CallRecords /\ c.fn = "release" /\ c.n = n /\ c.at = "begin" /\ c.next = 1 /\ HasRef(c)
  BY <1>6, <1>13 DEF Call, CallRecords, Points, HasRef
<1>15. /\ stack' = [stack EXCEPT ![w] = <<c>>] /\ stack'[w] = <<c>>
       /\ \A y \in Threads \ {w} : stack'[y] = stack[y]
  BY <1>0, <1>1, <1>2, <1>4, <1>13, <1>14, EnterQuiet
<1>16. ASSUME NEW y \in Threads, NEW i \in 1..Len(stack[y]) PROVE Spared(y, i)
  <2>1. stack[y][i].n \in Nodes /\ Local(y, stack[y][i], i = Len(stack[y]))
    BY CallFacts
  <2>2. stack[y][i].at = "kick_ref" => stack[y][i].n # n /\ \A v \in Workers : stack[y][i].n \notin InList(kick_q[v])
    BY <1>10, <2>1 DEF Local, Kicks
  <2>3. stack[y][i].at = "kick_ref" =>
          /\ kick_pending'[stack[y][i].n] /\ owner_tid'[stack[y][i].n] \in Workers
          /\ \A v \in Workers : stack[y][i].n \notin InList(kick_q'[v])
    BY <1>1, <1>8, <1>11, <2>1, <2>2 DEF Local
  <2>4. /\ coro[stack[y][i].n] = "none" => coro'[stack[y][i].n] = "none"
        /\ coro[stack[y][i].n] = "queued" => coro'[stack[y][i].n] = "queued"
    BY <1>12, <2>1
  <2> QED
    BY <1>1, <2>1, <2>3, <2>4 DEF Local, Spared, BelongsTo
<1>17. Local(w, c, TRUE)'
  BY <1>1, <1>10, <1>14 DEF Local
<1>18. \A y \in Threads \ {w} : \A i \in 1..Len(stack[y]) : ~Exclude(c, stack[y][i])
  BY <1>14 DEF Exclude
<1>19. stack' \in [Threads -> Seq(CallRecords)] /\ Frames' /\ Alone'
  BY <1>0, <1>2, <1>14, <1>15, <1>16, <1>17, <1>18, OnlyFrames
<1>20. TypeOK'
  BY <1>1, <1>2, <1>7, <1>11, <1>12, <1>19 DEF TypeOK, CallRecords
<1>21. \A m \in Nodes : Active(m)' <=> Active(m)
  BY <1>12 DEF Active
<1>22. Alive'
  <2> SUFFICES ASSUME NEW m \in Nodes
               PROVE  /\ handle'[m] \/ Active(m)' \/ Kicks(m)' # {} => life'[m] = "live"
                      /\ life'[m] = "none" => coro'[m] = "none" /\ owner_tid'[m] = None
                      /\ coro'[m] \in {"running", "parked"} => owner_tid'[m] \in Workers
                      /\ Parent[m] # None /\ life'[m] = "live" => life'[Parent[m]] = "live"
    BY DEF Alive, Active, Kicks
  <2> QED
    BY <1>1, <1>2, <1>9, <1>12, <1>21 DEF Alive
<1>23. Queued'
  <2>1. \A v \in Workers : InList(kick_q[v]) \subseteq Nodes
    BY <1>3 DEF InList, Nodes
  <2> QED
    <3>1. \A v \in Workers : Distinct(kick_q'[v])
      BY <1>2, <1>5, <1>7 DEF Queued
    <3>2. owner_tid' = owner_tid
      BY <1>1
    <3>3. ASSUME NEW v \in Workers, NEW m \in InList(kick_q'[v]) PROVE kick_pending'[m] /\ owner_tid[m] = v
      BY <1>2, <1>8, <1>11, <2>1 DEF Queued
    <3> QED
      BY <3>1, <3>2, <3>3 DEF Queued
<1>24. Linked'
  BY <1>1, <1>2, LinkedKept
<1>25. ASSUME NEW m \in Nodes PROVE ExactAt(m)'
  <2>1. Kids(m)' = Kids(m)
    BY <1>1 DEF Kids
  <2>2. ExactAt(m) /\ ~Owes(w, m)
    BY <1>0, <1>1, ExactSplit, OwesNothing DEF LifeInv
  <2>3. CASE m # n
    <3>1. Owing(m)' = Owing(m)
      BY <1>0, <1>14, <1>15, <2>2, <2>3, OwesOneNext, OwesElsewhere
    <3> QED
      BY <1>1, <1>9, <1>21, <2>1, <2>2, <2>3, <3>1, ExactKept
  <2>4. CASE m = n
    <3>1. Cardinality(Owing(m)') = Cardinality(Owing(m)) + 1
      BY <1>0, <1>14, <1>15, <2>2, <2>4, OwesOneNext, OwesMore
    <3>2. Cardinality(Kicks(m)') = Cardinality(Kicks(m)) - 1
      BY <1>9, <1>10, <2>4, Counted, OneLess
    <3> QED
      BY <1>1, <1>21, <2>1, <2>2, <3>1, <3>2, Counted DEF ExactAt
  <2> QED
    BY <2>3, <2>4
<1> QED
  BY <1>19, <1>20, <1>22, <1>23, <1>24, <1>25, ExactSplitNext DEF LifeInv

(***************************************************************************)
(* spawn_under()                                                           *)
(***************************************************************************)

\* What link() does to counts, flags and lists; who links has the parent's handle
\* or runs its coroutine.
LEMMA Linking ==
  ASSUME LifeInv, NEW c \in Nodes, life[c] = "none", Link(c),
         Parent[c] # None => handle[Parent[c]] \/ Active(Parent[c])
  PROVE  /\ Parent[c] # c
         /\ Parent[c] # None => Parent[c] \in Nodes /\ tree_lock[Parent[c]] = None /\ life[Parent[c]] = "live"
         /\ refs' \in [Nodes -> Nat] /\ refs'[c] = 1
         /\ \A m \in Nodes \ {c} : refs'[m] = IF m = Parent[c] THEN refs[m] + 1 ELSE refs[m]
         /\ \A m \in Nodes : m = Parent[c] => refs[m] \in Nat \ {0}
         /\ requested' \in [Nodes -> BOOLEAN]
         /\ requested'[c] = requested[IF Parent[c] = None THEN c ELSE Parent[c]]
         /\ \A m \in Nodes \ {c} : requested'[m] = requested[m]
         /\ children' \in [Nodes -> Seq(Nodes)]
         /\ \A m \in Nodes : Distinct(children'[m]) /\ c \notin InList(children[m])
         /\ \A m \in Nodes :
              InList(children'[m]) = IF m = Parent[c] THEN InList(children[m]) \cup {c} ELSE InList(children[m])
         /\ \A m \in Nodes : m # Parent[c] => children'[m] = children[m]
         /\ InList(children[c]) = {}
<1>1. TypeOK /\ Alive /\ Linked /\ RefsAreExact
  BY DEF LifeInv
<1>2. /\ refs \in [Nodes -> Nat] /\ children \in [Nodes -> Seq(Nodes)]
      /\ requested \in [Nodes -> BOOLEAN]
  BY <1>1 DEF TypeOK
<1>3. None \notin Nodes /\ Parent[c] \in Nodes \cup {None}
  BY TreeAssumption
<1>4. InList(children[c]) = {}
  <2>1. ASSUME NEW e \in InList(children[c]) PROVE FALSE
    <3>1. e \in Nodes /\ Parent[e] = c /\ life[e] = "live"
      BY <1>1, <2>1 DEF Linked
    <3> QED
      BY <1>1, <1>3, <3>1 DEF Alive
  <2> QED
    BY <2>1
<1>5. \A m \in Nodes : Distinct(children[m]) /\ c \notin InList(children[m])
  BY <1>1 DEF Linked
<1>6. CASE Parent[c] = None
  <2>1. refs' = [refs EXCEPT ![c] = 1] /\ children' = children /\ requested' = requested
    BY <1>6 DEF Link
  <2>2. refs' \in [Nodes -> Nat] /\ refs'[c] = 1 /\ \A m \in Nodes \ {c} : refs'[m] = refs[m]
    BY <1>2, <2>1
  <2>3. \A m \in Nodes : m # Parent[c]
    BY <1>3, <1>6
  <2> QED
    BY <1>2, <1>3, <1>4, <1>5, <1>6, <2>1, <2>2, <2>3
<1>7. CASE Parent[c] # None
  <2>1. PICK p \in Nodes : p = Parent[c]
    BY <1>3, <1>7
  <2>2. /\ tree_lock[p] = None
        /\ refs' = [refs EXCEPT ![c] = 1, ![p] = @ + 1]
        /\ children' = [children EXCEPT ![p] = <<c>> \o @]
        /\ requested' = [requested EXCEPT ![c] = requested[p]]
    BY <1>7, <2>1 DEF Link
  <2>3. life[p] = "live" /\ refs[p] \in Nat \ {0} /\ p # c
    <3>1. handle[p] \/ Active(p)
      BY <1>7, <2>1
    <3>2. life[p] = "live"
      BY <1>1, <3>1 DEF Alive
    <3> QED
      BY <1>1, <3>1, <3>2, Referenced
  <2>4. /\ refs' \in [Nodes -> Nat] /\ refs'[c] = 1
        /\ \A m \in Nodes \ {c} : refs'[m] = IF m = p THEN refs[m] + 1 ELSE refs[m]
    <3>1. refs[p] + 1 \in Nat
      BY <2>3
    <3> QED
      BY <1>2, <2>2, <2>3, <3>1
  <2>5. /\ requested' \in [Nodes -> BOOLEAN] /\ requested'[c] = requested[p]
        /\ \A m \in Nodes \ {c} : requested'[m] = requested[m]
    BY <1>2, <2>2
  <2>6. children[p] \in Seq(Nodes) /\ Distinct(children[p]) /\ c \notin InList(children[p])
    BY <1>2, <1>5
  <2>7. PICK l : l = <<c>> \o children[p]
    OBVIOUS
  <2>8. l \in Seq(Nodes) /\ InList(l) = InList(children[p]) \cup {c}
    BY <2>6, <2>7, PushHead
  <2>9. Distinct(l)
    BY <2>6, <2>7, PushHeadDistinct
  <2>10. children' = [children EXCEPT ![p] = l]
    BY <2>2, <2>7
  <2>11. /\ children' \in [Nodes -> Seq(Nodes)] /\ children'[p] = l
         /\ \A m \in Nodes \ {p} : children'[m] = children[m]
    BY <1>2, <2>8, <2>10
  <2>12. \A m \in Nodes :
           /\ Distinct(children'[m])
           /\ InList(children'[m]) = IF m = p THEN InList(children[m]) \cup {c} ELSE InList(children[m])
           /\ m # p => children'[m] = children[m]
    BY <1>5, <2>8, <2>9, <2>11
  <2> QED
    BY <1>4, <1>5, <1>7, <2>1, <2>2, <2>3, <2>4, <2>5, <2>11, <2>12
<1> QED
  BY <1>6, <1>7

\* The parts of the invariant when a state is created and linked; who creates it
\* still has to say what refers to it.
LEMMA LinkingLife ==
  ASSUME LifeInv, NEW c \in Nodes, life[c] = "none", Link(c),
         Parent[c] # None => handle[Parent[c]] \/ Active(Parent[c]),
         life' = [life EXCEPT ![c] = "live"],
         owner_tid' \in [Nodes -> Workers \cup {None}],
         \A m \in Nodes \ {c} : owner_tid'[m] = owner_tid[m] /\ handle'[m] = handle[m],
         UNCHANGED <<tree_lock, kick_pending, kick_q, coro>>
  PROVE  /\ life' \in [Nodes -> {"none", "live", "freed"}] /\ life'[c] = "live"
         /\ Alive' /\ Linked' /\ Queued'
         /\ ~handle[c] /\ coro[c] = "none" /\ ~Active(c)'
         /\ Kids(c)' = {} /\ Kicks(c)' = {} /\ Owing(c) = {}
         /\ \A y \in Threads : \A i \in 1..Len(stack[y]) : Spared(y, i) /\ stack[y][i].n # c
         /\ \A m \in Nodes \ {c} : Owing(m)' = Owing(m) => ExactAt(m)'
<1>1. TypeOK /\ Alive /\ Linked /\ Frames /\ Queued
  BY DEF LifeInv
<1>2. PICK p : p = Parent[c]
  OBVIOUS
<1>3. /\ p # c /\ p \in Nodes \cup {None} /\ None \notin Nodes
      /\ p # None => life[p] = "live"
      /\ refs'[c] = 1
      /\ \A m \in Nodes \ {c} : refs'[m] = IF m = p THEN refs[m] + 1 ELSE refs[m]
      /\ \A m \in Nodes : m = p => refs[m] \in Nat \ {0}
      /\ \A m \in Nodes : Distinct(children'[m]) /\ c \notin InList(children[m])
      /\ \A m \in Nodes :
           InList(children'[m]) = IF m = p THEN InList(children[m]) \cup {c} ELSE InList(children[m])
  <2>1. /\ Parent[c] # c
        /\ Parent[c] # None => Parent[c] \in Nodes /\ life[Parent[c]] = "live"
        /\ refs'[c] = 1
        /\ \A m \in Nodes \ {c} : refs'[m] = IF m = Parent[c] THEN refs[m] + 1 ELSE refs[m]
        /\ \A m \in Nodes : m = Parent[c] => refs[m] \in Nat \ {0}
        /\ \A m \in Nodes : Distinct(children'[m]) /\ c \notin InList(children[m])
        /\ \A m \in Nodes :
             InList(children'[m]) = IF m = Parent[c] THEN InList(children[m]) \cup {c} ELSE InList(children[m])
    BY Linking
  <2>2. None \notin Nodes
    BY TreeAssumption
  <2> QED
    BY <1>2, <2>1, <2>2
<1>4. life \in [Nodes -> {"none", "live", "freed"}]
  BY <1>1 DEF TypeOK
<1>5. /\ life' \in [Nodes -> {"none", "live", "freed"}]
      /\ life'[c] = "live" /\ \A m \in Nodes \ {c} : life'[m] = life[m]
  BY <1>4
<1>6. ~handle[c] /\ ~Active(c) /\ Kicks(c) = {} /\ coro[c] = "none" /\ owner_tid[c] = None
  BY <1>1 DEF Alive
<1>7. /\ \A m \in Nodes : Kicks(m)' = Kicks(m) /\ (Active(m)' <=> Active(m)) /\ coro'[m] = coro[m]
      /\ \A m \in Nodes \ {c} : handle'[m] = handle[m]
  BY DEF Kicks, Active
<1>8. ASSUME NEW y \in Threads, NEW i \in 1..Len(stack[y])
      PROVE  Spared(y, i) /\ stack[y][i].n # c
  <2>1. PICK m \in Nodes : m = stack[y][i].n
    BY CallFacts
  <2>2. Local(y, stack[y][i], i = Len(stack[y])) /\ life[m] = "live"
    BY <2>1, CallFacts
  <2>3. m # c /\ life'[m] = "live" /\ owner_tid'[m] = owner_tid[m] /\ handle'[m] = handle[m]
    BY <1>5, <2>2
  <2>4. refs[m] = 0 => refs'[m] = 0
    BY <1>3, <2>3
  <2>5. InList(children[m]) \subseteq InList(children'[m])
    BY <1>3
  <2>6. Parent[m] # None => Parent[m] \in Nodes
    BY <2>1, TreeAssumption
  <2>7. Parent[m] # None /\ m \notin InList(children[Parent[m]]) => m \notin InList(children'[Parent[m]])
    BY <1>3, <2>3, <2>6
  <2>8. Holder[m] \in Tasks /\ owner_tid[Holder[m]] = y => owner_tid'[Holder[m]] = y
    <3>1. Holder[m] \in Tasks /\ owner_tid[Holder[m]] = y => Holder[m] \in Nodes \ {c}
      BY <1>6, TreeAssumption DEF Nodes
    <3> QED
      BY <3>1
  <2>9. Spared(y, i)
    BY <2>1, <2>2, <2>3, <2>4, <2>5, <2>7, <2>8 DEF Local, Spared, BelongsTo, Kicks
  <2> QED
    BY <2>1, <2>3, <2>9
<1>9. Alive'
  <2> SUFFICES ASSUME NEW m \in Nodes
               PROVE  /\ handle'[m] \/ Active(m)' \/ Kicks(m)' # {} => life'[m] = "live"
                      /\ life'[m] = "none" => coro'[m] = "none" /\ owner_tid'[m] = None
                      /\ coro'[m] \in {"running", "parked"} => owner_tid'[m] \in Workers
                      /\ Parent[m] # None /\ life'[m] = "live" => life'[Parent[m]] = "live"
    BY DEF Alive, Active, Kicks
  <2>1. CASE m = c
    BY <1>2, <1>3, <1>5, <1>6, <1>7, <2>1
  <2>2. CASE m # c
    <3>1. life'[m] = life[m] /\ owner_tid'[m] = owner_tid[m]
      BY <1>5, <2>2
    <3>2. Parent[m] # None => Parent[m] \in Nodes
      BY TreeAssumption
    <3>3. Parent[m] # None /\ life[m] = "live" => life'[Parent[m]] = "live"
      BY <1>1, <1>5, <3>2 DEF Alive
    <3> QED
      BY <1>1, <1>7, <2>2, <3>1, <3>3 DEF Alive
  <2> QED
    BY <2>1, <2>2
<1>10. Linked'
  <2> SUFFICES ASSUME NEW m \in Nodes, NEW e \in InList(children'[m])
               PROVE  e \in Nodes /\ Parent[e] = m /\ life'[e] = "live"
    BY <1>3 DEF Linked
  <2>1. CASE e = c
    <3>1. m = p
      BY <1>3, <2>1
    <3> QED
      BY <1>2, <1>5, <2>1, <3>1
  <2>2. CASE e # c
    <3>1. e \in InList(children[m])
      BY <1>3, <2>2
    <3>2. e \in Nodes /\ Parent[e] = m /\ life[e] = "live"
      BY <1>1, <3>1 DEF Linked
    <3> QED
      BY <1>5, <2>2, <3>2
  <2> QED
    BY <2>1, <2>2
<1>11. Queued'
  <2>1. \A w \in Workers : InList(kick_q[w]) \subseteq Nodes
    BY <1>1 DEF TypeOK, InList, Nodes
  <2>2. \A w \in Workers : c \notin InList(kick_q[w])
    BY <1>6 DEF Kicks
  <2>3. ASSUME NEW w \in Workers, NEW m \in InList(kick_q[w]) PROVE owner_tid'[m] = owner_tid[m]
    BY <2>1, <2>2
  <2>4. kick_q' = kick_q /\ kick_pending' = kick_pending
    OBVIOUS
  <2> QED
    BY <1>1, <2>3, <2>4 DEF Queued
<1>12. \A m \in Nodes : Kids(m)' = IF m = p THEN Kids(m) \cup {c} ELSE Kids(m)
  BY <1>2, <1>5 DEF Kids
<1>13. Kids(c) = {}
  <2>1. ASSUME NEW e \in Kids(c) PROVE FALSE
    BY <1>1, <1>3, <2>1 DEF Kids, Alive
  <2> QED
    BY <2>1
<1>14. Owing(c) = {}
  <2>1. ASSUME NEW y \in Owing(c) PROVE FALSE
    BY <1>8 DEF Owing, Owes, InList
  <2> QED
    BY <2>1
<1>15. ASSUME NEW m \in Nodes \ {c}, Owing(m)' = Owing(m) PROVE ExactAt(m)'
  <2>1. ExactAt(m) /\ life'[m] = life[m] /\ handle'[m] = handle[m]
    BY <1>5, <1>7, ExactSplit DEF LifeInv
  <2>2. CASE m = p
    <3>1. c \notin Kids(m)
      BY DEF Kids
    <3>2. Cardinality(Kids(m)') = Cardinality(Kids(m)) + 1
      BY <1>12, <2>2, <3>1, Counted, OneMore
    <3>3. refs'[m] = refs[m] + 1
      BY <1>3, <2>2
    <3> QED
      BY <1>7, <1>15, <2>1, <3>2, <3>3, Counted DEF ExactAt
  <2>3. CASE m # p
    <3>1. refs'[m] = refs[m] /\ Kids(m)' = Kids(m)
      BY <1>3, <1>12, <2>3
    <3> QED
      BY <1>7, <1>15, <2>1, <3>1, ExactKept
  <2> QED
    BY <2>2, <2>3
<1>16. Kids(c)' = {} /\ Kicks(c)' = {} /\ ~Active(c)'
  BY <1>3, <1>6, <1>7, <1>12, <1>13
<1> QED
  BY <1>5, <1>6, <1>8, <1>9, <1>10, <1>11, <1>14, <1>15, <1>16

\* Who may spawn a task under its parent has a reference to the parent.
LEMMA SpawnParent ==
  ASSUME NEW x \in Threads, NEW c \in Tasks, MaySpawn(x, c), Parent[c] # None
  PROVE  handle[Parent[c]] \/ Active(Parent[c])
<1>1. CASE Parent[c] \in Scopes /\ Holds(x, Parent[c])
  BY <1>1 DEF Holds
<1>2. CASE Parent[c] \in Tasks /\ Runs(x, Parent[c])
  <2>1. Parent[c] # x
    BY <1>2, TreeAssumption DEF Nodes
  <2> QED
    BY <1>2, <2>1 DEF Runs, Active
<1> QED
  BY <1>1, <1>2 DEF MaySpawn

\* The new state of a task, linked under its parent.
LEMMA SpawnLinkLife ==
  ASSUME LifeInv, NEW x \in Threads, NEW c \in Tasks, NEW tid \in Workers \cup {None}, SpawnLink(x, c, tid)
  PROVE  LifeInv'
<1>1. /\ Quiet(x) /\ life[c] = "none" /\ Link(c) /\ c \in Nodes
      /\ life' = [life EXCEPT ![c] = "live"]
      /\ owner_tid' = [owner_tid EXCEPT ![c] = tid]
      /\ Enter(x, <<Call("spawn", c, "begin")>>)
      /\ UNCHANGED <<tree_lock, kick_pending, kick_q, coro, handle>>
  BY DEF SpawnLink, Nodes
<1>2. Parent[c] # None => handle[Parent[c]] \/ Active(Parent[c])
  BY SpawnParent DEF SpawnLink
<1>3. TypeOK /\ Frames /\ Alone
  BY DEF LifeInv
<1>4. owner_tid \in [Nodes -> Workers \cup {None}]
  BY <1>3 DEF TypeOK
<1>5. /\ owner_tid' \in [Nodes -> Workers \cup {None}]
      /\ \A m \in Nodes \ {c} : owner_tid'[m] = owner_tid[m] /\ handle'[m] = handle[m]
  BY <1>1, <1>4
<1>6. /\ life' \in [Nodes -> {"none", "live", "freed"}] /\ life'[c] = "live"
      /\ Alive' /\ Linked' /\ Queued'
      /\ ~handle[c] /\ coro[c] = "none" /\ ~Active(c)'
      /\ Kids(c)' = {} /\ Kicks(c)' = {} /\ Owing(c) = {}
      /\ \A y \in Threads : \A i \in 1..Len(stack[y]) : Spared(y, i) /\ stack[y][i].n # c
      /\ \A m \in Nodes \ {c} : Owing(m)' = Owing(m) => ExactAt(m)'
  BY <1>1, <1>2, <1>5, LinkingLife
<1>7. /\ refs' \in [Nodes -> Nat] /\ refs'[c] = 1 /\ requested' \in [Nodes -> BOOLEAN]
      /\ children' \in [Nodes -> Seq(Nodes)]
  BY <1>1, <1>2, Linking
<1>8. PICK d : d = Call("spawn", c, "begin")
  OBVIOUS
<1>9. d \in CallRecords /\ d.fn = "spawn" /\ d.n = c /\ d.at = "begin" /\ d.next = 1 /\ HasRef(d)
  BY <1>1, <1>8 DEF Call, CallRecords, Points, HasRef
<1>10. /\ stack' = [stack EXCEPT ![x] = <<d>>] /\ stack'[x] = <<d>>
       /\ \A y \in Threads \ {x} : stack'[y] = stack[y]
  BY <1>1, <1>3, <1>8, <1>9, EnterQuiet
<1>11. Local(x, d, TRUE)'
  BY <1>1, <1>6, <1>9 DEF Local
<1>12. \A y \in Threads : \A i \in 1..Len(stack[y]) : ~Exclude(d, stack[y][i])
  BY <1>6, <1>9 DEF Exclude
<1>13. stack' \in [Threads -> Seq(CallRecords)] /\ Frames' /\ Alone'
  BY <1>3, <1>6, <1>9, <1>10, <1>11, <1>12, OnlyFrames
<1>14. TypeOK'
  BY <1>1, <1>3, <1>5, <1>6, <1>7, <1>13 DEF TypeOK, CallRecords
<1>15. ASSUME NEW m \in Nodes PROVE ExactAt(m)'
  <2>1. ~Owes(x, m)
    BY <1>1, OwesNothing
  <2>2. CASE m = c
    <3>1. Cardinality(Owing(m)') = Cardinality(Owing(m)) + 1
      BY <1>9, <1>10, <2>1, <2>2, OwesOneNext, OwesMore
    <3>2. Cardinality({}) = 0
      BY FS_EmptySet
    <3>3. /\ Owing(m) = {} /\ Kids(m)' = {} /\ Kicks(m)' = {}
          /\ refs'[m] = 1 /\ ~handle'[m] /\ ~Active(m)'
      BY <1>1, <1>6, <1>7, <2>2
    <3>4. Cardinality(Owing(m)') = 1
      BY <3>1, <3>2, <3>3
    <3> QED
      BY <3>2, <3>3, <3>4 DEF ExactAt
  <2>3. CASE m # c
    <3>1. Owing(m)' = Owing(m)
      BY <1>9, <1>10, <2>1, <2>3, OwesOneNext, OwesElsewhere
    <3> QED
      BY <1>6, <2>3, <3>1
  <2> QED
    BY <2>2, <2>3
<1> QED
  BY <1>6, <1>13, <1>14, <1>15, ExactSplitNext DEF LifeInv

\* Who may open a scope under its parent has a reference to the parent.
LEMMA ScopeParent ==
  ASSUME NEW x \in Threads, NEW s \in Scopes, NewScope(x, s), Parent[s] # None
  PROVE  handle[Parent[s]] \/ Active(Parent[s])
<1>1. CASE Parent[s] = Holder[s]
  <2>1. Parent[s] \in Nodes /\ Parent[s] # x
    BY TreeAssumption DEF Nodes
  <2> QED
    BY <1>1, <2>1 DEF NewScope, Runs, Active
<1>2. CASE Parent[s] \in Nodes /\ handle[Parent[s]]
  BY <1>2
<1> QED
  BY <1>1, <1>2 DEF NewScope

\* A scope is opened: its only reference is its handle.
LEMMA NewScopeLife ==
  ASSUME LifeInv, NEW x \in Threads, NEW s \in Scopes, NewScope(x, s)
  PROVE  LifeInv'
<1>1. /\ Quiet(x) /\ life[s] = "none" /\ Link(s) /\ s \in Nodes
      /\ life' = [life EXCEPT ![s] = "live"]
      /\ handle' = [handle EXCEPT ![s] = TRUE]
      /\ UNCHANGED <<tree_lock, owner_tid, kick_pending, kick_q, coro, stack>>
  BY DEF NewScope, Nodes, kickvars
<1>2. Parent[s] # None => handle[Parent[s]] \/ Active(Parent[s])
  BY ScopeParent
<1>3. TypeOK /\ Frames /\ Alone
  BY DEF LifeInv
<1>4. owner_tid \in [Nodes -> Workers \cup {None}] /\ handle \in [Nodes -> BOOLEAN]
  BY <1>3 DEF TypeOK
<1>5. /\ owner_tid' \in [Nodes -> Workers \cup {None}]
      /\ handle' \in [Nodes -> BOOLEAN] /\ handle'[s]
      /\ \A m \in Nodes \ {s} : owner_tid'[m] = owner_tid[m] /\ handle'[m] = handle[m]
  BY <1>1, <1>4
<1>6. /\ life' \in [Nodes -> {"none", "live", "freed"}]
      /\ Alive' /\ Linked' /\ Queued' /\ ~Active(s)'
      /\ Kids(s)' = {} /\ Kicks(s)' = {} /\ Owing(s) = {}
      /\ \A y \in Threads : \A i \in 1..Len(stack[y]) : Spared(y, i)
      /\ \A m \in Nodes \ {s} : Owing(m)' = Owing(m) => ExactAt(m)'
  BY <1>1, <1>2, <1>5, LinkingLife
<1>7. /\ refs' \in [Nodes -> Nat] /\ refs'[s] = 1 /\ requested' \in [Nodes -> BOOLEAN]
      /\ children' \in [Nodes -> Seq(Nodes)]
  BY <1>1, <1>2, Linking
<1>8. Frames' /\ Alone'
  BY <1>1, <1>3, <1>6, SameFrames
<1>9. TypeOK'
  BY <1>1, <1>3, <1>5, <1>6, <1>7 DEF TypeOK
<1>10. \A m \in Nodes : Owing(m)' = Owing(m)
  BY <1>1 DEF Owing, Owes
<1>11. ExactAt(s)'
  <2>1. Cardinality({}) = 0
    BY FS_EmptySet
  <2>2. Owing(s)' = {}
    BY <1>1, <1>6, <1>10
  <2> QED
    BY <1>5, <1>6, <1>7, <2>1, <2>2 DEF ExactAt
<1>12. \A m \in Nodes : ExactAt(m)'
  BY <1>6, <1>10, <1>11
<1> QED
  BY <1>6, <1>8, <1>9, <1>12, ExactSplitNext DEF LifeInv

\* The coroutine is enqueued and the handle returned: the first reference goes to
\* the handle, a new one to the coroutine.
LEMMA SpawnPublishLife == ASSUME LifeInv, NEW x \in Threads, SpawnPublish(x) PROVE LifeInv'
<1>0. PICK kept : kept = (Holder[Top(x)] \in Threads \/ Active(Holder[Top(x)]))
  OBVIOUS
<1>1. /\ ~Quiet(x) /\ Head(stack[x]).fn = "spawn"
      /\ refs' = [refs EXCEPT ![Top(x)] = @ + 1]
      /\ coro' = [coro EXCEPT ![Top(x)] = IF owner_tid[Top(x)] = None THEN "queued" ELSE "running"]
      /\ handle' = [handle EXCEPT ![Top(x)] = kept]
      /\ IF kept THEN Return(x) ELSE Replace(x, Call("release", Top(x), "begin"))
      /\ UNCHANGED <<life, requested, children, tree_lock, owner_tid, kick_pending, kick_q>>
  BY <1>0 DEF SpawnPublish, At, treevars, kickvars
<1>2. TypeOK /\ Alive /\ Linked /\ Frames /\ Alone /\ Queued
  BY DEF LifeInv
<1>3. /\ Head(stack[x]) = stack[x][1] /\ Top(x) = stack[x][1].n /\ Top(x) \in Nodes
      /\ 1 \in 1..Len(stack[x]) /\ Local(x, stack[x][1], 1 = Len(stack[x]))
  BY <1>1, <1>2, TopFacts
<1>4. PICK c \in Nodes : c = Top(x)
  BY <1>3
<1>5. stack[x] = <<stack[x][1]>> /\ Len(stack[x]) = 1
  BY <1>1, <1>2, <1>3, OnlyCall
<1>6. HasRef(stack[x][1]) /\ stack[x][1].n = c /\ stack[x][1].fn = "spawn"
  BY <1>1, <1>3, <1>4 DEF HasRef
<1>7. /\ life[c] = "live" /\ coro[c] = "none" /\ ~handle[c] /\ c \in Tasks
      /\ refs[c] \in Nat \ {0}
  <2>1. life[c] = "live" /\ coro[c] = "none" /\ ~handle[c] /\ c \in Tasks
    BY <1>3, <1>6 DEF Local
  <2> QED
    BY <1>3, <1>6, <2>1, CallFacts
<1>8. /\ refs \in [Nodes -> Nat] /\ handle \in [Nodes -> BOOLEAN]
      /\ coro \in [Nodes -> {"none", "queued", "running", "parked", "done"}]
      /\ owner_tid \in [Nodes -> Workers \cup {None}]
  BY <1>2 DEF TypeOK
<1>9. /\ refs' \in [Nodes -> Nat] /\ refs'[c] = refs[c] + 1
      /\ \A m \in Nodes \ {c} : refs'[m] = refs[m]
  BY <1>1, <1>4, <1>8
<1>10. /\ coro' \in [Nodes -> {"none", "queued", "running", "parked", "done"}]
       /\ coro'[c] \in {"queued", "running"} /\ (coro'[c] = "running" => owner_tid[c] \in Workers)
       /\ \A m \in Nodes \ {c} : coro'[m] = coro[m]
  BY <1>1, <1>4, <1>8
<1>11. /\ handle' \in [Nodes -> BOOLEAN] /\ handle'[c] = kept
       /\ \A m \in Nodes \ {c} : handle'[m] = handle[m]
  BY <1>0, <1>1, <1>4, <1>8
<1>12. ASSUME NEW y \in Threads, NEW i \in 1..Len(stack[y]), ~(y = x /\ i = 1) PROVE Spared(y, i)
  <2>1. PICK m \in Nodes : m = stack[y][i].n
    BY CallFacts
  <2>2. Local(y, stack[y][i], i = Len(stack[y]))
    BY CallFacts
  <2>3. CASE m # c
    <3>1. refs'[m] = refs[m] /\ coro'[m] = coro[m] /\ handle'[m] = handle[m]
      BY <1>9, <1>10, <1>11, <2>3
    <3> QED
      BY <1>1, <2>1, <2>2, <3>1 DEF Local, Spared, BelongsTo, Kicks
  <2>4. CASE m = c
    <3>1. stack[y][i].fn # "spawn"
      <4>1. stack[y][i].fn = "spawn" => Exclude(stack[x][1], stack[y][i])
        BY <1>6, <2>1, <2>4 DEF Exclude
      <4> QED
        BY <1>2, <1>3, <1>12, <4>1 DEF Alone
    <3>2. stack[y][i].fn # "adopt" /\ ~(stack[y][i].fn = "release" /\ stack[y][i].at # "begin")
      BY <1>7, <2>1, <2>2, <2>4 DEF Local
    <3> QED
      BY <1>1, <1>7, <1>11, <2>1, <2>2, <2>4, <3>1, <3>2 DEF Local, Spared, BelongsTo, Kicks
  <2> QED
    BY <2>3, <2>4
<1>13. /\ Frames' /\ Alone' /\ stack' \in [Threads -> Seq(CallRecords)]
       /\ \A y \in Threads \ {x} : stack'[y] = stack[y]
       /\ \A m \in Nodes : Owes(x, m)' <=> ~kept /\ m = c
  <2>1. CASE kept
    <3>1. /\ Frames' /\ Alone' /\ stack' \in [Threads -> Seq(CallRecords)]
          /\ \A y \in Threads \ {x} : stack'[y] = stack[y]
          /\ Len(stack'[x]) = Len(stack[x]) - 1
      BY <1>1, <1>2, <1>12, <2>1, ReturnFrames, ReturnEffect
    <3>2. Len(stack'[x]) = 0
      BY <1>5, <3>1
    <3>3. InList(stack'[x]) = {}
      BY <3>2 DEF InList
    <3> QED
      BY <2>1, <3>1, <3>3 DEF Owes
  <2>2. CASE ~kept
    <3>1. PICK d : d = Call("release", c, "begin")
      OBVIOUS
    <3>2. d \in CallRecords /\ d.fn = "release" /\ d.n = c /\ d.at = "begin" /\ d.next = 1 /\ HasRef(d)
      BY <3>1 DEF Call, CallRecords, Points, HasRef
    <3>3. stack \in [Threads -> Seq(CallRecords)]
      BY <1>2 DEF TypeOK, CallRecords
    <3>4. <<d>> \o Tail(stack[x]) = <<d>>
      BY <1>5, <3>2, <3>3, OverOne
    <3>5. stack' = [stack EXCEPT ![x] = <<d>>]
      BY <1>1, <1>4, <2>2, <3>1, <3>4 DEF Replace
    <3>6. Local(x, d, TRUE)'
      BY <1>1, <1>7, <3>2 DEF Local
    <3>7. /\ \A y \in Threads \ {x} : \A i \in 1..Len(stack[y]) : Spared(y, i)
          /\ \A y \in Threads \ {x} : \A i \in 1..Len(stack[y]) : ~Exclude(d, stack[y][i])
      <4>1. \A y \in Threads \ {x} : \A i \in 1..Len(stack[y]) : Spared(y, i)
        BY <1>12
      <4>2. \A y \in Threads \ {x} : \A i \in 1..Len(stack[y]) : ~Exclude(d, stack[y][i])
        BY <3>2 DEF Exclude
      <4> QED
        BY <4>1, <4>2
    <3>8. /\ Frames' /\ Alone' /\ stack' \in [Threads -> Seq(CallRecords)]
      BY <1>2, <3>2, <3>5, <3>6, <3>7, OnlyFrames
    <3>9. stack'[x] = <<d>> /\ \A y \in Threads \ {x} : stack'[y] = stack[y]
      BY <3>3, <3>5
    <3> QED
      BY <2>2, <3>2, <3>8, <3>9, OwesOneNext
  <2> QED
    BY <2>1, <2>2
<1>14. TypeOK'
  BY <1>1, <1>2, <1>9, <1>10, <1>11, <1>13 DEF TypeOK, CallRecords
<1>15. Alive'
  <2> SUFFICES ASSUME NEW m \in Nodes
               PROVE  /\ handle'[m] \/ Active(m)' \/ Kicks(m)' # {} => life'[m] = "live"
                      /\ life'[m] = "none" => coro'[m] = "none" /\ owner_tid'[m] = None
                      /\ coro'[m] \in {"running", "parked"} => owner_tid'[m] \in Workers
                      /\ Parent[m] # None /\ life'[m] = "live" => life'[Parent[m]] = "live"
    BY DEF Alive, Active, Kicks
  <2>1. Kicks(m)' = Kicks(m) /\ life' = life /\ owner_tid' = owner_tid
    BY <1>1 DEF Kicks
  <2>2. CASE m = c
    BY <1>2, <1>7, <1>10, <1>11, <2>1, <2>2 DEF Alive
  <2>3. CASE m # c
    BY <1>2, <1>10, <1>11, <2>1, <2>3 DEF Alive, Active
  <2> QED
    BY <2>2, <2>3
<1>16. Linked' /\ Queued'
  BY <1>1, <1>2, LinkedKept, QueuedKept
<1>17. \A m \in Nodes : Owes(x, m) <=> m = c
  BY <1>5, <1>6, OwesOne
<1>18. ASSUME NEW m \in Nodes PROVE ExactAt(m)'
  <2>1. Kids(m)' = Kids(m) /\ Kicks(m)' = Kicks(m) /\ life'[m] = life[m]
    BY <1>1 DEF Kids, Kicks
  <2>2. ExactAt(m)
    BY ExactSplit DEF LifeInv
  <2>3. CASE m # c
    <3>1. ~Owes(x, m) /\ ~Owes(x, m)'
      BY <1>13, <1>17, <2>3
    <3>2. Owing(m)' = Owing(m)
      BY <1>13, <3>1, OwesElsewhere
    <3> QED
      BY <1>9, <1>10, <1>11, <2>1, <2>2, <2>3, <3>2, ExactKept DEF Active
  <2>4. CASE m = c
    <3>1. Owes(x, m) /\ (Owes(x, m)' <=> ~kept) /\ (kept \in BOOLEAN)
      BY <1>0, <1>13, <1>17, <2>4
    <3>2. Active(m)' /\ ~Active(m) /\ handle'[m] = kept /\ ~handle[m] /\ refs'[m] = refs[m] + 1
      BY <1>7, <1>9, <1>10, <1>11, <2>4 DEF Active
    <3>3. CASE kept
      <4>1. Cardinality(Owing(m)') = Cardinality(Owing(m)) - 1
        BY <1>13, <3>1, <3>3, OwesLess
      <4> QED
        <5>1. handle'[m] /\ life[m] = "live"
          BY <1>7, <2>4, <3>2, <3>3
        <5> QED
          BY <2>1, <2>2, <3>2, <4>1, <5>1, Counted DEF ExactAt
    <3>4. CASE ~kept
      <4>1. Owing(m)' = Owing(m)
        <5>1. ASSUME NEW y \in Threads \ {x} PROVE Owes(y, m)' <=> Owes(y, m)
          BY <1>13 DEF Owes
        <5>2. Owes(x, m)' <=> Owes(x, m)
          BY <3>1, <3>4
        <5> QED
          BY <5>1, <5>2 DEF Owing
      <4> QED
        <5>1. ~handle'[m] /\ life[m] = "live"
          BY <1>7, <2>4, <3>2, <3>4
        <5> QED
          BY <2>1, <2>2, <3>2, <4>1, <5>1, Counted DEF ExactAt
    <3> QED
      BY <3>1, <3>3, <3>4
  <2> QED
    BY <2>3, <2>4
<1> QED
  BY <1>13, <1>14, <1>15, <1>16, <1>18, ExactSplitNext DEF LifeInv

(***************************************************************************)
(* release()                                                               *)
(***************************************************************************)

\* The code of one holder belongs to one thread.
LEMMA OneThread ==
  ASSUME NEW x \in Threads, NEW y \in Threads, NEW h, BelongsTo(x, h), BelongsTo(y, h)
  PROVE  x = y
BY TreeAssumption DEF BelongsTo, Nodes

\* The handle's reference goes to the release.
LEMMA DropHandleLife ==
  ASSUME LifeInv, NEW x \in Threads, NEW n \in Nodes, DropHandle(x, n)
  PROVE  LifeInv'
<1>0. x \in Threads
  OBVIOUS
<1>1. /\ Quiet(x) /\ BelongsTo(x, Holder[n]) /\ handle[n]
      /\ handle' = [handle EXCEPT ![n] = FALSE]
      /\ Enter(x, IF n \in Scopes THEN <<Call("cancel", n, "begin"), Call("release", n, "begin")>>
                                  ELSE <<Call("release", n, "begin")>>)
      /\ UNCHANGED <<refs, life, requested, children, tree_lock, owner_tid, kick_pending, kick_q, coro>>
  BY DEF DropHandle, Holds, Runs, BelongsTo, treevars, kickvars
<1>2. TypeOK /\ Alive /\ Linked /\ Frames /\ Alone /\ Queued
  BY DEF LifeInv
<1>3. handle \in [Nodes -> BOOLEAN] /\ life[n] = "live"
  BY <1>1, <1>2 DEF TypeOK, Alive
<1>4. /\ handle' \in [Nodes -> BOOLEAN] /\ ~handle'[n]
      /\ \A m \in Nodes \ {n} : handle'[m] = handle[m]
  BY <1>1, <1>3
<1>5. Len(stack[x]) = 0
  BY <1>1 DEF Quiet
<1>6. ASSUME NEW y \in Threads, NEW i \in 1..Len(stack[y]) PROVE Spared(y, i)
  <2>1. PICK m \in Nodes : m = stack[y][i].n
    BY CallFacts
  <2>a. y # x
    BY <1>5
  <2>2. Local(y, stack[y][i], i = Len(stack[y])) /\ y # x
    BY <2>a, CallFacts
  <2>3. stack[y][i].fn = "cancel" /\ i = Len(stack[y]) => m # n
    <3>1. stack[y][i].fn = "cancel" /\ i = Len(stack[y]) => BelongsTo(y, Holder[m])
      BY <2>1, <2>2 DEF Local
    <3> QED
      BY <1>1, <2>a, <3>1, OneThread
  <2>4. handle'[m] => handle[m]
    BY <1>4
  <2>5. handle[m] /\ m # n => handle'[m]
    BY <1>4
  <2> QED
    BY <1>1, <2>1, <2>2, <2>3, <2>4, <2>5 DEF Local, Spared, BelongsTo, Kicks
<1>7. PICK c : c = Call("release", n, "begin")
  OBVIOUS
<1>8. c \in CallRecords /\ c.fn = "release" /\ c.n = n /\ c.at = "begin" /\ c.next = 1 /\ HasRef(c)
  BY <1>7 DEF Call, CallRecords, Points, HasRef
<1>9. /\ stack' \in [Threads -> Seq(CallRecords)] /\ Frames' /\ Alone'
      /\ \A y \in Threads \ {x} : stack'[y] = stack[y]
      /\ \A m \in Nodes : Owes(x, m)' <=> m = n
  <2>1. CASE n \in Scopes
    <3>1. PICK a : a = Call("cancel", n, "begin")
      OBVIOUS
    <3>2. ~HasRef(a)
      BY <3>1 DEF Call, HasRef
    <3>3. stack \in [Threads -> Seq(CallRecords)]
      BY <1>2 DEF TypeOK, CallRecords
    <3>4. <<a, c>> \o stack[x] = <<a, c>>
      BY <1>1 DEF Quiet
    <3>5. stack' = [stack EXCEPT ![x] = <<a, c>>]
      BY <1>1, <1>7, <2>1, <3>1, <3>4 DEF Enter
    <3>6. stack' \in [Threads -> Seq(CallRecords)] /\ Frames' /\ Alone'
      <4>1. stack' = [stack EXCEPT ![x] = <<Call("cancel", n, "begin"), Call("release", n, "begin")>>]
        BY <1>7, <3>1, <3>5
      <4>2. life'[n] = "live"
        BY <1>1, <1>3
      <4> QED
        BY <1>0, <1>2, <1>6, <4>1, <4>2, BothFrames
    <3>7. stack'[x] = <<a, c>> /\ \A y \in Threads \ {x} : stack'[y] = stack[y]
      BY <1>0, <3>3, <3>5
    <3>8. ASSUME NEW m \in Nodes PROVE Owes(x, m)' <=> m = n
      <4>1. InList(stack'[x]) = {a, c}
        BY <3>7 DEF InList
      <4>2. Owes(x, m)' <=> \E call \in InList(stack'[x]) : call.n = m /\ HasRef(call)
        BY DEF Owes, HasRef
      <4> QED
        BY <1>8, <3>2, <4>1, <4>2
    <3> QED
      BY <3>6, <3>7, <3>8
  <2>2. CASE n \notin Scopes
    <3>1. Enter(x, <<c>>)
      BY <1>1, <1>7, <2>2
    <3>2. /\ stack' = [stack EXCEPT ![x] = <<c>>] /\ stack'[x] = <<c>>
          /\ \A y \in Threads \ {x} : stack'[y] = stack[y]
      BY <1>0, <1>1, <1>2, <1>8, <3>1, EnterQuiet
    <3>3. Local(x, c, TRUE)'
      BY <1>1, <1>3, <1>8 DEF Local
    <3>4. \A y \in Threads \ {x} : \A i \in 1..Len(stack[y]) : ~Exclude(c, stack[y][i])
      BY <1>8 DEF Exclude
    <3>5. stack' \in [Threads -> Seq(CallRecords)] /\ Frames' /\ Alone'
      BY <1>0, <1>2, <1>6, <1>8, <3>2, <3>3, <3>4, OnlyFrames
    <3>6. \A m \in Nodes : Owes(x, m)' <=> m = n
      BY <1>0, <1>8, <3>2, OwesOneNext
    <3> QED
      BY <3>2, <3>5, <3>6
  <2> QED
    BY <2>1, <2>2
<1>10. TypeOK'
  BY <1>1, <1>2, <1>4, <1>9 DEF TypeOK, CallRecords
<1>11. Alive'
  BY <1>1, <1>2, <1>4 DEF Alive, Active, Kicks
<1>12. Linked' /\ Queued'
  BY <1>1, <1>2, LinkedKept, QueuedKept
<1>13. ASSUME NEW m \in Nodes PROVE ExactAt(m)'
  <2>1. /\ Kids(m)' = Kids(m) /\ Kicks(m)' = Kicks(m) /\ (Active(m)' <=> Active(m))
        /\ life'[m] = life[m] /\ refs'[m] = refs[m]
    BY <1>1 DEF Kids, Kicks, Active
  <2>2. ExactAt(m) /\ ~Owes(x, m)
    BY <1>0, <1>1, ExactSplit, OwesNothing DEF LifeInv
  <2>3. CASE m # n
    <3>1. Owing(m)' = Owing(m)
      BY <1>0, <1>9, <2>2, <2>3, OwesElsewhere
    <3> QED
      BY <1>4, <2>1, <2>2, <2>3, <3>1, ExactKept
  <2>4. CASE m = n
    <3>1. Cardinality(Owing(m)') = Cardinality(Owing(m)) + 1
      BY <1>0, <1>9, <2>2, <2>4, OwesMore
    <3>2. handle[m] /\ ~handle'[m]
      BY <1>1, <1>4, <2>4
    <3> QED
      BY <2>1, <2>2, <3>1, <3>2, Counted DEF ExactAt
  <2> QED
    BY <2>3, <2>4
<1> QED
  BY <1>9, <1>10, <1>11, <1>12, <1>13, ExactSplitNext DEF LifeInv

\* A reference is dropped; the last one makes its owner delete the state.
LEMMA ReleaseDecLife == ASSUME LifeInv, NEW x \in Threads, ReleaseDec(x) PROVE LifeInv'
<1>1. /\ ~Quiet(x) /\ Head(stack[x]).fn = "release" /\ Head(stack[x]).at = "begin"
      /\ refs' = [refs EXCEPT ![Top(x)] = @ - 1]
      /\ \/ refs[Top(x)] # 1 /\ Return(x)
         \/ refs[Top(x)] = 1 /\ Goto(x, IF Parent[Top(x)] = None THEN "delete" ELSE "unlink")
      /\ UNCHANGED <<life, requested, children, tree_lock, owner_tid, kick_pending, kick_q, coro, handle>>
  BY DEF ReleaseDec, At, treevars, kickvars
<1>2. TypeOK /\ Alive /\ Linked /\ Frames /\ Alone /\ Queued
  BY DEF LifeInv
<1>3. /\ Head(stack[x]) = stack[x][1] /\ Top(x) = stack[x][1].n /\ Top(x) \in Nodes
      /\ 1 \in 1..Len(stack[x]) /\ Local(x, stack[x][1], 1 = Len(stack[x]))
  BY <1>1, <1>2, TopFacts
<1>4. PICK n \in Nodes : n = Top(x)
  BY <1>3
<1>5. stack[x] = <<stack[x][1]>> /\ Len(stack[x]) = 1 /\ stack[x][1] \in CallRecords
  BY <1>1, <1>2, <1>3, OnlyCall
<1>6. /\ HasRef(stack[x][1]) /\ stack[x][1].n = n
      /\ stack[x][1].fn = "release" /\ stack[x][1].at = "begin"
  BY <1>1, <1>3, <1>4 DEF HasRef
<1>7. life[n] = "live" /\ refs[n] \in Nat \ {0}
  BY <1>3, <1>6, CallFacts
<1>8. refs \in [Nodes -> Nat]
  BY <1>2 DEF TypeOK
<1>9. /\ refs' \in [Nodes -> Nat] /\ refs'[n] = refs[n] - 1
      /\ \A m \in Nodes \ {n} : refs'[m] = refs[m]
  <2>1. refs[n] - 1 \in Nat /\ refs' = [refs EXCEPT ![n] = refs[n] - 1]
    BY <1>1, <1>4, <1>7
  <2> QED
    BY <1>8, <2>1
<1>10. ASSUME NEW y \in Threads, NEW i \in 1..Len(stack[y])
       PROVE  /\ Spared(y, i)
              /\ stack[y][i].at \in {"unlink", "delete"} => stack[y][i].n # n
  <2>1. PICK m \in Nodes : m = stack[y][i].n
    BY CallFacts
  <2>2. Local(y, stack[y][i], i = Len(stack[y])) /\ stack[y][i] \in CallRecords
    BY CallFacts
  <2>3. stack[y][i].at \in {"unlink", "delete"} => stack[y][i].fn = "release"
    BY <2>2 DEF Local, CallRecords
  <2>4. stack[y][i].fn = "release" /\ stack[y][i].at # "begin" => m # n
    BY <1>7, <2>1, <2>2 DEF Local
  <2>5. m # n => refs'[m] = refs[m]
    BY <1>9
  <2>6. Spared(y, i)
    BY <1>1, <2>1, <2>2, <2>4, <2>5 DEF Local, Spared, BelongsTo, Kicks
  <2> QED
    BY <2>1, <2>3, <2>4, <2>6
<1>11. /\ Frames' /\ Alone' /\ stack' \in [Threads -> Seq(CallRecords)]
       /\ \A y \in Threads \ {x} : stack'[y] = stack[y]
       /\ \A m \in Nodes : ~Owes(x, m)'
  <2>1. CASE refs[Top(x)] # 1 /\ Return(x)
    <3>1. /\ Frames' /\ Alone' /\ stack' \in [Threads -> Seq(CallRecords)]
          /\ \A y \in Threads \ {x} : stack'[y] = stack[y]
      BY <1>1, <1>2, <1>10, <2>1, ReturnFrames, ReturnEffect
    <3>2. InList(stack'[x]) = {}
      <4>1. Len(stack'[x]) = Len(stack[x]) - 1
        BY <1>1, <1>2, <2>1, ReturnEffect
      <4>2. Len(stack'[x]) = 0
        BY <1>5, <4>1
      <4> QED
        BY <4>2 DEF InList
    <3>3. \A m \in Nodes : ~Owes(x, m)'
      BY <3>2 DEF Owes
    <3> QED
      BY <3>1, <3>3
  <2>2. CASE refs[Top(x)] = 1 /\ Goto(x, IF Parent[Top(x)] = None THEN "delete" ELSE "unlink")
    <3>1. PICK at \in {"delete", "unlink"} : at = IF Parent[n] = None THEN "delete" ELSE "unlink"
      OBVIOUS
    <3>2. Goto(x, at) /\ at \in Points
      BY <1>4, <2>2, <3>1 DEF Points
    <3>3. PICK c : c = [stack[x][1] EXCEPT !.at = at]
      OBVIOUS
    <3>4. c.fn = "release" /\ c.n = n /\ c.at = at /\ c.next = stack[x][1].next
      BY <1>5, <1>6, <3>3 DEF CallRecords
    <3>5. PICK last \in BOOLEAN : last <=> Len(stack[x]) = 1
      OBVIOUS
    <3>6. refs'[n] = 0
      BY <1>4, <1>9, <2>2
    <3>7. (at = "unlink" => Parent[n] # None) /\ (at = "delete" => Parent[n] = None)
      BY <3>1
    <3>8. Local(x, c, last)'
      BY <1>1, <1>3, <1>6, <1>7, <3>4, <3>6, <3>7 DEF Local
    <3>9. \A y \in Threads : \A i \in 1..Len(stack[y]) : ~Exclude(c, stack[y][i])
      BY <1>10, <3>4 DEF Exclude
    <3>10. Frames' /\ Alone'
      BY <1>1, <1>2, <1>10, <3>2, <3>3, <3>5, <3>8, <3>9, GotoFrames
    <3>11. /\ stack' \in [Threads -> Seq(CallRecords)] /\ \A y \in Threads \ {x} : stack'[y] = stack[y]
           /\ Len(stack'[x]) = Len(stack[x]) /\ stack'[x][1] = c
      BY <1>1, <1>2, <3>2, <3>3, GotoEffect
    <3>12. ASSUME NEW m \in Nodes PROVE ~Owes(x, m)'
      <4>1. Len(stack'[x]) = 1 /\ ~HasRef(c)
        BY <1>5, <3>4, <3>11 DEF HasRef
      <4>2. InList(stack'[x]) = {c}
        BY <3>11, <4>1 DEF InList
      <4> QED
        BY <4>1, <4>2 DEF Owes, HasRef
    <3> QED
      BY <3>10, <3>11, <3>12
  <2> QED
    BY <1>1, <2>1, <2>2
<1>12. TypeOK'
  BY <1>1, <1>2, <1>9, <1>11 DEF TypeOK, CallRecords
<1>13. Alive' /\ Linked' /\ Queued'
  BY <1>1, <1>2, AliveKept, LinkedKept, QueuedKept
<1>14. ASSUME NEW m \in Nodes PROVE ExactAt(m)'
  <2>1. /\ Kids(m)' = Kids(m) /\ Kicks(m)' = Kicks(m) /\ (Active(m)' <=> Active(m))
        /\ life'[m] = life[m] /\ handle'[m] = handle[m]
    BY <1>1 DEF Kids, Kicks, Active
  <2>2. ExactAt(m) /\ (Owes(x, m) <=> m = n)
    BY <1>5, <1>6, ExactSplit, OwesOne DEF LifeInv
  <2>3. CASE m # n
    <3>1. Owing(m)' = Owing(m)
      BY <1>11, <2>2, <2>3, OwesElsewhere
    <3> QED
      BY <1>9, <2>1, <2>2, <2>3, <3>1, ExactKept
  <2>4. CASE m = n
    <3>1. Cardinality(Owing(m)') = Cardinality(Owing(m)) - 1
      BY <1>11, <2>2, <2>4, OwesLess
    <3>2. refs'[m] = refs[m] - 1 /\ life[m] = "live"
      BY <1>7, <1>9, <2>4
    <3> QED
      BY <2>1, <2>2, <3>1, <3>2, Counted DEF ExactAt
  <2> QED
    BY <2>3, <2>4
<1> QED
  BY <1>11, <1>12, <1>13, <1>14, ExactSplitNext DEF LifeInv

\* unlink_from_parent(): nobody walks the parent's children meanwhile.
LEMMA ReleaseUnlinkLife == ASSUME LifeInv, NEW x \in Threads, ReleaseUnlink(x) PROVE LifeInv'
<1>1. /\ ~Quiet(x) /\ Head(stack[x]).fn = "release" /\ Head(stack[x]).at = "unlink"
      /\ tree_lock[Parent[Top(x)]] = None
      /\ children' = [children EXCEPT ![Parent[Top(x)]] = remove_locked(@, Top(x))]
      /\ Goto(x, "delete")
      /\ UNCHANGED <<refs, life, requested, tree_lock, owner_tid, kick_pending, kick_q, coro, handle>>
  BY DEF ReleaseUnlink, At, kickvars
<1>2. TypeOK /\ Alive /\ Linked /\ Frames /\ Alone /\ Queued
  BY DEF LifeInv
<1>3. /\ Head(stack[x]) = stack[x][1] /\ Top(x) = stack[x][1].n /\ Top(x) \in Nodes
      /\ 1 \in 1..Len(stack[x]) /\ Local(x, stack[x][1], 1 = Len(stack[x]))
  BY <1>1, <1>2, TopFacts
<1>4. PICK n \in Nodes : n = Top(x)
  BY <1>3
<1>5. stack[x] = <<stack[x][1]>> /\ Len(stack[x]) = 1 /\ stack[x][1] \in CallRecords
  BY <1>1, <1>2, <1>3, OnlyCall
<1>6. stack[x][1].n = n /\ stack[x][1].fn = "release" /\ stack[x][1].at = "unlink"
  BY <1>1, <1>3, <1>4
<1>7. life[n] = "live" /\ refs[n] = 0 /\ Parent[n] # None
  BY <1>3, <1>6 DEF Local
<1>8. PICK p \in Nodes : p = Parent[n]
  BY <1>7, TreeAssumption
<1>9. children \in [Nodes -> Seq(Nodes)] /\ tree_lock[p] = None
  BY <1>1, <1>2, <1>4, <1>8 DEF TypeOK
<1>10. /\ children' \in [Nodes -> Seq(Nodes)] /\ Distinct(children'[p])
       /\ InList(children'[p]) = InList(children[p]) \ {n}
       /\ \A m \in Nodes \ {p} : children'[m] = children[m]
  <2>1. children[p] \in Seq(Nodes) /\ Distinct(children[p])
    BY <1>2, <1>9 DEF Linked
  <2>2. PICK l : l = remove_locked(children[p], n)
    OBVIOUS
  <2>3. l \in Seq(Nodes) /\ InList(l) = InList(children[p]) \ {n} /\ Distinct(l)
    BY <2>1, <2>2, RemoveChild
  <2>4. children' = [children EXCEPT ![p] = l]
    BY <1>1, <1>4, <1>8, <2>2
  <2>5. /\ children' \in [Nodes -> Seq(Nodes)] /\ children'[p] = l
        /\ \A m \in Nodes \ {p} : children'[m] = children[m]
    BY <1>9, <2>3, <2>4
  <2> QED
    BY <2>3, <2>5
<1>11. \A m \in Nodes : InList(children'[m]) \subseteq InList(children[m])
  BY <1>10
<1>12. PICK c : c = [stack[x][1] EXCEPT !.at = "delete"]
  OBVIOUS
<1>13. c.fn = "release" /\ c.n = n /\ c.at = "delete" /\ c.next = stack[x][1].next
  BY <1>5, <1>6, <1>12 DEF CallRecords
<1>14. PICK last \in BOOLEAN : last <=> Len(stack[x]) = 1
  OBVIOUS
<1>15. n \notin InList(children'[Parent[n]])
  BY <1>8, <1>10
<1>16. Local(x, c, last)'
  BY <1>1, <1>3, <1>6, <1>7, <1>13, <1>15 DEF Local
<1>17. ASSUME NEW y \in Threads, NEW i \in 1..Len(stack[y]), ~(y = x /\ i = 1)
       PROVE  Spared(y, i) /\ ~Exclude(c, stack[y][i])
  <2>1. PICK m \in Nodes : m = stack[y][i].n
    BY CallFacts
  <2>2. Local(y, stack[y][i], i = Len(stack[y]))
    BY CallFacts
  <2>3. stack[y][i].at = "walk" => m # p
    BY <1>9, <2>1, <2>2, TreeAssumption DEF Local, Threads
  <2>4. stack[y][i].at = "walk" => children'[m] = children[m]
    BY <1>10, <2>3
  <2>5. Parent[m] # None => Parent[m] \in Nodes
    BY TreeAssumption
  <2>6. Parent[m] # None /\ m \notin InList(children[Parent[m]]) => m \notin InList(children'[Parent[m]])
    BY <1>11, <2>5
  <2>7. Spared(y, i)
    BY <1>1, <2>1, <2>2, <2>4, <2>6 DEF Local, Spared, BelongsTo, Kicks
  <2>8. ~Exclude(c, stack[y][i])
    <3>1. Exclude(c, stack[y][i]) => Exclude(stack[x][1], stack[y][i])
      BY <1>6, <1>13 DEF Exclude
    <3> QED
      BY <1>2, <1>3, <1>17, <3>1 DEF Alone
  <2> QED
    BY <2>7, <2>8
<1>18. "delete" \in Points
  BY DEF Points
<1>19. Frames' /\ Alone'
  BY <1>1, <1>2, <1>12, <1>14, <1>16, <1>17, <1>18, GotoFrames
<1>20. /\ stack' \in [Threads -> Seq(CallRecords)] /\ \A y \in Threads \ {x} : stack'[y] = stack[y]
       /\ Len(stack'[x]) = Len(stack[x]) /\ stack'[x][1] = c
  BY <1>1, <1>2, <1>12, <1>18, GotoEffect
<1>21. TypeOK'
  BY <1>1, <1>2, <1>10, <1>20 DEF TypeOK, CallRecords
<1>22. Alive' /\ Queued'
  BY <1>1, <1>2, AliveKept, QueuedKept
<1>23. Linked'
  BY <1>1, <1>2, <1>10, <1>11 DEF Linked
<1>24. ASSUME NEW m \in Nodes PROVE Owing(m)' = Owing(m) /\ (Active(m)' <=> Active(m))
  <2>1. Len(stack'[x]) = 1 /\ ~HasRef(c) /\ ~HasRef(stack[x][1])
    BY <1>5, <1>6, <1>13, <1>20 DEF HasRef
  <2>2. InList(stack'[x]) = {c}
    BY <1>20, <2>1 DEF InList
  <2>3. ~Owes(x, m)'
    BY <2>1, <2>2 DEF Owes, HasRef
  <2>4. ~Owes(x, m)
    BY <1>5, <2>1, OwesOne
  <2> QED
    BY <1>1, <1>20, <2>3, <2>4, OwesElsewhere DEF Active
<1> QED
  BY <1>1, <1>19, <1>21, <1>22, <1>23, <1>24, CallsOnly

\* Nobody else works on a state that is being deleted.
LEMMA DeletedAlone ==
  ASSUME LifeInv, NEW x \in Threads, 1 \in 1..Len(stack[x]), stack[x][1].fn = "release",
         stack[x][1].at = "delete",
         NEW y \in Threads, NEW i \in 1..Len(stack[y]), ~(y = x /\ i = 1)
  PROVE  stack[y][i].n # stack[x][1].n
<1>1. PICK n \in Nodes : n = stack[x][1].n
  BY CallFacts
<1>2. Local(x, stack[x][1], 1 = Len(stack[x]))
  BY CallFacts
<1>3. life[n] = "live" /\ refs[n] = 0 /\ (Parent[n] # None => n \notin InList(children[Parent[n]]))
  BY <1>1, <1>2 DEF Local
<1>4. ~handle[n] /\ ~Active(n) /\ Kids(n) = {} /\ Kicks(n) = {} /\ Owing(n) = {}
  BY <1>3, Unreferenced
<1>5. TypeOK /\ Linked /\ Frames /\ Alone
  BY DEF LifeInv
<1> SUFFICES ASSUME stack[y][i].n = n PROVE FALSE
  BY <1>1
<1>6. /\ stack[y][i] \in CallRecords /\ Local(y, stack[y][i], i = Len(stack[y]))
      /\ ~HasRef(stack[y][i])
  BY <1>4, CallFacts
<1>7. stack[y][i].fn \in {"spawn", "adopt", "cancel", "release"}
  BY <1>6 DEF CallRecords
<1>8. stack[y][i].fn # "spawn"
  BY <1>6 DEF HasRef
<1>9. stack[y][i].fn # "adopt"
  BY <1>4, <1>6 DEF Local, Active
<1>10. stack[y][i].fn # "release"
  <2>1. ASSUME stack[y][i].fn = "release" PROVE FALSE
    <3>1. stack[y][i].at \in {"unlink", "delete"}
      BY <1>6, <2>1 DEF Local, HasRef
    <3>2. Exclude(stack[x][1], stack[y][i])
      BY <1>1, <3>1 DEF Exclude
    <3> QED
      BY <1>5, <3>2 DEF Alone
  <2> QED
    BY <2>1
<1>11. stack[y][i].fn = "cancel"
  BY <1>7, <1>8, <1>9, <1>10
<1>12. i # Len(stack[y])
  BY <1>4, <1>6, <1>11 DEF Local
<1>13. Above(stack[y][i], stack[y][i + 1], i + 1 = Len(stack[y]))
  BY <1>5, <1>12 DEF Frames, Frame
<1>14. i + 1 \in 1..Len(stack[y])
  <2>1. stack[y] \in Seq(CallRecords)
    BY <1>5 DEF TypeOK, CallRecords
  <2>2. Len(stack[y]) \in Nat
    BY <2>1
  <2> QED
    BY <1>12, <2>2
<1>15. stack[y][i + 1].n \in Nodes
  BY <1>14, CallFacts
<1>16. ~(stack[y][i + 1].fn = "release" /\ stack[y][i + 1].at = "begin" /\ stack[y][i + 1].n = n)
  BY <1>4, <1>14, CallFacts DEF HasRef
<1>17. n \notin InList(children[stack[y][i + 1].n])
  BY <1>3, <1>5, <1>15, TreeAssumption DEF Linked
<1> QED
  BY <1>13, <1>16, <1>17 DEF Above

\* The state is deleted; its reference to the parent goes to the next release.
LEMMA ReleaseDeleteLife == ASSUME LifeInv, NEW x \in Threads, ReleaseDelete(x) PROVE LifeInv'
<1>1. /\ ~Quiet(x) /\ Head(stack[x]).fn = "release" /\ Head(stack[x]).at = "delete"
      /\ life' = [life EXCEPT ![Top(x)] = "freed"]
      /\ \/ Parent[Top(x)] = None /\ Return(x)
         \/ Parent[Top(x)] # None /\ Replace(x, Call("release", Parent[Top(x)], "begin"))
      /\ UNCHANGED <<refs, requested, children, tree_lock, owner_tid, kick_pending, kick_q, coro, handle>>
  BY DEF ReleaseDelete, At, treevars, kickvars
<1>2. TypeOK /\ Alive /\ Linked /\ Frames /\ Alone /\ Queued
  BY DEF LifeInv
<1>3. /\ Head(stack[x]) = stack[x][1] /\ Top(x) = stack[x][1].n /\ Top(x) \in Nodes
      /\ 1 \in 1..Len(stack[x]) /\ Local(x, stack[x][1], 1 = Len(stack[x]))
  BY <1>1, <1>2, TopFacts
<1>4. PICK n \in Nodes : n = Top(x)
  BY <1>3
<1>5. stack[x] = <<stack[x][1]>> /\ Len(stack[x]) = 1 /\ stack[x][1] \in CallRecords
  BY <1>1, <1>2, <1>3, OnlyCall
<1>6. stack[x][1].n = n /\ stack[x][1].fn = "release" /\ stack[x][1].at = "delete"
  BY <1>1, <1>3, <1>4
<1>7. life[n] = "live" /\ refs[n] = 0 /\ (Parent[n] # None => n \notin InList(children[Parent[n]]))
  BY <1>3, <1>6 DEF Local
<1>8. ~handle[n] /\ ~Active(n) /\ Kids(n) = {} /\ Kicks(n) = {} /\ Owing(n) = {}
  BY <1>7, Unreferenced
<1>9. /\ life' \in [Nodes -> {"none", "live", "freed"}] /\ life'[n] = "freed"
      /\ \A m \in Nodes \ {n} : life'[m] = life[m]
  <2>1. life \in [Nodes -> {"none", "live", "freed"}]
    BY <1>2 DEF TypeOK
  <2> QED
    BY <1>1, <1>4, <2>1
<1>10. ASSUME NEW y \in Threads, NEW i \in 1..Len(stack[y]), ~(y = x /\ i = 1) PROVE Spared(y, i)
  <2>1. PICK m \in Nodes : m = stack[y][i].n
    BY CallFacts
  <2>2. Local(y, stack[y][i], i = Len(stack[y]))
    BY CallFacts
  <2>3. m # n
    BY <1>3, <1>6, <1>10, <2>1, DeletedAlone
  <2>4. life'[m] = life[m]
    BY <1>9, <2>3
  <2> QED
    BY <1>1, <2>1, <2>2, <2>4 DEF Local, Spared, BelongsTo, Kicks
<1>11. ASSUME NEW m \in Nodes, life[m] = "live" PROVE Parent[m] # n
  BY <1>8, <1>11 DEF Kids
<1>12. /\ Frames' /\ Alone' /\ stack' \in [Threads -> Seq(CallRecords)]
       /\ \A y \in Threads \ {x} : stack'[y] = stack[y]
       /\ \A m \in Nodes : Owes(x, m)' <=> Parent[n] # None /\ m = Parent[n]
  <2>1. CASE Parent[Top(x)] = None /\ Return(x)
    <3>1. /\ Frames' /\ Alone' /\ stack' \in [Threads -> Seq(CallRecords)]
          /\ \A y \in Threads \ {x} : stack'[y] = stack[y]
          /\ Len(stack'[x]) = Len(stack[x]) - 1
      BY <1>1, <1>2, <1>10, <2>1, ReturnFrames, ReturnEffect
    <3>2. InList(stack'[x]) = {}
      <4>1. Len(stack'[x]) = 0
        BY <1>5, <3>1
      <4> QED
        BY <4>1 DEF InList
    <3>3. \A m \in Nodes : ~Owes(x, m)'
      BY <3>2 DEF Owes
    <3>4. Parent[n] = None
      BY <1>4, <2>1
    <3> QED
      BY <3>1, <3>3, <3>4
  <2>2. CASE Parent[Top(x)] # None /\ Replace(x, Call("release", Parent[Top(x)], "begin"))
    <3>1. Parent[n] # None
      BY <1>4, <2>2
    <3>2. PICK p \in Nodes : p = Parent[n]
      BY <1>4, <2>2, TreeAssumption
    <3>3. life[p] = "live" /\ p # n
      BY <1>2, <1>7, <1>11, <3>1, <3>2 DEF Alive
    <3>4. PICK c : c = Call("release", p, "begin")
      OBVIOUS
    <3>5. c \in CallRecords /\ c.fn = "release" /\ c.n = p /\ c.at = "begin" /\ c.next = 1 /\ HasRef(c)
      BY <3>4 DEF Call, CallRecords, Points, HasRef
    <3>6. stack \in [Threads -> Seq(CallRecords)]
      BY <1>2 DEF TypeOK, CallRecords
    <3>7. <<c>> \o Tail(stack[x]) = <<c>>
      <4>1. stack[x] \in Seq(CallRecords)
        BY <3>6
      <4> QED
        BY <1>5, <3>5, <4>1, OverOne
    <3>8. stack' = [stack EXCEPT ![x] = <<c>>]
      BY <1>4, <2>2, <3>2, <3>4, <3>7 DEF Replace
    <3>9. stack'[x] = <<c>> /\ \A y \in Threads \ {x} : stack'[y] = stack[y]
      BY <3>6, <3>8
    <3>10. Local(x, c, TRUE)'
      BY <1>9, <3>3, <3>5 DEF Local
    <3>11. \A y \in Threads \ {x} : \A i \in 1..Len(stack[y]) : ~Exclude(c, stack[y][i])
      BY <3>5 DEF Exclude
    <3>12. stack' \in [Threads -> Seq(CallRecords)] /\ Frames' /\ Alone'
      BY <1>2, <1>10, <3>5, <3>8, <3>10, <3>11, OnlyFrames
    <3>13. \A m \in Nodes : Owes(x, m)' <=> Parent[n] # None /\ m = Parent[n]
      BY <3>1, <3>2, <3>5, <3>9, OwesOneNext
    <3> QED
      BY <3>9, <3>12, <3>13
  <2> QED
    BY <1>1, <2>1, <2>2
<1>13. TypeOK'
  BY <1>1, <1>2, <1>9, <1>12 DEF TypeOK, CallRecords
<1>14. Alive'
  <2> SUFFICES ASSUME NEW m \in Nodes
               PROVE  /\ handle'[m] \/ Active(m)' \/ Kicks(m)' # {} => life'[m] = "live"
                      /\ life'[m] = "none" => coro'[m] = "none" /\ owner_tid'[m] = None
                      /\ coro'[m] \in {"running", "parked"} => owner_tid'[m] \in Workers
                      /\ Parent[m] # None /\ life'[m] = "live" => life'[Parent[m]] = "live"
    BY DEF Alive, Active, Kicks
  <2>1. /\ Kicks(m)' = Kicks(m) /\ (Active(m)' <=> Active(m)) /\ handle'[m] = handle[m]
        /\ coro'[m] = coro[m] /\ owner_tid'[m] = owner_tid[m]
    BY <1>1 DEF Kicks, Active
  <2>2. CASE m = n
    BY <1>2, <1>8, <1>9, <2>1, <2>2 DEF Alive
  <2>3. CASE m # n
    <3>1. life'[m] = life[m]
      BY <1>9, <2>3
    <3>2. Parent[m] # None => Parent[m] \in Nodes
      BY TreeAssumption
    <3>3. Parent[m] # None /\ life[m] = "live" => life'[Parent[m]] = "live"
      BY <1>2, <1>9, <1>11, <3>2 DEF Alive
    <3> QED
      BY <1>2, <2>1, <3>1, <3>3 DEF Alive
  <2> QED
    BY <2>2, <2>3
<1>15. Linked'
  <2> SUFFICES ASSUME NEW m \in Nodes, NEW e \in InList(children[m])
               PROVE  life'[e] = "live"
    BY <1>1, <1>2 DEF Linked
  <2>1. e \in Nodes /\ Parent[e] = m /\ life[e] = "live"
    BY <1>2 DEF Linked
  <2>2. e # n
    BY <1>7, <2>1, TreeAssumption
  <2> QED
    BY <1>9, <2>1, <2>2
<1>16. Queued'
  BY <1>1, <1>2, QueuedKept
<1>17. ASSUME NEW m \in Nodes PROVE ExactAt(m)'
  <2>1. /\ Kicks(m)' = Kicks(m) /\ (Active(m)' <=> Active(m)) /\ handle'[m] = handle[m]
        /\ refs'[m] = refs[m]
    BY <1>1 DEF Kicks, Active
  <2>2. ExactAt(m) /\ (Owes(x, m) => m = n)
    BY <1>5, <1>6, ExactSplit, OwesOne DEF LifeInv
  <2>a. Kids(m)' = Kids(m) \ {n}
    BY <1>9 DEF Kids, Nodes
  <2>3. CASE m = n
    BY <1>9, <2>3 DEF ExactAt
  <2>4. CASE m # n /\ Parent[n] # None /\ m = Parent[n]
    <3>1. Cardinality(Owing(m)') = Cardinality(Owing(m)) + 1
      BY <1>12, <2>2, <2>4, OwesMore
    <3>2. n \in Kids(m)
      BY <1>7, <2>4 DEF Kids
    <3>3. Cardinality(Kids(m)') = Cardinality(Kids(m)) - 1
      BY <2>a, <3>2, Counted, OneLess
    <3>4. life'[m] = life[m]
      BY <1>9, <2>4
    <3> QED
      BY <2>1, <2>2, <3>1, <3>3, <3>4, Counted DEF ExactAt
  <2>5. CASE m # n /\ ~(Parent[n] # None /\ m = Parent[n])
    <3>1. Owing(m)' = Owing(m)
      BY <1>12, <2>2, <2>5, OwesElsewhere
    <3>2. Kids(m)' = Kids(m)
      BY <2>a, <2>5, TreeAssumption DEF Kids
    <3>3. life'[m] = life[m]
      BY <1>9, <2>5
    <3> QED
      BY <2>1, <2>2, <3>1, <3>2, <3>3, ExactKept
  <2> QED
    BY <2>3, <2>4, <2>5
<1> QED
  BY <1>12, <1>13, <1>14, <1>15, <1>16, <1>17, ExactSplitNext DEF LifeInv

(***************************************************************************)
(* Lifetimes                                                               *)
(***************************************************************************)

\* Nothing exists.
LEMMA LifeInit == ASSUME Init PROVE LifeInv
<1>1. /\ \A n \in Nodes : /\ life[n] = "none" /\ ~handle[n] /\ owner_tid[n] = None
                          /\ children[n] = <<>> /\ coro[n] = "none"
      /\ \A w \in Workers : kick_q[w] = <<>>
      /\ \A x \in Threads : stack[x] = <<>>
  BY DEF Init
<1>2. TypeOK
  <2>1. /\ refs \in [Nodes -> Nat] /\ life \in [Nodes -> {"none", "live", "freed"}]
        /\ requested \in [Nodes -> BOOLEAN] /\ tree_lock \in [Nodes -> Threads \cup {None}]
        /\ owner_tid \in [Nodes -> Workers \cup {None}] /\ kick_pending \in [Nodes -> BOOLEAN]
        /\ coro \in [Nodes -> {"none", "queued", "running", "parked", "done"}]
        /\ handle \in [Nodes -> BOOLEAN]
    BY DEF Init
  <2>2. children \in [Nodes -> Seq(Nodes)] /\ kick_q \in [Workers -> Seq(Tasks)]
    BY DEF Init
  <2>3. stack \in [Threads -> Seq(CallRecords)]
    BY DEF Init
  <2> QED
    BY <2>1, <2>2, <2>3 DEF TypeOK, CallRecords
<1>3. \A n \in Nodes : Kicks(n) = {}
  BY <1>1 DEF Kicks, InList
<1>4. \A n \in Nodes : ~Active(n)
  BY <1>1 DEF Active
<1>5. Alive
  BY <1>1, <1>3, <1>4 DEF Alive
<1>6. Linked /\ Queued
  BY <1>1 DEF Linked, Queued, InList, Distinct
<1>7. Frames /\ Alone
  <2>1. \A x \in Threads : 1..Len(stack[x]) = {}
    BY <1>1
  <2> QED
    BY <2>1 DEF Frames, Alone
<1>8. \A n \in Nodes : ExactAt(n)
  BY <1>1 DEF ExactAt
<1> QED
  BY <1>2, <1>5, <1>6, <1>7, <1>8, ExactSplit DEF LifeInv

\* A step that changes nothing.
LEMMA LifeStutter == ASSUME LifeInv, UNCHANGED vars PROVE LifeInv'
<1>1. UNCHANGED <<refs, life, requested, children, tree_lock, owner_tid, kick_pending, kick_q, coro,
                  handle, stack>>
  BY DEF vars, treevars, kickvars
<1>2. TypeOK /\ Frames /\ Alone
  BY DEF LifeInv
<1>3. TypeOK'
  BY <1>1, <1>2 DEF TypeOK
<1>4. \A y \in Threads : \A i \in 1..Len(stack[y]) : Spared(y, i)
  BY <1>1, <1>2, SparedSame DEF Frames
<1>5. Frames' /\ Alone'
  BY <1>1, <1>2, <1>4, SameFrames
<1>6. \A n \in Nodes : Owing(n)' = Owing(n)
  BY <1>1 DEF Owing, Owes
<1> QED
  BY <1>1, <1>3, <1>5, <1>6, LocksOnly

\* Every step preserves what the lifetimes need.
LEMMA LifeStep == ASSUME LifeInv, [Next]_vars PROVE LifeInv'
<1>1. ASSUME NEW x \in Threads, Step(x) PROVE LifeInv'
  BY <1>1, SpawnPublishLife, AdoptCheckLife, CancelExchangeLife, KickClaimLife, KickPushLife,
     CancelLockLife, CancelWalkLife, ReleaseDecLife, ReleaseUnlinkLife, ReleaseDeleteLife DEF Step
<1>2. ASSUME NEW x \in Threads, NEW c \in Tasks, NEW tid \in Workers \cup {None}, SpawnLink(x, c, tid)
      PROVE  LifeInv'
  BY <1>2, SpawnLinkLife
<1>8. ASSUME NEW x \in Threads, NEW s \in Scopes, NewScope(x, s) PROVE LifeInv'
  BY <1>8, NewScopeLife
<1>3. ASSUME NEW x \in Threads, NEW n \in Nodes, CallCancel(x, n) \/ DropHandle(x, n) PROVE LifeInv'
  BY <1>3, CallCancelLife, DropHandleLife
<1>4. ASSUME NEW w \in Workers, ProcessKick(w) PROVE LifeInv'
  BY <1>4, ProcessKickLife
<1>5. ASSUME NEW w \in Workers, NEW n \in Tasks, Park(w, n) \/ Wake(w, n) PROVE LifeInv'
  <2>1. PICK new \in {"running", "parked"} : coro' = [coro EXCEPT ![n] = new]
    BY <1>5 DEF Park, Wake
  <2>2. /\ owner_tid[n] = w /\ coro[n] \in {"running", "parked"}
        /\ UNCHANGED <<refs, life, requested, children, tree_lock, owner_tid, kick_pending, kick_q, handle, stack>>
    BY <1>5 DEF Park, Wake, treevars, kickvars
  <2> QED
    BY <2>1, <2>2, ParkWakeLife
<1>6. ASSUME NEW w \in Workers, NEW n \in Tasks, Adopt(w, n) \/ Complete(w, n) PROVE LifeInv'
  BY <1>6, AdoptLife, CompleteLife
<1>7. CASE UNCHANGED vars
  BY <1>7, LifeStutter
<1> QED
  BY <1>1, <1>2, <1>3, <1>4, <1>5, <1>6, <1>7, <1>8 DEF Next, Finished

\* The invariant implies that the lifetimes are sound.
LEMMA LifeIsSound == ASSUME LifeInv PROVE LifetimesAreSound
<1>1. TypeOK /\ RefsAreExact
  BY DEF LifeInv
<1>2. \A call \in Calls : life[call.n] = "live"
  <2> SUFFICES ASSUME NEW x \in Threads, NEW call \in InList(stack[x]) PROVE life[call.n] = "live"
    BY DEF Calls
  <2>1. PICK i \in 1..Len(stack[x]) : stack[x][i] = call
    BY DEF InList
  <2> QED
    BY <2>1, CallFacts
<1>3. \A n \in Nodes : life[n] # "live" => Kicks(n) = {}
  BY DEF LifeInv, Alive
<1>4. \A n \in Nodes : \A c \in InList(children[n]) : life[c] = "live"
  BY DEF LifeInv, Linked
<1>5. \A n \in Nodes : life[n] = "live" /\ Parent[n] # None => life[Parent[n]] = "live"
  BY DEF LifeInv, Alive
<1> QED
  BY <1>1, <1>2, <1>3, <1>4, <1>5 DEF LifetimesAreSound, NoUseAfterFree

(***************************************************************************)
(* What a cancellation reaches                                             *)
(***************************************************************************)

\* The call above position i of the stack of y is the cancellation of c.
Passes(y, i, c) == i > 1 /\ stack[y][i - 1] = Call("cancel", c, "begin")

\* The call at position i of the stack of y will come to the child c of p.
ReachedBy(y, i, p, c) ==
  LET call == stack[y][i] IN
  /\ call.fn = "cancel" /\ call.n = p
  /\ \/ call.at \in {"kick", "kick_ref", "lock"}
     \/ /\ call.at = "walk"
        /\ \/ \E j \in call.next..Len(children[p]) : children[p][j] = c
           \/ Passes(y, i, c)

\* Which of its calls makes a thread come to the child.
LEMMA ReachSplit ==
  ASSUME NEW y, NEW p, NEW c
  PROVE  WillReach(y, p, c) <=> \E i \in 1..Len(stack[y]) : ReachedBy(y, i, p, c)
BY DEF WillReach, ReachedBy, Passes

\* The same of the next state.
LEMMA ReachSplitNext ==
  ASSUME NEW y, NEW p, NEW c
  PROVE  WillReach(y, p, c)' <=> \E i \in 1..Len(stack'[y]) : ReachedBy(y, i, p, c)'
BY DEF WillReach, ReachedBy, Passes

\* Walked of one call.
WalkedAt(y, i) ==
  LET call == stack[y][i] IN
  call.at = "walk" =>
    \A j \in 1..Len(children[call.n]) :
      j >= call.next \/ requested[children[call.n][j]] \/ Passes(y, i, children[call.n][j])

\* Walked is a statement about each call.
LEMMA WalkedSplit ==
  Walked <=> \A y \in Threads : \A i \in 1..Len(stack[y]) : WalkedAt(y, i)
BY DEF Walked, WalkedAt, Passes

\* The same of the next state.
LEMMA WalkedSplitNext ==
  Walked' <=> \A y \in Threads : \A i \in 1..Len(stack'[y]) : WalkedAt(y, i)'
BY DEF Walked, WalkedAt, Passes

\* The call at j of the stack of y after the step is the one at i before it, and so
\* is the call above it unless that was the innermost call of x.
Moved(x, y, i, j) ==
  /\ stack'[y][j] = stack[y][i]
  /\ i > 1 /\ ~(y = x /\ i = 2) => j > 1 /\ stack'[y][j - 1] = stack[y][i - 1]

\* All calls but the innermost of x are still under way.
Kept(x) ==
  \A y \in Threads : \A i \in 1..Len(stack[y]) :
    (y = x /\ i = 1) \/ \E j \in 1..Len(stack'[y]) : Moved(x, y, i, j)

\* Every walk was under way before, has just begun, or is as it should be.
Came(x) ==
  \A y \in Threads : \A j \in 1..Len(stack'[y]) :
    \/ stack'[y][j].at # "walk" \/ stack'[y][j].next = 1 \/ WalkedAt(y, j)'
    \/ \E i \in 1..Len(stack[y]) : Moved(x, y, i, j)

\* What has to be shown of a step for cancellations to miss no child.
LEMMA ReachKept ==
  ASSUME LifeInv, Walked, CancelReachesChildren, NEW x \in Threads, Kept(x), Came(x),
         \A m \in Nodes : requested[m] => requested'[m],
         \A y \in Threads : \A i \in 1..Len(stack[y]) :
           stack[y][i].at = "walk" => children'[stack[y][i].n] = children[stack[y][i].n],
         \A c \in Nodes : 1 \in 1..Len(stack[x]) /\ stack[x][1] = Call("cancel", c, "begin") => requested'[c],
         \A p, c \in Nodes : 1 \in 1..Len(stack[x]) /\ ReachedBy(x, 1, p, c) /\ c \in InList(children[p])
                               => WillReach(x, p, c)',
         \A p, c \in Nodes : /\ ~requested[p] /\ requested'[p] /\ c \in InList(children'[p])
                             => requested'[c] \/ WillReach(x, p, c)',
         \A p, c \in Nodes : requested[p] /\ c \in InList(children'[p]) => c \in InList(children[p]) \/ requested'[c],
         \A p \in Nodes : InList(children'[p]) \subseteq Nodes
  PROVE  Walked' /\ CancelReachesChildren'
<1>1. ASSUME NEW p \in Nodes, requested'[p], NEW c \in InList(children'[p]), ~requested'[c]
      PROVE  \E y \in Threads : WillReach(y, p, c)'
  <2>0. c \in Nodes
    OBVIOUS
  <2>1. CASE ~requested[p]
    BY <1>1, <2>0, <2>1
  <2>2. CASE requested[p]
    <3>1. c \in InList(children[p]) /\ ~requested[c]
      BY <1>1, <2>0, <2>2
    <3>2. PICK y \in Threads : WillReach(y, p, c)
      BY <2>2, <3>1 DEF CancelReachesChildren
    <3>3. PICK i \in 1..Len(stack[y]) : ReachedBy(y, i, p, c)
      BY <3>2, ReachSplit
    <3>4. CASE y = x /\ i = 1
      BY <2>0, <3>1, <3>3, <3>4
    <3>5. CASE ~(y = x /\ i = 1)
      <4>1. PICK j \in 1..Len(stack'[y]) : Moved(x, y, i, j)
        BY <3>5 DEF Kept
      <4>2. Passes(y, i, c) => Passes(y, j, c)'
        <5>1. ASSUME Passes(y, i, c), y = x, i = 2 PROVE FALSE
          <6>1. 1 \in 1..Len(stack[x]) /\ i - 1 = 1
            <7>1. stack[x] \in Seq(CallRecords)
              BY DEF LifeInv, TypeOK, CallRecords
            <7>2. Len(stack[x]) \in Nat
              BY <7>1
            <7> QED
              BY <5>1, <7>2
          <6>2. stack[x][1] = Call("cancel", c, "begin")
            BY <5>1, <6>1 DEF Passes
          <6> QED
            BY <1>1, <2>0, <6>1, <6>2
        <5> QED
          BY <4>1, <5>1 DEF Moved, Passes
      <4>3. stack[y][i].at = "walk" => children'[p] = children[p]
        BY <3>3 DEF ReachedBy
      <4>4. ReachedBy(y, j, p, c)'
        BY <3>3, <4>1, <4>2, <4>3 DEF ReachedBy, Moved
      <4> QED
        BY <4>4, ReachSplitNext
    <3> QED
      BY <3>4, <3>5
  <2> QED
    BY <2>1, <2>2
<1>2. CancelReachesChildren'
  <2> SUFFICES ASSUME NEW p \in Nodes, requested'[p], NEW c \in InList(children'[p])
               PROVE  requested'[c] \/ \E y \in Threads : WillReach(y, p, c)'
    BY DEF CancelReachesChildren, WillReach
  <2> QED
    BY <1>1
<1>3. ASSUME NEW y \in Threads, NEW j \in 1..Len(stack'[y]) PROVE WalkedAt(y, j)'
  <2>0. CASE WalkedAt(y, j)'
    BY <2>0
  <2> SUFFICES ASSUME ~WalkedAt(y, j)', stack'[y][j].at = "walk",
                      NEW k \in 1..Len(children'[stack'[y][j].n]),
                      ~requested'[children'[stack'[y][j].n][k]], ~(k >= stack'[y][j].next)
               PROVE  Passes(y, j, children[stack[y][j].n][k])'
    BY DEF WalkedAt, Passes
  <2>1. CASE stack'[y][j].next = 1
    BY <2>1
  <2>2. CASE \E i \in 1..Len(stack[y]) : Moved(x, y, i, j)
    <3>1. PICK i \in 1..Len(stack[y]) : Moved(x, y, i, j)
      BY <2>2
    <3>2. PICK m \in Nodes : m = stack[y][i].n
      BY CallFacts
    <3>3. stack'[y][j] = stack[y][i] /\ children'[m] = children[m]
      BY <3>1, <3>2 DEF Moved
    <3>4. PICK c : c = children[m][k]
      OBVIOUS
    <3>5. c \in Nodes
      <4>1. children \in [Nodes -> Seq(Nodes)]
        BY DEF LifeInv, TypeOK
      <4>2. children[m] \in Seq(Nodes)
        BY <4>1
      <4>3. k \in 1..Len(children[m])
        BY <3>2, <3>3
      <4> QED
        BY <3>4, <4>2, <4>3
    <3>6. ~requested[c]
      BY <3>2, <3>3, <3>4, <3>5
    <3>7. Passes(y, i, c)
      <4>1. WalkedAt(y, i)
        BY WalkedSplit
      <4> QED
        BY <3>2, <3>3, <3>4, <3>6, <4>1 DEF WalkedAt
    <3>8. ASSUME y = x, i = 2 PROVE FALSE
      <4>1. 1 \in 1..Len(stack[x]) /\ i - 1 = 1
        <5>1. stack[x] \in Seq(CallRecords)
          BY DEF LifeInv, TypeOK, CallRecords
        <5>2. Len(stack[x]) \in Nat
          BY <5>1
        <5> QED
          BY <3>8, <5>2
      <4>2. stack[x][1] = Call("cancel", c, "begin")
        BY <3>7, <3>8, <4>1 DEF Passes
      <4>3. requested'[c]
        BY <3>5, <4>1, <4>2
      <4> QED
        BY <3>2, <3>3, <3>4, <4>3
    <3>9. j > 1 /\ stack'[y][j - 1] = Call("cancel", c, "begin")
      BY <3>1, <3>7, <3>8 DEF Moved, Passes
    <3> QED
      BY <3>2, <3>3, <3>4, <3>9 DEF Passes
  <2> QED
    BY <2>1, <2>2 DEF Came
<1> QED
  BY <1>2, <1>3, WalkedSplitNext

\* A thread with at most one call does something else, and starts no walk.
LEMMA KeptElsewhere ==
  ASSUME TypeOK, NEW x \in Threads, \A y \in Threads \ {x} : stack'[y] = stack[y],
         \A i \in 1..Len(stack[x]) : i = 1,
         \A j \in 1..Len(stack'[x]) : stack'[x][j].at # "walk"
  PROVE  Kept(x) /\ Came(x)
<1>1. ASSUME NEW y \in Threads \ {x}, NEW i \in 1..Len(stack[y]) PROVE Moved(x, y, i, i)
  BY DEF Moved
<1>2. Kept(x)
  BY <1>1 DEF Kept
<1>3. Came(x)
  BY <1>1 DEF Came
<1> QED
  BY <1>2, <1>3

\* The innermost call goes on.
LEMMA KeptGoto ==
  ASSUME TypeOK, NEW x \in Threads, ~Quiet(x), NEW at \in Points, Goto(x, at),
         at = "walk" => stack[x][1].next = 1
  PROVE  Kept(x) /\ Came(x)
<1>1. /\ \A y \in Threads \ {x} : stack'[y] = stack[y]
      /\ Len(stack'[x]) = Len(stack[x]) /\ Len(stack[x]) \in Nat \ {0}
      /\ stack'[x][1] = [stack[x][1] EXCEPT !.at = at]
      /\ \A i \in 2..Len(stack[x]) : stack'[x][i] = stack[x][i]
      /\ stack[x][1] \in CallRecords
  BY GotoEffect
<1>2. stack'[x][1].at = at /\ stack'[x][1].next = stack[x][1].next
  BY <1>1 DEF CallRecords
<1>3. ASSUME NEW y \in Threads \ {x}, NEW i \in 1..Len(stack[y]) PROVE Moved(x, y, i, i)
  BY <1>1 DEF Moved
<1>4. ASSUME NEW i \in 1..Len(stack[x]), i # 1 PROVE Moved(x, x, i, i)
  <2>1. i \in 2..Len(stack[x]) /\ (i # 2 => i - 1 \in 2..Len(stack[x]))
    BY <1>1, <1>4
  <2> QED
    BY <1>1, <2>1 DEF Moved
<1>5. Len(stack'[x]) = Len(stack[x])
  BY <1>1
<1>6. Kept(x)
  <2> SUFFICES ASSUME NEW y \in Threads, NEW i \in 1..Len(stack[y]), ~(y = x /\ i = 1)
               PROVE  \E j \in 1..Len(stack'[y]) : Moved(x, y, i, j)
    BY DEF Kept
  <2>1. CASE y = x
    BY <1>4, <1>5, <2>1
  <2>2. CASE y # x
    BY <1>1, <1>3, <2>2
  <2> QED
    BY <2>1, <2>2
<1>7. Came(x)
  <2> SUFFICES ASSUME NEW y \in Threads, NEW j \in 1..Len(stack'[y]),
                      stack'[y][j].at = "walk", stack'[y][j].next # 1
               PROVE  \E i \in 1..Len(stack[y]) : Moved(x, y, i, j)
    BY DEF Came
  <2>1. CASE y = x
    <3>1. j # 1
      BY <1>2, <2>1
    <3> QED
      BY <1>4, <1>5, <2>1, <3>1
  <2>2. CASE y # x
    BY <1>1, <1>3, <2>2
  <2> QED
    BY <2>1, <2>2
<1> QED
  BY <1>6, <1>7

\* The innermost call returns.
LEMMA KeptReturn ==
  ASSUME TypeOK, NEW x \in Threads, ~Quiet(x), Return(x)
  PROVE  Kept(x) /\ Came(x)
<1>1. /\ \A y \in Threads \ {x} : stack'[y] = stack[y]
      /\ Len(stack'[x]) = Len(stack[x]) - 1 /\ Len(stack[x]) \in Nat \ {0}
      /\ \A i \in 1..(Len(stack[x]) - 1) : stack'[x][i] = stack[x][i + 1]
  BY ReturnEffect
<1>2. Len(stack'[x]) = Len(stack[x]) - 1 /\ Len(stack[x]) \in Nat \ {0}
  BY <1>1
<1>3. ASSUME NEW y \in Threads \ {x}, NEW i \in 1..Len(stack[y]) PROVE Moved(x, y, i, i)
  BY <1>1 DEF Moved
<1>4. ASSUME NEW j \in 1..(Len(stack[x]) - 1) PROVE Moved(x, x, j + 1, j)
  <2>1. stack'[x][j] = stack[x][j + 1]
    BY <1>1
  <2>2. ASSUME j + 1 # 2 PROVE j > 1 /\ stack'[x][j - 1] = stack[x][(j + 1) - 1]
    <3>1. j - 1 \in 1..(Len(stack[x]) - 1) /\ (j + 1) - 1 = j /\ (j - 1) + 1 = j /\ j > 1
      BY <1>2, <2>2
    <3> QED
      BY <1>1, <3>1
  <2> QED
    BY <2>1, <2>2 DEF Moved
<1>5. Kept(x)
  <2> SUFFICES ASSUME NEW y \in Threads, NEW i \in 1..Len(stack[y]), ~(y = x /\ i = 1)
               PROVE  \E j \in 1..Len(stack'[y]) : Moved(x, y, i, j)
    BY DEF Kept
  <2>1. CASE y = x
    <3>1. i - 1 \in 1..(Len(stack[x]) - 1) /\ (i - 1) + 1 = i /\ i - 1 \in 1..Len(stack'[x])
      BY <1>2, <2>1
    <3>2. Moved(x, x, (i - 1) + 1, i - 1)
      BY <1>4, <3>1
    <3> QED
      BY <2>1, <3>1, <3>2
  <2>2. CASE y # x
    BY <1>1, <1>3, <2>2
  <2> QED
    BY <2>1, <2>2
<1>6. Came(x)
  <2> SUFFICES ASSUME NEW y \in Threads, NEW j \in 1..Len(stack'[y])
               PROVE  \E i \in 1..Len(stack[y]) : Moved(x, y, i, j)
    BY DEF Came
  <2>1. CASE y = x
    <3>1. j \in 1..(Len(stack[x]) - 1) /\ j + 1 \in 1..Len(stack[x])
      BY <1>2, <2>1
    <3> QED
      BY <1>4, <2>1, <3>1
  <2>2. CASE y # x
    BY <1>1, <1>3, <2>2
  <2> QED
    BY <2>1, <2>2
<1> QED
  BY <1>5, <1>6

(***************************************************************************)
(* Kicks that are under way                                                *)
(***************************************************************************)

\* Pending and NoMissedKick of one state.
PendingAt(n) ==
  kick_pending[n] => Kicks(n) # {} \/ \E call \in Calls : call.n = n /\ call.at = "kick_ref"

KickedAt(n) ==
  coro[n] = "parked" /\ requested[n] =>
    Kicks(n) # {} \/ Call("cancel", n, "kick") \in Calls \/ Call("cancel", n, "kick_ref") \in Calls

\* They are statements about each state.
LEMMA PendingSplitNext == Pending' <=> \A n \in Nodes : PendingAt(n)'
BY DEF Pending, PendingAt, Kicks, Calls

\* The same for the parked coroutines.
LEMMA KickedSplitNext == NoMissedKick' <=> \A n \in Tasks : KickedAt(n)'
BY DEF NoMissedKick, KickedAt, Kicks, Calls

\* A call that was under way and is not the innermost of x still is.
LEMMA CallKept ==
  ASSUME NEW x \in Threads, Kept(x), NEW call \in Calls,
         Quiet(x) \/ call # stack[x][1]
  PROVE  call \in Calls'
<1>1. PICK y \in Threads : call \in InList(stack[y])
  BY DEF Calls
<1>2. PICK i \in 1..Len(stack[y]) : stack[y][i] = call
  BY <1>1 DEF InList
<1>3. ~(y = x /\ i = 1)
  BY <1>2 DEF Quiet
<1>4. PICK j \in 1..Len(stack'[y]) : stack'[y][j] = call
  BY <1>2, <1>3 DEF Kept, Moved
<1>5. call \in InList(stack[y])'
  BY <1>4 DEF InList
<1> QED
  BY <1>5 DEF Calls

\* A step that has nothing to do with the kick of n.
LEMMA PendingKept ==
  ASSUME NEW x \in Threads, Kept(x), Pending, NEW n \in Nodes,
         Quiet(x) \/ stack[x][1].at # "kick_ref" \/ stack[x][1].n # n,
         kick_pending'[n] => kick_pending[n], Kicks(n) \subseteq Kicks(n)'
  PROVE  PendingAt(n)'
<1> SUFFICES ASSUME kick_pending'[n], Kicks(n)' = {}
             PROVE  \E call \in Calls' : call.n = n /\ call.at = "kick_ref"
  BY DEF PendingAt, Calls
<1>1. PICK call \in Calls : call.n = n /\ call.at = "kick_ref"
  BY DEF Pending
<1> QED
  BY <1>1, CallKept

\* The same for a coroutine that has parked.
LEMMA KickKept ==
  ASSUME NEW x \in Threads, Kept(x), Pending, NoMissedKick, NEW n \in Nodes,
         Quiet(x) \/ stack[x][1].at \notin {"kick", "kick_ref"} \/ stack[x][1].n # n,
         kick_pending'[n] => kick_pending[n], Kicks(n) \subseteq Kicks(n)',
         coro'[n] = "parked" /\ requested'[n] => coro[n] = "parked" /\ requested[n]
  PROVE  PendingAt(n)' /\ (n \in Tasks => KickedAt(n)')
<1>1. ASSUME NEW call \in Calls, call.n = n, call.at \in {"kick", "kick_ref"} PROVE call \in Calls'
  BY <1>1, CallKept
<1>2. PendingAt(n)'
  BY PendingKept
<1>3. ASSUME n \in Tasks PROVE KickedAt(n)'
  <2> SUFFICES ASSUME coro'[n] = "parked", requested'[n], Kicks(n)' = {}
               PROVE  Call("cancel", n, "kick") \in Calls' \/ Call("cancel", n, "kick_ref") \in Calls'
    BY DEF KickedAt, Calls
  <2>1. Call("cancel", n, "kick") \in Calls \/ Call("cancel", n, "kick_ref") \in Calls
    BY <1>3 DEF NoMissedKick
  <2>2. /\ Call("cancel", n, "kick").n = n /\ Call("cancel", n, "kick_ref").n = n
        /\ Call("cancel", n, "kick").at = "kick" /\ Call("cancel", n, "kick_ref").at = "kick_ref"
    BY DEF Call
  <2> QED
    BY <1>1, <2>1, <2>2
<1> QED
  BY <1>2, <1>3

(***************************************************************************)
(* Steps outside request_cancel()                                          *)
(***************************************************************************)

\* x was in no cancellation, and starts no walk.
Simple(x) ==
  /\ \A y \in Threads \ {x} : stack'[y] = stack[y]
  /\ \A i \in 1..Len(stack[x]) : i = 1 /\ stack[x][1].fn # "cancel"
  /\ \A j \in 1..Len(stack'[x]) : stack'[x][j].at # "walk"

\* A coroutine does something on a worker that is in no call.
LEMMA QuietIsSimple ==
  ASSUME NEW x \in Threads, Quiet(x), stack' = stack
  PROVE  Simple(x)
<1>1. Len(stack[x]) = 0 /\ Len(stack'[x]) = 0
  BY DEF Quiet
<1>2. 1..Len(stack[x]) = {} /\ 1..Len(stack'[x]) = {}
  BY <1>1
<1> QED
  BY <1>2 DEF Simple

\* A thread begins a call.
LEMMA EnterIsSimple ==
  ASSUME TypeOK, NEW x \in Threads, Quiet(x), NEW c \in CallRecords, c.at = "begin", Enter(x, <<c>>)
  PROVE  Simple(x)
<1>1. Len(stack[x]) = 0
  BY DEF Quiet
<1>2. 1..Len(stack[x]) = {}
  BY <1>1
<1>3. stack'[x] = <<c>> /\ \A y \in Threads \ {x} : stack'[y] = stack[y]
  BY EnterQuiet
<1>4. Len(stack'[x]) = 1 /\ stack'[x][1] = c
  BY <1>3
<1>5. \A j \in 1..Len(stack'[x]) : stack'[x][j].at # "walk"
  BY <1>4
<1> QED
  BY <1>2, <1>3, <1>5 DEF Simple

\* A call that is not a cancellation returns.
LEMMA ReturnIsSimple ==
  ASSUME TypeOK, Frames, NEW x \in Threads, ~Quiet(x), stack[x][1].fn # "cancel", Return(x)
  PROVE  Simple(x)
<1>1. Len(stack[x]) = 1
  BY OnlyCall
<1>2. Len(stack'[x]) = Len(stack[x]) - 1 /\ \A y \in Threads \ {x} : stack'[y] = stack[y]
  BY ReturnEffect
<1>3. Len(stack'[x]) = 0
  BY <1>1, <1>2
<1>4. 1..Len(stack'[x]) = {}
  BY <1>3
<1>5. \A i \in 1..Len(stack[x]) : i = 1
  BY <1>1
<1> QED
  BY <1>2, <1>4, <1>5 DEF Simple

\* A call that is not a cancellation goes on.
LEMMA GotoIsSimple ==
  ASSUME TypeOK, Frames, NEW x \in Threads, ~Quiet(x), stack[x][1].fn # "cancel",
         NEW at \in Points, at # "walk", Goto(x, at)
  PROVE  Simple(x)
<1>1. Len(stack[x]) = 1 /\ stack[x][1] \in CallRecords
  BY OnlyCall
<1>2. /\ Len(stack'[x]) = Len(stack[x]) /\ \A y \in Threads \ {x} : stack'[y] = stack[y]
      /\ stack'[x][1] = [stack[x][1] EXCEPT !.at = at]
  BY GotoEffect
<1>3. stack'[x][1].at = at
  BY <1>1, <1>2 DEF CallRecords
<1>4. Len(stack'[x]) = 1
  BY <1>1, <1>2
<1>5. /\ \A i \in 1..Len(stack[x]) : i = 1
      /\ \A j \in 1..Len(stack'[x]) : j = 1
  BY <1>1, <1>4
<1> QED
  BY <1>2, <1>3, <1>5 DEF Simple

\* A release goes on with the parent.
LEMMA ReplaceIsSimple ==
  ASSUME TypeOK, Frames, NEW x \in Threads, ~Quiet(x), stack[x][1].fn # "cancel",
         NEW c \in CallRecords, c.at = "begin", Replace(x, c)
  PROVE  Simple(x)
<1>1. Len(stack[x]) = 1
  BY OnlyCall
<1>2. stack \in [Threads -> Seq(CallRecords)]
  BY DEF TypeOK, CallRecords
<1>3. stack[x] \in Seq(CallRecords)
  BY <1>2
<1>4. <<c>> \o Tail(stack[x]) = <<c>>
  BY <1>1, <1>3, OverOne
<1>5. stack'[x] = <<c>> /\ \A y \in Threads \ {x} : stack'[y] = stack[y]
  BY <1>2, <1>4 DEF Replace
<1>6. Len(stack'[x]) = 1 /\ stack'[x][1] = c
  BY <1>5
<1>7. /\ \A i \in 1..Len(stack[x]) : i = 1
      /\ \A j \in 1..Len(stack'[x]) : j = 1
  BY <1>1, <1>6
<1> QED
  BY <1>5, <1>6, <1>7 DEF Simple

\* ~TaskScope() begins to cancel and then to release.
LEMMA BothIsSimple ==
  ASSUME TypeOK, NEW x \in Threads, Quiet(x), NEW a \in CallRecords, NEW c \in CallRecords,
         a.at = "begin", c.at = "begin", Enter(x, <<a, c>>)
  PROVE  Simple(x)
<1>1. Len(stack[x]) = 0
  BY DEF Quiet
<1>2. 1..Len(stack[x]) = {}
  BY <1>1
<1>3. stack \in [Threads -> Seq(CallRecords)]
  BY DEF TypeOK, CallRecords
<1>4. <<a, c>> \o stack[x] = <<a, c>>
  BY DEF Quiet
<1>5. stack'[x] = <<a, c>> /\ \A y \in Threads \ {x} : stack'[y] = stack[y]
  BY <1>3, <1>4 DEF Enter
<1>6. Len(stack'[x]) = 2 /\ stack'[x][1] = a /\ stack'[x][2] = c
  BY <1>5
<1>7. \A j \in 1..Len(stack'[x]) : j = 1 \/ j = 2
  BY <1>6
<1> QED
  BY <1>2, <1>5, <1>6, <1>7 DEF Simple

\* What is linked is a node.
LEMMA ChildrenAreNodesNext ==
  ASSUME TypeOK'
  PROVE  \A p \in Nodes : InList(children'[p]) \subseteq Nodes
BY DEF TypeOK, InList

\* Walks, and what they will reach, after a step that is not of a cancellation.
LEMMA SimpleReach ==
  ASSUME LifeInv, TypeOK', Walked, CancelReachesChildren, NEW x \in Threads, Simple(x),
         \A m \in Nodes : requested[m] => requested'[m],
         \A y \in Threads : \A i \in 1..Len(stack[y]) :
           stack[y][i].at = "walk" => children'[stack[y][i].n] = children[stack[y][i].n],
         \A p \in Nodes : ~requested[p] /\ requested'[p] => InList(children'[p]) = {},
         \A p, c \in Nodes : requested[p] /\ c \in InList(children'[p]) => c \in InList(children[p]) \/ requested'[c]
  PROVE  Walked' /\ CancelReachesChildren' /\ Kept(x)
<1>1. Kept(x) /\ Came(x)
  BY KeptElsewhere DEF Simple, LifeInv
<1>2. 1 \in 1..Len(stack[x]) => stack[x][1].fn # "cancel"
  BY DEF Simple
<1>3. \A c \in Nodes : ~(1 \in 1..Len(stack[x]) /\ stack[x][1] = Call("cancel", c, "begin"))
  BY <1>2 DEF Call
<1>4. \A p, c \in Nodes : ~(1 \in 1..Len(stack[x]) /\ ReachedBy(x, 1, p, c))
  BY <1>2 DEF ReachedBy
<1>5. \A p \in Nodes : InList(children'[p]) \subseteq Nodes
  BY ChildrenAreNodesNext
<1>6. \A p, c \in Nodes : ~(~requested[p] /\ requested'[p] /\ c \in InList(children'[p]))
  OBVIOUS
<1> QED
  BY <1>1, <1>3, <1>4, <1>5, <1>6, ReachKept

\* The same when no flag and no list of children changes, and no kick.
LEMMA SimpleReachInv ==
  ASSUME LifeInv, TypeOK', ReachInv, NEW x \in Threads, Simple(x),
         UNCHANGED <<requested, children, kick_pending, kick_q>>,
         Quiet(x) \/ stack[x][1].at \notin {"kick", "kick_ref"},
         \A n \in Nodes : coro'[n] = "parked" /\ requested[n] => coro[n] = "parked"
  PROVE  ReachInv'
<1>1. Walked' /\ CancelReachesChildren' /\ Kept(x)
  BY SimpleReach DEF ReachInv, CancelMissesNobody
<1>2. ASSUME NEW n \in Nodes PROVE PendingAt(n)' /\ (n \in Tasks => KickedAt(n)')
  <2>1. Kicks(n)' = Kicks(n)
    BY DEF Kicks
  <2> QED
    BY <1>1, <2>1, KickKept DEF ReachInv, CancelMissesNobody
<1> QED
  BY <1>1, <1>2, PendingSplitNext, KickedSplitNext DEF ReachInv, CancelMissesNobody, Nodes

\* The beginning of a call.
LEMMA BeginCall ==
  ASSUME NEW fn \in {"spawn", "adopt", "cancel", "release"}, NEW n \in Nodes
  PROVE  Call(fn, n, "begin") \in CallRecords /\ Call(fn, n, "begin").at = "begin"
BY DEF Call, CallRecords, Points

\* The steps of the coroutine and of its adoption.
LEMMA CoroutineReach ==
  ASSUME LifeInv, LifeInv', ReachInv, NEW w \in Workers, NEW n \in Tasks,
         Adopt(w, n) \/ Park(w, n) \/ Wake(w, n) \/ Complete(w, n)
  PROVE  ReachInv'
<1>1. w \in Threads /\ n \in Nodes /\ TypeOK /\ TypeOK'
  BY DEF Threads, Nodes, LifeInv
<1>2. Quiet(w) /\ UNCHANGED <<requested, children, kick_pending, kick_q>>
  BY DEF Adopt, Park, Wake, Complete, treevars, kickvars
<1>3. Simple(w)
  <2>1. CASE Adopt(w, n)
    BY <1>1, <1>2, <2>1, BeginCall, EnterIsSimple DEF Adopt
  <2>2. CASE Park(w, n) \/ Wake(w, n)
    BY <1>1, <1>2, <2>2, QuietIsSimple DEF Park, Wake
  <2>3. CASE Complete(w, n)
    BY <1>1, <1>2, <2>3, BeginCall, EnterIsSimple DEF Complete
  <2> QED
    BY <2>1, <2>2, <2>3
<1>4. coro \in [Nodes -> {"none", "queued", "running", "parked", "done"}]
  BY <1>1 DEF TypeOK
<1>5. ASSUME NEW m \in Nodes, coro'[m] = "parked", requested[m] PROVE coro[m] = "parked"
  BY <1>1, <1>4, <1>5 DEF Adopt, Park, Wake, Complete
<1> QED
  BY <1>1, <1>2, <1>3, <1>5, SimpleReachInv

\* The end of spawn_under().
LEMMA SpawnPublishReach ==
  ASSUME LifeInv, LifeInv', ReachInv, NEW x \in Threads, SpawnPublish(x)
  PROVE  ReachInv'
<1>1. /\ ~Quiet(x) /\ Head(stack[x]).fn = "spawn" /\ Head(stack[x]).at = "begin"
      /\ Return(x) \/ Replace(x, Call("release", Top(x), "begin"))
      /\ coro' = [coro EXCEPT ![Top(x)] = IF owner_tid[Top(x)] = None THEN "queued" ELSE "running"]
      /\ UNCHANGED <<requested, children, kick_pending, kick_q>>
  BY DEF SpawnPublish, At, treevars, kickvars
<1>2. TypeOK /\ TypeOK' /\ Frames
  BY DEF LifeInv
<1>3. Head(stack[x]) = stack[x][1] /\ Top(x) \in Nodes
  BY <1>1, <1>2, TopFacts
<1>4. Simple(x)
  BY <1>1, <1>2, <1>3, BeginCall, ReturnIsSimple, ReplaceIsSimple
<1>5. coro \in [Nodes -> {"none", "queued", "running", "parked", "done"}]
  BY <1>2 DEF TypeOK
<1>6. ASSUME NEW m \in Nodes, coro'[m] = "parked" PROVE coro[m] = "parked"
  BY <1>1, <1>3, <1>5, <1>6
<1> QED
  BY <1>1, <1>2, <1>3, <1>4, <1>6, SimpleReachInv

\* A worker that adopts a task looks at its flag.
LEMMA AdoptCheckReach ==
  ASSUME LifeInv, LifeInv', ReachInv, NEW x \in Threads, AdoptCheck(x)
  PROVE  ReachInv'
<1>1. /\ ~Quiet(x) /\ Head(stack[x]).fn = "adopt" /\ Head(stack[x]).at = "begin"
      /\ \/ Goto(x, "kick") /\ coro' = coro
         \/ coro' = [coro EXCEPT ![Top(x)] = "running"] /\ Return(x)
      /\ UNCHANGED <<requested, children, kick_pending, kick_q>>
  BY DEF AdoptCheck, At, treevars, kickvars
<1>2. TypeOK /\ TypeOK' /\ Frames
  BY DEF LifeInv
<1>3. Head(stack[x]) = stack[x][1] /\ Top(x) \in Nodes
  BY <1>1, <1>2, TopFacts
<1>4. Simple(x)
  <2>1. "kick" \in Points
    BY DEF Points
  <2> QED
    BY <1>1, <1>2, <1>3, <2>1, ReturnIsSimple, GotoIsSimple
<1>5. coro \in [Nodes -> {"none", "queued", "running", "parked", "done"}]
  BY <1>2 DEF TypeOK
<1>6. ASSUME NEW m \in Nodes, coro'[m] = "parked" PROVE coro[m] = "parked"
  BY <1>1, <1>3, <1>5, <1>6
<1> QED
  BY <1>1, <1>2, <1>3, <1>4, <1>6, SimpleReachInv

\* cancel() is called on a handle or a scope.
LEMMA CallCancelReach ==
  ASSUME LifeInv, LifeInv', ReachInv, NEW x \in Threads, NEW n \in Nodes, CallCancel(x, n)
  PROVE  ReachInv'
<1>1. /\ Quiet(x) /\ Enter(x, <<Call("cancel", n, "begin")>>)
      /\ UNCHANGED <<requested, children, kick_pending, kick_q, coro>>
  BY DEF CallCancel, treevars, kickvars
<1>2. TypeOK /\ TypeOK' /\ x \in Threads
  BY DEF LifeInv, Threads
<1>3. Simple(x)
  BY <1>1, <1>2, BeginCall, EnterIsSimple
<1> QED
  BY <1>1, <1>2, <1>3, SimpleReachInv

\* A handle or a scope goes out of scope.
LEMMA DropHandleReach ==
  ASSUME LifeInv, LifeInv', ReachInv, NEW x \in Threads, NEW n \in Nodes, DropHandle(x, n)
  PROVE  ReachInv'
<1>1. /\ Quiet(x)
      /\ \/ Enter(x, <<Call("cancel", n, "begin"), Call("release", n, "begin")>>)
         \/ Enter(x, <<Call("release", n, "begin")>>)
      /\ UNCHANGED <<requested, children, kick_pending, kick_q, coro>>
  BY DEF DropHandle, Holds, Runs, BelongsTo, treevars, kickvars
<1>2. TypeOK /\ TypeOK' /\ x \in Threads
  BY DEF LifeInv, Threads
<1>3. Simple(x)
  BY <1>1, <1>2, BeginCall, EnterIsSimple, BothIsSimple
<1> QED
  BY <1>1, <1>2, <1>3, SimpleReachInv

\* A reference is dropped.
LEMMA ReleaseDecReach ==
  ASSUME LifeInv, LifeInv', ReachInv, NEW x \in Threads, ReleaseDec(x)
  PROVE  ReachInv'
<1>1. /\ ~Quiet(x) /\ Head(stack[x]).fn = "release" /\ Head(stack[x]).at = "begin"
      /\ Return(x) \/ Goto(x, "delete") \/ Goto(x, "unlink")
      /\ UNCHANGED <<requested, children, kick_pending, kick_q, coro>>
  BY DEF ReleaseDec, At, treevars, kickvars
<1>2. TypeOK /\ TypeOK' /\ Frames
  BY DEF LifeInv
<1>3. Head(stack[x]) = stack[x][1]
  BY <1>1, <1>2, TopFacts
<1>4. Simple(x)
  <2>1. "delete" \in Points /\ "unlink" \in Points
    BY DEF Points
  <2> QED
    BY <1>1, <1>2, <1>3, <2>1, ReturnIsSimple, GotoIsSimple
<1> QED
  BY <1>1, <1>2, <1>3, <1>4, SimpleReachInv

\* A state is deleted.
LEMMA ReleaseDeleteReach ==
  ASSUME LifeInv, LifeInv', ReachInv, NEW x \in Threads, ReleaseDelete(x)
  PROVE  ReachInv'
<1>1. /\ ~Quiet(x) /\ Head(stack[x]).fn = "release" /\ Head(stack[x]).at = "delete"
      /\ \/ Return(x)
         \/ Parent[Top(x)] # None /\ Replace(x, Call("release", Parent[Top(x)], "begin"))
      /\ UNCHANGED <<requested, children, kick_pending, kick_q, coro>>
  BY DEF ReleaseDelete, At, treevars, kickvars
<1>2. TypeOK /\ TypeOK' /\ Frames
  BY DEF LifeInv
<1>3. Head(stack[x]) = stack[x][1] /\ Top(x) \in Nodes
  BY <1>1, <1>2, TopFacts
<1>4. CASE Return(x)
  <2>1. Simple(x)
    BY <1>1, <1>2, <1>3, <1>4, ReturnIsSimple
  <2> QED
    BY <1>1, <1>2, <1>3, <2>1, SimpleReachInv
<1>5. CASE Parent[Top(x)] # None /\ Replace(x, Call("release", Parent[Top(x)], "begin"))
  <2>1. Parent[Top(x)] \in Nodes
    BY <1>3, <1>5, TreeAssumption
  <2>2. Simple(x)
    BY <1>1, <1>2, <1>3, <1>5, <2>1, BeginCall, ReplaceIsSimple
  <2> QED
    BY <1>1, <1>2, <1>3, <2>2, SimpleReachInv
<1> QED
  BY <1>1, <1>4, <1>5

\* Nobody walks a list that is being changed.
LEMMA ReleaseUnlinkReach ==
  ASSUME LifeInv, LifeInv', ReachInv, NEW x \in Threads, ReleaseUnlink(x)
  PROVE  ReachInv'
<1>1. /\ ~Quiet(x) /\ Head(stack[x]).fn = "release" /\ Head(stack[x]).at = "unlink"
      /\ tree_lock[Parent[Top(x)]] = None
      /\ children' = [children EXCEPT ![Parent[Top(x)]] = remove_locked(@, Top(x))]
      /\ Goto(x, "delete")
      /\ UNCHANGED <<requested, kick_pending, kick_q, coro>>
  BY DEF ReleaseUnlink, At, kickvars
<1>2. TypeOK /\ TypeOK' /\ Frames /\ Linked
  BY DEF LifeInv
<1>3. /\ Head(stack[x]) = stack[x][1] /\ Top(x) = stack[x][1].n /\ Top(x) \in Nodes
      /\ Local(x, stack[x][1], 1 = Len(stack[x]))
  BY <1>1, <1>2, TopFacts
<1>4. PICK n \in Nodes : n = Top(x)
  BY <1>3
<1>5. Parent[n] # None
  BY <1>1, <1>3, <1>4 DEF Local
<1>6. PICK p \in Nodes : p = Parent[n]
  BY <1>5, TreeAssumption
<1>7. /\ \A m \in Nodes \ {p} : children'[m] = children[m]
      /\ InList(children'[p]) \subseteq InList(children[p])
  <2>1. children \in [Nodes -> Seq(Nodes)] /\ Distinct(children[p])
    BY <1>2 DEF TypeOK, Linked
  <2>2. PICK l : l = remove_locked(children[p], n)
    OBVIOUS
  <2>3. InList(l) = InList(children[p]) \ {n}
    BY <2>1, <2>2, RemoveChild
  <2>4. children' = [children EXCEPT ![p] = l]
    BY <1>1, <1>4, <1>6, <2>2
  <2>5. children'[p] = l /\ \A m \in Nodes \ {p} : children'[m] = children[m]
    BY <2>1, <2>4
  <2> QED
    BY <2>3, <2>5
<1>8. ASSUME NEW y \in Threads, NEW i \in 1..Len(stack[y]), stack[y][i].at = "walk"
      PROVE  children'[stack[y][i].n] = children[stack[y][i].n]
  <2>1. stack[y][i].n \in Nodes /\ Local(y, stack[y][i], i = Len(stack[y]))
    BY CallFacts
  <2>2. tree_lock[stack[y][i].n] = y
    BY <1>8, <2>1 DEF Local
  <2>3. stack[y][i].n # p
    BY <1>1, <1>4, <1>6, <2>2, TreeAssumption DEF Threads
  <2> QED
    BY <1>7, <2>1, <2>3
<1>9. Simple(x)
  <2>1. "delete" \in Points
    BY DEF Points
  <2> QED
    BY <1>1, <1>2, <1>3, <2>1, GotoIsSimple
<1>10. \A m, c \in Nodes : requested[m] /\ c \in InList(children'[m]) => c \in InList(children[m])
  BY <1>7
<1>11. Walked' /\ CancelReachesChildren' /\ Kept(x)
  BY <1>1, <1>2, <1>8, <1>9, <1>10, SimpleReach DEF ReachInv, CancelMissesNobody
<1>12. ASSUME NEW m \in Nodes PROVE PendingAt(m)' /\ (m \in Tasks => KickedAt(m)')
  <2>1. Kicks(m)' = Kicks(m)
    BY <1>1 DEF Kicks
  <2> QED
    BY <1>1, <1>3, <1>11, <2>1, KickKept DEF ReachInv, CancelMissesNobody
<1> QED
  BY <1>11, <1>12, PendingSplitNext, KickedSplitNext DEF ReachInv, CancelMissesNobody, Nodes

\* A new child has the flag of its parent.
LEMMA LinkingReach ==
  ASSUME LifeInv, TypeOK', Fresh, ReachInv, NEW x \in Threads, Quiet(x), Simple(x),
         NEW c \in Nodes, life[c] = "none", Link(c),
         Parent[c] # None => handle[Parent[c]] \/ Active(Parent[c]),
         UNCHANGED <<kick_pending, kick_q, coro>>
  PROVE  ReachInv'
<1>1. PICK p : p = Parent[c]
  OBVIOUS
<1>2. /\ p # c /\ (p # None => p \in Nodes /\ tree_lock[p] = None)
      /\ requested'[c] = requested[IF p = None THEN c ELSE p]
      /\ \A m \in Nodes \ {c} : requested'[m] = requested[m]
      /\ \A m \in Nodes :
           InList(children'[m]) = IF m = p THEN InList(children[m]) \cup {c} ELSE InList(children[m])
      /\ \A m \in Nodes : m # p => children'[m] = children[m]
      /\ InList(children[c]) = {}
  <2>1. /\ Parent[c] # c
        /\ Parent[c] # None => Parent[c] \in Nodes /\ tree_lock[Parent[c]] = None
        /\ requested'[c] = requested[IF Parent[c] = None THEN c ELSE Parent[c]]
        /\ \A m \in Nodes \ {c} : requested'[m] = requested[m]
        /\ \A m \in Nodes :
             InList(children'[m]) = IF m = Parent[c] THEN InList(children[m]) \cup {c} ELSE InList(children[m])
        /\ \A m \in Nodes : m # Parent[c] => children'[m] = children[m]
        /\ InList(children[c]) = {}
    BY Linking
  <2> QED
    BY <1>1, <2>1
<1>3. coro[c] = "none" /\ ~requested[c] /\ None \notin Threads /\ None \notin Nodes
  BY TreeAssumption DEF LifeInv, Alive, Fresh
<1>4. ASSUME NEW y \in Threads, NEW i \in 1..Len(stack[y]), stack[y][i].at = "walk"
      PROVE  children'[stack[y][i].n] = children[stack[y][i].n]
  <2>1. stack[y][i].n \in Nodes /\ Local(y, stack[y][i], i = Len(stack[y]))
    BY CallFacts
  <2>2. tree_lock[stack[y][i].n] = y
    BY <1>4, <2>1 DEF Local
  <2>3. stack[y][i].n # p
    BY <1>2, <1>3, <2>1, <2>2
  <2> QED
    BY <1>2, <2>1, <2>3
<1>5. \A m \in Nodes : requested[m] => requested'[m]
  BY <1>2, <1>3
<1>6. \A m \in Nodes : ~requested[m] /\ requested'[m] => InList(children'[m]) = {}
  BY <1>2
<1>7. ASSUME NEW m \in Nodes, NEW e \in Nodes, requested[m], e \in InList(children'[m])
      PROVE  e \in InList(children[m]) \/ requested'[e]
  <2>1. CASE m = p
    BY <1>2, <1>3, <1>7, <2>1
  <2>2. CASE m # p
    BY <1>2, <1>7, <2>2
  <2> QED
    BY <2>1, <2>2
<1>8. Walked' /\ CancelReachesChildren' /\ Kept(x)
  BY <1>4, <1>5, <1>6, <1>7, SimpleReach DEF ReachInv, CancelMissesNobody
<1>9. ASSUME NEW m \in Nodes PROVE PendingAt(m)' /\ (m \in Tasks => KickedAt(m)')
  <2>1. Kicks(m)' = Kicks(m)
    BY DEF Kicks
  <2>2. coro'[m] = "parked" /\ requested'[m] => coro[m] = "parked" /\ requested[m]
    BY <1>2, <1>3
  <2> QED
    BY <1>8, <2>1, <2>2, KickKept DEF ReachInv, CancelMissesNobody
<1> QED
  BY <1>8, <1>9, PendingSplitNext, KickedSplitNext DEF ReachInv, CancelMissesNobody, Nodes

\* A task is spawned.
LEMMA SpawnLinkReach ==
  ASSUME LifeInv, LifeInv', Fresh, ReachInv, NEW x \in Threads, NEW c \in Tasks,
         NEW tid \in Workers \cup {None}, SpawnLink(x, c, tid)
  PROVE  ReachInv'
<1>1. /\ Quiet(x) /\ life[c] = "none" /\ Link(c) /\ c \in Nodes
      /\ Enter(x, <<Call("spawn", c, "begin")>>)
      /\ UNCHANGED <<kick_pending, kick_q, coro>>
  BY DEF SpawnLink, Nodes
<1>2. Parent[c] # None => handle[Parent[c]] \/ Active(Parent[c])
  BY SpawnParent DEF SpawnLink
<1>3. TypeOK /\ TypeOK'
  BY DEF LifeInv
<1>4. Simple(x)
  BY <1>1, <1>3, BeginCall, EnterIsSimple
<1> QED
  BY <1>1, <1>2, <1>3, <1>4, LinkingReach

\* A scope is opened.
LEMMA NewScopeReach ==
  ASSUME LifeInv, LifeInv', Fresh, ReachInv, NEW x \in Threads, NEW s \in Scopes, NewScope(x, s)
  PROVE  ReachInv'
<1>1. /\ Quiet(x) /\ life[s] = "none" /\ Link(s) /\ s \in Nodes
      /\ UNCHANGED <<kick_pending, kick_q, coro, stack>>
  BY DEF NewScope, kickvars, Nodes
<1>2. Parent[s] # None => handle[Parent[s]] \/ Active(Parent[s])
  BY ScopeParent
<1>3. TypeOK' /\ Simple(x)
  BY <1>1, QuietIsSimple DEF LifeInv
<1> QED
  BY <1>1, <1>2, <1>3, LinkingReach

\* The flag that link() copies is that of a state that is alive.
LEMMA FreshLink ==
  ASSUME TypeOK, Fresh, NEW c \in Nodes, Link(c), life' = [life EXCEPT ![c] = "live"]
  PROVE  Fresh'
<1>1. /\ requested \in [Nodes -> BOOLEAN] /\ life \in [Nodes -> {"none", "live", "freed"}]
  BY DEF TypeOK
<1>2. life'[c] = "live" /\ \A m \in Nodes \ {c} : life'[m] = life[m]
  BY <1>1
<1>3. \A m \in Nodes \ {c} : requested'[m] = requested[m]
  BY <1>1 DEF Link
<1> QED
  BY <1>2, <1>3 DEF Fresh

\* A state is cancelled only while it exists.
LEMMA FreshStep == ASSUME LifeInv, Fresh, [Next]_vars PROVE Fresh'
<1>1. /\ requested \in [Nodes -> BOOLEAN] /\ life \in [Nodes -> {"none", "live", "freed"}]
      /\ TypeOK /\ Frames
  BY DEF LifeInv, TypeOK
<1>2. CASE UNCHANGED <<life, requested>>
  BY <1>2 DEF Fresh
<1>3. ASSUME NEW x \in Threads, CancelExchange(x) PROVE Fresh'
  <2>1. /\ ~Quiet(x) /\ requested' = [requested EXCEPT ![Top(x)] = TRUE] /\ life' = life
    BY <1>3 DEF CancelExchange, At
  <2>2. Top(x) \in Nodes /\ life[Top(x)] = "live"
    BY <1>1, <2>1, TopFacts DEF Local
  <2> QED
    BY <1>1, <2>1, <2>2 DEF Fresh
<1>4. ASSUME NEW x \in Threads, ReleaseDelete(x) PROVE Fresh'
  <2>1. ~Quiet(x) /\ requested' = requested /\ life' = [life EXCEPT ![Top(x)] = "freed"]
    BY <1>4 DEF ReleaseDelete, At, treevars
  <2>2. Top(x) \in Nodes
    BY <1>1, <2>1, TopFacts
  <2> QED
    BY <1>1, <2>1, <2>2 DEF Fresh
<1>5. ASSUME NEW x \in Threads, NEW c \in Tasks, NEW tid \in Workers \cup {None}, SpawnLink(x, c, tid)
      PROVE  Fresh'
  BY <1>1, <1>5, FreshLink DEF SpawnLink, Nodes
<1>11. ASSUME NEW x \in Threads, NEW s \in Scopes, NewScope(x, s) PROVE Fresh'
  BY <1>1, <1>11, FreshLink DEF NewScope, Nodes
<1>6. ASSUME NEW x \in Threads, Step(x) PROVE Fresh'
  BY <1>2, <1>3, <1>4, <1>6 DEF Step, SpawnPublish, AdoptCheck, KickClaim, KickPush, CancelLock,
     CancelWalk, ReleaseDec, ReleaseUnlink, treevars
<1>7. ASSUME NEW x \in Threads, NEW n \in Nodes, CallCancel(x, n) \/ DropHandle(x, n) PROVE Fresh'
  BY <1>2, <1>7 DEF CallCancel, DropHandle, treevars
<1>8. ASSUME NEW w \in Workers, ProcessKick(w) PROVE Fresh'
  BY <1>2, <1>8 DEF ProcessKick, treevars
<1>9. ASSUME NEW w \in Workers, NEW n \in Tasks, Adopt(w, n) \/ Park(w, n) \/ Wake(w, n) \/ Complete(w, n)
      PROVE  Fresh'
  BY <1>2, <1>9 DEF Adopt, Park, Wake, Complete, treevars
<1>10. CASE UNCHANGED vars
  BY <1>2, <1>10 DEF vars, treevars
<1> QED
  BY <1>5, <1>6, <1>7, <1>8, <1>9, <1>10, <1>11 DEF Next, Finished

\* A kick that is processed finds its coroutine parked and resumes it, or not parked.
LEMMA ProcessKickReach ==
  ASSUME LifeInv, LifeInv', ReachInv, NEW w \in Workers, ProcessKick(w)
  PROVE  ReachInv'
<1>1. /\ Quiet(w) /\ kick_q[w] # <<>>
      /\ kick_q' = [kick_q EXCEPT ![w] = Tail(@)]
      /\ kick_pending' = [kick_pending EXCEPT ![Head(kick_q[w])] = FALSE]
      /\ coro' = [coro EXCEPT ![Head(kick_q[w])] = IF @ = "parked" THEN "running" ELSE @]
      /\ Enter(w, <<Call("release", Head(kick_q[w]), "begin")>>)
      /\ UNCHANGED <<requested, children>>
  BY DEF ProcessKick, treevars
<1>2. TypeOK /\ TypeOK' /\ Queued /\ w \in Threads
  BY DEF LifeInv, Threads
<1>3. /\ kick_q \in [Workers -> Seq(Tasks)] /\ kick_pending \in [Nodes -> BOOLEAN]
      /\ coro \in [Nodes -> {"none", "queued", "running", "parked", "done"}]
  BY <1>2 DEF TypeOK
<1>4. PICK n : n = Head(kick_q[w])
  OBVIOUS
<1>5. n \in Nodes /\ InList(Tail(kick_q[w])) = InList(kick_q[w]) \ {n}
  <2>1. kick_q[w] \in Seq(Tasks) /\ Distinct(kick_q[w])
    BY <1>2, <1>3 DEF Queued
  <2> QED
    BY <1>1, <1>4, <2>1, QueueTail DEF Nodes
<1>6. /\ kick_q'[w] = Tail(kick_q[w])
      /\ \A v \in Workers \ {w} : kick_q'[v] = kick_q[v]
  BY <1>1, <1>3
<1>7. \A m \in Nodes \ {n} : Kicks(m) \subseteq Kicks(m)'
  BY <1>5, <1>6 DEF Kicks
<1>8. ~kick_pending'[n] /\ \A m \in Nodes \ {n} : kick_pending'[m] = kick_pending[m]
  BY <1>1, <1>3, <1>4, <1>5
<1>9. coro'[n] # "parked" /\ \A m \in Nodes \ {n} : coro'[m] = coro[m]
  BY <1>1, <1>3, <1>4, <1>5
<1>10. Simple(w)
  <2>1. Enter(w, <<Call("release", n, "begin")>>)
    BY <1>1, <1>4
  <2> QED
    BY <1>1, <1>2, <1>5, <2>1, BeginCall, EnterIsSimple
<1>11. Walked' /\ CancelReachesChildren' /\ Kept(w)
  BY <1>1, <1>2, <1>10, SimpleReach DEF ReachInv, CancelMissesNobody
<1>12. ASSUME NEW m \in Nodes PROVE PendingAt(m)' /\ (m \in Tasks => KickedAt(m)')
  <2>1. CASE m = n
    BY <1>8, <1>9, <2>1 DEF PendingAt, KickedAt
  <2>2. CASE m # n
    BY <1>1, <1>2, <1>7, <1>8, <1>9, <1>11, <2>2, KickKept DEF ReachInv, CancelMissesNobody
  <2> QED
    BY <2>1, <2>2
<1> QED
  BY <1>11, <1>12, PendingSplitNext, KickedSplitNext DEF ReachInv, CancelMissesNobody, Nodes

(***************************************************************************)
(* Steps of request_cancel() and kick()                                    *)
(***************************************************************************)

\* A call is determined by its fields.
LEMMA CallIs ==
  ASSUME NEW c \in CallRecords, NEW fn, NEW n, NEW at, c.fn = fn, c.n = n, c.at = at, c.next = 1
  PROVE  c = Call(fn, n, at)
BY DEF Call, CallRecords

\* A cancellation of n goes on, and will still come to all children of n.
LEMMA GotoReach ==
  ASSUME LifeInv, TypeOK', Walked, CancelReachesChildren, NEW x \in Threads, ~Quiet(x),
         stack[x][1].fn = "cancel", stack[x][1].at # "walk",
         NEW at \in {"kick", "kick_ref", "lock", "walk"}, Goto(x, at),
         children' = children,
         \A m \in Nodes \ {stack[x][1].n} : requested'[m] = requested[m],
         requested[stack[x][1].n] => requested'[stack[x][1].n],
         stack[x][1].at = "begin" => requested'[stack[x][1].n]
  PROVE  Walked' /\ CancelReachesChildren' /\ Kept(x)
<1>1. TypeOK /\ Frames
  BY DEF LifeInv
<1>2. /\ stack[x][1] \in CallRecords /\ 1 \in 1..Len(stack[x]) /\ stack[x][1].n \in Nodes
      /\ Local(x, stack[x][1], 1 = Len(stack[x]))
  BY <1>1, TopFacts DEF CallRecords
<1>3. PICK n \in Nodes : n = stack[x][1].n
  BY <1>2
<1>4. stack[x][1].next = 1 /\ at \in Points
  BY <1>2 DEF Local, Points
<1>5. /\ stack'[x][1] = [stack[x][1] EXCEPT !.at = at] /\ Len(stack'[x]) = Len(stack[x])
      /\ Len(stack[x]) \in Nat \ {0}
  BY <1>1, <1>4, GotoEffect
<1>6. stack'[x][1].fn = "cancel" /\ stack'[x][1].n = n /\ stack'[x][1].at = at /\ stack'[x][1].next = 1
  BY <1>2, <1>3, <1>4, <1>5 DEF CallRecords
<1>7. Kept(x) /\ Came(x)
  BY <1>1, <1>4, KeptGoto
<1>8. ASSUME NEW c \in InList(children[n]) PROVE WillReach(x, n, c)'
  <2>1. 1 \in 1..Len(stack'[x])
    BY <1>5
  <2>2. PICK j \in 1..Len(children[n]) : children[n][j] = c
    BY DEF InList
  <2>3. ReachedBy(x, 1, n, c)'
    BY <1>6, <2>2 DEF ReachedBy
  <2> QED
    BY <2>1, <2>3, ReachSplitNext
<1>9. \A m \in Nodes : requested[m] => requested'[m]
  OBVIOUS
<1>10. \A c \in Nodes : 1 \in 1..Len(stack[x]) /\ stack[x][1] = Call("cancel", c, "begin") => requested'[c]
  BY <1>2 DEF Call
<1>11. \A p, c \in Nodes : 1 \in 1..Len(stack[x]) /\ ReachedBy(x, 1, p, c) /\ c \in InList(children[p])
                               => WillReach(x, p, c)'
  <2> SUFFICES ASSUME NEW p \in Nodes, NEW c \in Nodes, ReachedBy(x, 1, p, c), c \in InList(children[p])
               PROVE  WillReach(x, p, c)'
    OBVIOUS
  <2>1. p = n
    BY <1>3 DEF ReachedBy
  <2> QED
    BY <1>8, <2>1
<1>12. \A p, c \in Nodes : /\ ~requested[p] /\ requested'[p] /\ c \in InList(children'[p])
                           => requested'[c] \/ WillReach(x, p, c)'
  <2> SUFFICES ASSUME NEW p \in Nodes, NEW c \in Nodes, ~requested[p], requested'[p], c \in InList(children[p])
               PROVE  WillReach(x, p, c)'
    OBVIOUS
  <2>1. p = n
    BY <1>3
  <2> QED
    BY <1>8, <2>1
<1>13. \A p \in Nodes : InList(children'[p]) \subseteq Nodes
  BY ChildrenAreNodesNext
<1> QED
  BY <1>7, <1>9, <1>10, <1>11, <1>12, <1>13, ReachKept

\* It returns, when it has nothing left to reach.
LEMMA ReturnReach ==
  ASSUME LifeInv, TypeOK', Walked, CancelReachesChildren, NEW x \in Threads, ~Quiet(x),
         stack[x][1].fn = "cancel", Return(x), children' = children,
         \A m \in Nodes : requested'[m] = requested[m],
         stack[x][1].at = "begin" => requested[stack[x][1].n],
         \A p, c \in Nodes : ~ReachedBy(x, 1, p, c)
  PROVE  Walked' /\ CancelReachesChildren' /\ Kept(x)
<1>1. Kept(x) /\ Came(x)
  BY KeptReturn DEF LifeInv
<1>2. \A c \in Nodes : 1 \in 1..Len(stack[x]) /\ stack[x][1] = Call("cancel", c, "begin") => requested'[c]
  BY DEF Call
<1>3. \A p \in Nodes : InList(children'[p]) \subseteq Nodes
  BY ChildrenAreNodesNext
<1> QED
  BY <1>1, <1>2, <1>3, ReachKept

\* request_cancel() of what is already cancelled leaves the rest to the other canceller.
LEMMA CancelExchangeReach ==
  ASSUME LifeInv, LifeInv', ReachInv, NEW x \in Threads, CancelExchange(x)
  PROVE  ReachInv'
<1>1. /\ ~Quiet(x) /\ Head(stack[x]).fn = "cancel" /\ Head(stack[x]).at = "begin"
      /\ requested' = [requested EXCEPT ![Top(x)] = TRUE]
      /\ IF requested[Top(x)] THEN Return(x) ELSE Goto(x, IF Top(x) \in Tasks THEN "kick" ELSE "lock")
      /\ UNCHANGED <<children, kick_pending, kick_q, coro>>
  BY DEF CancelExchange, At, kickvars
<1>2. TypeOK /\ TypeOK' /\ Frames
  BY DEF LifeInv
<1>3. /\ Head(stack[x]) = stack[x][1] /\ Top(x) = stack[x][1].n /\ Top(x) \in Nodes
      /\ Local(x, stack[x][1], 1 = Len(stack[x])) /\ stack[x][1] \in CallRecords
  BY <1>1, <1>2, TopFacts
<1>4. PICK n \in Nodes : n = Top(x)
  BY <1>3
<1>5. requested'[n] /\ \A m \in Nodes \ {n} : requested'[m] = requested[m]
  <2>1. requested \in [Nodes -> BOOLEAN]
    BY <1>2 DEF TypeOK
  <2> QED
    BY <1>1, <1>4, <2>1
<1>6. \A m \in Nodes : Kicks(m)' = Kicks(m)
  BY <1>1 DEF Kicks
<1>7. CASE requested[n]
  <2>1. Return(x) /\ \A m \in Nodes : requested'[m] = requested[m]
    <3>1. Return(x)
      BY <1>1, <1>4, <1>7
    <3>2. requested' = requested
      <4>1. requested \in [Nodes -> BOOLEAN]
        BY <1>2 DEF TypeOK
      <4>2. requested[n] = TRUE
        BY <1>7, <4>1
      <4> QED
        BY <1>1, <1>4, <4>1, <4>2
    <3> QED
      BY <3>1, <3>2
  <2>2. \A p, c \in Nodes : ~ReachedBy(x, 1, p, c)
    BY <1>1, <1>3 DEF ReachedBy
  <2>3. Walked' /\ CancelReachesChildren' /\ Kept(x)
    BY <1>1, <1>2, <1>3, <1>4, <1>7, <2>1, <2>2, ReturnReach DEF ReachInv, CancelMissesNobody
  <2>4. ASSUME NEW m \in Nodes PROVE PendingAt(m)' /\ (m \in Tasks => KickedAt(m)')
    BY <1>1, <1>3, <1>6, <2>1, <2>3, KickKept DEF ReachInv, CancelMissesNobody
  <2> QED
    BY <2>3, <2>4, PendingSplitNext, KickedSplitNext DEF ReachInv, CancelMissesNobody, Nodes
<1>8. CASE ~requested[n]
  <2>1. PICK at \in {"kick", "lock"} : at = IF n \in Tasks THEN "kick" ELSE "lock"
    OBVIOUS
  <2>2. Goto(x, at)
    BY <1>1, <1>4, <1>8, <2>1
  <2>3. Walked' /\ CancelReachesChildren' /\ Kept(x)
    BY <1>1, <1>2, <1>3, <1>4, <1>5, <2>2, GotoReach DEF ReachInv, CancelMissesNobody
  <2>4. \A m \in Nodes : PendingAt(m)'
    BY <1>1, <1>3, <1>6, <2>3, PendingKept DEF ReachInv
  <2>5. ASSUME NEW m \in Tasks PROVE KickedAt(m)'
    <3>1. CASE m # n
      BY <1>1, <1>3, <1>5, <1>6, <2>3, <3>1, KickKept DEF ReachInv, CancelMissesNobody, Nodes
    <3>2. CASE m = n
      <4>1. at = "kick" /\ at \in Points
        BY <2>1, <3>2 DEF Points
      <4>2. /\ stack' \in [Threads -> Seq(CallRecords)]
            /\ stack'[x][1] = [stack[x][1] EXCEPT !.at = at] /\ Len(stack'[x]) = Len(stack[x])
            /\ Len(stack[x]) \in Nat \ {0}
        BY <1>1, <1>2, <2>2, <4>1, GotoEffect
      <4>3. 1 \in 1..Len(stack'[x])
        BY <4>2
      <4>4. stack'[x][1] \in CallRecords
        BY <4>2, <4>3
      <4>5. stack[x][1].next = 1
        BY <1>1, <1>3 DEF Local
      <4>6. /\ stack'[x][1].fn = "cancel" /\ stack'[x][1].n = n /\ stack'[x][1].at = "kick"
            /\ stack'[x][1].next = 1
        BY <1>1, <1>3, <1>4, <4>1, <4>2, <4>5 DEF CallRecords
      <4>7. stack'[x][1] = Call("cancel", n, "kick")
        BY <4>4, <4>6, CallIs
      <4>8. Call("cancel", n, "kick") \in InList(stack'[x])
        BY <4>3, <4>7 DEF InList
      <4>9. Call("cancel", n, "kick") \in Calls'
        BY <4>8 DEF Calls
      <4> QED
        BY <3>2, <4>9 DEF KickedAt, Calls
    <3> QED
      BY <3>1, <3>2
  <2> QED
    BY <2>3, <2>4, <2>5, PendingSplitNext, KickedSplitNext DEF ReachInv, CancelMissesNobody, Nodes
<1> QED
  BY <1>7, <1>8

\* The lock is taken and the walk begins.
LEMMA CancelLockReach ==
  ASSUME LifeInv, LifeInv', ReachInv, NEW x \in Threads, CancelLock(x)
  PROVE  ReachInv'
<1>1. /\ ~Quiet(x) /\ Head(stack[x]).fn = "cancel" /\ Head(stack[x]).at = "lock" /\ Goto(x, "walk")
      /\ UNCHANGED <<requested, children, kick_pending, kick_q, coro>>
  BY DEF CancelLock, At, kickvars
<1>2. TypeOK /\ TypeOK' /\ Frames
  BY DEF LifeInv
<1>3. Head(stack[x]) = stack[x][1] /\ stack[x][1].n \in Nodes
  BY <1>1, <1>2, TopFacts
<1>4. Walked' /\ CancelReachesChildren' /\ Kept(x)
  BY <1>1, <1>2, <1>3, GotoReach DEF ReachInv, CancelMissesNobody
<1>5. \A m \in Nodes : Kicks(m)' = Kicks(m)
  BY <1>1 DEF Kicks
<1>6. ASSUME NEW m \in Nodes PROVE PendingAt(m)' /\ (m \in Tasks => KickedAt(m)')
  BY <1>1, <1>3, <1>4, <1>5, KickKept DEF ReachInv, CancelMissesNobody
<1> QED
  BY <1>4, <1>6, PendingSplitNext, KickedSplitNext DEF ReachInv, CancelMissesNobody, Nodes

\* The walk calls request_cancel() of its next child.
LEMMA DescendReach ==
  ASSUME LifeInv, TypeOK', Walked, CancelReachesChildren, NEW x \in Threads, ~Quiet(x),
         stack[x][1].fn = "cancel", stack[x][1].at = "walk", NEW n \in Nodes, n = stack[x][1].n,
         NEW next \in 1..Len(children[n]), next = stack[x][1].next,
         Descend(x, children[n][next]), UNCHANGED <<requested, children>>
  PROVE  Walked' /\ CancelReachesChildren' /\ Kept(x)
<1>0. TypeOK /\ Frames
  BY DEF LifeInv
<1>1. children[n] \in Seq(Nodes)
  BY <1>0 DEF TypeOK
<1>2. PICK child \in Nodes : child = children[n][next]
  BY <1>1
<1>3. /\ \A y \in Threads \ {x} : stack'[y] = stack[y]
      /\ Len(stack'[x]) = Len(stack[x]) + 1 /\ Len(stack[x]) \in Nat \ {0}
      /\ stack'[x][1] = Call("cancel", child, "begin")
      /\ stack'[x][2] = [stack[x][1] EXCEPT !.next = stack[x][1].next + 1]
      /\ \A i \in 3..(Len(stack[x]) + 1) : stack'[x][i] = stack[x][i - 1]
      /\ stack[x][1] \in CallRecords
  BY <1>0, <1>2, DescendEffect
<1>4. Len(stack'[x]) = Len(stack[x]) + 1 /\ Len(stack[x]) \in Nat \ {0}
  BY <1>3
<1>5. 1 \in 1..Len(stack[x]) /\ 2 \in 1..Len(stack'[x])
  BY <1>4
<1>6. /\ stack'[x][2].fn = "cancel" /\ stack'[x][2].n = n /\ stack'[x][2].at = "walk"
      /\ stack'[x][2].next = next + 1
  BY <1>3 DEF CallRecords
<1>7. Passes(x, 2, child)'
  <2>1. stack'[x][2 - 1] = Call("cancel", child, "begin")
    BY <1>3
  <2> QED
    BY <2>1 DEF Passes
<1>8. \A c : ~Passes(x, 1, c)
  BY DEF Passes
<1>9. ASSUME NEW y \in Threads \ {x}, NEW i \in 1..Len(stack[y]) PROVE Moved(x, y, i, i)
  BY <1>3 DEF Moved
<1>10. ASSUME NEW i \in 2..Len(stack[x]) PROVE Moved(x, x, i, i + 1)
  <2>1. i + 1 \in 3..(Len(stack[x]) + 1) /\ (i + 1) - 1 = i
    BY <1>4
  <2>2. stack'[x][i + 1] = stack[x][i]
    BY <1>3, <2>1
  <2>3. ASSUME i # 2 PROVE stack'[x][(i + 1) - 1] = stack[x][i - 1]
    <3>1. i \in 3..(Len(stack[x]) + 1)
      BY <1>4, <2>3
    <3> QED
      BY <1>3, <2>1, <3>1
  <2>4. i + 1 > 1
    OBVIOUS
  <2> QED
    BY <2>2, <2>3, <2>4 DEF Moved
<1>11. Kept(x)
  <2> SUFFICES ASSUME NEW y \in Threads, NEW i \in 1..Len(stack[y]), ~(y = x /\ i = 1)
               PROVE  \E j \in 1..Len(stack'[y]) : Moved(x, y, i, j)
    BY DEF Kept
  <2>1. CASE y = x
    <3>1. i \in 2..Len(stack[x]) /\ i + 1 \in 1..Len(stack'[x])
      BY <1>4, <2>1
    <3> QED
      BY <1>10, <2>1, <3>1
  <2>2. CASE y # x
    BY <1>3, <1>9, <2>2
  <2> QED
    BY <2>1, <2>2
<1>12. WalkedAt(x, 2)'
  <2>1. WalkedAt(x, 1)
    BY <1>5, WalkedSplit
  <2> SUFFICES ASSUME NEW j \in 1..Len(children[n])
               PROVE  j >= next + 1 \/ requested[children[n][j]] \/ Passes(x, 2, children[n][j])'
    BY <1>6 DEF WalkedAt, Passes
  <2>2. CASE j = next
    BY <1>2, <1>7, <2>2
  <2>3. CASE j # next /\ j >= next
    BY <2>3
  <2>4. CASE ~(j >= next)
    BY <1>8, <2>1, <2>4 DEF WalkedAt
  <2> QED
    BY <2>2, <2>3, <2>4
<1>13. Came(x)
  <2> SUFFICES ASSUME NEW y \in Threads, NEW j \in 1..Len(stack'[y]),
                      stack'[y][j].at = "walk", ~WalkedAt(y, j)'
               PROVE  \E i \in 1..Len(stack[y]) : Moved(x, y, i, j)
    BY DEF Came
  <2>1. CASE y = x
    <3>1. j # 1
      <4>1. stack'[x][1].at = "begin"
        BY <1>3 DEF Call
      <4> QED
        BY <2>1, <4>1
    <3>2. j # 2
      BY <1>12, <2>1
    <3>3. j - 1 \in 2..Len(stack[x]) /\ (j - 1) + 1 = j /\ j - 1 \in 1..Len(stack[x])
      BY <1>4, <2>1, <3>1, <3>2
    <3>4. Moved(x, x, j - 1, (j - 1) + 1)
      BY <1>10, <3>3
    <3> QED
      BY <2>1, <3>3, <3>4
  <2>2. CASE y # x
    BY <1>3, <1>9, <2>2
  <2> QED
    BY <2>1, <2>2
<1>14. ASSUME NEW p \in Nodes, NEW c \in Nodes, ReachedBy(x, 1, p, c) PROVE WillReach(x, p, c)'
  <2>1. p = n
    BY <1>14 DEF ReachedBy
  <2>2. PICK j \in next..Len(children[n]) : children[n][j] = c
    BY <1>8, <1>14, <2>1 DEF ReachedBy
  <2>3. CASE j = next
    <3>1. c = child
      BY <1>2, <2>2, <2>3
    <3>2. ReachedBy(x, 2, n, c)'
      BY <1>6, <1>7, <3>1 DEF ReachedBy
    <3> QED
      BY <1>5, <2>1, <3>2, ReachSplitNext
  <2>4. CASE j # next
    <3>1. j \in (next + 1)..Len(children[n])
      BY <2>4
    <3>2. ReachedBy(x, 2, n, c)'
      BY <1>6, <2>2, <3>1 DEF ReachedBy
    <3> QED
      BY <1>5, <2>1, <3>2, ReachSplitNext
  <2> QED
    BY <2>3, <2>4
<1>15. \A c \in Nodes : stack[x][1] # Call("cancel", c, "begin")
  BY DEF Call
<1>16. \A p \in Nodes : InList(children'[p]) \subseteq Nodes
  BY ChildrenAreNodesNext
<1> QED
  BY <1>11, <1>13, <1>14, <1>15, <1>16, ReachKept

\* The loop over the children comes to all of them.
LEMMA CancelWalkReach ==
  ASSUME LifeInv, LifeInv', ReachInv, NEW x \in Threads, CancelWalk(x)
  PROVE  ReachInv'
<1>1. /\ ~Quiet(x) /\ Head(stack[x]).fn = "cancel" /\ Head(stack[x]).at = "walk"
      /\ UNCHANGED <<requested, children, kick_pending, kick_q, coro>>
  BY DEF CancelWalk, At, kickvars
<1>2. TypeOK /\ TypeOK' /\ Frames
  BY DEF LifeInv
<1>3. /\ Head(stack[x]) = stack[x][1] /\ Top(x) = stack[x][1].n /\ Top(x) \in Nodes
      /\ Local(x, stack[x][1], 1 = Len(stack[x])) /\ stack[x][1] \in CallRecords
  BY <1>1, <1>2, TopFacts
<1>4. PICK n \in Nodes : n = Top(x)
  BY <1>3
<1>5. PICK next \in Nat : next = stack[x][1].next
  BY <1>3 DEF CallRecords
<1>6. next >= 1 /\ children[n] \in Seq(Nodes)
  BY <1>2, <1>3, <1>5 DEF Local, TypeOK
<1>7. Walked' /\ CancelReachesChildren' /\ Kept(x)
  <2>1. CASE next <= Len(children[n])
    <3>1. next \in 1..Len(children[n])
      BY <1>6, <2>1
    <3>2. Descend(x, children[n][next])
      BY <1>3, <1>4, <1>5, <2>1 DEF CancelWalk, Descend
    <3> QED
      BY <1>1, <1>2, <1>3, <1>4, <1>5, <3>1, <3>2, DescendReach DEF ReachInv, CancelMissesNobody
  <2>2. CASE ~(next <= Len(children[n]))
    <3>1. Return(x)
      BY <1>3, <1>4, <1>5, <2>2 DEF CancelWalk
    <3>2. next..Len(children[n]) = {}
      BY <1>6, <2>2
    <3>3. \A p, c \in Nodes : ~ReachedBy(x, 1, p, c)
      BY <1>1, <1>3, <1>4, <1>5, <3>2 DEF ReachedBy, Passes
    <3> QED
      BY <1>1, <1>2, <1>3, <3>1, <3>3, ReturnReach DEF ReachInv, CancelMissesNobody
  <2> QED
    BY <2>1, <2>2
<1>8. \A m \in Nodes : Kicks(m)' = Kicks(m)
  BY <1>1 DEF Kicks
<1>9. ASSUME NEW m \in Nodes PROVE PendingAt(m)' /\ (m \in Tasks => KickedAt(m)')
  BY <1>1, <1>3, <1>7, <1>8, KickKept DEF ReachInv, CancelMissesNobody
<1> QED
  BY <1>7, <1>9, PendingSplitNext, KickedSplitNext DEF ReachInv, CancelMissesNobody, Nodes

\* Walks, and what they will reach, after a step of kick().
LEMMA InKickReach ==
  ASSUME LifeInv, TypeOK', Walked, CancelReachesChildren, NEW x \in Threads, ~Quiet(x),
         stack[x][1].fn \in {"cancel", "adopt"}, stack[x][1].at \in {"kick", "kick_ref"},
         AfterKick(x) \/ (Goto(x, "kick_ref") /\ coro' = coro),
         UNCHANGED <<requested, children>>
  PROVE  /\ Walked' /\ CancelReachesChildren' /\ Kept(x)
         /\ \A m \in Nodes : coro'[m] = "parked" => coro[m] = "parked"
<1>1. TypeOK /\ Frames
  BY DEF LifeInv
<1>2. Head(stack[x]) = stack[x][1] /\ Top(x) \in Nodes
  BY <1>1, TopFacts
<1>3. /\ "lock" \in Points /\ "kick_ref" \in Points
      /\ coro \in [Nodes -> {"none", "queued", "running", "parked", "done"}]
  BY <1>1 DEF Points, TypeOK
<1>4. CASE stack[x][1].fn = "cancel"
  <2>1. PICK at \in {"lock", "kick_ref"} : Goto(x, at) /\ coro' = coro
    BY <1>2, <1>4 DEF AfterKick
  <2>2. Walked' /\ CancelReachesChildren' /\ Kept(x)
    BY <1>4, <2>1, GotoReach
  <2> QED
    BY <2>1, <2>2
<1>5. CASE stack[x][1].fn = "adopt"
  <2>1. \/ coro' = [coro EXCEPT ![Top(x)] = "running"] /\ Return(x)
        \/ Goto(x, "kick_ref") /\ coro' = coro
    BY <1>2, <1>5 DEF AfterKick
  <2>2. Simple(x)
    BY <1>1, <1>3, <1>5, <2>1, ReturnIsSimple, GotoIsSimple
  <2>3. Walked' /\ CancelReachesChildren' /\ Kept(x)
    BY <2>2, SimpleReach
  <2>4. ASSUME NEW m \in Nodes, coro'[m] = "parked" PROVE coro[m] = "parked"
    BY <1>2, <1>3, <2>1, <2>4
  <2> QED
    BY <2>3, <2>4
<1> QED
  BY <1>4, <1>5

\* A call that is about to queue the kick of a parked coroutine is a cancellation.
LEMMA KickOfParked ==
  ASSUME LifeInv, NEW y \in Threads, NEW i \in 1..Len(stack[y]), stack[y][i].at = "kick_ref",
         coro[stack[y][i].n] = "parked"
  PROVE  stack[y][i] = Call("cancel", stack[y][i].n, "kick_ref")
<1>1. Local(y, stack[y][i], i = Len(stack[y])) /\ stack[y][i] \in CallRecords
  BY CallFacts
<1>2. stack[y][i].fn = "cancel" /\ stack[y][i].next = 1
  BY <1>1 DEF Local, CallRecords
<1> QED
  BY <1>1, <1>2, CallIs

\* A kick that is skipped is one that somebody else is about to queue, or has queued.
LEMMA KickClaimReach ==
  ASSUME LifeInv, LifeInv', ReachInv, NEW x \in Threads, KickClaim(x)
  PROVE  ReachInv'
<1>1. /\ ~Quiet(x) /\ Head(stack[x]).fn \in {"cancel", "adopt"} /\ Head(stack[x]).at = "kick"
      /\ \/ /\ owner_tid[Top(x)] = None \/ kick_pending[Top(x)]
            /\ AfterKick(x) /\ kick_pending' = kick_pending
         \/ /\ kick_pending' = [kick_pending EXCEPT ![Top(x)] = TRUE]
            /\ Goto(x, "kick_ref") /\ coro' = coro
      /\ UNCHANGED <<requested, children, kick_q>>
  BY DEF KickClaim, At, treevars
<1>2. TypeOK /\ TypeOK' /\ Frames /\ Alive
  BY DEF LifeInv
<1>3. /\ Head(stack[x]) = stack[x][1] /\ Top(x) = stack[x][1].n /\ Top(x) \in Nodes
      /\ Local(x, stack[x][1], 1 = Len(stack[x])) /\ stack[x][1] \in CallRecords
  BY <1>1, <1>2, TopFacts
<1>4. PICK n \in Nodes : n = stack[x][1].n
  BY <1>3
<1>5. /\ Walked' /\ CancelReachesChildren' /\ Kept(x)
      /\ \A m \in Nodes : coro'[m] = "parked" => coro[m] = "parked"
  BY <1>1, <1>2, <1>3, InKickReach DEF ReachInv, CancelMissesNobody
<1>6. \A m \in Nodes : Kicks(m)' = Kicks(m)
  BY <1>1 DEF Kicks
<1>7. \A m \in Nodes \ {n} : kick_pending'[m] = kick_pending[m]
  BY <1>1, <1>2, <1>3, <1>4 DEF TypeOK
<1>8. ASSUME NEW m \in Nodes \ {n} PROVE PendingAt(m)' /\ (m \in Tasks => KickedAt(m)')
  BY <1>1, <1>4, <1>5, <1>6, <1>7, KickKept DEF ReachInv, CancelMissesNobody
<1>9. PendingAt(n)' /\ KickedAt(n)'
  <2>1. CASE /\ owner_tid[Top(x)] = None \/ kick_pending[Top(x)]
             /\ AfterKick(x) /\ kick_pending' = kick_pending
    <3>1. PendingAt(n)'
      BY <1>1, <1>3, <1>5, <1>6, <2>1, PendingKept DEF ReachInv
    <3>2. KickedAt(n)'
      <4> SUFFICES ASSUME coro'[n] = "parked", Kicks(n)' = {}
                   PROVE  Call("cancel", n, "kick_ref") \in Calls'
        BY DEF KickedAt, Calls
      <4>1. coro[n] = "parked"
        BY <1>5
      <4>2. owner_tid[n] \in Workers
        BY <1>2, <4>1 DEF Alive
      <4>3. kick_pending[n]
        BY <1>3, <1>4, <2>1, <4>2, TreeAssumption DEF Threads
      <4>4. PICK call \in Calls : call.n = n /\ call.at = "kick_ref"
        BY <1>6, <4>3 DEF ReachInv, Pending
      <4>5. PICK y \in Threads : call \in InList(stack[y])
        BY DEF Calls
      <4>6. PICK i \in 1..Len(stack[y]) : stack[y][i] = call
        BY <4>5 DEF InList
      <4>7. call = Call("cancel", n, "kick_ref")
        BY <4>1, <4>4, <4>6, KickOfParked
      <4>8. call # stack[x][1]
        BY <1>1, <1>3, <4>4
      <4> QED
        BY <1>5, <4>7, <4>8, CallKept
    <3> QED
      BY <3>1, <3>2
  <2>2. CASE Goto(x, "kick_ref") /\ coro' = coro
    <3>1. /\ Len(stack'[x]) = Len(stack[x]) /\ Len(stack[x]) \in Nat \ {0}
          /\ stack'[x][1] = [stack[x][1] EXCEPT !.at = "kick_ref"]
      <4>1. "kick_ref" \in Points
        BY DEF Points
      <4> QED
        BY <1>1, <1>2, <2>2, <4>1, GotoEffect
    <3>2. 1 \in 1..Len(stack'[x])
      BY <3>1
    <3>3. stack'[x][1].n = n /\ stack'[x][1].at = "kick_ref"
      BY <1>3, <1>4, <3>1 DEF CallRecords
    <3>4. stack'[x][1] \in Calls'
      <4>1. stack'[x][1] \in InList(stack'[x])
        BY <3>2 DEF InList
      <4> QED
        BY <4>1 DEF Calls
    <3>5. PendingAt(n)'
      BY <3>3, <3>4 DEF PendingAt, Calls
    <3>6. KickedAt(n)'
      <4> SUFFICES ASSUME coro'[n] = "parked"
                   PROVE  Call("cancel", n, "kick_ref") \in Calls'
        BY DEF KickedAt, Calls
      <4>1. stack[x][1].fn = "cancel" /\ stack[x][1].next = 1
        BY <1>1, <1>3, <1>4, <2>2 DEF Local
      <4>2. /\ stack'[x][1].fn = "cancel" /\ stack'[x][1].next = 1
            /\ stack'[x][1] \in CallRecords
        <5>1. stack' \in [Threads -> Seq(CallRecords)]
          BY <1>2 DEF TypeOK, CallRecords
        <5>2. stack'[x][1] \in CallRecords
          BY <3>2, <5>1
        <5> QED
          BY <1>3, <3>1, <4>1, <5>2 DEF CallRecords
      <4>3. stack'[x][1] = Call("cancel", n, "kick_ref")
        BY <3>3, <4>2, CallIs
      <4> QED
        BY <3>4, <4>3
    <3> QED
      BY <3>5, <3>6
  <2> QED
    BY <1>1, <2>1, <2>2
<1>10. ASSUME NEW m \in Nodes PROVE PendingAt(m)' /\ (m \in Tasks => KickedAt(m)')
  BY <1>8, <1>9
<1> QED
  BY <1>5, <1>10, PendingSplitNext, KickedSplitNext DEF ReachInv, CancelMissesNobody, Nodes

\* A kick is queued, unless nothing refers to the task any more.
LEMMA KickPushReach ==
  ASSUME LifeInv, LifeInv', ReachInv, NEW x \in Threads, KickPush(x)
  PROVE  ReachInv'
<1>1. /\ ~Quiet(x) /\ Head(stack[x]).fn \in {"cancel", "adopt"} /\ Head(stack[x]).at = "kick_ref"
      /\ \/ /\ refs[Top(x)] = 0 /\ kick_pending' = [kick_pending EXCEPT ![Top(x)] = FALSE]
            /\ kick_q' = kick_q
         \/ /\ kick_q' = [kick_q EXCEPT ![owner_tid[Top(x)]] = Append(@, Top(x))]
            /\ kick_pending' = kick_pending
      /\ AfterKick(x)
      /\ UNCHANGED <<requested, children>>
  BY DEF KickPush, At, treevars
<1>2. TypeOK /\ TypeOK' /\ Frames /\ Queued
  BY DEF LifeInv
<1>3. /\ Head(stack[x]) = stack[x][1] /\ Top(x) = stack[x][1].n /\ Top(x) \in Nodes
      /\ Local(x, stack[x][1], 1 = Len(stack[x])) /\ stack[x][1] \in CallRecords
  BY <1>1, <1>2, TopFacts
<1>4. PICK n \in Nodes : n = stack[x][1].n
  BY <1>3
<1>5. /\ Walked' /\ CancelReachesChildren' /\ Kept(x)
      /\ \A m \in Nodes : coro'[m] = "parked" => coro[m] = "parked"
  BY <1>1, <1>2, <1>3, InKickReach DEF ReachInv, CancelMissesNobody
<1>6. /\ n \in Tasks /\ life[n] = "live" /\ owner_tid[n] \in Workers /\ Kicks(n) = {}
  BY <1>1, <1>3, <1>4 DEF Local
<1>7. kick_q \in [Workers -> Seq(Tasks)] /\ kick_pending \in [Nodes -> BOOLEAN]
  BY <1>2 DEF TypeOK
<1>8. CASE refs[n] = 0 /\ kick_pending' = [kick_pending EXCEPT ![n] = FALSE] /\ kick_q' = kick_q
  <2>1. ~kick_pending'[n] /\ \A m \in Nodes \ {n} : kick_pending'[m] = kick_pending[m]
    BY <1>7, <1>8
  <2>2. coro[n] # "parked"
    BY <1>6, <1>8, Unreferenced DEF Active
  <2>3. \A m \in Nodes : Kicks(m)' = Kicks(m)
    BY <1>8 DEF Kicks
  <2>4. ASSUME NEW m \in Nodes PROVE PendingAt(m)' /\ (m \in Tasks => KickedAt(m)')
    <3>1. CASE m = n
      BY <1>5, <2>1, <2>2, <3>1 DEF PendingAt, KickedAt
    <3>2. CASE m # n
      BY <1>1, <1>4, <1>5, <2>1, <2>3, <3>2, KickKept DEF ReachInv, CancelMissesNobody
    <3> QED
      BY <3>1, <3>2
  <2> QED
    BY <1>5, <2>4, PendingSplitNext, KickedSplitNext DEF ReachInv, CancelMissesNobody, Nodes
<1>9. CASE kick_q' = [kick_q EXCEPT ![owner_tid[n]] = Append(@, n)] /\ kick_pending' = kick_pending
  <2>1. PICK w \in Workers : w = owner_tid[n]
    BY <1>6
  <2>2. kick_q[w] \in Seq(Tasks) /\ Distinct(kick_q[w]) /\ n \notin InList(kick_q[w])
    BY <1>2, <1>6, <1>7 DEF Queued, Kicks
  <2>3. InList(kick_q'[w]) = InList(kick_q[w]) \cup {n}
    <3>1. kick_q'[w] = Append(kick_q[w], n)
      BY <1>7, <1>9, <2>1
    <3> QED
      BY <1>6, <2>2, <3>1, QueueAppend
  <2>4. \A v \in Workers \ {w} : kick_q'[v] = kick_q[v]
    BY <1>7, <1>9, <2>1
  <2>5. Kicks(n)' # {}
    <3>1. w \in Kicks(n)'
      BY <2>3 DEF Kicks
    <3> QED
      BY <3>1
  <2>6. \A m \in Nodes : Kicks(m) \subseteq Kicks(m)'
    BY <2>3, <2>4 DEF Kicks
  <2>7. ASSUME NEW m \in Nodes PROVE PendingAt(m)' /\ (m \in Tasks => KickedAt(m)')
    <3>1. CASE m = n
      BY <2>5, <3>1 DEF PendingAt, KickedAt
    <3>2. CASE m # n
      BY <1>1, <1>4, <1>5, <1>9, <2>6, <3>2, KickKept DEF ReachInv, CancelMissesNobody
    <3> QED
      BY <3>1, <3>2
  <2> QED
    BY <1>5, <2>7, PendingSplitNext, KickedSplitNext DEF ReachInv, CancelMissesNobody, Nodes
<1> QED
  BY <1>1, <1>3, <1>4, <1>8, <1>9

(***************************************************************************)
(* The theorems                                                            *)
(***************************************************************************)

\* At first nothing is cancelled, and no kick is under way.
LEMMA ReachInit == ASSUME Init PROVE Fresh /\ ReachInv
<1>1. \A n \in Nodes : ~requested[n] /\ ~kick_pending[n] /\ coro[n] = "none"
  BY DEF Init
<1>2. \A x \in Threads : stack[x] = <<>>
  BY DEF Init
<1>3. \A x \in Threads : 1..Len(stack[x]) = {}
  BY <1>2
<1>4. Walked
  BY <1>3 DEF Walked
<1> QED
  BY <1>1, <1>4 DEF Fresh, ReachInv, Pending, CancelMissesNobody, CancelReachesChildren, NoMissedKick, Nodes

\* A step that changes nothing.
LEMMA ReachStutter == ASSUME ReachInv, UNCHANGED vars PROVE ReachInv'
<1>1. /\ UNCHANGED <<requested, children, kick_pending, kick_q, coro, stack>>
  BY DEF vars, treevars, kickvars
<1>2. Pending'
  BY <1>1 DEF ReachInv, Pending, Kicks, Calls
<1>3. Walked'
  BY <1>1 DEF ReachInv, Walked
<1>4. CancelReachesChildren'
  BY <1>1 DEF ReachInv, CancelMissesNobody, CancelReachesChildren, WillReach
<1>5. NoMissedKick'
  BY <1>1 DEF ReachInv, CancelMissesNobody, NoMissedKick, Kicks, Calls
<1> QED
  BY <1>2, <1>3, <1>4, <1>5 DEF ReachInv, CancelMissesNobody

\* No step makes a cancellation miss anybody.
LEMMA ReachStep == ASSUME LifeInv, LifeInv', Fresh, ReachInv, [Next]_vars PROVE ReachInv'
<1>1. CASE \E x \in Threads : Step(x)
  <2>1. PICK x \in Threads : Step(x)
    BY <1>1
  <2> QED
    BY <2>1, SpawnPublishReach, AdoptCheckReach, CancelExchangeReach, KickClaimReach, KickPushReach,
       CancelLockReach, CancelWalkReach, ReleaseDecReach, ReleaseUnlinkReach, ReleaseDeleteReach DEF Step
<1>2. CASE \E x \in Threads, c \in Tasks, tid \in Workers \cup {None} : SpawnLink(x, c, tid)
  BY <1>2, SpawnLinkReach
<1>7. CASE \E x \in Threads, s \in Scopes : NewScope(x, s)
  BY <1>7, NewScopeReach
<1>3. CASE \E x \in Threads, n \in Nodes : CallCancel(x, n) \/ DropHandle(x, n)
  BY <1>3, CallCancelReach, DropHandleReach
<1>4. CASE \E w \in Workers : ProcessKick(w)
  BY <1>4, ProcessKickReach
<1>5. CASE \E w \in Workers, n \in Tasks : Adopt(w, n) \/ Park(w, n) \/ Wake(w, n) \/ Complete(w, n)
  BY <1>5, CoroutineReach
<1>6. CASE UNCHANGED vars
  BY <1>6, ReachStutter
<1> QED
  BY <1>1, <1>2, <1>3, <1>4, <1>5, <1>6, <1>7 DEF Next, Finished

\* The invariant holds in every reachable state, for every tree of scopes and tasks, with
\* or without a parent, for any holders of their handles, threads or coroutines, and for
\* any number of threads and workers that open scopes, spawn, cancel, complete and release in any order.
THEOREM CancelTreeInvariant == Spec => []IInv
<1>1. Init => IInv
  BY LifeInit, ReachInit DEF IInv
<1>2. IInv /\ [Next]_vars => IInv'
  BY LifeStep, FreshStep, ReachStep DEF IInv
<1> QED
  BY <1>1, <1>2, PTL DEF Spec

\* No state is used after it is deleted, none is deleted while it has references, and
\* none is leaked with a count that is too high (add_ref, try_add_ref, release).
THEOREM StatesLiveLongEnough == Spec => []LifetimesAreSound
<1>1. IInv => LifetimesAreSound
  BY LifeIsSound DEF IInv
<1> QED
  BY <1>1, CancelTreeInvariant, PTL

\* A cancellation comes to every child that is linked under what it cancels, and to
\* every coroutine that has parked, whatever the walk races with (request_cancel, link,
\* kick, process_kick).
THEOREM CancellationMissesNobody == Spec => []CancelMissesNobody
<1>1. IInv => CancelMissesNobody
  BY DEF IInv, ReachInv
<1> QED
  BY <1>1, CancelTreeInvariant, PTL
=============================================================================
