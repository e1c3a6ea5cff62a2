---------------------------- MODULE InboxProofs ----------------------------
(***************************************************************************)
(* The worker's inbox for any number of producers and coroutines: the      *)
(* intrusive queue hands each node out once and in the order of the tail   *)
(* exchanges, and no wake-up is lost or sent to a closed eventfd.          *)
(***************************************************************************)
EXTENDS Inbox, FiniteSetTheorems, TLAPS

(***************************************************************************)
(* The inductive invariant                                                 *)
(***************************************************************************)

\* The worker is in pop().
Popping == {"pop", "second", "advance", "last", "restub", "relink", "retry", "enqueue"}

\* It has looked at the front of the queue and found a node there.
Holding == {"second", "advance", "last", "restub", "relink", "retry"}

Distinct(c) == \A i, j \in 1..Len(c) : c[i] = c[j] => i = j

\* The nodes that were pushed and not taken off the queue.
Left == IF wpc = "enqueue" THEN Tail(fifo) ELSE fifo

\* The links from head_ to tail_ in the order of the exchanges, the stub at s, or
\* nowhere if s is beyond the end.
Shape(c, s) ==
  /\ c \in Seq(Links) /\ c # <<>> /\ Distinct(c)
  /\ c[1] = head_ /\ c[Len(c)] = tail_
  /\ s \in 1..(Len(c) + 1)
  /\ \A i \in 1..Len(c) : c[i] = Stub <=> i = s

\* They are the nodes of f and the stub.
Holds(c, s, f) ==
  /\ Len(c) = Len(f) + (IF s <= Len(c) THEN 1 ELSE 0)
  /\ \A i \in 1..Len(f) : f[i] = c[IF i < s THEN i ELSE i + 1]

\* The link that follows the exchange of l's successor is still to come.
Pending(l) == (\E p \in Producers : ppc[p] = "link" /\ prev[p] = l) \/ (wpc = "relink" /\ next = l)

\* Each is linked to the next, or will be.
Joined(c) ==
  /\ \A i \in 1..(Len(c) - 1) : \/ mpsc_next_[c[i]] = c[i + 1]
                                \/ mpsc_next_[c[i]] = Null /\ Pending(c[i])
  /\ mpsc_next_[c[Len(c)]] = Null

\* a and b follow each other and are not linked yet.
Gap(c, a, b) ==
  \E i \in 1..(Len(c) - 1) : c[i] = a /\ c[i + 1] = b /\ mpsc_next_[a] = Null

Pushes(c) == \A p \in Producers : ppc[p] = "link" => Gap(c, prev[p], node[p])

\* What the worker has seen of it in pop().
Front(c, s) ==
  /\ wpc \in Holding => head = head_ /\ head # Stub
  /\ wpc = "advance" /\ next # Null => mpsc_next_[head] = next
  /\ wpc = "restub" => s = Len(c) + 1
  /\ wpc = "relink" => Gap(c, next, Stub)
  /\ wpc = "retry" => Len(c) > 1

IsQueue(c, s) == Shape(c, s) /\ Holds(c, s, Left) /\ Joined(c) /\ Pushes(c) /\ Front(c, s)

Queue == \E c \in Seq(Links), s \in Nat : IsQueue(c, s)

\* The history has no node twice, and two pushes under way are of two nodes.
Once ==
  /\ Distinct(fifo)
  /\ \A p, r \in Producers : ppc[p] = "link" /\ ppc[r] = "link" /\ node[p] = node[r] => p = r

\* A producer that has still to set the flag.
Announcing == \E p \in Producers : ppc[p] \in {"link", "flag"}

\* The worker will see a node it has not taken: in this round of pop(), because
\* the flag is set, or because its producer will set it.
Noticed ==
  /\ fifo # <<>> => Announcing \/ is_added_new_ \/ wpc \in Popping
  /\ (wpc = "last" \/ (wpc = "advance" /\ next = Null)) /\ head # tail_ =>
       Announcing \/ is_added_new_

Active == \E p \in Producers : ppc[p] \notin {"idle", "leave"}

\* A flag that was set after the worker last looked at it comes with a wake-up.
Roused == is_added_new_ /\ wpc \in Popping \cup {"top", "poll"} => Active \/ edge

\* The producers that are counted in wake_inflight_.
Inside == {p \in Producers : ppc[p] \in {"load", "wake", "write", "leave"}}

Exits ==
  /\ wake_inflight_ = Cardinality(Inside)
  /\ poller_ # "set" <=> wpc \in {"wait", "closed"}
  /\ poller_ = "unsetting" => store_buffer

\* pop() is about to return the oldest node.
Taken == wpc = "enqueue" => fifo # <<>> /\ head = fifo[1]

QueueInv == Queue /\ Once /\ Taken

IInv ==
  /\ TypeOK
  /\ QueueInv
  /\ Noticed /\ Roused /\ NoLostWakeup
  /\ Exits /\ ClosesAfterWakes

(***************************************************************************)
(* The chain of links                                                      *)
(***************************************************************************)

\* Every link of the chain but the stub is of a node in the queue.
LEMMA ChainQueued ==
  ASSUME TypeOK, Taken, NEW c, NEW s, Shape(c, s), Holds(c, s, Left),
         NEW i \in 1..Len(c), i # s
  PROVE  c[i] \in Queued /\ c[i] \in Nodes
<1>1. c \in Seq(Links) /\ s \in 1..(Len(c) + 1) /\ Len(c) \in Nat /\ c[i] # Stub /\ c[i] \in Links
  BY DEF Shape
<1> DEFINE j == IF i < s THEN i ELSE i - 1
<1>2. Left \in Seq(Nodes) /\ Len(Left) \in Nat
  BY DEF Left, TypeOK, Taken
<1>3. j \in 1..Len(Left) /\ c[i] = Left[j]
  <2>1. CASE i < s
    BY <1>1, <1>2, <2>1 DEF Holds
  <2>2. CASE i > s
    <3>1. i - 1 \in 1..Len(Left) /\ ~(i - 1 < s) /\ (i - 1) + 1 = i
      BY <1>1, <1>2, <2>2 DEF Holds
    <3>2. Left[i - 1] = c[(i - 1) + 1]
      BY <3>1 DEF Holds
    <3> QED
      BY <1>1, <2>2, <3>1, <3>2
  <2> QED
    BY <1>1, <2>1, <2>2
<1> HIDE DEF j
<1>4. \E k \in 1..Len(fifo) : Left[j] = fifo[k]
  <2>1. CASE wpc = "enqueue"
    <3>1. fifo \in Seq(Nodes) /\ fifo # <<>> /\ Left = Tail(fifo)
      BY <2>1 DEF TypeOK, Taken, Left
    <3>2. j + 1 \in 1..Len(fifo) /\ Left[j] = fifo[j + 1]
      BY <1>3, <3>1
    <3> QED
      BY <3>2
  <2>2. CASE wpc # "enqueue"
    BY <1>3, <2>2 DEF Left
  <2> QED
    BY <2>1, <2>2
<1> QED
  BY <1>1, <1>3, <1>4 DEF Queued, Links

\* A step that leaves the queue and the pushes alone.
LEMMA QuietStep ==
  ASSUME QueueInv, UNCHANGED <<tail_, head_, mpsc_next_, fifo, node, prev>>,
         \A p \in Producers : ppc'[p] = "link" <=> ppc[p] = "link",
         \/ UNCHANGED <<wpc, head, next>>
         \/ wpc \notin Holding \cup {"enqueue"} /\ wpc' \notin Holding \cup {"enqueue"}
  PROVE  QueueInv'
<1>1. PICK c \in Seq(Links), s \in Nat : IsQueue(c, s)
  BY DEF QueueInv, Queue
<1>2. Shape(c, s)'
  BY <1>1 DEF IsQueue, Shape
<1>3. Holds(c, s, Left)'
  <2>1. Left' = Left
    BY DEF Left
  <2> QED
    BY <1>1, <2>1 DEF IsQueue, Holds
<1>4. \A l : Pending(l) => Pending(l)'
  BY DEF Pending, Holding
<1>5. Joined(c)'
  BY <1>1, <1>4 DEF IsQueue, Joined
<1>6. Pushes(c)'
  BY <1>1 DEF IsQueue, Pushes, Gap
<1>7. Front(c, s)'
  BY <1>1 DEF IsQueue, Front, Gap, Holding
<1>8. Queue'
  BY <1>1, <1>2, <1>3, <1>5, <1>6, <1>7 DEF Queue, IsQueue
<1>9. Once' /\ Taken'
  BY DEF QueueInv, Once, Taken
<1> QED
  BY <1>8, <1>9 DEF QueueInv

(***************************************************************************)
(* push()                                                                  *)
(***************************************************************************)

\* A link that is put behind the chain and not linked yet.
LEMMA Behind ==
  ASSUME NEW c \in Seq(Links), c # <<>>, Distinct(c), NEW l \in Links,
         \A i \in 1..Len(c) : c[i] # l
  PROVE  /\ Append(c, l) \in Seq(Links) /\ Append(c, l) # <<>> /\ Distinct(Append(c, l))
         /\ Len(c) \in Nat \ {0} /\ Len(Append(c, l)) = Len(c) + 1
         /\ \A i \in 1..Len(c) : Append(c, l)[i] = c[i]
         /\ Append(c, l)[Len(c) + 1] = l
<1> DEFINE d == Append(c, l)
<1>1. /\ d \in Seq(Links) /\ Len(c) \in Nat \ {0} /\ Len(d) = Len(c) + 1
      /\ \A i \in 1..Len(c) : d[i] = c[i] /\ d[Len(c) + 1] = l
  OBVIOUS
<1> HIDE DEF d
<1>2. Distinct(d)
  <2> SUFFICES ASSUME NEW i \in 1..Len(d), NEW j \in 1..Len(d), d[i] = d[j] PROVE i = j
    BY DEF Distinct
  <2>1. CASE i \in 1..Len(c) /\ j \in 1..Len(c)
    BY <1>1, <2>1 DEF Distinct
  <2>2. CASE i = Len(c) + 1 \/ j = Len(c) + 1
    BY <1>1, <2>2
  <2> QED
    BY <1>1, <2>1, <2>2
<1>3. d # <<>>
  BY <1>1
<1> QED
  BY <1>1, <1>2, <1>3 DEF d

\* push() exchanges tail_: the chain grows by a link whose predecessor is not
\* joined yet.
LEMMA PushSwapStep ==
  ASSUME TypeOK, QueueInv, NEW p \in Producers, NEW n \in Nodes, PushSwap(p, n)
  PROVE  QueueInv'
<1>1. PICK c \in Seq(Links), s \in Nat : IsQueue(c, s)
  BY DEF QueueInv, Queue
<1>2. /\ Shape(c, s) /\ Holds(c, s, Left) /\ Joined(c) /\ Pushes(c) /\ Front(c, s)
      /\ Once /\ Taken
  BY <1>1 DEF IsQueue, QueueInv
<1>3. /\ ppc[p] = "idle" /\ n \notin Queued /\ tail_' = n
      /\ prev' = [prev EXCEPT ![p] = tail_] /\ node' = [node EXCEPT ![p] = n]
      /\ mpsc_next_' = [mpsc_next_ EXCEPT ![n] = Null] /\ fifo' = Append(fifo, n)
      /\ ppc' = [ppc EXCEPT ![p] = "link"] /\ UNCHANGED <<head_, wpc, head, next>>
  BY DEF PushSwap, Goto, worker
<1>4. /\ c # <<>> /\ Distinct(c) /\ c[1] = head_ /\ c[Len(c)] = tail_ /\ s \in 1..(Len(c) + 1)
      /\ \A i \in 1..Len(c) : c[i] = Stub <=> i = s
  BY <1>2 DEF Shape
<1>5. n \in Links /\ n # Stub /\ n # Null
  BY InboxAssumption DEF Links
<1>6. \A i \in 1..Len(c) : c[i] # n
  <2> SUFFICES ASSUME NEW i \in 1..Len(c), c[i] = n PROVE FALSE
    OBVIOUS
  <2>1. i # s
    BY <1>4, <1>5
  <2> QED
    BY <1>2, <1>3, <2>1, ChainQueued
<1> DEFINE d == Append(c, n)
           L == Len(c)
           z == IF s = L + 1 THEN L + 2 ELSE s
<1>7. /\ d \in Seq(Links) /\ d # <<>> /\ Distinct(d) /\ L \in Nat \ {0} /\ Len(d) = L + 1
      /\ \A i \in 1..L : d[i] = c[i]
      /\ d[L + 1] = n
  BY <1>4, <1>5, <1>6, Behind
<1> HIDE DEF d
<1>8. /\ \A i \in 1..L : mpsc_next_'[c[i]] = mpsc_next_[c[i]]
      /\ mpsc_next_'[n] = Null
      /\ ppc'[p] = "link" /\ prev'[p] = tail_ /\ node'[p] = n
      /\ \A r \in Producers \ {p} : ppc'[r] = ppc[r] /\ prev'[r] = prev[r] /\ node'[r] = node[r]
  <2>1. mpsc_next_ \in [Links -> Links \cup {Null}] /\ \A i \in 1..L : c[i] \in Links
    BY <1>7 DEF TypeOK
  <2>2. \A l \in Links \ {n} : mpsc_next_'[l] = mpsc_next_[l]
    BY <1>3, <2>1
  <2>3. ppc \in [Producers -> {"idle", "link", "flag", "enter", "load", "wake", "write", "leave"}]
        /\ node \in [Producers -> Nodes \cup {Null}] /\ prev \in [Producers -> Links \cup {Null}]
    BY DEF TypeOK
  <2> QED
    BY <1>3, <1>5, <1>6, <2>1, <2>2, <2>3
<1>9. Shape(d, z)'
  <2>1. z \in 1..(Len(d) + 1) /\ (\A i \in 1..Len(d) : d[i] = Stub <=> i = z)
    BY <1>4, <1>5, <1>7
  <2>2. d[1] = head_' /\ d[Len(d)] = tail_'
    BY <1>3, <1>4, <1>7
  <2> QED
    BY <1>7, <2>1, <2>2 DEF Shape
<1>10. Left' = Append(Left, n) /\ Left \in Seq(Nodes)
  <2>1. fifo \in Seq(Nodes)
    BY DEF TypeOK
  <2>2. CASE wpc = "enqueue"
    BY <1>2, <1>3, <2>1, <2>2 DEF Left, Taken
  <2>3. CASE wpc # "enqueue"
    BY <1>3, <2>1, <2>3 DEF Left
  <2> QED
    BY <2>2, <2>3
<1>11. Holds(d, z, Left)'
  <2> DEFINE f == Left
             g == Append(f, n)
  <2>1. f \in Seq(Nodes) /\ Len(f) \in Nat /\ Len(g) = Len(f) + 1
        /\ (\A i \in 1..Len(f) : g[i] = f[i]) /\ g[Len(f) + 1] = n
    BY <1>10
  <2> HIDE DEF g
  <2>2. L = Len(f) + (IF s <= L THEN 1 ELSE 0)
        /\ \A i \in 1..Len(f) : f[i] = c[IF i < s THEN i ELSE i + 1]
    BY <1>2 DEF Holds
  <2> HIDE DEF f, L
  <2>3. Len(d) = Len(g) + (IF z <= Len(d) THEN 1 ELSE 0)
    BY <1>4, <1>7, <2>1, <2>2 DEF L
  <2>4. ASSUME NEW i \in 1..Len(g) PROVE g[i] = d[IF i < z THEN i ELSE i + 1]
    <3>1. CASE i \in 1..Len(f)
      <4>1. g[i] = c[IF i < s THEN i ELSE i + 1]
        BY <2>1, <2>2, <3>1
      <4>2. (i < s <=> i < z) /\ (IF i < s THEN i ELSE i + 1) \in 1..L
        BY <1>4, <1>7, <2>1, <2>2, <3>1 DEF L
      <4> QED
        BY <1>7, <4>1, <4>2
    <3>2. CASE i = Len(f) + 1
      <4>1. (IF i < z THEN i ELSE i + 1) = L + 1
        BY <1>4, <1>7, <2>1, <2>2, <3>2 DEF L
      <4> QED
        BY <1>7, <2>1, <3>2, <4>1
    <3> QED
      BY <2>1, <3>1, <3>2
  <2> QED
    BY <1>10, <2>3, <2>4 DEF Holds, g, f
<1>12. Joined(d)'
  <2>1. ASSUME NEW i \in 1..(Len(d) - 1)
        PROVE  \/ mpsc_next_'[d[i]] = d[i + 1]
               \/ mpsc_next_'[d[i]] = Null /\ Pending(d[i])'
    <3>1. i \in 1..L /\ d[i] = c[i] /\ mpsc_next_'[d[i]] = mpsc_next_[c[i]]
      BY <1>7, <1>8, <2>1
    <3>2. CASE i < L
      <4>1. i \in 1..(Len(c) - 1) /\ d[i + 1] = c[i + 1]
        BY <1>7, <3>1, <3>2
      <4>2. Pending(c[i]) => Pending(c[i])'
        BY <1>3, <1>8 DEF Pending
      <4> QED
        BY <1>2, <3>1, <4>1, <4>2 DEF Joined
    <3>3. CASE i = L
      <4>1. mpsc_next_[c[i]] = Null /\ c[i] = tail_
        BY <1>2, <1>4, <3>3 DEF Joined
      <4>2. Pending(c[i])'
        BY <1>8, <4>1 DEF Pending
      <4> QED
        BY <3>1, <4>1, <4>2
    <3> QED
      BY <3>1, <3>2, <3>3
  <2>2. mpsc_next_'[d[Len(d)]] = Null
    BY <1>7, <1>8
  <2> QED
    BY <2>1, <2>2 DEF Joined
<1>13. ASSUME NEW a, NEW b, Gap(c, a, b)
       PROVE  \E i \in 1..(Len(d) - 1) : d[i] = a /\ d[i + 1] = b /\ mpsc_next_'[a] = Null
  <2>1. PICK i \in 1..(Len(c) - 1) : c[i] = a /\ c[i + 1] = b /\ mpsc_next_[a] = Null
    BY <1>13 DEF Gap
  <2>2. i \in 1..L /\ i + 1 \in 1..L /\ i \in 1..(Len(d) - 1)
    BY <1>7, <2>1
  <2>3. d[i] = a /\ d[i + 1] = b /\ mpsc_next_'[a] = Null
    BY <1>7, <1>8, <2>1, <2>2
  <2> QED
    BY <2>2, <2>3
<1>14. Pushes(d)'
  <2>1. ASSUME NEW r \in Producers, ppc'[r] = "link" PROVE Gap(d, prev[r], node[r])'
    <3>1. CASE r = p
      <4>1. L \in 1..(Len(d) - 1) /\ d[L] = tail_ /\ d[L + 1] = n /\ mpsc_next_'[tail_] = Null
        BY <1>2, <1>4, <1>7, <1>8 DEF Joined
      <4> QED
        BY <1>8, <3>1, <4>1 DEF Gap
    <3>2. CASE r # p
      <4>1. Gap(c, prev[r], node[r]) /\ prev'[r] = prev[r] /\ node'[r] = node[r]
        BY <1>2, <1>8, <2>1, <3>2 DEF Pushes
      <4>2. \E i \in 1..(Len(d) - 1) :
              d[i] = prev[r] /\ d[i + 1] = node[r] /\ mpsc_next_'[prev[r]] = Null
        BY <1>13, <4>1
      <4> QED
        BY <4>1, <4>2 DEF Gap
    <3> QED
      BY <3>1, <3>2
  <2> QED
    BY <2>1 DEF Pushes
<1>15. Front(d, z)'
  <2>1. wpc \in Holding => head = head_ /\ head # Stub
    BY <1>2 DEF Front
  <2>2. wpc = "advance" /\ next # Null => mpsc_next_'[head] = next
    <3>1. mpsc_next_'[c[1]] = mpsc_next_[c[1]]
      BY <1>7, <1>8
    <3> QED
      BY <1>2, <1>4, <2>1, <3>1 DEF Front, Holding
  <2>3. wpc = "restub" => z = Len(d) + 1
    BY <1>2, <1>7 DEF Front
  <2>4. wpc = "relink" => Gap(d, next, Stub)'
    <3>1. wpc = "relink" => Gap(c, next, Stub)
      BY <1>2 DEF Front
    <3>2. wpc = "relink" =>
            \E i \in 1..(Len(d) - 1) : d[i] = next /\ d[i + 1] = Stub /\ mpsc_next_'[next] = Null
      BY <1>13, <3>1
    <3> QED
      BY <1>3, <3>2 DEF Gap
  <2>5. wpc = "retry" => Len(d) > 1
    BY <1>7
  <2> QED
    BY <1>3, <2>1, <2>2, <2>3, <2>4, <2>5 DEF Front, Gap
<1>16. Queue'
  <2>1. z \in Nat
    BY <1>4, <1>7
  <2> QED
    BY <1>7, <1>9, <1>11, <1>12, <1>14, <1>15, <2>1 DEF Queue, IsQueue
<1>17. Distinct(fifo')
  <2>1. fifo \in Seq(Nodes) /\ Distinct(fifo) /\ \A i \in 1..Len(fifo) : fifo[i] # n
    BY <1>2, <1>3 DEF TypeOK, Once, Queued
  <2> QED
    BY <1>3, <2>1 DEF Distinct
<1>18. Once'
  <2>1. ASSUME NEW r \in Producers, ppc[r] = "link" PROVE node[r] # n
    <3>1. PICK i \in 1..(Len(c) - 1) : c[i + 1] = node[r]
      BY <1>2, <2>1 DEF Pushes, Gap
    <3> QED
      BY <1>6, <1>7, <3>1
  <2>2. ASSUME NEW r \in Producers, NEW t \in Producers, ppc'[r] = "link", ppc'[t] = "link", node'[r] = node'[t]
        PROVE  r = t
    BY <1>2, <1>8, <2>1, <2>2 DEF Once
  <2> QED
    BY <1>17, <2>2 DEF Once
<1>19. Taken'
  <2>1. fifo \in Seq(Nodes)
    BY DEF TypeOK
  <2> QED
    BY <1>2, <1>3, <2>1 DEF Taken
<1> QED
  BY <1>16, <1>18, <1>19 DEF QueueInv

\* push() stores the link: the gap of this producer is closed.
LEMMA PushLinkStep ==
  ASSUME TypeOK, QueueInv, NEW p \in Producers, PushLink(p)
  PROVE  QueueInv'
<1>1. PICK c \in Seq(Links), s \in Nat : IsQueue(c, s)
  BY DEF QueueInv, Queue
<1>2. /\ Shape(c, s) /\ Holds(c, s, Left) /\ Joined(c) /\ Pushes(c) /\ Front(c, s)
      /\ Once /\ Taken
  BY <1>1 DEF IsQueue, QueueInv
<1> DEFINE a == prev[p]
           b == node[p]
<1>3. /\ ppc[p] = "link" /\ mpsc_next_' = [mpsc_next_ EXCEPT ![a] = b]
      /\ prev' = [prev EXCEPT ![p] = Null] /\ node' = [node EXCEPT ![p] = Null]
      /\ ppc' = [ppc EXCEPT ![p] = "flag"]
      /\ UNCHANGED <<tail_, head_, fifo, wpc, head, next>>
  BY DEF PushLink, Goto, worker
<1>4. Gap(c, a, b)
  BY <1>2, <1>3 DEF Pushes
<1>5. PICK k \in 1..(Len(c) - 1) : c[k] = a /\ c[k + 1] = b /\ mpsc_next_[a] = Null
  BY <1>4 DEF Gap
<1>t. /\ mpsc_next_'[a] = b
      /\ \A i \in 1..Len(c) : i # k => c[i] # a /\ mpsc_next_'[c[i]] = mpsc_next_[c[i]]
  <2> HIDE DEF a, b
  <2>1. Distinct(c) /\ k \in 1..Len(c) /\ \A i \in 1..Len(c) : c[i] \in Links
    BY <1>2 DEF Shape
  <2>2. mpsc_next_ \in [Links -> Links \cup {Null}] /\ a \in Links
    BY <1>5, <2>1 DEF TypeOK
  <2>3. mpsc_next_'[a] = b /\ \A l \in Links : l # a => mpsc_next_'[l] = mpsc_next_[l]
    BY <1>3, <2>2
  <2>4. \A i \in 1..Len(c) : i # k => c[i] # a
    BY <1>5, <2>1 DEF Distinct
  <2> QED
    BY <2>1, <2>3, <2>4
<1>6. /\ ppc'[p] = "flag"
      /\ \A r \in Producers \ {p} : ppc'[r] = ppc[r] /\ prev'[r] = prev[r] /\ node'[r] = node[r]
  BY <1>3 DEF TypeOK
<1>7. Len(c) \in Nat /\ k \in 1..Len(c) /\ k + 1 \in 1..Len(c) /\ b \in Nodes /\ b # Stub
  <2>1. Len(c) \in Nat /\ k \in 1..Len(c) /\ k + 1 \in 1..Len(c)
    BY <1>5
  <2>2. b \in Links /\ b \in Nodes \cup {Null}
    BY <1>5, <2>1 DEF TypeOK
  <2> QED
    BY <2>1, <2>2, InboxAssumption DEF Links
<1> HIDE DEF a, b
<1>8. Shape(c, s)' /\ Holds(c, s, Left)'
  BY <1>2, <1>3 DEF Shape, Holds, Left
<1>9. Joined(c)'
  <2>1. ASSUME NEW i \in 1..(Len(c) - 1)
        PROVE  \/ mpsc_next_'[c[i]] = c[i + 1]
               \/ mpsc_next_'[c[i]] = Null /\ Pending(c[i])'
    <3>1. CASE i = k
      BY <1>5, <1>t, <3>1
    <3>2. CASE i # k
      <4>1. i \in 1..Len(c) /\ c[i] # a /\ mpsc_next_'[c[i]] = mpsc_next_[c[i]]
        BY <1>t, <1>7, <2>1, <3>2
      <4>2. Pending(c[i]) => Pending(c[i])'
        BY <1>3, <1>6, <4>1 DEF Pending, a
      <4> QED
        BY <1>2, <4>1, <4>2 DEF Joined
    <3> QED
      BY <3>1, <3>2
  <2>2. mpsc_next_'[c[Len(c)]] = Null
    <3>1. Len(c) \in 1..Len(c) /\ Len(c) # k
      BY <1>7
    <3> QED
      BY <1>2, <1>t, <3>1 DEF Joined
  <2> QED
    BY <2>1, <2>2 DEF Joined
<1>10. ASSUME NEW x, NEW y, y # b, Gap(c, x, y)
       PROVE  \E i \in 1..(Len(c) - 1) : c[i] = x /\ c[i + 1] = y /\ mpsc_next_'[x] = Null
  <2>1. PICK i \in 1..(Len(c) - 1) : c[i] = x /\ c[i + 1] = y /\ mpsc_next_[x] = Null
    BY <1>10 DEF Gap
  <2>2. i # k /\ i \in 1..Len(c)
    BY <1>5, <1>7, <1>10, <2>1
  <2> QED
    BY <1>t, <2>1, <2>2
<1>11. Pushes(c)'
  <2>1. ASSUME NEW r \in Producers, ppc'[r] = "link" PROVE Gap(c, prev[r], node[r])'
    <3>1. r # p
      BY <1>6, <2>1
    <3>2. ppc[r] = "link" /\ prev'[r] = prev[r] /\ node'[r] = node[r]
      BY <1>6, <2>1, <3>1
    <3>3. Gap(c, prev[r], node[r]) /\ node[r] # b
      BY <1>2, <1>3, <3>1, <3>2 DEF Pushes, Once, b
    <3>4. \E i \in 1..(Len(c) - 1) :
            c[i] = prev[r] /\ c[i + 1] = node[r] /\ mpsc_next_'[prev[r]] = Null
      BY <1>10, <3>3
    <3> QED
      BY <3>2, <3>4 DEF Gap
  <2> QED
    BY <2>1 DEF Pushes
<1>12. Front(c, s)'
  <2>1. wpc \in Holding => head = head_ /\ head # Stub
    BY <1>2 DEF Front
  <2>2. wpc = "advance" /\ next # Null => mpsc_next_'[head] = next
    <3>1. 1 \in 1..Len(c) /\ head_ = c[1]
      BY <1>2, <1>7 DEF Shape
    <3> QED
      BY <1>2, <1>5, <1>t, <2>1, <3>1 DEF Front, Holding
  <2>3. wpc = "relink" => Gap(c, next, Stub)'
    <3>1. wpc = "relink" => Gap(c, next, Stub)
      BY <1>2 DEF Front
    <3>2. wpc = "relink" =>
            \E i \in 1..(Len(c) - 1) : c[i] = next /\ c[i + 1] = Stub /\ mpsc_next_'[next] = Null
      BY <1>7, <1>10, <3>1
    <3> QED
      BY <1>3, <3>2 DEF Gap
  <2> QED
    BY <1>2, <1>3, <2>1, <2>2, <2>3 DEF Front, Gap
<1>13. Queue'
  BY <1>8, <1>9, <1>11, <1>12 DEF Queue, IsQueue
<1>14. Once' /\ Taken'
  BY <1>2, <1>3, <1>6 DEF Once, Taken
<1> QED
  BY <1>13, <1>14 DEF QueueInv

(***************************************************************************)
(* pop()                                                                   *)
(***************************************************************************)

\* The front of the chain is taken off it: it is linked to the second link.
LEMMA DropFront ==
  ASSUME TypeOK, NEW c \in Seq(Links), NEW s \in Nat, Shape(c, s), Joined(c), Pushes(c),
         mpsc_next_[head_] # Null, head_' = mpsc_next_[head_],
         UNCHANGED <<tail_, mpsc_next_, ppc, prev, node>>, wpc # "relink", wpc' # "relink"
  PROVE  /\ Len(c) \in Nat /\ Len(c) >= 2 /\ c[2] = mpsc_next_[head_]
         /\ Tail(c) \in Seq(Links) /\ Len(Tail(c)) = Len(c) - 1
         /\ \A i \in 1..(Len(c) - 1) : Tail(c)[i] = c[i + 1]
         /\ Shape(Tail(c), IF s = 1 THEN Len(c) ELSE s - 1)'
         /\ Joined(Tail(c))' /\ Pushes(Tail(c))'
<1>1. /\ c # <<>> /\ Distinct(c) /\ c[1] = head_ /\ c[Len(c)] = tail_ /\ s \in 1..(Len(c) + 1)
      /\ \A i \in 1..Len(c) : c[i] = Stub <=> i = s
      /\ Len(c) \in Nat
  BY DEF Shape
<1>2. Len(c) >= 2
  <2>1. mpsc_next_[c[Len(c)]] = Null
    BY DEF Joined
  <2>2. Len(c) # 1 /\ Len(c) # 0
    BY <1>1, <2>1
  <2>3. \A m \in Nat : m # 1 /\ m # 0 => m >= 2
    OBVIOUS
  <2> QED
    BY <1>1, <2>2, <2>3
<1>3. c[2] = mpsc_next_[head_]
  <2>1. 1 \in 1..(Len(c) - 1) /\ 1 + 1 = 2
    BY <1>2
  <2> QED
    BY <1>1, <2>1 DEF Joined
<1> DEFINE d == Tail(c)
           L == Len(c)
           z == IF s = 1 THEN L ELSE s - 1
<1>4. d \in Seq(Links) /\ Len(d) = L - 1 /\ \A i \in 1..(L - 1) : d[i] = c[i + 1]
  BY <1>1
<1> HIDE DEF d
<1>5. Distinct(d)
  <2> SUFFICES ASSUME NEW i \in 1..Len(d), NEW j \in 1..Len(d), d[i] = d[j] PROVE i = j
    BY DEF Distinct
  <2>1. i + 1 \in 1..L /\ j + 1 \in 1..L /\ c[i + 1] = c[j + 1] /\ i \in Int /\ j \in Int
    BY <1>1, <1>4
  <2>2. i + 1 = j + 1
    BY <1>1, <2>1 DEF Distinct
  <2> QED
    BY <2>1, <2>2
<1>6. Shape(d, z)'
  <2>1. d # <<>> /\ d[1] = c[2] /\ d[Len(d)] = c[L]
    <3>1. 1 \in 1..(L - 1) /\ L - 1 \in 1..(L - 1) /\ (L - 1) + 1 = L /\ 1 + 1 = 2
      BY <1>1, <1>2
    <3> QED
      BY <1>4, <3>1
  <2>2. z \in 1..(Len(d) + 1)
    BY <1>1, <1>2, <1>4
  <2>3. ASSUME NEW i \in 1..Len(d) PROVE d[i] = Stub <=> i = z
    <3>1. i + 1 \in 1..L /\ d[i] = c[i + 1]
      BY <1>1, <1>4
    <3>2. d[i] = Stub <=> i + 1 = s
      BY <1>1, <3>1
    <3> QED
      BY <1>1, <1>4, <3>1, <3>2
  <2> QED
    BY <1>1, <1>3, <1>4, <1>5, <2>1, <2>2, <2>3 DEF Shape
<1>7. Joined(d)'
  <2>1. ASSUME NEW i \in 1..(Len(d) - 1)
        PROVE  \/ mpsc_next_[d[i]] = d[i + 1]
               \/ mpsc_next_[d[i]] = Null /\ Pending(d[i])'
    <3>1. i + 1 \in 1..(L - 1) /\ d[i] = c[i + 1] /\ d[i + 1] = c[(i + 1) + 1]
      BY <1>1, <1>4
    <3>2. Pending(c[i + 1]) => Pending(c[i + 1])'
      BY DEF Pending
    <3> QED
      BY <3>1, <3>2 DEF Joined
  <2>2. mpsc_next_[d[Len(d)]] = Null
    <3>1. d[Len(d)] = c[L]
      BY <1>1, <1>2, <1>4
    <3> QED
      BY <3>1 DEF Joined
  <2> QED
    BY <2>1, <2>2 DEF Joined
<1>8. Pushes(d)'
  <2>1. ASSUME NEW r \in Producers, ppc[r] = "link"
        PROVE  \E i \in 1..(Len(d) - 1) : d[i] = prev[r] /\ d[i + 1] = node[r] /\ mpsc_next_[prev[r]] = Null
    <3>1. PICK j \in 1..(L - 1) : c[j] = prev[r] /\ c[j + 1] = node[r] /\ mpsc_next_[prev[r]] = Null
      BY <2>1 DEF Pushes, Gap
    <3>2. j # 1
      BY <1>1, <3>1
    <3>3. j - 1 \in 1..(Len(d) - 1) /\ (j - 1) + 1 = j /\ j - 1 \in 1..(L - 1) /\ j \in 1..(L - 1)
      BY <1>1, <1>4, <3>1, <3>2
    <3>4. d[j - 1] = c[j] /\ d[j] = c[j + 1]
      BY <1>4, <3>3
    <3> QED
      BY <3>1, <3>3, <3>4
  <2> QED
    BY <2>1 DEF Pushes, Gap
<1> QED
  BY <1>1, <1>2, <1>3, <1>4, <1>6, <1>7, <1>8 DEF d

\* A step of pop() that only looks.
LEMMA LookStep ==
  ASSUME QueueInv, NEW c \in Seq(Links), NEW s \in Nat, IsQueue(c, s), Front(c, s)',
         UNCHANGED <<tail_, head_, mpsc_next_, fifo, ppc, node, prev>>,
         wpc \notin {"relink", "enqueue"}, wpc' \notin {"relink", "enqueue"}
  PROVE  QueueInv'
<1>1. Shape(c, s)' /\ Holds(c, s, Left)'
  BY DEF IsQueue, Shape, Holds, Left
<1>2. \A l : Pending(l) => Pending(l)'
  BY DEF Pending
<1>3. Joined(c)' /\ Pushes(c)'
  BY <1>2 DEF IsQueue, Joined, Pushes, Gap
<1>4. Once' /\ Taken'
  BY DEF QueueInv, Once, Taken
<1> QED
  BY <1>1, <1>3, <1>4 DEF QueueInv, Queue, IsQueue

\* pop() takes the node at the front.
LEMMA TakeStep ==
  ASSUME TypeOK, QueueInv, wpc \in {"advance", "retry"}, wpc' = "enqueue",
         mpsc_next_[head] # Null, head_' = mpsc_next_[head],
         UNCHANGED <<tail_, mpsc_next_, fifo, ppc, node, prev, head>>
  PROVE  QueueInv'
<1>1. PICK c \in Seq(Links), s \in Nat : IsQueue(c, s)
  BY DEF QueueInv, Queue
<1>2. /\ Shape(c, s) /\ Holds(c, s, fifo) /\ Joined(c) /\ Pushes(c) /\ Front(c, s)
      /\ Once /\ Taken
  BY <1>1 DEF IsQueue, QueueInv, Left
<1>3. head = head_ /\ head # Stub /\ head = c[1] /\ s # 1 /\ s \in 1..(Len(c) + 1) /\ Len(c) \in Nat
  <2>1. head = head_ /\ head # Stub
    BY <1>2 DEF Front, Holding
  <2>2. c # <<>> /\ c[1] = head_ /\ s \in 1..(Len(c) + 1) /\ \A i \in 1..Len(c) : c[i] = Stub <=> i = s
    BY <1>2 DEF Shape
  <2>3. 1 \in 1..Len(c)
    BY <2>2
  <2> QED
    BY <2>1, <2>2, <2>3
<1> DEFINE d == Tail(c)
           L == Len(c)
           z == s - 1
<1>4. /\ L >= 2 /\ d \in Seq(Links) /\ Len(d) = L - 1
      /\ \A i \in 1..(L - 1) : d[i] = c[i + 1]
      /\ Shape(d, z)' /\ Joined(d)' /\ Pushes(d)'
  <2>1. z = IF s = 1 THEN L ELSE s - 1
    BY <1>3
  <2>2. /\ mpsc_next_[head_] # Null /\ head_' = mpsc_next_[head_] /\ wpc # "relink" /\ wpc' # "relink"
    BY <1>3
  <2> HIDE DEF z
  <2> QED
    BY <1>2, <2>1, <2>2, DropFront
<1> HIDE DEF d
<1>5. /\ fifo \in Seq(Nodes) /\ Len(fifo) \in Nat /\ L = Len(fifo) + (IF s <= L THEN 1 ELSE 0)
      /\ \A i \in 1..Len(fifo) : fifo[i] = c[IF i < s THEN i ELSE i + 1]
  BY <1>2 DEF Holds, TypeOK
<1>6. fifo # <<>> /\ 1 \in 1..Len(fifo) /\ head = fifo[1]
  <2>1. 1 \in 1..Len(fifo) /\ 1 < s
    BY <1>3, <1>4, <1>5
  <2>2. fifo[1] = c[IF 1 < s THEN 1 ELSE 1 + 1]
    BY <1>5, <2>1
  <2> QED
    BY <1>3, <1>5, <2>1, <2>2
<1>7. Holds(d, z, Tail(fifo))
  <2> DEFINE g == Tail(fifo)
  <2>1. Len(g) = Len(fifo) - 1 /\ \A i \in 1..(Len(fifo) - 1) : g[i] = fifo[i + 1]
    BY <1>5, <1>6
  <2> HIDE DEF g
  <2>2. Len(d) = Len(g) + (IF z <= Len(d) THEN 1 ELSE 0)
    BY <1>3, <1>4, <1>5, <2>1
  <2>3. ASSUME NEW i \in 1..Len(g) PROVE g[i] = d[IF i < z THEN i ELSE i + 1]
    <3>1. i + 1 \in 1..Len(fifo) /\ g[i] = fifo[i + 1] /\ i \in 1..(L - 1) /\ i \in Int
      BY <1>3, <1>4, <1>5, <2>1
    <3>2. g[i] = c[IF i + 1 < s THEN i + 1 ELSE (i + 1) + 1]
      BY <1>5, <3>1
    <3>3. CASE i < z
      <4>1. i + 1 < s
        BY <1>3, <3>1, <3>3
      <4> QED
        BY <1>4, <3>1, <3>2, <3>3, <4>1
    <3>4. CASE ~(i < z)
      <4>1. ~(i + 1 < s) /\ i + 1 \in 1..(L - 1)
        BY <1>3, <1>4, <1>5, <2>1, <3>1, <3>4
      <4> QED
        BY <1>4, <3>2, <3>4, <4>1
    <3> QED
      BY <3>3, <3>4
  <2> QED
    BY <2>2, <2>3 DEF Holds, g
<1>8. Left' = Tail(fifo) /\ Holds(d, z, Left)'
  BY <1>7 DEF Left, Holds
<1>9. Front(d, z)'
  BY DEF Front, Holding
<1>10. Queue'
  <2>1. z \in Nat
    BY <1>3
  <2> QED
    BY <1>4, <1>8, <1>9, <2>1 DEF Queue, IsQueue
<1>11. Once' /\ Taken'
  BY <1>2, <1>6 DEF Once, Taken
<1> QED
  BY <1>10, <1>11 DEF QueueInv

\* pop() reads head_ and its successor.
LEMMA PopStep == ASSUME TypeOK, QueueInv, Pop PROVE QueueInv'
<1>1. PICK c \in Seq(Links), s \in Nat : IsQueue(c, s)
  BY DEF QueueInv, Queue
<1>2. /\ wpc = "pop" /\ UNCHANGED <<tail_, mpsc_next_, fifo, ppc, node, prev>>
  BY DEF Pop, producers
<1>3. /\ Shape(c, s) /\ Holds(c, s, Left) /\ Joined(c) /\ Pushes(c) /\ Once
      /\ Left = fifo
  BY <1>1, <1>2 DEF IsQueue, QueueInv, Left
<1>4. CASE head_ # Stub
  <2>1. head' = head_ /\ next' = mpsc_next_[head_] /\ wpc' = "advance" /\ head_' = head_
    BY <1>4 DEF Pop
  <2>2. Front(c, s)'
    BY <1>2, <1>4, <2>1 DEF Front
  <2> QED
    BY <1>1, <1>2, <2>1, <2>2, LookStep
<1>5. CASE head_ = Stub /\ mpsc_next_[head_] = Null
  <2>1. wpc' = "top" /\ UNCHANGED <<head, next, head_>>
    BY <1>5 DEF Pop
  <2> QED
    BY <1>2, <2>1, QuietStep DEF Holding
<1>6. CASE head_ = Stub /\ mpsc_next_[head_] # Null
  <2>1. head_' = mpsc_next_[head_] /\ head' = head_' /\ wpc' = "second"
    BY <1>6 DEF Pop
  <2>2. s = 1
    <3>1. 1 \in 1..Len(c) /\ c[1] = Stub
      BY <1>3, <1>6 DEF Shape
    <3> QED
      BY <1>3, <3>1 DEF Shape
  <2> DEFINE d == Tail(c)
             L == Len(c)
  <2>3. /\ L \in Nat /\ L >= 2 /\ c[2] = mpsc_next_[head_] /\ d \in Seq(Links) /\ Len(d) = L - 1
        /\ \A i \in 1..(L - 1) : d[i] = c[i + 1]
        /\ Shape(d, IF s = 1 THEN L ELSE s - 1)' /\ Joined(d)' /\ Pushes(d)'
    BY <1>2, <1>3, <1>6, <2>1, DropFront
  <2> HIDE DEF d
  <2>4. Shape(d, L)'
    BY <2>2, <2>3
  <2>5. Holds(d, L, fifo)
    <3>1. L = Len(fifo) + 1 /\ \A i \in 1..Len(fifo) : fifo[i] = c[IF i < s THEN i ELSE i + 1]
      BY <1>3, <2>2, <2>3 DEF Holds
    <3>2. fifo \in Seq(Nodes) /\ Len(fifo) \in Nat
      BY DEF TypeOK
    <3>3. Len(fifo) = Len(d) /\ ~(L <= Len(d))
      BY <2>3, <3>1, <3>2
    <3>4. ASSUME NEW i \in 1..Len(fifo) PROVE fifo[i] = d[IF i < L THEN i ELSE i + 1]
      <4>1. i \in 1..(L - 1) /\ i < L /\ ~(i < s)
        BY <2>2, <2>3, <3>1, <3>2
      <4> QED
        BY <2>3, <3>1, <4>1
    <3> QED
      BY <3>2, <3>3, <3>4 DEF Holds
  <2>6. Holds(d, L, Left)'
    BY <1>2, <2>1, <2>5 DEF Left, Holds
  <2>7. Front(d, L)'
    <3>1. head' # Stub
      <4>1. 2 \in 1..Len(c) /\ 2 # s
        BY <2>2, <2>3
      <4> QED
        BY <1>3, <2>1, <2>3, <4>1 DEF Shape
    <3> QED
      BY <2>1, <3>1 DEF Front
  <2>8. Queue'
    BY <2>3, <2>4, <2>6, <2>7 DEF Queue, IsQueue
  <2>9. Once' /\ Taken'
    BY <1>2, <1>3, <2>1 DEF Once, Taken
  <2> QED
    BY <2>8, <2>9 DEF QueueInv
<1> QED
  BY <1>4, <1>5, <1>6

\* pop() past the stub reads the successor of the new head.
LEMMA PopSecondStep == ASSUME QueueInv, PopSecond PROVE QueueInv'
<1>1. PICK c \in Seq(Links), s \in Nat : IsQueue(c, s)
  BY DEF QueueInv, Queue
<1>2. /\ wpc = "second" /\ next' = mpsc_next_[head] /\ wpc' = "advance"
      /\ UNCHANGED <<tail_, head_, mpsc_next_, fifo, ppc, node, prev, head>>
  BY DEF PopSecond, queuevars, producers
<1>3. Front(c, s)'
  BY <1>1, <1>2 DEF IsQueue, Front, Holding
<1> QED
  BY <1>1, <1>2, <1>3, LookStep

\* pop() takes the head when it has a successor.
LEMMA PopAdvanceStep == ASSUME TypeOK, QueueInv, PopAdvance PROVE QueueInv'
<1>1. PICK c \in Seq(Links), s \in Nat : IsQueue(c, s)
  BY DEF QueueInv, Queue
<1>2. wpc = "advance" /\ UNCHANGED <<tail_, mpsc_next_, fifo, ppc, node, prev, head, next>>
  BY DEF PopAdvance, producers
<1>3. CASE next # Null
  <2>1. head_' = next /\ wpc' = "enqueue" /\ mpsc_next_[head] = next
    BY <1>1, <1>2, <1>3 DEF PopAdvance, IsQueue, Front
  <2> QED
    BY <1>2, <1>3, <2>1, TakeStep
<1>4. CASE next = Null
  <2>1. head_' = head_ /\ wpc' = "last"
    BY <1>4 DEF PopAdvance
  <2>2. Front(c, s)'
    BY <1>1, <1>2, <2>1 DEF IsQueue, Front, Holding
  <2> QED
    BY <1>1, <1>2, <2>1, <2>2, LookStep
<1> QED
  BY <1>3, <1>4

\* pop() compares the only element with tail_.
LEMMA PopLastStep == ASSUME QueueInv, PopLast PROVE QueueInv'
<1>1. PICK c \in Seq(Links), s \in Nat : IsQueue(c, s)
  BY DEF QueueInv, Queue
<1>2. /\ wpc = "last" /\ UNCHANGED <<tail_, head_, mpsc_next_, fifo, ppc, node, prev, head, next>>
      /\ wpc' = IF tail_ = head THEN "restub" ELSE "top"
  BY DEF PopLast, queuevars, producers
<1>3. head = head_ /\ head # Stub
  BY <1>1, <1>2 DEF IsQueue, Front, Holding
<1>4. Front(c, s)'
  <2>1. CASE tail_ = head
    <3>1. /\ c # <<>> /\ Distinct(c) /\ c[1] = head_ /\ c[Len(c)] = tail_ /\ s \in 1..(Len(c) + 1)
          /\ \A i \in 1..Len(c) : c[i] = Stub <=> i = s
      BY <1>1 DEF IsQueue, Shape
    <3>2. Len(c) \in Nat /\ 1 \in 1..Len(c) /\ Len(c) \in 1..Len(c)
      BY <3>1
    <3>0. c[1] = c[Len(c)] /\ c[1] # Stub
      BY <1>3, <2>1, <3>1
    <3>3. Len(c) = 1 /\ s # 1
      BY <3>0, <3>1, <3>2 DEF Distinct
    <3>4. s = Len(c) + 1
      BY <3>1, <3>3
    <3> QED
      BY <1>2, <1>3, <2>1, <3>4 DEF Front
  <2>2. CASE tail_ # head
    BY <1>2, <2>2 DEF Front, Holding
  <2> QED
    BY <2>1, <2>2
<1> QED
  BY <1>1, <1>2, <1>4, LookStep

\* After the re-stub, pop() looks for the successor once more.
LEMMA PopRetryStep == ASSUME TypeOK, QueueInv, PopRetry PROVE QueueInv'
<1>1. wpc = "retry" /\ UNCHANGED <<tail_, mpsc_next_, fifo, ppc, node, prev, head, next>>
  BY DEF PopRetry, producers
<1>2. CASE mpsc_next_[head] # Null
  <2>1. head_' = mpsc_next_[head] /\ wpc' = "enqueue"
    BY <1>2 DEF PopRetry
  <2> QED
    BY <1>1, <1>2, <2>1, TakeStep
<1>3. CASE mpsc_next_[head] = Null
  <2>1. head_' = head_ /\ wpc' = "top"
    BY <1>3 DEF PopRetry
  <2>2. PICK c \in Seq(Links), s \in Nat : IsQueue(c, s)
    BY DEF QueueInv, Queue
  <2>3. Front(c, s)'
    BY <2>1 DEF Front, Holding
  <2> QED
    BY <1>1, <2>1, <2>2, <2>3, LookStep
<1> QED
  BY <1>2, <1>3

\* The worker has taken the oldest node that was pushed.
LEMMA EnqueueStep == ASSUME TypeOK, QueueInv, Enqueue PROVE QueueInv'
<1>1. PICK c \in Seq(Links), s \in Nat : IsQueue(c, s)
  BY DEF QueueInv, Queue
<1>2. /\ wpc = "enqueue" /\ wpc' = "pop" /\ fifo' = Tail(fifo)
      /\ UNCHANGED <<tail_, head_, mpsc_next_, ppc, node, prev>>
  BY DEF Enqueue, queuevars, producers
<1>3. Left' = Left
  BY <1>2 DEF Left
<1>4. Shape(c, s)' /\ Holds(c, s, Left)'
  BY <1>1, <1>2, <1>3 DEF IsQueue, Shape, Holds
<1>5. Joined(c)' /\ Pushes(c)' /\ Front(c, s)'
  BY <1>1, <1>2 DEF IsQueue, Joined, Pending, Pushes, Gap, Front, Holding
<1>6. Once'
  <2>1. fifo \in Seq(Nodes) /\ fifo # <<>> /\ Distinct(fifo)
    BY <1>2 DEF TypeOK, QueueInv, Taken, Once
  <2>2. ASSUME NEW i \in 1..Len(Tail(fifo)), NEW j \in 1..Len(Tail(fifo)), Tail(fifo)[i] = Tail(fifo)[j]
        PROVE  i = j
    <3>1. i + 1 \in 1..Len(fifo) /\ j + 1 \in 1..Len(fifo) /\ fifo[i + 1] = fifo[j + 1]
          /\ i \in Int /\ j \in Int
      BY <2>1, <2>2
    <3>2. i + 1 = j + 1
      BY <2>1, <3>1 DEF Distinct
    <3> QED
      BY <3>1, <3>2
  <2> QED
    BY <1>2, <2>2 DEF QueueInv, Once, Distinct
<1>7. Taken'
  BY <1>2 DEF Taken
<1> QED
  BY <1>1, <1>4, <1>5, <1>6, <1>7 DEF QueueInv, Queue, IsQueue

\* The stub is exchanged into the tail, behind the last node.
LEMMA PopRestubStep == ASSUME TypeOK, QueueInv, PopRestub PROVE QueueInv'
<1>1. PICK c \in Seq(Links), s \in Nat : IsQueue(c, s)
  BY DEF QueueInv, Queue
<1>2. /\ wpc = "restub" /\ mpsc_next_' = [mpsc_next_ EXCEPT ![Stub] = Null]
      /\ next' = tail_ /\ tail_' = Stub /\ wpc' = "relink"
      /\ UNCHANGED <<head_, fifo, ppc, node, prev, head>>
  BY DEF PopRestub, producers
<1>3. /\ Shape(c, s) /\ Holds(c, s, fifo) /\ Joined(c) /\ Pushes(c) /\ Front(c, s) /\ Once
  BY <1>1, <1>2 DEF IsQueue, QueueInv, Left
<1>4. /\ c # <<>> /\ Distinct(c) /\ c[1] = head_ /\ c[Len(c)] = tail_
      /\ s = Len(c) + 1 /\ head = head_ /\ head # Stub
  BY <1>2, <1>3 DEF Shape, Front, Holding
<1>5. Stub \in Links /\ \A i \in 1..Len(c) : c[i] # Stub
  BY <1>3, <1>4 DEF Shape, Links
<1> DEFINE d == Append(c, Stub)
           L == Len(c)
<1>6. /\ d \in Seq(Links) /\ d # <<>> /\ Distinct(d) /\ L \in Nat \ {0} /\ Len(d) = L + 1
      /\ \A i \in 1..L : d[i] = c[i]
      /\ d[L + 1] = Stub
  BY <1>4, <1>5, Behind
<1> HIDE DEF d
<1>7. (\A i \in 1..L : mpsc_next_'[c[i]] = mpsc_next_[c[i]]) /\ mpsc_next_'[Stub] = Null
  <2>1. mpsc_next_ \in [Links -> Links \cup {Null}] /\ \A i \in 1..L : c[i] \in Links
    BY <1>6 DEF TypeOK
  <2>2. \A l \in Links \ {Stub} : mpsc_next_'[l] = mpsc_next_[l]
    BY <1>2, <2>1
  <2> QED
    BY <1>2, <1>5, <2>1, <2>2
<1>8. Shape(d, s)'
  <2>1. s \in 1..(Len(d) + 1) /\ (\A i \in 1..Len(d) : d[i] = Stub <=> i = s)
    BY <1>4, <1>5, <1>6
  <2>2. d[1] = head_' /\ d[Len(d)] = tail_'
    BY <1>2, <1>4, <1>6
  <2> QED
    BY <1>6, <2>1, <2>2 DEF Shape
<1>9. Holds(d, s, Left)'
  <2>1. Left' = fifo /\ fifo \in Seq(Nodes) /\ Len(fifo) \in Nat
    BY <1>2 DEF Left, TypeOK
  <2>2. L = Len(fifo) /\ \A i \in 1..Len(fifo) : fifo[i] = c[IF i < s THEN i ELSE i + 1]
    BY <1>3, <1>4, <1>6, <2>1 DEF Holds
  <2>3. Len(d) = Len(fifo) + (IF s <= Len(d) THEN 1 ELSE 0)
    BY <1>4, <1>6, <2>1, <2>2
  <2>4. ASSUME NEW i \in 1..Len(fifo) PROVE fifo[i] = d[IF i < s THEN i ELSE i + 1]
    <3>1. i \in 1..L /\ i < s
      BY <1>4, <1>6, <2>1, <2>2
    <3> QED
      BY <1>6, <2>2, <3>1
  <2> QED
    BY <2>1, <2>3, <2>4 DEF Holds
<1>10. mpsc_next_'[c[L]] = Null /\ d[L] = next' /\ d[L + 1] = Stub /\ L \in 1..(Len(d) - 1) /\ c[L] = next'
  BY <1>2, <1>3, <1>4, <1>6, <1>7 DEF Joined
<1>11. Joined(d)'
  <2>1. ASSUME NEW i \in 1..(Len(d) - 1)
        PROVE  \/ mpsc_next_'[d[i]] = d[i + 1]
               \/ mpsc_next_'[d[i]] = Null /\ Pending(d[i])'
    <3>1. i \in 1..L /\ d[i] = c[i] /\ mpsc_next_'[d[i]] = mpsc_next_[c[i]]
      BY <1>6, <1>7, <2>1
    <3>2. CASE i < L
      <4>1. i \in 1..(Len(c) - 1) /\ d[i + 1] = c[i + 1]
        BY <1>6, <3>1, <3>2
      <4>2. Pending(c[i]) => Pending(c[i])'
        BY <1>2 DEF Pending
      <4> QED
        BY <1>3, <3>1, <4>1, <4>2 DEF Joined
    <3>3. CASE i = L
      <4>1. Pending(d[i])'
        BY <1>2, <1>10, <3>3 DEF Pending
      <4> QED
        BY <1>10, <3>1, <3>3, <4>1
    <3> QED
      BY <3>1, <3>2, <3>3
  <2>2. mpsc_next_'[d[Len(d)]] = Null
    BY <1>6, <1>7
  <2> QED
    BY <2>1, <2>2 DEF Joined
<1>12. Pushes(d)'
  <2>1. ASSUME NEW r \in Producers, ppc[r] = "link"
        PROVE  \E i \in 1..(Len(d) - 1) : d[i] = prev[r] /\ d[i + 1] = node[r] /\ mpsc_next_'[prev[r]] = Null
    <3>1. PICK i \in 1..(Len(c) - 1) : c[i] = prev[r] /\ c[i + 1] = node[r] /\ mpsc_next_[prev[r]] = Null
      BY <1>3, <2>1 DEF Pushes, Gap
    <3>2. i \in 1..L /\ i + 1 \in 1..L /\ i \in 1..(Len(d) - 1)
      BY <1>6, <3>1
    <3>3. d[i] = prev[r] /\ d[i + 1] = node[r] /\ mpsc_next_'[prev[r]] = Null
      BY <1>6, <1>7, <3>1, <3>2
    <3> QED
      BY <3>2, <3>3
  <2> QED
    BY <1>2, <2>1 DEF Pushes, Gap
<1>13. Front(d, s)'
  <2>1. Gap(d, next, Stub)'
    BY <1>10 DEF Gap
  <2> QED
    BY <1>2, <1>4, <2>1 DEF Front
<1>14. Queue'
  BY <1>6, <1>8, <1>9, <1>11, <1>12, <1>13 DEF Queue, IsQueue
<1>15. Once' /\ Taken'
  BY <1>2, <1>3 DEF Once, Taken
<1> QED
  BY <1>14, <1>15 DEF QueueInv

\* And linked.
LEMMA PopRelinkStep == ASSUME TypeOK, QueueInv, PopRelink PROVE QueueInv'
<1>1. PICK c \in Seq(Links), s \in Nat : IsQueue(c, s)
  BY DEF QueueInv, Queue
<1>2. /\ wpc = "relink" /\ mpsc_next_' = [mpsc_next_ EXCEPT ![next] = Stub] /\ wpc' = "retry"
      /\ UNCHANGED <<tail_, head_, fifo, ppc, node, prev, head, next>>
  BY DEF PopRelink, producers
<1>3. /\ Shape(c, s) /\ Holds(c, s, Left) /\ Joined(c) /\ Pushes(c) /\ Front(c, s) /\ Once
  BY <1>1 DEF IsQueue, QueueInv
<1>4. PICK k \in 1..(Len(c) - 1) : c[k] = next /\ c[k + 1] = Stub /\ mpsc_next_[next] = Null
  BY <1>2, <1>3 DEF Front, Gap
<1>5. /\ mpsc_next_'[next] = Stub
      /\ \A i \in 1..Len(c) : i # k => c[i] # next /\ mpsc_next_'[c[i]] = mpsc_next_[c[i]]
  <2>1. Distinct(c) /\ k \in 1..Len(c) /\ \A i \in 1..Len(c) : c[i] \in Links
    BY <1>3 DEF Shape
  <2>2. mpsc_next_ \in [Links -> Links \cup {Null}] /\ next \in Links
    BY <1>4, <2>1 DEF TypeOK
  <2>3. mpsc_next_'[next] = Stub /\ \A l \in Links : l # next => mpsc_next_'[l] = mpsc_next_[l]
    BY <1>2, <2>2
  <2>4. \A i \in 1..Len(c) : i # k => c[i] # next
    BY <1>4, <2>1 DEF Distinct
  <2> QED
    BY <2>1, <2>3, <2>4
<1>6. Len(c) \in Nat /\ k \in 1..Len(c) /\ Len(c) # k
  BY <1>4
<1>7. Shape(c, s)' /\ Holds(c, s, Left)'
  BY <1>2, <1>3 DEF Shape, Holds, Left
<1>8. Joined(c)'
  <2>1. ASSUME NEW i \in 1..(Len(c) - 1)
        PROVE  \/ mpsc_next_'[c[i]] = c[i + 1]
               \/ mpsc_next_'[c[i]] = Null /\ Pending(c[i])'
    <3>1. CASE i = k
      BY <1>4, <1>5, <3>1
    <3>2. CASE i # k
      <4>1. i \in 1..Len(c) /\ c[i] # next /\ mpsc_next_'[c[i]] = mpsc_next_[c[i]]
        BY <1>5, <1>6, <2>1, <3>2
      <4>2. Pending(c[i]) => Pending(c[i])'
        BY <1>2, <4>1 DEF Pending
      <4> QED
        BY <1>3, <4>1, <4>2 DEF Joined
    <3> QED
      BY <3>1, <3>2
  <2>2. mpsc_next_'[c[Len(c)]] = Null
    <3>1. Len(c) \in 1..Len(c) /\ Len(c) # k
      BY <1>6
    <3> QED
      BY <1>3, <1>5, <3>1 DEF Joined
  <2> QED
    BY <2>1, <2>2 DEF Joined
<1>9. Pushes(c)'
  <2>1. ASSUME NEW r \in Producers, ppc[r] = "link"
        PROVE  \E i \in 1..(Len(c) - 1) : c[i] = prev[r] /\ c[i + 1] = node[r] /\ mpsc_next_'[prev[r]] = Null
    <3>1. PICK i \in 1..(Len(c) - 1) : c[i] = prev[r] /\ c[i + 1] = node[r] /\ mpsc_next_[prev[r]] = Null
      BY <1>3, <2>1 DEF Pushes, Gap
    <3>2. i # k
      <4>1. node[r] \in Nodes \cup {Null} /\ Stub \notin Nodes \cup {Null}
        BY InboxAssumption DEF TypeOK
      <4> QED
        BY <1>4, <3>1, <4>1
    <3>3. i \in 1..Len(c)
      BY <1>6, <3>1
    <3> QED
      BY <1>5, <3>1, <3>2, <3>3
  <2> QED
    BY <1>2, <2>1 DEF Pushes, Gap
<1>10. Front(c, s)'
  <2>1. Len(c) > 1
    BY <1>4, <1>6
  <2> QED
    BY <1>2, <1>3, <2>1 DEF Front, Holding
<1>11. Queue'
  BY <1>1, <1>7, <1>8, <1>9, <1>10 DEF Queue, IsQueue
<1>12. Once' /\ Taken'
  BY <1>2, <1>3 DEF Once, Taken
<1> QED
  BY <1>11, <1>12 DEF QueueInv

\* The steps of the wake-up, of the rest of the loop and of the exit do not
\* concern the queue.
LEMMA QueueStep == ASSUME IInv, [Next]_vars PROVE QueueInv'
<1>1. TypeOK /\ QueueInv
  BY DEF IInv
<1> DEFINE Kicks(p) == PushFlag(p) \/ KickEnter(p) \/ KickLoad(p) \/ Wake(p) \/ WakeWrite(p) \/ KickLeave(p)
           Others == Continue \/ PollWake \/ PollReturn \/ PollTimeout \/ DrainRead \/ DrainClear
                     \/ RunTasks \/ TakeFlag \/ Unset \/ Close
<1>2. ASSUME NEW p \in Producers, Kicks(p) PROVE QueueInv'
  <2>1. UNCHANGED <<tail_, head_, mpsc_next_, fifo, node, prev, wpc, head, next>>
    BY <1>2 DEF PushFlag, KickEnter, KickLoad, Wake, WakeWrite, KickLeave, queuevars, worker
  <2>2. \E at \in {"enter", "load", "leave", "wake", "write", "idle"} :
          ppc[p] # "link" /\ ppc' = [ppc EXCEPT ![p] = at]
    BY <1>2 DEF PushFlag, KickEnter, KickLoad, Wake, WakeWrite, KickLeave, Goto
  <2>3. \A r \in Producers : ppc'[r] = "link" <=> ppc[r] = "link"
    BY <1>1, <2>2 DEF TypeOK
  <2> QED
    BY <1>1, <2>1, <2>3, QuietStep
<1>3. CASE Others
  <2>1. UNCHANGED <<tail_, head_, mpsc_next_, fifo, node, prev, ppc>>
    BY <1>3 DEF Continue, PollWake, PollReturn, PollTimeout, DrainRead, DrainClear, RunTasks,
                TakeFlag, Unset, Close, queuevars, producers
  <2>2. wpc \in {"top", "poll", "read", "clear", "run", "inbox", "wait"}
    BY <1>3 DEF Continue, PollWake, PollReturn, PollTimeout, DrainRead, DrainClear, RunTasks,
                TakeFlag, Unset, Close
  <2>3. wpc' \in {"top", "poll", "read", "clear", "run", "inbox", "pop", "wait", "closed"}
    BY <1>3 DEF Continue, PollWake, PollReturn, PollTimeout, DrainRead, DrainClear, RunTasks,
                TakeFlag, Unset, Close
  <2>4. wpc \notin Holding \cup {"enqueue"} /\ wpc' \notin Holding \cup {"enqueue"}
    BY <2>2, <2>3 DEF Holding
  <2> QED
    BY <1>1, <2>1, <2>4, QuietStep
<1>4. CASE Flush \/ UNCHANGED vars
  <2>1. UNCHANGED <<tail_, head_, mpsc_next_, fifo, node, prev, ppc, wpc, head, next>>
    BY <1>4 DEF Flush, vars, queuevars, producers, worker
  <2> QED
    BY <1>1, <2>1, QuietStep
<1>5. CASE Pop \/ PopSecond \/ PopAdvance \/ PopLast \/ PopRestub \/ PopRelink \/ PopRetry \/ Enqueue
  BY <1>1, <1>5, PopStep, PopSecondStep, PopAdvanceStep, PopLastStep, PopRestubStep,
     PopRelinkStep, PopRetryStep, EnqueueStep
<1>6. ASSUME NEW p \in Producers, PushLink(p) \/ \E n \in Nodes : PushSwap(p, n) PROVE QueueInv'
  BY <1>1, <1>6, PushLinkStep, PushSwapStep
<1> QED
  BY <1>2, <1>3, <1>4, <1>5, <1>6 DEF Next, Push, Loop

(***************************************************************************)
(* Types, and the end of the worker                                        *)
(***************************************************************************)

\* There are finitely many producers in kick_poller().
LEMMA InsideFinite == IsFiniteSet(Inside) /\ Cardinality(Inside) \in Nat
BY ProducersAssumption, FS_Subset, FS_CardinalityType DEF Inside

\* The node that pop() has found is a link.
LEMMA HeldLink == ASSUME IInv, wpc \in Holding PROVE head \in Nodes
<1>1. PICK c \in Seq(Links), s \in Nat : IsQueue(c, s)
  BY DEF IInv, QueueInv, Queue
<1>2. head = head_ /\ head # Stub
  BY <1>1 DEF IsQueue, Front
<1> QED
  BY <1>2 DEF IInv, TypeOK, Links

\* Every step keeps the types.
LEMMA TypeStep == ASSUME IInv, [Next]_vars PROVE TypeOK'
<1>1. TypeOK /\ Taken
  BY DEF IInv, QueueInv
<1>2. ASSUME NEW p \in Producers, NEW n \in Nodes, PushSwap(p, n) PROVE TypeOK'
  BY <1>1, <1>2 DEF TypeOK, PushSwap, Goto, Links, wakevars, exitvars, worker
<1>3. ASSUME NEW p \in Producers, PushLink(p) PROVE TypeOK'
  <2>1. mpsc_next_' \in [Links -> Links \cup {Null}]
    BY <1>1, <1>3 DEF TypeOK, PushLink, Links
  <2>2. /\ ppc' = [ppc EXCEPT ![p] = "flag"] /\ prev' = [prev EXCEPT ![p] = Null]
        /\ node' = [node EXCEPT ![p] = Null]
        /\ UNCHANGED <<tail_, head_, is_added_new_, wakevars, exitvars, worker, fifo>>
    BY <1>3 DEF PushLink, Goto
  <2> QED
    BY <1>1, <2>1, <2>2 DEF TypeOK, wakevars, exitvars, worker
<1>4. ASSUME NEW p \in Producers, PushFlag(p) \/ KickLoad(p) \/ Wake(p) \/ WakeWrite(p) PROVE TypeOK'
  <2>1. PICK at \in {"enter", "leave", "wake", "write"} : ppc' = [ppc EXCEPT ![p] = at]
    BY <1>4 DEF PushFlag, KickLoad, Wake, WakeWrite, Goto
  <2>2. UNCHANGED <<tail_, head_, mpsc_next_, exitvars, node, prev, worker, fifo>>
    BY <1>4 DEF PushFlag, KickLoad, Wake, WakeWrite, queuevars
  <2>3. {is_added_new_', wake_fd', edge', wake_pending'} \subseteq BOOLEAN
    BY <1>1, <1>4 DEF TypeOK, PushFlag, KickLoad, Wake, WakeWrite, queuevars, wakevars
  <2> QED
    BY <1>1, <2>1, <2>2, <2>3 DEF TypeOK, exitvars, worker
<1>5. ASSUME NEW p \in Producers, KickEnter(p) PROVE TypeOK'
  BY <1>1, <1>5 DEF TypeOK, KickEnter, Goto, queuevars, wakevars, worker
<1>6. ASSUME NEW p \in Producers, KickLeave(p) PROVE TypeOK'
  <2>1. p \in Inside
    BY <1>6 DEF KickLeave, Inside
  <2>2. Cardinality(Inside) # 0
    BY <2>1, InsideFinite, FS_EmptySet
  <2>3. wake_inflight_ - 1 \in Nat
    BY <2>2, InsideFinite DEF IInv, Exits
  <2> QED
    BY <1>1, <1>6, <2>3 DEF TypeOK, KickLeave, Goto, queuevars, wakevars, worker
<1>7. CASE Continue \/ PollWake \/ PollReturn \/ PollTimeout \/ DrainRead \/ DrainClear \/ RunTasks
  BY <1>1, <1>7 DEF TypeOK, Continue, PollWake, PollReturn, PollTimeout, DrainRead, DrainClear,
                    RunTasks, queuevars, wakevars, exitvars, producers
<1>8. CASE TakeFlag \/ Unset \/ Flush \/ Close
  BY <1>1, <1>8 DEF TypeOK, TakeFlag, Unset, Flush, Close, queuevars, wakevars, exitvars,
                    producers, worker
<1>9. CASE Pop
  BY <1>1, <1>9 DEF TypeOK, Pop, wakevars, exitvars, producers
<1>10. CASE PopSecond \/ PopAdvance \/ PopLast
  <2>1. head \in Links
    BY <1>10, HeldLink DEF PopSecond, PopAdvance, PopLast, Holding, Links
  <2> QED
    BY <1>1, <1>10, <2>1 DEF TypeOK, PopSecond, PopAdvance, PopLast, queuevars, wakevars, exitvars, producers
<1>11. CASE PopRestub \/ PopRelink
  BY <1>1, <1>11 DEF TypeOK, PopRestub, PopRelink, Links, wakevars, exitvars, producers
<1>12. CASE PopRetry
  <2>1. head \in Links
    BY <1>12, HeldLink DEF PopRetry, Holding, Links
  <2> QED
    BY <1>1, <1>12, <2>1 DEF TypeOK, PopRetry, wakevars, exitvars, producers
<1>13. CASE Enqueue
  BY <1>1, <1>13 DEF TypeOK, Enqueue, Taken, queuevars, wakevars, exitvars, producers
<1>14. CASE UNCHANGED vars
  BY <1>1, <1>14 DEF TypeOK, vars, queuevars, wakevars, exitvars, producers, worker
<1> QED
  BY <1>2, <1>3, <1>4, <1>5, <1>6, <1>7, <1>8, <1>9, <1>10, <1>11, <1>12, <1>13, <1>14
  DEF Next, Push, Loop

\* What a producer's step does to where the producers are.
LEMMA OnePlace ==
  ASSUME TypeOK, NEW p \in Producers, NEW at, ppc' = [ppc EXCEPT ![p] = at]
  PROVE  ppc'[p] = at /\ \A r \in Producers \ {p} : ppc'[r] = ppc[r]
BY DEF TypeOK

\* wake_inflight_ counts the producers in kick_poller(), and the worker closes
\* its eventfd when none of them can still write to it.
LEMMA ExitStep == ASSUME IInv, [Next]_vars PROVE Exits' /\ ClosesAfterWakes'
<1>1. /\ TypeOK /\ Exits /\ ClosesAfterWakes
      /\ wake_inflight_ = Cardinality(Inside)
      /\ poller_ # "set" <=> wpc \in {"wait", "closed"}
      /\ poller_ = "unsetting" => store_buffer
  BY DEF IInv, Exits
<1>2. ASSUME Inside' = Inside, UNCHANGED <<wake_inflight_, poller_, store_buffer>>,
             wpc' \in {"wait", "closed"} <=> wpc \in {"wait", "closed"},
             wpc' = "closed" <=> wpc = "closed",
             \A p \in Producers : ppc'[p] \in {"wake", "write"} =>
               ppc[p] \in {"wake", "write"} \/ store_buffer \/ wpc # "closed"
      PROVE  Exits' /\ ClosesAfterWakes'
  <2>1. Exits'
    BY <1>1, <1>2 DEF Exits
  <2>2. ClosesAfterWakes'
    BY <1>1, <1>2 DEF ClosesAfterWakes, NoWriteToClosedFd
  <2> QED
    BY <2>1, <2>2
<1>3. ASSUME NEW p \in Producers, (\E n \in Nodes : PushSwap(p, n)) \/ PushLink(p) \/ PushFlag(p)
      PROVE  Exits' /\ ClosesAfterWakes'
  <2>1. PICK at \in {"link", "flag", "enter"} : ppc' = [ppc EXCEPT ![p] = at]
    BY <1>3 DEF PushSwap, PushLink, PushFlag, Goto
  <2>2. ppc[p] \notin {"load", "wake", "write", "leave"} /\ UNCHANGED <<wake_inflight_, poller_, store_buffer, wpc>>
    BY <1>3 DEF PushSwap, PushLink, PushFlag, exitvars, worker
  <2>3. ppc'[p] = at /\ \A r \in Producers \ {p} : ppc'[r] = ppc[r]
    BY <1>1, <2>1, OnePlace
  <2>4. Inside' = Inside
    BY <2>2, <2>3 DEF Inside
  <2> QED
    BY <1>2, <2>2, <2>3, <2>4
<1>4. ASSUME NEW p \in Producers, KickEnter(p) PROVE Exits' /\ ClosesAfterWakes'
  <2>1. /\ ppc[p] = "enter" /\ ppc' = [ppc EXCEPT ![p] = "load"] /\ wake_inflight_' = wake_inflight_ + 1
        /\ UNCHANGED <<poller_, store_buffer, wpc>>
    BY <1>4 DEF KickEnter, Goto, worker
  <2>2. ppc'[p] = "load" /\ \A r \in Producers \ {p} : ppc'[r] = ppc[r]
    BY <1>1, <2>1, OnePlace
  <2>3. Inside' = Inside \cup {p} /\ p \notin Inside
    BY <2>1, <2>2 DEF Inside
  <2>4. Cardinality(Inside') = Cardinality(Inside) + 1
    BY <2>3, InsideFinite, FS_AddElement
  <2>5. Exits'
    BY <1>1, <2>1, <2>4 DEF Exits
  <2>6. ClosesAfterWakes'
    BY <1>1, <2>1, <2>2 DEF ClosesAfterWakes, NoWriteToClosedFd
  <2> QED
    BY <2>5, <2>6
<1>5. ASSUME NEW p \in Producers, KickLeave(p) PROVE Exits' /\ ClosesAfterWakes'
  <2>1. /\ ppc[p] = "leave" /\ ppc' = [ppc EXCEPT ![p] = "idle"] /\ wake_inflight_' = wake_inflight_ - 1
        /\ UNCHANGED <<poller_, store_buffer, wpc>>
    BY <1>5 DEF KickLeave, Goto, worker
  <2>2. ppc'[p] = "idle" /\ \A r \in Producers \ {p} : ppc'[r] = ppc[r]
    BY <1>1, <2>1, OnePlace
  <2>3. Inside' = Inside \ {p} /\ p \in Inside
    BY <2>1, <2>2 DEF Inside
  <2>4. Cardinality(Inside') = Cardinality(Inside) - 1
    BY <2>3, InsideFinite, FS_RemoveElement
  <2>5. Exits'
    BY <1>1, <2>1, <2>4 DEF Exits
  <2>6. ClosesAfterWakes'
    BY <1>1, <2>1, <2>2 DEF ClosesAfterWakes, NoWriteToClosedFd
  <2> QED
    BY <2>5, <2>6
<1>6. ASSUME NEW p \in Producers, KickLoad(p) \/ Wake(p) \/ WakeWrite(p)
      PROVE  Exits' /\ ClosesAfterWakes'
  <2>1. PICK at \in {"leave", "wake", "write"} :
          /\ ppc' = [ppc EXCEPT ![p] = at]
          /\ at = "wake" => ppc[p] = "load" /\ poller_ # "null"
          /\ at = "write" => ppc[p] = "wake"
    BY <1>6 DEF KickLoad, Wake, WakeWrite, Goto
  <2>2. ppc[p] \in {"load", "wake", "write"} /\ UNCHANGED <<wake_inflight_, poller_, store_buffer, wpc>>
    BY <1>6 DEF KickLoad, Wake, WakeWrite, exitvars, worker
  <2>3. ppc'[p] = at /\ \A r \in Producers \ {p} : ppc'[r] = ppc[r]
    BY <1>1, <2>1, OnePlace
  <2>4. Inside' = Inside
    BY <2>2, <2>3 DEF Inside
  <2>5. at = "wake" => store_buffer \/ wpc # "closed"
    BY <1>1, <2>1 DEF TypeOK
  <2> QED
    BY <1>2, <2>1, <2>2, <2>3, <2>4, <2>5
<1>7. CASE Unset
  <2>1. /\ wpc = "top" /\ wpc' = "wait" /\ UNCHANGED <<ppc, wake_inflight_, store_buffer>>
        /\ poller_' = IF store_buffer THEN "unsetting" ELSE "null"
    BY <1>7 DEF Unset, producers
  <2>2. Inside' = Inside
    BY <2>1 DEF Inside
  <2> QED
    BY <1>1, <2>1, <2>2 DEF Exits, ClosesAfterWakes, NoWriteToClosedFd
<1>8. CASE Flush
  <2>1. poller_ = "unsetting" /\ poller_' = "null" /\ UNCHANGED <<ppc, wpc, wake_inflight_, store_buffer>>
    BY <1>8 DEF Flush, producers, worker
  <2>2. Inside' = Inside
    BY <2>1 DEF Inside
  <2> QED
    BY <1>1, <2>1, <2>2 DEF Exits, ClosesAfterWakes, NoWriteToClosedFd
<1>9. CASE Close
  <2>1. wpc = "wait" /\ wake_inflight_ = 0 /\ wpc' = "closed"
        /\ UNCHANGED <<ppc, wake_inflight_, poller_, store_buffer>>
    BY <1>9 DEF Close, producers, exitvars
  <2>2. Inside' = Inside /\ Inside = {}
    BY <1>1, <2>1, InsideFinite, FS_EmptySet DEF Inside
  <2>3. \A p \in Producers : ppc[p] \notin {"wake", "write"}
    BY <2>2 DEF Inside
  <2>4. Exits'
    BY <1>1, <2>1, <2>2 DEF Exits
  <2> QED
    BY <2>1, <2>3, <2>4 DEF ClosesAfterWakes, NoWriteToClosedFd
<1>10. CASE Loop \/ PollTimeout \/ UNCHANGED vars
  <2>1. UNCHANGED <<ppc, wake_inflight_, poller_, store_buffer>>
    BY <1>10 DEF Loop, Continue, PollWake, PollReturn, PollTimeout, DrainRead, DrainClear, RunTasks,
       TakeFlag, Pop, PopSecond, PopAdvance, PopLast, PopRestub, PopRelink, PopRetry, Enqueue,
       vars, producers, exitvars
  <2>2. (wpc \notin {"wait", "closed"} /\ wpc' \notin {"wait", "closed"}) \/ wpc' = wpc
    BY <1>10 DEF Loop, Continue, PollWake, PollReturn, PollTimeout, DrainRead, DrainClear, RunTasks,
       TakeFlag, Pop, PopSecond, PopAdvance, PopLast, PopRestub, PopRelink, PopRetry, Enqueue,
       vars, worker
  <2>3. Inside' = Inside
    BY <2>1 DEF Inside
  <2> QED
    BY <1>2, <2>1, <2>2, <2>3
<1> QED
  BY <1>3, <1>4, <1>5, <1>6, <1>7, <1>8, <1>9, <1>10 DEF Next, Push

(***************************************************************************)
(* Wake-ups                                                                *)
(***************************************************************************)

\* A front that is not linked to the rest has a producer that will link it.
LEMMA FrontPending ==
  ASSUME IInv, wpc \notin {"relink"}, mpsc_next_[head_] = Null, head_ # tail_
  PROVE  Announcing
<1>1. PICK c \in Seq(Links), s \in Nat : IsQueue(c, s)
  BY DEF IInv, QueueInv, Queue
<1>2. /\ c # <<>> /\ c[1] = head_ /\ c[Len(c)] = tail_ /\ Len(c) \in Nat
  BY <1>1 DEF IsQueue, Shape
<1>3. 1 \in 1..(Len(c) - 1) /\ c[1 + 1] \in Links
  <2>1. Len(c) # 1 /\ Len(c) # 0
    BY <1>2
  <2>2. \A m \in Nat : m # 1 /\ m # 0 => 1 \in 1..(m - 1) /\ 1 + 1 \in 1..m
    OBVIOUS
  <2> QED
    BY <1>2, <2>1, <2>2
<1>4. c[1 + 1] # Null
  BY <1>3, InboxAssumption DEF Links
<1>5. Pending(c[1])
  BY <1>1, <1>2, <1>3, <1>4 DEF IsQueue, Joined
<1> QED
  BY <1>5 DEF Pending, Announcing

\* A stub that is alone is an empty queue.
LEMMA StubAlone ==
  ASSUME IInv, wpc # "enqueue", head_ = Stub, tail_ = Stub
  PROVE  fifo = <<>>
<1>1. PICK c \in Seq(Links), s \in Nat : IsQueue(c, s)
  BY DEF IInv, QueueInv, Queue
<1>2. /\ c # <<>> /\ c[1] = Stub /\ c[Len(c)] = Stub /\ Len(c) \in Nat
      /\ \A i \in 1..Len(c) : c[i] = Stub <=> i = s
  BY <1>1 DEF IsQueue, Shape
<1>3. 1 \in 1..Len(c) /\ Len(c) \in 1..Len(c)
  BY <1>2
<1>4. s = 1 /\ Len(c) = 1
  BY <1>2, <1>3
<1>5. fifo \in Seq(Nodes) /\ Holds(c, s, fifo)
  BY <1>1 DEF IInv, TypeOK, IsQueue, Left
<1>6. Len(fifo) = 0
  BY <1>4, <1>5 DEF Holds
<1> QED
  BY <1>5, <1>6

\* At the end of pop() the stub is behind the node it has found.
LEMMA RetryBehind == ASSUME IInv, wpc = "retry" PROVE head = head_ /\ head_ # tail_
<1>1. PICK c \in Seq(Links), s \in Nat : IsQueue(c, s)
  BY DEF IInv, QueueInv, Queue
<1>2. /\ c # <<>> /\ c[1] = head_ /\ c[Len(c)] = tail_ /\ Len(c) \in Nat /\ Distinct(c)
      /\ Len(c) > 1 /\ head = head_
  BY <1>1 DEF IsQueue, Shape, Front, Holding
<1>3. 1 \in 1..Len(c) /\ Len(c) \in 1..Len(c) /\ Len(c) # 1
  BY <1>2
<1>4. c[1] # c[Len(c)]
  BY <1>2, <1>3 DEF Distinct
<1> QED
  BY <1>2, <1>4

\* A wake-up that was asked for is on its way, or is being taken.
LEMMA WakeStep == ASSUME IInv, [Next]_vars PROVE NoLostWakeup' /\ Roused'
<1>1. TypeOK /\ NoLostWakeup /\ Roused /\ Exits
  BY DEF IInv
<1>b. {is_added_new_, wake_fd, edge, wake_pending} \subseteq BOOLEAN
  BY <1>1 DEF TypeOK
<1>2. ASSUME NEW p \in Producers, (\E n \in Nodes : PushSwap(p, n)) \/ PushLink(p) \/ PushFlag(p) \/ KickEnter(p)
      PROVE  NoLostWakeup' /\ Roused'
  <2>1. PICK at \in {"link", "flag", "enter", "load"} : ppc' = [ppc EXCEPT ![p] = at]
    BY <1>2 DEF PushSwap, PushLink, PushFlag, KickEnter, Goto
  <2>2. ppc[p] # "write" /\ UNCHANGED <<wake_fd, edge, wake_pending, wpc>>
    BY <1>2 DEF PushSwap, PushLink, PushFlag, KickEnter, wakevars, worker
  <2>3. ppc'[p] = at /\ \A r \in Producers \ {p} : ppc'[r] = ppc[r]
    BY <1>1, <2>1, OnePlace
  <2>4. Active'
    BY <2>1, <2>3 DEF Active
  <2>5. NoLostWakeup'
    BY <1>1, <2>2, <2>3 DEF NoLostWakeup
  <2> QED
    BY <2>4, <2>5 DEF Roused
<1>3. ASSUME NEW p \in Producers, KickLoad(p) PROVE NoLostWakeup' /\ Roused'
  <2>1. /\ ppc[p] = "load" /\ UNCHANGED <<wake_fd, edge, wake_pending, is_added_new_, wpc>>
        /\ ppc' = [ppc EXCEPT ![p] = IF poller_ = "null" THEN "leave" ELSE "wake"]
    BY <1>3 DEF KickLoad, Goto, wakevars, queuevars, worker
  <2>2. /\ ppc'[p] = (IF poller_ = "null" THEN "leave" ELSE "wake")
        /\ \A r \in Producers \ {p} : ppc'[r] = ppc[r]
    BY <1>1, <2>1, OnePlace
  <2>3. NoLostWakeup'
    BY <1>1, <2>1, <2>2 DEF NoLostWakeup
  <2>4. CASE poller_ = "null"
    <3>1. wpc \notin Popping \cup {"top", "poll"}
      BY <1>1, <2>4 DEF Exits, Popping
    <3> QED
      BY <2>1, <2>3, <3>1 DEF Roused
  <2>5. CASE poller_ # "null"
    BY <2>2, <2>3, <2>5 DEF Roused, Active
  <2> QED
    BY <2>4, <2>5
<1>4. ASSUME NEW p \in Producers, Wake(p) PROVE NoLostWakeup' /\ Roused'
  <2>1. /\ ppc[p] = "wake" /\ wake_pending' = TRUE /\ UNCHANGED <<wake_fd, edge, is_added_new_, wpc>>
        /\ ppc' = [ppc EXCEPT ![p] = IF wake_pending THEN "leave" ELSE "write"]
    BY <1>4 DEF Wake, Goto, queuevars, worker
  <2>2. /\ ppc'[p] = (IF wake_pending THEN "leave" ELSE "write")
        /\ \A r \in Producers \ {p} : ppc'[r] = ppc[r]
    BY <1>1, <2>1, OnePlace
  <2>3. CASE wake_pending
    <3>1. (wake_fd /\ edge) \/ wpc \in {"read", "clear"} \/ \E r \in Producers \ {p} : ppc[r] = "write"
      BY <1>1, <2>1, <2>3 DEF NoLostWakeup
    <3>2. NoLostWakeup'
      BY <2>1, <2>2, <3>1 DEF NoLostWakeup
    <3>3. Roused'
      BY <2>1, <2>2, <3>1 DEF Roused, Active, Popping
    <3> QED
      BY <3>2, <3>3
  <2>4. CASE ~wake_pending
    BY <2>2, <2>4 DEF NoLostWakeup, Roused, Active
  <2> QED
    BY <2>3, <2>4
<1>5. ASSUME NEW p \in Producers, WakeWrite(p) PROVE NoLostWakeup' /\ Roused'
  BY <1>5 DEF WakeWrite, NoLostWakeup, Roused
<1>6. ASSUME NEW p \in Producers, KickLeave(p) PROVE NoLostWakeup' /\ Roused'
  <2>1. /\ ppc[p] = "leave" /\ UNCHANGED <<wake_fd, edge, wake_pending, is_added_new_, wpc>>
        /\ ppc' = [ppc EXCEPT ![p] = "idle"]
    BY <1>6 DEF KickLeave, Goto, wakevars, queuevars, worker
  <2>2. ppc'[p] = "idle" /\ \A r \in Producers \ {p} : ppc'[r] = ppc[r]
    BY <1>1, <2>1, OnePlace
  <2> QED
    BY <1>1, <2>1, <2>2 DEF NoLostWakeup, Roused, Active
<1>7. CASE PollWake \/ DrainRead \/ DrainClear
  <2>1. NoLostWakeup'
    BY <1>1, <1>7 DEF PollWake, DrainRead, DrainClear, NoLostWakeup, producers
  <2>2. wpc' \in {"read", "clear", "run"}
    BY <1>7 DEF PollWake, DrainRead, DrainClear
  <2> QED
    BY <2>1, <2>2 DEF Roused, Popping
<1>8. CASE Continue \/ PollReturn \/ PollTimeout \/ RunTasks \/ Unset \/ Close
  <2>1. /\ UNCHANGED <<wake_fd, edge, wake_pending, is_added_new_, ppc>> /\ wpc \notin {"read", "clear"}
        /\ (wpc = "top" /\ wpc' = "poll") \/ wpc' \in {"run", "inbox", "wait", "closed"}
    BY <1>8 DEF Continue, PollReturn, PollTimeout, RunTasks, Unset, Close, wakevars, queuevars, producers
  <2> QED
    BY <1>1, <2>1 DEF NoLostWakeup, Roused, Active, Popping
<1>9. CASE TakeFlag
  <2>1. /\ UNCHANGED <<wake_fd, edge, wake_pending, ppc>> /\ wpc = "inbox" /\ is_added_new_' = FALSE
    BY <1>9 DEF TakeFlag, wakevars, producers
  <2> QED
    BY <1>1, <2>1 DEF NoLostWakeup, Roused
<1>10. CASE Pop \/ PopSecond \/ PopAdvance \/ PopLast \/ PopRestub \/ PopRelink \/ PopRetry \/ Enqueue
  <2>1. UNCHANGED <<wake_fd, edge, wake_pending, is_added_new_, ppc>>
    BY <1>10 DEF Pop, PopSecond, PopAdvance, PopLast, PopRestub, PopRelink, PopRetry, Enqueue,
       wakevars, queuevars, producers
  <2>2. wpc \in Popping
    BY <1>10 DEF Pop, PopSecond, PopAdvance, PopLast, PopRestub, PopRelink, PopRetry, Enqueue, Popping
  <2> QED
    BY <1>1, <2>1, <2>2 DEF NoLostWakeup, Roused, Active, Popping
<1>11. CASE Flush \/ UNCHANGED vars
  <2>1. UNCHANGED <<wake_fd, edge, wake_pending, is_added_new_, ppc, wpc>>
    BY <1>11 DEF Flush, vars, wakevars, queuevars, producers, worker
  <2> QED
    BY <1>1, <2>1 DEF NoLostWakeup, Roused, Active
<1> QED
  BY <1>2, <1>3, <1>4, <1>5, <1>6, <1>7, <1>8, <1>9, <1>10, <1>11 DEF Next, Push, Loop

\* A node that has not been taken will be noticed.
LEMMA NoticedStep == ASSUME IInv, [Next]_vars PROVE Noticed'
<1>1. TypeOK /\ Noticed /\ QueueInv
  BY DEF IInv
<1>2. ASSUME NEW p \in Producers, (\E n \in Nodes : PushSwap(p, n)) \/ PushLink(p) PROVE Noticed'
  <2>1. PICK at \in {"link", "flag"} : ppc' = [ppc EXCEPT ![p] = at]
    BY <1>2 DEF PushSwap, PushLink, Goto
  <2>2. ppc'[p] = at
    BY <1>1, <2>1, OnePlace
  <2> QED
    BY <2>2 DEF Noticed, Announcing
<1>3. ASSUME NEW p \in Producers, PushFlag(p) PROVE Noticed'
  BY <1>3 DEF PushFlag, Noticed
<1>4. ASSUME NEW p \in Producers, KickEnter(p) \/ KickLoad(p) \/ Wake(p) \/ WakeWrite(p) \/ KickLeave(p)
      PROVE  Noticed'
  <2>1. PICK at : ppc' = [ppc EXCEPT ![p] = at]
    BY <1>4 DEF KickEnter, KickLoad, Wake, WakeWrite, KickLeave, Goto
  <2>2. ppc[p] \notin {"link", "flag"} /\ UNCHANGED <<is_added_new_, fifo, wpc, next, head, tail_>>
    BY <1>4 DEF KickEnter, KickLoad, Wake, WakeWrite, KickLeave, queuevars, worker
  <2>3. \A r \in Producers \ {p} : ppc'[r] = ppc[r]
    BY <1>1, <2>1, OnePlace
  <2>4. Announcing => Announcing'
    BY <2>2, <2>3 DEF Announcing
  <2> QED
    BY <1>1, <2>2, <2>4 DEF Noticed
<1>5. CASE Continue \/ PollWake \/ PollReturn \/ PollTimeout \/ DrainRead \/ DrainClear \/ RunTasks \/ Unset \/ Close
  <2>1. /\ UNCHANGED <<is_added_new_, fifo, ppc>>
        /\ wpc \in {"top", "poll", "read", "clear", "run", "wait"}
        /\ wpc' \in {"poll", "read", "clear", "run", "inbox", "wait", "closed"}
    BY <1>5 DEF Continue, PollWake, PollReturn, PollTimeout, DrainRead, DrainClear, RunTasks, Unset,
       Close, queuevars, producers
  <2> QED
    BY <1>1, <2>1 DEF Noticed, Announcing, Popping
<1>6. CASE TakeFlag
  <2>1. /\ UNCHANGED <<fifo, ppc>> /\ wpc = "inbox" /\ wpc' = IF is_added_new_ THEN "pop" ELSE "top"
    BY <1>6 DEF TakeFlag, producers
  <2>2. fifo # <<>> => Announcing \/ is_added_new_
    BY <1>1, <2>1 DEF Noticed, Popping
  <2>3. CASE is_added_new_
    BY <2>1, <2>3 DEF Noticed, Popping
  <2>4. CASE ~is_added_new_
    BY <2>1, <2>2, <2>4 DEF Noticed, Announcing
  <2> QED
    BY <2>3, <2>4
<1>7. CASE Pop
  <2>1. wpc = "pop" /\ UNCHANGED <<tail_, is_added_new_, fifo, ppc>>
    BY <1>7 DEF Pop, producers
  <2>2. mpsc_next_[head_] = Null /\ head_ # tail_ => Announcing'
    BY <2>1, FrontPending DEF Announcing
  <2>3. CASE head_ # Stub
    <3>1. head' = head_ /\ next' = mpsc_next_[head_] /\ wpc' = "advance"
      BY <1>7, <2>3 DEF Pop
    <3> QED
      BY <2>1, <2>2, <3>1 DEF Noticed, Popping
  <2>4. CASE head_ = Stub /\ mpsc_next_[head_] = Null
    <3>1. wpc' = "top"
      BY <1>7, <2>4 DEF Pop
    <3>2. fifo' # <<>> => Announcing'
      BY <2>1, <2>2, <2>4, StubAlone
    <3> QED
      BY <3>1, <3>2 DEF Noticed
  <2>5. CASE head_ = Stub /\ mpsc_next_[head_] # Null
    <3>1. wpc' = "second"
      BY <1>7, <2>5 DEF Pop
    <3> QED
      BY <3>1 DEF Noticed, Popping
  <2> QED
    BY <2>3, <2>4, <2>5
<1>8. CASE PopSecond
  <2>1. /\ wpc = "second" /\ wpc' = "advance" /\ next' = mpsc_next_[head]
        /\ UNCHANGED <<tail_, is_added_new_, fifo, ppc, head>>
    BY <1>8 DEF PopSecond, queuevars, producers
  <2>2. PICK c \in Seq(Links), s \in Nat : IsQueue(c, s)
    BY <1>1 DEF QueueInv, Queue
  <2>3. head = head_
    BY <2>1, <2>2 DEF IsQueue, Front, Holding
  <2>4. mpsc_next_[head_] = Null /\ head_ # tail_ => Announcing'
    BY <2>1, FrontPending DEF Announcing
  <2> QED
    BY <2>1, <2>3, <2>4 DEF Noticed, Popping
<1>9. CASE PopAdvance
  <2>1. wpc = "advance" /\ UNCHANGED <<tail_, is_added_new_, fifo, ppc, head, next>>
        /\ (wpc' = "enqueue" \/ (wpc' = "last" /\ next = Null))
    BY <1>9 DEF PopAdvance, producers
  <2> QED
    BY <1>1, <2>1 DEF Noticed, Announcing, Popping
<1>10. CASE PopLast
  <2>1. wpc = "last" /\ UNCHANGED <<tail_, is_added_new_, fifo, ppc, head>>
        /\ (wpc' = "restub" \/ (wpc' = "top" /\ tail_ # head))
    BY <1>10 DEF PopLast, queuevars, producers
  <2> QED
    BY <1>1, <2>1 DEF Noticed, Announcing, Popping
<1>11. CASE PopRestub \/ PopRelink \/ Enqueue
  BY <1>11 DEF PopRestub, PopRelink, Enqueue, Noticed, Popping
<1>12. CASE PopRetry
  <2>1. wpc = "retry" /\ UNCHANGED <<is_added_new_, fifo, ppc>>
        /\ (wpc' = "enqueue" \/ (wpc' = "top" /\ mpsc_next_[head] = Null))
    BY <1>12 DEF PopRetry, producers
  <2>2. mpsc_next_[head] = Null => Announcing'
    BY <2>1, FrontPending, RetryBehind DEF Announcing
  <2> QED
    BY <2>1, <2>2 DEF Noticed, Popping
<1>13. CASE Flush \/ UNCHANGED vars
  <2>1. UNCHANGED <<tail_, is_added_new_, fifo, ppc, wpc, head, next>>
    BY <1>13 DEF Flush, vars, queuevars, producers, worker
  <2> QED
    BY <1>1, <2>1 DEF Noticed, Announcing
<1> QED
  BY <1>2, <1>3, <1>4, <1>5, <1>6, <1>7, <1>8, <1>9, <1>10, <1>11, <1>12, <1>13 DEF Next, Push, Loop

(***************************************************************************)
(* The theorems                                                            *)
(***************************************************************************)

\* The invariant holds initially.
LEMMA InitIInv == Init => IInv
<1> SUFFICES ASSUME Init PROVE IInv
  OBVIOUS
<1>1. TypeOK
  <2>1. store_buffer \in BOOLEAN
    BY InboxAssumption DEF Init
  <2>2. tail_ \in Links /\ head_ \in Links /\ mpsc_next_ \in [Links -> Links \cup {Null}]
    BY DEF Init, Links
  <2>3. {is_added_new_, wake_fd, edge, wake_pending} \subseteq BOOLEAN
    BY DEF Init
  <2>4. fifo \in Seq(Nodes) /\ q \subseteq Nodes /\ head = Null /\ next = Null
    BY DEF Init
  <2>5. /\ poller_ \in {"set", "unsetting", "null"} /\ wake_inflight_ \in Nat
        /\ ppc \in [Producers -> {"idle", "link", "flag", "enter", "load", "wake", "write", "leave"}]
        /\ node \in [Producers -> Nodes \cup {Null}] /\ prev \in [Producers -> Links \cup {Null}]
    BY DEF Init
  <2>6. wpc = "top"
    BY DEF Init
  <2> QED
    BY <2>1, <2>2, <2>3, <2>4, <2>5, <2>6 DEF TypeOK
<1> DEFINE c == <<Stub>>
<1>2. c \in Seq(Links) /\ c # <<>> /\ Len(c) = 1 /\ c[1] = Stub
  BY DEF Links
<1> HIDE DEF c
<1>3. IsQueue(c, 1)
  <2>1. Shape(c, 1)
    BY <1>2 DEF Shape, Distinct, Init
  <2>2. Holds(c, 1, Left)
    BY <1>2 DEF Holds, Left, Init
  <2>3. Joined(c)
    BY <1>2 DEF Joined, Init, Links
  <2>4. Pushes(c) /\ Front(c, 1)
    BY DEF Pushes, Front, Init, Holding
  <2> QED
    BY <2>1, <2>2, <2>3, <2>4 DEF IsQueue
<1>4. QueueInv
  <2>1. Once /\ Taken
    BY DEF Init, Once, Taken, Distinct
  <2> QED
    BY <1>2, <1>3, <2>1 DEF QueueInv, Queue
<1>5. Noticed /\ Roused /\ NoLostWakeup /\ ClosesAfterWakes
  BY DEF Init, Noticed, Roused, NoLostWakeup, ClosesAfterWakes, NoWriteToClosedFd
<1>6. Exits
  <2>1. Inside = {}
    BY DEF Init, Inside
  <2> QED
    BY <2>1, FS_EmptySet DEF Init, Exits
<1> QED
  BY <1>1, <1>4, <1>5, <1>6 DEF IInv

\* The invariant of the inbox: between head_ and tail_ the links are in the order
\* of the exchanges, each with its successor or with a push that will link it; a
\* node that waits will be noticed; a wake-up that was asked for is on its way.
THEOREM InboxInvariant == Spec => []IInv
<1>1. IInv /\ [Next]_vars => IInv'
  BY TypeStep, QueueStep, ExitStep, WakeStep, NoticedStep DEF IInv
<1> QED
  BY InitIInv, <1>1, PTL DEF Spec

\* IntrusiveMPSC::pop() returns every node once, in the order in which push()
\* exchanged the tail, for any number of producers stopped anywhere in push().
THEOREM InboxIsFIFO == Spec => []PopsInOrder
<1>1. IInv => PopsInOrder
  BY DEF IInv, QueueInv, Taken, PopsInOrder
<1> QED
  BY InboxInvariant, <1>1, PTL

\* The invariant implies that a worker in poll() with nodes in its inbox has a
\* wake-up coming.
LEMMA NoSleepOnWork == IInv => NeverSleepsOnWork
<1> SUFFICES ASSUME IInv, wpc = "poll", ~edge, fifo # <<>>
             PROVE  \E p \in Producers : ppc[p] \notin {"idle", "leave"}
  BY DEF NeverSleepsOnWork
<1>1. Announcing \/ is_added_new_
  BY DEF IInv, Noticed, Popping
<1>2. CASE Announcing
  BY <1>2 DEF Announcing
<1>3. CASE is_added_new_
  BY <1>3 DEF IInv, Roused, Active
<1> QED
  BY <1>1, <1>2, <1>3

\* A worker does not block in epoll_wait() on a coroutine that was handed to it,
\* no wake() is skipped for good, and none writes to a closed eventfd where a
\* store is visible at once (push_task_inbox(), kick_poller(), EPoller::wake(),
\* unset_poller()), for any number of producers.
THEOREM InboxWakesItsWorker == Spec => []WakeUpsAreSound
<1>1. IInv => WakeUpsAreSound
  BY NoSleepOnWork DEF IInv, WakeUpsAreSound
<1> QED
  BY InboxInvariant, <1>1, PTL
=============================================================================
