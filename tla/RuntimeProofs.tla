---------------------------- MODULE RuntimeProofs ----------------------------
(***************************************************************************)
(* Proofs about Runtime: no joiner is forgotten, a join tells the truth,   *)
(* and the drain counts every task that survives it, for any set of        *)
(* workers, any finite set of tasks and any programs.                      *)
(***************************************************************************)
EXTENDS Runtime, FiniteSetTheorems, TLAPS

(***************************************************************************)
(* The inductive invariant                                                 *)
(***************************************************************************)

\* A worker has a task in hand.
Busy == {"task", "push", "recheck", "final", "wake", "drop", "drained"}

\* A worker that takes the completion of its task from ancestor to ancestor.
Dropping == {"drop", "drained"}

TaskStates == {"none", "shared", "inbox", "queued", "run", "sleep", "join", "stuck", "done"}

TaskType ==
  [st : TaskStates,
   at : Workers \cup {None}, ops : Nat, waitsFor : Nodes \cup {None}, joined : Nodes \cup {None}]

NodeType ==
  [parent : Nodes \cup {None}, requested : BOOLEAN, live : Int, status : BOOLEAN, waiters : SUBSET Tasks]

\* The types of the variables.
TypeOK ==
  /\ task \in [Tasks -> TaskType]
  /\ node \in [Nodes -> NodeType]
  /\ q \in [Workers -> SUBSET Tasks] /\ inbox \in [Workers -> SUBSET Tasks]
  /\ kicks \in [Workers -> SUBSET Tasks] /\ reg \in [Workers -> SUBSET Tasks]
  /\ shared \in SUBSET Tasks /\ ext \in SUBSET Tasks
  /\ loop \in [Workers -> Busy \cup {"top", "adopt", "inbox", "drain", "release", "gone"}]
  /\ cur \in [Workers -> Tasks \cup {None}]
  /\ up \in [Workers -> Nodes \cup {None}]
  /\ idle \in [Workers -> BOOLEAN]
  /\ stopped \in SUBSET Workers
  /\ survivors \in Nat /\ late \in SUBSET Tasks
  /\ prog \in Programs

\* A task in a queue is in the state that says so, and has that queue's worker.
Placed ==
  \A t \in Tasks :
    /\ task[t].st \in {"none", "shared", "done"} => task[t].at = None
    /\ t \in shared => task[t].st = "shared"
    /\ \A w \in Workers :
         /\ t \in q[w] => task[t].st = "queued" /\ task[t].at = w
         /\ t \in inbox[w] => task[t].st = "inbox" /\ task[t].at = w
         /\ t \in kicks[w] => task[t].at = w \/ task[t].st = "done"

\* The task in hand is the worker's own, and has come as far as the loop says.
InHand ==
  \A w \in Workers, t \in Tasks : cur[w] = t =>
    /\ loop[w] \in Busy
    /\ task[t].at = w
    /\ task[t].st = "run" \/ (task[t].st = "inbox" /\ loop[w] = "recheck")
    /\ loop[w] \in {"wake"} \cup Dropping => node[t].status
    /\ loop[w] \in Dropping => up[w] \in Chain(t)
    /\ loop[w] = "push" => task[t].waitsFor # None
    /\ loop[w] = "recheck" /\ task[t].st = "run" =>
         task[t].waitsFor # None /\ t \in node[task[t].waitsFor].waiters

\* A task in a list waits for that node, suspended or about to be.
Listed ==
  \A t \in Tasks, n \in Nodes : t \in node[n].waiters =>
    /\ task[t].waitsFor = n
    /\ \/ task[t].st = "join"
       \/ task[t].st = "run" /\ \E w \in Workers : cur[w] = t /\ loop[w] = "recheck"

\* The status is that of a task that is done or in its completion.
Completed ==
  \A t \in Tasks :
    /\ task[t].st = "done" => node[t].status
    /\ node[t].status =>
         \/ task[t].st = "done"
         \/ \E w \in Workers : cur[w] = t /\ loop[w] \in {"wake"} \cup Dropping

\* The nodes are a forest, and a task that is not spawned has no part in it.
Forest ==
  /\ node[Root].parent = None /\ node[Scope].parent = Root
  /\ task[Root].st = "none" => \A t \in Tasks : task[t].st = "none"
  /\ \A t \in Tasks : task[t].st = "none" /\ t # Root =>
       node[t].parent = None /\ \A n \in Nodes : node[n].parent # t
  /\ \A n, m \in Nodes : node[n].parent = m => n \notin Chain(m)

\* The nodes whose live_tasks still count t: all above it, until its completion has
\* passed them.
Owes(t) ==
  {n \in Chain(t) :
     /\ task[t].st \notin {"none", "done"}
     /\ \A w \in Workers, u \in Nodes : cur[w] = t /\ loop[w] \in Dropping /\ up[w] = u =>
          n \in Chain(u) /\ (loop[w] = "drained" => n # u)}

Counted(n) == {t \in Tasks : n \in Owes(t)}

\* live_tasks is the number of the tasks that are still to be dropped.
LiveIsExact == \A n \in Nodes : node[n].live = Cardinality(Counted(n))

\* What a task has joined is over, and only the root has to do with the scope.
Truthful ==
  \A t \in Tasks :
    /\ task[t].joined \in Tasks => node[task[t].joined].status
    /\ task[t].joined = Scope =>
         t = Root /\ \A c \in Tasks : Scope \in Chain(c) => node[c].status
    /\ task[t].waitsFor = Scope => t = Root

\* A task in a join is in the list of what it waits for, which is not over or is about
\* to look at the list.
Remembered ==
  \A t \in Tasks : task[t].st = "join" =>
    /\ task[t].waitsFor # None
    /\ \A n \in Nodes : task[t].waitsFor = n => t \in node[n].waiters /\ (Over(n) => WillWake(n))

\* The tasks that are not done and in no registry that is still to be counted.
Unregistered ==
  {t \in Tasks \ late : /\ task[t].st # "none" /\ ~node[t].status /\ t \notin ext
                        /\ \A w \in Workers : loop[w] # "release" => t \notin reg[w]}

\* They have been counted; a worker leaves with its registry empty, and what is
\* registered with worker 0 from outside after its count is late.
Surviving ==
  /\ survivors >= Cardinality(Unregistered)
  /\ \A w \in Workers : loop[w] = "gone" => reg[w] = {}
  /\ loop[0] \in {"release", "gone"} => ext \subseteq late

IInv ==
  /\ TypeOK /\ Placed /\ InHand /\ Listed /\ Completed /\ Forest
  /\ LiveIsExact /\ Truthful /\ Remembered /\ Surviving

(***************************************************************************)
(* Chains                                                                  *)
(***************************************************************************)

\* Chain for any parents.
ChainOf(par, n) ==
  {m \in Nodes : \A S \in SUBSET Nodes : (\A k \in S : par[k] \in S \cup {None}) /\ n \in S => m \in S}

Parents == [n \in Nodes |-> node[n].parent]

\* Chain is ChainOf of the parents of a state.
LEMMA ChainIs ==
  ASSUME NEW n
  PROVE  /\ Chain(n) = ChainOf(Parents, n)
         /\ Chain(n)' = ChainOf(Parents', n)
<1>1. Chain(n) = ChainOf(Parents, n)
  <2>1. \A S \in SUBSET Nodes : (\A k \in S : Parents[k] \in S \cup {None}) <=> S \in Upward
    BY DEF Parents, Upward
  <2>2. Upward \subseteq SUBSET Nodes
    BY DEF Upward
  <2> QED  BY <2>1, <2>2 DEF Chain, ChainOf
<1>2. Chain(n)' = ChainOf(Parents', n)
  <2>1. \A S \in SUBSET Nodes : (\A k \in S : Parents'[k] \in S \cup {None}) <=> S \in Upward'
    BY DEF Parents, Upward, Nodes
  <2>2. Upward' \subseteq SUBSET Nodes
    BY DEF Upward, Nodes
  <2> QED  BY <2>1, <2>2 DEF Chain, ChainOf, Nodes
<1> QED  BY <1>1, <1>2

\* A node is in its chain, and a chain contains the chains of its nodes.
LEMMA ChainSelf ==
  ASSUME NEW n \in Nodes
  PROVE  /\ n \in Chain(n) /\ Chain(n) \subseteq Nodes
         /\ \A u \in Chain(n) : Chain(u) \subseteq Chain(n)
BY DEF Chain

\* The chain of a node is the node and the chain of its parent.
LEMMA ChainOfStep ==
  ASSUME NEW par \in [Nodes -> Nodes \cup {None}], NEW n \in Nodes
  PROVE  ChainOf(par, n) = {n} \cup (IF par[n] = None THEN {} ELSE ChainOf(par, par[n]))
<1>0. None \notin Nodes
  BY RuntimeAssumption DEF Nodes
<1> DEFINE Closed(S) == \A k \in S : par[k] \in S \cup {None}
           p == par[n]
           above == IF p = None THEN {} ELSE ChainOf(par, p)
<1>1. \A m : m \in ChainOf(par, n) <=> m \in Nodes /\ \A S \in SUBSET Nodes : Closed(S) /\ n \in S => m \in S
  BY DEF ChainOf
<1>2. p # None => \A m : m \in ChainOf(par, p) <=> m \in Nodes /\ \A S \in SUBSET Nodes : Closed(S) /\ p \in S => m \in S
  BY DEF ChainOf
<1>3. p \in Nodes \cup {None}
  OBVIOUS
<1>4. {n} \cup above \subseteq ChainOf(par, n)
  <2>1. n \in ChainOf(par, n)
    BY <1>1
  <2>2. ASSUME p # None, NEW m \in ChainOf(par, p)  PROVE m \in ChainOf(par, n)
    <3>1. m \in Nodes
      BY <1>2, <2>2
    <3>2. ASSUME NEW S \in SUBSET Nodes, Closed(S), n \in S  PROVE m \in S
      <4>1. p \in S
        BY <2>2, <3>2
      <4> QED  BY <4>1, <3>2, <1>2, <2>2
    <3> HIDE DEF Closed
    <3> QED  BY <3>1, <3>2, <1>1
  <2> QED  BY <2>1, <2>2
<1>5. Closed({n} \cup above)
  <2>1. p # None => p \in above
    BY <1>2, <1>3
  <2>2. above \subseteq Nodes
    BY <1>2
  <2>3. ASSUME NEW k \in above, par[k] # None  PROVE par[k] \in above
    <3>1. p # None /\ k \in ChainOf(par, p) /\ k \in Nodes
      BY <2>3, <2>2
    <3>2. par[k] \in Nodes
      BY <3>1, <2>3
    <3>3. ASSUME NEW S \in SUBSET Nodes, Closed(S), p \in S  PROVE par[k] \in S
      <4>1. k \in S
        BY <3>1, <3>3, <1>2
      <4> QED  BY <4>1, <3>3, <2>3
    <3> HIDE DEF Closed
    <3> QED  BY <3>1, <3>2, <3>3, <1>2
  <2> QED  BY <2>1, <2>3
<1>6. above \subseteq Nodes
  BY <1>2
<1>7. ChainOf(par, n) \subseteq {n} \cup above
  <2> HIDE DEF Closed, above
  <2> QED  BY <1>1, <1>5, <1>6
<1> QED  BY <1>4, <1>7

\* The same for the parents of a state.
LEMMA ChainStep ==
  ASSUME node \in [Nodes -> NodeType], NEW n \in Nodes
  PROVE  Chain(n) = {n} \cup (IF node[n].parent = None THEN {} ELSE Chain(node[n].parent))
<1>1. Parents \in [Nodes -> Nodes \cup {None}] /\ Parents[n] = node[n].parent
  BY DEF Parents, NodeType
<1> QED  BY <1>1, ChainOfStep, ChainIs

\* And after a step.
LEMMA ChainStepNext ==
  ASSUME node' \in [Nodes -> NodeType], NEW n \in Nodes
  PROVE  Chain(n)' = {n} \cup (IF node'[n].parent = None THEN {} ELSE ChainOf(Parents', node'[n].parent))
<1>1. Parents' \in [Nodes -> Nodes \cup {None}] /\ Parents'[n] = node'[n].parent
  BY DEF Parents, NodeType, Nodes
<1> QED  BY <1>1, ChainOfStep, ChainIs

\* A chain stays as it is when the parents of its nodes do.
LEMMA ChainKept ==
  ASSUME node \in [Nodes -> NodeType], NEW n \in Nodes, \A k \in Chain(n) : node'[k].parent = node[k].parent
  PROVE  Chain(n)' = Chain(n)
<1> DEFINE C == Chain(n)
<1>0. C \subseteq Nodes /\ n \in C
  BY ChainSelf
<1>1. \A k \in C : node[k].parent \in C \cup {None}
  <2> SUFFICES ASSUME NEW k \in C, node[k].parent # None  PROVE node[k].parent \in C
    OBVIOUS
  <2>1. k \in Nodes /\ node[k].parent \in Nodes
    BY <1>0 DEF NodeType
  <2> QED  BY <2>1 DEF Chain, Upward
<1>2. ASSUME NEW m \in Chain(n)'  PROVE m \in C
  <2>1. C \in Upward'
    BY <1>0, <1>1 DEF Upward, Nodes
  <2> HIDE DEF C
  <2> QED  BY <2>1, <1>0, <1>2 DEF Chain
<1>3. ASSUME NEW m \in C  PROVE m \in Chain(n)'
  <2>1. m \in Nodes
    BY <1>0
  <2>2. ASSUME NEW S \in Upward', n \in S  PROVE m \in S
    <3>1. S \cap C \in Upward
      <4>1. S \cap C \subseteq Nodes
        BY <1>0
      <4>2. \A k \in S \cap C : node[k].parent \in S \cup {None}
        BY <2>2 DEF Upward
      <4> HIDE DEF C
      <4> QED  BY <4>1, <4>2, <1>1 DEF Upward
    <3>2. n \in S \cap C
      BY <2>2, <1>0
    <3>3. m \in S \cap C
      BY <3>1, <3>2, <1>3 DEF Chain
    <3> QED  BY <3>3
  <2> QED  BY <2>1, <2>2 DEF Chain, Nodes
<1> QED  BY <1>2, <1>3

(***************************************************************************)
(* What leaves a part of the invariant alone                               *)
(***************************************************************************)

\* The parents and the spawned tasks stay.
SameTree ==
  /\ \A n \in Nodes : node'[n].parent = node[n].parent
  /\ \A t \in Tasks : task'[t].st = "none" <=> task[t].st = "none"

\* The tasks that are done, the counters and the completions stay.
SameLive ==
  /\ \A n \in Nodes : node'[n].live = node[n].live
  /\ \A t \in Tasks : task'[t].st = "done" <=> task[t].st = "done"
  /\ \A w \in Workers :
       /\ loop'[w] \in Dropping <=> loop[w] \in Dropping
       /\ loop[w] \in Dropping => loop'[w] = loop[w] /\ cur'[w] = cur[w] /\ up'[w] = up[w]

\* No task has joined anything, and none waits for anything new.
NoNewJoin ==
  \A t \in Tasks : /\ task'[t].joined \in {task[t].joined, None}
                   /\ task'[t].waitsFor \in {task[t].waitsFor, None}

\* Nobody is less done than before.
StatusKept == \A n \in Nodes : node[n].status => node'[n].status

\* The registries stay, and no worker leaves.
SameDrain ==
  /\ reg' = reg /\ ext' = ext /\ survivors' = survivors /\ late' = late
  /\ \A w \in Workers : loop'[w] \in {"release", "gone"} => loop'[w] = loop[w]

\* Chains stay with the parents.
LEMMA ChainsKept ==
  ASSUME TypeOK, SameTree
  PROVE  \A n \in Nodes : Chain(n)' = Chain(n)
<1> SUFFICES ASSUME NEW n \in Nodes  PROVE Chain(n)' = Chain(n)
  OBVIOUS
<1>1. Chain(n) \subseteq Nodes
  BY ChainSelf
<1>2. \A k \in Chain(n) : node'[k].parent = node[k].parent
  BY <1>1 DEF SameTree
<1> QED  BY <1>2, ChainKept DEF TypeOK

\* So does the forest.
LEMMA ForestKept ==
  ASSUME TypeOK, Forest, SameTree
  PROVE  Forest'
<1>1. \A n \in Nodes : Chain(n)' = Chain(n)
  BY ChainsKept
<1>3. Root \in Tasks /\ Root \in Nodes /\ Scope \in Nodes
  BY RuntimeAssumption DEF Nodes
<1>4. \A n, m \in Nodes : node'[n].parent = m => n \notin Chain(m)'
  BY <1>1 DEF Forest, SameTree
<1>5. node'[Root].parent = None /\ node'[Scope].parent = Root
  BY <1>3 DEF Forest, SameTree
<1>6. task'[Root].st = "none" => \A t \in Tasks : task'[t].st = "none"
  BY <1>3 DEF Forest, SameTree
<1>7. \A t \in Tasks : task'[t].st = "none" /\ t # Root =>
        node'[t].parent = None /\ \A n \in Nodes : node'[n].parent # t
  BY DEF Forest, SameTree, Nodes
<1> QED  BY <1>4, <1>5, <1>6, <1>7 DEF Forest, Nodes

\* The counters are kept where neither they nor what the tasks owe changes.
LEMMA LiveKeptIf ==
  ASSUME LiveIsExact, \A n \in Nodes : node'[n].live = node[n].live, \A t \in Tasks : Owes(t)' = Owes(t)
  PROVE  LiveIsExact'
<1>1. \A n \in Nodes : Counted(n)' = Counted(n)
  BY DEF Counted
<1> QED  BY <1>1 DEF LiveIsExact, Nodes

\* What a task owes stays with the completions.
LEMMA OwesKept ==
  ASSUME TypeOK, SameTree, SameLive, NEW t \in Tasks
  PROVE  Owes(t)' = Owes(t)
<1>1. \A n \in Nodes : Chain(n)' = Chain(n)
  BY ChainsKept
<1>2. t \in Nodes /\ Chain(t)' = Chain(t)
  BY <1>1 DEF Nodes
<1>3. task'[t].st \notin {"none", "done"} <=> task[t].st \notin {"none", "done"}
  BY DEF SameTree, SameLive
<1>4. ASSUME NEW w \in Workers
      PROVE  /\ cur'[w] = t /\ loop'[w] \in Dropping <=> cur[w] = t /\ loop[w] \in Dropping
             /\ cur[w] = t /\ loop[w] \in Dropping => up'[w] = up[w] /\ loop'[w] = loop[w]
  BY DEF SameLive
<1> QED  BY <1>1, <1>2, <1>3, <1>4 DEF Owes, Nodes

\* The counters stay exact.
LEMMA LiveKept ==
  ASSUME TypeOK, LiveIsExact, SameTree, SameLive
  PROVE  LiveIsExact'
<1>1. \A t \in Tasks : Owes(t)' = Owes(t)
  BY OwesKept
<1> QED  BY <1>1, LiveKeptIf DEF SameLive

\* A join of n by t may return.
Told(t, n) ==
  /\ n \in Tasks => node[n].status
  /\ n = Scope => t = Root /\ \A c \in Tasks : Scope \in Chain(c) => node[c].status

\* Joins return, and begin, only where they may.
GoodJoins ==
  \A t \in Tasks :
    /\ task'[t].joined \in {task[t].joined, None} \/ \E n \in Nodes : task'[t].joined = n /\ Told(t, n)
    /\ task'[t].waitsFor \in {task[t].waitsFor, None} \/ (task'[t].waitsFor = Scope => t = Root)

\* Then what is said of the joined is true again.
LEMMA TruthTold ==
  ASSUME TypeOK, Truthful, SameTree, GoodJoins, StatusKept
  PROVE  Truthful'
<1>1. \A n \in Nodes : Chain(n)' = Chain(n)
  BY ChainsKept
<1>2. None \notin Nodes /\ Tasks \subseteq Nodes /\ Scope \in Nodes /\ Scope \notin Tasks
  BY RuntimeAssumption DEF Nodes
<1>3. \A c \in Tasks : Scope \in Chain(c)' <=> Scope \in Chain(c)
  BY <1>1, <1>2
<1> SUFFICES ASSUME NEW t \in Tasks
             PROVE  /\ task'[t].joined \in Tasks => node'[task'[t].joined].status
                    /\ task'[t].joined = Scope =>
                         t = Root /\ \A c \in Tasks : Scope \in Chain(c)' => node'[c].status
                    /\ task'[t].waitsFor = Scope => t = Root
  BY DEF Truthful
<1>4. Told(t, task[t].joined)
  BY DEF Truthful, Told
<1>5. task'[t].joined \in Tasks => node'[task'[t].joined].status
  BY <1>2, <1>4 DEF GoodJoins, StatusKept, Told
<1>6. task'[t].joined = Scope => t = Root /\ \A c \in Tasks : Scope \in Chain(c) => node[c].status
  BY <1>2, <1>4 DEF GoodJoins, Told
<1>7. task'[t].joined = Scope => t = Root /\ \A c \in Tasks : Scope \in Chain(c)' => node'[c].status
  BY <1>6, <1>2, <1>3 DEF StatusKept
<1>8. task'[t].waitsFor = Scope => t = Root
  BY <1>2 DEF Truthful, GoodJoins
<1> QED  BY <1>5, <1>7, <1>8

\* What has been said of the joined stays true.
LEMMA TruthKept ==
  ASSUME TypeOK, Truthful, SameTree, NoNewJoin, StatusKept
  PROVE  Truthful'
<1>1. GoodJoins
  BY DEF NoNewJoin, GoodJoins
<1> QED  BY <1>1, TruthTold

\* Fewer tasks without a registry need no more survivors.
LEMMA FewerUnregistered ==
  ASSUME TypeOK, Surviving, Unregistered' \subseteq Unregistered, survivors' = survivors
  PROVE  survivors' >= Cardinality(Unregistered')
<1>1. IsFiniteSet(Unregistered)
  BY FiniteAssumption, FS_Subset DEF Unregistered
<1>2. Cardinality(Unregistered') <= Cardinality(Unregistered) /\ IsFiniteSet(Unregistered')
  BY <1>1, FS_Subset
<1>3. Cardinality(Unregistered') \in Nat /\ Cardinality(Unregistered) \in Nat
  BY <1>1, <1>2, FS_CardinalityType
<1> QED  BY <1>2, <1>3 DEF Surviving, TypeOK

\* The registries stay in step with the survivors.
LEMMA SurvivingKept ==
  ASSUME TypeOK, Surviving, SameTree, StatusKept, SameDrain
  PROVE  Surviving'
<1>1. Unregistered' \subseteq Unregistered
  BY DEF Unregistered, SameTree, StatusKept, SameDrain, Nodes
<1>5. survivors' >= Cardinality(Unregistered')
  BY <1>1, FewerUnregistered DEF SameDrain
<1>6. \A w \in Workers : loop'[w] = "gone" => reg'[w] = {}
  BY DEF Surviving, SameDrain
<1>7. loop'[0] \in {"release", "gone"} => ext' \subseteq late'
  BY RuntimeAssumption DEF Surviving, SameDrain
<1> QED  BY <1>5, <1>6, <1>7 DEF Surviving

\* What the types say of a task, a node and a worker.
LEMMA Types ==
  ASSUME TypeOK
  PROVE  /\ \A t \in Tasks :
              /\ task[t] \in TaskType
              /\ task[t].at \in Workers \cup {None} /\ task[t].waitsFor \in Nodes \cup {None}
              /\ task[t].joined \in Nodes \cup {None} /\ task[t].ops \in Nat
         /\ \A n \in Nodes :
              /\ node[n] \in NodeType
              /\ node[n].parent \in Nodes \cup {None} /\ node[n].live \in Int
              /\ node[n].status \in BOOLEAN /\ node[n].requested \in BOOLEAN
              /\ node[n].waiters \subseteq Tasks
         /\ None \notin Nodes /\ None \notin Tasks /\ None \notin Workers
         /\ Tasks \subseteq Nodes /\ Scope \in Nodes /\ Scope \notin Tasks /\ Root \in Tasks
BY RuntimeAssumption DEF TypeOK, TaskType, NodeType, Nodes

(***************************************************************************)
(* Steps of a task that no node's list or status takes part in             *)
(***************************************************************************)

\* Requests aside, the nodes stay.
SameNodes ==
  \A n \in Nodes : /\ node'[n].parent = node[n].parent /\ node'[n].live = node[n].live
                   /\ node'[n].status = node[n].status /\ node'[n].waiters = node[n].waiters

\* The task in hand goes on, is about to enter a list, or is suspended outside one.
TaskMoves(w, t) ==
  /\ loop[w] = "task" /\ cur[w] = t
  /\ \A u \in Tasks : u # t => task'[u] = task[u]
  /\ task'[t].at = task[t].at
  /\ \A v \in Workers : v # w => loop'[v] = loop[v] /\ cur'[v] = cur[v]
  /\ \/ loop'[w] \in {"task", "final"} /\ cur'[w] = t /\ task'[t].st = "run"
     \/ loop'[w] = "push" /\ cur'[w] = t /\ task'[t].st = "run" /\ task'[t].waitsFor # None
     \/ loop'[w] = "adopt" /\ cur'[w] = None /\ task'[t].st \in {"sleep", "stuck"}
  /\ up' = up /\ q' = q /\ inbox' = inbox /\ shared' = shared
  /\ kicks' \in [Workers -> SUBSET Tasks]
  /\ \A v \in Workers : \A u \in kicks'[v] : u \in kicks[v] \/ task[u].at = v
  /\ SameNodes

\* Such a step keeps all but what is said of the joins and of the drain.
LEMMA TaskMovesStep ==
  ASSUME IInv, NEW w \in Workers, NEW t \in Tasks, TaskMoves(w, t)
  PROVE  /\ SameTree /\ StatusKept
         /\ Placed' /\ InHand' /\ Listed' /\ Completed' /\ Forest' /\ LiveIsExact' /\ Remembered'
<1> USE DEF IInv
<1>1. task[t].st = "run" /\ task[t].at = w
  BY DEF TaskMoves, InHand
<1>2. \A v \in Workers : v # w => cur[v] # t
  BY <1>1 DEF InHand
<1>3. SameTree
  BY <1>1 DEF TaskMoves, SameNodes, SameTree
<1>4. StatusKept
  BY DEF TaskMoves, SameNodes, StatusKept
<1>5. \A n \in Nodes : Chain(n)' = Chain(n)
  BY <1>3, ChainsKept
<1>6. SameLive
  <2>1. \A u \in Tasks : task'[u].st = "done" <=> task[u].st = "done"
    BY <1>1 DEF TaskMoves
  <2>2. loop[w] \notin Dropping /\ loop'[w] \notin Dropping
    BY DEF TaskMoves, Dropping
  <2> QED  BY <2>1, <2>2 DEF TaskMoves, SameNodes, SameLive
<1>7. \A n \in Nodes : t \notin node[n].waiters
  BY <1>1, <1>2 DEF Listed, TaskMoves
<1>8. Placed'
  <2> SUFFICES ASSUME NEW u \in Tasks
               PROVE  /\ task'[u].st \in {"none", "shared", "done"} => task'[u].at = None
                      /\ u \in shared' => task'[u].st = "shared"
                      /\ \A v \in Workers :
                           /\ u \in q'[v] => task'[u].st = "queued" /\ task'[u].at = v
                           /\ u \in inbox'[v] => task'[u].st = "inbox" /\ task'[u].at = v
                           /\ u \in kicks'[v] => task'[u].at = v \/ task'[u].st = "done"
    BY DEF Placed
  <2>1. CASE u = t
    BY <1>1, <2>1 DEF Placed, TaskMoves
  <2>2. CASE u # t
    BY <2>2 DEF Placed, TaskMoves
  <2> QED  BY <2>1, <2>2
<1>9. InHand'
  <2> SUFFICES ASSUME NEW v \in Workers, NEW u \in Tasks, cur'[v] = u
               PROVE  /\ loop'[v] \in Busy
                      /\ task'[u].at = v
                      /\ task'[u].st = "run" \/ (task'[u].st = "inbox" /\ loop'[v] = "recheck")
                      /\ loop'[v] \in {"wake"} \cup Dropping => node'[u].status
                      /\ loop'[v] \in Dropping => up'[v] \in Chain(u)'
                      /\ loop'[v] = "push" => task'[u].waitsFor # None
                      /\ loop'[v] = "recheck" /\ task'[u].st = "run" =>
                           task'[u].waitsFor # None /\ u \in node'[task'[u].waitsFor].waiters
    BY DEF InHand
  <2>1. CASE v = w
    BY <2>1, <1>1, Types DEF TaskMoves, Busy, Dropping
  <2>2. CASE v # w
    <3>1. u # t /\ task'[u] = task[u] /\ cur[v] = u /\ loop'[v] = loop[v]
      BY <2>2, <1>2 DEF TaskMoves
    <3>2. up'[v] = up[v] /\ Chain(u)' = Chain(u) /\ u \in Nodes
      BY <1>5, Types DEF TaskMoves
    <3>3. node'[u].status = node[u].status
      BY <3>2 DEF TaskMoves, SameNodes
    <3>4. task[u].waitsFor # None => node'[task[u].waitsFor].waiters = node[task[u].waitsFor].waiters
      BY Types DEF TaskMoves, SameNodes
    <3> QED  BY <3>1, <3>2, <3>3, <3>4 DEF InHand
  <2> QED  BY <2>1, <2>2
<1>10. Listed'
  <2> SUFFICES ASSUME NEW u \in Tasks, NEW n \in Nodes, u \in node'[n].waiters
               PROVE  /\ task'[u].waitsFor = n
                      /\ \/ task'[u].st = "join"
                         \/ task'[u].st = "run" /\ \E v \in Workers : cur'[v] = u /\ loop'[v] = "recheck"
    BY DEF Listed, Nodes
  <2>1. u \in node[n].waiters /\ u # t
    BY <1>7 DEF TaskMoves, SameNodes
  <2>2. task'[u] = task[u]
    BY <2>1 DEF TaskMoves
  <2>3. ASSUME NEW v \in Workers, cur[v] = u, loop[v] = "recheck"  PROVE cur'[v] = u /\ loop'[v] = "recheck"
    BY <2>3, <2>1 DEF TaskMoves
  <2> QED  BY <2>1, <2>2, <2>3 DEF Listed
<1>11. Completed'
  <2> SUFFICES ASSUME NEW u \in Tasks
               PROVE  /\ task'[u].st = "done" => node'[u].status
                      /\ node'[u].status =>
                           \/ task'[u].st = "done"
                           \/ \E v \in Workers : cur'[v] = u /\ loop'[v] \in {"wake"} \cup Dropping
    BY DEF Completed
  <2>1. node'[u].status = node[u].status
    BY Types DEF TaskMoves, SameNodes
  <2>2. task'[u].st = "done" <=> task[u].st = "done"
    BY <1>6 DEF SameLive
  <2>3. ASSUME NEW v \in Workers, cur[v] = u, loop[v] \in {"wake"} \cup Dropping
        PROVE  cur'[v] = u /\ loop'[v] \in {"wake"} \cup Dropping
    BY <2>3 DEF TaskMoves, Dropping
  <2> QED  BY <2>1, <2>2, <2>3 DEF Completed
<1>12. Remembered'
  <2> SUFFICES ASSUME NEW u \in Tasks, task'[u].st = "join"
               PROVE  /\ task'[u].waitsFor # None
                      /\ \A n \in Nodes : task'[u].waitsFor = n => u \in node'[n].waiters /\ (Over(n)' => WillWake(n)')
    BY DEF Remembered, Nodes
  <2>1. task'[u] = task[u]
    BY DEF TaskMoves
  <2>2. ASSUME NEW n \in Nodes  PROVE node'[n].waiters = node[n].waiters /\ (Over(n)' => Over(n))
    BY DEF TaskMoves, SameNodes, Over
  <2>3. ASSUME NEW n \in Nodes, WillWake(n)  PROVE WillWake(n)'
    BY <2>3 DEF TaskMoves, WillWake
  <2> QED  BY <2>1, <2>2, <2>3 DEF Remembered
<1> QED  BY <1>3, <1>4, <1>6, <1>8, <1>9, <1>10, <1>11, <1>12, ForestKept, LiveKept

\* The types of what a step of a task may change.
LoopType ==
  /\ loop \in [Workers -> Busy \cup {"top", "adopt", "inbox", "drain", "release", "gone"}]
  /\ cur \in [Workers -> Tasks \cup {None}]

\* A suspension, seen from the worker.
LEMMA LoopOf ==
  ASSUME TypeOK, NEW w \in Workers, NEW pc \in Busy \cup {"top", "adopt", "inbox", "drain", "release", "gone"}, Loop(w, pc)
  PROVE  /\ loop' \in [Workers -> Busy \cup {"top", "adopt", "inbox", "drain", "release", "gone"}]
         /\ loop'[w] = pc /\ \A v \in Workers : v # w => loop'[v] = loop[v]
BY DEF TypeOK, Loop

\* The other one.
LEMMA CurOf ==
  ASSUME TypeOK, NEW w \in Workers, NEW c \in Tasks \cup {None}, cur' = [cur EXCEPT ![w] = c]
  PROVE  /\ cur' \in [Workers -> Tasks \cup {None}]
         /\ cur'[w] = c /\ \A v \in Workers : v # w => cur'[v] = cur[v]
BY DEF TypeOK

\* Nothing in the queues and the nodes has changed.
LEMMA CalmMoves ==
  ASSUME IInv, UNCHANGED <<node, queues>>
  PROVE  /\ SameNodes /\ kicks' \in [Workers -> SUBSET Tasks]
         /\ \A v \in Workers : \A u \in kicks'[v] : u \in kicks[v] \/ task[u].at = v
         /\ q' = q /\ inbox' = inbox /\ shared' = shared
BY DEF IInv, TypeOK, SameNodes, queues

\* The count of a task's operations is apart from the rest.
LEMMA DidOpIs ==
  ASSUME TypeOK, NEW t \in Tasks
  PROVE  /\ DidOp(t) \in [Tasks -> TaskType]
         /\ \A u \in Tasks : u # t => DidOp(t)[u] = task[u]
         /\ DidOp(t)[t].st = task[t].st /\ DidOp(t)[t].at = task[t].at
         /\ DidOp(t)[t].waitsFor = task[t].waitsFor /\ DidOp(t)[t].joined = task[t].joined
<1>1. task \in [Tasks -> TaskType] /\ task[t] \in TaskType
  BY DEF TypeOK
<1>2. [task[t] EXCEPT !.ops = @ + 1] \in TaskType
  BY <1>1 DEF TaskType
<1>3. DidOp(t) = [task EXCEPT ![t] = [task[t] EXCEPT !.ops = @ + 1]]
  BY <1>1 DEF DidOp, TaskType
<1> QED  BY <1>1, <1>2, <1>3 DEF TaskType

\* A task that begins to sleep, or finds that it has been cancelled.
LEMMA SleepStep ==
  ASSUME IInv, NEW w \in Workers, NEW t \in Tasks, Sleep(w, t)
  PROVE  IInv'
<1> USE DEF IInv
<1>1. loop[w] = "task" /\ cur[w] = t /\ task[t].st = "run" /\ task[t].at = w
  BY DEF Sleep, Acts, Runs, InHand
<1>2. /\ task' \in [Tasks -> TaskType]
      /\ \A u \in Tasks : u # t => task'[u] = task[u]
      /\ task'[t].at = task[t].at /\ task'[t].waitsFor = task[t].waitsFor /\ task'[t].joined = task[t].joined
      /\ task'[t].st = IF node[t].requested THEN "run" ELSE "sleep"
  <2>1. PICK f : f = DidOp(t)
    OBVIOUS
  <2>2. f \in [Tasks -> TaskType] /\ \A u \in Tasks : u # t => f[u] = task[u]
    BY <2>1, DidOpIs
  <2>3. f[t].st = "run" /\ f[t].at = task[t].at /\ f[t].waitsFor = task[t].waitsFor /\ f[t].joined = task[t].joined
    BY <2>1, <1>1, DidOpIs
  <2>4. CASE node[t].requested
    BY <2>1, <2>2, <2>3, <2>4 DEF Sleep
  <2>5. CASE ~node[t].requested
    <3>1. task' = [f EXCEPT ![t].st = "sleep"]
      BY <2>1, <2>5 DEF Sleep
    <3>2. /\ task' \in [Tasks -> TaskType] /\ \A u \in Tasks : u # t => task'[u] = f[u]
          /\ task'[t].st = "sleep" /\ task'[t].at = f[t].at
          /\ task'[t].waitsFor = f[t].waitsFor /\ task'[t].joined = f[t].joined
      BY <3>1, <2>2 DEF TaskType, TaskStates
    <3> QED  BY <3>2, <2>2, <2>3, <2>5
  <2> QED  BY <2>4, <2>5
<1>3. UNCHANGED <<node, queues, up, drainvars, stopper, prog>>
  BY DEF Sleep
<1>4. LoopType' /\ TaskMoves(w, t) /\ loop'[w] \in {"task", "adopt"}
  <2>1. CASE node[t].requested
    <3>1. loop' = loop /\ cur' = cur /\ task'[t].st = "run"
      BY <2>1, <1>2 DEF Sleep
    <3> QED  BY <3>1, <1>1, <1>2, <1>3, CalmMoves DEF TaskMoves, LoopType, TypeOK
  <2>2. CASE ~node[t].requested
    <3>1. task'[t].st = "sleep" /\ Loop(w, "adopt") /\ cur' = [cur EXCEPT ![w] = None]
      BY <2>2, <1>2 DEF Sleep, Suspended
    <3>2. LoopType' /\ loop'[w] = "adopt" /\ cur'[w] = None /\ \A v \in Workers : v # w => loop'[v] = loop[v] /\ cur'[v] = cur[v]
      BY <3>1, LoopOf, CurOf DEF LoopType
    <3> QED  BY <3>1, <3>2, <1>1, <1>2, <1>3, CalmMoves DEF TaskMoves
  <2> QED  BY <2>1, <2>2
<1>5. TypeOK'
  BY <1>2, <1>3, <1>4 DEF TypeOK, LoopType, queues, drainvars
<1>6. NoNewJoin
  BY <1>2 DEF NoNewJoin
<1>7. SameDrain
  <2>1. loop'[w] \notin {"release", "gone"} /\ \A v \in Workers : v # w => loop'[v] = loop[v]
    BY <1>4 DEF TaskMoves
  <2> QED  BY <2>1, <1>3 DEF SameDrain, drainvars
<1> QED  BY <1>4, <1>5, <1>6, <1>7, TaskMovesStep, TruthKept, SurvivingKept

\* A task that waits for what nobody ends.
LEMMA WaitForGoodStep ==
  ASSUME IInv, NEW w \in Workers, NEW t \in Tasks, WaitForGood(w, t)
  PROVE  IInv'
<1> USE DEF IInv
<1>1. loop[w] = "task" /\ cur[w] = t /\ task[t].st = "run" /\ task[t].at = w
  BY DEF WaitForGood, Acts, Runs, InHand
<1>2. /\ task' \in [Tasks -> TaskType]
      /\ \A u \in Tasks : u # t => task'[u] = task[u]
      /\ task'[t].at = task[t].at /\ task'[t].waitsFor = task[t].waitsFor /\ task'[t].joined = task[t].joined
      /\ task'[t].st = "stuck"
  <2>1. task \in [Tasks -> TaskType]
    BY DEF TypeOK
  <2> QED  BY <2>1 DEF WaitForGood, TaskType, TaskStates
<1>3. UNCHANGED <<node, queues, up, drainvars, stopper, prog>>
  BY DEF WaitForGood
<1>4. LoopType' /\ loop'[w] = "adopt" /\ cur'[w] = None /\ \A v \in Workers : v # w => loop'[v] = loop[v] /\ cur'[v] = cur[v]
  BY LoopOf, CurOf DEF LoopType, WaitForGood, Suspended
<1>5. TaskMoves(w, t)
  BY <1>1, <1>2, <1>3, <1>4, CalmMoves DEF TaskMoves
<1>6. TypeOK'
  BY <1>2, <1>3, <1>4 DEF TypeOK, LoopType, queues, drainvars
<1>7. NoNewJoin
  BY <1>2 DEF NoNewJoin
<1>8. SameDrain
  BY <1>4, <1>3 DEF SameDrain, drainvars
<1> QED  BY <1>5, <1>6, <1>7, <1>8, TaskMovesStep, TruthKept, SurvivingKept

\* Under a scope that counts nobody everybody is done.
LEMMA ScopeDrained ==
  ASSUME IInv, node[Scope].live = 0, NEW c \in Tasks, Scope \in Chain(c)
  PROVE  node[c].status
<1> USE DEF IInv
<1>1. Scope \in Nodes /\ c \in Nodes /\ Scope \notin Tasks
  BY Types
<1>2. IsFiniteSet(Counted(Scope))
  BY FiniteAssumption, FS_Subset DEF Counted
<1>3. Counted(Scope) = {}
  BY <1>1, <1>2, FS_EmptySet DEF LiveIsExact
<1>4. Scope \notin Owes(c)
  BY <1>3 DEF Counted
<1>5. CASE task[c].st = "none"
  <2>1. node[c].parent = None
    BY <1>5 DEF Forest
  <2>2. Chain(c) = {c}
    BY <2>1, <1>1, ChainStep DEF TypeOK
  <2> QED  BY <2>2, <1>1
<1>6. CASE task[c].st = "done"
  BY <1>6 DEF Completed
<1>7. CASE \E w \in Workers : cur[w] = c /\ loop[w] \in Dropping
  BY <1>7 DEF InHand
<1> QED  BY <1>4, <1>5, <1>6, <1>7 DEF Owes

\* A join that finds its node over may return.
LEMMA OverIsTold ==
  ASSUME IInv, NEW t \in Tasks, NEW n \in Nodes, Over(n), n = Scope => t = Root
  PROVE  Told(t, n)
<1>1. n \in Tasks => node[n].status
  BY DEF Over
<1>2. n = Scope => \A c \in Tasks : Scope \in Chain(c) => node[c].status
  BY ScopeDrained, RuntimeAssumption DEF Over
<1> QED  BY <1>1, <1>2 DEF Told

\* Only the root has the scope.
LEMMA ScopeIsRoots ==
  ASSUME IInv, NEW t \in Tasks, Scope \in MayName(t)
  PROVE  t = Root
BY DEF IInv, Forest, MayName, MayOwn

\* A join that begins, or need not wait.
LEMMA JoinStep ==
  ASSUME IInv, NEW w \in Workers, NEW t \in Tasks, NEW n \in Nodes, Join(w, t, n)
  PROVE  IInv'
<1> USE DEF IInv
<1>1. loop[w] = "task" /\ cur[w] = t /\ task[t].st = "run" /\ task[t].at = w
  BY DEF Join, Acts, Runs, InHand
<1>2. PICK f : f = DidOp(t)
  OBVIOUS
<1>3. /\ f \in [Tasks -> TaskType] /\ \A u \in Tasks : u # t => f[u] = task[u]
      /\ f[t].st = "run" /\ f[t].at = task[t].at /\ f[t].waitsFor = task[t].waitsFor /\ f[t].joined = task[t].joined
  BY <1>1, <1>2, DidOpIs
<1>4. UNCHANGED <<node, queues, cur, up, drainvars, stopper, prog>>
  BY DEF Join
<1>5. n = Scope => t = Root
  BY ScopeIsRoots DEF Join
<1>6. n # None
  BY Types
<1>7. /\ task' \in [Tasks -> TaskType] /\ \A u \in Tasks : u # t => task'[u] = task[u]
      /\ task'[t].st = "run" /\ task'[t].at = task[t].at
      /\ LoopType' /\ \A v \in Workers : v # w => loop'[v] = loop[v] /\ cur'[v] = cur[v]
      /\ \/ /\ loop'[w] = "task" /\ task'[t].joined = n /\ Told(t, n)
            /\ task'[t].waitsFor = task[t].waitsFor
         \/ loop'[w] = "push" /\ task'[t].waitsFor = n /\ task'[t].joined = task[t].joined
  <2>1. CASE Over(n)
    <3>1. task' = [f EXCEPT ![t].joined = n] /\ loop' = loop
      BY <1>2, <2>1 DEF Join
    <3>2. /\ task' \in [Tasks -> TaskType] /\ \A u \in Tasks : u # t => task'[u] = f[u]
          /\ task'[t].st = f[t].st /\ task'[t].at = f[t].at
          /\ task'[t].waitsFor = f[t].waitsFor /\ task'[t].joined = n
      BY <3>1, <1>3 DEF TaskType
    <3>3. Told(t, n)
      BY <2>1, <1>5, OverIsTold
    <3>4. LoopType'
      BY <3>1, <1>4 DEF LoopType, TypeOK
    <3> QED  BY <3>1, <3>2, <3>3, <3>4, <1>1, <1>3, <1>4
  <2>2. CASE ~Over(n)
    <3>1. task' = [f EXCEPT ![t].waitsFor = n] /\ Loop(w, "push")
      BY <1>2, <2>2 DEF Join
    <3>2. /\ task' \in [Tasks -> TaskType] /\ \A u \in Tasks : u # t => task'[u] = f[u]
          /\ task'[t].st = f[t].st /\ task'[t].at = f[t].at
          /\ task'[t].waitsFor = n /\ task'[t].joined = f[t].joined
      BY <3>1, <1>3 DEF TaskType
    <3>3. loop'[w] = "push" /\ LoopType' /\ \A v \in Workers : v # w => loop'[v] = loop[v]
      BY <3>1, <1>4, LoopOf DEF LoopType, Busy, TypeOK
    <3> QED  BY <3>2, <3>3, <1>1, <1>3, <1>4
  <2> QED  BY <2>1, <2>2
<1>8. TaskMoves(w, t)
  BY <1>1, <1>4, <1>6, <1>7, CalmMoves DEF TaskMoves
<1>9. TypeOK'
  BY <1>4, <1>7 DEF TypeOK, LoopType, queues, drainvars
<1>10. GoodJoins
  BY <1>5, <1>7 DEF GoodJoins
<1>11. SameDrain
  <2>1. \A v \in Workers : loop'[v] \in {"release", "gone"} => loop'[v] = loop[v]
    BY <1>7
  <2> QED  BY <2>1, <1>4 DEF SameDrain, drainvars
<1> QED  BY <1>8, <1>9, <1>10, <1>11, TaskMovesStep, TruthTold, SurvivingKept

\* What a request for cancellation leaves alone.
LEMMA RequestedIs ==
  ASSUME IInv, NEW ns, Requested(ns)
  PROVE  /\ node' \in [Nodes -> NodeType] /\ SameNodes
         /\ kicks' \in [Workers -> SUBSET Tasks]
         /\ \A v \in Workers : \A u \in kicks'[v] : u \in kicks[v] \/ task[u].at = v
<1> DEFINE fresh == {n \in UNION {Below(m) : m \in ns} : ~node[n].requested}
           asleep == {t \in fresh \cap Tasks : task[t].at # None /\ task[t].st # "none" /\ ~node[t].status}
<1>1. node' = [n \in Nodes |-> IF n \in fresh THEN [node[n] EXCEPT !.requested = TRUE] ELSE node[n]]
  BY DEF Requested
<1>2. kicks' = [w \in Workers |-> kicks[w] \cup {t \in asleep : task[t].at = w}]
  BY DEF Requested
<1>3. asleep \subseteq Tasks
  OBVIOUS
<1> HIDE DEF fresh, asleep
<1>4. ASSUME NEW n \in Nodes
      PROVE  /\ node'[n] \in NodeType
             /\ node'[n].parent = node[n].parent /\ node'[n].live = node[n].live
             /\ node'[n].status = node[n].status /\ node'[n].waiters = node[n].waiters
  <2>1. PICK r : r = node[n]
    OBVIOUS
  <2>2. r \in NodeType
    BY <2>1 DEF IInv, TypeOK
  <2>3. PICK s : s = [r EXCEPT !.requested = TRUE]
    OBVIOUS
  <2>4. s \in NodeType
    BY <2>2, <2>3 DEF NodeType
  <2>5. s.parent = r.parent /\ s.live = r.live /\ s.status = r.status /\ s.waiters = r.waiters
    BY <2>2, <2>3 DEF NodeType
  <2>6. node'[n] \in {r, s}
    BY <1>1, <2>1, <2>3
  <2> QED  BY <2>1, <2>2, <2>4, <2>5, <2>6
<1>5. node' \in [Nodes -> NodeType]
  BY <1>1, <1>4
<1>6. SameNodes
  BY <1>4 DEF SameNodes
<1> QED  BY <1>2, <1>3, <1>5, <1>6 DEF IInv, TypeOK

\* A task that cancels something.
LEMMA CancelStep ==
  ASSUME IInv, NEW w \in Workers, NEW t \in Tasks, NEW n \in Nodes, Cancel(w, t, n)
  PROVE  IInv'
<1> USE DEF IInv
<1>1. loop[w] = "task" /\ cur[w] = t /\ task[t].st = "run" /\ task[t].at = w
  BY DEF Cancel, Acts, Runs, InHand
<1>2. /\ task' \in [Tasks -> TaskType] /\ \A u \in Tasks : u # t => task'[u] = task[u]
      /\ task'[t].st = "run" /\ task'[t].at = task[t].at
      /\ task'[t].waitsFor = task[t].waitsFor /\ task'[t].joined = task[t].joined
  BY <1>1, DidOpIs DEF Cancel
<1>3. /\ node' \in [Nodes -> NodeType] /\ SameNodes
      /\ kicks' \in [Workers -> SUBSET Tasks]
      /\ \A v \in Workers : \A u \in kicks'[v] : u \in kicks[v] \/ task[u].at = v
  BY RequestedIs DEF Cancel
<1>4. UNCHANGED <<q, inbox, shared, loop, cur, up, drainvars, stopper, prog>>
  BY DEF Cancel
<1>5. TaskMoves(w, t)
  BY <1>1, <1>2, <1>3, <1>4 DEF TaskMoves
<1>6. TypeOK'
  BY <1>2, <1>3, <1>4 DEF TypeOK, drainvars
<1>7. NoNewJoin
  BY <1>2 DEF NoNewJoin
<1>8. SameDrain
  BY <1>4 DEF SameDrain, drainvars
<1> QED  BY <1>5, <1>6, <1>7, <1>8, TaskMovesStep, TruthKept, SurvivingKept

\* The root leaves its scope.
LEMMA LeaveScopeStep ==
  ASSUME IInv, NEW w \in Workers, NEW t \in Tasks, LeaveScope(w, t)
  PROVE  IInv'
<1> USE DEF IInv
<1>1. loop[w] = "task" /\ cur[w] = t /\ task[t].st = "run" /\ task[t].at = w
  BY DEF LeaveScope, Runs, InHand
<1>2. /\ node' \in [Nodes -> NodeType] /\ SameNodes
      /\ kicks' \in [Workers -> SUBSET Tasks]
      /\ \A v \in Workers : \A u \in kicks'[v] : u \in kicks[v] \/ task[u].at = v
  BY RequestedIs DEF LeaveScope
<1>3. UNCHANGED <<task, q, inbox, shared, cur, up, drainvars, stopper, prog>>
  BY DEF LeaveScope
<1>4. /\ loop' \in [Workers -> Busy \cup {"top", "adopt", "inbox", "drain", "release", "gone"}]
      /\ loop'[w] = "final" /\ \A v \in Workers : v # w => loop'[v] = loop[v]
  BY LoopOf DEF LeaveScope, Busy
<1>5. TaskMoves(w, t)
  BY <1>1, <1>2, <1>3, <1>4 DEF TaskMoves
<1>6. TypeOK'
  BY <1>2, <1>3, <1>4 DEF TypeOK, drainvars
<1>7. NoNewJoin
  BY <1>3 DEF NoNewJoin
<1>8. SameDrain
  BY <1>3, <1>4 DEF SameDrain, drainvars
<1> QED  BY <1>5, <1>6, <1>7, <1>8, TaskMovesStep, TruthKept, SurvivingKept

(***************************************************************************)
(* Steps that move tasks between the queues                                *)
(***************************************************************************)

\* Tasks that are in no worker's hands become ready; no worker takes or leaves one.
QueueMoves ==
  /\ cur' = cur /\ up' = up
  /\ \A v \in Workers : loop'[v] = loop[v] \/ (loop[v] \notin Busy /\ loop'[v] \notin Busy)
  /\ \A u \in Tasks : task'[u].waitsFor = task[u].waitsFor /\ task'[u].joined = task[u].joined
  /\ \A u \in Tasks : \/ task'[u].st = task[u].st /\ task'[u].at = task[u].at
                      \/ /\ task[u].st \in {"shared", "inbox", "sleep"} /\ task'[u].st = "queued"
                         /\ \A v \in Workers : cur[v] # u
  /\ SameNodes

\* Such a step keeps all but what is said of the queues and of the drain.
LEMMA QueueMovesStep ==
  ASSUME IInv, QueueMoves
  PROVE  /\ SameTree /\ StatusKept
         /\ InHand' /\ Listed' /\ Completed' /\ Forest' /\ LiveIsExact' /\ Truthful' /\ Remembered'
<1> USE DEF IInv
<1>1. SameTree
  BY DEF QueueMoves, SameNodes, SameTree
<1>2. StatusKept
  BY DEF QueueMoves, SameNodes, StatusKept
<1>3. \A n \in Nodes : Chain(n)' = Chain(n)
  BY <1>1, ChainsKept
<1>4. SameLive
  <2>1. \A u \in Tasks : task'[u].st = "done" <=> task[u].st = "done"
    BY DEF QueueMoves
  <2>2. \A v \in Workers : loop'[v] \in Busy \/ loop[v] \in Busy => loop'[v] = loop[v]
    BY DEF QueueMoves
  <2>3. Dropping \subseteq Busy
    BY DEF Dropping, Busy
  <2> QED  BY <2>1, <2>2, <2>3 DEF QueueMoves, SameNodes, SameLive
<1>5. NoNewJoin
  BY DEF QueueMoves, NoNewJoin
<1>6. \A v \in Workers : \A x \in {"recheck", "wake"} \cup Dropping : loop[v] = x => loop'[v] = x
  BY DEF QueueMoves, Busy, Dropping
<1>7. InHand'
  <2> SUFFICES ASSUME NEW v \in Workers, NEW u \in Tasks, cur'[v] = u
               PROVE  /\ loop'[v] \in Busy
                      /\ task'[u].at = v
                      /\ task'[u].st = "run" \/ (task'[u].st = "inbox" /\ loop'[v] = "recheck")
                      /\ loop'[v] \in {"wake"} \cup Dropping => node'[u].status
                      /\ loop'[v] \in Dropping => up'[v] \in Chain(u)'
                      /\ loop'[v] = "push" => task'[u].waitsFor # None
                      /\ loop'[v] = "recheck" /\ task'[u].st = "run" =>
                           task'[u].waitsFor # None /\ u \in node'[task'[u].waitsFor].waiters
    BY DEF InHand
  <2>1. cur[v] = u /\ loop[v] \in Busy
    BY DEF QueueMoves, InHand
  <2>2. loop'[v] = loop[v] /\ task'[u].st = task[u].st /\ task'[u].at = task[u].at /\ task'[u].waitsFor = task[u].waitsFor
    BY <2>1 DEF QueueMoves
  <2>3. up'[v] = up[v] /\ Chain(u)' = Chain(u) /\ u \in Nodes
    BY <1>3, Types DEF QueueMoves
  <2>4. node'[u].status = node[u].status
    BY <2>3 DEF QueueMoves, SameNodes
  <2>5. task[u].waitsFor # None => node'[task[u].waitsFor].waiters = node[task[u].waitsFor].waiters
    BY Types DEF QueueMoves, SameNodes
  <2> QED  BY <2>1, <2>2, <2>3, <2>4, <2>5 DEF InHand
<1>8. Listed'
  <2> SUFFICES ASSUME NEW u \in Tasks, NEW n \in Nodes, u \in node'[n].waiters
               PROVE  /\ task'[u].waitsFor = n
                      /\ \/ task'[u].st = "join"
                         \/ task'[u].st = "run" /\ \E v \in Workers : cur'[v] = u /\ loop'[v] = "recheck"
    BY DEF Listed, Nodes
  <2>1. u \in node[n].waiters
    BY DEF QueueMoves, SameNodes
  <2>2. task'[u].st = task[u].st /\ task'[u].waitsFor = task[u].waitsFor
    BY <2>1 DEF QueueMoves, Listed
  <2> QED  BY <2>1, <2>2, <1>6 DEF Listed, QueueMoves
<1>9. Completed'
  <2> SUFFICES ASSUME NEW u \in Tasks
               PROVE  /\ task'[u].st = "done" => node'[u].status
                      /\ node'[u].status =>
                           \/ task'[u].st = "done"
                           \/ \E v \in Workers : cur'[v] = u /\ loop'[v] \in {"wake"} \cup Dropping
    BY DEF Completed
  <2>1. node'[u].status = node[u].status
    BY Types DEF QueueMoves, SameNodes
  <2>2. task'[u].st = "done" <=> task[u].st = "done"
    BY <1>4 DEF SameLive
  <2>3. ASSUME NEW v \in Workers, cur[v] = u, loop[v] \in {"wake"} \cup Dropping
        PROVE  cur'[v] = u /\ loop'[v] \in {"wake"} \cup Dropping
    BY <2>3, <1>6 DEF QueueMoves
  <2> QED  BY <2>1, <2>2, <2>3 DEF Completed
<1>10. Remembered'
  <2> SUFFICES ASSUME NEW u \in Tasks, task'[u].st = "join"
               PROVE  /\ task'[u].waitsFor # None
                      /\ \A n \in Nodes : task'[u].waitsFor = n => u \in node'[n].waiters /\ (Over(n)' => WillWake(n)')
    BY DEF Remembered, Nodes
  <2>1. task[u].st = "join" /\ task'[u].waitsFor = task[u].waitsFor
    BY DEF QueueMoves
  <2>2. ASSUME NEW n \in Nodes  PROVE node'[n].waiters = node[n].waiters /\ (Over(n)' => Over(n))
    BY DEF QueueMoves, SameNodes, Over
  <2>3. ASSUME NEW n \in Nodes, WillWake(n)  PROVE WillWake(n)'
    BY <2>3, <1>6 DEF QueueMoves, WillWake, Dropping
  <2> QED  BY <2>1, <2>2, <2>3 DEF Remembered
<1> QED  BY <1>1, <1>2, <1>4, <1>5, <1>7, <1>8, <1>9, <1>10, ForestKept, LiveKept, TruthKept

\* A timer makes its task ready.
LEMMA TimerFiresStep ==
  ASSUME IInv, NEW t \in Tasks, TimerFires(t)
  PROVE  IInv'
<1> USE DEF IInv
<1>1. task[t].st = "sleep" /\ \A v \in Workers : cur[v] # t
  BY DEF TimerFires, InHand
<1>2. /\ task' \in [Tasks -> TaskType] /\ \A u \in Tasks : u # t => task'[u] = task[u]
      /\ task'[t].st = "queued" /\ task'[t].at = task[t].at
      /\ task'[t].waitsFor = task[t].waitsFor /\ task'[t].joined = task[t].joined
  BY DEF TimerFires, TypeOK, TaskType, TaskStates
<1>3. q' \in [Workers -> SUBSET Tasks] /\ \A v \in Workers : \A u \in q'[v] : u \in q[v] \/ (u = t /\ task[t].at = v)
  BY DEF TimerFires, TypeOK
<1>4. UNCHANGED <<node, inbox, shared, kicks, loop, cur, up, drainvars, stopper, prog>>
  BY DEF TimerFires
<1>5. SameNodes
  BY <1>4 DEF SameNodes
<1>6. QueueMoves
  BY <1>1, <1>2, <1>4, <1>5 DEF QueueMoves
<1>7. TypeOK'
  BY <1>2, <1>3, <1>4 DEF TypeOK, drainvars
<1>8. Placed'
  BY <1>1, <1>2, <1>3, <1>4 DEF Placed
<1>9. SameDrain
  BY <1>4 DEF SameDrain, drainvars
<1> QED  BY <1>6, <1>7, <1>8, <1>9, QueueMovesStep, SurvivingKept

\* A worker takes a task of the shared queue.
LEMMA AdoptStep ==
  ASSUME IInv, NEW w \in Workers, Adopt(w)
  PROVE  IInv'
<1> USE DEF IInv
<1>1. UNCHANGED <<node, inbox, cur, up, drainvars, stopper, prog>> /\ loop[w] = "adopt"
  BY DEF Adopt
<1>2. /\ loop' \in [Workers -> Busy \cup {"top", "adopt", "inbox", "drain", "release", "gone"}]
      /\ loop'[w] = "inbox" /\ \A v \in Workers : v # w => loop'[v] = loop[v]
  BY LoopOf DEF Adopt
<1>3. \A v \in Workers : loop'[v] = loop[v] \/ (loop[v] \notin Busy /\ loop'[v] \notin Busy)
  BY <1>1, <1>2 DEF Busy
<1>4. SameNodes
  BY <1>1 DEF SameNodes
<1>5. SameDrain
  BY <1>1, <1>2 DEF SameDrain, drainvars
<1>6. CASE UNCHANGED <<shared, task, q, kicks>>
  <2>1. QueueMoves
    BY <1>1, <1>3, <1>4, <1>6 DEF QueueMoves
  <2>2. TypeOK'
    BY <1>1, <1>2, <1>6 DEF TypeOK, drainvars
  <2>3. Placed'
    BY <1>1, <1>6 DEF Placed
  <2> QED  BY <2>1, <2>2, <2>3, <1>5, QueueMovesStep, SurvivingKept
<1>7. ASSUME NEW t \in shared,
             shared' = shared \ {t}, task' = [task EXCEPT ![t].at = w, ![t].st = "queued"],
             q' = [q EXCEPT ![w] = @ \cup {t}],
             kicks' = IF node[t].requested THEN [kicks EXCEPT ![w] = @ \cup {t}] ELSE kicks
      PROVE  IInv'
  <2>1. t \in Tasks /\ task[t].st = "shared" /\ task[t].at = None
    BY DEF Placed, TypeOK
  <2>2. \A v \in Workers : cur[v] # t
    BY <2>1 DEF InHand
  <2>3. /\ task' \in [Tasks -> TaskType] /\ \A u \in Tasks : u # t => task'[u] = task[u]
        /\ task'[t].st = "queued" /\ task'[t].at = w
        /\ task'[t].waitsFor = task[t].waitsFor /\ task'[t].joined = task[t].joined
    BY <1>7, <2>1 DEF TypeOK, TaskType, TaskStates
  <2>4. q' \in [Workers -> SUBSET Tasks] /\ \A v \in Workers : \A u \in q'[v] : u \in q[v] \/ (u = t /\ v = w)
    BY <1>7, <2>1 DEF TypeOK
  <2>5. kicks' \in [Workers -> SUBSET Tasks] /\ \A v \in Workers : \A u \in kicks'[v] : u \in kicks[v] \/ (u = t /\ v = w)
    BY <1>7, <2>1 DEF TypeOK
  <2>6. shared' \subseteq shared /\ t \notin shared'
    BY <1>7
  <2>7. QueueMoves
    BY <1>1, <1>3, <1>4, <2>1, <2>2, <2>3 DEF QueueMoves
  <2>8. TypeOK'
    BY <1>1, <1>2, <2>3, <2>4, <2>5, <2>6 DEF TypeOK, drainvars
  <2>9. Placed'
    <3>1. \A v \in Workers : t \notin q[v] /\ t \notin inbox[v] /\ t \notin kicks[v]
      BY <2>1, Types DEF Placed
    <3>2. inbox' = inbox
      BY <1>1
    <3> QED  BY <3>1, <3>2, <2>1, <2>3, <2>4, <2>5, <2>6 DEF Placed
  <2> QED  BY <2>7, <2>8, <2>9, <1>5, QueueMovesStep, SurvivingKept
<1> QED  BY <1>6, <1>7 DEF Adopt

\* A worker takes a task from its run queue.
LEMMA TurnStep ==
  ASSUME IInv, NEW w \in Workers, Turn(w)
  PROVE  IInv'
<1> USE DEF IInv
<1>1. UNCHANGED <<node, inbox, shared, kicks, up, drainvars, stopper, prog>> /\ loop[w] = "top"
  BY DEF Turn
<1>2. SameNodes
  BY <1>1 DEF SameNodes
<1>3. CASE Loop(w, "adopt") /\ UNCHANGED <<q, cur, task>>
  <2>1. /\ loop' \in [Workers -> Busy \cup {"top", "adopt", "inbox", "drain", "release", "gone"}]
        /\ loop'[w] = "adopt" /\ \A v \in Workers : v # w => loop'[v] = loop[v]
    BY <1>3, LoopOf
  <2>2. \A v \in Workers : loop'[v] = loop[v] \/ (loop[v] \notin Busy /\ loop'[v] \notin Busy)
    BY <1>1, <2>1 DEF Busy
  <2>3. QueueMoves
    BY <1>1, <1>2, <1>3, <2>2 DEF QueueMoves
  <2>4. TypeOK'
    BY <1>1, <1>3, <2>1 DEF TypeOK, drainvars
  <2>5. Placed'
    BY <1>1, <1>3 DEF Placed
  <2>6. SameDrain
    BY <1>1, <2>1 DEF SameDrain, drainvars
  <2> QED  BY <2>3, <2>4, <2>5, <2>6, QueueMovesStep, SurvivingKept
<1>4. ASSUME NEW t \in q[w], q' = [q EXCEPT ![w] = @ \ {t}], cur' = [cur EXCEPT ![w] = t],
             task' = [task EXCEPT ![t].st = "run"], Loop(w, "task")
      PROVE  IInv'
  <2>1. t \in Tasks /\ task[t].st = "queued" /\ task[t].at = w
    BY DEF Placed, TypeOK
  <2>2. \A v \in Workers : cur[v] # t
    BY <2>1 DEF InHand
  <2>3. \A u \in Tasks : cur[w] # u
    BY <1>1 DEF InHand, Busy
  <2>4. /\ task' \in [Tasks -> TaskType] /\ \A u \in Tasks : u # t => task'[u] = task[u]
        /\ task'[t].st = "run" /\ task'[t].at = w
        /\ task'[t].waitsFor = task[t].waitsFor /\ task'[t].joined = task[t].joined
    BY <1>4, <2>1 DEF TypeOK, TaskType, TaskStates
  <2>5. q' \in [Workers -> SUBSET Tasks] /\ t \notin q'[w] /\ \A v \in Workers : q'[v] \subseteq q[v]
    BY <1>4 DEF TypeOK
  <2>6. /\ loop' \in [Workers -> Busy \cup {"top", "adopt", "inbox", "drain", "release", "gone"}]
        /\ loop'[w] = "task" /\ \A v \in Workers : v # w => loop'[v] = loop[v]
    BY <1>4, LoopOf DEF Busy
  <2>7. /\ cur' \in [Workers -> Tasks \cup {None}]
        /\ cur'[w] = t /\ \A v \in Workers : v # w => cur'[v] = cur[v]
    BY <1>4, <2>1, CurOf
  <2>8. TypeOK'
    BY <1>1, <2>4, <2>5, <2>6, <2>7 DEF TypeOK, drainvars
  <2>9. SameTree /\ StatusKept
    BY <1>2, <2>1, <2>4 DEF SameTree, StatusKept, SameNodes
  <2>10. SameLive
    <3>1. loop[w] \notin Dropping /\ loop'[w] \notin Dropping
      BY <1>1, <2>6 DEF Dropping
    <3> QED  BY <3>1, <1>1, <1>2, <2>1, <2>4, <2>6, <2>7 DEF SameLive, SameNodes
  <2>11. NoNewJoin /\ SameDrain
    BY <1>1, <2>4, <2>6 DEF NoNewJoin, SameDrain, drainvars
  <2>12. \A n \in Nodes : Chain(n)' = Chain(n)
    BY <2>9, ChainsKept
  <2>13. Placed'
    <3>1. \A v \in Workers : t \notin inbox[v] /\ t \notin q'[v] /\ t \notin shared
      BY <2>1, <2>5 DEF Placed
    <3> QED  BY <3>1, <1>1, <2>1, <2>4, <2>5 DEF Placed
  <2>14. InHand'
    <3> SUFFICES ASSUME NEW v \in Workers, NEW u \in Tasks, cur'[v] = u
                 PROVE  /\ loop'[v] \in Busy
                        /\ task'[u].at = v
                        /\ task'[u].st = "run" \/ (task'[u].st = "inbox" /\ loop'[v] = "recheck")
                        /\ loop'[v] \in {"wake"} \cup Dropping => node'[u].status
                        /\ loop'[v] \in Dropping => up'[v] \in Chain(u)'
                        /\ loop'[v] = "push" => task'[u].waitsFor # None
                        /\ loop'[v] = "recheck" /\ task'[u].st = "run" =>
                             task'[u].waitsFor # None /\ u \in node'[task'[u].waitsFor].waiters
      BY DEF InHand
    <3>1. CASE v = w
      BY <3>1, <2>4, <2>6, <2>7 DEF Busy, Dropping
    <3>2. CASE v # w
      <4>1. cur[v] = u /\ u # t /\ loop'[v] = loop[v] /\ task'[u] = task[u]
        BY <3>2, <2>2, <2>4, <2>6, <2>7
      <4>2. Chain(u)' = Chain(u) /\ node' = node /\ up' = up
        BY <2>12, <1>1, Types
      <4> QED  BY <4>1, <4>2 DEF InHand
    <3> QED  BY <3>1, <3>2
  <2>15. Listed'
    <3> SUFFICES ASSUME NEW u \in Tasks, NEW n \in Nodes, u \in node[n].waiters
                 PROVE  /\ task'[u].waitsFor = n
                        /\ \/ task'[u].st = "join"
                           \/ task'[u].st = "run" /\ \E v \in Workers : cur'[v] = u /\ loop'[v] = "recheck"
      BY <1>1 DEF Listed, Nodes
    <3>1. u # t /\ task'[u] = task[u]
      BY <2>1, <2>4 DEF Listed
    <3>2. \A v \in Workers : cur[v] = u => v # w
      BY <2>3
    <3> QED  BY <3>1, <3>2, <2>6, <2>7 DEF Listed
  <2>16. Completed'
    <3> SUFFICES ASSUME NEW u \in Tasks
                 PROVE  /\ task'[u].st = "done" => node[u].status
                        /\ node[u].status =>
                             \/ task'[u].st = "done"
                             \/ \E v \in Workers : cur'[v] = u /\ loop'[v] \in {"wake"} \cup Dropping
      BY <1>1 DEF Completed
    <3>1. task'[u].st = "done" <=> task[u].st = "done"
      BY <2>10 DEF SameLive
    <3>2. \A v \in Workers : cur[v] = u => v # w
      BY <2>3
    <3> QED  BY <3>1, <3>2, <2>6, <2>7 DEF Completed
  <2>17. Remembered'
    <3> SUFFICES ASSUME NEW u \in Tasks, task'[u].st = "join"
                 PROVE  /\ task'[u].waitsFor # None
                        /\ \A n \in Nodes : task'[u].waitsFor = n => u \in node'[n].waiters /\ (Over(n)' => WillWake(n)')
      BY DEF Remembered, Nodes
    <3>1. task'[u] = task[u]
      BY <2>4
    <3>2. \A n \in Nodes : Over(n)' <=> Over(n)
      BY <1>1 DEF Over
    <3>3. ASSUME NEW n \in Nodes, WillWake(n)  PROVE WillWake(n)'
      BY <3>3, <1>1, <2>6, <2>7 DEF WillWake
    <3> QED  BY <3>1, <3>2, <3>3, <1>1 DEF Remembered
  <2> QED  BY <2>8, <2>9, <2>10, <2>11, <2>13, <2>14, <2>15, <2>16, <2>17, ForestKept, LiveKept, TruthKept, SurvivingKept
<1> QED  BY <1>3, <1>4 DEF Turn

\* The tasks of ts become ready.
LEMMA QueuedIs ==
  ASSUME TypeOK, NEW ts
  PROVE  /\ Queued(ts) \in [Tasks -> TaskType]
         /\ \A u \in Tasks :
              /\ Queued(ts)[u].st = IF u \in ts THEN "queued" ELSE task[u].st
              /\ Queued(ts)[u].at = task[u].at
              /\ Queued(ts)[u].waitsFor = task[u].waitsFor /\ Queued(ts)[u].joined = task[u].joined
BY DEF Queued, TypeOK, TaskType, TaskStates

\* A worker empties its inbox and runs the hooks of the kicked.
LEMMA ProcessStep ==
  ASSUME IInv, NEW w \in Workers, ProcessInboxAndKicks(w)
  PROVE  IInv'
<1> USE DEF IInv
<1> DEFINE ts == inbox[w] \cup Kicked(w)
<1>1. UNCHANGED <<node, shared, cur, up, drainvars, stopper, prog>> /\ loop[w] = "inbox"
  BY DEF ProcessInboxAndKicks
<1>2. /\ loop' \in [Workers -> Busy \cup {"top", "adopt", "inbox", "drain", "release", "gone"}]
      /\ loop'[w] = IF draining THEN "drain" ELSE "top"
      /\ \A v \in Workers : v # w => loop'[v] = loop[v]
  BY LoopOf DEF ProcessInboxAndKicks
<1>3. \A v \in Workers : loop'[v] = loop[v] \/ (loop[v] \notin Busy /\ loop'[v] \notin Busy)
  BY <1>1, <1>2 DEF Busy
<1>4. SameNodes
  BY <1>1 DEF SameNodes
<1>5. \A u \in ts : u \in Tasks /\ task[u].at = w /\ task[u].st \in {"inbox", "sleep"}
  BY DEF Placed, Kicked, TypeOK
<1>6. \A u \in ts, v \in Workers : cur[v] # u
  BY <1>1, <1>5 DEF InHand, Busy
<1>7. /\ task' \in [Tasks -> TaskType]
      /\ \A u \in Tasks :
           /\ task'[u].st = IF u \in ts THEN "queued" ELSE task[u].st
           /\ task'[u].at = task[u].at
           /\ task'[u].waitsFor = task[u].waitsFor /\ task'[u].joined = task[u].joined
  BY QueuedIs DEF ProcessInboxAndKicks
<1>8. q' \in [Workers -> SUBSET Tasks] /\ \A v \in Workers : \A u \in q'[v] : u \in q[v] \/ (u \in ts /\ v = w)
  <2>1. q' = [q EXCEPT ![w] = @ \cup ts]
    BY DEF ProcessInboxAndKicks
  <2> HIDE DEF ts
  <2> QED  BY <2>1, <1>5 DEF TypeOK
<1>9. inbox' \in [Workers -> SUBSET Tasks] /\ inbox'[w] = {} /\ \A v \in Workers : v # w => inbox'[v] = inbox[v]
  BY DEF ProcessInboxAndKicks, TypeOK
<1>10. kicks' \in [Workers -> SUBSET Tasks] /\ kicks'[w] = {} /\ \A v \in Workers : v # w => kicks'[v] = kicks[v]
  BY DEF ProcessInboxAndKicks, TypeOK
<1> HIDE DEF ts
<1>11. QueueMoves
  BY <1>1, <1>3, <1>4, <1>5, <1>6, <1>7 DEF QueueMoves
<1>12. TypeOK'
  BY <1>1, <1>2, <1>7, <1>8, <1>9, <1>10 DEF TypeOK, drainvars
<1>13. Placed'
  <2> SUFFICES ASSUME NEW u \in Tasks
               PROVE  /\ task'[u].st \in {"none", "shared", "done"} => task'[u].at = None
                      /\ u \in shared' => task'[u].st = "shared"
                      /\ \A v \in Workers :
                           /\ u \in q'[v] => task'[u].st = "queued" /\ task'[u].at = v
                           /\ u \in inbox'[v] => task'[u].st = "inbox" /\ task'[u].at = v
                           /\ u \in kicks'[v] => task'[u].at = v \/ task'[u].st = "done"
    BY DEF Placed
  <2>1. u \in ts => u \notin shared /\ task[u].at = w /\ task[u].st \in {"inbox", "sleep"}
    BY <1>5 DEF Placed
  <2> QED  BY <2>1, <1>1, <1>7, <1>8, <1>9, <1>10 DEF Placed
<1>14. Surviving'
  <2>1. SameTree /\ StatusKept
    BY <1>11, QueueMovesStep
  <2>2. Unregistered' \subseteq Unregistered
    BY <2>1, <1>1, <1>2 DEF Unregistered, SameTree, StatusKept, drainvars, Nodes
  <2>3. survivors' >= Cardinality(Unregistered')
    BY <2>2, <1>1, FewerUnregistered DEF drainvars
  <2>4. \A v \in Workers : loop'[v] = "gone" => reg'[v] = {}
    BY <1>1, <1>2 DEF Surviving, drainvars
  <2>5. loop'[0] \in {"release", "gone"} => ext' \subseteq late'
    BY <1>1, <1>2, RuntimeAssumption DEF Surviving, drainvars
  <2> QED  BY <2>3, <2>4, <2>5 DEF Surviving
<1> QED  BY <1>11, <1>12, <1>13, <1>14, QueueMovesStep

(***************************************************************************)
(* The drain                                                               *)
(***************************************************************************)

\* A worker cancels the tasks of its registry.
LEMMA DrainCancelStep ==
  ASSUME IInv, NEW w \in Workers, DrainCancel(w)
  PROVE  IInv'
<1> USE DEF IInv
<1>1. UNCHANGED <<task, q, inbox, shared, loop, cur, up, reg, ext, idle, draining, stopped, survivors, late, stopper, prog>>
  BY DEF DrainCancel
<1>2. /\ node' \in [Nodes -> NodeType] /\ SameNodes
      /\ kicks' \in [Workers -> SUBSET Tasks]
      /\ \A v \in Workers : \A u \in kicks'[v] : u \in kicks[v] \/ task[u].at = v
  BY RequestedIs DEF DrainCancel
<1>3. QueueMoves
  BY <1>1, <1>2 DEF QueueMoves
<1>4. TypeOK'
  BY <1>1, <1>2 DEF TypeOK
<1>5. Placed'
  BY <1>1, <1>2 DEF Placed
<1>6. SameDrain
  BY <1>1 DEF SameDrain
<1> QED  BY <1>3, <1>4, <1>5, <1>6, QueueMovesStep, SurvivingKept

\* A worker sweeps its registry; worker 0 may stop all.
LEMMA DrainStepStep ==
  ASSUME IInv, NEW w \in Workers, DrainStep(w)
  PROVE  IInv'
<1> USE DEF IInv
<1>1. UNCHANGED <<task, node, queues, cur, up, draining, survivors, late, stopper, prog>> /\ loop[w] = "drain"
  BY DEF DrainStep
<1>2. /\ loop' \in [Workers -> Busy \cup {"top", "adopt", "inbox", "drain", "release", "gone"}]
      /\ loop'[w] = "top" /\ \A v \in Workers : v # w => loop'[v] = loop[v]
  BY LoopOf DEF DrainStep
<1>3. \A v \in Workers : loop'[v] = loop[v] \/ (loop[v] \notin Busy /\ loop'[v] \notin Busy)
  BY <1>1, <1>2 DEF Busy
<1>4. SameNodes
  BY <1>1 DEF SameNodes
<1>5. QueueMoves
  BY <1>1, <1>3, <1>4 DEF QueueMoves
<1>6. Swept(w) \subseteq Tasks
  BY DEF Swept, TypeOK
<1>7. reg' \in [Workers -> SUBSET Tasks] /\ reg'[w] = Swept(w) /\ \A v \in Workers : v # w => reg'[v] = reg[v]
  BY <1>6 DEF DrainStep, TypeOK
<1>8. ext' = TakenExt(w) /\ ext' \subseteq ext
  BY DEF DrainStep, TakenExt
<1>9. stopped' \in {Workers, stopped} /\ idle' \in [Workers -> BOOLEAN]
  BY DEF DrainStep, TypeOK
<1>10. TypeOK'
  BY <1>1, <1>2, <1>7, <1>8, <1>9 DEF TypeOK, queues
<1>11. Placed'
  BY <1>1 DEF Placed, queues
<1>12. Unregistered' \subseteq Unregistered
  <2> SUFFICES ASSUME NEW t \in Unregistered'  PROVE t \in Unregistered
    OBVIOUS
  <2>1. /\ t \in Tasks \ late /\ task[t].st # "none" /\ ~node[t].status
        /\ t \notin ext' /\ \A v \in Workers : loop'[v] # "release" => t \notin reg'[v]
    BY <1>1 DEF Unregistered
  <2>2. t \notin reg[w] /\ (w = 0 => t \notin ext)
    BY <2>1, <1>2, <1>7 DEF Swept, Done
  <2>3. t \notin ext
    BY <2>1, <2>2, <1>8 DEF TakenExt
  <2>4. \A v \in Workers : loop[v] # "release" => t \notin reg[v]
    BY <2>1, <2>2, <1>2, <1>7
  <2> QED  BY <2>1, <2>3, <2>4 DEF Unregistered
<1>13. Surviving'
  <2>1. survivors' >= Cardinality(Unregistered')
    BY <1>1, <1>12, FewerUnregistered
  <2>2. \A v \in Workers : loop'[v] = "gone" => reg'[v] = {}
    BY <1>2, <1>7 DEF Surviving
  <2>3. loop'[0] \in {"release", "gone"} => ext' \subseteq late'
    BY <1>1, <1>2, <1>8, RuntimeAssumption DEF Surviving
  <2> QED  BY <2>1, <2>2, <2>3 DEF Surviving
<1> QED  BY <1>5, <1>10, <1>11, <1>13, QueueMovesStep

\* A worker that leaves counts what is left in its registry.
LEMMA ExitSweepStep ==
  ASSUME IInv, NEW w \in Workers, ExitSweep(w)
  PROVE  IInv'
<1> USE DEF IInv
<1>1. UNCHANGED <<task, node, queues, cur, up, idle, stopped, late, prog>> /\ loop[w] = "top"
  BY DEF ExitSweep
<1>2. /\ loop' \in [Workers -> Busy \cup {"top", "adopt", "inbox", "drain", "release", "gone"}]
      /\ loop'[w] = "release" /\ \A v \in Workers : v # w => loop'[v] = loop[v]
  BY LoopOf DEF ExitSweep
<1>3. \A v \in Workers : loop'[v] = loop[v] \/ (loop[v] \notin Busy /\ loop'[v] \notin Busy)
  BY <1>1, <1>2 DEF Busy
<1>4. SameNodes
  BY <1>1 DEF SameNodes
<1>5. QueueMoves
  BY <1>1, <1>3, <1>4 DEF QueueMoves
<1>6. Swept(w) \subseteq Tasks /\ IsFiniteSet(Swept(w))
  BY FiniteAssumption, FS_Subset DEF Swept, TypeOK
<1>7. reg' \in [Workers -> SUBSET Tasks] /\ \A v \in Workers : v # w => reg'[v] = reg[v]
  BY <1>6 DEF ExitSweep, TypeOK
<1>8. ext' = TakenExt(w) /\ ext' \subseteq ext
  BY DEF ExitSweep, TakenExt
<1>9. Cardinality(Swept(w)) \in Nat /\ survivors' = survivors + Cardinality(Swept(w)) /\ survivors' \in Nat
  <2>1. Cardinality(Swept(w)) \in Nat
    BY <1>6, FS_CardinalityType
  <2> QED  BY <2>1 DEF ExitSweep, TypeOK
<1>10. TypeOK'
  BY <1>1, <1>2, <1>7, <1>8, <1>9 DEF TypeOK, queues
<1>11. Placed'
  BY <1>1 DEF Placed, queues
<1>12. Unregistered' \subseteq Unregistered \cup Swept(w)
  <2> SUFFICES ASSUME NEW t \in Unregistered', t \notin Swept(w)  PROVE t \in Unregistered
    OBVIOUS
  <2>1. /\ t \in Tasks \ late /\ task[t].st # "none" /\ ~node[t].status
        /\ t \notin ext' /\ \A v \in Workers : loop'[v] # "release" => t \notin reg'[v]
    BY <1>1 DEF Unregistered
  <2>2. t \notin reg[w] /\ (w = 0 => t \notin ext)
    BY <2>1 DEF Swept, Done
  <2>3. t \notin ext
    BY <2>1, <2>2, <1>8 DEF TakenExt
  <2>4. \A v \in Workers : loop[v] # "release" => t \notin reg[v]
    BY <2>1, <2>2, <1>2, <1>7
  <2> QED  BY <2>1, <2>3, <2>4 DEF Unregistered
<1>13. Surviving'
  <2>1. survivors' >= Cardinality(Unregistered')
    <3>1. IsFiniteSet(Unregistered)
      BY FiniteAssumption, FS_Subset DEF Unregistered
    <3>2. /\ IsFiniteSet(Unregistered \cup Swept(w)) /\ IsFiniteSet(Unregistered \cap Swept(w))
          /\ Cardinality(Unregistered \cup Swept(w)) =
               Cardinality(Unregistered) + Cardinality(Swept(w)) - Cardinality(Unregistered \cap Swept(w))
      BY <3>1, <1>6, FS_Union, FS_Intersection
    <3>3. IsFiniteSet(Unregistered') /\ Cardinality(Unregistered') <= Cardinality(Unregistered \cup Swept(w))
      BY <3>2, <1>12, FS_Subset
    <3>4. /\ Cardinality(Unregistered) \in Nat /\ Cardinality(Unregistered \cap Swept(w)) \in Nat
          /\ Cardinality(Unregistered') \in Nat
      BY <3>1, <3>2, <3>3, FS_CardinalityType
    <3>5. survivors >= Cardinality(Unregistered) /\ survivors \in Nat
      BY DEF Surviving, TypeOK
    <3> QED  BY <3>2, <3>3, <3>4, <3>5, <1>9
  <2>2. \A v \in Workers : loop'[v] = "gone" => reg'[v] = {}
    BY <1>2, <1>7 DEF Surviving
  <2>3. ASSUME loop'[0] \in {"release", "gone"}  PROVE ext' \subseteq late'
    <3>1. CASE w = 0
      BY <3>1, <1>8 DEF TakenExt
    <3>2. CASE w # 0
      BY <3>2, <2>3, <1>1, <1>2, <1>8, RuntimeAssumption DEF Surviving
    <3> QED  BY <3>1, <3>2
  <2> QED  BY <2>1, <2>2, <2>3 DEF Surviving
<1> QED  BY <1>5, <1>10, <1>11, <1>13, QueueMovesStep

\* Then it lets its registry go, and runs the last kicks.
LEMMA ExitReleaseStep ==
  ASSUME IInv, NEW w \in Workers, ExitRelease(w)
  PROVE  IInv'
<1> USE DEF IInv
<1> DEFINE ts == Kicked(w)
<1>1. UNCHANGED <<node, inbox, shared, cur, up, idle, stopped, survivors, late, prog>> /\ loop[w] = "release"
  BY DEF ExitRelease
<1>2. /\ loop' \in [Workers -> Busy \cup {"top", "adopt", "inbox", "drain", "release", "gone"}]
      /\ loop'[w] = "gone" /\ \A v \in Workers : v # w => loop'[v] = loop[v]
  BY LoopOf DEF ExitRelease
<1>3. \A v \in Workers : loop'[v] = loop[v] \/ (loop[v] \notin Busy /\ loop'[v] \notin Busy)
  BY <1>1, <1>2 DEF Busy
<1>4. SameNodes
  BY <1>1 DEF SameNodes
<1>5. \A u \in ts : u \in Tasks /\ task[u].at = w /\ task[u].st = "sleep"
  BY DEF Placed, Kicked, TypeOK
<1>6. \A u \in ts, v \in Workers : cur[v] # u
  BY <1>5 DEF InHand
<1>7. /\ task' \in [Tasks -> TaskType]
      /\ \A u \in Tasks :
           /\ task'[u].st = IF u \in ts THEN "queued" ELSE task[u].st
           /\ task'[u].at = task[u].at
           /\ task'[u].waitsFor = task[u].waitsFor /\ task'[u].joined = task[u].joined
  BY QueuedIs DEF ExitRelease
<1>8. q' \in [Workers -> SUBSET Tasks] /\ \A v \in Workers : \A u \in q'[v] : u \in q[v] \/ (u \in ts /\ v = w)
  <2>1. q' = [q EXCEPT ![w] = @ \cup ts]
    BY DEF ExitRelease
  <2> HIDE DEF ts
  <2> QED  BY <2>1, <1>5 DEF TypeOK
<1>9. kicks' \in [Workers -> SUBSET Tasks] /\ \A v \in Workers : kicks'[v] \subseteq kicks[v]
  BY DEF ExitRelease, TypeOK
<1>10. reg' \in [Workers -> SUBSET Tasks] /\ reg'[w] = {} /\ \A v \in Workers : v # w => reg'[v] = reg[v]
  BY DEF ExitRelease, TypeOK
<1>11. ext' = TakenExt(w) /\ ext' \subseteq ext
  BY DEF ExitRelease, TakenExt
<1> HIDE DEF ts
<1>12. QueueMoves
  BY <1>1, <1>3, <1>4, <1>5, <1>6, <1>7 DEF QueueMoves
<1>13. TypeOK'
  BY <1>1, <1>2, <1>7, <1>8, <1>9, <1>10, <1>11 DEF TypeOK
<1>14. Placed'
  <2> SUFFICES ASSUME NEW u \in Tasks
               PROVE  /\ task'[u].st \in {"none", "shared", "done"} => task'[u].at = None
                      /\ u \in shared' => task'[u].st = "shared"
                      /\ \A v \in Workers :
                           /\ u \in q'[v] => task'[u].st = "queued" /\ task'[u].at = v
                           /\ u \in inbox'[v] => task'[u].st = "inbox" /\ task'[u].at = v
                           /\ u \in kicks'[v] => task'[u].at = v \/ task'[u].st = "done"
    BY DEF Placed
  <2>1. u \in ts => u \notin shared /\ task[u].at = w /\ task[u].st = "sleep" /\ \A v \in Workers : u \notin inbox[v]
    BY <1>5 DEF Placed
  <2> QED  BY <2>1, <1>1, <1>7, <1>8, <1>9 DEF Placed
<1>15. Unregistered' \subseteq Unregistered
  <2> SUFFICES ASSUME NEW t \in Unregistered'  PROVE t \in Unregistered
    OBVIOUS
  <2>1. /\ t \in Tasks \ late /\ task'[t].st # "none" /\ ~node[t].status
        /\ t \notin ext' /\ \A v \in Workers : loop'[v] # "release" => t \notin reg'[v]
    BY <1>1 DEF Unregistered
  <2>2. task[t].st # "none"
    BY <2>1, <1>5, <1>7
  <2>3. t \notin ext
    BY <2>1, <1>1, <1>11, RuntimeAssumption DEF TakenExt, Surviving
  <2>4. \A v \in Workers : loop[v] # "release" => t \notin reg[v]
    BY <2>1, <1>1, <1>2, <1>10
  <2> QED  BY <2>1, <2>2, <2>3, <2>4 DEF Unregistered
<1>16. Surviving'
  <2>1. survivors' >= Cardinality(Unregistered')
    BY <1>1, <1>15, FewerUnregistered
  <2>2. \A v \in Workers : loop'[v] = "gone" => reg'[v] = {}
    BY <1>2, <1>10 DEF Surviving
  <2>3. loop'[0] \in {"release", "gone"} => ext' \subseteq late'
    BY <1>1, <1>2, <1>11, RuntimeAssumption DEF Surviving
  <2> QED  BY <2>1, <2>2, <2>3 DEF Surviving
<1> QED  BY <1>12, <1>13, <1>14, <1>16, QueueMovesStep

\* stop(), its deadline and the clock.
LEMMA StopStep ==
  ASSUME IInv, StopDraining \/ StopDeadline \/ StopAgain \/ DeadlinePasses
  PROVE  IInv'
<1> USE DEF IInv
<1>1. UNCHANGED <<task, node, queues, loop, cur, up, reg, ext, idle, survivors, late, prog>>
  BY DEF StopDraining, StopDeadline, StopAgain, DeadlinePasses
<1>2. stopped' \in {stopped, Workers}
  BY DEF StopDraining, StopDeadline, StopAgain, DeadlinePasses
<1>3. SameNodes
  BY <1>1 DEF SameNodes
<1>4. QueueMoves
  BY <1>1, <1>3 DEF QueueMoves
<1>5. TypeOK'
  BY <1>1, <1>2 DEF TypeOK, queues
<1>6. Placed'
  BY <1>1 DEF Placed, queues
<1>7. Surviving'
  <2>1. Unregistered' = Unregistered
    BY <1>1 DEF Unregistered
  <2> QED  BY <2>1, <1>1 DEF Surviving
<1> QED  BY <1>4, <1>5, <1>6, <1>7, QueueMovesStep

(***************************************************************************)
(* Joins                                                                   *)
(***************************************************************************)

\* The joiner enters the list.
LEMMA JoinPushStep ==
  ASSUME IInv, NEW w \in Workers, NEW t \in Tasks, JoinPush(w, t)
  PROVE  IInv'
<1> USE DEF IInv
<1>1. loop[w] = "push" /\ cur[w] = t /\ task[t].st = "run" /\ task[t].at = w /\ task[t].waitsFor # None
  BY DEF JoinPush, InHand
<1>2. PICK n \in Nodes : task[t].waitsFor = n
  BY <1>1, Types
<1>3. UNCHANGED <<task, queues, cur, up, drainvars, stopper, prog>>
  BY DEF JoinPush
<1>4. /\ loop' \in [Workers -> Busy \cup {"top", "adopt", "inbox", "drain", "release", "gone"}]
      /\ loop'[w] = "recheck" /\ \A v \in Workers : v # w => loop'[v] = loop[v]
  BY LoopOf DEF JoinPush, Busy
<1>5. /\ node' \in [Nodes -> NodeType]
      /\ node'[n].waiters = node[n].waiters \cup {t}
      /\ \A m \in Nodes : /\ m # n => node'[m].waiters = node[m].waiters
                          /\ node'[m].parent = node[m].parent /\ node'[m].live = node[m].live
                          /\ node'[m].status = node[m].status
  BY <1>2 DEF JoinPush, TypeOK, NodeType
<1>6. \A v \in Workers : v # w => cur[v] # t
  BY <1>1 DEF InHand
<1>7. TypeOK'
  BY <1>3, <1>4, <1>5 DEF TypeOK, queues, drainvars
<1>8. SameTree /\ StatusKept /\ NoNewJoin
  BY <1>3, <1>5 DEF SameTree, StatusKept, NoNewJoin
<1>9. SameLive /\ SameDrain
  <2>1. loop[w] \notin Dropping /\ loop'[w] \notin Dropping
    BY <1>1, <1>4 DEF Dropping
  <2> QED  BY <2>1, <1>3, <1>4, <1>5 DEF SameLive, SameDrain, drainvars
<1>10. \A m \in Nodes : Chain(m)' = Chain(m)
  BY <1>8, ChainsKept
<1>11. Placed'
  BY <1>3 DEF Placed, queues
<1>12. InHand'
  <2> SUFFICES ASSUME NEW v \in Workers, NEW u \in Tasks, cur[v] = u
               PROVE  /\ loop'[v] \in Busy
                      /\ task[u].at = v
                      /\ task[u].st = "run" \/ (task[u].st = "inbox" /\ loop'[v] = "recheck")
                      /\ loop'[v] \in {"wake"} \cup Dropping => node'[u].status
                      /\ loop'[v] \in Dropping => up[v] \in Chain(u)'
                      /\ loop'[v] = "push" => task[u].waitsFor # None
                      /\ loop'[v] = "recheck" /\ task[u].st = "run" =>
                           task[u].waitsFor # None /\ u \in node'[task[u].waitsFor].waiters
    BY <1>3 DEF InHand
  <2>1. CASE v = w
    BY <2>1, <1>1, <1>2, <1>4, <1>5 DEF Busy, Dropping
  <2>2. CASE v # w
    <3>1. loop'[v] = loop[v] /\ Chain(u)' = Chain(u) /\ node'[u].status = node[u].status
      BY <2>2, <1>4, <1>5, <1>10, Types
    <3>2. task[u].waitsFor # None /\ u \in node[task[u].waitsFor].waiters => u \in node'[task[u].waitsFor].waiters
      BY <1>5, Types
    <3> QED  BY <3>1, <3>2 DEF InHand
  <2> QED  BY <2>1, <2>2
<1>13. Listed'
  <2> SUFFICES ASSUME NEW u \in Tasks, NEW m \in Nodes, u \in node'[m].waiters
               PROVE  /\ task[u].waitsFor = m
                      /\ \/ task[u].st = "join"
                         \/ task[u].st = "run" /\ \E v \in Workers : cur[v] = u /\ loop'[v] = "recheck"
    BY <1>3 DEF Listed, Nodes
  <2>1. CASE u = t /\ m = n
    BY <2>1, <1>1, <1>2, <1>4
  <2>2. CASE u \in node[m].waiters
    BY <2>2, <1>1, <1>4 DEF Listed
  <2> QED  BY <2>1, <2>2, <1>5
<1>14. Completed'
  <2> SUFFICES ASSUME NEW u \in Tasks
               PROVE  /\ task[u].st = "done" => node'[u].status
                      /\ node'[u].status =>
                           \/ task[u].st = "done"
                           \/ \E v \in Workers : cur[v] = u /\ loop'[v] \in {"wake"} \cup Dropping
    BY <1>3 DEF Completed
  <2>1. node'[u].status = node[u].status
    BY <1>5, Types
  <2>2. \A v \in Workers : loop[v] \in {"wake"} \cup Dropping => loop'[v] = loop[v]
    BY <1>1, <1>4 DEF Dropping
  <2> QED  BY <2>1, <2>2 DEF Completed
<1>15. Remembered'
  <2> SUFFICES ASSUME NEW u \in Tasks, task[u].st = "join"
               PROVE  /\ task[u].waitsFor # None
                      /\ \A m \in Nodes : task[u].waitsFor = m => u \in node'[m].waiters /\ (Over(m)' => WillWake(m)')
    BY <1>3 DEF Remembered, Nodes
  <2>1. \A m \in Nodes : node[m].waiters \subseteq node'[m].waiters /\ (Over(m)' <=> Over(m))
    BY <1>5 DEF Over
  <2>2. ASSUME NEW m \in Nodes, WillWake(m)  PROVE WillWake(m)'
    BY <2>2, <1>1, <1>3, <1>4 DEF WillWake
  <2> QED  BY <2>1, <2>2 DEF Remembered
<1> QED  BY <1>7, <1>8, <1>9, <1>11, <1>12, <1>13, <1>14, <1>15, ForestKept, LiveKept, TruthKept, SurvivingKept

\* The joiner looks again: it leaves the list, or is suspended.
LEMMA RecheckStep ==
  ASSUME IInv, NEW w \in Workers, NEW t \in Tasks, Recheck(w, t)
  PROVE  IInv'
<1> USE DEF IInv
<1>1. loop[w] = "recheck" /\ cur[w] = t /\ task[t].st \in {"run", "inbox"} /\ task[t].at = w
  BY DEF Recheck, InHand
<1>2. PICK n \in Nodes \cup {None} : task[t].waitsFor = n
  BY Types
<1>3. UNCHANGED <<queues, up, drainvars, stopper, prog>>
  BY DEF Recheck
<1>4. \A v \in Workers : v # w => cur[v] # t
  BY <1>1 DEF InHand
<1>5. CASE n # None /\ Over(n) /\ t \in node[n].waiters
  <2>1. n \in Nodes /\ task[t].st = "run"
    BY <1>1, <1>2, <1>5 DEF Listed
  <2>2. cur' = cur /\ Loop(w, "task")
    BY <1>2, <1>5 DEF Recheck
  <2>3. /\ loop' \in [Workers -> Busy \cup {"top", "adopt", "inbox", "drain", "release", "gone"}]
        /\ loop'[w] = "task" /\ \A v \in Workers : v # w => loop'[v] = loop[v]
    BY <2>2, LoopOf DEF Busy
  <2>4. /\ node' \in [Nodes -> NodeType]
        /\ node'[n].waiters = node[n].waiters \ {t}
        /\ \A m \in Nodes : /\ m # n => node'[m].waiters = node[m].waiters
                            /\ node'[m].parent = node[m].parent /\ node'[m].live = node[m].live
                            /\ node'[m].status = node[m].status
    <3>1. node' = [node EXCEPT ![n].waiters = @ \ {t}]
      BY <1>2, <1>5 DEF Recheck
    <3> QED  BY <3>1, <2>1 DEF TypeOK, NodeType
  <2>5. /\ task' \in [Tasks -> TaskType] /\ \A u \in Tasks : u # t => task'[u] = task[u]
        /\ task'[t].st = "run" /\ task'[t].at = w /\ task'[t].waitsFor = None /\ task'[t].joined = n
    <3>1. task' = [task EXCEPT ![t].waitsFor = None, ![t].joined = n]
      BY <1>2, <1>5 DEF Recheck
    <3>2. PICK r : r = [task[t] EXCEPT !.waitsFor = None, !.joined = n]
      OBVIOUS
    <3>3. task' = [task EXCEPT ![t] = r]
      BY <3>1, <3>2 DEF TypeOK, TaskType
    <3>4. task[t] \in TaskType
      BY DEF TypeOK
    <3>5. r \in TaskType /\ r.st = task[t].st /\ r.at = task[t].at /\ r.waitsFor = None /\ r.joined = n
      BY <3>2, <3>4, <2>1 DEF TaskType
    <3>6. task' \in [Tasks -> TaskType] /\ task'[t] = r /\ \A u \in Tasks : u # t => task'[u] = task[u]
      BY <3>3, <3>5 DEF TypeOK
    <3> QED  BY <3>5, <3>6, <2>1, <1>1
  <2>6. TypeOK'
    BY <1>3, <2>2, <2>3, <2>4, <2>5 DEF TypeOK, queues, drainvars
  <2>7. SameTree /\ StatusKept
    BY <2>1, <2>4, <2>5 DEF SameTree, StatusKept
  <2>8. GoodJoins
    <3>1. Told(t, n)
      BY <1>2, <1>5, <2>1, OverIsTold DEF Truthful
    <3> QED  BY <3>1, <2>1, <2>5 DEF GoodJoins
  <2>9. SameLive /\ SameDrain
    <3>1. loop[w] \notin Dropping /\ loop'[w] \notin Dropping
      BY <1>1, <2>3 DEF Dropping
    <3> QED  BY <3>1, <1>3, <2>1, <2>2, <2>3, <2>4, <2>5 DEF SameLive, SameDrain, drainvars
  <2>10. \A m \in Nodes : Chain(m)' = Chain(m)
    BY <2>7, ChainsKept
  <2>11. Placed'
    BY <1>3, <1>1, <2>1, <2>5 DEF Placed, queues
  <2>12. InHand'
    <3> SUFFICES ASSUME NEW v \in Workers, NEW u \in Tasks, cur[v] = u
                 PROVE  /\ loop'[v] \in Busy
                        /\ task'[u].at = v
                        /\ task'[u].st = "run" \/ (task'[u].st = "inbox" /\ loop'[v] = "recheck")
                        /\ loop'[v] \in {"wake"} \cup Dropping => node'[u].status
                        /\ loop'[v] \in Dropping => up[v] \in Chain(u)'
                        /\ loop'[v] = "push" => task'[u].waitsFor # None
                        /\ loop'[v] = "recheck" /\ task'[u].st = "run" =>
                             task'[u].waitsFor # None /\ u \in node'[task'[u].waitsFor].waiters
      BY <1>3, <2>2 DEF InHand
    <3>1. CASE v = w
      BY <3>1, <1>1, <2>3, <2>5 DEF Busy, Dropping
    <3>2. CASE v # w
      <4>1. u # t /\ task'[u] = task[u] /\ loop'[v] = loop[v] /\ Chain(u)' = Chain(u) /\ node'[u].status = node[u].status
        BY <3>2, <1>4, <2>3, <2>4, <2>5, <2>10, Types
      <4>2. task[u].waitsFor # None /\ u \in node[task[u].waitsFor].waiters => u \in node'[task[u].waitsFor].waiters
        BY <4>1, <2>4, Types
      <4> QED  BY <4>1, <4>2 DEF InHand
    <3> QED  BY <3>1, <3>2
  <2>13. Listed'
    <3> SUFFICES ASSUME NEW u \in Tasks, NEW m \in Nodes, u \in node'[m].waiters
                 PROVE  /\ task'[u].waitsFor = m
                        /\ \/ task'[u].st = "join"
                           \/ task'[u].st = "run" /\ \E v \in Workers : cur'[v] = u /\ loop'[v] = "recheck"
      BY DEF Listed, Nodes
    <3>1. u \in node[m].waiters /\ u # t
      BY <1>2, <2>4 DEF Listed
    <3> QED  BY <3>1, <1>1, <2>2, <2>3, <2>5 DEF Listed
  <2>14. Completed'
    <3> SUFFICES ASSUME NEW u \in Tasks
                 PROVE  /\ task'[u].st = "done" => node'[u].status
                        /\ node'[u].status =>
                             \/ task'[u].st = "done"
                             \/ \E v \in Workers : cur[v] = u /\ loop'[v] \in {"wake"} \cup Dropping
      BY <2>2 DEF Completed
    <3>1. node'[u].status = node[u].status /\ (task'[u].st = "done" <=> task[u].st = "done")
      BY <2>4, <2>9, Types DEF SameLive
    <3>2. \A v \in Workers : loop[v] \in {"wake"} \cup Dropping => loop'[v] = loop[v]
      BY <1>1, <2>3 DEF Dropping
    <3> QED  BY <3>1, <3>2 DEF Completed
  <2>15. Remembered'
    <3> SUFFICES ASSUME NEW u \in Tasks, task'[u].st = "join"
                 PROVE  /\ task'[u].waitsFor # None
                        /\ \A m \in Nodes : task'[u].waitsFor = m => u \in node'[m].waiters /\ (Over(m)' => WillWake(m)')
      BY DEF Remembered, Nodes
    <3>1. u # t /\ task'[u] = task[u]
      BY <2>5
    <3>2. \A m \in Nodes : (u \in node[m].waiters => u \in node'[m].waiters) /\ (Over(m)' <=> Over(m))
      BY <3>1, <2>4 DEF Over
    <3>3. ASSUME NEW m \in Nodes, WillWake(m)  PROVE WillWake(m)'
      BY <3>3, <1>1, <1>3, <2>2, <2>3 DEF WillWake
    <3> QED  BY <3>1, <3>2, <3>3 DEF Remembered
  <2> QED  BY <2>6, <2>7, <2>8, <2>9, <2>11, <2>12, <2>13, <2>14, <2>15, ForestKept, LiveKept, TruthTold, SurvivingKept
<1>6. CASE ~(n # None /\ Over(n) /\ t \in node[n].waiters)
  <2>1. node' = node /\ Loop(w, "adopt") /\ cur' = [cur EXCEPT ![w] = None]
    BY <1>2, <1>6 DEF Recheck, Suspended
  <2>2. /\ LoopType'
        /\ loop'[w] = "adopt" /\ cur'[w] = None
        /\ \A v \in Workers : v # w => loop'[v] = loop[v] /\ cur'[v] = cur[v]
    BY <2>1, LoopOf, CurOf DEF LoopType
  <2>3. /\ task' \in [Tasks -> TaskType] /\ \A u \in Tasks : u # t => task'[u] = task[u]
        /\ task'[t].st = (IF task[t].st = "run" THEN "join" ELSE task[t].st) /\ task'[t].at = w
        /\ task'[t].waitsFor = task[t].waitsFor /\ task'[t].joined = task[t].joined
    <3>1. task' = [task EXCEPT ![t].st = IF @ = "run" THEN "join" ELSE @]
      BY <1>2, <1>6 DEF Recheck
    <3>2. task \in [Tasks -> TaskType]
      BY DEF TypeOK
    <3> QED  BY <3>1, <3>2, <1>1 DEF TaskType, TaskStates
  <2>4. task[t].st = "run" => n \in Nodes /\ t \in node[n].waiters /\ ~Over(n)
    BY <1>1, <1>2, <1>6, Types DEF InHand
  <2>5. TypeOK'
    BY <1>3, <2>1, <2>2, <2>3 DEF TypeOK, LoopType, queues, drainvars
  <2>6. SameTree /\ StatusKept /\ NoNewJoin
    BY <1>1, <2>1, <2>3 DEF SameTree, StatusKept, NoNewJoin
  <2>7. SameLive /\ SameDrain
    <3>1. loop[w] \notin Dropping /\ loop'[w] \notin Dropping
      BY <1>1, <2>2 DEF Dropping
    <3> QED  BY <3>1, <1>1, <1>3, <2>1, <2>2, <2>3 DEF SameLive, SameDrain, drainvars
  <2>8. \A m \in Nodes : Chain(m)' = Chain(m)
    BY <2>6, ChainsKept
  <2>9. Placed'
    BY <1>1, <1>3, <2>3 DEF Placed, queues
  <2>10. InHand'
    <3> SUFFICES ASSUME NEW v \in Workers, NEW u \in Tasks, cur'[v] = u
                 PROVE  /\ loop'[v] \in Busy
                        /\ task'[u].at = v
                        /\ task'[u].st = "run" \/ (task'[u].st = "inbox" /\ loop'[v] = "recheck")
                        /\ loop'[v] \in {"wake"} \cup Dropping => node[u].status
                        /\ loop'[v] \in Dropping => up[v] \in Chain(u)'
                        /\ loop'[v] = "push" => task'[u].waitsFor # None
                        /\ loop'[v] = "recheck" /\ task'[u].st = "run" =>
                             task'[u].waitsFor # None /\ u \in node[task'[u].waitsFor].waiters
      BY <1>3, <2>1 DEF InHand
    <3>1. v # w /\ cur[v] = u /\ u # t
      BY <1>4, <2>2, Types
    <3>2. task'[u] = task[u] /\ loop'[v] = loop[v] /\ Chain(u)' = Chain(u)
      BY <3>1, <2>2, <2>3, <2>8, Types
    <3> QED  BY <3>1, <3>2 DEF InHand
  <2>11. Listed'
    <3> SUFFICES ASSUME NEW u \in Tasks, NEW m \in Nodes, u \in node[m].waiters
                 PROVE  /\ task'[u].waitsFor = m
                        /\ \/ task'[u].st = "join"
                           \/ task'[u].st = "run" /\ \E v \in Workers : cur'[v] = u /\ loop'[v] = "recheck"
      BY <2>1 DEF Listed, Nodes
    <3>1. CASE u = t
      BY <3>1, <1>1, <2>3 DEF Listed
    <3>2. CASE u # t
      BY <3>2, <1>1, <2>2, <2>3 DEF Listed
    <3> QED  BY <3>1, <3>2
  <2>12. Completed'
    <3> SUFFICES ASSUME NEW u \in Tasks
                 PROVE  /\ task'[u].st = "done" => node[u].status
                        /\ node[u].status =>
                             \/ task'[u].st = "done"
                             \/ \E v \in Workers : cur'[v] = u /\ loop'[v] \in {"wake"} \cup Dropping
      BY <2>1 DEF Completed
    <3>1. task'[u].st = "done" <=> task[u].st = "done"
      BY <2>7 DEF SameLive
    <3>2. \A v \in Workers : loop[v] \in {"wake"} \cup Dropping => loop'[v] = loop[v] /\ cur'[v] = cur[v]
      BY <1>1, <2>2 DEF Dropping
    <3> QED  BY <3>1, <3>2 DEF Completed
  <2>13. Remembered'
    <3> SUFFICES ASSUME NEW u \in Tasks, task'[u].st = "join"
                 PROVE  /\ task'[u].waitsFor # None
                        /\ \A m \in Nodes : task'[u].waitsFor = m => u \in node'[m].waiters /\ (Over(m)' => WillWake(m)')
      BY DEF Remembered, Nodes
    <3>1. \A m \in Nodes : Over(m)' <=> Over(m)
      BY <2>1 DEF Over
    <3>2. ASSUME NEW m \in Nodes, WillWake(m)  PROVE WillWake(m)'
      BY <3>2, <1>1, <1>3, <2>2 DEF WillWake
    <3>3. CASE u = t
      BY <3>1, <3>3, <1>1, <1>2, <2>1, <2>3, <2>4, Types
    <3>4. CASE u # t
      BY <3>1, <3>2, <3>4, <2>1, <2>3 DEF Remembered
    <3> QED  BY <3>3, <3>4
  <2> QED  BY <2>5, <2>6, <2>7, <2>9, <2>10, <2>11, <2>12, <2>13, ForestKept, LiveKept, TruthKept, SurvivingKept
<1> QED  BY <1>5, <1>6

(***************************************************************************)
(* Completions                                                             *)
(***************************************************************************)

\* The status of the task in hand is set.
LEMMA CompleteStepKeeps ==
  ASSUME IInv, NEW w \in Workers, NEW t \in Tasks, Complete(w, t)
  PROVE  IInv'
<1> USE DEF IInv
<1>1. loop[w] \in {"final", "task"} /\ cur[w] = t /\ task[t].st = "run" /\ task[t].at = w
  BY DEF Complete, InHand
<1>2. UNCHANGED <<task, queues, cur, up, drainvars, stopper, prog>>
  BY DEF Complete
<1>3. /\ loop' \in [Workers -> Busy \cup {"top", "adopt", "inbox", "drain", "release", "gone"}]
      /\ loop'[w] = "wake" /\ \A v \in Workers : v # w => loop'[v] = loop[v]
  BY LoopOf DEF Complete, Busy
<1>4. /\ node' \in [Nodes -> NodeType]
      /\ node'[t].status
      /\ \A m \in Nodes : /\ m # t => node'[m].status = node[m].status
                          /\ node'[m].parent = node[m].parent /\ node'[m].live = node[m].live
                          /\ node'[m].waiters = node[m].waiters
  <2>1. PICK r : r = [node[t] EXCEPT !.status = TRUE]
    OBVIOUS
  <2>2. t \in Nodes /\ node[t] \in NodeType
    BY Types
  <2>3. node' = [node EXCEPT ![t] = r]
    BY <2>1, <2>2 DEF Complete, TypeOK, NodeType
  <2>4. /\ r \in NodeType /\ r.status /\ r.parent = node[t].parent /\ r.live = node[t].live
        /\ r.waiters = node[t].waiters
    BY <2>1, <2>2 DEF NodeType
  <2>5. node' \in [Nodes -> NodeType] /\ node'[t] = r /\ \A m \in Nodes : m # t => node'[m] = node[m]
    BY <2>2, <2>3, <2>4 DEF TypeOK
  <2> QED  BY <2>4, <2>5
<1>5. \A v \in Workers : v # w => cur[v] # t
  BY <1>1 DEF InHand
<1>6. TypeOK'
  BY <1>2, <1>3, <1>4 DEF TypeOK, queues, drainvars
<1>7. SameTree /\ StatusKept /\ NoNewJoin
  BY <1>2, <1>4 DEF SameTree, StatusKept, NoNewJoin
<1>8. SameLive /\ SameDrain
  <2>1. loop[w] \notin Dropping /\ loop'[w] \notin Dropping
    BY <1>1, <1>3 DEF Dropping
  <2> QED  BY <2>1, <1>2, <1>3, <1>4 DEF SameLive, SameDrain, drainvars
<1>9. \A m \in Nodes : Chain(m)' = Chain(m)
  BY <1>7, ChainsKept
<1>10. Placed'
  BY <1>2 DEF Placed, queues
<1>11. InHand'
  <2> SUFFICES ASSUME NEW v \in Workers, NEW u \in Tasks, cur[v] = u
               PROVE  /\ loop'[v] \in Busy
                      /\ task[u].at = v
                      /\ task[u].st = "run" \/ (task[u].st = "inbox" /\ loop'[v] = "recheck")
                      /\ loop'[v] \in {"wake"} \cup Dropping => node'[u].status
                      /\ loop'[v] \in Dropping => up[v] \in Chain(u)'
                      /\ loop'[v] = "push" => task[u].waitsFor # None
                      /\ loop'[v] = "recheck" /\ task[u].st = "run" =>
                           task[u].waitsFor # None /\ u \in node'[task[u].waitsFor].waiters
    BY <1>2 DEF InHand
  <2>1. CASE v = w
    BY <2>1, <1>1, <1>3, <1>4 DEF Busy, Dropping
  <2>2. CASE v # w
    <3>1. loop'[v] = loop[v] /\ Chain(u)' = Chain(u) /\ node'[u].status = node[u].status
      BY <2>2, <1>3, <1>4, <1>5, <1>9, Types
    <3>2. task[u].waitsFor # None => node'[task[u].waitsFor].waiters = node[task[u].waitsFor].waiters
      BY <1>4, Types
    <3> QED  BY <3>1, <3>2 DEF InHand
  <2> QED  BY <2>1, <2>2
<1>12. Listed'
  <2> SUFFICES ASSUME NEW u \in Tasks, NEW m \in Nodes, u \in node[m].waiters
               PROVE  /\ task[u].waitsFor = m
                      /\ \/ task[u].st = "join"
                         \/ task[u].st = "run" /\ \E v \in Workers : cur[v] = u /\ loop'[v] = "recheck"
    BY <1>2, <1>4 DEF Listed, Nodes
  <2> QED  BY <1>1, <1>3 DEF Listed
<1>13. Completed'
  <2> SUFFICES ASSUME NEW u \in Tasks
               PROVE  /\ task[u].st = "done" => node'[u].status
                      /\ node'[u].status =>
                           \/ task[u].st = "done"
                           \/ \E v \in Workers : cur[v] = u /\ loop'[v] \in {"wake"} \cup Dropping
    BY <1>2 DEF Completed
  <2>1. CASE u = t
    BY <2>1, <1>1, <1>3, <1>4
  <2>2. CASE u # t
    <3>1. node'[u].status = node[u].status
      BY <2>2, <1>4, Types
    <3>2. \A v \in Workers : loop[v] \in {"wake"} \cup Dropping => loop'[v] = loop[v]
      BY <1>1, <1>3 DEF Dropping
    <3> QED  BY <3>1, <3>2 DEF Completed
  <2> QED  BY <2>1, <2>2
<1>14. Remembered'
  <2> SUFFICES ASSUME NEW u \in Tasks, task[u].st = "join"
               PROVE  /\ task[u].waitsFor # None
                      /\ \A m \in Nodes : task[u].waitsFor = m => u \in node'[m].waiters /\ (Over(m)' => WillWake(m)')
    BY <1>2 DEF Remembered, Nodes
  <2>1. \A m \in Nodes : node'[m].waiters = node[m].waiters /\ (m # t => (Over(m)' <=> Over(m)))
    BY <1>4 DEF Over
  <2>2. ASSUME NEW m \in Nodes, WillWake(m)  PROVE WillWake(m)'
    BY <2>2, <1>1, <1>2, <1>3 DEF WillWake
  <2>3. WillWake(t)'
    BY <1>1, <1>2, <1>3 DEF WillWake
  <2> QED  BY <2>1, <2>2, <2>3 DEF Remembered
<1> QED  BY <1>6, <1>7, <1>8, <1>10, <1>11, <1>12, <1>13, <1>14, ForestKept, LiveKept, TruthKept, SurvivingKept

\* A task that is done.
DoneTask == [Idle EXCEPT !.st = "done"]

\* In its completion t fires the waiters ws of n, all or none, and goes on or ends.
FireMoves(w, t, n, ws) ==
  /\ loop[w] \in {"wake"} \cup Dropping /\ cur[w] = t
  /\ n \in Nodes /\ ws \in {{}, node[n].waiters}
  /\ \A m \in Nodes : /\ node'[m].parent = node[m].parent /\ node'[m].status = node[m].status
                      /\ node'[m].waiters = IF m = n THEN node[m].waiters \ ws ELSE node[m].waiters
  /\ \A u \in ws : /\ task'[u].st = "inbox" /\ task'[u].at = task[u].at
                   /\ task'[u].waitsFor = None /\ task'[u].joined = n
  /\ \A u \in Tasks \ ws : u # t => task'[u] = task[u]
  /\ \A v \in Workers : inbox'[v] = inbox[v] \cup {u \in ws : task[u].at = v}
  /\ q' = q /\ shared' = shared /\ kicks' = kicks
  /\ \A v \in Workers : v # w => loop'[v] = loop[v] /\ cur'[v] = cur[v] /\ up'[v] = up[v]
  /\ \/ cur'[w] = t /\ loop'[w] \in Dropping /\ up'[w] \in Chain(t) /\ task'[t] = task[t]
     \/ cur'[w] = None /\ loop'[w] = "adopt" /\ task'[t] = DoneTask
  /\ \A u \in ws : Told(u, n)

\* Such a step keeps all but what is said of the counters, of those that go on waiting
\* and of the drain.
LEMMA FireMovesStep ==
  ASSUME IInv, NEW w \in Workers, NEW t \in Tasks, NEW n \in Nodes, NEW ws, FireMoves(w, t, n, ws)
  PROVE  /\ SameTree /\ StatusKept /\ t \notin ws
         /\ \A u \in Tasks : task'[u].st = "join" => u \notin ws /\ task'[u] = task[u]
         /\ Placed' /\ InHand' /\ Listed' /\ Completed' /\ Forest' /\ Truthful'
<1> USE DEF IInv
<1>1. /\ loop[w] \in {"wake", "drop", "drained"} /\ cur[w] = t /\ task[t].st = "run" /\ task[t].at = w
      /\ node[t].status
  BY DEF FireMoves, Dropping, InHand
<1>2. \A v \in Workers : v # w => cur[v] # t
  BY <1>1 DEF InHand
<1>3. ws \subseteq Tasks /\ ws \subseteq node[n].waiters
  BY Types DEF FireMoves
<1>4. \A m \in Nodes : t \notin node[m].waiters
  BY <1>1, <1>2 DEF Listed
<1>5. t \notin ws
  BY <1>3, <1>4
<1>6. \A u \in ws : /\ task[u].waitsFor = n
                    /\ \/ task[u].st = "join"
                       \/ task[u].st = "run" /\ \E v \in Workers : cur[v] = u /\ loop[v] = "recheck"
  BY <1>3 DEF Listed
<1>7. DoneTask.st = "done" /\ DoneTask.at = None /\ DoneTask.joined = None /\ DoneTask.waitsFor = None
  BY DEF DoneTask, Idle
<1>8. task'[t].st \in {"run", "done"} /\ (task'[t].st = "run" => task'[t] = task[t])
  BY <1>1, <1>7 DEF FireMoves
<1>9. SameTree
  <2> SUFFICES ASSUME NEW u \in Tasks  PROVE task'[u].st = "none" <=> task[u].st = "none"
    BY DEF SameTree, FireMoves
  <2>1. CASE u \in ws
    BY <2>1, <1>6 DEF FireMoves
  <2>2. CASE u = t
    BY <2>2, <1>1, <1>8
  <2>3. CASE u \notin ws /\ u # t
    BY <2>3 DEF FireMoves
  <2> QED  BY <2>1, <2>2, <2>3
<1>10. StatusKept
  BY DEF StatusKept, FireMoves
<1>11. \A m \in Nodes : Chain(m)' = Chain(m)
  BY <1>9, ChainsKept
<1>12. \A u \in Tasks : task'[u].st = "join" => u \notin ws /\ task'[u] = task[u]
  BY <1>8 DEF FireMoves
<1>13. GoodJoins
  <2> SUFFICES ASSUME NEW u \in Tasks
               PROVE  /\ task'[u].joined \in {task[u].joined, None} \/ \E m \in Nodes : task'[u].joined = m /\ Told(u, m)
                      /\ task'[u].waitsFor \in {task[u].waitsFor, None}
    BY DEF GoodJoins
  <2>1. CASE u \in ws
    BY <2>1 DEF FireMoves
  <2>2. CASE u = t
    BY <2>2, <1>7 DEF FireMoves
  <2>3. CASE u \notin ws /\ u # t
    BY <2>3 DEF FireMoves
  <2> QED  BY <2>1, <2>2, <2>3
<1>14. Placed'
  <2> SUFFICES ASSUME NEW u \in Tasks
               PROVE  /\ task'[u].st \in {"none", "shared", "done"} => task'[u].at = None
                      /\ u \in shared' => task'[u].st = "shared"
                      /\ \A v \in Workers :
                           /\ u \in q'[v] => task'[u].st = "queued" /\ task'[u].at = v
                           /\ u \in inbox'[v] => task'[u].st = "inbox" /\ task'[u].at = v
                           /\ u \in kicks'[v] => task'[u].at = v \/ task'[u].st = "done"
    BY DEF Placed
  <2>1. CASE u \in ws
    <3>1. task[u].st \in {"join", "run"} /\ task'[u].st = "inbox" /\ task'[u].at = task[u].at
      BY <2>1, <1>6 DEF FireMoves
    <3>2. \A v \in Workers : u \notin inbox[v] /\ u \notin q[v] /\ u \notin shared
      BY <3>1 DEF Placed
    <3>3. \A v \in Workers : u \in inbox'[v] => task[u].at = v
      BY <3>2 DEF FireMoves
    <3> QED  BY <3>1, <3>2, <3>3 DEF FireMoves, Placed
  <2>2. CASE u = t
    <3>1. \A v \in Workers : t \notin inbox'[v]
      BY <1>1, <1>5 DEF FireMoves, Placed
    <3>2. \A v \in Workers : t \notin q[v] /\ t \notin shared
      BY <1>1 DEF Placed
    <3>3. task'[t].st = "done" => task'[t].at = None
      BY <1>1, <1>7 DEF FireMoves
    <3> QED  BY <2>2, <3>1, <3>2, <3>3, <1>1, <1>8 DEF FireMoves, Placed
  <2>3. CASE u \notin ws /\ u # t
    <3>1. task'[u] = task[u] /\ \A v \in Workers : u \in inbox'[v] => u \in inbox[v]
      BY <2>3 DEF FireMoves
    <3> QED  BY <3>1 DEF FireMoves, Placed
  <2> QED  BY <2>1, <2>2, <2>3
<1>15. InHand'
  <2> SUFFICES ASSUME NEW v \in Workers, NEW u \in Tasks, cur'[v] = u
               PROVE  /\ loop'[v] \in Busy
                      /\ task'[u].at = v
                      /\ task'[u].st = "run" \/ (task'[u].st = "inbox" /\ loop'[v] = "recheck")
                      /\ loop'[v] \in {"wake"} \cup Dropping => node'[u].status
                      /\ loop'[v] \in Dropping => up'[v] \in Chain(u)'
                      /\ loop'[v] = "push" => task'[u].waitsFor # None
                      /\ loop'[v] = "recheck" /\ task'[u].st = "run" =>
                           task'[u].waitsFor # None /\ u \in node'[task'[u].waitsFor].waiters
    BY DEF InHand
  <2>1. u \in Nodes /\ Chain(u)' = Chain(u) /\ node'[u].status = node[u].status
    BY <1>11, Types DEF FireMoves
  <2>2. CASE v = w
    <3>1. u = t /\ loop'[w] \in Dropping /\ up'[w] \in Chain(t) /\ task'[t] = task[t]
      BY <2>2, Types DEF FireMoves
    <3> QED  BY <2>1, <2>2, <3>1, <1>1 DEF Busy, Dropping
  <2>3. CASE v # w
    <3>1. cur[v] = u /\ u # t /\ loop'[v] = loop[v] /\ up'[v] = up[v]
      BY <2>3, <1>2 DEF FireMoves
    <3>2. CASE u \in ws
      <4>1. task'[u].st = "inbox" /\ task'[u].at = task[u].at
        BY <3>2 DEF FireMoves
      <4>2. loop[v] = "recheck" /\ task[u].at = v
        BY <3>1, <3>2, <1>6 DEF InHand
      <4> QED  BY <3>1, <4>1, <4>2 DEF Busy, Dropping
    <3>3. CASE u \notin ws
      <4>1. task'[u] = task[u]
        BY <3>1, <3>3 DEF FireMoves
      <4>2. ASSUME task[u].waitsFor # None, u \in node[task[u].waitsFor].waiters
            PROVE  u \in node'[task[u].waitsFor].waiters
        BY <4>2, <3>3, Types DEF FireMoves
      <4> QED  BY <3>1, <4>1, <4>2, <2>1 DEF InHand
    <3> QED  BY <3>2, <3>3
  <2> QED  BY <2>2, <2>3
<1>16. Listed'
  <2> SUFFICES ASSUME NEW u \in Tasks, NEW m \in Nodes, u \in node'[m].waiters
               PROVE  /\ task'[u].waitsFor = m
                      /\ \/ task'[u].st = "join"
                         \/ task'[u].st = "run" /\ \E v \in Workers : cur'[v] = u /\ loop'[v] = "recheck"
    BY DEF Listed, Nodes
  <2>1. u \in node[m].waiters
    BY DEF FireMoves
  <2>2. u # t
    BY <2>1, <1>4
  <2>3. u \notin ws
    <3>1. SUFFICES ASSUME u \in ws  PROVE FALSE
      OBVIOUS
    <3>2. m = n
      BY <3>1, <2>1, <1>6 DEF Listed
    <3> QED  BY <3>1, <3>2 DEF FireMoves
  <2>4. task'[u] = task[u]
    BY <2>2, <2>3 DEF FireMoves
  <2>5. ASSUME NEW v \in Workers, cur[v] = u, loop[v] = "recheck"  PROVE cur'[v] = u /\ loop'[v] = "recheck"
    BY <2>5, <2>2, <1>1 DEF FireMoves
  <2> QED  BY <2>1, <2>4, <2>5 DEF Listed
<1>17. Completed'
  <2> SUFFICES ASSUME NEW u \in Tasks
               PROVE  /\ task'[u].st = "done" => node[u].status
                      /\ node[u].status =>
                           \/ task'[u].st = "done"
                           \/ \E v \in Workers : cur'[v] = u /\ loop'[v] \in {"wake"} \cup Dropping
    BY Types DEF Completed, FireMoves
  <2>1. CASE u = t
    BY <2>1, <1>1, <1>7 DEF FireMoves
  <2>2. CASE u # t
    <3>1. task'[u].st = "done" <=> task[u].st = "done"
      BY <2>2, <1>6 DEF FireMoves
    <3>2. ASSUME NEW v \in Workers, cur[v] = u  PROVE cur'[v] = u /\ loop'[v] = loop[v]
      BY <3>2, <2>2, <1>1 DEF FireMoves
    <3> QED  BY <3>1, <3>2 DEF Completed
  <2> QED  BY <2>1, <2>2
<1> QED  BY <1>5, <1>9, <1>10, <1>12, <1>13, <1>14, <1>15, <1>16, <1>17, ForestKept, TruthTold

\* A task whose worker is not at its second look is in no list.
LEMMA NotListed ==
  ASSUME IInv, NEW w \in Workers, NEW t \in Tasks, cur[w] = t, loop[w] # "recheck"
  PROVE  \A m \in Nodes : t \notin node[m].waiters
<1>1. task[t].st = "run" /\ task[t].at = w
  BY DEF IInv, InHand
<1>2. \A v \in Workers : cur[v] = t => v = w
  BY <1>1 DEF IInv, InHand
<1> QED  BY <1>1, <1>2 DEF IInv, Listed

\* The waiters that are fired, and the rest.
LEMMA FiredIs ==
  ASSUME TypeOK, NEW n \in Nodes
  PROVE  /\ Fired(n) \in [Tasks -> TaskType]
         /\ \A u \in node[n].waiters :
              /\ Fired(n)[u].st = "inbox" /\ Fired(n)[u].at = task[u].at
              /\ Fired(n)[u].waitsFor = None /\ Fired(n)[u].joined = n
         /\ \A u \in Tasks \ node[n].waiters : Fired(n)[u] = task[u]
<1>1. \A u \in Tasks : task[u] \in TaskType
  BY DEF TypeOK
<1>2. \A u \in Tasks : /\ [task[u] EXCEPT !.st = "inbox", !.waitsFor = None, !.joined = n] \in TaskType
                       /\ [task[u] EXCEPT !.st = "inbox", !.waitsFor = None, !.joined = n].st = "inbox"
                       /\ [task[u] EXCEPT !.st = "inbox", !.waitsFor = None, !.joined = n].at = task[u].at
                       /\ [task[u] EXCEPT !.st = "inbox", !.waitsFor = None, !.joined = n].waitsFor = None
                       /\ [task[u] EXCEPT !.st = "inbox", !.waitsFor = None, !.joined = n].joined = n
  BY <1>1 DEF TaskType, TaskStates
<1>3. node[n].waiters \subseteq Tasks
  BY Types
<1> QED  BY <1>1, <1>2, <1>3 DEF Fired

\* The list of a node whose waiters are fired, and the inboxes.
LEMMA FireAllIs ==
  ASSUME TypeOK, NEW n \in Nodes, FireAll(n)
  PROVE  /\ node' \in [Nodes -> NodeType] /\ inbox' \in [Workers -> SUBSET Tasks]
         /\ \A m \in Nodes : /\ node'[m].parent = node[m].parent /\ node'[m].status = node[m].status
                             /\ node'[m].live = node[m].live
                             /\ node'[m].waiters = IF m = n THEN node[m].waiters \ node[n].waiters ELSE node[m].waiters
         /\ \A v \in Workers : inbox'[v] = inbox[v] \cup {u \in node[n].waiters : task[u].at = v}
<1>1. node[n].waiters \subseteq Tasks
  BY Types
<1>2. inbox' = [v \in Workers |-> inbox[v] \cup {u \in node[n].waiters : task[u].at = v}]
  BY DEF FireAll
<1>3. node' = [node EXCEPT ![n].waiters = {}]
  BY DEF FireAll
<1>4. inbox' \in [Workers -> SUBSET Tasks] /\ \A v \in Workers : inbox'[v] = inbox[v] \cup {u \in node[n].waiters : task[u].at = v}
  BY <1>1, <1>2 DEF TypeOK
<1>5. node' \in [Nodes -> NodeType]
  BY <1>3 DEF TypeOK, NodeType
<1>6. \A m \in Nodes : /\ node'[m].parent = node[m].parent /\ node'[m].status = node[m].status
                       /\ node'[m].live = node[m].live
                       /\ node'[m].waiters = IF m = n THEN {} ELSE node[m].waiters
  BY <1>3 DEF TypeOK, NodeType
<1> QED  BY <1>4, <1>5, <1>6

\* What the tasks that others run owe does not depend on this worker.
LEMMA OwesOfOthers ==
  ASSUME TypeOK, SameTree, NEW u \in Tasks, task'[u].st = "done" <=> task[u].st = "done",
         \A v \in Workers : /\ cur'[v] = u /\ loop'[v] \in Dropping <=> cur[v] = u /\ loop[v] \in Dropping
                            /\ cur[v] = u /\ loop[v] \in Dropping => up'[v] = up[v] /\ loop'[v] = loop[v]
  PROVE  Owes(u)' = Owes(u)
<1>1. \A n \in Nodes : Chain(n)' = Chain(n)
  BY ChainsKept
<1>2. u \in Nodes /\ Chain(u)' = Chain(u)
  BY <1>1 DEF Nodes
<1>3. task'[u].st \notin {"none", "done"} <=> task[u].st \notin {"none", "done"}
  BY DEF SameTree
<1> QED  BY <1>1, <1>2, <1>3 DEF Owes, Nodes

\* A task owes what its completion has not passed.
LEMMA OwesInCompletion ==
  ASSUME IInv, NEW w \in Workers, NEW t \in Tasks, NEW n \in Nodes, cur[w] = t, loop[w] \in Dropping, up[w] = n
  PROVE  /\ n \in Chain(t)
         /\ Owes(t) = {m \in Chain(n) : loop[w] = "drained" => m # n}
<1>1. task[t].st = "run" /\ n \in Chain(t)
  BY DEF IInv, InHand, Dropping
<1>2. Chain(n) \subseteq Chain(t)
  BY <1>1, ChainSelf, Types DEF IInv
<1>3. \A v \in Workers : cur[v] = t => v = w
  BY DEF IInv, InHand
<1> QED  BY <1>1, <1>2, <1>3 DEF Owes

\* The same after a step.
LEMMA OwesInCompletionNext ==
  ASSUME TypeOK, SameTree, InHand', NEW w \in Workers, NEW t \in Tasks, NEW n \in Nodes,
         cur'[w] = t, loop'[w] \in Dropping, up'[w] = n
  PROVE  Owes(t)' = {m \in Chain(n) : loop'[w] = "drained" => m # n}
<1>1. \A m \in Nodes : Chain(m)' = Chain(m)
  BY ChainsKept
<1>2. t \in Nodes
  BY Types
<1>3. task'[t].st = "run" /\ n \in Chain(t)
  BY <1>1, <1>2 DEF InHand, Dropping
<1>4. Chain(n) \subseteq Chain(t) /\ Chain(t) \subseteq Nodes
  BY <1>2, <1>3, ChainSelf
<1>5. \A v \in Workers : cur'[v] = t => v = w
  BY DEF InHand
<1> QED  BY <1>1, <1>2, <1>3, <1>4, <1>5 DEF Owes, Nodes

\* The joiners of a task that is done are fired.
LEMMA WakeDoneStep ==
  ASSUME IInv, NEW w \in Workers, NEW t \in Tasks, WakeDone(w, t)
  PROVE  IInv'
<1> USE DEF IInv
<1> DEFINE ws == node[t].waiters
<1>1. loop[w] = "wake" /\ cur[w] = t /\ task[t].st = "run" /\ task[t].at = w /\ node[t].status /\ t \in Nodes
  BY Types DEF WakeDone, InHand
<1>2. UNCHANGED <<q, shared, kicks, cur, drainvars, stopper, prog>>
  BY DEF WakeDone
<1>3. \A m \in Nodes : t \notin node[m].waiters
  BY <1>1, NotListed
<1>4. /\ node' \in [Nodes -> NodeType] /\ inbox' \in [Workers -> SUBSET Tasks]
      /\ \A m \in Nodes : /\ node'[m].parent = node[m].parent /\ node'[m].status = node[m].status
                          /\ node'[m].live = node[m].live
                          /\ node'[m].waiters = IF m = t THEN node[m].waiters \ ws ELSE node[m].waiters
      /\ \A v \in Workers : inbox'[v] = inbox[v] \cup {u \in ws : task[u].at = v}
  BY <1>1, FireAllIs DEF WakeDone
<1>5. /\ task' \in [Tasks -> TaskType]
      /\ \A u \in ws : /\ task'[u].st = "inbox" /\ task'[u].at = task[u].at
                       /\ task'[u].waitsFor = None /\ task'[u].joined = t
      /\ \A u \in Tasks \ ws : task'[u] = task[u]
  BY <1>1, FiredIs DEF WakeDone
<1>6. /\ loop' \in [Workers -> Busy \cup {"top", "adopt", "inbox", "drain", "release", "gone"}]
      /\ loop'[w] = "drop" /\ \A v \in Workers : v # w => loop'[v] = loop[v]
  BY LoopOf DEF WakeDone, Busy
<1>7. up' \in [Workers -> Nodes \cup {None}] /\ up'[w] = t /\ \A v \in Workers : v # w => up'[v] = up[v]
  BY <1>1 DEF WakeDone, TypeOK
<1>8. TypeOK'
  BY <1>2, <1>4, <1>5, <1>6, <1>7 DEF TypeOK, drainvars
<1>9. FireMoves(w, t, t, ws)
  <2>1. \A u \in ws : Told(u, t)
    BY <1>1, RuntimeAssumption DEF Told
  <2>2. t \in Chain(t) /\ t \notin ws
    BY <1>1, <1>3, ChainSelf
  <2> QED  BY <2>1, <2>2, <1>1, <1>2, <1>4, <1>5, <1>6, <1>7 DEF FireMoves, Dropping
<1>10. /\ SameTree /\ StatusKept
       /\ \A u \in Tasks : task'[u].st = "join" => u \notin ws /\ task'[u] = task[u]
       /\ Placed' /\ InHand' /\ Listed' /\ Completed' /\ Forest' /\ Truthful'
  BY <1>1, <1>9, FireMovesStep
<1>11. LiveIsExact'
  <2> SUFFICES ASSUME NEW u \in Tasks  PROVE Owes(u)' = Owes(u)
    BY <1>4, LiveKeptIf
  <2>1. CASE u = t
    <3>1. Owes(t)' = Chain(t)
      <4>1. cur'[w] = t /\ loop'[w] \in Dropping /\ up'[w] = t
        BY <1>1, <1>2, <1>6, <1>7 DEF Dropping
      <4>2. Owes(t)' = {m \in Chain(t) : loop'[w] = "drained" => m # t}
        BY <4>1, <1>1, <1>10, OwesInCompletionNext
      <4> QED  BY <4>2, <1>6
    <3>2. \A v \in Workers : cur[v] = t => v = w
      BY <1>1 DEF InHand
    <3>3. Owes(t) = Chain(t)
      BY <1>1, <3>2 DEF Owes, Dropping
    <3> QED  BY <2>1, <3>1, <3>3
  <2>2. CASE u # t
    <3>1. \A v \in Workers : /\ cur'[v] = u /\ loop'[v] \in Dropping <=> cur[v] = u /\ loop[v] \in Dropping
                             /\ cur[v] = u /\ loop[v] \in Dropping => up'[v] = up[v] /\ loop'[v] = loop[v]
      BY <2>2, <1>1, <1>2, <1>6, <1>7
    <3>2. task'[u].st = "done" <=> task[u].st = "done"
      <4>1. u \in ws => task[u].st # "done"
        BY <1>1 DEF Listed
      <4> QED  BY <4>1, <1>5
    <3> QED  BY <3>1, <3>2, <1>10, OwesOfOthers
  <2> QED  BY <2>1, <2>2
<1>12. Remembered'
  <2> SUFFICES ASSUME NEW u \in Tasks, task'[u].st = "join"
               PROVE  /\ task'[u].waitsFor # None
                      /\ \A m \in Nodes : task'[u].waitsFor = m => u \in node'[m].waiters /\ (Over(m)' => WillWake(m)')
    BY DEF Remembered, Nodes
  <2>1. u \notin ws /\ task'[u] = task[u]
    BY <1>10
  <2> SUFFICES ASSUME NEW m \in Nodes, task[u].waitsFor = m
               PROVE  u \in node'[m].waiters /\ (Over(m)' => WillWake(m)')
    BY <2>1 DEF Remembered
  <2>2. u \in node[m].waiters /\ (Over(m) => WillWake(m))
    BY <2>1 DEF Remembered
  <2>3. m # t
    BY <2>1, <2>2
  <2>4. Over(m)' => Over(m)
    BY <1>4 DEF Over
  <2>5. WillWake(m) => WillWake(m)'
    BY <2>3, <1>1, <1>2, <1>6, <1>7 DEF WillWake
  <2> QED  BY <2>2, <2>3, <2>4, <2>5, <1>4
<1>13. SameDrain
  BY <1>2, <1>6 DEF SameDrain, drainvars
<1> QED  BY <1>8, <1>10, <1>11, <1>12, <1>13, SurvivingKept

\* A completion that has dealt with n goes to its parent, or ends.
WentUp(w, t, n) ==
  \/ \E p \in Nodes : node[n].parent = p /\ up'[w] = p /\ loop'[w] = "drop" /\ cur'[w] = t /\ task'[t] = task[t]
  \/ node[n].parent = None /\ cur'[w] = None /\ loop'[w] = "adopt" /\ task'[t] = DoneTask

\* That is what GoUp does.
LEMMA GoUpIs ==
  ASSUME TypeOK, NEW w \in Workers, NEW t \in Tasks, NEW n \in Nodes, up[w] = n, cur[w] = t,
         NEW f \in [Tasks -> TaskType], f[t] = task[t], GoUp(w, t, f)
  PROVE  /\ task' \in [Tasks -> TaskType] /\ \A u \in Tasks : u # t => task'[u] = f[u]
         /\ LoopType' /\ up' \in [Workers -> Nodes \cup {None}]
         /\ \A v \in Workers : v # w => loop'[v] = loop[v] /\ cur'[v] = cur[v] /\ up'[v] = up[v]
         /\ WentUp(w, t, n)
<1>1. PICK p \in Nodes \cup {None} : node[n].parent = p
  BY Types
<1>2. DoneTask \in TaskType
  BY DEF DoneTask, Idle, TaskType, TaskStates
<1>3. CASE p # None
  <2>1. up' = [up EXCEPT ![w] = p] /\ Loop(w, "drop") /\ task' = f /\ cur' = cur
    BY <1>1, <1>3 DEF GoUp
  <2>2. /\ loop' \in [Workers -> Busy \cup {"top", "adopt", "inbox", "drain", "release", "gone"}]
        /\ loop'[w] = "drop" /\ \A v \in Workers : v # w => loop'[v] = loop[v]
    BY <2>1, LoopOf DEF Busy
  <2>3. up' \in [Workers -> Nodes \cup {None}] /\ up'[w] = p /\ \A v \in Workers : v # w => up'[v] = up[v]
    BY <2>1 DEF TypeOK
  <2> QED  BY <1>1, <1>3, <2>1, <2>2, <2>3 DEF LoopType, WentUp, TypeOK
<1>4. CASE p = None
  <2>1. up' = [up EXCEPT ![w] = None] /\ Suspended(w) /\ task' = [f EXCEPT ![t] = DoneTask]
    BY <1>1, <1>4 DEF GoUp, DoneTask
  <2>2. /\ LoopType' /\ loop'[w] = "adopt" /\ cur'[w] = None
        /\ \A v \in Workers : v # w => loop'[v] = loop[v] /\ cur'[v] = cur[v]
    BY <2>1, LoopOf, CurOf DEF Suspended, LoopType
  <2>3. up' \in [Workers -> Nodes \cup {None}] /\ \A v \in Workers : v # w => up'[v] = up[v]
    BY <2>1 DEF TypeOK
  <2>4. task' \in [Tasks -> TaskType] /\ task'[t] = DoneTask /\ \A u \in Tasks : u # t => task'[u] = f[u]
    BY <2>1, <1>2
  <2> QED  BY <1>1, <1>4, <2>2, <2>3, <2>4 DEF WentUp
<1> QED  BY <1>3, <1>4

\* Then it owes what is above n.
LEMMA OwesAfterWentUp ==
  ASSUME IInv, SameTree, InHand', NEW w \in Workers, NEW t \in Tasks, NEW n \in Nodes, WentUp(w, t, n)
  PROVE  Owes(t)' = Chain(n) \ {n}
<1> USE DEF IInv
<1>1. Chain(n) = {n} \cup (IF node[n].parent = None THEN {} ELSE Chain(node[n].parent))
  BY ChainStep DEF TypeOK
<1>2. ASSUME NEW p \in Nodes, node[n].parent = p, up'[w] = p, loop'[w] = "drop", cur'[w] = t
      PROVE  Owes(t)' = Chain(n) \ {n}
  <2>1. Chain(n) = {n} \cup Chain(p)
    BY <1>1, <1>2, Types
  <2>2. n \notin Chain(p)
    BY <1>2 DEF Forest
  <2>3. Owes(t)' = {m \in Chain(p) : loop'[w] = "drained" => m # p}
    BY <1>2, OwesInCompletionNext DEF Dropping
  <2> QED  BY <2>1, <2>2, <2>3, <1>2
<1>3. ASSUME node[n].parent = None, task'[t] = DoneTask  PROVE Owes(t)' = Chain(n) \ {n}
  <2>1. task'[t].st = "done"
    BY <1>3 DEF DoneTask, Idle
  <2>2. Owes(t)' = {}
    BY <2>1 DEF Owes
  <2> QED  BY <2>2, <1>1, <1>3
<1> QED  BY <1>2, <1>3 DEF WentUp

\* Where a completion is afterwards.
LEMMA WentUpStays ==
  ASSUME IInv, NEW w \in Workers, NEW t \in Tasks, NEW n \in Chain(t), WentUp(w, t, n)
  PROVE  \/ cur'[w] = t /\ loop'[w] \in Dropping /\ up'[w] \in Chain(t) /\ task'[t] = task[t]
         \/ cur'[w] = None /\ loop'[w] = "adopt" /\ task'[t] = DoneTask
<1>1. ASSUME NEW p \in Nodes, node[n].parent = p  PROVE p \in Chain(t)
  <2>1. n \in Nodes /\ t \in Nodes
    BY ChainSelf, Types DEF IInv
  <2>2. Chain(n) = {n} \cup Chain(p)
    BY <2>1, <1>1, Types, ChainStep DEF IInv, TypeOK
  <2>3. p \in Chain(n) /\ Chain(n) \subseteq Chain(t)
    BY <2>1, <2>2, ChainSelf
  <2> QED  BY <2>3
<1> QED  BY <1>1 DEF WentUp, Dropping

\* The counter of a node is decremented: one task fewer owes it.
LEMMA LiveDropped ==
  ASSUME IInv, NEW t \in Tasks, NEW n \in Nodes, n \in Owes(t), Owes(t)' = Owes(t) \ {n},
         \A u \in Tasks : u # t => Owes(u)' = Owes(u),
         \A m \in Nodes : node'[m].live = IF m = n THEN node[m].live - 1 ELSE node[m].live
  PROVE  LiveIsExact'
<1> SUFFICES ASSUME NEW m \in Nodes  PROVE node'[m].live = Cardinality(Counted(m)')
  BY DEF LiveIsExact, Nodes
<1>1. IsFiniteSet(Counted(m))
  BY FiniteAssumption, FS_Subset DEF Counted
<1>2. node[m].live = Cardinality(Counted(m))
  BY DEF IInv, LiveIsExact
<1>3. CASE m = n
  <2>1. Counted(n)' = Counted(n) \ {t} /\ t \in Counted(n)
    BY DEF Counted
  <2> QED  BY <1>1, <1>2, <1>3, <2>1, FS_RemoveElement
<1>4. CASE m # n
  <2>1. Counted(m)' = Counted(m)
    BY <1>4 DEF Counted
  <2> QED  BY <1>2, <1>4, <2>1
<1> QED  BY <1>3, <1>4

\* A completion drops the count of one ancestor.
LEMMA DropLiveStep ==
  ASSUME IInv, NEW w \in Workers, NEW t \in Tasks, DropLive(w, t)
  PROVE  IInv'
<1> USE DEF IInv
<1>1. loop[w] = "drop" /\ cur[w] = t /\ task[t].st = "run" /\ task[t].at = w /\ loop[w] \in Dropping
  BY DEF DropLive, InHand, Dropping
<1>2. PICK n \in Nodes : up[w] = n
  BY <1>1, Types, ChainSelf DEF InHand
<1>3. n \in Chain(t) /\ Owes(t) = Chain(n) /\ n \in Chain(n)
  BY <1>1, <1>2, OwesInCompletion, ChainSelf
<1>4. UNCHANGED <<queues, drainvars, stopper, prog>>
  BY DEF DropLive
<1>5. /\ node' \in [Nodes -> NodeType]
      /\ \A m \in Nodes : /\ node'[m].parent = node[m].parent /\ node'[m].status = node[m].status
                          /\ node'[m].live = IF m = n THEN node[m].live - 1 ELSE node[m].live
                          /\ node'[m].waiters = node[m].waiters
  <2>1. node' = [node EXCEPT ![n].live = @ - 1]
    BY <1>2 DEF DropLive
  <2> QED  BY <2>1 DEF TypeOK, NodeType
<1>6. /\ task' \in [Tasks -> TaskType] /\ \A u \in Tasks : u # t => task'[u] = task[u]
      /\ LoopType' /\ up' \in [Workers -> Nodes \cup {None}]
      /\ \A v \in Workers : v # w => loop'[v] = loop[v] /\ cur'[v] = cur[v] /\ up'[v] = up[v]
      /\ \/ node[n].live = 1 /\ loop'[w] = "drained" /\ up'[w] = n /\ cur'[w] = t /\ task'[t] = task[t]
         \/ node[n].live # 1 /\ WentUp(w, t, n)
  <2>1. CASE node[n].live = 1
    <3>1. Loop(w, "drained") /\ UNCHANGED <<up, cur, task>>
      BY <1>2, <2>1 DEF DropLive
    <3>2. /\ loop' \in [Workers -> Busy \cup {"top", "adopt", "inbox", "drain", "release", "gone"}]
          /\ loop'[w] = "drained" /\ \A v \in Workers : v # w => loop'[v] = loop[v]
      BY <3>1, LoopOf DEF Busy
    <3> QED  BY <3>1, <3>2, <1>1, <1>2, <2>1 DEF LoopType, TypeOK
  <2>2. CASE node[n].live # 1
    <3>1. GoUp(w, t, task) /\ task \in [Tasks -> TaskType]
      BY <1>2, <2>2 DEF DropLive, TypeOK
    <3> QED  BY <3>1, <2>2, <1>1, <1>2, GoUpIs
  <2> QED  BY <2>1, <2>2
<1>7. TypeOK'
  BY <1>4, <1>5, <1>6 DEF TypeOK, LoopType, queues, drainvars
<1>8. FireMoves(w, t, n, {})
  <2>1. \/ cur'[w] = t /\ loop'[w] \in Dropping /\ up'[w] \in Chain(t) /\ task'[t] = task[t]
        \/ cur'[w] = None /\ loop'[w] = "adopt" /\ task'[t] = DoneTask
    BY <1>3, <1>6, WentUpStays DEF Dropping
  <2>2. \A v \in Workers : inbox'[v] = inbox[v] \cup {u \in {} : task[u].at = v}
    BY <1>4 DEF queues
  <2>3. loop[w] \in {"wake"} \cup Dropping /\ n \in Nodes
    BY <1>1
  <2> QED  BY <2>1, <2>2, <2>3, <1>1, <1>4, <1>5, <1>6 DEF FireMoves, queues
<1>9. /\ SameTree /\ StatusKept
      /\ \A u \in Tasks : task'[u].st = "join" => task'[u] = task[u]
      /\ Placed' /\ InHand' /\ Listed' /\ Completed' /\ Forest' /\ Truthful'
  BY <1>8, FireMovesStep
<1>10. Owes(t)' = Owes(t) \ {n}
  <2>1. CASE loop'[w] = "drained" /\ up'[w] = n /\ cur'[w] = t
    <3>1. Owes(t)' = {m \in Chain(n) : loop'[w] = "drained" => m # n}
      BY <2>1, <1>9, OwesInCompletionNext DEF Dropping
    <3> QED  BY <3>1, <2>1, <1>3
  <2>2. CASE WentUp(w, t, n)
    BY <2>2, <1>3, <1>9, OwesAfterWentUp
  <2> QED  BY <2>1, <2>2, <1>6
<1>11. LiveIsExact'
  <2>1. ASSUME NEW u \in Tasks, u # t  PROVE Owes(u)' = Owes(u)
    <3>1. ASSUME NEW v \in Workers
          PROVE  /\ cur'[v] = u /\ loop'[v] \in Dropping <=> cur[v] = u /\ loop[v] \in Dropping
                 /\ cur[v] = u /\ loop[v] \in Dropping => up'[v] = up[v] /\ loop'[v] = loop[v]
      <4>1. CASE v = w
        <5>1. cur'[w] # u
          BY <2>1, <1>6, Types DEF WentUp
        <5> QED  BY <4>1, <5>1, <1>1, <2>1
      <4>2. CASE v # w
        BY <4>2, <1>6
      <4> QED  BY <4>1, <4>2
    <3>2. task'[u].st = "done" <=> task[u].st = "done"
      BY <2>1, <1>6
    <3> QED  BY <3>1, <3>2, <1>9, OwesOfOthers
  <2> QED  BY <2>1, <1>3, <1>5, <1>10, LiveDropped
<1>12. Remembered'
  <2> SUFFICES ASSUME NEW u \in Tasks, task'[u].st = "join"
               PROVE  /\ task'[u].waitsFor # None
                      /\ \A m \in Nodes : task'[u].waitsFor = m => u \in node'[m].waiters /\ (Over(m)' => WillWake(m)')
    BY DEF Remembered, Nodes
  <2>1. task'[u] = task[u]
    BY <1>9
  <2> SUFFICES ASSUME NEW m \in Nodes, task[u].waitsFor = m, Over(m)'  PROVE WillWake(m)'
    BY <2>1, <1>5 DEF Remembered
  <2>2. Over(m) => WillWake(m)
    BY <2>1 DEF Remembered
  <2>3. CASE m \in Tasks
    <3>1. Over(m)
      BY <2>3, <1>5 DEF Over
    <3>2. PICK v \in Workers : cur[v] = m /\ loop[v] = "wake"
      BY <2>2, <2>3, <3>1, RuntimeAssumption DEF WillWake
    <3> QED  BY <2>3, <3>2, <1>1, <1>6 DEF WillWake
  <2>4. CASE m \notin Tasks /\ m # n
    <3>1. Over(m) /\ m = Scope
      BY <2>4, <1>5 DEF Over, Nodes
    <3>2. PICK v \in Workers : up[v] = m /\ loop[v] = "drained"
      BY <2>2, <2>4, <3>1 DEF WillWake
    <3> QED  BY <3>1, <3>2, <1>1, <1>6 DEF WillWake
  <2>5. CASE m \notin Tasks /\ m = n
    <3>1. node[n].live - 1 = 0 /\ m = Scope
      BY <2>5, <1>5 DEF Over, Nodes
    <3>2. node[n].live = 1
      BY <3>1, Types
    <3> QED  BY <2>5, <3>1, <3>2, <1>6 DEF WillWake
  <2> QED  BY <2>3, <2>4, <2>5
<1>13. SameDrain
  <2>1. loop'[w] \notin {"release", "gone"}
    BY <1>6 DEF WentUp
  <2> QED  BY <2>1, <1>4, <1>6 DEF SameDrain, drainvars
<1> QED  BY <1>7, <1>9, <1>11, <1>12, <1>13, SurvivingKept

\* A completion has brought a count to zero, and wakes who waits for that.
LEMMA WakeJoinStep ==
  ASSUME IInv, NEW w \in Workers, NEW t \in Tasks, WakeJoin(w, t)
  PROVE  IInv'
<1> USE DEF IInv
<1>1. /\ loop[w] = "drained" /\ cur[w] = t /\ task[t].st = "run" /\ task[t].at = w /\ loop[w] \in Dropping
      /\ loop[w] # "recheck"
  BY DEF WakeJoin, InHand, Dropping
<1>2. PICK n \in Nodes : up[w] = n
  BY <1>1, Types, ChainSelf DEF InHand
<1>3. n \in Chain(t) /\ Owes(t) = Chain(n) \ {n}
  BY <1>1, <1>2, OwesInCompletion
<1>4. UNCHANGED <<q, shared, kicks, drainvars, stopper, prog>>
  BY DEF WakeJoin
<1>5. t \notin node[n].waiters
  BY <1>1, NotListed
<1>6. PICK ws : ws = IF n = Scope /\ node[n].live = 0 /\ node[n].waiters # {} THEN node[n].waiters ELSE {}
  OBVIOUS
<1>7. /\ node' \in [Nodes -> NodeType] /\ inbox' \in [Workers -> SUBSET Tasks]
      /\ \A m \in Nodes : /\ node'[m].parent = node[m].parent /\ node'[m].status = node[m].status
                          /\ node'[m].live = node[m].live
                          /\ node'[m].waiters = IF m = n THEN node[m].waiters \ ws ELSE node[m].waiters
      /\ \A v \in Workers : inbox'[v] = inbox[v] \cup {u \in ws : task[u].at = v}
      /\ \E f \in [Tasks -> TaskType] :
           /\ GoUp(w, t, f)
           /\ \A u \in ws : /\ f[u].st = "inbox" /\ f[u].at = task[u].at
                            /\ f[u].waitsFor = None /\ f[u].joined = n
           /\ \A u \in Tasks \ ws : f[u] = task[u]
  <2>1. CASE n = Scope /\ node[n].live = 0 /\ node[n].waiters # {}
    <3>1. ws = node[n].waiters /\ FireAll(n) /\ GoUp(w, t, Fired(n))
      BY <1>2, <1>6, <2>1 DEF WakeJoin
    <3>2. PICK f : f = Fired(n)
      OBVIOUS
    <3>3. /\ f \in [Tasks -> TaskType] /\ GoUp(w, t, f)
          /\ \A u \in ws : /\ f[u].st = "inbox" /\ f[u].at = task[u].at
                           /\ f[u].waitsFor = None /\ f[u].joined = n
          /\ \A u \in Tasks \ ws : f[u] = task[u]
      BY <3>1, <3>2, FiredIs
    <3>4. /\ node' \in [Nodes -> NodeType] /\ inbox' \in [Workers -> SUBSET Tasks]
          /\ \A m \in Nodes : /\ node'[m].parent = node[m].parent /\ node'[m].status = node[m].status
                              /\ node'[m].live = node[m].live
                              /\ node'[m].waiters = IF m = n THEN node[m].waiters \ ws ELSE node[m].waiters
          /\ \A v \in Workers : inbox'[v] = inbox[v] \cup {u \in ws : task[u].at = v}
      BY <3>1, FireAllIs
    <3> QED  BY <3>3, <3>4
  <2>2. CASE ~(n = Scope /\ node[n].live = 0 /\ node[n].waiters # {})
    <3>1. ws = {} /\ UNCHANGED <<node, inbox>> /\ GoUp(w, t, task)
      BY <1>2, <1>6, <2>2 DEF WakeJoin
    <3>2. \A v \in Workers : {u \in ws : task[u].at = v} = {}
      BY <3>1
    <3> QED  BY <3>1, <3>2 DEF TypeOK
  <2> QED  BY <2>1, <2>2
<1>8. PICK f \in [Tasks -> TaskType] :
        /\ GoUp(w, t, f)
        /\ \A u \in ws : /\ f[u].st = "inbox" /\ f[u].at = task[u].at
                         /\ f[u].waitsFor = None /\ f[u].joined = n
        /\ \A u \in Tasks \ ws : f[u] = task[u]
  BY <1>7
<1>9. t \notin ws /\ ws \subseteq Tasks /\ ws \subseteq node[n].waiters
  BY <1>5, <1>6, Types
<1>10. /\ task' \in [Tasks -> TaskType] /\ \A u \in Tasks : u # t => task'[u] = f[u]
       /\ LoopType' /\ up' \in [Workers -> Nodes \cup {None}]
       /\ \A v \in Workers : v # w => loop'[v] = loop[v] /\ cur'[v] = cur[v] /\ up'[v] = up[v]
       /\ WentUp(w, t, n)
  BY <1>1, <1>2, <1>8, <1>9, GoUpIs
<1>11. TypeOK'
  BY <1>4, <1>7, <1>10 DEF TypeOK, LoopType, drainvars
<1>12. FireMoves(w, t, n, ws)
  <2>1. \/ cur'[w] = t /\ loop'[w] \in Dropping /\ up'[w] \in Chain(t) /\ task'[t] = task[t]
        \/ cur'[w] = None /\ loop'[w] = "adopt" /\ task'[t] = DoneTask
    BY <1>3, <1>10, WentUpStays
  <2>2. \A u \in ws : Told(u, n)
    <3> SUFFICES ASSUME NEW u \in ws  PROVE Told(u, n)
      OBVIOUS
    <3>1. n = Scope /\ node[n].live = 0
      BY <1>6
    <3>2. u \in Tasks /\ task[u].waitsFor = Scope
      BY <1>9, <3>1 DEF Listed
    <3>3. u = Root
      BY <3>2 DEF Truthful
    <3> QED  BY <3>1, <3>2, <3>3, OverIsTold, RuntimeAssumption DEF Over
  <2>3. loop[w] \in {"wake"} \cup Dropping /\ n \in Nodes /\ ws \in {{}, node[n].waiters}
    BY <1>1, <1>6
  <2>4. /\ \A u \in ws : /\ task'[u].st = "inbox" /\ task'[u].at = task[u].at
                         /\ task'[u].waitsFor = None /\ task'[u].joined = n
        /\ \A u \in Tasks \ ws : u # t => task'[u] = task[u]
    BY <1>8, <1>9, <1>10
  <2> QED  BY <2>1, <2>2, <2>3, <2>4, <1>1, <1>4, <1>7, <1>10 DEF FireMoves
<1>13. /\ SameTree /\ StatusKept
       /\ \A u \in Tasks : task'[u].st = "join" => u \notin ws /\ task'[u] = task[u]
       /\ Placed' /\ InHand' /\ Listed' /\ Completed' /\ Forest' /\ Truthful'
  BY <1>12, FireMovesStep
<1>14. LiveIsExact'
  <2> SUFFICES ASSUME NEW u \in Tasks  PROVE Owes(u)' = Owes(u)
    BY <1>7, LiveKeptIf
  <2>1. CASE u = t
    BY <2>1, <1>3, <1>10, <1>13, OwesAfterWentUp
  <2>2. CASE u # t
    <3>1. ASSUME NEW v \in Workers
          PROVE  /\ cur'[v] = u /\ loop'[v] \in Dropping <=> cur[v] = u /\ loop[v] \in Dropping
                 /\ cur[v] = u /\ loop[v] \in Dropping => up'[v] = up[v] /\ loop'[v] = loop[v]
      <4>1. CASE v = w
        <5>1. cur'[w] # u
          BY <2>2, <1>10, Types DEF WentUp
        <5> QED  BY <4>1, <5>1, <1>1, <2>2
      <4>2. CASE v # w
        BY <4>2, <1>10
      <4> QED  BY <4>1, <4>2
    <3>2. task'[u].st = "done" <=> task[u].st = "done"
      <4>1. u \in ws => task[u].st # "done"
        BY <1>9 DEF Listed
      <4> QED  BY <4>1, <2>2, <1>8, <1>10
    <3> QED  BY <3>1, <3>2, <1>13, OwesOfOthers
  <2> QED  BY <2>1, <2>2
<1>15. Remembered'
  <2> SUFFICES ASSUME NEW u \in Tasks, task'[u].st = "join"
               PROVE  /\ task'[u].waitsFor # None
                      /\ \A m \in Nodes : task'[u].waitsFor = m => u \in node'[m].waiters /\ (Over(m)' => WillWake(m)')
    BY DEF Remembered, Nodes
  <2>1. u \notin ws /\ task'[u] = task[u]
    BY <1>13
  <2> SUFFICES ASSUME NEW m \in Nodes, task[u].waitsFor = m
               PROVE  u \in node'[m].waiters /\ (Over(m)' => WillWake(m)')
    BY <2>1 DEF Remembered
  <2>2. u \in node[m].waiters /\ (Over(m) => WillWake(m))
    BY <2>1 DEF Remembered
  <2>3. u \in node'[m].waiters /\ (Over(m)' => Over(m))
    BY <2>1, <2>2, <1>7 DEF Over
  <2>4. ASSUME Over(m)  PROVE WillWake(m)'
    <3>1. CASE m \in Tasks
      <4>1. PICK v \in Workers : cur[v] = m /\ loop[v] = "wake"
        BY <2>2, <2>4, <3>1, RuntimeAssumption DEF WillWake
      <4> QED  BY <3>1, <4>1, <1>1, <1>10 DEF WillWake
    <3>2. CASE m \notin Tasks
      <4>1. m = Scope /\ node[m].live = 0
        BY <3>2, <2>4 DEF Over, Nodes
      <4>2. PICK v \in Workers : up[v] = m /\ loop[v] = "drained"
        BY <2>2, <2>4, <3>2 DEF WillWake
      <4>3. v # w
        <5> SUFFICES ASSUME v = w  PROVE FALSE
          OBVIOUS
        <5>1. n = m
          BY <4>2, <1>2
        <5>2. ws = node[m].waiters
          BY <5>1, <4>1, <2>2, <1>6
        <5> QED  BY <5>2, <2>1, <2>2
      <4> QED  BY <4>1, <4>2, <4>3, <1>10 DEF WillWake
    <3> QED  BY <3>1, <3>2
  <2> QED  BY <2>3, <2>4
<1>16. SameDrain
  <2>1. loop'[w] \notin {"release", "gone"}
    BY <1>10 DEF WentUp
  <2> QED  BY <2>1, <1>4, <1>10 DEF SameDrain, drainvars
<1> QED  BY <1>11, <1>13, <1>14, <1>15, <1>16, SurvivingKept

(***************************************************************************)
(* Spawning                                                                *)
(***************************************************************************)

\* c, which is not spawned, is spawned below p: the root by nobody, another by a task
\* that runs, below itself or its scope.
MaySpawn(c, p) ==
  /\ task[c].st = "none"
  /\ \/ c = Root /\ p = None
     \/ /\ c # Root
        /\ \E w \in Workers, t \in Tasks : loop[w] = "task" /\ cur[w] = t /\ p \in {t, Scope}

\* The nodes that count c from now on.
Above(p) == IF p = None THEN {} ELSE Chain(p)

\* What a spawn does to the tasks and the nodes.
LEMMA SpawnedIs ==
  ASSUME TypeOK, NEW c \in Tasks, NEW p \in Nodes \cup {None}, NEW where \in Workers \cup {None},
         c = Root => p # Scope, Spawned(c, p, where)
  PROVE  /\ task' \in [Tasks -> TaskType] /\ node' \in [Nodes -> NodeType]
         /\ inbox' \in [Workers -> SUBSET Tasks] /\ shared' \in SUBSET Tasks
         /\ task'[c].st = (IF where = None THEN "shared" ELSE "inbox") /\ task'[c].at = where
         /\ \A u \in Tasks : /\ task'[u].waitsFor = task[u].waitsFor
                             /\ task'[u].joined \in {task[u].joined, None}
                             /\ u = Root /\ p = Scope => task'[u].joined = None
                             /\ u # c => task'[u].st = task[u].st /\ task'[u].at = task[u].at
         /\ \A n \in Nodes : /\ node'[n].parent = IF n = c THEN p ELSE node[n].parent
                             /\ node'[n].live = IF n = c THEN 1 ELSE IF n \in Above(p) THEN node[n].live + 1 ELSE node[n].live
                             /\ node'[n].status = node[n].status /\ node'[n].waiters = node[n].waiters
         /\ \A u \in shared' : u \in shared \/ (u = c /\ where = None)
         /\ \A v \in Workers : \A u \in inbox'[v] : u \in inbox[v] \/ (u = c /\ where = v)
<1>3. PICK b \in BOOLEAN : b = (p # None /\ node[p].requested)
  BY Types
<1> DEFINE st == IF where = None THEN "shared" ELSE "inbox"
           new == [task[c] EXCEPT !.st = st, !.at = where]
           nodeNew == [node[c] EXCEPT !.parent = p, !.live = 1, !.requested = b]
<1>1. c \in Nodes /\ task[c] \in TaskType /\ node[c] \in NodeType /\ None \notin Workers
  BY Types
<1>2. /\ new \in TaskType /\ new.st = st /\ new.at = where
      /\ new.waitsFor = task[c].waitsFor /\ new.joined = task[c].joined
  BY <1>1 DEF TaskType, TaskStates
<1>4. /\ nodeNew \in NodeType /\ nodeNew.parent = p /\ nodeNew.live = 1
      /\ nodeNew.status = node[c].status /\ nodeNew.waiters = node[c].waiters
  <2>1. PICK r \in NodeType : r = node[c]
    BY <1>1
  <2>2. nodeNew \in NodeType
    <3>1. PICK r1 : r1 = [r EXCEPT !.parent = p]
      OBVIOUS
    <3>2. r1 \in NodeType
      BY <3>1, <2>1 DEF NodeType
    <3>3. PICK r2 : r2 = [r1 EXCEPT !.live = 1]
      OBVIOUS
    <3>4. r2 \in NodeType
      BY <3>2, <3>3 DEF NodeType
    <3>5. nodeNew = [r2 EXCEPT !.requested = b]
      BY <2>1, <3>1, <3>3 DEF NodeType
    <3>6. [r2 EXCEPT !.requested = b] \in NodeType
      BY <3>4 DEF NodeType
    <3> QED  BY <3>5, <3>6
  <2>3. nodeNew.parent = p /\ nodeNew.live = 1 /\ nodeNew.waiters = r.waiters
    BY <2>1 DEF NodeType
  <2>4. nodeNew.status = r.status
    BY <2>1 DEF NodeType
  <2> QED  BY <2>1, <2>2, <2>3, <2>4
<1>5. task' = [t \in Tasks |-> IF t = c THEN new
                               ELSE IF t = Root /\ p = Scope THEN [task[t] EXCEPT !.joined = None] ELSE task[t]]
  BY DEF Spawned
<1>6. node' = [n \in Nodes |-> IF n = c THEN nodeNew
                               ELSE IF n \in Above(p) THEN [node[n] EXCEPT !.live = @ + 1] ELSE node[n]]
  BY <1>3 DEF Spawned, Above
<1>7. \A t \in Tasks : /\ [task[t] EXCEPT !.joined = None] \in TaskType
                       /\ [task[t] EXCEPT !.joined = None].joined = None
                       /\ [task[t] EXCEPT !.joined = None].st = task[t].st
                       /\ [task[t] EXCEPT !.joined = None].at = task[t].at
                       /\ [task[t] EXCEPT !.joined = None].waitsFor = task[t].waitsFor
  BY Types DEF TaskType
<1>8. \A n \in Nodes : /\ [node[n] EXCEPT !.live = @ + 1] \in NodeType
                       /\ [node[n] EXCEPT !.live = @ + 1].live = node[n].live + 1
                       /\ [node[n] EXCEPT !.live = @ + 1].parent = node[n].parent
                       /\ [node[n] EXCEPT !.live = @ + 1].status = node[n].status
                       /\ [node[n] EXCEPT !.live = @ + 1].waiters = node[n].waiters
  BY Types DEF NodeType
<1> HIDE DEF new, nodeNew
<1>9. /\ task' \in [Tasks -> TaskType]
      /\ task'[c] = new
      /\ \A u \in Tasks : u # c => task'[u] = IF u = Root /\ p = Scope THEN [task[u] EXCEPT !.joined = None] ELSE task[u]
  BY <1>2, <1>5, <1>7, Types
<1>10. \A u \in Tasks : /\ task'[u].waitsFor = task[u].waitsFor
                        /\ task'[u].joined \in {task[u].joined, None}
                        /\ u = Root /\ p = Scope => task'[u].joined = None
                        /\ u # c => task'[u].st = task[u].st /\ task'[u].at = task[u].at
  <2> SUFFICES ASSUME NEW u \in Tasks
               PROVE  /\ task'[u].waitsFor = task[u].waitsFor
                      /\ task'[u].joined \in {task[u].joined, None}
                      /\ u = Root /\ p = Scope => task'[u].joined = None
                      /\ u # c => task'[u].st = task[u].st /\ task'[u].at = task[u].at
    OBVIOUS
  <2>1. CASE u = c
    BY <2>1, <1>2, <1>9
  <2>2. CASE u # c /\ u = Root /\ p = Scope
    BY <2>2, <1>7, <1>9
  <2>3. CASE u # c /\ ~(u = Root /\ p = Scope)
    BY <2>3, <1>9
  <2> QED  BY <2>1, <2>2, <2>3
<1>11. /\ node' \in [Nodes -> NodeType]
       /\ node'[c] = nodeNew
       /\ \A n \in Nodes : n # c => node'[n] = IF n \in Above(p) THEN [node[n] EXCEPT !.live = @ + 1] ELSE node[n]
  BY <1>1, <1>4, <1>6, <1>8, Types
<1>12. \A n \in Nodes : /\ node'[n].parent = IF n = c THEN p ELSE node[n].parent
                        /\ node'[n].live = IF n = c THEN 1 ELSE IF n \in Above(p) THEN node[n].live + 1 ELSE node[n].live
                        /\ node'[n].status = node[n].status /\ node'[n].waiters = node[n].waiters
  BY <1>4, <1>8, <1>11
<1>13. CASE where = None
  <2>1. shared' = shared \cup {c} /\ inbox' = inbox
    BY <1>13 DEF Spawned
  <2> QED  BY <2>1, <1>2, <1>9, <1>10, <1>11, <1>12, <1>13 DEF TypeOK
<1>14. CASE where # None
  <2>1. inbox' = [inbox EXCEPT ![where] = @ \cup {c}] /\ shared' = shared
    BY <1>14 DEF Spawned
  <2>2. inbox' \in [Workers -> SUBSET Tasks] /\ \A v \in Workers : \A u \in inbox'[v] : u \in inbox[v] \/ (u = c /\ where = v)
    BY <2>1, <1>14 DEF TypeOK
  <2> QED  BY <2>1, <2>2, <1>2, <1>9, <1>10, <1>11, <1>12, <1>14 DEF TypeOK
<1> QED  BY <1>13, <1>14

\* No chain but its own has a task that is not spawned.
LEMMA NotInChains ==
  ASSUME IInv, NEW c \in Tasks, task[c].st = "none", c # Root, NEW d \in Nodes, d # c
  PROVE  c \notin Chain(d)
<1>1. \A n \in Nodes : node[n].parent # c
  BY DEF IInv, Forest
<1>2. Nodes \ {c} \in Upward
  BY <1>1, Types DEF IInv, Upward
<1> QED  BY <1>2 DEF Chain

\* The chains after a spawn.
LEMMA ChainsOfSpawn ==
  ASSUME IInv, NEW c \in Tasks, NEW p \in Nodes \cup {None}, MaySpawn(c, p),
         node' \in [Nodes -> NodeType],
         \A n \in Nodes : node'[n].parent = IF n = c THEN p ELSE node[n].parent
  PROVE  /\ \A d \in Nodes : d # c \/ c = Root => Chain(d)' = Chain(d)
         /\ Chain(c)' = {c} \cup Above(p)
         /\ p # c /\ c \notin Above(p)
<1> USE DEF IInv
<1>1. c \in Nodes /\ None \notin Nodes /\ Scope \notin Tasks
  BY Types
<1>2. p # c
  BY <1>1 DEF MaySpawn, InHand
<1>3. ASSUME NEW d \in Nodes, d # c \/ c = Root  PROVE Chain(d)' = Chain(d)
  <2>1. Chain(d) \subseteq Nodes
    BY ChainSelf
  <2>2. \A k \in Chain(d) : node'[k].parent = node[k].parent
    <3>1. CASE c = Root
      BY <2>1, <3>1 DEF MaySpawn, Forest
    <3>2. CASE c # Root
      <4>1. c \notin Chain(d)
        BY <1>3, <3>2, NotInChains DEF MaySpawn
      <4> QED  BY <2>1, <4>1
    <3> QED  BY <3>1, <3>2
  <2> QED  BY <2>2, ChainKept DEF TypeOK
<1>4. c \notin Above(p)
  <2>1. p # None => c # Root
    BY DEF MaySpawn, InHand
  <2> QED  BY <1>2, <2>1, NotInChains DEF MaySpawn, Above
<1>5. Chain(c)' = {c} \cup Above(p)
  <2>1. node'[c].parent = p
    BY <1>1
  <2>2. Chain(c)' = {c} \cup (IF p = None THEN {} ELSE ChainOf(Parents', p))
    BY <1>1, <2>1, ChainStepNext
  <2>3. p # None => ChainOf(Parents', p) = Chain(p)
    <3>1. p # None => Chain(p)' = Chain(p)
      BY <1>2, <1>3
    <3> QED  BY <3>1, ChainIs
  <2> QED  BY <2>2, <2>3 DEF Above
<1> QED  BY <1>2, <1>3, <1>4, <1>5

\* A spawn keeps all but what is said of the drain.
LEMMA SpawnedKeeps ==
  ASSUME IInv, NEW c \in Tasks, NEW p \in Nodes \cup {None}, NEW where \in Workers \cup {None},
         MaySpawn(c, p), Spawned(c, p, where), UNCHANGED <<loop, cur, up, prog, idle, stopped, survivors>>,
         reg' \in [Workers -> SUBSET Tasks], ext' \in SUBSET Tasks, late' \in SUBSET Tasks
  PROVE  /\ StatusKept /\ \A u \in Tasks : task'[u].st # "none" => task[u].st # "none" \/ u = c
         /\ TypeOK' /\ Placed' /\ InHand' /\ Listed' /\ Completed' /\ Forest'
         /\ LiveIsExact' /\ Truthful' /\ Remembered'
<1> USE DEF IInv
<1>1. /\ task[c].st = "none" /\ task[c].at = None /\ c \in Nodes /\ None \notin Nodes /\ Scope \in Nodes
      /\ Scope \notin Tasks /\ None \notin Workers /\ Root \in Tasks /\ Tasks \subseteq Nodes
  BY Types DEF MaySpawn, Placed
<1>2. \A v \in Workers : cur[v] # c
  BY <1>1 DEF InHand
<1>3. ~node[c].status /\ \A n \in Nodes : c \notin node[n].waiters
  BY <1>1, <1>2 DEF Completed, Listed
<1>4. c = Root => p = None
  BY DEF MaySpawn
<1>5. /\ task' \in [Tasks -> TaskType] /\ node' \in [Nodes -> NodeType]
      /\ inbox' \in [Workers -> SUBSET Tasks] /\ shared' \in SUBSET Tasks
      /\ task'[c].st = (IF where = None THEN "shared" ELSE "inbox") /\ task'[c].at = where
      /\ \A u \in Tasks : /\ task'[u].waitsFor = task[u].waitsFor
                          /\ task'[u].joined \in {task[u].joined, None}
                          /\ u = Root /\ p = Scope => task'[u].joined = None
                          /\ u # c => task'[u].st = task[u].st /\ task'[u].at = task[u].at
      /\ \A n \in Nodes : /\ node'[n].parent = IF n = c THEN p ELSE node[n].parent
                          /\ node'[n].live = IF n = c THEN 1 ELSE IF n \in Above(p) THEN node[n].live + 1 ELSE node[n].live
                          /\ node'[n].status = node[n].status /\ node'[n].waiters = node[n].waiters
      /\ \A u \in shared' : u \in shared \/ (u = c /\ where = None)
      /\ \A v \in Workers : \A u \in inbox'[v] : u \in inbox[v] \/ (u = c /\ where = v)
  BY <1>1, <1>4, SpawnedIs
<1>6. q' = q /\ kicks' = kicks
  BY DEF Spawned
<1>7. /\ \A d \in Nodes : d # c \/ c = Root => Chain(d)' = Chain(d)
      /\ Chain(c)' = {c} \cup Above(p)
      /\ p # c /\ c \notin Above(p)
  BY <1>5, ChainsOfSpawn
<1>8. \A u \in Tasks : u # c => Chain(u)' = Chain(u)
  BY <1>1, <1>7
<1>9. StatusKept /\ \A u \in Tasks : task'[u].st # "none" => task[u].st # "none" \/ u = c
  BY <1>5 DEF StatusKept
<1>10. TypeOK'
  BY <1>5, <1>6 DEF TypeOK
<1>11. Placed'
  <2> SUFFICES ASSUME NEW u \in Tasks
               PROVE  /\ task'[u].st \in {"none", "shared", "done"} => task'[u].at = None
                      /\ u \in shared' => task'[u].st = "shared"
                      /\ \A v \in Workers :
                           /\ u \in q'[v] => task'[u].st = "queued" /\ task'[u].at = v
                           /\ u \in inbox'[v] => task'[u].st = "inbox" /\ task'[u].at = v
                           /\ u \in kicks'[v] => task'[u].at = v \/ task'[u].st = "done"
    BY DEF Placed
  <2>1. CASE u = c
    <3>1. \A v \in Workers : c \notin q[v] /\ c \notin kicks[v] /\ c \notin inbox[v] /\ c \notin shared
      BY <1>1 DEF Placed
    <3> QED  BY <2>1, <3>1, <1>1, <1>5, <1>6
  <2>2. CASE u # c
    BY <2>2, <1>5, <1>6 DEF Placed
  <2> QED  BY <2>1, <2>2
<1>12. InHand'
  <2> SUFFICES ASSUME NEW v \in Workers, NEW u \in Tasks, cur[v] = u
               PROVE  /\ loop[v] \in Busy
                      /\ task'[u].at = v
                      /\ task'[u].st = "run" \/ (task'[u].st = "inbox" /\ loop[v] = "recheck")
                      /\ loop[v] \in {"wake"} \cup Dropping => node'[u].status
                      /\ loop[v] \in Dropping => up[v] \in Chain(u)'
                      /\ loop[v] = "push" => task'[u].waitsFor # None
                      /\ loop[v] = "recheck" /\ task'[u].st = "run" =>
                           task'[u].waitsFor # None /\ u \in node'[task'[u].waitsFor].waiters
    BY DEF InHand
  <2>1. u # c /\ Chain(u)' = Chain(u) /\ u \in Nodes
    BY <1>1, <1>2, <1>8
  <2>2. task'[u].st = task[u].st /\ task'[u].at = task[u].at /\ task'[u].waitsFor = task[u].waitsFor
    BY <2>1, <1>5
  <2>3. task[u].waitsFor # None => node'[task[u].waitsFor].waiters = node[task[u].waitsFor].waiters
    BY <1>5, Types
  <2>4. node'[u].status = node[u].status
    BY <2>1, <1>5
  <2> QED  BY <2>1, <2>2, <2>3, <2>4 DEF InHand
<1>13. Listed'
  <2> SUFFICES ASSUME NEW u \in Tasks, NEW m \in Nodes, u \in node'[m].waiters
               PROVE  /\ task'[u].waitsFor = m
                      /\ \/ task'[u].st = "join"
                         \/ task'[u].st = "run" /\ \E v \in Workers : cur[v] = u /\ loop[v] = "recheck"
    BY DEF Listed, Nodes
  <2>1. u \in node[m].waiters /\ u # c
    BY <1>3, <1>5
  <2>2. task'[u].st = task[u].st /\ task'[u].waitsFor = task[u].waitsFor
    BY <2>1, <1>5
  <2> QED  BY <2>1, <2>2 DEF Listed
<1>14. Completed'
  <2> SUFFICES ASSUME NEW u \in Tasks
               PROVE  /\ task'[u].st = "done" => node'[u].status
                      /\ node'[u].status =>
                           \/ task'[u].st = "done"
                           \/ \E v \in Workers : cur[v] = u /\ loop[v] \in {"wake"} \cup Dropping
    BY DEF Completed
  <2>1. node'[u].status = node[u].status
    BY <1>1, <1>5
  <2>2. CASE u = c
    BY <2>1, <2>2, <1>3, <1>5
  <2>3. CASE u # c
    BY <2>1, <2>3, <1>5 DEF Completed
  <2> QED  BY <2>2, <2>3
<1>15. p \in Tasks => task[p].st = "run" /\ task[Root].st # "none"
  <2> SUFFICES ASSUME p \in Tasks  PROVE task[p].st = "run" /\ task[Root].st # "none"
    OBVIOUS
  <2>1. PICK w \in Workers : loop[w] = "task" /\ cur[w] = p
    BY <1>1 DEF MaySpawn
  <2>2. task[p].st = "run"
    BY <2>1 DEF InHand
  <2> QED  BY <2>2 DEF Forest
<1>16. Forest'
  <2>1. node'[Root].parent = None /\ node'[Scope].parent = Root
    BY <1>1, <1>4, <1>5 DEF Forest
  <2>2. task'[Root].st # "none"
    <3>1. c # Root => task[Root].st # "none"
      BY DEF MaySpawn, InHand, Forest
    <3> QED  BY <3>1, <1>1, <1>5
  <2>3. ASSUME NEW d \in Tasks, task'[d].st = "none", d # Root
        PROVE  node'[d].parent = None /\ \A n \in Nodes : node'[n].parent # d
    <3>1. d # c /\ task[d].st = "none"
      BY <2>3, <1>5
    <3>2. node[d].parent = None /\ \A n \in Nodes : node[n].parent # d
      BY <3>1, <2>3 DEF Forest
    <3>3. p # d
      BY <3>1, <1>15
    <3> QED  BY <3>1, <3>2, <3>3, <1>1, <1>5
  <2>4. ASSUME NEW n \in Nodes, NEW m \in Nodes, node'[n].parent = m  PROVE n \notin Chain(m)'
    <3>1. CASE n = c
      <4>1. p = m
        BY <2>4, <3>1, <1>5
      <4>2. Chain(m)' = Chain(m) /\ c \notin Chain(m)
        BY <4>1, <1>1, <1>7 DEF Above
      <4> QED  BY <3>1, <4>2
    <3>2. CASE n # c
      <4>1. node[n].parent = m
        BY <2>4, <3>2, <1>5
      <4>2. m # c \/ c = Root
        BY <4>1, <1>1 DEF Forest
      <4> QED  BY <4>1, <4>2, <1>7 DEF Forest
    <3> QED  BY <3>1, <3>2
  <2> QED  BY <2>1, <2>2, <2>3, <2>4 DEF Forest, Nodes
<1>17. LiveIsExact'
  <2>1. ASSUME NEW u \in Tasks, u # c  PROVE Owes(u)' = Owes(u)
    <3>1. Chain(u)' = Chain(u) /\ u \in Nodes /\ task'[u].st = task[u].st
      BY <2>1, <1>1, <1>5, <1>8
    <3>2. ASSUME NEW v \in Workers, NEW x \in Nodes, cur[v] = u, loop[v] \in Dropping, up[v] = x
          PROVE  Chain(x)' = Chain(x)
      <4>1. x \in Chain(u)
        BY <3>2 DEF InHand
      <4>2. c # Root => x # c
        BY <4>1, <2>1, <3>1, <1>1, NotInChains
      <4> QED  BY <4>2, <1>7
    <3> QED  BY <3>1, <3>2 DEF Owes, Nodes
  <2>2. Owes(c) = {} /\ Owes(c)' = {c} \cup Above(p)
    <3>1. Owes(c) = {}
      BY <1>1 DEF Owes
    <3>2. task'[c].st \notin {"none", "done"} /\ \A v \in Workers : cur'[v] # c
      BY <1>2, <1>5
    <3> QED  BY <3>1, <3>2, <1>7 DEF Owes
  <2>3. \A u \in Tasks : c \notin Owes(u)
    <3> SUFFICES ASSUME NEW u \in Tasks, u # c  PROVE c \notin Owes(u)
      BY <2>2
    <3>1. CASE c = Root
      BY <3>1, <1>1 DEF Forest, Owes
    <3>2. CASE c # Root
      BY <3>2, <1>1, NotInChains DEF Owes
    <3> QED  BY <3>1, <3>2
  <2> SUFFICES ASSUME NEW m \in Nodes  PROVE node'[m].live = Cardinality(Counted(m)')
    BY DEF LiveIsExact, Nodes
  <2>4. IsFiniteSet(Counted(m)) /\ node[m].live = Cardinality(Counted(m))
    BY FiniteAssumption, FS_Subset DEF Counted, LiveIsExact
  <2>5. CASE m = c
    <3>1. Counted(c)' = {c}
      BY <2>1, <2>2, <2>3 DEF Counted
    <3> QED  BY <2>5, <3>1, <1>5, FS_Singleton
  <2>6. CASE m # c /\ m \in Above(p)
    <3>1. Counted(m)' = Counted(m) \cup {c} /\ c \notin Counted(m)
      BY <2>1, <2>2, <2>6 DEF Counted
    <3>2. Cardinality(Counted(m)') = Cardinality(Counted(m)) + 1
      BY <3>1, <2>4, FS_AddElement
    <3> QED  BY <2>4, <2>6, <3>2, <1>5
  <2>7. CASE m # c /\ m \notin Above(p)
    <3>1. Counted(m)' = Counted(m)
      BY <2>1, <2>2, <2>7 DEF Counted
    <3> QED  BY <2>4, <2>7, <3>1, <1>5
  <2> QED  BY <2>5, <2>6, <2>7
<1>18. Truthful'
  <2> SUFFICES ASSUME NEW u \in Tasks
               PROVE  /\ task'[u].joined \in Tasks => node'[task'[u].joined].status
                      /\ task'[u].joined = Scope =>
                           u = Root /\ \A d \in Tasks : Scope \in Chain(d)' => node'[d].status
                      /\ task'[u].waitsFor = Scope => u = Root
    BY DEF Truthful
  <2>1. task'[u].joined \in Tasks => node'[task'[u].joined].status
    BY <1>1, <1>5 DEF Truthful
  <2>2. task'[u].waitsFor = Scope => u = Root
    BY <1>5 DEF Truthful
  <2>3. ASSUME task'[u].joined = Scope
        PROVE  u = Root /\ \A d \in Tasks : Scope \in Chain(d)' => node'[d].status
    <3>1. task[u].joined = Scope
      BY <2>3, <1>1, <1>5
    <3>2. u = Root /\ \A d \in Tasks : Scope \in Chain(d) => node[d].status
      BY <3>1 DEF Truthful
    <3>3. p # Scope
      BY <2>3, <3>2, <1>1, <1>5
    <3>4. Scope \notin Above(p)
      <4>1. p # None => p \in Tasks /\ ~node[p].status
        BY <3>3 DEF MaySpawn, InHand, Completed, Dropping
      <4> QED  BY <3>2, <4>1 DEF Above
    <3>5. Scope \notin Chain(c)'
      BY <3>4, <1>1, <1>7
    <3>6. ASSUME NEW d \in Tasks, Scope \in Chain(d)'  PROVE node'[d].status
      <4>1. d # c
        BY <3>5, <3>6
      <4> QED  BY <4>1, <3>2, <3>6, <1>1, <1>5, <1>8
    <3> QED  BY <3>2, <3>6
  <2> QED  BY <2>1, <2>2, <2>3
<1>19. Remembered'
  <2> SUFFICES ASSUME NEW u \in Tasks, task'[u].st = "join"
               PROVE  /\ task'[u].waitsFor # None
                      /\ \A m \in Nodes : task'[u].waitsFor = m => u \in node'[m].waiters /\ (Over(m)' => WillWake(m)')
    BY DEF Remembered, Nodes
  <2>1. u # c /\ task[u].st = "join" /\ task'[u].waitsFor = task[u].waitsFor
    BY <1>5
  <2>2. ASSUME NEW m \in Nodes, Over(m)'  PROVE Over(m)
    <3>1. CASE m \in Tasks
      BY <2>2, <3>1, <1>5 DEF Over
    <3>2. CASE m \notin Tasks
      <4>1. IsFiniteSet(Counted(m)) /\ node[m].live = Cardinality(Counted(m))
        BY FiniteAssumption, FS_Subset DEF Counted, LiveIsExact
      <4>2. node[m].live \in Nat
        BY <4>1, FS_CardinalityType
      <4>3. node'[m].live = 0 /\ m # c
        BY <2>2, <3>2 DEF Over
      <4>4. node'[m].live \in {node[m].live, node[m].live + 1}
        BY <4>3, <1>5
      <4> QED  BY <3>2, <4>2, <4>3, <4>4 DEF Over
    <3> QED  BY <3>1, <3>2
  <2>3. \A m \in Nodes : WillWake(m) => WillWake(m)'
    BY DEF WillWake
  <2> QED  BY <2>1, <2>2, <2>3, <1>5 DEF Remembered
<1> QED  BY <1>9, <1>10, <1>11, <1>12, <1>13, <1>14, <1>16, <1>17, <1>18, <1>19

\* The root is spawned from outside, before, in or after a drain.
LEMMA SpawnRootStep ==
  ASSUME IInv, SpawnRoot
  PROVE  IInv'
<1> USE DEF IInv
<1>1. /\ task[Root].st = "none" /\ Root \in Tasks /\ None \notin Nodes
      /\ ext' = ext \cup {Root}
      /\ late' = late \cup (IF loop[0] \in {"release", "gone"} THEN {Root} ELSE {})
      /\ UNCHANGED <<reg, loop, cur, up, idle, started, draining, deadline, stopped, survivors, stopper, prog>>
  BY Types DEF SpawnRoot
<1>2. PICK where \in prog.homes[Root] : Spawned(Root, None, where)
  BY DEF SpawnRoot
<1>3. where \in Workers \cup {None}
  BY <1>1, RuntimeAssumption DEF TypeOK
<1>4. MaySpawn(Root, None)
  BY <1>1 DEF MaySpawn
<1>5. reg' \in [Workers -> SUBSET Tasks] /\ ext' \in SUBSET Tasks /\ late' \in SUBSET Tasks
  BY <1>1 DEF TypeOK
<1>6. /\ StatusKept /\ \A u \in Tasks : task'[u].st # "none" => task[u].st # "none" \/ u = Root
      /\ TypeOK' /\ Placed' /\ InHand' /\ Listed' /\ Completed' /\ Forest'
      /\ LiveIsExact' /\ Truthful' /\ Remembered'
  BY <1>1, <1>2, <1>3, <1>4, <1>5, SpawnedKeeps
<1>7. Unregistered' \subseteq Unregistered
  BY <1>1, <1>6, Types DEF Unregistered, StatusKept
<1>8. Surviving'
  BY <1>1, <1>7, FewerUnregistered DEF Surviving
<1> QED  BY <1>6, <1>8

\* A task that runs spawns another.
LEMMA SpawnStep ==
  ASSUME IInv, NEW w \in Workers, NEW t \in Tasks, NEW c \in Tasks, NEW p \in Nodes,
         NEW where \in prog.homes[c], Spawn(w, t, c, p, where)
  PROVE  IInv'
<1> USE DEF IInv
<1>1. /\ loop[w] = "task" /\ cur[w] = t /\ task[c].st = "none" /\ c # Root /\ p \in MayOwn(t)
      /\ Spawned(c, p, where)
      /\ reg' = [reg EXCEPT ![w] = @ \cup {c}]
      /\ UNCHANGED <<loop, cur, up, ext, idle, started, draining, deadline, stopped, survivors, late, stopper, prog>>
  BY DEF Spawn, Acts, Runs
<1>2. where \in Workers \cup {None}
  BY RuntimeAssumption DEF TypeOK
<1>3. MaySpawn(c, p)
  BY <1>1 DEF MaySpawn, MayOwn
<1>4. /\ reg' \in [Workers -> SUBSET Tasks] /\ ext' \in SUBSET Tasks /\ late' \in SUBSET Tasks
      /\ c \in reg'[w] /\ \A v \in Workers : reg[v] \subseteq reg'[v] /\ (v # w => reg'[v] = reg[v])
  BY <1>1 DEF TypeOK
<1>5. /\ StatusKept /\ \A u \in Tasks : task'[u].st # "none" => task[u].st # "none" \/ u = c
      /\ TypeOK' /\ Placed' /\ InHand' /\ Listed' /\ Completed' /\ Forest'
      /\ LiveIsExact' /\ Truthful' /\ Remembered'
  BY <1>1, <1>2, <1>3, <1>4, SpawnedKeeps
<1>6. Unregistered' \subseteq Unregistered
  BY <1>1, <1>4, <1>5, Types DEF Unregistered, StatusKept
<1>7. Surviving'
  <2>1. survivors' >= Cardinality(Unregistered')
    BY <1>1, <1>6, FewerUnregistered
  <2>2. \A v \in Workers : loop'[v] = "gone" => reg'[v] = {}
    BY <1>1, <1>4 DEF Surviving
  <2> QED  BY <2>1, <2>2, <1>1 DEF Surviving
<1> QED  BY <1>5, <1>7

(***************************************************************************)
(* The theorems                                                            *)
(***************************************************************************)

\* In the initial states nothing has been spawned.
LEMMA InitIInv ==
  ASSUME Init
  PROVE  IInv
<1>1. TypeOK
  <2>1. Idle \in TaskType
    BY DEF Idle, TaskType, TaskStates
  <2>2. task \in [Tasks -> TaskType]
    BY <2>1 DEF Init
  <2>3. node \in [Nodes -> NodeType]
    BY RuntimeAssumption DEF Init, NodeType, Nodes
  <2> QED  BY <2>2, <2>3 DEF Init, TypeOK
<1>2. \A t \in Tasks : task[t].st = "none" /\ task[t].at = None /\ task[t].joined = None /\ task[t].waitsFor = None
  BY DEF Init, Idle
<1>3. \A n \in Nodes : /\ node[n].parent = IF n = Scope THEN Root ELSE None
                       /\ node[n].live = 0 /\ ~node[n].status /\ node[n].waiters = {}
  BY DEF Init
<1>4. /\ \A w \in Workers : q[w] = {} /\ inbox[w] = {} /\ kicks[w] = {} /\ loop[w] = "top" /\ cur[w] = None
      /\ shared = {} /\ survivors = 0
  BY DEF Init
<1>5. /\ None \notin Nodes /\ None \notin Tasks /\ Scope \notin Tasks /\ Root \in Tasks
      /\ Root \in Nodes /\ Scope \in Nodes /\ Tasks \subseteq Nodes
  BY <1>1, Types
<1>6. Placed /\ InHand /\ Listed /\ Completed /\ Truthful /\ Remembered
  <2>1. Placed
    BY <1>2, <1>4 DEF Placed
  <2>2. InHand
    BY <1>4, <1>5 DEF InHand
  <2>3. Listed /\ Completed /\ Remembered
    BY <1>2, <1>3, <1>5 DEF Listed, Completed, Remembered
  <2>4. Truthful
    BY <1>2, <1>5 DEF Truthful
  <2> QED  BY <2>1, <2>2, <2>3, <2>4
<1>7. Forest
  <2>1. ASSUME NEW n \in Nodes, NEW m \in Nodes, node[n].parent = m  PROVE n \notin Chain(m)
    <3>1. n = Scope /\ m = Root
      BY <2>1, <1>3, <1>5
    <3>2. Chain(Root) = {Root}
      BY <1>1, <1>3, <1>5, ChainStep DEF TypeOK
    <3> QED  BY <3>1, <3>2, <1>5
  <2> QED  BY <2>1, <1>2, <1>3, <1>5 DEF Forest
<1>8. LiveIsExact
  <2>1. \A n \in Nodes : Counted(n) = {}
    BY <1>2 DEF Counted, Owes
  <2> QED  BY <2>1, <1>3, FS_EmptySet DEF LiveIsExact
<1>9. Surviving
  <2>1. Unregistered = {}
    BY <1>2 DEF Unregistered
  <2> QED  BY <2>1, <1>4, RuntimeAssumption, FS_EmptySet DEF Surviving
<1> QED  BY <1>1, <1>6, <1>7, <1>8, <1>9 DEF IInv

\* Every step keeps the invariant.
LEMMA NextIInv ==
  ASSUME IInv, [Next]_vars
  PROVE  IInv'
<1>1. ASSUME NEW w \in Workers, NEW t \in Tasks, TaskStep(w, t)  PROVE IInv'
  BY <1>1, SleepStep, WaitForGoodStep, JoinPushStep, RecheckStep, JoinStep, CancelStep, SpawnStep DEF TaskStep
<1>2. ASSUME NEW w \in Workers, NEW t \in Tasks, CompleteStep(w, t)  PROVE IInv'
  BY <1>2, LeaveScopeStep, CompleteStepKeeps, WakeDoneStep, DropLiveStep, WakeJoinStep DEF CompleteStep
<1>3. ASSUME NEW w \in Workers, WorkerStep(w)  PROVE IInv'
  BY <1>3, <1>1, <1>2, TurnStep, AdoptStep, ProcessStep, DrainCancelStep, DrainStepStep, ExitSweepStep, ExitReleaseStep DEF WorkerStep
<1>4. CASE UNCHANGED vars
  <2>1. UNCHANGED <<task, node, q, inbox, shared, kicks, loop, cur, up, reg, ext, idle, draining, stopped, survivors, late, stopper, prog>>
    BY <1>4 DEF vars, queues, drainvars
  <2>2. QueueMoves
    BY <2>1 DEF QueueMoves, SameNodes
  <2>3. TypeOK' /\ Placed'
    BY <2>1 DEF IInv, TypeOK, Placed
  <2>4. SameDrain
    BY <2>1 DEF SameDrain
  <2> QED  BY <2>2, <2>3, <2>4, QueueMovesStep, SurvivingKept DEF IInv
<1> QED  BY <1>3, <1>4, TimerFiresStep, SpawnRootStep, StopStep DEF Next

\* The invariant that the properties follow from: queues and states agree, live_tasks is
\* exact, what has been joined is over, and the registries and the survivors hold what
\* is not done.
THEOREM RuntimeInvariant == Spec => []IInv
<1>1. Init => IInv
  BY InitIInv
<1>2. IInv /\ [Next]_vars => IInv'
  BY NextIInv
<1> QED  BY <1>1, <1>2, PTL DEF Spec

\* No task waits in a join for what is over and whose completion has looked at the list
\* already (JoinAwaiter against complete() and wake_join_if_drained()).
THEOREM NoForgottenJoinerHolds == Spec => []NoForgottenJoiner
<1>1. IInv => NoForgottenJoiner
  <2> SUFFICES ASSUME IInv, NEW t \in Tasks, task[t].st = "join"
               PROVE  LET n == task[t].waitsFor IN t \in node[n].waiters /\ (Over(n) => WillWake(n))
    BY DEF NoForgottenJoiner
  <2>1. PICK n \in Nodes : task[t].waitsFor = n
    BY Types DEF IInv, Remembered
  <2>2. t \in node[n].waiters /\ (Over(n) => WillWake(n))
    BY <2>1 DEF IInv, Remembered
  <2> QED  BY <2>1, <2>2
<1> QED  BY <1>1, RuntimeInvariant, PTL

\* A join returns only when the task is done, and a join of a scope only when nothing
\* lives below it, until its owner spawns again (live_tasks over a subtree).
THEOREM JoinTellsTheTruthHolds == Spec => []JoinTellsTheTruth
<1>1. IInv => JoinTellsTheTruth
  <2> SUFFICES ASSUME IInv, NEW t \in Tasks, task[t].joined # None
               PROVE  IF task[t].joined \in Tasks THEN node[task[t].joined].status
                      ELSE \A c \in Below(task[t].joined) \cap Tasks : node[c].status
    BY DEF JoinTellsTheTruth
  <2>1. PICK n \in Nodes : task[t].joined = n
    BY Types DEF IInv
  <2>2. CASE n \in Tasks
    BY <2>1, <2>2 DEF IInv, Truthful
  <2>3. CASE n = Scope
    <3>1. \A c \in Tasks : Scope \in Chain(c) => node[c].status
      BY <2>1, <2>3 DEF IInv, Truthful
    <3>2. ASSUME NEW c \in Below(Scope) \cap Tasks  PROVE Scope \in Chain(c)
      BY RuntimeAssumption DEF Below, Chain, Nodes
    <3>3. Scope \notin Tasks
      BY RuntimeAssumption
    <3> QED  BY <2>1, <2>3, <3>1, <3>2, <3>3
  <2> QED  BY <2>2, <2>3 DEF Nodes
<1> QED  BY <1>1, RuntimeInvariant, PTL

\* Once all workers have left, every task that is not done has been counted, on
\* whatever worker it was spawned and whenever, except an external one registered with
\* worker 0 after its count (sweep_tasks() and drain_survivors at the end of
\* threadFunction(), register_task_external()).
THEOREM SurvivorsAreCountedHolds == Spec => []SurvivorsAreCounted
<1>1. IInv => SurvivorsAreCounted
  <2> SUFFICES ASSUME IInv, \A w \in Workers : loop[w] = "gone"
               PROVE  survivors >= Cardinality({t \in Tasks \ late : task[t].st # "none" /\ ~node[t].status})
    BY DEF SurvivorsAreCounted
  <2>1. ext \subseteq late /\ \A w \in Workers : reg[w] = {}
    BY RuntimeAssumption DEF IInv, Surviving
  <2>2. Unregistered = {t \in Tasks \ late : task[t].st # "none" /\ ~node[t].status}
    BY <2>1 DEF Unregistered
  <2> QED  BY <2>2 DEF IInv, Surviving
<1> QED  BY <1>1, RuntimeInvariant, PTL
=============================================================================
