----------------------------- MODULE CancelTree -----------------------------
(***************************************************************************)
(* The tree of cancellation states (sync/CancelState.h, tasks/TaskState.h, *)
(* tasks/Task.cpp, tasks/Task.h): scopes and tasks, their reference counts *)
(* and lifetimes, the walk of request_cancel() and the kicks it sends to   *)
(* the workers that own the tasks.                                         *)
(*                                                                         *)
(* User threads and workers run concurrently.  Each has a call stack: a    *)
(* record per call of request_cancel, kick, release and the rest that is   *)
(* under way, naming the function, the node it works on and where it is.   *)
(* The coroutine of a task is running (or about to run) on its worker,     *)
(* parked with its cancel hook armed, or done.                             *)
(***************************************************************************)
EXTENDS Integers, FiniteSets, WaitList

CONSTANTS
  Scopes,   \* TaskScopes: states without a coroutine
  Tasks,    \* TaskStates
  Parent,   \* the state each one is spawned under, or None
  Users,    \* threads outside the runtime
  Workers,  \* worker threads
  Holder,   \* who has each scope, or each task's JoinHandle
  None

Nodes == Scopes \cup Tasks
Threads == Users \cup Workers

\* A holder is a thread or the coroutine of a task; a worker as a holder
\* stands for the coroutines on it that belong to no task.
ASSUME TreeAssumption ==
  /\ Scopes \cap Tasks = {} /\ Users \cap Workers = {} /\ Nodes \cap Threads = {}
  /\ None \notin Nodes \cup Threads
  /\ Parent \in [Nodes -> Nodes \cup {None}]
  /\ Holder \in [Nodes -> Threads \cup Tasks]

ASSUME FiniteAssumption == IsFiniteSet(Nodes) /\ IsFiniteSet(Threads)

VARIABLES
  refs,          \* the reference counts
  life,          \* whether the object exists: none, live or freed
  requested,     \* the cancellation flags
  children,      \* the list from first_child, under the node's tree lock
  tree_lock,     \* the thread that walks the node's children, or None
  owner_tid,     \* the worker a task belongs to, or None
  kick_pending,  \* a kick of the task is queued
  kick_q,        \* the kicks each worker has to process
  coro,          \* where a task's coroutine is
  handle,        \* whether the scope, or the task's JoinHandle, exists
  stack          \* the calls under way on each thread, innermost first

treevars == <<requested, children, tree_lock>>
kickvars == <<owner_tid, kick_pending, kick_q>>
vars == <<refs, life, treevars, kickvars, coro, handle, stack>>

\* next is the position of a walk among the children.
Call(fn, n, at) == [fn |-> fn, n |-> n, at |-> at, next |-> 1]

Points == {"begin", "kick", "kick_ref", "lock", "walk", "unlink", "delete"}

TypeOK ==
  /\ refs \in [Nodes -> Nat]
  /\ life \in [Nodes -> {"none", "live", "freed"}]
  /\ requested \in [Nodes -> BOOLEAN]
  /\ children \in [Nodes -> Seq(Nodes)]
  /\ tree_lock \in [Nodes -> Threads \cup {None}]
  /\ owner_tid \in [Nodes -> Workers \cup {None}]
  /\ kick_pending \in [Nodes -> BOOLEAN]
  /\ kick_q \in [Workers -> Seq(Tasks)]
  /\ coro \in [Nodes -> {"none", "queued", "running", "parked", "done"}]
  /\ handle \in [Nodes -> BOOLEAN]
  /\ stack \in [Threads -> Seq([fn : {"spawn", "adopt", "cancel", "release"},
                                n : Nodes, at : Points, next : Nat])]

\* Nothing has been created.
Init ==
  /\ refs = [n \in Nodes |-> 0]
  /\ life = [n \in Nodes |-> "none"]
  /\ requested = [n \in Nodes |-> FALSE]
  /\ children = [n \in Nodes |-> <<>>]
  /\ tree_lock = [n \in Nodes |-> None]
  /\ owner_tid = [n \in Nodes |-> None]
  /\ kick_pending = [n \in Nodes |-> FALSE]
  /\ kick_q = [w \in Workers |-> <<>>]
  /\ coro = [n \in Nodes |-> "none"]
  /\ handle = [n \in Nodes |-> FALSE]
  /\ stack = [x \in Threads |-> <<>>]

Quiet(x) == stack[x] = <<>>

\* Thread x is at this point of a call of fn.
At(x, fn, at) == ~Quiet(x) /\ Head(stack[x]).fn = fn /\ Head(stack[x]).at = at

Top(x) == Head(stack[x]).n

\* The innermost call returns, goes on, or calls something else.
Return(x) == stack' = [stack EXCEPT ![x] = Tail(@)]
Goto(x, at) == stack' = [stack EXCEPT ![x][1].at = at]
Replace(x, call) == stack' = [stack EXCEPT ![x] = <<call>> \o Tail(@)]
Enter(x, calls) == stack' = [stack EXCEPT ![x] = calls \o @]

\* The coroutine of n has not ended.
Active(n) == coro[n] \in {"queued", "running", "parked"}

\* Thread x runs the code of h: it is h, or h's coroutine runs on it.
Runs(x, h) == h = x \/ (h \in Tasks /\ owner_tid[h] = x /\ coro[h] = "running")

\* Thread x runs the code that has the scope, or the JoinHandle, n.
Holds(x, n) == handle[n] /\ Runs(x, Holder[n])

(***************************************************************************)
(* TaskScope() and spawn_under()                                           *)
(***************************************************************************)

\* Mutant: the parent's flag is not copied.
LinkNoCopy(c) ==
  LET p == Parent[c]
  IN  IF p = None
      THEN refs' = [refs EXCEPT ![c] = 1] /\ UNCHANGED <<children, requested>>
      ELSE /\ tree_lock[p] = None
           /\ refs' = [refs EXCEPT ![c] = 1, ![p] = @ + 1]
           /\ children' = [children EXCEPT ![p] = <<c>> \o @]
           /\ requested' = requested

\* The new state has one reference.  link(), if there is a parent: a reference
\* for the child, which copies the parent's flag under the lock.
Link(c) ==
  LET p == Parent[c]
  IN  IF p = None
      THEN refs' = [refs EXCEPT ![c] = 1] /\ UNCHANGED <<children, requested>>
      ELSE /\ tree_lock[p] = None
           /\ refs' = [refs EXCEPT ![c] = 1, ![p] = @ + 1]
           /\ children' = [children EXCEPT ![p] = <<c>> \o @]
           /\ requested' = [requested EXCEPT ![c] = requested[p]]

\* TaskScope(): under the task that opens it, under a state whose token its
\* holder can take, or under none.
NewScope(x, s) ==
  LET p == Parent[s]
  IN  /\ Quiet(x)
      /\ s \in Scopes /\ life[s] = "none" /\ Runs(x, Holder[s])
      /\ p \in {None, Holder[s]} \/ (p \in Nodes /\ Holder[p] = Holder[s] /\ handle[p])
      /\ Link(s)
      /\ life' = [life EXCEPT ![s] = "live"]
      /\ handle' = [handle EXCEPT ![s] = TRUE]
      /\ UNCHANGED <<tree_lock, kickvars, coro, stack>>

\* A task is spawned in a scope by the code that has it, under the task whose
\* coroutine spawns it, or under none where no task runs.
MaySpawn(x, c) ==
  LET p == Parent[c]
  IN  \/ p = None
      \/ p \in Scopes /\ Holds(x, p)
      \/ p \in Tasks /\ Runs(x, p)

\* The new state is linked.
SpawnLink(x, c, tid) ==
  /\ Quiet(x)
  /\ c \in Tasks /\ life[c] = "none" /\ MaySpawn(x, c)
  /\ Link(c)
  /\ life' = [life EXCEPT ![c] = "live"]
  /\ owner_tid' = [owner_tid EXCEPT ![c] = tid]
  /\ Enter(x, <<Call("spawn", c, "begin")>>)
  /\ UNCHANGED <<tree_lock, kick_pending, kick_q, coro, handle>>

\* A reference for the running coroutine; it is enqueued and the JoinHandle,
\* which has the first reference, is returned: moved to its holder, or
\* destroyed if that is a coroutine that is not there.
SpawnPublish(x) ==
  LET c == Top(x)
      kept == Holder[c] \in Threads \/ Active(Holder[c])
  IN  /\ At(x, "spawn", "begin")
      /\ refs' = [refs EXCEPT ![c] = @ + 1]
      /\ coro' = [coro EXCEPT ![c] = IF owner_tid[c] = None THEN "queued"
                                                            ELSE "running"]
      /\ handle' = [handle EXCEPT ![c] = kept]
      /\ IF kept THEN Return(x) ELSE Replace(x, Call("release", c, "begin"))
      /\ UNCHANGED <<life, treevars, kickvars>>

\* A worker takes a task from the shared queue: first it stores its index,
\* then it looks whether the task was cancelled and kicks it.
Adopt(w, c) ==
  /\ Quiet(w)
  /\ coro[c] = "queued" /\ owner_tid[c] = None
  /\ owner_tid' = [owner_tid EXCEPT ![c] = w]
  /\ Enter(w, <<Call("adopt", c, "begin")>>)
  /\ UNCHANGED <<refs, life, treevars, kick_pending, kick_q, coro, handle>>

AdoptCheck(w) ==
  LET c == Top(w)
  IN  /\ At(w, "adopt", "begin")
      /\ IF requested[c] THEN Goto(w, "kick") /\ coro' = coro
         ELSE coro' = [coro EXCEPT ![c] = "running"] /\ Return(w)
      /\ UNCHANGED <<refs, life, treevars, kickvars, handle>>

(***************************************************************************)
(* The task's coroutine                                                    *)
(***************************************************************************)

\* An awaitable arms its cancel hook and suspends, unless arm_cancel() tells
\* it that the task is cancelled.
Park(w, n) ==
  /\ Quiet(w)
  /\ owner_tid[n] = w /\ coro[n] = "running" /\ ~requested[n]
  /\ coro' = [coro EXCEPT ![n] = "parked"]
  /\ UNCHANGED <<refs, life, treevars, kickvars, handle, stack>>

\* What it waited for happens.
Wake(w, n) ==
  /\ Quiet(w)
  /\ owner_tid[n] = w /\ coro[n] = "parked"
  /\ coro' = [coro EXCEPT ![n] = "running"]
  /\ UNCHANGED <<refs, life, treevars, kickvars, handle, stack>>

\* The coroutine ends, having left its scopes: complete() sets the status and
\* drops its reference.
Complete(w, n) ==
  /\ Quiet(w)
  /\ owner_tid[n] = w /\ coro[n] = "running"
  /\ \A s \in Scopes : Holder[s] = n => ~handle[s]
  /\ coro' = [coro EXCEPT ![n] = "done"]
  /\ Enter(w, <<Call("release", n, "begin")>>)
  /\ UNCHANGED <<refs, life, treevars, kickvars, handle>>

(***************************************************************************)
(* request_cancel() and kick()                                             *)
(***************************************************************************)

\* JoinHandle::cancel, TaskScope::cancel.
CallCancel(x, n) ==
  /\ Quiet(x)
  /\ Holds(x, n)
  /\ ~requested[n]   \* otherwise the call returns at once
  /\ Enter(x, <<Call("cancel", n, "begin")>>)
  /\ UNCHANGED <<refs, life, treevars, kickvars, coro, handle>>

\* Mutant: a task is not kicked.
CancelExchangeNoKick(x) ==
  LET n == Top(x)
  IN  /\ At(x, "cancel", "begin")
      /\ requested' = [requested EXCEPT ![n] = TRUE]
      /\ IF requested[n] THEN Return(x) ELSE Goto(x, "lock")
      /\ UNCHANGED <<refs, life, children, tree_lock, kickvars, coro, handle>>

\* requested.exchange(true): only the first caller goes on.
CancelExchange(x) ==
  LET n == Top(x)
  IN  /\ At(x, "cancel", "begin")
      /\ requested' = [requested EXCEPT ![n] = TRUE]
      /\ IF requested[n] THEN Return(x)
         ELSE Goto(x, IF n \in Tasks THEN "kick" ELSE "lock")
      /\ UNCHANGED <<refs, life, children, tree_lock, kickvars, coro, handle>>

\* Where the caller of kick() goes on.
AfterKick(x) ==
  LET n == Top(x)
  IN  IF Head(stack[x]).fn = "cancel"
      THEN Goto(x, "lock") /\ coro' = coro
      ELSE coro' = [coro EXCEPT ![n] = "running"] /\ Return(x)

\* kick(): not for a task no worker owns, and not twice.
KickClaim(x) ==
  LET n == Top(x)
  IN  /\ At(x, "cancel", "kick") \/ At(x, "adopt", "kick")
      /\ IF owner_tid[n] = None \/ kick_pending[n]
         THEN AfterKick(x) /\ kick_pending' = kick_pending
         ELSE /\ kick_pending' = [kick_pending EXCEPT ![n] = TRUE]
              /\ Goto(x, "kick_ref")
              /\ coro' = coro
      /\ UNCHANGED <<refs, life, treevars, owner_tid, kick_q, handle>>

\* Mutant: add_ref() in place of try_add_ref().
KickPushAddRef(x) ==
  LET n == Top(x)
  IN  /\ At(x, "cancel", "kick_ref") \/ At(x, "adopt", "kick_ref")
      /\ refs' = [refs EXCEPT ![n] = @ + 1]
      /\ kick_q' = [kick_q EXCEPT ![owner_tid[n]] = Append(@, n)]
      /\ AfterKick(x)
      /\ UNCHANGED <<life, treevars, owner_tid, kick_pending, handle>>

\* try_add_ref() fails for a state that is about to be deleted.
KickPush(x) ==
  LET n == Top(x)
  IN  /\ At(x, "cancel", "kick_ref") \/ At(x, "adopt", "kick_ref")
      /\ IF refs[n] = 0
         THEN /\ kick_pending' = [kick_pending EXCEPT ![n] = FALSE]
              /\ UNCHANGED <<refs, kick_q>>
         ELSE /\ refs' = [refs EXCEPT ![n] = @ + 1]
              /\ kick_q' = [kick_q EXCEPT ![owner_tid[n]] = Append(@, n)]
              /\ kick_pending' = kick_pending
      /\ AfterKick(x)
      /\ UNCHANGED <<life, treevars, owner_tid, handle>>

CancelLock(x) ==
  LET n == Top(x)
  IN  /\ At(x, "cancel", "lock")
      /\ tree_lock[n] = None
      /\ tree_lock' = [tree_lock EXCEPT ![n] = x]
      /\ Goto(x, "walk")
      /\ UNCHANGED <<refs, life, requested, children, kickvars, coro, handle>>

\* The loop over the children, with the lock held.
CancelWalk(x) ==
  LET n == Top(x)
      i == Head(stack[x]).next
  IN  /\ At(x, "cancel", "walk")
      /\ IF i <= Len(children[n])
         THEN /\ stack' = [stack EXCEPT ![x] =
                             <<Call("cancel", children[n][i], "begin"),
                               [Head(@) EXCEPT !.next = i + 1]>> \o Tail(@)]
              /\ tree_lock' = tree_lock
         ELSE /\ tree_lock' = [tree_lock EXCEPT ![n] = None]
              /\ Return(x)
      /\ UNCHANGED <<refs, life, requested, children, kickvars, coro, handle>>

\* processCancelKicks() and process_kick(): the hook of a parked coroutine
\* resumes it; then the kick's reference is dropped.
ProcessKick(w) ==
  LET n == Head(kick_q[w])
  IN  /\ Quiet(w) /\ kick_q[w] # <<>>
      /\ kick_q' = [kick_q EXCEPT ![w] = Tail(@)]
      /\ kick_pending' = [kick_pending EXCEPT ![n] = FALSE]
      /\ coro' = [coro EXCEPT ![n] = IF @ = "parked" THEN "running" ELSE @]
      /\ Enter(w, <<Call("release", n, "begin")>>)
      /\ UNCHANGED <<refs, life, treevars, owner_tid, handle>>

(***************************************************************************)
(* release()                                                               *)
(***************************************************************************)

\* ~JoinHandle, detach(); ~TaskScope cancels first.  A handle among the
\* parameters of a coroutine is destroyed with the frame, after complete().
DropHandle(x, n) ==
  LET h == Holder[n]
  IN
  /\ Quiet(x)
  /\ Holds(x, n) \/ (handle[n] /\ {n, h} \subseteq Tasks /\ owner_tid[h] = x /\ coro[h] = "done")
  /\ handle' = [handle EXCEPT ![n] = FALSE]
  /\ Enter(x, IF n \in Scopes
              THEN <<Call("cancel", n, "begin"), Call("release", n, "begin")>>
              ELSE <<Call("release", n, "begin")>>)
  /\ UNCHANGED <<refs, life, treevars, kickvars, coro>>

ReleaseDec(x) ==
  LET n == Top(x)
  IN  /\ At(x, "release", "begin")
      /\ refs' = [refs EXCEPT ![n] = @ - 1]
      /\ IF refs[n] # 1 THEN Return(x)
         ELSE Goto(x, IF Parent[n] = None THEN "delete" ELSE "unlink")
      /\ UNCHANGED <<life, treevars, kickvars, coro, handle>>

\* unlink_from_parent(), under the parent's lock: the siblings are linked both ways,
\* as waiters are.
ReleaseUnlink(x) ==
  LET n == Top(x)
      p == Parent[n]
  IN  /\ At(x, "release", "unlink")
      /\ tree_lock[p] = None
      /\ children' = [children EXCEPT ![p] = remove_locked(@, n)]
      /\ Goto(x, "delete")
      /\ UNCHANGED <<refs, life, requested, tree_lock, kickvars, coro, handle>>

\* The state is deleted, then its reference to the parent dropped.
ReleaseDelete(x) ==
  LET n == Top(x)
  IN  /\ At(x, "release", "delete")
      /\ life' = [life EXCEPT ![n] = "freed"]
      /\ IF Parent[n] = None THEN Return(x)
         ELSE Replace(x, Call("release", Parent[n], "begin"))
      /\ UNCHANGED <<refs, treevars, kickvars, coro, handle>>

\* The steps of the calls under way on a thread.
Step(x) ==
  \/ SpawnPublish(x) \/ AdoptCheck(x)
  \/ CancelExchange(x) \/ KickClaim(x) \/ KickPush(x)
  \/ CancelLock(x) \/ CancelWalk(x)
  \/ ReleaseDec(x) \/ ReleaseUnlink(x) \/ ReleaseDelete(x)

\* Everything that existed has been freed and nothing is left to do.
Finished ==
  /\ \A n \in Nodes : life[n] # "live"
  /\ \A x \in Threads : Quiet(x)
  /\ UNCHANGED vars

Next ==
  \/ \E x \in Threads :
       \/ Step(x)
       \/ \E c \in Tasks, tid \in Workers \cup {None} : SpawnLink(x, c, tid)
       \/ \E s \in Scopes : NewScope(x, s)
       \/ \E n \in Nodes : CallCancel(x, n) \/ DropHandle(x, n)
  \/ \E w \in Workers :
       \/ ProcessKick(w)
       \/ \E n \in Tasks : Adopt(w, n) \/ Park(w, n) \/ Wake(w, n) \/ Complete(w, n)
  \/ Finished

Spec == Init /\ [][Next]_vars

(***************************************************************************)
(* Properties                                                              *)
(***************************************************************************)

\* The calls under way.
Calls == UNION {InList(stack[x]) : x \in Threads}

\* The workers that n is queued for as a kick.
Kicks(n) == {w \in Workers : n \in InList(kick_q[w])}

\* No thread follows a pointer to a deleted state: not a call that works on
\* it, not a worker that takes it from its kick queue, not a walk that comes
\* to it among its parent's children, not a child that looks at its parent.
NoUseAfterFree ==
  /\ \A call \in Calls : life[call.n] = "live"
  /\ \A n \in Nodes : life[n] # "live" => Kicks(n) = {}
  /\ \A n \in Nodes : \A c \in InList(children[n]) : life[c] = "live"
  /\ \A n \in Nodes : life[n] = "live" /\ Parent[n] # None => life[Parent[n]] = "live"

\* The thread x is about to drop a reference to n, or to hand one to the handle.
Owes(x, n) ==
  \E call \in InList(stack[x]) :
    call.n = n /\ (call.fn = "spawn" \/ (call.fn = "release" /\ call.at = "begin"))

\* The reference count of a state is the number of its references: its handle,
\* its coroutine, its children, its queued kicks and the releases under way.
\* So nothing is deleted early and nothing is leaked.
RefsAreExact ==
  \A n \in Nodes : life[n] = "live" =>
    refs[n] = (IF handle[n] THEN 1 ELSE 0)
              + (IF Active(n) THEN 1 ELSE 0)
              + Cardinality({c \in Nodes : Parent[c] = n /\ life[c] = "live"})
              + Cardinality(Kicks(n))
              + Cardinality({x \in Threads : Owes(x, n)})

\* Thread x is in request_cancel() of p and will still come to its child c.
WillReach(x, p, c) ==
  \E i \in 1..Len(stack[x]) :
    LET call == stack[x][i]
    IN  /\ call.fn = "cancel" /\ call.n = p
        /\ \/ call.at \in {"kick", "kick_ref", "lock"}
           \/ /\ call.at = "walk"
              /\ \/ \E j \in call.next..Len(children[p]) : children[p][j] = c
                 \/ i > 1 /\ stack[x][i - 1] = Call("cancel", c, "begin")

\* A cancellation reaches the whole subtree: a child linked under a cancelled
\* state is cancelled, or a walk that will come to it is under way, whatever
\* spawns and completions race with the walk.
CancelReachesChildren ==
  \A p \in Nodes : requested[p] =>
    \A c \in InList(children[p]) :
      requested[c] \/ \E x \in Threads : WillReach(x, p, c)

\* A coroutine that parked before its task was cancelled has a kick queued, or
\* the canceller is about to send one: it is not left waiting.
NoMissedKick ==
  \A n \in Tasks : coro[n] = "parked" /\ requested[n] =>
    Kicks(n) # {} \/ Call("cancel", n, "kick") \in Calls
                 \/ Call("cancel", n, "kick_ref") \in Calls

\* The states are freed in time and not before: no pointer outlives its state, and
\* the counts that decide are exact (try_add_ref, release, unlink_from_parent).
LifetimesAreSound == TypeOK /\ NoUseAfterFree /\ RefsAreExact

\* A cancellation misses nobody, whatever is spawned, adopted, parked or completed
\* while it walks: no child of a cancelled state, and no coroutine that has parked
\* (link, request_cancel, kick).
CancelMissesNobody == CancelReachesChildren /\ NoMissedKick

(***************************************************************************)
(* Liveness                                                                *)
(***************************************************************************)

\* Threads keep running, a coroutine that does not suspend any more ends, and
\* handles go out of scope; what a parked coroutine waits for need never come.
FairSpec ==
  /\ Spec
  /\ \A x \in Threads : WF_vars(Step(x))
  /\ \A w \in Workers : WF_vars(ProcessKick(w))
  /\ \A n \in Tasks : WF_vars(\E w \in Workers : Adopt(w, n) \/ Complete(w, n))
  /\ \A n \in Nodes : WF_vars(\E x \in Threads : DropHandle(x, n))

\* Cancelling a task ends it, parked or not, whether by its handle or with what
\* it is under; and its state is deleted in the end, once those under it are and
\* unless a coroutine that nobody cancels keeps the handle.
EverythingIsFreed ==
  \A n \in Tasks :
    LET released == Holder[n] \in Tasks => requested[Holder[n]]
    IN  /\ requested[n] /\ life[n] = "live" ~> coro[n] = "done"
        /\ requested[n] /\ life[n] = "live" /\ released ~> life[n] = "freed"
=============================================================================
