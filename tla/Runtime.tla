------------------------------- MODULE Runtime -------------------------------
(***************************************************************************)
(* Tasks, the worker loop that runs them, joins, and the drain of          *)
(* Uvent::stop() (Thread.cpp, Task.cpp, Task.h, TLS.cpp, Uvent.cpp; the    *)
(* build with UVENT_ENABLE_REUSEADDR and UVENT_RUNTIME_DRAIN).             *)
(*                                                                         *)
(* A worker goes round its loop: one ready task (the quantum), the shared  *)
(* queue, the inbox, the cancel kicks, the drain.  A cancellation request  *)
(* is one step here and the wake-up of a poller is left out: CancelTree    *)
(* and Inbox have their interleavings.  Joins and completions are taken    *)
(* apart, since they meet on different workers.                            *)
(***************************************************************************)
EXTENDS Integers, FiniteSets

CONSTANTS
  Workers,   \* 0 and others
  Tasks,     \* tasks
  Root,      \* the task that a thread outside the runtime spawns
  Scope,     \* the TaskScope of Root
  None,
  Programs   \* bound: the programs that run.  ops: operations of each task before it
             \* ends; homes: where each may be spawned, a worker or None for the
             \* shared queue; stops: whether stop() is called

ASSUME RuntimeAssumption ==
  /\ 0 \in Workers /\ Root \in Tasks /\ Scope \notin Tasks
  /\ None \notin Tasks \cup {Scope} \cup Workers
  /\ \A p \in Programs : p.ops \in [Tasks -> Nat] /\ p.homes \in [Tasks -> SUBSET (Workers \cup {None})]

ASSUME FiniteAssumption == IsFiniteSet(Tasks)

VARIABLES
  task,      \* the tasks: where each is and what it has done
  node,      \* the CancelStates of tasks and scope: parent, requested, live_tasks,
             \* status, and the waiters (done_waiters of a task, join_waiters of a scope)
  q,         \* each worker's run queue
  inbox,     \* each worker's inbox
  shared,    \* the shared queue
  kicks,     \* each worker's kick queue
  reg,       \* tasks_ of each worker's storage
  ext,       \* ext_tasks_ of worker 0
  loop,      \* where each worker is in its loop
  cur,       \* the task that a worker runs
  up,        \* the node that a completion has reached
  idle,      \* drain_idle_ of each worker
  started,   \* workers that have begun to drain
  draining, deadline, stopped, survivors,
  late,      \* history: external tasks registered after worker 0 has counted
  stopper,   \* where the thread in Uvent::stop() is
  prog       \* the program, one of Programs

queues == <<q, inbox, shared, kicks>>
drainvars == <<reg, ext, idle, started, draining, deadline, stopped, survivors, late>>
vars == <<task, node, queues, loop, cur, up, drainvars, stopper, prog>>

Nodes == Tasks \cup {Scope}

Idle == [st |-> "none", at |-> None, ops |-> 0, waitsFor |-> None, joined |-> None]

Loop(w, pc) == loop' = [loop EXCEPT ![w] = pc]

\* The sets of nodes that contain, with a node, its parent.
Upward == {S \in SUBSET Nodes : \A n \in S : node[n].parent \in S \cup {None}}

\* n and the nodes above it, which are in every such set with n; n and those below it.
Chain(n) == LET upward == Upward IN {m \in Nodes : \A S \in upward : n \in S => m \in S}

Below(n) == LET upward == Upward IN {m \in Nodes : \A S \in upward : m \in S => n \in S}

(***************************************************************************)
(* Spawning                                                                *)
(***************************************************************************)

\* spawn_under(): linked below its parent, counted in all above, registered with
\* the spawning worker, and put into an inbox or the shared queue.
Spawned(c, p, where) ==
  /\ task' = [t \in Tasks |->
       IF t = c THEN [task[c] EXCEPT !.st = IF where = None THEN "shared" ELSE "inbox", !.at = where]
       ELSE IF t = Root /\ p = Scope THEN [task[t] EXCEPT !.joined = None] ELSE task[t]]
  /\ node' = [n \in Nodes |->
       CASE n = c -> [node[c] EXCEPT !.parent = p, !.live = 1,
                                     !.requested = p # None /\ node[p].requested]
         [] p # None /\ n \in Chain(p) /\ n # c -> [node[n] EXCEPT !.live = @ + 1]
         [] OTHER -> node[n]]
  /\ IF where = None THEN shared' = shared \cup {c} /\ UNCHANGED inbox
     ELSE inbox' = [inbox EXCEPT ![where] = @ \cup {c}] /\ UNCHANGED shared
  /\ UNCHANGED <<q, kicks>>

\* From a thread outside the runtime, at any time: register_task_external().
SpawnRoot ==
  /\ task[Root].st = "none"
  /\ \E w \in prog.homes[Root] : Spawned(Root, None, w)
  /\ ext' = ext \cup {Root}
  /\ late' = late \cup (IF loop[0] \in {"release", "gone"} THEN {Root} ELSE {})
  /\ UNCHANGED <<reg, loop, cur, up, idle, started, draining, deadline, stopped, survivors, stopper, prog>>

\* A task is about to do something of its own.
Runs(w, t) ==
  /\ loop[w] = "task" /\ cur[w] = t

Acts(w, t) == Runs(w, t) /\ task[t].ops < prog.ops[t]

DidOp(t) == [task EXCEPT ![t].ops = @ + 1]

\* The parents below which t spawns, and the handles and scopes it has.
MayOwn(t) == IF t = Root THEN {Root, Scope} ELSE {t}

MayName(t) == {n \in Nodes : node[n].parent \in MayOwn(t)}

\* spawn() below the running task, or TaskScope::spawn().
Spawn(w, t, c, p, where) ==
  /\ Acts(w, t) /\ task[c].st = "none" /\ c # Root /\ p \in MayOwn(t)
  /\ Spawned(c, p, where)
  /\ reg' = [reg EXCEPT ![w] = @ \cup {c}]
  /\ UNCHANGED <<loop, cur, up, ext, idle, started, draining, deadline, stopped, survivors, late, stopper, prog>>

(***************************************************************************)
(* A task's operations                                                     *)
(***************************************************************************)

Suspended(w) ==
  /\ Loop(w, "adopt")
  /\ cur' = [cur EXCEPT ![w] = None]

\* sleep_for(): not when a cancellation is requested already.
Sleep(w, t) ==
  /\ Acts(w, t)
  /\ IF node[t].requested THEN task' = DidOp(t) /\ UNCHANGED <<loop, cur>>
     ELSE /\ task' = [DidOp(t) EXCEPT ![t].st = "sleep"]
          /\ Suspended(w)
  /\ UNCHANGED <<node, queues, up, drainvars, stopper, prog>>

\* A wait that no cancellation ends, and nobody else does: arrive_and_wait() of a
\* barrier whose other parties do not come.
WaitForGood(w, t) ==
  /\ Acts(w, t) /\ prog.stops
  /\ task' = [task EXCEPT ![t].st = "stuck"]
  /\ Suspended(w)
  /\ UNCHANGED <<node, queues, up, drainvars, stopper, prog>>

TimerFires(t) ==
  /\ task[t].st = "sleep"
  /\ task' = [task EXCEPT ![t].st = "queued"]
  /\ q' = [q EXCEPT ![task[t].at] = @ \cup {t}]
  /\ UNCHANGED <<node, inbox, shared, kicks, loop, cur, up, drainvars, stopper, prog>>

\* What a join of n waits for.
Over(n) == IF n \in Tasks THEN node[n].status ELSE node[n].live = 0

\* JoinAwaiter of a handle and of a scope: await_ready(), then the node is put into
\* the list, then the condition is looked at again.
Join(w, t, n) ==
  /\ Acts(w, t) /\ n \in MayName(t)
  /\ IF Over(n)
     THEN task' = [DidOp(t) EXCEPT ![t].joined = n] /\ UNCHANGED loop
     ELSE task' = [DidOp(t) EXCEPT ![t].waitsFor = n] /\ Loop(w, "push")
  /\ UNCHANGED <<node, queues, cur, up, drainvars, stopper, prog>>

JoinPush(w, t) ==
  /\ loop[w] = "push" /\ cur[w] = t
  /\ node' = [node EXCEPT ![task[t].waitsFor].waiters = @ \cup {t}]
  /\ Loop(w, "recheck")
  /\ UNCHANGED <<task, queues, cur, up, drainvars, stopper, prog>>

\* Mutant: the condition is not looked at again.
RecheckSkipped(w, t) ==
  /\ loop[w] = "recheck" /\ cur[w] = t
  /\ task' = [task EXCEPT ![t].st = IF @ = "run" THEN "join" ELSE @]
  /\ Suspended(w)
  /\ UNCHANGED <<node, queues, up, drainvars, stopper, prog>>

\* The node may have been taken from the list meanwhile, and the task be in the
\* inbox already: it is suspended all the same.
Recheck(w, t) ==
  LET n == task[t].waitsFor IN
  /\ loop[w] = "recheck" /\ cur[w] = t
  /\ IF n # None /\ Over(n) /\ t \in node[n].waiters
     THEN /\ node' = [node EXCEPT ![n].waiters = @ \ {t}]
          /\ task' = [task EXCEPT ![t].waitsFor = None, ![t].joined = n]
          /\ Loop(w, "task") /\ UNCHANGED cur
     ELSE /\ task' = [task EXCEPT ![t].st = IF @ = "run" THEN "join" ELSE @]
          /\ Suspended(w)
          /\ UNCHANGED node
  /\ UNCHANGED <<queues, up, drainvars, stopper, prog>>

\* fire_waiter() of all the waiters of n: each goes to its own worker's inbox.
Fired(n) ==
  [t \in Tasks |-> IF t \in node[n].waiters
                   THEN [task[t] EXCEPT !.st = "inbox", !.waitsFor = None, !.joined = n] ELSE task[t]]

FireAll(n) ==
  LET ws == node[n].waiters IN
  /\ inbox' = [w \in Workers |-> inbox[w] \cup {t \in ws : task[t].at = w}]
  /\ node' = [node EXCEPT ![n].waiters = {}]

(***************************************************************************)
(* Cancellation: request_cancel() of a node and of all below it.  A task   *)
(* that sleeps is kicked on its worker.                                    *)
(***************************************************************************)

Requested(ns) ==
  LET fresh == {n \in UNION {Below(m) : m \in ns} : ~node[n].requested}
      asleep == {t \in fresh \cap Tasks : task[t].at # None /\ task[t].st # "none" /\ ~node[t].status}
  IN /\ node' = [n \in Nodes |-> IF n \in fresh THEN [node[n] EXCEPT !.requested = TRUE] ELSE node[n]]
     /\ kicks' = [w \in Workers |-> kicks[w] \cup {t \in asleep : task[t].at = w}]

\* TaskScope::cancel(), JoinHandle::cancel().
Cancel(w, t, n) ==
  /\ Acts(w, t) /\ n \in MayName(t)
  /\ Requested({n})
  /\ task' = DidOp(t)
  /\ UNCHANGED <<q, inbox, shared, loop, cur, up, drainvars, stopper, prog>>

(***************************************************************************)
(* Completion                                                              *)
(***************************************************************************)

\* The end of the root's body: ~TaskScope() cancels what is below the scope.
LeaveScope(w, t) ==
  /\ Runs(w, t) /\ t = Root
  /\ Requested({Scope})
  /\ Loop(w, "final")
  /\ UNCHANGED <<task, q, inbox, shared, cur, up, drainvars, stopper, prog>>

\* final_transfer() and TaskStateBase::complete(): the status is set.
Complete(w, t) ==
  /\ loop[w] = (IF t = Root THEN "final" ELSE "task") /\ cur[w] = t
  /\ node' = [node EXCEPT ![t].status = TRUE]
  /\ Loop(w, "wake")
  /\ UNCHANGED <<task, queues, cur, up, drainvars, stopper, prog>>

\* The joiners of the handle.
WakeDone(w, t) ==
  /\ loop[w] = "wake" /\ cur[w] = t
  /\ FireAll(t)
  /\ task' = Fired(t)
  /\ Loop(w, "drop")
  /\ up' = [up EXCEPT ![w] = t]
  /\ UNCHANGED <<q, shared, kicks, cur, drainvars, stopper, prog>>

\* One ancestor has been dealt with.
GoUp(w, t, tasks) ==
  LET p == node[up[w]].parent IN
  IF p # None THEN up' = [up EXCEPT ![w] = p] /\ Loop(w, "drop") /\ task' = tasks /\ UNCHANGED cur
  ELSE /\ up' = [up EXCEPT ![w] = None]
       /\ Suspended(w)
       /\ task' = [tasks EXCEPT ![t] = [Idle EXCEPT !.st = "done"]]

\* drop_live_chain(), one node.
DropLive(w, t) ==
  LET n == up[w] IN
  /\ loop[w] = "drop" /\ cur[w] = t
  /\ node' = [node EXCEPT ![n].live = @ - 1]
  /\ IF node[n].live = 1 THEN Loop(w, "drained") /\ UNCHANGED <<up, cur, task>> ELSE GoUp(w, t, task)
  /\ UNCHANGED <<queues, drainvars, stopper, prog>>

\* Mutant: the count is not looked at again under the lock.
WakeJoinAlways(w, t) ==
  LET n == up[w] IN
  /\ loop[w] = "drained" /\ cur[w] = t
  /\ IF n = Scope /\ node[n].waiters # {}
     THEN FireAll(n) /\ GoUp(w, t, Fired(n))
     ELSE GoUp(w, t, task) /\ UNCHANGED <<node, inbox>>
  /\ UNCHANGED <<q, shared, kicks, drainvars, stopper, prog>>

\* wake_join_if_drained(): nobody is waiting, or the count is looked at again
\* under the list's lock.
WakeJoin(w, t) ==
  LET n == up[w] IN
  /\ loop[w] = "drained" /\ cur[w] = t
  /\ IF n = Scope /\ node[n].live = 0 /\ node[n].waiters # {}
     THEN FireAll(n) /\ GoUp(w, t, Fired(n))
     ELSE GoUp(w, t, task) /\ UNCHANGED <<node, inbox>>
  /\ UNCHANGED <<q, shared, kicks, drainvars, stopper, prog>>

(***************************************************************************)
(* The worker loop                                                         *)
(***************************************************************************)

\* What ends the sleep in the poller.
Awake(w) == q[w] # {} \/ inbox[w] # {} \/ kicks[w] # {} \/ shared # {} \/ draining

\* Top of the loop, unless told to stop: a ready task (a quantum of one), if any.
Turn(w) ==
  /\ loop[w] = "top" /\ w \notin stopped /\ Awake(w)
  /\ IF q[w] = {} THEN Loop(w, "adopt") /\ UNCHANGED <<q, cur, task>>
     ELSE \E t \in q[w] :
            /\ q' = [q EXCEPT ![w] = @ \ {t}]
            /\ cur' = [cur EXCEPT ![w] = t]
            /\ task' = [task EXCEPT ![t].st = "run"]
            /\ Loop(w, "task")
  /\ UNCHANGED <<node, inbox, shared, kicks, up, drainvars, stopper, prog>>

\* One task of the shared queue; it is kicked if a cancellation was requested
\* while it had no worker.
Adopt(w) ==
  /\ loop[w] = "adopt"
  /\ IF shared = {} THEN UNCHANGED <<shared, task, q, kicks>>
     ELSE \E t \in shared :
            /\ shared' = shared \ {t}
            /\ task' = [task EXCEPT ![t].at = w, ![t].st = "queued"]
            /\ q' = [q EXCEPT ![w] = @ \cup {t}]
            /\ kicks' = IF node[t].requested THEN [kicks EXCEPT ![w] = @ \cup {t}] ELSE kicks
  /\ Loop(w, "inbox")
  /\ UNCHANGED <<node, inbox, cur, up, drainvars, stopper, prog>>

\* processInboxQueue() and processCancelKicks(): the hook of a sleeping task puts it
\* into the run queue.
Kicked(w) == {t \in kicks[w] : task[t].st = "sleep"}

Queued(ts) == [t \in Tasks |-> IF t \in ts THEN [task[t] EXCEPT !.st = "queued"] ELSE task[t]]

ProcessInboxAndKicks(w) ==
  /\ loop[w] = "inbox"
  /\ q' = [q EXCEPT ![w] = @ \cup inbox[w] \cup Kicked(w)]
  /\ task' = Queued(inbox[w] \cup Kicked(w))
  /\ inbox' = [inbox EXCEPT ![w] = {}]
  /\ kicks' = [kicks EXCEPT ![w] = {}]
  /\ Loop(w, IF draining THEN "drain" ELSE "top")
  /\ UNCHANGED <<node, shared, cur, up, drainvars, stopper, prog>>

Done(ts) == {t \in ts : node[t].status}

\* drainStep(), the first time: cancel_registered_tasks().
DrainCancel(w) ==
  /\ loop[w] = "drain" /\ w \notin started
  /\ started' = started \cup {w}
  /\ Requested(reg[w] \cup (IF w = 0 THEN ext ELSE {}))
  /\ UNCHANGED <<task, q, inbox, shared, loop, cur, up, reg, ext, idle, draining, deadline, stopped, survivors, late, stopper, prog>>

\* Mutant: the external tasks are not taken over.
SweptNoExternal(w) == reg[w] \ Done(Tasks)

\* sweep_tasks(), which takes the external tasks first.
Swept(w) == (reg[w] \cup (IF w = 0 THEN ext ELSE {})) \ Done(Tasks)

TakenExt(w) == IF w = 0 THEN {} ELSE ext

\* Mutant: worker 0 waits for the tasks, however long.
DrainStepNoDeadline(w) ==
  LET idleNow == [idle EXCEPT ![w] = Swept(w) = {}] IN
  /\ loop[w] = "drain" /\ w \in started
  /\ reg' = [reg EXCEPT ![w] = Swept(w)]
  /\ ext' = TakenExt(w)
  /\ idle' = idleNow
  /\ stopped' = IF w = 0 /\ \A v \in Workers : idleNow[v] THEN Workers ELSE stopped
  /\ Loop(w, "top")
  /\ UNCHANGED <<task, node, queues, cur, up, started, draining, deadline, survivors, late, stopper, prog>>

\* Then the sweep; worker 0 decides.
DrainStep(w) ==
  LET idleNow == [idle EXCEPT ![w] = Swept(w) = {}] IN
  /\ loop[w] = "drain" /\ w \in started
  /\ reg' = [reg EXCEPT ![w] = Swept(w)]
  /\ ext' = TakenExt(w)
  /\ idle' = idleNow
  /\ stopped' = IF w = 0 /\ ((\A v \in Workers : idleNow[v]) \/ deadline # "armed")
                THEN Workers ELSE stopped
  /\ Loop(w, "top")
  /\ UNCHANGED <<task, node, queues, cur, up, started, draining, deadline, survivors, late, stopper, prog>>

\* The end of threadFunction(): what is still in the registry has survived.
ExitSweep(w) ==
  /\ loop[w] = "top" /\ w \in stopped
  /\ survivors' = survivors + Cardinality(Swept(w))
  /\ reg' = [reg EXCEPT ![w] = Swept(w)]
  /\ ext' = TakenExt(w)
  /\ Loop(w, "release")
  /\ UNCHANGED <<task, node, queues, cur, up, idle, started, draining, deadline, stopped, late, stopper, prog>>

\* release_registered_tasks(), which takes the external tasks once more and counts
\* nothing; then the kicks, once more.
ExitRelease(w) ==
  /\ loop[w] = "release"
  /\ reg' = [reg EXCEPT ![w] = {}]
  /\ ext' = TakenExt(w)
  /\ kicks' = [kicks EXCEPT ![w] = {}]
  /\ task' = Queued(Kicked(w))
  /\ q' = [q EXCEPT ![w] = @ \cup Kicked(w)]
  /\ Loop(w, "gone")
  /\ UNCHANGED <<node, inbox, shared, cur, up, idle, started, draining, deadline, stopped, survivors, late, stopper, prog>>

(***************************************************************************)
(* Uvent::stop(), from a thread outside the runtime                        *)
(***************************************************************************)

StopDraining ==
  /\ prog.stops /\ stopper = "out"
  /\ draining' = TRUE
  /\ stopper' = "deadline"
  /\ UNCHANGED <<task, node, queues, loop, cur, up, reg, ext, idle, started, deadline, stopped, survivors, late, prog>>

StopDeadline ==
  /\ stopper = "deadline"
  /\ deadline' = "armed"
  /\ stopper' = "back"
  /\ UNCHANGED <<task, node, queues, loop, cur, up, reg, ext, idle, started, draining, stopped, survivors, late, prog>>

\* A second call while the drain goes on stops the workers.
StopAgain ==
  /\ stopper = "back"
  /\ stopped' = Workers
  /\ stopper' = "over"
  /\ UNCHANGED <<task, node, queues, loop, cur, up, reg, ext, idle, started, draining, deadline, survivors, late, prog>>

DeadlinePasses ==
  /\ deadline = "armed"
  /\ deadline' = "passed"
  /\ UNCHANGED <<task, node, queues, loop, cur, up, reg, ext, idle, started, draining, stopped, survivors, late, stopper, prog>>

Init ==
  /\ task = [t \in Tasks |-> Idle]
  /\ node = [n \in Nodes |-> [parent |-> IF n = Scope THEN Root ELSE None, requested |-> FALSE, live |-> 0,
                              status |-> FALSE, waiters |-> {}]]
  /\ q = [w \in Workers |-> {}] /\ inbox = q /\ kicks = q /\ reg = q /\ shared = {} /\ ext = {}
  /\ loop = [w \in Workers |-> "top"]
  /\ cur = [w \in Workers |-> None] /\ up = cur
  /\ idle = [w \in Workers |-> FALSE] /\ started = {} /\ draining = FALSE
  /\ deadline = "unset" /\ stopped = {} /\ survivors = 0 /\ late = {} /\ stopper = "out"
  /\ prog \in Programs

TaskStep(w, t) ==
  \/ Sleep(w, t) \/ WaitForGood(w, t) \/ JoinPush(w, t) \/ Recheck(w, t)
  \/ \E n \in Nodes : Join(w, t, n) \/ Cancel(w, t, n)
  \/ \E c \in Tasks, p \in Nodes : \E where \in prog.homes[c] : Spawn(w, t, c, p, where)

CompleteStep(w, t) ==
  LeaveScope(w, t) \/ Complete(w, t) \/ WakeDone(w, t) \/ DropLive(w, t) \/ WakeJoin(w, t)

WorkerStep(w) ==
  \/ Turn(w) \/ Adopt(w) \/ ProcessInboxAndKicks(w)
  \/ DrainCancel(w) \/ DrainStep(w) \/ ExitSweep(w) \/ ExitRelease(w)
  \/ \E t \in Tasks : TaskStep(w, t) \/ CompleteStep(w, t)

Next ==
  \/ \E w \in Workers : WorkerStep(w)
  \/ \E t \in Tasks : TimerFires(t)
  \/ SpawnRoot \/ StopDraining \/ StopDeadline \/ StopAgain \/ DeadlinePasses

\* A worker that runs goes on, and so do the clock and a call of stop() that has
\* begun.  Nothing obliges a timer to fire in time.
Fairness ==
  /\ \A w \in Workers : WF_vars(WorkerStep(w))
  /\ WF_vars(StopDeadline) /\ WF_vars(DeadlinePasses)

Spec == Init /\ [][Next]_vars /\ Fairness

(***************************************************************************)
(* Properties                                                              *)
(***************************************************************************)

\* The completion of a task that is still to reach n.
WillWake(n) ==
  \E w \in Workers :
    \/ n \in Tasks /\ cur[w] = n /\ loop[w] = "wake"
    \/ n = Scope /\ up[w] = n /\ loop[w] = "drained"

\* A task that waits in a join has not been forgotten: what it waits for is still
\* going on, or the one that completes it is about to look at the list (JoinAwaiter
\* against complete() and wake_join_if_drained()).
NoForgottenJoiner ==
  \A t \in Tasks : task[t].st = "join" =>
    LET n == task[t].waitsFor IN t \in node[n].waiters /\ (Over(n) => WillWake(n))

\* A join that has returned says the truth: the task is done, and nothing lives below
\* the scope unless its owner has spawned again (live_tasks over a whole subtree,
\* counted by spawns and completions on several workers).
JoinTellsTheTruth ==
  \A t \in Tasks : task[t].st \in {"run", "queued", "inbox"} /\ task[t].joined # None =>
    IF task[t].joined \in Tasks THEN node[task[t].joined].status
    ELSE \A c \in Below(task[t].joined) \cap Tasks : node[c].status

\* Once every worker has left, the survivors that were counted are at least the tasks
\* that are not done: none is lost, in an inbox, in the shared queue or asleep, on
\* whatever worker and however early its idle flag made worker 0 stop.  Not counted
\* are external tasks registered after worker 0's own count (sweep_tasks() and
\* drain_survivors at the end of threadFunction(), register_task_external()).
SurvivorsAreCounted ==
  (\A w \in Workers : loop[w] = "gone") =>
    survivors >= Cardinality({t \in Tasks \ late : task[t].st # "none" /\ ~node[t].status})

\* After stop() the workers leave, whatever the tasks do (drainStep and its deadline).
StopEnds == draining ~> \A w \in Workers : loop[w] = "gone"
=============================================================================
