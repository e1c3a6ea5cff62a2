# uvent in TLA+

uvent is a coroutine runtime for C++23: worker threads that each run a poller, a
timer wheel and a queue of coroutines; synchronisation primitives, channels and
cancellation for those coroutines; and asynchronous sockets on top. This
directory holds TLA+ models of its concurrent parts, the TLC runs that check
them on small instances, and TLAPS proofs for any number of coroutines and
workers.

Paths below are relative to the repository (`include/uvent/...`, `src/...`,
which `PROJECT.json` names with the prefix `src/`).

## 1. The system

### Inventory

| Component | State | Operations | Hard part | What makes it correct |
|---|---|---|---|---|
| Waiter lists (`sync/WaitList.h`, `sync/SyncCommon.h`) | intrusive list, claim word of a node | push, pop_front, remove, claim, fire | a waker and a canceller want the same node | one of them gets it |
| `AsyncMutex` | lock word, wait list | lock, try_lock, unlock, Guard | unlock racing with lock, with cancellation and with the suspension of the waiter | one owner, no stranded waiter, no double resume |
| `OpWait` and `AsyncSemaphore`, `AsyncEvent`, `WaitGroup` | a counter or flag, wait list | acquire, release(n), wait, set, reset, add, done | the wake-up between the failed test and the link of the node | conservation, no lost wake-up |
| `AsyncBarrier` | arrivals of the phase, list of nodes in the waiters' frames | arrive_and_wait | phases that overlap, nodes that vanish when their coroutine runs | nobody early, everybody released once |
| Channels and select (`AsyncChannel.h`, `AsyncUnboundedChannel.h`, `Select.h`), tokens (`AsyncCancellation.h`) | queue, two wait lists, closed flag; a winner word | send, recv, try_*, close, select, select_recv, on_cancel | close against parked senders and receivers; several nodes, one winner | nobody parked for what has happened, one resume, drained before the end |
| Cancellation tree (`sync/CancelState.h`, `tasks/Task*.{h,cpp}`) | reference counts, children lists, flags, owner, pending kick | spawn_under, link, request_cancel, kick, process_kick, complete, release | states die while a walk passes; tasks without an owner yet | no use after free, no leak, cancellation reaches the subtree and every parked task |
| Tasks and scopes | live_tasks along the chain of parents, waiters of a join | spawn, join, cancel, completion, ~TaskScope | a completion between the joiner's look and its push | a joiner is woken, and then everything below has ended |
| Worker inbox and wake-up (`IntrusiveMPSC.h`, `pool/TLS.*`, `EPoller.cpp`) | linked queue with a stub, flags, eventfd | push_task_inbox, push_cancel_kick, kick_poller, wake, poll, processInboxQueue, unset_poller | half-done pushes, a flag and an eventfd that must agree, exit of the worker | no lost coroutine, no sleep on work, no write to a closed descriptor |
| Worker loop (`system/Thread.cpp`), thread pool, shared tasks | run queue, shared queue, inbox, kicks | threadFunction, adoption of shared tasks | order of the queues in an iteration | every queue is served |
| Runtime drain (`UVENT_RUNTIME_DRAIN`, off by default) | registry of task roots, phases, deadline | register, drainStep, stop | worker 0 decides for everybody | stop() ends, survivors are counted |
| Timer wheel (`utils/timer/*`) | levels and slots, queue of operations | add, update, remove, cancel, tick, cascade | operations queued while timers fire | a timer fires once, not early, with a known bound on how late; a removed one does not |
| Queues (`ConcurrentQueues.h`) | rings with sequence numbers, segments | try_enqueue, try_dequeue, bulk calls | concurrent producers and consumers, dead cells | each value once, in its producer's order |
| Reclamation (`HazardPointers`, `QSBR`) | published pointers, retired lists, epochs | protect, retire, scan; enter, leave, quiesce_tick | a reader between load and publication; threads that exit in steps, handing over what they retired | nothing freed while it is used |
| Reactor sockets (`net/SocketLinux.*`, `net/SocketBSD.*`, `net/SocketMetadata.h`, epoll, kqueue) | header with reader and writer words, timer, owner, references | reads, writes, accept, connect, sendfile, set_timeout_ms, update_timeout, shutdown, forwarding | edge, timeout, cancellation and shutdown racing for one waiter; a header used from two workers | no lost edge, one resume per wait, the header freed after its last user |
| Completion sockets (`net/SocketLinuxIOUring.*`, `net/SocketWindows.*`, their pollers) | operations in the kernel, completions, provided buffers, references | the same operations; multishot receive and accept | a completion that outlives its operation; data received before it is asked for | completions find their operation, bytes in order, buffers and references conserved |
| Happy Eyeballs, resolver, fibers | attempt list; thread pool; stacks | connect race; resolve; park and resume | several attempts, one result | one winner, the others closed |
| Introspection, settings, errors, vectors, buffers | -- | -- | -- | no protocol of their own |

### How the parts interact

A coroutine that awaits a primitive links a node that lies in its own frame into
the primitive's wait list, arms a cancel hook in the frame and suspends; control
returns to its worker's loop. Whoever pops the node (an `unlock()`, a
`release()`, the cancellation) puts the coroutine's handle into the run queue of
the worker that parked it: directly if it is the same thread, otherwise through
that worker's inbox and a wake-up of its poller. A cancellation walks down the
tree of cancellation states and sends each task a *kick* through a second queue
of the same kind; the owning worker takes it between two resumptions and runs
the hook, so the hook never runs while the coroutine does.

A socket belongs to one worker, whose poller and timer wheel know it. A
coroutine that would block parks in a word of the socket's header, from which
the poller, the timer, a cancellation or a shutdown takes it. Another worker may
use the socket too: it probes and parks itself, but asks the owner, through a
queue of socket operations, to arm timers, shut down or destroy. io_uring and
IOCP turn this around: the operation is given to the kernel and the coroutine is
resumed by its completion.

The models are cut along these lines. `Coroutines` is the contract between a
primitive and the runtime; the primitives, the channels and the reactor sockets
are modelled above it, `Inbox`, `CancelTree` and `Runtime` below it.
`CompletionIO` has a smaller contract of its own, because everything there
happens on one worker.

## 2. Modules

| Module | Models | State and actions |
|---|---|---|
| `WaitList` | `sync/WaitList.h` | a list is the sequence of its waiters; `push_locked`, `remove_locked`, `InList` |
| `Coroutines` | the worker's loop as a primitive sees it | `running`, `ready` (handles queued per coroutine), `cancel_fn` (armed hook), `requested`, `kick`; `LoopResume`, `resume_on`, `Suspend`, `RequestCancel`, `PushKick`, `TakeKick` |
| `AsyncMutex` | `sync/AsyncMutex.{h,cpp}` | `state_`, `waiters_`, `pc`, `own`, `target`; an action for every step between two shared accesses of `lock`, `try_lock`, `unlock`, `on_cancel` |
| `HandoffLock` | what the mutex promises | `owner`, `queue`; `Acquire`, `Wait`, `Withdraw`, `Release` |
| `OpWait` | `sync/Wait.h` | the await protocol: `CheckCancel`, `Attach`, `Recheck`, `Detach`, `ArmCancel`, `WithdrawSelf`, `Resume`, `OnCancel`, `fire_waiters` |
| `AsyncSemaphore`, `AsyncEvent`, `WaitGroup` | the three primitives over `OpWait` | `count_`, `held`, `k`; `set_`, `reset_`; `cnt_`, `owed`; one action per step of their operations |
| `WaitPrimitives` | coroutines sharing one of the three | `kind`; the next-state relation of the primitive chosen initially |
| `AsyncBarrier` | `sync/AsyncBarrier.h` | `arrived_`, `waiters_`, the `list` a last arriver releases; `Arrive`, `ReleaseNext`, `Pass`, `Resume`; histories `arrivals`, `ticket` |
| `Channels` | bounded and unbounded channels, tokens, `select`, `select_recv` | `queue_`, `closed_`, a list per side, the `winner` of a suspended call, its timer; all calls run one loop: poll the branches, link a node per branch, look again, arm, suspend, leave |
| `CancelTree` | `CancelState`, `TaskStateBase`, `spawn_under`, handles | any arrangement of scopes and tasks under each other, each held by a thread or by a task's coroutine; reference counts, lifetimes, children, locks, kicks, coroutines and a call stack per thread; an action per step of `link`, `request_cancel`, `kick`, `process_kick`, `release` |
| `Runtime` | `Thread.cpp`, `Task.cpp`, `TLS.cpp`, `Uvent.cpp`: loop, joins, drain | tasks, spawned by tasks or from outside, the nodes with `live_tasks` and waiters, run queues, inboxes, shared queue, kicks, registries, `drain_idle`, the deadline, what each sweep counts; an action per stage of the loop, per step of a completion and of a join, per step of `stop()` |
| `Inbox` | the intrusive queue, the flags, the eventfd, the loop, the exit | every shared access of `push` and `pop` is an action; `PushFlag`, `KickEnter` ... `KickLeave`, `PollWake`, `DrainRead`, `DrainClear`, `TakeFlag`, `Unset`, `Close` |
| `TimerWheel` | `utils/timer/*` and the poll and tick around it in `system/Thread.cpp` | the clock, the poll in progress (`wakeAt`), the wheel's `currentTime_`, `buckets_`, `timerMap_`, the queued operations and the Timer objects; an action per call (`addTimer`, `updateTimer`, `removeTimer`, `cancelTimer`, `cancelTimerDetach`), per drained operation and per entry that `processSlot` handles |
| `SocketHeader` | `net/SocketMetadata.h` and the kernel's side of a descriptor | the header with its words `rd`, `wr`; bytes to read, room to write, edges; each coroutine's operation; `Park`, `ArmCancel`, `OnCancel`, `Disarm`, the peer |
| `SocketLinux`, `SocketBSD` | the operations over epoll and kqueue, and the pollers | an action per system call of each operation, `EpollWait`, `KqueueWait`, `PollRead`, `PollWrite`, `PollHup` |
| `SocketLifetime` | timers, references, forwarding, connect, destruction | `ops` (`sock_ops_q_`), `mem`, `holds`; `SetTimeout`, `AddTimerRef`, `ShutdownThere`, `Claim`, `ProcessSocketTimeout`, `ApplySocketOp`, `FreeHeader` |
| `Sockets` | their composition | platform and kind of socket are chosen initially |
| `CompletionIO` | what the two completion platforms share | operations in the kernel `pend`, completions `cq`, provided buffers, the header and its references |
| `SocketIOUring`, `SocketWindows` | the operations and pollers of io_uring and IOCP | an action per stretch of an operation between two suspensions, per completion, per timeout |
| `CompletionSockets` | their composition | as `Sockets` |
| `QueueThreads` | threads that call a queue | where each thread is, values put and got |
| `RingQueues` | `SPSCQueue`, `MPMCQueue` | indices, cells with sequence numbers; one shared access per action |
| `SegmentedQueue` | `SegmentedMPMCQueue` and `HazardPointers` | segments, `head_`, `tail_`, spares, hazard slots, retired lists, orphans; one shared access per action |
| `QSBR` | `utils/sync/QSBR.cpp` | epochs, thread states, limbo lists, orphans; `attach`, `enter`, `leave`, `retire`, `quiesce_tick` and the exit of a thread, one shared access per action |
| `LockFree` | the three together | `kind` says what a behaviour is about |
| `WaitListProofs`, `AsyncMutexProofs`, `AsyncBarrierProofs`, `WaitPrimitivesProofs`, `ChannelsProofs`, `InboxProofs`, `CancelTreeProofs`, `RuntimeProofs` | -- | lemmas on lists; theorems on the mutex, the barrier, the primitives over `OpWait`, the channels, the inbox, the cancellation tree and the runtime (section 4) |
| `MC*` | -- | instances for TLC; `Inbox` and `TimerWheel` need none |

Definitions marked *Mutant* are deliberate mistakes next to the definition they
change; `PROJECT.json` pairs each property with one that breaks it. No
specification uses them.

### Conventions

* The build is the default one with `UVENT_ENABLE_REUSEADDR` on. In it a
  coroutine is resumed by the worker that parked it. With the option off it may
  be resumed elsewhere while `await_suspend` is still arming its hook; that
  build is not modelled. `Runtime` has `UVENT_RUNTIME_DRAIN` on.
* A section under the spinlock of a wait list is one step: the section touches
  at most one other shared variable, once. The tree locks of `CancelState` are
  not: a walk holds them for long and they may deadlock, so they are variables.
* Interleavings are sequentially consistent. The code establishes this where it
  matters with seq_cst fences (`notify_fence`) between the write of one flag and
  the read of another. The exception is `unset_poller()`, which uses
  release/acquire only; `Inbox` therefore has a processor with a store buffer.
  The queues are checked under sequential consistency too: their memory orders
  are not part of the model.
* A coroutine between two calls of a primitive is free: it may call anything
  it is allowed to, await something else (`Yield`) or hold on to its guard.
* A cancellation is requested by anybody at any time, once per task;
  `Coroutines` has the request, the push of the kick and its processing as
  separate steps. That the kick does arrive is the subject of `CancelTree` and
  `Inbox`.
* Bytes are counted in the reactor sockets and numbered in the completion
  sockets, whose multishot receive could reorder them. The connections waiting
  at a listener are its bytes.
* An invariant that a run checks is often a conjunction of named parts
  (`ReleaseIsSound`, `LifetimesAreSound`, `WheelIsSound` ...), each with its own
  comment; the type invariant of the module is one of the parts. To find out
  which part fails, check the parts one by one.
* Where a property does not hold of the code in some situation, the step is kept
  and the property exempts the situation by name: `Probed` (a wait before the
  first probe), `hdr.loose` (a completion that has lost its operation), `adopted`
  (an orphan freed by somebody else), `hdr.taken` (a reference that is never
  given back), `timing = "careless"` (a timer used again before the owner has
  acted), `late` (a task registered after the count), `Unfinished` (a cell
  claimed and not published). Section 5 lists what is behind each.
* Some situations are left out of the runs instead, by what the environment does
  or by a constant. On a socket with a timer only the owner's coroutines wait. On
  the completion platforms no timer is set on a socket that was removed, and the
  timer of a connect does not fire before the connection is decided
  (`ConnectTimers`). A `CancellationToken` is a link made by somebody who has the
  handle of the state; the token's own reference is not modelled. A header has as
  many callers as the run has coroutines, and every run has the bounds below.

## 3. Runs

Every run takes less than four minutes with two TLC workers.

| Run | Instance | Shows |
|---|---|---|
| `mutex` | 3 coroutines on 3 workers, all cancellable; 58 621 states | exactly one owner, no stranded waiter, nobody resumed twice, refinement of `HandoffLock`; waiters get their turn |
| `wait_primitives` | 3 coroutines on 3 workers, one cancellable; semaphore with 2 permits, release(1) and release(2); events of both modes, set or not; wait group; 156 920 states | permits conserved, no lost permit, signal or zero, everybody resumed exactly once; cancellation or a lasting condition ends the wait |
| `barrier` | 4 coroutines, 3 parties, 9 arrivals (three phases); 156 096 states | nobody early, one waker each, no dangling node |
| `channels` | 3 coroutines on 3 workers, one cancellable; two channels of capacity 1 and an unbounded one; five programs, four calls; 763 501 states | nobody parked for what has happened, one resume however many branches fire, no node left behind, a closed channel is drained before it ends |
| `channel_docs` | a select with two send branches and a sender on one of them | *violation*: a sender waits although there is room |
| `cancel_tree` | a task without a parent, whose handle a user thread has; a scope that its coroutine opens, and a task that it spawns in the scope; 2 workers; 86 090 states | no use after free, exact counts, cancellation reaches children and parked tasks; what is no longer held is freed |
| `runtime` | 2 workers; a program of three tasks that spawn, join and cancel, and one of two tasks that meet `stop()`, the first on worker 1 and spawned at any time, also during the drain; 473 379 states | no joiner forgotten, a join that returns is true of the whole subtree, survivors are counted, `stop()` ends |
| `inbox` | 2 producers, 2 frames that are pushed again and again, with and without store buffer; 99 645 states | order, no sleep on work, flag and eventfd agree, every push is run, orderly exit |
| `timer` | one heap and one embedded timer, wheel of 4 levels with 2 slots, durations 0 and 5, an idle fallback of 2, four calls, clock from 6 to 12; 1 558 514 states | timers fire once, never early, never after a cancellation; no deleted timer in the wheel; the worker sleeps until the earliest timer, or for the idle fallback if one is due already |
| `sockets` | a socket (stream, datagram, listener, with a timer, connecting) on Linux or BSD; one coroutine on its owner and, on Linux, a cancellable one elsewhere; 942 327 states | no lost edge, one resume and an end for every wait, true results, the header lives exactly as long as its users unless a timer was used carelessly |
| `completion_sockets` | the same kinds over io_uring (with and without buffer rings) and IOCP, two coroutines; 1 660 772 states | completions find their operation, one resumer, bytes in order, buffers and references conserved |
| `queues` | 3 threads on one of: SPSC ring, MPMC ring, three shapes of the segmented queue, QSBR; 1 957 390 states | each value once and in order; a queue reported as empty was empty, or (MPMC ring) hides values behind an unpublished cell; nothing used after it is freed |

### Why these bounds

*Mutex and primitives.* A race here has a waker, a waiter that is popped and a
bystander that must not be forgotten or overtaken: three coroutines. Each has a
worker of its own. Coroutines that share a worker have fewer behaviours, not
more: a step of a coroutine only asks that it runs, or that its worker runs
nothing, and both hold as well if the others are moved to other workers. Two
permits let a `release(2)` meet two waiters. `MaxWork = 1` lets a counter go
through zero and up again from three sides. Every operation can be repeated
without limit, so no history is cut short.

*Barrier.* The arrivals are numbered to say what "early" means, hence the bound
`MaxArrivals`; nine arrivals are three phases, so one fills up while the one
before is being released, with a fourth coroutine that is in neither.

*Channels.* Capacity 1 is full after one value and empty after the next.
`Programs` says what each coroutine may call: plain sends and receives with a
close, the unbounded channel, a select over a receive, a send and a sleep,
`select_recv` with both channels closing, and a select with a token next to a
coroutine that waits for the token. `MaxCalls = 4` lets each of them happen and
one happen again. In these programs a select shares no side of a channel with
another waiter; the case where it does is `channel_docs`.

*Tree.* Three levels are needed for a walk that holds one lock and takes the
next. The one at the top is a task without a parent; below it is a scope nested
in its cancellation, and in that a task. The coroutine of the first task has the
handles of the other two, and a user thread that of the first: a walk from above
meets a cancel, a release and a completion below. Each coroutine may be on a
worker of its own.

*Runtime.* The first program has a task at each kind of home (this worker, the
other one, the shared queue), so that a completion on one worker climbs to a
scope whose owner joins on another. In the second, `stop()` is called at any time
of a program that still spawns, and the root may be spawned before, during or
after the drain; it runs on worker 1, so that worker's registry and its idle flag
matter to worker 0. `Programs` bounds the operations of each task. A
worker runs one task in a turn of its loop, and takes its inbox and its kicks in
one step; `Inbox` and `CancelTree` take those apart.

*Inbox.* Two producers give every half-done push with a finished one behind it;
two frames in flight, each pushed again after it ran, give a queue of length
0, 1 and 2, with and without the stub. Three frames (not kept) show nothing new.

*Timers.* A duration of 5 starts on the third level and comes down through the
others as the clock crosses 8, the point where three levels turn at once; the
fourth keeps distances below the wheel's range although a poll may last for the
idle fallback. A duration of 0 is due when it is added, and a timer that falls
due while the worker runs is so when the next timeout is computed. Four calls arm, refresh and cancel one
timer, or arm an embedded one again whose cancelled addition is still queued, or
let a second timer share the bucket. The wheel's time lags behind the clock by
at most `MaxLag`, so that distances stay below the wheel's range of
`Slots^Levels`. Nobody reads the clock while the wheel advances, so it stands
still there.

*Sockets.* Two bytes and a buffer of two make a read that is short, exact or
would block after a first piece (`Chunk = 1`); room for one byte makes every
write of two wait in the middle. `MaxRetries = 2` and `MaxSignals = 2` let the
interrupted calls reach the limit. Two calls and one timer give a wait, its end
by one of the four causes, and the next use of the same word. Timers are set and
the socket is shut down at any time; `timing` remembers whether that was ever done
before the owner had acted on what was forwarded to it, see section 5.

*Completion sockets.* Three bytes against a read size of two leave a piece of a
provided buffer (`BufSize = 3`) for the next read; the only buffer
(`BufCount = 1`) is missing whenever it is in use, so ENOBUFS happens. Three
calls and one fault (an interrupted call, a failed accept or a multishot that
ends) suffice for a re-armed multishot. On IOCP, where an old packet can be
taken for a new one, one call fewer is made after a packet was left behind.
`ConnectTimers = FALSE`: the timer of a connect does not fire before the
connection is decided; see section 5.

*Queues.* Rings of two cells are full and wrap around after two values. A
segment has two or three cells: two producers race to link a segment, two
consumers overtake the producer, and one thread on both sides makes segments
come back under the same address. A scan starts at one retired segment
(`Threshold`), where the code waits for 64 or more: scanning more often is the
harder case. Two threads may exit and leave orphans. One thread uses the bulk
calls. QSBR has three objects and four epochs.

### Fairness

Only the runtime's own steps are fair, and only weakly: a worker goes on
executing a coroutine that is inside an operation, resumes one whose handle it
has, processes a kick when it is idle; a thread inside `request_cancel()`, a
push or a wake-up finishes it. Threads of an operating system do. A coroutine
is never obliged to unlock, release or set: what the liveness properties need of
others is their hypothesis (`WaiterGetsTurn`: nobody keeps its guard for good;
`ConditionEndsWait`: the condition stays true). In `CancelTree` a running
coroutine is assumed to end and a handle to go out of scope; a *parked* one is
not assumed to be woken by anything but its cancellation. In `Inbox` the timeout
of `epoll_wait` is possible and not fair: the wake-up alone must do. In
`Runtime` the workers, the thread in `stop()` and the passing of the deadline
are fair; a sleeping task is not assumed to wake, nor a running one to heed its
cancellation, so `StopEnds` rests on the deadline.

With several coroutines on one worker the same holds if each of them suspends in
the end, because the worker serves its queues in order. A semaphore's `acquire()`
may lose the permit again each time it is woken; it is lock-free, not
starvation-free, and no property says otherwise.

The channels, the sockets, the queues and the timers have safety properties
only. Where something must happen in the end, an invariant says that somebody is
on the way to do it (`NobodyStranded`, `NoLostEdge`, `WaitsEndOnce`,
`LatenessIsBounded`, `NoForgottenJoiner`): it speaks of every reachable state and is
stronger than the liveness property under fairness of that somebody.

`CHECK_DEADLOCK FALSE` is where a system may come to rest: a worker that has
stopped leaves frames in its inbox, a runtime that has stopped does nothing, and
the bounds on calls end the programs on channels, sockets and queues. The runs
`mutex`, `wait_primitives`, `barrier`, `cancel_tree` and `timer` check for
deadlock.

## 4. Proofs

TLAPS proves the following for every value of the constants; the runs check the
same definitions on small instances.

| Component | Theorem | Property |
|---|---|---|
| mutex | `MutexExactlyOneOwner`, `MutexNoStrandedWaiter`, `MutexResumedOnce`, `MutexTypeOK` | `ExactlyOneOwner`, `NoStrandedWaiter`, `ResumedOnce`, types |
| | `MutexImplementsHandoffLock` | the refinement `ImplementsHandoffLock` |
| barrier | `BarrierNobodyPassesEarly`, `BarrierReleaseIsSound` | `NobodyPassesEarly`, `ReleaseIsSound` |
| semaphore, event, group | `WaitersResumedExactlyOnce`, `PermitsAreConserved`, `NoWakeupIsMissed` | `ResumedExactlyOnce`, `SemaphorePermitsConserved`, `NoMissedWakeup` |
| channels, select | `WaitsEndOnceAndCleanly`, `DrainedBeforeTheReceiverIsTold` | `WaitsEndCleanly`, `DrainedBeforeTheEnd` |
| | `NobodyIsLeftWaiting` (under `Uncontended`) | `NobodyStranded` |
| inbox | `InboxIsFIFO`, `InboxWakesItsWorker` | `PopsInOrder`, `WakeUpsAreSound` |
| cancellation tree | `StatesLiveLongEnough`, `CancellationMissesNobody` | `LifetimesAreSound`, `CancelMissesNobody` |
| runtime | `NoForgottenJoinerHolds`, `JoinTellsTheTruthHolds` | `NoForgottenJoiner`, `JoinTellsTheTruth` |
| | `SurvivorsAreCountedHolds` | `SurvivorsAreCounted` |

Each follows from an inductive invariant `IInv` of its module (`MutexInvariant`,
`BarrierInvariant`, `WaitPrimitivesInvariant`, `ChannelsInvariant`,
`InboxInvariant`, `CancelTreeInvariant`, `RuntimeInvariant`: `Spec => []IInv`).
There is a lemma per action, with a step per conjunct the action can disturb. Every `IInv` was checked by TLC on the
component's instance before it was proved. `WaitListProofs` has the facts about
lists that four of the modules share: a pushed, popped or removed node leaves the
others distinct and in place.

### Assumptions

* `Coroutines`: a home for every coroutine; `None` is not one.
* `TasksAssumption` (`OpWait`, `Channels`), `ProducersAssumption` (`Inbox`): there
  are finitely many coroutines, or producers. What is counted (permits, open work,
  producers in `kick_poller()`) would have no number otherwise.
* `PartiesAssumption`, `InitialAssumption`, `MaxHeldAssumption`,
  `MaxWorkAssumption`: `parties_`, permits and work are positive; the bounds on
  arrivals, permits in one hand and work are arbitrary.
* `ChannelAssumption`: capacities are positive, a token is not a channel.
  `ProgramsAssumption`: an operation that a coroutine calls has at least one
  branch; `select_recv()` has receive branches only; `on_cancel()` waits for the
  token and nothing else; a sleep among the branches is the coroutine's own (each
  `SleepOp` is in the frame of its `select()`). That is what the signatures
  admit. Which operations the coroutines call, in which order and on how many
  branches is arbitrary.
* `Uncontended` is a hypothesis of `NobodyIsLeftWaiting` and of no other theorem: a
  call with several branches that may suspend shares no side of a channel with
  another coroutine's call that may suspend. Calls with one branch may compete for
  a side in any number, the `try_` calls compete with everything, and selects may
  share a channel from different sides, or the token. The five programs of the run
  `channels` satisfy it (`AloneIsUncontended`, which TLC evaluates); without it the
  property is false, as `channel_docs` shows.
* `InboxAssumption`: the stub, the null pointer and the nodes are different.
* `TreeAssumption`: scopes and tasks, users and workers are different things. Any
  of the states may have any other, or none, as its parent: scopes nest in tasks
  and in scopes, tasks may have none. A handle is with a thread or with the
  coroutine of a task, of any task. The parents need not form a tree: that
  follows, since only what exists can be spawned under. `FiniteAssumption`: there
  are finitely many states and threads, so that references can be counted.
* `RuntimeAssumption`: worker 0, which decides the end of a drain, exists; the root
  is a task, the scope is not one, and `None` is neither nor a worker. The root is
  spawned from outside at any time, whatever the phase of a drain. `Programs`
  gives each task any number of operations and any places it may be spawned at.
  `FiniteAssumption` (`Runtime`): there are finitely many tasks, so that
  `live_tasks` can be counted.

### The mutex

None of the properties is inductive by itself. That a waiter is not enqueued
twice depends on where the one right to resume it is, and mutual exclusion
depends on the same, since the lock travels with that right. So the invariant
adds

* `ListInv`: no node is linked twice, and linked coroutines are inside `lock()`
  and not claimed by a cancellation;
* `RunInv`: which places of the code are executed and which are suspended, and
  that an executing coroutine has no handle queued;
* `TokenInv`: a linked waiter has no handle queued; an unlinked one has exactly
  one, or an `unlock()` between its pop and its `resume_on` owes it;
* `HandoffInv`: there is at most one such `unlock()`, and its target is the owner.

The refinement maps the owner to the coroutine with the guard or with a hand-off
on its way, and the queue to `waiters_`: `Enlist`, `Unlock`, `OnCancel` and
`WithdrawSelf` are steps of the lock, everything else stutters.

### The barrier

The properties speak of phases, the code of a counter that it resets. `CountInv`
ties them together: the arrivals of full phases (`Settled`, all arrivals less
`arrived_`) are a multiple of `parties_`. So a phase is full exactly when its
tickets are below `Settled`, which is what `TicketInv` says of everybody past the
barrier. `ListInv` and `TokenInv` say where the right to resume is: `waiters_`
holds the coroutines of the phase being filled, a list that a last arriver took
those of a full one, and a parked coroutine of a full phase is in one such list
or has one handle queued. The overlap of phases, a last arriver still resuming
while the next phase fills, is in the lists being disjoint.

### The semaphore, the event and the wait group

`WaitInv` is about `OpWait` alone and knows nothing of the condition waited for:
the node is linked and unclaimed, or it was claimed and one handle is queued,
also while the coroutine is still between linking and suspending. On top of it
comes why a waiter that is left alone need not be woken:

* `PermitInv`: while a coroutine depends on being woken, the free permits are at
  most the woken coroutines and the wake-ups that `release(n)` still owes. It
  counts who *was woken*, where `NoLostPermit` counts who is about to look: a
  coroutine may be popped while it is still looking, and the wake-up then adds
  nobody to those who look, so the property itself is not inductive.
* `SignalInv`: the same for the one flag of an event, in both modes.
* `WorkInv`: the counter of a group is the work that is open.

### Channels and select

The invariant has a part per coroutine. `TokenInv`: while the claim word of a
call is 0 no handle is queued, and whoever claims it (a sender, a receiver, a
close, a timer, a token, a cancellation) queues one. `LinkInv`: a linked node
belongs to a call that is at a place where it will unlink that node. Branches are
linked and unlinked in ascending order, so this is a comparison with the branch
the call is at (`MayBeLinked`), for any number of branches. `CallInv`: the branch
exists and is of the sort the place of the code needs. `EndInv`: values are
numbered as they were sent; a channel that was reported as ended is closed and
holds only values numbered after the close, and it stays so.

`NobodyStranded` needs to know how much has happened, not just that something has:
two values may arrive while two receivers wait, and a receiver that was woken may
find its value taken by a `try_recv()`. `StockInv` counts. While anybody waits at a
side of an open channel, the values (or free places) in it are at most the
coroutines through which one is on its way (`OnItsWay`): who put a value or took
one and has still to wake the other side, who is polling that side, who was woken
there and has not looked yet. A step that takes such a coroutine off its way must
take a value or a place with it, wake another, or find nothing there
(`QueueStep`, `FireSafe`, `OwnStep`); one that begins to wait has just seen, after
linking, that there is nothing (`RecheckSafe`). The one step that does none of
these is a woken `select()` that goes back to polling from another branch
(`LeaveSafe`): there `Uncontended` says that nobody else waits at the side it was
woken at. For a close and for the token the argument is not a count: `EndingInv`
says that whoever still waits where it is over is ahead of a waker that takes the
whole list. `HookInv` is the cancellation, `SleepInv` the timer, and `OpInv` ties
the call's record to the coroutine's program, which is what `Uncontended` speaks of.
`SInv`, their conjunction, is inductive together with `IInv`; TLC checked it on the
instance first.

### The inbox

`push()` exchanges `tail_` first and stores the link afterwards, and any number of
producers may be stopped in between. The invariant `Queue` says that there is a
sequence of links from `head_` to `tail_`, in the order of the exchanges, which
consists of the nodes pushed and not taken and at most one stub (`Shape`,
`Holds`); each is linked to its successor, or a producer, or the worker that puts
the stub back, is about to link it (`Joined`, `Pushes`); and what the worker read
in `pop()` still holds (`Front`). The sequence is existentially quantified: the
exchange appends to it, `pop()` takes its first element off, and a link fills a
gap.

For the wake-up, a node in the queue is noticed because the worker is in `pop()`,
the flag is set or its producer will set it (`Noticed`); a flag set since the
worker last looked comes with an edge or an active producer (`Roused`). For the
exit, `wake_inflight_` is the number of producers in `kick_poller()` (`Exits`), so
zero means that nobody is left to write to the descriptor.

### The cancellation tree

`request_cancel()` walks down from a state with the lock of each ancestor held and
without a reference to any child. The invariant says of every call under way what
its pointer hangs on. `Frames`: the outermost cancellation has the handle of its
holder, or the reference that `~TaskScope()` is about to drop; one further in is of
a child in the list of the state below it on the stack, whose lock the thread holds,
and a release must have that lock before it unlinks and deletes. The holder of a
handle may be a coroutine, which is suspended and resumed and may be on any
worker: `BelongsTo` names the thread that runs it now, and nobody runs it on two
(`OneThread`), so a call is of a state whose holder stands still for as long as
the call lasts. `Alone`: there is
one walk with the lock of a state, one claim of its kick and one thread that deletes
it. With `RefsAreExact`, which is needed as it stands, a count of zero means that
nobody but the deleting thread refers to the state (`Unreferenced`); `Alive`,
`Linked` and `Queued` place the references in the handles, the coroutines, the
children and the kick queues.

That a cancellation misses nobody needs what the walk has done: `Walked`, every child
before the position of a walk is cancelled or is the one whose cancellation is just
being called; new children go to the head of the list and copy the flag under the
lock, so they need no visit. And it needs why a skipped kick is not lost: `Pending`,
the flag `kick_pending` is set only while the kick is queued or its claimant is about
to queue it; the claimant of a parked coroutine's kick is a canceller, because an
adopting worker has not resumed the coroutine yet. `Fresh` says that nothing is
cancelled before it is spawned. `LifeInv` does not depend on the rest, so lifetimes
are sound whether or not cancellations are. The depth of the walks, the number of
children and the interleaving are arbitrary.

### The runtime

`live_tasks` of a node is what decides whether a scope is over, and a completion
counts it down from ancestor to ancestor, one step each, while others are spawned
below the same nodes. `LiveIsExact` says what it counts at every moment: the tasks
that owe the node a decrement (`Owes`), which are those with the node on their
chain of parents, and of a task in its completion only those it has not passed. A
spawn adds one to a whole chain, before the task can run; a decrement takes one
task out of one count. So a count of zero means that everything below is complete,
which is `Truthful`, and it stays so: only a task or its owner, inside the scope,
could spawn there.

The chain of a node is the intersection of the sets that contain it and, with a
node, its parent (`Upward`), so that nothing has to be proved by induction over
its length: what a spawn or a leaving scope does to a chain follows by exhibiting
such a set (`ChainsOfSpawn`), and that chains have no cycle is
part of the invariant (`Forest`).

`Remembered` is the promise to the joiner: it is in the list, and if what it waits
for is over somebody will look (`WillWake`): the completion of the task, or the one
that has just taken the count to zero. The joiner that looks again after its push
is covered by `Listed` and `InHand`, which tie the lists and the completions to
what the workers have in hand. `Surviving` is about the drain: the tasks that are
not done, in no registry (`Unregistered`) and not registered from outside after
worker 0's count (`late`) are at most the survivors counted, and a worker has left only with its registry empty, worker 0 only with that of
the external tasks empty as well.

The actions come in classes with a lemma each, so that a part of the invariant is
looked at once per class: steps that only move tasks between queues (`QueueMoves`),
that change one task's state (`TaskMoves`), that wake joiners (`FireMoves`), that
take a completion up (`WentUp`), and spawns (`SpawnedKeeps`).

### Only model-checked

* All liveness: fairness and ENABLED are out of the prover's reach.
* `NobodyStranded` in programs that are not `Uncontended`: there it is false.
* `TimerWheel`: the level and slot of a timer are computed from its expiry level by
  level. That a slot holds no timer of another revolution (`NoneOverdue`) is, for
  any number of levels, a fact by induction over them.
* `Sockets` and `CompletionSockets`: the operations of three platforms each, some
  fifty actions, with the exemptions of section 5 inside the properties. The claim
  of a wait is argued as in the channels; the counts of references as in the tree.
* `LockFree`: the order of the values in a segmented queue and the safe epochs of
  QSBR.

## 5. Where the code and its documentation differ, and what is exempted

With a run:

* `channel_docs`: `docs/channels/channels.md:48` says that a sender suspends
  until space becomes available. Taking a value wakes one waiter; if that is a
  `select()` with several send branches it may send to another channel and does
  not pass the wake-up on, so a sender behind it stays suspended next to room.

Met while modelling, without a run:

* *Barrier.* `docs/synchronization.md:18` calls every blocking operation
  cancellation-aware. `arrive_and_wait()` looks at no flag and arms no hook: a
  cancelled participant waits until the phase is full. The model has it so.
* *Mutex, event.* `docs/synchronization.md:41` calls the hand-off LIFO; it is
  first in, first out (`ImplementsHandoffLock`). Line 268 says `set()` of an
  auto-reset event clears the flag; the woken waiter does, and until then another
  `set()` wakes nobody. `NoMissedWakeup` is what holds instead.
* *Exit of a worker.* `pool/TLS.h:83` promises that nobody writes to a closed
  wake descriptor. The store of `nullptr` is a release and the following load of
  the counter an acquire, which a processor with a store buffer may execute in
  the other order. `WakeUpsAreSound` claims it where stores are visible at once.
* *Timers.* A timer a whole revolution of the top level or more ahead (from about
  2^32 + 2^24 ms) goes back into the bucket that `processSlot()` is emptying, and
  the loop does not end. Durations in the run stay below.
* *A timer that is already due.* `updateNextExpiryTime()` keeps the earliest
  expiry, and `getNextTimeout()` is 0 once that has passed. The loop takes only a
  positive timeout (`system/Thread.cpp:88`) and otherwise polls for
  `idle_fallback_ms`, so a timer that falls due while the worker runs coroutines,
  or is armed with no delay, may fire that much later. `LatenessIsBounded` says
  this, and that it is the only case: any other sleep ends with the earliest timer.
* *Drain.* `docs/drain.md:21` lets worker 0 stop the runtime when every registry
  is empty or the deadline passes. `stop()` sets `draining` before it stores the
  deadline, so a worker may see a deadline of zero and stop at once; and worker 0
  trusts a `drain_idle` that another worker has set before a task reached it. The
  tasks left over then are counted, which `SurvivorsAreCounted` is about. Lines 33
  and 34 put tasks spawned from outside into worker 0's registry. `register_task_external()`
  accepts them at any time, and worker 0 takes them for the last time when it
  leaves: one registered after its last sweep is neither cancelled nor counted,
  one that arrives before `release_registered_tasks()` has its reference dropped
  there and is not counted either (`late`).
* *Socket timers.* `net/SocketLinux.h:55` says the timer's reference is dropped
  exactly once. Between a foreign caller's request and its application the caller
  still reads `timer_id == 0`: a second timer, or a shutdown, in that window
  takes or drops the reference once too often or too little. The run has these
  behaviours; `timing = "careless"` takes them out of `HeaderLivesWithItsUsers`, and
  out of no other property, except that no end is promised to a wait then.
* *A timeout between a probe and its park.* If the timer takes the words of the
  header between another worker's probe and its park, nothing wakes the
  coroutine that parks afterwards. In the run only the owner's coroutines wait on
  a socket with a timer.
* *Waits without a probe.* `async_sendfile()` on Linux parks before it has tried
  to write, and an accept that fails for want of a descriptor parks with the
  connection in the backlog; under edge triggering no event is owed to either
  (`Probed`).
* *End of the stream on BSD.* `async_read()` returns 0 at the end even if bytes
  were read before it in the same call; on Linux it returns them.
* *Connect with a timeout.* `docs/socket.md:216` promises `ConnectError::Timeout`
  on all platforms. On IOCP the timer closes the descriptor and the call reports
  another failure; on io_uring the call drops the timer's reference although the
  timer has dropped it.
* *io_uring.* The reference a multishot receive takes is never given back
  (`hdr.taken`), so such a header is not freed. What the ring has received is
  ahead of what a direct `recv()` would return, so the calls that do not wait
  must not be mixed with the others. A multishot receive armed after the socket
  was removed, and an accept loop that fails after arming again, leave an
  operation in the kernel that names a frame that has gone.
* *IOCP.* An operation that succeeds at once queues its packet all the same, a
  timer resumes its coroutine while the operation is pending, and a hint left in
  the word ends a later wait at once: in each case a packet arrives for a frame
  that may have gone (`hdr.loose`). After that, a length may belong to another
  operation, and the properties stop claiming anything about the stream.
* *An MPMC ring that looks empty.* `MPMCQueue::try_dequeue()` looks at the cell at
  `dequeue_pos_` only: while a producer has claimed that cell and not published
  it, the call reports an empty queue although finished values may be behind
  (`empty()` does the same). `MissesOnlyBehindUnfinished` says that there is no
  other reason. The channels are not affected: their looks before a suspension
  (`empty_relaxed()`) compare the indices.
* *A value after close().* A sender that has passed its check may put a value
  into a channel that was closed and found empty meanwhile; `DrainedBeforeTheEnd`
  is about values from before the close.
* *Reclamation.* `quiesce_tick()` computes the safe epoch before it looks at the
  orphans, so one retired after that may be freed too early (`adopted`); nothing
  in the library retires through the global QSBR. `size_relaxed()` of the
  segmented queue protects head and tail one after the other; if head was found
  in a slot from an earlier call, and that slot is the next victim, the second
  call takes the first protection away. That head overtakes tail in
  that queue is harmless: the producer that links a segment protects the one it
  linked it to until tail has moved on.

## 6. Not modelled, and the plan

* *Happy Eyeballs and the resolver.* The attempts, the pacer and the two lookups
  are coroutines on one worker that share one state under a mutex; the lookups
  block on threads of their own.
* *Fibers.* The context switch is assembly; a fiber parks and is resumed inside
  one worker, by the same frames as a coroutine.
* *Containers off the runtime's paths*: `ConcurrentVector`,
  `ShardedConcurrentVector`, `FastQueue`, `DynamicBuffer`; introspection,
  settings, error types.
* *Parts of modelled components*: `size_relaxed()`; the bulk calls of
  `MPMCQueue`; the destruction of a `WaitGroup` by its waiter while `done()` is
  executing; the chain of frames that await each other and the cooperative
  budget; socket options and addresses; set-up and tear-down of the pollers and
  the wake-ups of the three that are not epoll; the start of the thread pool; the
  build without `UVENT_ENABLE_REUSEADDR`, with its shared wheel and shared
  poller.
* System calls are external to every model.

The behaviour of the system that the plan named is modelled, and the safety of
the synchronisation primitives, the channels, the inbox, the cancellation tree
and the runtime is proved. What is left to prove, in this order:

1. `Sockets`: `WaitsEndOnce` and `ResultsAreTrue`, by the claim-word argument of
   the channels;
2. `QSBR` and `RingQueues`: the epochs and the sequence numbers.
