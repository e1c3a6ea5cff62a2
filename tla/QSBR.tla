-------------------------------- MODULE QSBR --------------------------------
(***************************************************************************)
(* Quiescent-state reclamation (QSBR.cpp).  A thread announces the epoch   *)
(* in which it reads; an object is freed when every thread that is reading *)
(* has announced a later epoch than the one in which it was retired.  The  *)
(* object itself, one pointer that readers load and writers replace, is    *)
(* external: the library retires nothing of its own through g_qsbr.        *)
(***************************************************************************)
EXTENDS QueueThreads, FiniteSetsExt

CONSTANTS
  Objects,   \* addresses of objects, numbers from 1
  MaxEpoch   \* bound: global_epoch_

VARIABLES
  global,    \* global_epoch_
  states,    \* ThreadState of each thread: epoch, active, in_use
  limbo,     \* retired_tls_ of each thread: <<object, epoch>>
  orphaned,  \* orphans_
  shared,    \* the pointer that readers load
  live,      \* objects that are allocated
  adopted    \* objects that were freed from the list of the orphans

qsbrvars == <<global, states, limbo, orphaned, shared, live, adopted>>

Attached(t) == states[t].in_use

\* attach_current_thread(): a state that was used before is taken inactive.  gets
\* bounds the threads attached and the objects replaced.
Attach(t) ==
  /\ At(t, "idle") /\ ~Attached(t) /\ gets < MaxGets[kind]
  /\ gets' = gets + 1
  /\ states' = [states EXCEPT ![t].in_use = TRUE, ![t].active = FALSE]
  /\ UNCHANGED <<kind, th, put, got, global, limbo, orphaned, shared, live, adopted>>

\* detach_current_thread(): inactive; what is retired is left to the others, under
\* the lock of the orphans; the state is given back.
Detach(t) ==
  /\ At(t, "idle") /\ Attached(t)
  /\ states' = [states EXCEPT ![t].active = FALSE]
  /\ Set(t, [IdleThread EXCEPT !.pc = IF limbo[t] = {} THEN "give_back" ELSE "hand_over"])
  /\ UNCHANGED <<kind, put, got, gets, global, limbo, orphaned, shared, live, adopted>>

HandOver(t) ==
  /\ At(t, "hand_over")
  /\ orphaned' = orphaned \cup limbo[t]
  /\ limbo' = [limbo EXCEPT ![t] = {}]
  /\ Set(t, [IdleThread EXCEPT !.pc = "give_back"])
  /\ UNCHANGED <<kind, put, got, gets, global, states, shared, live, adopted>>

GiveBack(t) ==
  /\ At(t, "give_back")
  /\ states' = [states EXCEPT ![t].in_use = FALSE]
  /\ Set(t, IdleThread)
  /\ UNCHANGED <<kind, put, got, gets, global, limbo, orphaned, shared, live, adopted>>

\* enter(): the epoch, then the flag.
Enter(t) ==
  \/ /\ At(t, "idle") /\ Attached(t) /\ t \in Consumers[kind]
     /\ Set(t, [IdleThread EXCEPT !.pc = "entering", !.pos = global])
     /\ UNCHANGED <<kind, put, got, gets, qsbrvars>>
  \/ /\ At(t, "entering")
     /\ states' = [states EXCEPT ![t].epoch = th[t].pos, ![t].active = TRUE]
     /\ Set(t, [IdleThread EXCEPT !.pc = "inside"])
     /\ UNCHANGED <<kind, put, got, gets, global, limbo, orphaned, shared, live, adopted>>

\* External: the reader loads the pointer and uses the object until it leaves.
ReadShared(t) ==
  /\ At(t, "inside")
  /\ Set(t, [th[t] EXCEPT !.pc = "using", !.s = shared])
  /\ UNCHANGED <<kind, put, got, gets, qsbrvars>>

Leave(t) ==
  /\ At(t, "using")
  /\ states' = [states EXCEPT ![t].active = FALSE]
  /\ Set(t, IdleThread)
  /\ UNCHANGED <<kind, put, got, gets, global, limbo, orphaned, shared, live, adopted>>

\* External: a writer replaces the object, then retires the old one.
Replace(t) ==
  /\ At(t, "idle") /\ Attached(t) /\ t \in Producers[kind] /\ Objects # live /\ gets < MaxGets[kind]
  /\ gets' = gets + 1
  /\ shared' = Min(Objects \ live)
  /\ live' = live \cup {Min(Objects \ live)}
  /\ Set(t, [IdleThread EXCEPT !.pc = "retire", !.s = shared])
  /\ UNCHANGED <<kind, put, got, global, states, limbo, orphaned, adopted>>

Retire(t) ==
  /\ At(t, "retire")
  /\ limbo' = [limbo EXCEPT ![t] = @ \cup {<<th[t].s, global>>}]
  /\ Set(t, IdleThread)
  /\ UNCHANGED <<kind, put, got, gets, global, states, orphaned, shared, live, adopted>>

(***************************************************************************)
(* quiesce_tick(): min_active_epoch(), thread by thread; one epoch more if *)
(* nobody is behind; min_active_epoch() again; what is older is freed.     *)
(* pos is the minimum so far, MaxEpoch + 1 for none.                       *)
(***************************************************************************)

BeginTick(t) ==
  /\ At(t, "idle") /\ Attached(t) /\ t \in Producers[kind]
  /\ limbo[t] # {} \/ orphaned # {}
  /\ Set(t, [IdleThread EXCEPT !.pc = "min1", !.pos = MaxEpoch + 1, !.todo = Threads])
  /\ UNCHANGED <<kind, put, got, gets, qsbrvars>>

LookAt(t) ==
  LET r == Min(th[t].todo)
      e == IF Attached(r) /\ states[r].active THEN states[r].epoch ELSE MaxEpoch + 1
  IN
  /\ th[t].pc \in {"min1", "min2"} /\ th[t].todo # {}
  /\ Set(t, [th[t] EXCEPT !.pos = Min({@, e}), !.todo = @ \ {r}])
  /\ UNCHANGED <<kind, put, got, gets, qsbrvars>>

Least(t) == IF th[t].pos = MaxEpoch + 1 THEN global ELSE th[t].pos

\* The comparison and the fetch_add are two accesses: another thread may have
\* raised the epoch in between.
Compare(t) ==
  /\ At(t, "min1") /\ th[t].todo = {} /\ global < MaxEpoch
  /\ Set(t, IF Least(t) = global THEN [th[t] EXCEPT !.pc = "raise"]
            ELSE [th[t] EXCEPT !.pc = "min2", !.pos = MaxEpoch + 1, !.todo = Threads])
  /\ UNCHANGED <<kind, put, got, gets, qsbrvars>>

Raise(t) ==
  /\ At(t, "raise") /\ global < MaxEpoch
  /\ global' = global + 1
  /\ Set(t, [th[t] EXCEPT !.pc = "min2", !.pos = MaxEpoch + 1, !.todo = Threads])
  /\ UNCHANGED <<kind, put, got, gets, states, limbo, orphaned, shared, live, adopted>>

Old(list, safe) == {r \in list : r[2] < safe}

Sweep(t) ==
  LET old == Old(limbo[t], Least(t)) IN
  /\ At(t, "min2") /\ th[t].todo = {}
  /\ limbo' = [limbo EXCEPT ![t] = @ \ old]
  /\ live' = live \ {r[1] : r \in old}
  /\ Set(t, [IdleThread EXCEPT !.pc = "adopt", !.pos = Least(t)])
  /\ UNCHANGED <<kind, put, got, gets, global, states, orphaned, shared, adopted>>

\* The orphans, if there are any, are examined under their lock, with the same epoch.
Adopt(t) ==
  LET old == Old(orphaned, th[t].pos) IN
  /\ At(t, "adopt")
  /\ orphaned' = orphaned \ old
  /\ live' = live \ {r[1] : r \in old}
  /\ adopted' = adopted \cup {r[1] : r \in old}
  /\ Set(t, IdleThread)
  /\ UNCHANGED <<kind, put, got, gets, global, states, limbo, shared>>

QsbrInit ==
  /\ global = 1
  /\ states = [t \in Threads |-> [epoch |-> 0, active |-> FALSE, in_use |-> FALSE]]
  /\ limbo = [t \in Threads |-> {}] /\ orphaned = {}
  /\ shared = 1 /\ live = {1} /\ adopted = {}

QsbrStep(t) ==
  \/ Attach(t) \/ Detach(t) \/ HandOver(t) \/ GiveBack(t)
  \/ Enter(t) \/ ReadShared(t) \/ Leave(t) \/ Replace(t) \/ Retire(t)
  \/ BeginTick(t) \/ LookAt(t) \/ Compare(t) \/ Raise(t)
  \/ Sweep(t) \/ Adopt(t)
=============================================================================
