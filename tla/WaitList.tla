------------------------------ MODULE WaitList ------------------------------
(***************************************************************************)
(* The intrusive FIFO list of parked waiters (sync/WaitList.h).  A list is *)
(* the sequence of its waiters, head first; a waiter is named by the       *)
(* coroutine whose frame its node is embedded in, so in_list of a node is  *)
(* membership.  Every operation is called with the list's spinlock held,   *)
(* which is why each is one operator and not several steps.                *)
(***************************************************************************)
EXTENDS Integers, Sequences

\* The waiters that are linked: Waiter::in_list.
InList(list) == {list[i] : i \in 1..Len(list)}

\* Link a node at the tail.
push_locked(list, w) == Append(list, w)

\* Unlink a node wherever it is; nothing happens to a node that is not linked.
remove_locked(list, w) ==
  LET at == CHOOSE i \in 1..Len(list) : list[i] = w
  IN  IF w \in InList(list)
      THEN SubSeq(list, 1, at - 1) \o SubSeq(list, at + 1, Len(list))
      ELSE list

\* No node is linked twice.
Distinct(list) == \A i, j \in 1..Len(list) : list[i] = list[j] => i = j
=============================================================================
