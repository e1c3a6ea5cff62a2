------------------------- MODULE MCCompletionSockets -------------------------
(***************************************************************************)
(* CompletionSockets with two coroutines.                                  *)
(***************************************************************************)
EXTENDS CompletionSockets, TLC

CONSTANTS a, b

Symmetry == Permutations(Tasks)
=============================================================================
