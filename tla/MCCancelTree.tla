---------------------------- MODULE MCCancelTree ----------------------------
(* A task without a parent, whose coroutine opens a scope and spawns a task in it. *)
EXTENDS CancelTree, TLC

CONSTANTS outer, nested, inner, u1, w1, w2

Chain == (outer :> None) @@ (nested :> outer) @@ (inner :> nested)

Holders == (outer :> u1) @@ (nested :> outer) @@ (inner :> outer)
=============================================================================
