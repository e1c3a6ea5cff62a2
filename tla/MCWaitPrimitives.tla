-------------------------- MODULE MCWaitPrimitives --------------------------
(* Three coroutines, each on its own worker. *)
EXTENDS WaitPrimitives, TLC

CONSTANTS t1, t2, t3, w1, w2, w3

Apart == (t1 :> w1) @@ (t2 :> w2) @@ (t3 :> w3)
=============================================================================
