--------------------------- MODULE MCAsyncBarrier ---------------------------
(* Four coroutines, each on its own worker. *)
EXTENDS AsyncBarrier, TLC

CONSTANTS t1, t2, t3, t4, w1, w2, w3, w4

Apart == (t1 :> w1) @@ (t2 :> w2) @@ (t3 :> w3) @@ (t4 :> w4)
=============================================================================
