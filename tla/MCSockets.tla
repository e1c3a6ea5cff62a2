------------------------------ MODULE MCSockets ------------------------------
(***************************************************************************)
(* Sockets with one coroutine on the socket's owner and one on another     *)
(* worker.                                                                 *)
(***************************************************************************)
EXTENDS Sockets, TLC

CONSTANTS r, k, a, b

MCHome == (r :> a) @@ (k :> b)
=============================================================================
