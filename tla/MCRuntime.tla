----------------------------- MODULE MCRuntime ------------------------------
(***************************************************************************)
(* Two workers and a root task with a scope.  One program has three tasks  *)
(* that spawn, join and cancel; in the other two of them meet stop().      *)
(***************************************************************************)
EXTENDS Runtime, TLC

CONSTANTS r, a, b

MCPrograms == {
  [ops |-> (r :> 2) @@ (a :> 1) @@ (b :> 0),
   homes |-> (r :> {0}) @@ (a :> {1}) @@ (b :> {0}),
   stops |-> FALSE],
  [ops |-> (r :> 1) @@ (a :> 1) @@ (b :> 0),
   homes |-> (r :> {1}) @@ (a :> {None}) @@ (b :> {}),
   stops |-> TRUE]}
=============================================================================
