----------------------------- MODULE MCLockFree -----------------------------
(***************************************************************************)
(* Small instances of the lock-free containers.  The segmented queue has   *)
(* three: two producers that race to link a segment, two consumers that    *)
(* overtake the producer (which takes three cells), and segments that are  *)
(* freed and used again (one hazard slot, one thread on both sides).       *)
(***************************************************************************)
EXTENDS LockFree

MCKinds == {"spsc", "mpmc", "producers", "consumers", "recycling", "qsbr"}

MCProducers == [k \in MCKinds |-> CASE k \in {"spsc", "consumers"} -> {1}
                                    [] k \in {"mpmc", "producers", "qsbr"} -> {1, 2}
                                    [] k = "recycling" -> {2}]

MCConsumers == [k \in MCKinds |-> IF k \in {"spsc", "producers"} THEN {3} ELSE {2, 3}]

MCMaxPuts == [k \in MCKinds |-> CASE k = "mpmc" -> 3
                                  [] k \in {"spsc", "consumers", "qsbr"} -> 4
                                  [] k = "producers" -> 5
                                  [] k = "recycling" -> 6]

MCMaxGets == [k \in MCKinds |-> IF k \in {"mpmc", "consumers"} THEN 3 ELSE 4]

MCSize == [k \in MCKinds |-> IF k \in {"producers", "consumers"} THEN 3 ELSE 2]

MCSlots == [k \in MCKinds |-> IF k = "recycling" THEN 1 ELSE 2]
=============================================================================
