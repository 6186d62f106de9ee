-------------------------- MODULE MCPartitionStore --------------------------
(* Instance of PartitionStore for TLC.                                       *)
EXTENDS PartitionStore, TLC

CONSTANTS p1, p2, t1, t2, t3, k1, k2, d1, d2

(* Two threads share a process, the third has one of its own. *)
MCProcessOf == (t1 :> p1) @@ (t2 :> p1) @@ (t3 :> p2)

(* k2 is bound by an explicit regime, or automatically and then read-only. *)
MCRegistrations ==
  {[key |-> k1, regime |-> AnyRegime, mode |-> "read_write"],
   [key |-> k2, regime |-> 1, mode |-> "fresh"],
   [key |-> k2, regime |-> AnyRegime, mode |-> "immutable"]}

(* Opposite orders, so that two transactions can wait for each other. *)
MCBatches == {<<d1, d2>>, <<d2, d1>>}

Symmetry == Permutations({d1, d2}) \cup Permutations({t1, t2})

=============================================================================
