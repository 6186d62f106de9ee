------------------------------- MODULE MCCargoBus ------------------------------
(* Finite instances of CargoBus for TLC: the manifests that were signed. *)
EXTENDS CargoBus, TLC

CONSTANTS s1, s2, m1, m2, p, q, i1, i2

Manifest(operation, partition, ids, count, expires, conditions, reissues) ==
  [operation |-> operation, partition |-> partition, ids |-> ids,
   item_count |-> count, expires |-> expires, conditions |-> conditions,
   max_reissues |-> reissues]

\* Two loads into one partition that sign the same document id; one also retrieves.
Rivals == m1 :> Manifest("load", p, {i1}, 1, 2, {"ttl_expired"}, 0)
       @@ m2 :> Manifest("load_and_retrieve", p, {i1, i2}, 2, Never, {}, 1)

\* The two dock() calls are interchangeable.
Interchangeable == Permutations(Sessions)

================================================================================
