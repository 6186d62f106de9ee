--------------------------- MODULE MCConnectionBroker --------------------------
(* Finite instances of ConnectionBroker for TLC. *)
EXTENDS ConnectionBroker, TLC

CONSTANTS admin, agent, t

OneTenant == [p \in Principals |-> t]

\* No value of these sets is told from another, and all properties are invariants.
Symmetry == Permutations(Calls) \cup Permutations(Servers) \cup Permutations(Keys)
              \cup Permutations(Policies) \cup Permutations(Ids)

================================================================================
