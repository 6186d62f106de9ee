---------------------------- MODULE MCOperationGate ----------------------------
(* Finite instances of OperationGate for TLC: the contracts callers present. *)
EXTENDS OperationGate, TLC

CONSTANTS t1, t2, t3, a, b, k, v1, v2

Contract(symbol, children, conditions, depth, parent, release) ==
  [symbol |-> symbol, children |-> children, conditions |-> conditions,
   depth |-> depth, parent |-> parent, release |-> release]

\* A root that may be divided once, a sub-gate of it, and a leaf of a second
\* release.  The caller of the first release keeps its receipts carefully, the other
\* callers do not.
PairContracts == {
  Contract(a, {a}, {k}, 1, None, v1),
  Contract(a, {}, {k}, 0, t1, v1),
  Contract(a, {}, {}, 0, None, v2)}
CarefulGates == {RootGate(v1)}

\* Three generations of the second release: a root that may be divided twice or once,
\* its child, its child with an operation more for the next one, and grandchildren
\* that stay inside, take that operation or drop the condition.
Roots == {Contract(a, {a}, {k}, 2, None, v2), Contract(a, {a}, {k}, 1, None, v2)}
Children == {Contract(a, {a}, {k}, 1, t1, v2), Contract(a, {a, b}, {k}, 1, t1, v2)}
Grandchildren == {
  Contract(a, {}, {k}, 0, t2, v2), Contract(b, {}, {k}, 0, t2, v2), Contract(a, {}, {}, 0, t2, v2)}

LineageContracts == Roots \cup Children \cup Grandchildren
PresentedContracts == PairContracts \cup LineageContracts
OfferedContracts ==
  [t \in Tokens |-> CASE t = t1 -> PairContracts \cup Roots
                     [] t = t2 -> PairContracts \cup Children
                     [] OTHER  -> Grandchildren]

\* BOUND: each token is issued under the gate that its contract names; two of the first
\* set with all the verifier lives, or three of the second in one life.
Explored ==
  LET lineage == {t \in Issued : tokens[t].contract \in LineageContracts} IN
  /\ \A t \in Issued : tokens[t].contract.parent = tokens[t].gate.parent
  /\ \/ t3 \notin Issued /\ lineage = {}
     \/ lineage = Issued /\ starts <= 1 /\ \A g \in running : g.release = v2

\* Only the careful caller is relied upon to present its file.
BoundedSpec ==
  /\ GateInit /\ [][GateNext /\ Explored']_gateVars
  /\ \A g \in Careful : WF_gateVars(g \in HandedOut /\ Replay(g))

================================================================================
