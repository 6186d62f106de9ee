---------------------------- MODULE GateLibraryProofs ---------------------------
(***************************************************************************)
(* Proofs about the two parts of the gate library that keep state.          *)
(*                                                                         *)
(* OperationGate, for any number of tokens, scopes, releases and verifier  *)
(* lives, any contracts and any epochs: type correctness, one use per life *)
(* and what its receipts say, the attenuation law along whole lineages,    *)
(* the restorability of what was redeemed, and one use across lives for a  *)
(* caller that retains in order and replays first.                         *)
(*                                                                         *)
(* PartitionStore, for any number of processes, threads, partitions,       *)
(* regimes and batches: regimes stay apart, bindings are permanent, rows   *)
(* keep the binding they were written under, batches are whole, and a      *)
(* destroyed partition is empty.                                           *)
(***************************************************************************)
EXTENDS OperationGate, PartitionStore, FiniteSetTheorems, SequenceTheorems, TLAPS


--------------------------------------------------------------------------------
(* Facts about the state functions. *)

LEMMA TokenAt == ASSUME TypeOK, NEW t \in Issued
                 PROVE  t \in Tokens /\ tokens[t] \in TokenType
  BY DEF TypeOK, Issued

LEMMA OfferedContract == ASSUME NEW t \in Tokens, NEW c \in Offered[t] PROVE c \in Contracts
  BY ConstantsAssumption

LEMMA KeysAreGates == ASSUME TypeOK PROVE HandedOut \subseteq Gates
<1>1. \A t \in Issued : tokens[t].gate \in Gates
  BY TokenAt DEF TokenType
<1>2. \A v \in Releases : RootGate(v) \in Gates
  BY DEF RootGate, Gates
<1> QED BY <1>1, <1>2 DEF HandedOut

\* What is issued stays issued and never changes: an issue fills a free slot.
TokenAdded(t, x) ==
  /\ t \in Tokens \ Issued /\ x \in TokenType
  /\ tokens' = [tokens EXCEPT ![t] = x]
  /\ UNCHANGED <<now, running, starts, consumed, consumedSet, inHand, retained>>

LEMMA IssuedGrows ==
  ASSUME TypeOK, NEW t, NEW x, TokenAdded(t, x)
  PROVE  /\ Issued' = Issued \cup {t}
         /\ \A u \in Issued : tokens'[u] = tokens[u]
         /\ tokens'[t] = x
         /\ tokens' \in [Tokens -> TokenType \cup {None}]
  BY NoneAssumption DEF TypeOK, Issued, TokenAdded

LEMMA DirectIssueAdds ==
  ASSUME TypeOK, NEW t \in Tokens, NEW g \in Gates, NEW c \in Contracts,
         NEW e \in {Never} \cup 1..(MaxTime + 1), Issue(t, g, c, e)
  PROVE  TokenAdded(t, [contract |-> c, gate |-> g, expires |-> e, line |-> {}])
<1>1. e \in Int
  BY ConstantsAssumption DEF Never
<1> QED BY <1>1 DEF Issue, TokenAdded, TokenType, ledger, life

Child(parent, c, scope, e) ==
  [contract |-> c,
   gate |-> [parent |-> parent, scope |-> scope, release |-> c.release],
   expires |-> e, line |-> {parent} \cup tokens[parent].line]

LEMMA SubgateIssueAdds ==
  ASSUME TypeOK, NEW t \in Tokens, NEW parent \in Issued, NEW c \in Contracts,
         NEW scope \in Scopes, NEW e \in {Never} \cup 1..(MaxTime + 1),
         IssueSubgate(t, parent, c, scope, e)
  PROVE  TokenAdded(t, Child(parent, c, scope, e))
<1>1. e \in Int
  BY ConstantsAssumption DEF Never
<1>2. c.release \in Releases
  BY ConstantsAssumption DEF ContractType
<1>3. tokens[parent].line \subseteq Tokens /\ parent \in Tokens
  BY TokenAt DEF TokenType
<1>4. [parent |-> parent, scope |-> scope, release |-> c.release] \in Gates
  BY <1>2, <1>3 DEF Gates
<1>5. Child(parent, c, scope, e) \in TokenType
  BY <1>1, <1>3, <1>4 DEF Child, TokenType
<1> QED BY <1>5 DEF IssueSubgate, TokenAdded, Child, ledger, life

LEMMA ReceiptType ==
  ASSUME TypeOK, NEW g \in Gates, NEW t \in Tokens, NEW c \in Contracts, NEW at \in Nat
  PROVE  ReceiptOf(g, t, c, at) \in Receipts
  BY DEF TypeOK, ReceiptOf, Receipts

\* The file of receipts after one more.
LEMMA FileGrows ==
  ASSUME TypeOK, NEW g \in Gates, NEW r \in Receipts,
         retained' = [retained EXCEPT ![g] = Append(@, r)]
  PROVE  /\ retained' \in [Gates -> Seq(Receipts)]
         /\ \A h \in Gates : InFile(h)' \subseteq InFile(h) \cup (IF h = g THEN {r} ELSE {})
<1>1. retained[g] \in Seq(Receipts)
  BY DEF TypeOK
<1>2. retained' \in [Gates -> Seq(Receipts)]
  BY <1>1, AppendProperties DEF TypeOK
<1>3. InFile(g)' \subseteq InFile(g) \cup {r}
  BY <1>1, AppendProperties DEF TypeOK, InFile
<1>4. \A h \in Gates : h # g => InFile(h)' = InFile(h)
  BY DEF TypeOK, InFile
<1> QED BY <1>2, <1>3, <1>4

LEMMA EpochsAreNat == TypeOK => {now} \cup Overrides \subseteq Nat
  BY ConstantsAssumption DEF TypeOK

--------------------------------------------------------------------------------
(* The steps, with the types of what they are given. *)

GateStep(g) ==
  \/ \E t \in Issued, c \in Contracts, at \in Nat : Redeem(g, t, c, at)
  \/ \E signer \in Gates, t \in Issued, c \in Contracts, at \in Nat :
       \E r \in InFile(signer) : Restore(g, signer, t, r, c, at)
  \/ Start(g)
  \/ \E r \in inHand[g] : Retain(g, r)
  \/ Crash(g)

AnyStep ==
  \/ \E t, x : TokenAdded(t, x)
  \/ Tick
  \/ \E g \in Gates : GateStep(g)
  \/ UNCHANGED gateVars

LEMMA FileReceipts == ASSUME TypeOK, NEW g \in Gates PROVE InFile(g) \subseteq Receipts
<1>1. retained[g] \in Seq(Receipts)
  BY DEF TypeOK
<1> QED BY <1>1 DEF InFile

LEMMA GateNextIsStep == TypeOK /\ [GateNext]_gateVars => AnyStep
<1> SUFFICES ASSUME TypeOK, [GateNext]_gateVars PROVE AnyStep
  OBVIOUS
<1>1. CASE Issuing
  BY <1>1, OfferedContract, DirectIssueAdds, SubgateIssueAdds, KeysAreGates DEF Issuing, AnyStep
<1>2. ASSUME NEW g \in HandedOut, Redeeming(g) PROVE AnyStep
  BY <1>2, EpochsAreNat, KeysAreGates DEF Redeeming, AnyStep, GateStep
<1>3. ASSUME NEW g \in HandedOut, Replay(g) PROVE AnyStep
  <2>1. PICK signer \in HandedOut, t \in Issued, c \in Contracts :
          \E r \in InFile(signer) : \E at \in {now, r.at} : Restore(g, signer, t, r, c, at)
    BY <1>3 DEF Replay
  <2>4. PICK r \in InFile(signer) : \E at \in {now, r.at} : Restore(g, signer, t, r, c, at)
    BY <2>1
  <2>5. PICK at \in {now, r.at} : Restore(g, signer, t, r, c, at)
    BY <2>4
  <2>2. signer \in Gates /\ g \in Gates
    BY KeysAreGates
  <2>3. at \in Nat
    BY <2>2, FileReceipts DEF Receipts, TypeOK
  <2> QED BY <2>2, <2>3, <2>5 DEF AnyStep, GateStep
<1>4. CASE \E g \in HandedOut : Start(g) \/ (\E r \in inHand[g] : Retain(g, r)) \/ Crash(g)
  BY <1>4, KeysAreGates DEF AnyStep, GateStep
<1>5. CASE Tick \/ UNCHANGED gateVars
  BY <1>5 DEF AnyStep
<1> QED BY <1>1, <1>2, <1>3, <1>4, <1>5 DEF GateNext

--------------------------------------------------------------------------------
(* Type correctness. *)

LEMMA InitTypeOK == GateInit => TypeOK
  BY DEF GateInit, TypeOK

\* Appending a token to a running verifier's ledger keeps the types.
LEMMA RecordedType ==
  ASSUME TypeOK, NEW g \in running, NEW t \in Tokens, Recorded(g, t)
  PROVE  /\ consumed' \in [Gates -> Seq(Tokens)]
         /\ consumedSet' \in [Gates -> SUBSET Tokens]
         /\ \A h \in Gates \ running : consumed'[h] = consumed[h]
<1>1. consumed[g] \in Seq(Tokens)
  BY DEF TypeOK
<1>2. Append(consumed[g], t) \in Seq(Tokens)
  BY <1>1, AppendProperties
<1> QED BY <1>2 DEF TypeOK, Recorded

LEMMA StepTypeOK == TypeOK /\ AnyStep => TypeOK'
<1> SUFFICES ASSUME TypeOK, AnyStep PROVE TypeOK'
  OBVIOUS
<1>1. ASSUME NEW t, NEW x, TokenAdded(t, x) PROVE TypeOK'
  BY <1>1, IssuedGrows DEF TokenAdded, TypeOK
<1>2. CASE Tick
  BY <1>2 DEF Tick, TypeOK, life, ledger
<1>3. ASSUME NEW g \in Gates, NEW t \in Issued, NEW c \in Contracts, NEW at \in Nat,
             Redeem(g, t, c, at)
      PROVE  TypeOK'
  <2>1. t \in Tokens /\ g \in running
    BY <1>3, TokenAt DEF Redeem
  <2>2. ReceiptOf(g, t, c, at) \in Receipts
    BY <2>1, ReceiptType
  <2> QED BY <1>3, <2>1, <2>2, RecordedType DEF Redeem, TypeOK, life
<1>4. ASSUME NEW g \in Gates, NEW signer \in Gates, NEW t \in Issued, NEW c \in Contracts,
             NEW at \in Nat, NEW r \in InFile(signer), Restore(g, signer, t, r, c, at)
      PROVE  TypeOK'
  <2>1. t \in Tokens /\ g \in running
    BY <1>4, TokenAt DEF Restore
  <2> QED BY <1>4, <2>1, RecordedType DEF Restore, TypeOK, life
<1>5. ASSUME NEW g \in Gates, Start(g) PROVE TypeOK'
  BY <1>5 DEF Start, TypeOK
<1>6. ASSUME NEW g \in Gates, NEW r \in inHand[g], Retain(g, r) PROVE TypeOK'
  <2>1. r \in Receipts
    BY DEF TypeOK
  <2> QED BY <1>6, <2>1, FileGrows DEF Retain, TypeOK, life, ledger
<1>7. ASSUME NEW g \in Gates, Crash(g) PROVE TypeOK'
  BY <1>7 DEF Crash, TypeOK
<1>8. CASE UNCHANGED gateVars
  BY <1>8 DEF gateVars, TypeOK
<1> QED BY <1>1, <1>2, <1>3, <1>4, <1>5, <1>6, <1>7, <1>8 DEF AnyStep, GateStep

\* Every reachable state has the declared types, and a verifier that is not
\* running has neither ledger nor receipts.
THEOREM GateTypeCorrect == GateSpec => []TypeOK
<1>1. TypeOK /\ [GateNext]_gateVars => TypeOK'
  BY GateNextIsStep, StepTypeOK
<1> QED BY InitTypeOK, <1>1, PTL DEF GateSpec

--------------------------------------------------------------------------------
(* The attenuation law.  A child is compared with its parent only, so the law  *)
(* for all ancestors rests on the parent's own lineage and on transitivity.    *)

ExpiresWithin(t, a) ==
  tokens[a].expires # Never => tokens[t].expires # Never /\ tokens[t].expires <= tokens[a].expires

\* The authority of one token is within that of another, and what is left of the
\* other's depth suffices for the generations between them.
Within(t, a) ==
  /\ tokens[t].contract.symbol \in tokens[a].contract.children
  /\ tokens[t].contract.children \subseteq tokens[a].contract.children
  /\ tokens[a].contract.conditions \subseteq tokens[t].contract.conditions
  /\ tokens[t].contract.depth + Generations(t, a) <= tokens[a].contract.depth

LineageInv ==
  \A t \in Issued :
    /\ IsFiniteSet(tokens[t].line)
    /\ \A a \in tokens[t].line : a \in Issued /\ Within(t, a) /\ ExpiresWithin(t, a)

\* The same of a token x that is about to be issued.
Inside(x, a) ==
  /\ a \in Issued
  /\ x.contract.symbol \in tokens[a].contract.children
  /\ x.contract.children \subseteq tokens[a].contract.children
  /\ tokens[a].contract.conditions \subseteq x.contract.conditions
  /\ x.contract.depth + Cardinality(x.line \ tokens[a].line) <= tokens[a].contract.depth
  /\ tokens[a].expires # Never => x.expires # Never /\ x.expires <= tokens[a].expires

\* One more token is at most one more generation.
LEMMA OneMoreGeneration ==
  ASSUME NEW S, IsFiniteSet(S), NEW L, NEW p
  PROVE  /\ Cardinality(({p} \cup S) \ L) \in Nat /\ Cardinality(S \ L) \in Nat
         /\ Cardinality(({p} \cup S) \ L) <= Cardinality(S \ L) + 1
<1> DEFINE below == S \ L
           all == below \cup {p}
<1>1. IsFiniteSet(below) /\ Cardinality(below) \in Nat
  BY FS_Subset, FS_CardinalityType
<1>2. IsFiniteSet(all) /\ Cardinality(all) \in Nat
  BY <1>1, FS_AddElement, FS_CardinalityType
<1>3. Cardinality(all) <= Cardinality(below) + 1
  <2>1. Cardinality(all) = IF p \in below THEN Cardinality(below) ELSE Cardinality(below) + 1
    BY <1>1, FS_AddElement
  <2> HIDE DEF below, all
  <2> QED BY <1>1, <2>1
<1>4. ({p} \cup S) \ L \subseteq all
  OBVIOUS
<1>5. /\ IsFiniteSet(({p} \cup S) \ L)
      /\ Cardinality(({p} \cup S) \ L) <= Cardinality(all)
  BY <1>2, <1>4, FS_Subset
<1>6. Cardinality(({p} \cup S) \ L) \in Nat
  BY <1>5, FS_CardinalityType
<1> HIDE DEF all
<1> QED BY <1>1, <1>2, <1>3, <1>5, <1>6

\* The child of a sub-gate issue is within its parent, and so within all of them.
LEMMA ChildWithinAll ==
  ASSUME TypeOK, LineageInv, NEW t \in Tokens, NEW parent \in Issued, NEW c \in Contracts,
         NEW scope \in Scopes, NEW e \in {Never} \cup 1..(MaxTime + 1),
         IssueSubgate(t, parent, c, scope, e), NEW a \in {parent} \cup tokens[parent].line
  PROVE  Inside(Child(parent, c, scope, e), a)
<1>1. a \in Issued /\ parent \in Issued
  BY DEF LineageInv
<1>2. tokens[a] \in TokenType /\ tokens[parent] \in TokenType
  BY <1>1, TokenAt
<1>3. /\ tokens[a].contract.depth \in Nat /\ tokens[parent].contract.depth \in Nat
      /\ c.depth \in Nat /\ tokens[a].expires \in Int /\ tokens[parent].expires \in Int
  BY <1>2, ConstantsAssumption DEF TokenType, ContractType
<1>4. e \in Nat
  BY ConstantsAssumption DEF IssueSubgate, Never, TypeOK
<1>5. a = parent \/ (Within(parent, a) /\ ExpiresWithin(parent, a))
  BY DEF LineageInv
<1>6. Attenuates(c, parent) /\ ~Outlives(e, parent)
  BY DEF IssueSubgate
<1>7. /\ c.symbol \in tokens[a].contract.children
      /\ c.children \subseteq tokens[a].contract.children
      /\ tokens[a].contract.conditions \subseteq c.conditions
  BY <1>5, <1>6 DEF Attenuates, Within
<1>8. c.depth + Cardinality(({parent} \cup tokens[parent].line) \ tokens[a].line)
        <= tokens[a].contract.depth
  <2> DEFINE new == Cardinality(({parent} \cup tokens[parent].line) \ tokens[a].line)
             old == Cardinality(tokens[parent].line \ tokens[a].line)
  <2>1. new \in Nat /\ old \in Nat /\ new <= old + 1
    BY OneMoreGeneration DEF LineageInv
  <2>2. c.depth + 1 <= tokens[parent].contract.depth
    BY <1>3, <1>6 DEF Attenuates
  <2>3. tokens[parent].contract.depth + old <= tokens[a].contract.depth
    <3>1. CASE a = parent
      <4>1. tokens[parent].line \ tokens[a].line = {}
        BY <3>1
      <4>2. old = 0
        BY <4>1, FS_EmptySet
      <4> HIDE DEF old
      <4> QED BY <1>3, <3>1, <4>2
    <3>2. CASE Within(parent, a)
      BY <3>2 DEF Within, Generations
    <3> QED BY <1>5, <3>1, <3>2
  <2> HIDE DEF new, old
  <2>4. c.depth + new <= tokens[a].contract.depth
    BY <1>3, <2>1, <2>2, <2>3
  <2> QED BY <2>4 DEF new
<1>9. tokens[a].expires # Never => e # Never /\ e <= tokens[a].expires
  BY <1>3, <1>4, <1>5, <1>6 DEF Outlives, ExpiresWithin, Never
<1> QED BY <1>1, <1>7, <1>8, <1>9 DEF Inside, Child

\* Lineages are not disturbed by what does not issue.
LEMMA LineageStep == TypeOK /\ LineageInv /\ [GateNext]_gateVars => LineageInv'
<1> SUFFICES ASSUME TypeOK, LineageInv, [GateNext]_gateVars PROVE LineageInv'
  OBVIOUS
<1>1. CASE UNCHANGED tokens
  BY <1>1 DEF LineageInv, Within, Generations, ExpiresWithin, Issued
<1>2. ASSUME NEW t \in Tokens, NEW x, TokenAdded(t, x), IsFiniteSet(x.line),
             \A a \in x.line : Inside(x, a)
      PROVE  LineageInv'
  <2>1. /\ Issued' = Issued \cup {t} /\ tokens'[t] = x
        /\ \A u \in Issued : tokens'[u] = tokens[u]
    BY <1>2, IssuedGrows
  <2>2. ASSUME NEW u \in Issued', NEW a \in tokens'[u].line
        PROVE  a \in Issued' /\ Within(u, a)' /\ ExpiresWithin(u, a)'
    <3>1. CASE u = t
      BY <1>2, <2>1, <2>2, <3>1 DEF Inside, Within, Generations, ExpiresWithin
    <3>2. CASE u \in Issued
      <4>1. tokens'[u] = tokens[u] /\ a \in tokens[u].line
        BY <2>1, <2>2, <3>2
      <4>2. a \in Issued /\ Within(u, a) /\ ExpiresWithin(u, a)
        BY <3>2, <4>1 DEF LineageInv
      <4> QED BY <2>1, <4>1, <4>2 DEF Within, Generations, ExpiresWithin
    <3> QED BY <2>1, <2>2, <3>1, <3>2
  <2>3. ASSUME NEW u \in Issued' PROVE IsFiniteSet(tokens'[u].line)
    BY <1>2, <2>1, <2>3 DEF LineageInv
  <2> QED BY <2>2, <2>3 DEF LineageInv
<1>3. ASSUME NEW t \in Tokens, NEW c \in Contracts, NEW e \in {Never} \cup 1..(MaxTime + 1),
             NEW g \in HandedOut, Issue(t, g, c, e)
      PROVE  LineageInv'
  <2>1. TokenAdded(t, [contract |-> c, gate |-> g, expires |-> e, line |-> {}])
    BY <1>3, DirectIssueAdds, KeysAreGates
  <2> QED BY <2>1, <1>2, FS_EmptySet
<1>4. ASSUME NEW t \in Tokens, NEW c \in Contracts, NEW e \in {Never} \cup 1..(MaxTime + 1),
             NEW parent \in Issued, NEW scope \in Scopes,
             IssueSubgate(t, parent, c, scope, e)
      PROVE  LineageInv'
  <2>1. TokenAdded(t, Child(parent, c, scope, e))
    BY <1>4, SubgateIssueAdds
  <2>2. Child(parent, c, scope, e).line = {parent} \cup tokens[parent].line
    BY DEF Child
  <2>3. IsFiniteSet({parent} \cup tokens[parent].line)
    <3>1. IsFiniteSet(tokens[parent].line \cup {parent})
      BY FS_AddElement DEF LineageInv
    <3>2. tokens[parent].line \cup {parent} = {parent} \cup tokens[parent].line
      OBVIOUS
    <3> QED BY <3>1, <3>2
  <2>4. \A a \in {parent} \cup tokens[parent].line : Inside(Child(parent, c, scope, e), a)
    BY <1>4, ChildWithinAll
  <2> QED BY <1>2, <2>1, <2>2, <2>3, <2>4
<1>5. GateNext /\ ~Issuing => UNCHANGED tokens
  BY DEF GateNext, Tick, Redeeming, Redeem, Replay, Restore, Start, Retain, Crash
<1>6. UNCHANGED gateVars => UNCHANGED tokens
  BY DEF gateVars
<1> QED BY <1>1, <1>3, <1>4, <1>5, <1>6, OfferedContract DEF Issuing

LEMMA LineageAlways == GateSpec => [](TypeOK /\ LineageInv)
<1>1. GateInit => TypeOK /\ LineageInv
  BY InitTypeOK DEF GateInit, LineageInv, Issued
<1>2. TypeOK /\ LineageInv /\ [GateNext]_gateVars => (TypeOK /\ LineageInv)'
  BY LineageStep, GateNextIsStep, StepTypeOK
<1> QED BY <1>1, <1>2, PTL DEF GateSpec

\* The attenuation law for every lineage and every set of contracts: the parent's own
\* lineage carries what it may pass on, so that comparing a child with its parent is
\* enough, and each generation uses up one of every ancestor's depth.
THEOREM AttenuationLaw == GateSpec => []Attenuation
<1>1. TypeOK /\ LineageInv => Attenuation
  <2> SUFFICES ASSUME TypeOK, LineageInv, NEW t \in Issued, NEW a \in tokens[t].line
               PROVE  /\ a \in Issued
                      /\ tokens[t].contract.symbol \in tokens[a].contract.children
                      /\ tokens[a].contract.conditions \subseteq tokens[t].contract.conditions
                      /\ Generations(t, a) <= tokens[a].contract.depth
    BY DEF Attenuation
  <2>1. a \in Issued /\ Within(t, a)
    BY DEF LineageInv
  <2>2. tokens[t].contract.depth \in Nat /\ tokens[a].contract.depth \in Nat
    BY <2>1, TokenAt, ConstantsAssumption DEF TokenType, ContractType
  <2>3. Generations(t, a) \in Nat
    BY FS_Subset, FS_CardinalityType DEF LineageInv, Generations
  <2> QED BY <2>1, <2>2, <2>3 DEF Within
<1> QED BY <1>1, LineageAlways, PTL

--------------------------------------------------------------------------------
(* One use in one life of a verifier, and what its receipts say of it. *)

Ordered(g) ==
  /\ consumedSet[g] = {consumed[g][i] : i \in 1..Len(consumed[g])}
  /\ \A i, j \in 1..Len(consumed[g]) : consumed[g][i] = consumed[g][j] => i = j
Indexed(g) ==
  \A r \in inHand[g] : /\ r.index < Len(consumed[g])
                       /\ consumed[g][r.index + 1] = r.token
LedgerInv == \A g \in Gates : Ordered(g) /\ Indexed(g)

LEMMA AppendedOnce ==
  ASSUME NEW s \in Seq(Tokens), NEW t \in Tokens,
         t \notin {s[i] : i \in 1..Len(s)},
         \A i, j \in 1..Len(s) : s[i] = s[j] => i = j
  PROVE  LET n == Append(s, t) IN
         /\ {n[i] : i \in 1..Len(n)} = {s[i] : i \in 1..Len(s)} \cup {t}
         /\ \A i, j \in 1..Len(n) : n[i] = n[j] => i = j
<1> DEFINE n == Append(s, t)
<1>1. /\ Len(n) = Len(s) + 1 /\ Len(s) \in Nat
      /\ \A i \in 1..Len(s) : n[i] = s[i]
      /\ n[Len(s) + 1] = t
  BY AppendProperties
<1>2. 1..Len(n) = 1..Len(s) \cup {Len(s) + 1}
  BY <1>1
<1> HIDE DEF n
<1>3. {n[i] : i \in 1..Len(n)} = {s[i] : i \in 1..Len(s)} \cup {t}
  BY <1>1, <1>2
<1>4. \A i, j \in 1..Len(n) : n[i] = n[j] => i = j
  BY <1>1, <1>2
<1> QED BY <1>3, <1>4 DEF n

\* What recording a fresh token does to the gate's own ledger and to the others.
LEMMA RecordedOnce ==
  ASSUME TypeOK, NEW g \in Gates, NEW t \in Tokens, Ordered(g), Fresh(g, t), Recorded(g, t)
  PROVE  /\ Ordered(g)'
         /\ Len(consumed'[g]) = Len(consumed[g]) + 1 /\ Len(consumed[g]) \in Nat
         /\ \A i \in 1..Len(consumed[g]) : consumed'[g][i] = consumed[g][i]
         /\ consumed'[g][Len(consumed[g]) + 1] = t
         /\ \A h \in Gates \ {g} : consumed'[h] = consumed[h] /\ consumedSet'[h] = consumedSet[h]
<1>1. consumed[g] \in Seq(Tokens)
  BY DEF TypeOK
<1>2. consumed'[g] = Append(consumed[g], t) /\ consumedSet'[g] = consumedSet[g] \cup {t}
  BY DEF Recorded, TypeOK
<1>3. t \notin {consumed[g][i] : i \in 1..Len(consumed[g])}
  BY DEF Ordered, Fresh
<1>4. Ordered(g)'
  <2>1. \A i, j \in 1..Len(consumed[g]) : consumed[g][i] = consumed[g][j] => i = j
    BY DEF Ordered
  <2>2. /\ {Append(consumed[g], t)[i] : i \in 1..Len(Append(consumed[g], t))}
             = {consumed[g][i] : i \in 1..Len(consumed[g])} \cup {t}
        /\ \A i, j \in 1..Len(Append(consumed[g], t)) :
             Append(consumed[g], t)[i] = Append(consumed[g], t)[j] => i = j
    BY <1>1, <1>3, <2>1, AppendedOnce, Zenon
  <2>3. consumedSet[g] = {consumed[g][i] : i \in 1..Len(consumed[g])}
    BY DEF Ordered
  <2>4. /\ consumedSet'[g] = {consumed'[g][i] : i \in 1..Len(consumed'[g])}
        /\ \A i, j \in 1..Len(consumed'[g]) : consumed'[g][i] = consumed'[g][j] => i = j
    BY <1>2, <2>2, <2>3, Zenon
  <2> QED BY <2>4 DEF Ordered
<1>5. /\ Len(consumed'[g]) = Len(consumed[g]) + 1 /\ Len(consumed[g]) \in Nat
      /\ \A i \in 1..Len(consumed[g]) : consumed'[g][i] = consumed[g][i]
      /\ consumed'[g][Len(consumed[g]) + 1] = t
  BY <1>1, <1>2, AppendProperties
<1>6. \A h \in Gates \ {g} : consumed'[h] = consumed[h] /\ consumedSet'[h] = consumedSet[h]
  BY DEF Recorded, TypeOK
<1> QED BY <1>4, <1>5, <1>6

\* Emptied ledgers are in order, and a gate without receipts is indexed.
LEMMA EmptiedLedger ==
  ASSUME TypeOK, NEW g \in Gates, LedgerInv, inHand'[g] = {},
         consumed' = [consumed EXCEPT ![g] = <<>>],
         consumedSet' = [consumedSet EXCEPT ![g] = {}],
         \A h \in Gates \ {g} : inHand'[h] = inHand[h]
  PROVE  LedgerInv'
<1>1. consumed'[g] = <<>> /\ consumedSet'[g] = {}
  BY DEF TypeOK
<1>2. Ordered(g)' /\ Indexed(g)'
  BY <1>1 DEF Ordered, Indexed
<1>3. ASSUME NEW h \in Gates \ {g} PROVE Ordered(h)' /\ Indexed(h)'
  <2>1. consumed'[h] = consumed[h] /\ consumedSet'[h] = consumedSet[h] /\ inHand'[h] = inHand[h]
    BY DEF TypeOK
  <2>2. Ordered(h) /\ Indexed(h)
    BY DEF LedgerInv
  <2> QED BY <2>1, <2>2 DEF Ordered, Indexed
<1> QED BY <1>2, <1>3 DEF LedgerInv

LEMMA LedgerStep == TypeOK /\ LedgerInv /\ AnyStep => LedgerInv'
<1> SUFFICES ASSUME TypeOK, LedgerInv, AnyStep PROVE LedgerInv'
  OBVIOUS
<1>1. ASSUME UNCHANGED <<consumed, consumedSet, inHand>> PROVE LedgerInv'
  BY <1>1 DEF LedgerInv, Ordered, Indexed
<1>2. ASSUME NEW g \in Gates, NEW t \in Issued, NEW c \in Contracts, NEW at \in Nat,
             Redeem(g, t, c, at)
      PROVE  LedgerInv'
  <2>1. /\ Ordered(g)'
        /\ Len(consumed'[g]) = Len(consumed[g]) + 1 /\ Len(consumed[g]) \in Nat
        /\ \A i \in 1..Len(consumed[g]) : consumed'[g][i] = consumed[g][i]
        /\ consumed'[g][Len(consumed[g]) + 1] = t
        /\ \A h \in Gates \ {g} : consumed'[h] = consumed[h] /\ consumedSet'[h] = consumedSet[h]
    BY <1>2, RecordedOnce, TokenAt DEF Redeem, LedgerInv
  <2>2. inHand' = [inHand EXCEPT ![g] = inHand[g] \cup {ReceiptOf(g, t, c, at)}]
    BY <1>2 DEF Redeem
  <2>3. \A r \in inHand[g] : r.index \in Nat
    BY DEF TypeOK, Receipts
  <2>4. Indexed(g)'
    <3>1. \A r \in inHand[g] : r.index + 1 \in 1..Len(consumed[g])
      BY <2>1, <2>3 DEF LedgerInv, Indexed
    <3>2. \A r \in inHand[g] : r.index < Len(consumed'[g]) /\ consumed'[g][r.index + 1] = r.token
      BY <2>1, <2>3, <3>1 DEF LedgerInv, Indexed
    <3>3. inHand'[g] = inHand[g] \cup {ReceiptOf(g, t, c, at)}
      BY <2>2 DEF TypeOK
    <3>4. ReceiptOf(g, t, c, at).index = Len(consumed[g]) /\ ReceiptOf(g, t, c, at).token = t
      BY DEF ReceiptOf
    <3> QED BY <2>1, <3>2, <3>3, <3>4 DEF Indexed
  <2>6. \A h \in Gates \ {g} : inHand'[h] = inHand[h]
    BY <2>2 DEF TypeOK
  <2>5. \A h \in Gates \ {g} : Ordered(h)' /\ Indexed(h)'
    BY <2>1, <2>6 DEF LedgerInv, Ordered, Indexed
  <2> QED BY <2>1, <2>4, <2>5 DEF LedgerInv
<1>3. ASSUME NEW g \in Gates, NEW signer \in Gates, NEW t \in Issued, NEW c \in Contracts,
             NEW at \in Nat, NEW r \in InFile(signer), Restore(g, signer, t, r, c, at)
      PROVE  LedgerInv'
  <2>1. /\ Ordered(g)'
        /\ Len(consumed'[g]) = Len(consumed[g]) + 1 /\ Len(consumed[g]) \in Nat
        /\ \A i \in 1..Len(consumed[g]) : consumed'[g][i] = consumed[g][i]
        /\ \A h \in Gates \ {g} : consumed'[h] = consumed[h] /\ consumedSet'[h] = consumedSet[h]
    BY <1>3, RecordedOnce, TokenAt DEF Restore, Replayable, LedgerInv
  <2>2. inHand' = inHand
    BY <1>3 DEF Restore
  <2>3. \A q \in inHand[g] : q.index \in Nat
    BY DEF TypeOK, Receipts
  <2>4. Indexed(g)'
    <3>1. \A q \in inHand[g] : q.index + 1 \in 1..Len(consumed[g])
      BY <2>1, <2>3 DEF LedgerInv, Indexed
    <3> QED BY <2>1, <2>2, <2>3, <3>1 DEF LedgerInv, Indexed
  <2>5. \A h \in Gates \ {g} : Ordered(h)' /\ Indexed(h)'
    BY <2>1, <2>2 DEF LedgerInv, Ordered, Indexed
  <2> QED BY <2>1, <2>4, <2>5 DEF LedgerInv
<1>4. ASSUME NEW g \in Gates, Start(g) PROVE LedgerInv'
  <2>1. inHand'[g] = {} /\ inHand' = inHand
    BY <1>4 DEF Start, TypeOK
  <2> QED BY <1>4, <2>1, EmptiedLedger DEF Start
<1>5. ASSUME NEW g \in Gates, Crash(g) PROVE LedgerInv'
  <2>1. inHand'[g] = {} /\ \A h \in Gates \ {g} : inHand'[h] = inHand[h]
    BY <1>5 DEF Crash, TypeOK
  <2> QED BY <1>5, <2>1, EmptiedLedger DEF Crash
<1>6. ASSUME NEW g \in Gates, NEW r \in inHand[g], Retain(g, r) PROVE LedgerInv'
  <2>1. UNCHANGED <<consumed, consumedSet>>
    BY <1>6 DEF Retain, ledger
  <2>2. \A h \in Gates : inHand'[h] \subseteq inHand[h]
    BY <1>6 DEF Retain, TypeOK
  <2> QED BY <2>1, <2>2 DEF LedgerInv, Ordered, Indexed
<1>7. (Tick \/ UNCHANGED gateVars \/ (\E t, x : TokenAdded(t, x)))
        => UNCHANGED <<consumed, consumedSet, inHand>>
  BY DEF Tick, gateVars, TokenAdded, ledger
<1> QED BY <1>1, <1>2, <1>3, <1>4, <1>5, <1>6, <1>7 DEF AnyStep, GateStep

LEMMA LedgerAlways == GateSpec => [](TypeOK /\ LedgerInv)
<1>1. GateInit => TypeOK /\ LedgerInv
  BY InitTypeOK DEF GateInit, LedgerInv, Ordered, Indexed
<1>2. TypeOK /\ LedgerInv /\ [GateNext]_gateVars => (TypeOK /\ LedgerInv)'
  BY LedgerStep, GateNextIsStep, StepTypeOK
<1> QED BY <1>1, <1>2, PTL DEF GateSpec

\* A verifier consumes a token at most once in a life, by redemption or by replay.
THEOREM OneUsePerLife == GateSpec => []ConsumedOnce
<1>1. LedgerInv => ConsumedOnce
  BY DEF LedgerInv, Ordered, ConsumedOnce
<1> QED BY <1>1, LedgerAlways, PTL

\* Every receipt of the current life names its token's place in the ledger.
THEOREM ReceiptsIndexed == GateSpec => []ReceiptsIndexTheLedger
<1>1. LedgerInv => ReceiptsIndexTheLedger
  BY DEF LedgerInv, Indexed, ReceiptsIndexTheLedger
<1> QED BY <1>1, LedgerAlways, PTL

--------------------------------------------------------------------------------
(* Receipts stay genuine: their token, contract, gate and epoch keep agreeing  *)
(* with the token they name, in the caller's hand and in its file.             *)

Genuine(g, r) ==
  /\ r.token \in Issued
  /\ tokens[r.token].contract = r.contract /\ tokens[r.token].gate = g
  /\ r.contract.release = g.release
  /\ Live(r.token, r.at)

HistoryInv == \A g \in Gates : \A r \in inHand[g] \cup InFile(g) : Genuine(g, r)

LEMMA HistoryStep == TypeOK /\ HistoryInv /\ AnyStep => HistoryInv'
<1> SUFFICES ASSUME TypeOK, HistoryInv, AnyStep PROVE HistoryInv'
  OBVIOUS
<1>1. ASSUME UNCHANGED tokens, NEW g \in Gates, NEW r, Genuine(g, r) PROVE Genuine(g, r)'
  BY <1>1 DEF Genuine, Issued, Live
<1>2. ASSUME UNCHANGED tokens,
             \A g \in Gates : inHand'[g] \cup InFile(g)' \subseteq inHand[g] \cup InFile(g)
      PROVE  HistoryInv'
  BY <1>1, <1>2 DEF HistoryInv
<1>3. ASSUME NEW t, NEW x, TokenAdded(t, x) PROVE HistoryInv'
  <2>1. UNCHANGED <<inHand, retained>>
    BY <1>3 DEF TokenAdded
  <2>2. ASSUME NEW g \in Gates, NEW r, Genuine(g, r) PROVE Genuine(g, r)'
    BY <1>3, <2>2, IssuedGrows DEF Genuine, Live
  <2> QED BY <2>1, <2>2 DEF HistoryInv, InFile
<1>4. ASSUME NEW g \in Gates, NEW t \in Issued, NEW c \in Contracts, NEW at \in Nat,
             Redeem(g, t, c, at)
      PROVE  HistoryInv'
  <2>1. Genuine(g, ReceiptOf(g, t, c, at))
    BY <1>4 DEF Redeem, Authentic, Genuine, ReceiptOf
  <2>2. /\ UNCHANGED <<tokens, retained>>
        /\ inHand'[g] = inHand[g] \cup {ReceiptOf(g, t, c, at)}
        /\ \A h \in Gates \ {g} : inHand'[h] = inHand[h]
    BY <1>4 DEF Redeem, TypeOK
  <2>3. \A h \in Gates : InFile(h)' = InFile(h)
    BY <2>2 DEF InFile
  <2>4. \A h \in Gates : \A r \in inHand'[h] \cup InFile(h)' : Genuine(h, r)
    BY <2>1, <2>2, <2>3 DEF HistoryInv
  <2> QED BY <1>1, <2>2, <2>4 DEF HistoryInv
<1>5. ASSUME NEW g \in Gates, NEW r \in inHand[g], Retain(g, r) PROVE HistoryInv'
  <2>1. r \in Receipts
    BY DEF TypeOK
  <2>2. \A h \in Gates : InFile(h)' \subseteq InFile(h) \cup (IF h = g THEN {r} ELSE {})
    BY <1>5, <2>1, FileGrows DEF Retain
  <2>3. \A h \in Gates : inHand'[h] \subseteq inHand[h]
    BY <1>5 DEF Retain, TypeOK
  <2>4. \A h \in Gates : inHand'[h] \cup InFile(h)' \subseteq inHand[h] \cup InFile(h)
    BY <2>2, <2>3
  <2> QED BY <1>2, <1>5, <2>4 DEF Retain
<1>6. ASSUME NEW g \in Gates, Crash(g) PROVE HistoryInv'
  <2>1. \A h \in Gates : inHand'[h] \subseteq inHand[h] /\ InFile(h)' = InFile(h)
    BY <1>6 DEF Crash, TypeOK, InFile
  <2> QED BY <1>2, <1>6, <2>1 DEF Crash
<1>7. ASSUME UNCHANGED <<tokens, inHand, retained>> PROVE HistoryInv'
  <2>1. \A h \in Gates : InFile(h)' = InFile(h)
    BY <1>7 DEF InFile
  <2> QED BY <1>2, <1>7, <2>1
<1>8. ASSUME NEW g \in Gates,
             \/ Start(g)
             \/ \E signer \in Gates, t \in Issued, c \in Contracts, at \in Nat :
                  \E r \in InFile(signer) : Restore(g, signer, t, r, c, at)
      PROVE  HistoryInv'
  BY <1>7, <1>8 DEF Start, Restore
<1>9. (Tick \/ UNCHANGED gateVars) => UNCHANGED <<tokens, inHand, retained>>
  BY DEF Tick, gateVars
<1> QED BY <1>3, <1>4, <1>5, <1>6, <1>7, <1>8, <1>9 DEF AnyStep, GateStep

LEMMA HistoryAlways == GateSpec => [](TypeOK /\ HistoryInv)
<1>1. GateInit => TypeOK /\ HistoryInv
  BY InitTypeOK DEF GateInit, HistoryInv, InFile
<1>2. TypeOK /\ HistoryInv /\ [GateNext]_gateVars => (TypeOK /\ HistoryInv)'
  BY HistoryStep, GateNextIsStep, StepTypeOK
<1> QED BY <1>1, <1>2, PTL DEF GateSpec

\* No operation is redeemed after any ancestor of its token has expired, although
\* the verifier sees neither the ancestors nor their gates.
THEOREM RedemptionWithinLineage == GateSpec => []RedeemedWithinLineage
<1>1. TypeOK /\ LineageInv /\ HistoryInv => RedeemedWithinLineage
  <2> SUFFICES ASSUME TypeOK, LineageInv, HistoryInv, NEW g \in Gates,
                      NEW r \in inHand[g] \cup InFile(g),
                      NEW a \in {r.token} \cup tokens[r.token].line
               PROVE  Live(a, r.at)
    BY DEF RedeemedWithinLineage
  <2>1. Genuine(g, r)
    BY DEF HistoryInv
  <2>2. r.at \in Nat
    <3>1. inHand[g] \subseteq Receipts /\ InFile(g) \subseteq Receipts
      BY FileReceipts DEF TypeOK
    <3> QED BY <3>1 DEF Receipts
  <2>3. CASE a = r.token
    BY <2>1, <2>3 DEF Genuine
  <2>4. CASE a \in tokens[r.token].line
    <3>1. a \in Issued /\ ExpiresWithin(r.token, a)
      BY <2>1, <2>4 DEF LineageInv, Genuine
    <3>2. tokens[a].expires \in Int /\ tokens[r.token].expires \in Int
      BY <2>1, <3>1, TokenAt DEF TokenType, Genuine
    <3> QED BY <2>1, <2>2, <3>1, <3>2 DEF Genuine, Live, ExpiresWithin
  <2> QED BY <2>3, <2>4
<1> QED BY <1>1, LineageAlways, HistoryAlways, PTL

\* The receipt due next is always accepted at its recorded epoch, however late and
\* whatever else was issued since, unless the history already used its token.
THEOREM HistoryRestores == GateSpec => []RetainedHistoryRestores
<1>1. TypeOK /\ LedgerInv /\ HistoryInv => RetainedHistoryRestores
  <2> SUFFICES ASSUME TypeOK, LedgerInv, HistoryInv, NEW g \in running, NEW r \in InFile(g),
                      r.index = Len(consumed[g]),
                      r.token \notin {consumed[g][i] : i \in 1..Len(consumed[g])}
               PROVE  Replayable(g, g, r.token, r, r.contract, r.at)
    BY DEF RetainedHistoryRestores
  <2>1. g \in Gates
    BY DEF TypeOK
  <2>2. Genuine(g, r)
    BY <2>1 DEF HistoryInv
  <2>3. Fresh(g, r.token)
    BY <2>1 DEF LedgerInv, Ordered, Fresh
  <2> QED BY <2>2, <2>3 DEF Genuine, Replayable, Authentic
<1> QED BY <1>1, LedgerAlways, HistoryAlways, PTL

--------------------------------------------------------------------------------
(* One use across lives, for a caller that retains receipts in consumption     *)
(* order and replays its file before it redeems.                               *)

FileInv ==
  \A g \in Careful :
    /\ \A i \in 1..Len(retained[g]) : retained[g][i].index = i - 1
    /\ \A i, j \in 1..Len(retained[g]) : retained[g][i].token = retained[g][j].token => i = j
    \* the file and the ledger agree as far as both go
    /\ \A i \in 1..Len(retained[g]) :
         i <= Len(consumed[g]) => retained[g][i].token = consumed[g][i]

LEMMA FileAt ==
  ASSUME TypeOK, NEW g \in Gates
  PROVE  /\ Len(retained[g]) \in Nat /\ Len(consumed[g]) \in Nat
         /\ \A i \in 1..Len(retained[g]) : retained[g][i] \in Receipts
<1>1. retained[g] \in Seq(Receipts) /\ consumed[g] \in Seq(Tokens)
  BY DEF TypeOK
<1> QED BY <1>1

LEMMA FileStep ==
  TypeOK /\ LedgerInv /\ FileInv /\ AnyStep => FileInv'
<1> SUFFICES ASSUME TypeOK, LedgerInv, FileInv, AnyStep PROVE FileInv'
  OBVIOUS
<1>0. Careful \subseteq Gates
  BY ConstantsAssumption
<1>1. ASSUME UNCHANGED <<consumed, retained>> PROVE FileInv'
  BY <1>1 DEF FileInv
<1>2. ASSUME NEW g \in Gates, NEW t \in Issued, NEW c \in Contracts, NEW at \in Nat,
             Redeem(g, t, c, at)
      PROVE  FileInv'
  <2>1. /\ Len(consumed'[g]) = Len(consumed[g]) + 1
        /\ \A i \in 1..Len(consumed[g]) : consumed'[g][i] = consumed[g][i]
        /\ \A h \in Gates \ {g} : consumed'[h] = consumed[h]
    BY <1>2, RecordedOnce, TokenAt DEF Redeem, LedgerInv
  <2>2. (g \in Careful => Len(consumed[g]) >= Len(retained[g])) /\ UNCHANGED retained
    BY <1>2 DEF Redeem, MayRedeem
  <2>3. g \in Careful => \A i \in 1..Len(retained[g]) : retained[g][i].token = consumed'[g][i]
    <3> SUFFICES ASSUME g \in Careful, NEW i \in 1..Len(retained[g])
                 PROVE  retained[g][i].token = consumed'[g][i]
      OBVIOUS
    <3>1. Len(retained[g]) \in Nat /\ Len(consumed[g]) \in Nat
      BY FileAt
    <3>2. i \in 1..Len(consumed[g]) /\ i <= Len(consumed[g])
      BY <2>2, <3>1
    <3>3. retained[g][i].token = consumed[g][i]
      BY <3>2 DEF FileInv
    <3> QED BY <2>1, <3>2, <3>3
  <2>4. \A h \in Careful : \A i \in 1..Len(retained[h]) :
          i <= Len(consumed'[h]) => retained[h][i].token = consumed'[h][i]
    BY <1>0, <2>1, <2>3 DEF FileInv
  <2> QED BY <2>2, <2>4 DEF FileInv
\* A careless caller's file is nobody's promise.
<1>c. ASSUME NEW g \in Gates \ Careful,
             \A h \in Gates \ {g} : consumed'[h] = consumed[h] /\ retained'[h] = retained[h]
      PROVE  FileInv'
  BY <1>0, <1>c DEF FileInv
<1>3. ASSUME NEW g \in Gates, NEW signer \in Gates, NEW t \in Issued, NEW c \in Contracts,
             NEW at \in Nat, NEW r \in InFile(signer), Restore(g, signer, t, r, c, at)
      PROVE  FileInv'
  <2>1. /\ Len(consumed'[g]) = Len(consumed[g]) + 1 /\ Len(consumed[g]) \in Nat
        /\ \A i \in 1..Len(consumed[g]) : consumed'[g][i] = consumed[g][i]
        /\ consumed'[g][Len(consumed[g]) + 1] = t
        /\ \A h \in Gates \ {g} : consumed'[h] = consumed[h]
    BY <1>3, RecordedOnce, TokenAt DEF Restore, Replayable, LedgerInv
  <2>c. CASE g \notin Careful
    <3>1. UNCHANGED retained
      BY <1>3 DEF Restore
    <3> QED BY <1>c, <2>1, <2>c, <3>1
  <2> SUFFICES ASSUME g \in Careful PROVE FileInv'
    BY <2>c
  <2>2. UNCHANGED retained /\ r \in InFile(g) /\ r.token = t /\ r.index = Len(consumed[g])
    BY <1>3 DEF Restore, Replayable
  <2>3. PICK p \in 1..Len(retained[g]) : retained[g][p] = r
    <3>1. retained[g] \in Seq(Receipts)
      BY DEF TypeOK
    <3> QED BY <2>2, <3>1 DEF InFile
  <2>4. p = Len(consumed[g]) + 1
    <3>1. retained[g][p].index = p - 1
      BY <2>3 DEF FileInv
    <3> QED BY <2>1, <2>2, <2>3, <3>1, FileAt
  <2>5. \A i \in 1..Len(retained[g]) :
          i <= Len(consumed'[g]) => retained[g][i].token = consumed'[g][i]
    <3>1. \A i \in 1..Len(retained[g]) : i <= Len(consumed'[g]) =>
            i = p \/ (i \in 1..Len(consumed[g]) /\ i <= Len(consumed[g]))
      BY <2>1, <2>4, FileAt
    <3>2. retained[g][p].token = consumed'[g][p]
      BY <2>1, <2>2, <2>3, <2>4
    <3>3. \A i \in 1..Len(retained[g]) : i <= Len(consumed[g]) =>
            retained[g][i].token = consumed[g][i]
      BY DEF FileInv
    <3> QED BY <2>1, <3>1, <3>2, <3>3
  <2>6. \A h \in Careful : \A i \in 1..Len(retained[h]) :
          i <= Len(consumed'[h]) => retained[h][i].token = consumed'[h][i]
    BY <1>0, <2>1, <2>5 DEF FileInv
  <2> QED BY <2>2, <2>6 DEF FileInv
<1>4. ASSUME NEW g \in Gates, NEW r \in inHand[g], Retain(g, r) PROVE FileInv'
  <2>c. CASE g \notin Careful
    <3>1. \A h \in Gates \ {g} : consumed'[h] = consumed[h] /\ retained'[h] = retained[h]
      BY <1>4 DEF Retain, ledger, TypeOK
    <3> QED BY <1>c, <2>c, <3>1
  <2> SUFFICES ASSUME g \in Careful PROVE FileInv'
    BY <2>c
  <2>1. /\ UNCHANGED consumed /\ r \in Receipts /\ r.index = Len(retained[g])
        /\ retained' = [retained EXCEPT ![g] = Append(retained[g], r)]
    BY <1>4 DEF Retain, ledger, TypeOK
  <2>2. r.index < Len(consumed[g]) /\ consumed[g][r.index + 1] = r.token
    BY DEF LedgerInv, Indexed
  <2>3. retained[g] \in Seq(Receipts) /\ Len(retained[g]) \in Nat /\ Len(consumed[g]) \in Nat
    BY FileAt DEF TypeOK
  <2>4. /\ Len(retained'[g]) = Len(retained[g]) + 1
        /\ \A i \in 1..Len(retained[g]) : retained'[g][i] = retained[g][i]
        /\ retained'[g][Len(retained[g]) + 1] = r
        /\ \A h \in Gates \ {g} : retained'[h] = retained[h]
    BY <2>1, <2>3, AppendProperties DEF TypeOK
  <2>5. \A i \in 1..Len(retained'[g]) : i \in 1..Len(retained[g]) \/ i = Len(retained[g]) + 1
    BY <2>3, <2>4
  <2>6. \A i \in 1..Len(retained'[g]) :
          retained'[g][i].index = i - 1 /\ retained'[g][i].token = consumed[g][i]
          /\ i \in 1..Len(consumed[g])
    BY <2>1, <2>2, <2>3, <2>4, <2>5 DEF FileInv
  <2>7. \A i, j \in 1..Len(retained'[g]) : retained'[g][i].token = retained'[g][j].token => i = j
    <3>1. \A i, j \in 1..Len(consumed[g]) : consumed[g][i] = consumed[g][j] => i = j
      BY DEF LedgerInv, Ordered
    <3> QED BY <2>6, <3>1
  <2>8. ASSUME NEW h \in Careful \ {g}
        PROVE  retained'[h] = retained[h] /\ consumed'[h] = consumed[h]
    BY <1>0, <2>1, <2>4
  <2>9. consumed'[g] = consumed[g]
    BY <2>1
  <2> SUFFICES ASSUME NEW h \in Careful
               PROVE  /\ \A i \in 1..Len(retained'[h]) : retained'[h][i].index = i - 1
                      /\ \A i, j \in 1..Len(retained'[h]) :
                           retained'[h][i].token = retained'[h][j].token => i = j
                      /\ \A i \in 1..Len(retained'[h]) :
                           i <= Len(consumed'[h]) => retained'[h][i].token = consumed'[h][i]
    BY DEF FileInv
  <2>10. CASE h = g
    BY <2>6, <2>7, <2>9, <2>10
  <2>11. CASE h # g
    BY <2>8, <2>11 DEF FileInv
  <2> QED BY <2>10, <2>11
<1>5. ASSUME NEW g \in Gates, Start(g) \/ Crash(g) PROVE FileInv'
  <2>1. /\ UNCHANGED retained /\ Len(consumed'[g]) = 0
        /\ \A h \in Gates \ {g} : consumed'[h] = consumed[h]
    BY <1>5 DEF Start, Crash, TypeOK
  <2>2. \A i \in 1..Len(retained[g]) : ~(i <= Len(consumed'[g]))
    BY <2>1
  <2> QED BY <1>0, <2>1, <2>2 DEF FileInv
<1>6. (Tick \/ UNCHANGED gateVars \/ (\E t, x : TokenAdded(t, x))) => UNCHANGED <<consumed, retained>>
  BY DEF Tick, gateVars, TokenAdded, ledger
<1> QED BY <1>1, <1>2, <1>3, <1>4, <1>5, <1>6 DEF AnyStep, GateStep

\* What restore is for: the two rules a careful caller keeps are enough for a token's
\* use to be recorded once however often the process dies.
THEOREM OneUseSurvivesCrashes == GateSpec => []OneUseAcrossLives
<1>1. GateInit => TypeOK /\ LedgerInv /\ FileInv
  BY InitTypeOK, ConstantsAssumption DEF GateInit, LedgerInv, Ordered, Indexed, FileInv
<1>2. (TypeOK /\ LedgerInv /\ FileInv) /\ [GateNext]_gateVars
        => (TypeOK /\ LedgerInv /\ FileInv)'
  BY FileStep, LedgerStep, GateNextIsStep, StepTypeOK
<1>3. FileInv => OneUseAcrossLives
  BY DEF FileInv, OneUseAcrossLives
<1> QED BY <1>1, <1>2, <1>3, PTL DEF GateSpec


--------------------------------------------------------------------------------
(* PartitionStore: the maps and what the threads do to them. *)


MapsTyped == entries \in [Processes -> Seq(Entry)]

LEMMA ProcessOfType ==
  ASSUME NEW t \in Threads
  PROVE  ProcessOf[t] \in Processes
  BY ProcessAssumption

(* What binding a key does to the map of its process. *)
LEMMA BindAppends ==
  ASSUME MapsTyped, NEW p \in Processes, NEW a \in Registrations,
         NEW r \in Regimes, Bind(p, a, r)
  PROVE  \E e \in Entry :
           /\ e.key = a.key
           /\ e.regime = r /\ e.asked = (a.regime # AnyRegime)
           /\ entries' = [entries EXCEPT ![p] = Append(entries[p], e)]
<1>1. a \in [key : Partitions, regime : Regimes \cup {AnyRegime}, mode : Modes]
  BY RegistrationAssumption
<1> DEFINE e == [key |-> a.key, regime |-> r, mode |-> a.mode,
                 asked |-> a.regime # AnyRegime]
<1>2. e \in Entry
  BY <1>1 DEF Entry
<1>3. entries' = [entries EXCEPT ![p] = Append(entries[p], e)]
  BY DEF Bind
<1> QED
  BY <1>2, <1>3

(* An automatic regime is one no entry has. *)
LEMMA LowestFreeIsFree ==
  ASSUME NEW p, NEW r \in LowestFree(p)
  PROVE  r \in Regimes /\ r \notin AssignedRegimes(p)
  BY DEF LowestFree

LEMMA AssignedByEntry ==
  ASSUME MapsTyped, NEW p \in Processes, NEW i \in DOMAIN entries[p]
  PROVE  entries[p][i].regime \in AssignedRegimes(p)
  BY DEF AssignedRegimes, ToSet

(* Registration is the only action that writes the maps. *)
LEMMA OnlyRegisterBinds ==
  ASSUME NEW t \in Threads, Step(t),
         ~ \E a \in Registrations : Register(t, a)
  PROVE  UNCHANGED entries
  BY DEF Step, Begin, TakeMask, Abandon, MemoryInsert, MemoryDelete, Acquire,
         PgInsert, PgStatement, PgCommit, PgRollback, PgDeleteStarts,
         PgDeleteEnds, Count, Retrieve

(* Appending an entry with a new regime, or one that was asked for, keeps  *)
(* the regimes of that map apart.                                          *)
LEMMA AppendKeepsApart ==
  ASSUME MapsTyped, RegimesApart, NEW p \in Processes, NEW e \in Entry,
         e.asked \/ e.regime \notin AssignedRegimes(p),
         entries' = [entries EXCEPT ![p] = Append(entries[p], e)]
  PROVE  MapsTyped' /\ RegimesApart'
<1>1. entries[p] \in Seq(Entry)
  BY DEF MapsTyped
<1>2. Append(entries[p], e) \in Seq(Entry)
  BY <1>1
<1>3. MapsTyped'
  BY <1>2 DEF MapsTyped
<1>4. ASSUME NEW q \in Processes, NEW i \in DOMAIN entries'[q],
             NEW j \in DOMAIN entries'[q], i < j,
             entries'[q][i].regime = entries'[q][j].regime
      PROVE  entries'[q][j].asked
  <2>1. CASE q # p
    <3>1. entries'[q] = entries[q]
      BY <2>1 DEF MapsTyped
    <3> QED
      BY <3>1, <1>4 DEF RegimesApart
  <2>2. CASE q = p
    <3>1. entries'[p] = Append(entries[p], e)
      BY DEF MapsTyped
    <3>2. Len(entries'[p]) = Len(entries[p]) + 1
      BY <1>1, <3>1
    <3>3. i \in 1 .. Len(entries[p]) + 1 /\ j \in 1 .. Len(entries[p]) + 1
      BY <1>1, <2>2, <1>2, <3>1, <3>2, <1>4
    <3>4. Len(entries[p]) \in Nat
      BY <1>1
    <3>5. i \in 1 .. Len(entries[p])
      BY <3>3, <3>4, <1>4
    <3>6. entries'[p][i] = entries[p][i]
      BY <1>1, <3>1, <3>5
    <3>7. CASE j \in 1 .. Len(entries[p])
      <4>1. entries'[p][j] = entries[p][j]
        BY <1>1, <3>1, <3>7
      <4>2. i \in DOMAIN entries[p] /\ j \in DOMAIN entries[p]
        BY <1>1, <3>5, <3>7
      <4> QED
        BY <4>1, <4>2, <3>6, <2>2, <1>4 DEF RegimesApart
    <3>8. CASE j = Len(entries[p]) + 1
      <4>1. entries'[p][j] = e
        BY <1>1, <3>1, <3>8
      <4>2. entries[p][i].regime \in AssignedRegimes(p)
        BY <1>1, <3>5, AssignedByEntry
      <4>3. e.regime \in AssignedRegimes(p)
        BY <4>1, <4>2, <3>6, <2>2, <1>4
      <4>4. e.asked
        BY <4>3
      <4> QED
        BY <4>1, <4>4, <2>2
    <3> QED
      BY <3>3, <3>4, <3>7, <3>8
  <2> QED
    BY <2>1, <2>2
<1> QED
  BY <1>3, <1>4 DEF RegimesApart

MapInv == MapsTyped /\ RegimesApart

LEMMA InitMaps == Init => MapInv
  BY DEF Init, MapInv, MapsTyped, RegimesApart

LEMMA StepMaps == MapInv /\ [Next]_vars => MapInv'
<1> SUFFICES ASSUME MapInv, [Next]_vars
             PROVE  MapInv'
  OBVIOUS
<1>1. CASE UNCHANGED entries
  BY <1>1 DEF MapInv, MapsTyped, RegimesApart
<1>2. ASSUME NEW t \in Threads, NEW a \in Registrations, Register(t, a)
      PROVE  MapInv'
  <2> DEFINE p == ProcessOf[t]
  <2>1. p \in Processes
    BY ProcessOfType
  <2>2. CASE UNCHANGED entries
    BY <2>2, <1>1
  <2>3. ASSUME a.regime # AnyRegime, Bind(p, a, a.regime)
        PROVE  MapInv'
    <3>1. a.regime \in Regimes
      BY <2>3, RegistrationAssumption
    <3>2. PICK e \in Entry :
            /\ e.regime = a.regime /\ e.asked = (a.regime # AnyRegime)
            /\ entries' = [entries EXCEPT ![p] = Append(entries[p], e)]
      BY <2>1, <2>3, <3>1, BindAppends DEF MapInv
    <3> HIDE DEF p
    <3> QED
      BY <2>1, <2>3, <3>2, AppendKeepsApart DEF MapInv
  <2>4. ASSUME NEW r \in LowestFree(p), Bind(p, a, r)
        PROVE  MapInv'
    <3>1. r \in Regimes /\ r \notin AssignedRegimes(p)
      BY LowestFreeIsFree
    <3>2. PICK e \in Entry :
            /\ e.regime = r /\ e.asked = (a.regime # AnyRegime)
            /\ entries' = [entries EXCEPT ![p] = Append(entries[p], e)]
      BY <2>1, <2>4, <3>1, BindAppends DEF MapInv
    <3> HIDE DEF p
    <3> QED
      BY <2>1, <3>1, <3>2, AppendKeepsApart DEF MapInv
  <2> QED
    BY <1>2, <2>2, <2>3, <2>4 DEF Register
<1>3. CASE Next
  <2>1. PICK t \in Threads : Step(t)
    BY <1>3 DEF Next
  <2>2. CASE \E a \in Registrations : Register(t, a)
    BY <2>2, <1>2
  <2>3. CASE ~ \E a \in Registrations : Register(t, a)
    BY <2>1, <2>3, <1>1, OnlyRegisterBinds
  <2> QED
    BY <2>2, <2>3
<1>4. CASE UNCHANGED vars
  BY <1>4, <1>1 DEF vars
<1> QED
  BY <1>3, <1>4

(* Automatic registration never shares a regime, for any number of         *)
(* processes, regimes and registrations.                                   *)
THEOREM AutomaticRegimesApart == Spec => []RegimesApart
<1>1. MapInv => RegimesApart
  BY DEF MapInv
<1> QED
  BY <1>1, InitMaps, StepMaps, PTL DEF Spec

(***************************************************************************)
(* A binding, once made, is never changed: a map only grows at its end.    *)
(* This is what lets an adapter call read the map twice and still hand the *)
(* store an embedding under the regime it was admitted for.                *)
(***************************************************************************)

Grows ==
  \A p \in Processes : \A i \in DOMAIN entries[p] :
     i \in DOMAIN entries'[p] /\ entries'[p][i] = entries[p][i]

BindingsOnlyGrow == [][Grows]_vars

LEMMA AppendGrows ==
  ASSUME MapsTyped, NEW p \in Processes, NEW e \in Entry,
         entries' = [entries EXCEPT ![p] = Append(entries[p], e)]
  PROVE  Grows
<1> SUFFICES ASSUME NEW q \in Processes, NEW i \in DOMAIN entries[q]
             PROVE  i \in DOMAIN entries'[q] /\ entries'[q][i] = entries[q][i]
  BY DEF Grows
<1>1. entries[p] \in Seq(Entry)
  BY DEF MapsTyped
<1>2. CASE q # p
  <2>1. entries'[q] = entries[q]
    BY <1>2 DEF MapsTyped
  <2> QED
    BY <2>1
<1>3. CASE q = p
  <2>1. entries'[p] = Append(entries[p], e)
    BY DEF MapsTyped
  <2>2. i \in 1 .. Len(entries[p])
    BY <1>1, <1>3
  <2> QED
    BY <1>1, <1>3, <2>1, <2>2
<1> QED
  BY <1>2, <1>3

LEMMA StepGrows == MapInv /\ Next => Grows
<1> SUFFICES ASSUME MapInv, Next
             PROVE  Grows
  OBVIOUS
<1>1. CASE UNCHANGED entries
  BY <1>1 DEF Grows
<1>2. ASSUME NEW t \in Threads, NEW a \in Registrations, NEW r \in Regimes,
             Bind(ProcessOf[t], a, r)
      PROVE  Grows
  <2>1. ProcessOf[t] \in Processes
    BY ProcessOfType
  <2>2. PICK e \in Entry :
          /\ e.regime = r /\ e.asked = (a.regime # AnyRegime)
          /\ entries' = [entries EXCEPT
                           ![ProcessOf[t]] = Append(entries[ProcessOf[t]], e)]
    BY <1>2, <2>1, BindAppends DEF MapInv
  <2> QED
    BY <2>1, <2>2, AppendGrows DEF MapInv
<1>3. ASSUME NEW t \in Threads, NEW a \in Registrations, Register(t, a)
      PROVE  Grows
  <2>1. ASSUME a.regime # AnyRegime, Bind(ProcessOf[t], a, a.regime)
        PROVE  Grows
    <3>1. a.regime \in Regimes
      BY <2>1, RegistrationAssumption
    <3> QED
      BY <2>1, <3>1, <1>2
  <2>2. ASSUME NEW r \in LowestFree(ProcessOf[t]), Bind(ProcessOf[t], a, r)
        PROVE  Grows
    <3>1. r \in Regimes
      BY LowestFreeIsFree
    <3> QED
      BY <2>2, <3>1, <1>2
  <2> QED
    BY <1>1, <1>3, <2>1, <2>2 DEF Register
<1>4. PICK t \in Threads : Step(t)
  BY DEF Next
<1>5. CASE \E a \in Registrations : Register(t, a)
  BY <1>5, <1>3
<1>6. CASE ~ \E a \in Registrations : Register(t, a)
  BY <1>4, <1>6, <1>1, OnlyRegisterBinds
<1> QED
  BY <1>5, <1>6

(* No sequence of registrations, by any threads, rebinds a partition.      *)
THEOREM BindingsArePermanent == Spec => BindingsOnlyGrow
<1>1. MapInv /\ [Next]_vars => [Grows]_vars
  BY StepGrows
<1>2. Spec => []MapInv
  BY InitMaps, StepMaps, PTL DEF Spec
<1> QED
  BY <1>1, <1>2, PTL DEF Spec, BindingsOnlyGrow

(***************************************************************************)
(* Calls and rows.                                                         *)
(***************************************************************************)

Ids == DocIds \cup (1 .. MaxCalls)

CallType ==
  [op : Ops, key : Partitions, ids : Seq(Ids), thread : Threads,
   wanted : BOOLEAN, regime : Regimes, gate : Regimes \cup {Ungated},
   docs : SUBSET Row, outcome : {"open", "returned", "raised"},
   commit : Nat, counted : Nat]

Typed ==
  /\ store \in Stores
  /\ MapsTyped
  /\ rows \in [Homes -> SUBSET Row]
  /\ pending \in [Threads -> SUBSET Row]
  /\ conn \in [Processes -> Threads \cup {Nobody}]
  /\ pc \in [Threads -> {"idle", "admitted", "prepared", "holding", "deleting",
                         "counting"}]
  /\ current \in [Threads -> Nat]
  /\ done \in [Threads -> Nat]
  /\ calls \in Seq(CallType) /\ Len(calls) <= MaxCalls
  /\ commits \in Nat

(* A partition is bound once in a map. *)
Unrepeated(s) == \A i, j \in DOMAIN s : s[i].key = s[j].key => i = j

KeysApart == \A p \in Processes : Unrepeated(entries[p])

(* What the map told a call, and what it has recorded since. *)
Bound(c) ==
  LET p == ProcessOf[c.thread] IN
  /\ c.key \in KeysOf(p)
  /\ c.regime = MaskOf(p, c.key)
  /\ c.gate \in {Ungated, MaskOf(p, c.key)}
  /\ c.op = "weights" => EntryOf(p, c.key).mode = "read_write"
  /\ c.op \notin {"query", "weights"} => EntryOf(p, c.key).mode # "immutable"

Shaped(c) ==
  /\ c.op \in {"query", "destroy"} => c.ids = <<>>
  /\ c.op \in {"ingest", "weights"} => Len(c.ids) = 1
  /\ c.op = "query" => c.wanted
  /\ c.commit <= commits /\ c.counted <= commits

(* Where a thread is in its call. *)
Busy(t) ==
  /\ pc[t] # "idle" =>
       /\ current[t] \in DOMAIN calls
       /\ Call(t).thread = t /\ Call(t).outcome = "open"
       /\ pc[t] # "counting" => Call(t).commit = 0
       /\ pc[t] \in {"counting", "deleting"} => Call(t).op = "destroy"
       /\ pc[t] \in {"prepared", "holding"} /\ Call(t).op = "query"
            => Call(t).gate = Call(t).regime
  /\ pc[t] \in {"holding", "deleting"} => store = "postgres"

(* An open transaction wrote the first ids of its batch. *)
Transaction(t) ==
  IF pc[t] = "holding" /\ Call(t).op = "ingest_many"
    THEN /\ done[t] <= Len(Call(t).ids)
         /\ pending[t] = {RowFor(current[t], Call(t).ids[i]) : i \in 1 .. done[t]}
    ELSE pending[t] = {} /\ done[t] = 0

(* Nobody else writes its ids, and they are free in other partitions. *)
Locked(t) ==
  /\ \A u \in Threads \ {t} : \A r \in pending[t], q \in pending[u] : r.id # q.id
  /\ \A r \in pending[t], q \in rows[Database] : q.id = r.id => q.key = r.key

(* A row is what a committed write made it. *)
Made(r) ==
  /\ r.call \in DOMAIN calls
  /\ r = RowFor(r.call, r.id)
  /\ calls[r.call].commit # 0
  /\ calls[r.call].op \notin {"query", "destroy"}

(* What a query returned was gated by the call that wrote it. *)
Answer(c) ==
  c.op = "query" /\ c.outcome = "returned"
    => /\ c.gate = c.regime
       /\ \A r \in c.docs :
            /\ r.call \in DOMAIN calls
            /\ r.key = c.key /\ r.key = calls[r.call].key
            /\ r.gate = calls[r.call].gate
            /\ calls[r.call].commit # 0

Whole(n) ==
  calls[n].commit # 0 =>
    \A id \in ToSet(calls[n].ids) :
       RowFor(n, id) \in rows[HomeOf(calls[n].thread)] \/ Gone(n, id)

Destroyed(n) ==
  calls[n].op = "destroy" /\ calls[n].outcome = "returned" =>
    \A r \in Held(HomeOf(calls[n].thread), calls[n].key) :
       calls[r.call].commit > calls[n].counted

ThreadInv == \A t \in Threads : Busy(t) /\ Transaction(t) /\ Locked(t)

CallInv ==
  \A n \in DOMAIN calls :
    /\ Bound(calls[n]) /\ Shaped(calls[n]) /\ Answer(calls[n])
    /\ Whole(n) /\ Destroyed(n)

RowInv == \A h \in Homes : \A r \in rows[h] : Made(r)

StoreInv == Typed /\ KeysApart /\ ThreadInv /\ CallInv /\ RowInv

(***************************************************************************)
(* The map as the calls read it.                                           *)
(***************************************************************************)

EntryIn(s, k) == CHOOSE e \in ToSet(s) : e.key = k

LEMMA EntryInIs ==
  ASSUME NEW s \in Seq(Entry), Unrepeated(s), NEW i \in DOMAIN s
  PROVE  EntryIn(s, s[i].key) = s[i]
<1>1. s[i] \in ToSet(s) /\ s[i].key = s[i].key
  BY DEF ToSet
<1>2. EntryIn(s, s[i].key) \in ToSet(s) /\ EntryIn(s, s[i].key).key = s[i].key
  BY <1>1 DEF EntryIn
<1>3. PICK j \in DOMAIN s : EntryIn(s, s[i].key) = s[j]
  BY <1>2 DEF ToSet
<1> QED
  BY <1>2, <1>3 DEF Unrepeated

LEMMA AppendUnrepeated ==
  ASSUME NEW s \in Seq(Entry), Unrepeated(s), NEW e \in Entry,
         \A i \in DOMAIN s : s[i].key # e.key
  PROVE  Unrepeated(Append(s, e))
<1>1. DOMAIN s = 1 .. Len(s) /\ Len(s) \in Nat
  OBVIOUS
<1>2. DOMAIN Append(s, e) = 1 .. Len(s) + 1
  BY <1>1
<1>3. \A i \in DOMAIN s : Append(s, e)[i] = s[i]
  BY <1>1
<1>4. Append(s, e)[Len(s) + 1] = e
  BY <1>1
<1>5. \A i \in DOMAIN Append(s, e) : i \in DOMAIN s \/ i = Len(s) + 1
  BY <1>1, <1>2
<1> QED
  BY <1>3, <1>4, <1>5 DEF Unrepeated

(* A key that is bound is bound to the same entry after a step that only   *)
(* lets the maps grow.                                                     *)
LEMMA EntryStays ==
  ASSUME MapsTyped, MapsTyped', KeysApart, KeysApart', Grows,
         NEW p \in Processes, NEW k \in KeysOf(p)
  PROVE  k \in KeysOf(p)' /\ EntryOf(p, k)' = EntryOf(p, k)
<1>1. PICK i \in DOMAIN entries[p] : entries[p][i].key = k
  BY DEF KeysOf
<1>2. i \in DOMAIN entries'[p] /\ entries'[p][i] = entries[p][i]
  BY <1>1 DEF Grows
<1>3. entries[p] \in Seq(Entry) /\ entries'[p] \in Seq(Entry)
  BY DEF MapsTyped
<1>4. Unrepeated(entries[p]) /\ Unrepeated(entries'[p])
  BY DEF KeysApart, Unrepeated
<1>5. EntryIn(entries[p], k) = entries[p][i]
  BY <1>1, <1>3, <1>4, EntryInIs
<1>6. EntryIn(entries'[p], k) = entries'[p][i]
  BY <1>1, <1>2, <1>3, <1>4, EntryInIs
<1>7. EntryOf(p, k)' = EntryOf(p, k)
  BY <1>2, <1>5, <1>6 DEF EntryIn, EntryOf
<1>8. k \in KeysOf(p)'
  BY <1>1, <1>2 DEF KeysOf
<1> QED
  BY <1>7, <1>8

(* Registration binds a key that was free. *)
LEMMA RegisterKeepsKeys ==
  ASSUME MapInv, KeysApart, NEW t \in Threads, NEW a \in Registrations, Register(t, a)
  PROVE  KeysApart'
<1> DEFINE p == ProcessOf[t]
<1>1. p \in Processes
  BY ProcessOfType
<1>2. CASE UNCHANGED entries
  BY <1>2 DEF KeysApart, Unrepeated
<1>3. ASSUME NEW r \in Regimes, Bind(p, a, r), a.key \notin KeysOf(p)
      PROVE  KeysApart'
  <2>1. PICK e \in Entry :
          e.key = a.key /\ entries' = [entries EXCEPT ![p] = Append(entries[p], e)]
    BY <1>1, <1>3, BindAppends DEF MapInv
  <2> HIDE DEF p
  <2>2. entries[p] \in Seq(Entry) /\ entries'[p] = Append(entries[p], e)
    BY <1>1, <2>1 DEF MapInv, MapsTyped
  <2>3. \A i \in DOMAIN entries[p] : entries[p][i].key # e.key
    BY <1>3, <2>1 DEF KeysOf
  <2>4. Unrepeated(entries'[p])
    BY <1>1, <2>2, <2>3, AppendUnrepeated DEF KeysApart
  <2>5. \A q \in Processes \ {p} : entries'[q] = entries[q]
    BY <2>1 DEF MapInv, MapsTyped
  <2> QED
    BY <2>4, <2>5 DEF KeysApart, Unrepeated
<1>4. a.regime # AnyRegime => a.regime \in Regimes
  BY RegistrationAssumption
<1> QED
  BY <1>2, <1>3, <1>4, LowestFreeIsFree DEF Register

LEMMA BoundStays ==
  ASSUME MapsTyped, MapsTyped', KeysApart, KeysApart', Grows,
         NEW c, c.thread \in Threads, Bound(c)
  PROVE  Bound(c)'
<1> DEFINE p == ProcessOf[c.thread]
<1>1. p \in Processes /\ c.key \in KeysOf(p)
  BY ProcessOfType DEF Bound
<1>2. c.key \in KeysOf(p)' /\ EntryOf(p, c.key)' = EntryOf(p, c.key)
  BY <1>1, EntryStays
<1> QED
  BY <1>2 DEF Bound, MaskOf

(***************************************************************************)
(* Records of calls.                                                       *)
(***************************************************************************)

(* d is a later record of the call c: what it asked for has not changed,   *)
(* and what it has committed neither.                                      *)
Continues(c, d) ==
  /\ d.op = c.op /\ d.key = c.key /\ d.ids = c.ids /\ d.thread = c.thread
  /\ d.wanted = c.wanted /\ d.regime = c.regime
  /\ c.commit # 0 => d.commit = c.commit /\ d.gate = c.gate

Gated(c, g) == [c EXCEPT !.gate = g]
Ended(c, o) == [c EXCEPT !.outcome = o]
CommitAs(c, x, o) == [c EXCEPT !.commit = x, !.outcome = o]
CountAs(c, x, o) == [c EXCEPT !.counted = x, !.outcome = o]
Answered(c, S) == [c EXCEPT !.docs = S, !.outcome = "returned"]

LEMMA CallFields ==
  ASSUME NEW c \in CallType
  PROVE  /\ c.op \in Ops /\ c.key \in Partitions /\ c.ids \in Seq(Ids)
         /\ c.thread \in Threads /\ c.regime \in Regimes
         /\ c.gate \in Regimes \cup {Ungated} /\ c.docs \in SUBSET Row
         /\ c.outcome \in {"open", "returned", "raised"}
         /\ c.commit \in Nat /\ c.counted \in Nat
  BY DEF CallType

LEMMA GatedRecord ==
  ASSUME NEW c \in CallType, NEW g \in Regimes \cup {Ungated}, c.commit = 0
  PROVE  LET d == Gated(c, g) IN
         /\ d \in CallType /\ Continues(c, d) /\ d.gate = g /\ d.outcome = c.outcome
         /\ d.commit = 0 /\ d.counted = c.counted /\ d.docs = c.docs
  BY DEF Gated, CallType, Continues

LEMMA EndedRecord ==
  ASSUME NEW c \in CallType, NEW o \in {"open", "returned", "raised"}
  PROVE  LET d == Ended(c, o) IN
         /\ d \in CallType /\ Continues(c, d) /\ d.gate = c.gate /\ d.outcome = o
         /\ d.commit = c.commit /\ d.counted = c.counted /\ d.docs = c.docs
  BY DEF Ended, CallType, Continues

LEMMA CommitRecord ==
  ASSUME NEW c \in CallType, NEW o \in {"open", "returned", "raised"}, NEW x \in Nat,
         c.commit = 0
  PROVE  LET d == CommitAs(c, x, o) IN
         /\ d \in CallType /\ Continues(c, d) /\ d.gate = c.gate /\ d.outcome = o
         /\ d.commit = x /\ d.counted = c.counted /\ d.docs = c.docs
  BY DEF CommitAs, CallType, Continues

LEMMA CountRecord ==
  ASSUME NEW c \in CallType, NEW o \in {"open", "returned", "raised"}, NEW x \in Nat
  PROVE  LET d == CountAs(c, x, o) IN
         /\ d \in CallType /\ Continues(c, d) /\ d.gate = c.gate /\ d.outcome = o
         /\ d.commit = c.commit /\ d.counted = x /\ d.docs = c.docs
  BY DEF CountAs, CallType, Continues

LEMMA AnsweredRecord ==
  ASSUME NEW c \in CallType, NEW S \in SUBSET Row
  PROVE  LET d == Answered(c, S) IN
         /\ d \in CallType /\ Continues(c, d) /\ d.gate = c.gate /\ d.outcome = "returned"
         /\ d.commit = c.commit /\ d.counted = c.counted /\ d.docs = S
  BY DEF Answered, CallType, Continues

(* Assigning two fields of a call is assigning its record. *)
CommitSet(u, s, n, x, o) == u = [s EXCEPT ![n].commit = x, ![n].outcome = o]
CountSet(u, s, n, x, o) == u = [s EXCEPT ![n].counted = x, ![n].outcome = o]
AnswerSet(u, s, n, S) == u = [s EXCEPT ![n].docs = S, ![n].outcome = "returned"]
Becomes(u, s, n, d) == u = [s EXCEPT ![n] = d]

LEMMA CommitFields ==
  ASSUME NEW s \in Seq(CallType), NEW n \in DOMAIN s, NEW x, NEW o, NEW u,
         CommitSet(u, s, n, x, o)
  PROVE  Becomes(u, s, n, CommitAs(s[n], x, o))
  BY DEF CommitAs, CommitSet, Becomes

LEMMA CountFields ==
  ASSUME NEW s \in Seq(CallType), NEW n \in DOMAIN s, NEW x, NEW o, NEW u,
         CountSet(u, s, n, x, o)
  PROVE  Becomes(u, s, n, CountAs(s[n], x, o))
  BY DEF CountAs, CountSet, Becomes

LEMMA AnswerFields ==
  ASSUME NEW s \in Seq(CallType), NEW n \in DOMAIN s, NEW S, NEW u,
         AnswerSet(u, s, n, S)
  PROVE  Becomes(u, s, n, Answered(s[n], S))
  BY DEF Answered, AnswerSet, Becomes

LEMMA CallsAfter ==
  ASSUME NEW s \in Seq(CallType), NEW n \in DOMAIN s, NEW d \in CallType,
         NEW u, u = [s EXCEPT ![n] = d]
  PROVE  /\ u \in Seq(CallType) /\ Len(u) = Len(s) /\ DOMAIN u = DOMAIN s
         /\ u[n] = d /\ \A m \in DOMAIN s \ {n} : u[m] = s[m]
  OBVIOUS

LEMMA RowForType ==
  ASSUME Typed, NEW n \in DOMAIN calls, NEW id \in Ids
  PROVE  /\ RowFor(n, id) \in Row
         /\ RowFor(n, id).id = id /\ RowFor(n, id).call = n
         /\ RowFor(n, id).key = calls[n].key /\ RowFor(n, id).gate = calls[n].gate
<1>1. calls[n] \in CallType /\ n \in 1 .. MaxCalls
  BY CallAssumption DEF Typed
<1>2. calls[n].key \in Partitions /\ calls[n].gate \in Regimes \cup {Ungated}
  BY <1>1, CallFields
<1> QED
  BY <1>1, <1>2 DEF RowFor, Row, Ids

LEMMA HomeIsHome == ASSUME NEW t \in Threads PROVE HomeOf(t) \in Homes
  BY ProcessOfType DEF HomeOf, Homes

(***************************************************************************)
(* What a step of one thread leaves to the others.                         *)
(***************************************************************************)

LEMMA NowApart ==
  ASSUME ThreadInv, NEW t \in Threads, NEW u \in Threads \ {t},
         pc[t] # "idle", pc[u] # "idle"
  PROVE  current[u] # current[t]
  BY DEF ThreadInv, Busy, Call

LEMMA OtherThread ==
  ASSUME ThreadInv, NEW u \in Threads, store' = store,
         pc'[u] = pc[u], current'[u] = current[u], done'[u] = done[u], pending'[u] = pending[u],
         pc[u] # "idle" => current[u] \in DOMAIN calls' /\ calls'[current[u]] = calls[current[u]]
  PROVE  Busy(u)' /\ Transaction(u)'
<1>1. Busy(u) /\ Transaction(u)
  BY DEF ThreadInv
<1>2. CASE pc[u] = "idle"
  BY <1>1, <1>2 DEF Busy, Transaction
<1>3. CASE pc[u] # "idle"
  <2>1. Busy(u)'
    BY <1>1, <1>3 DEF Busy, Call
  <2>2. Transaction(u)'
    BY <1>1, <1>3 DEF Transaction, Call, RowFor
  <2> QED
    BY <2>1, <2>2
<1> QED
  BY <1>2, <1>3

(* Locks are only given up, and rows are only written where nobody else    *)
(* has locked their ids.                                                   *)
LEMMA LockedKept ==
  ASSUME ThreadInv, \A u \in Threads : pending'[u] \subseteq pending[u],
         \A q \in rows'[Database] :
            q \in rows[Database] \/ \A u \in Threads : \A r \in pending'[u] : r.id # q.id
  PROVE  \A u \in Threads : Locked(u)'
  BY DEF ThreadInv, Locked

LEMMA CallsUnchanged ==
  ASSUME StoreInv, UNCHANGED <<store, entries, calls, rows, commits>>
  PROVE  CallInv' /\ RowInv'
<1>1. RowInv'
  BY DEF StoreInv, RowInv, Made, RowFor
<1>2. ASSUME NEW n \in DOMAIN calls
      PROVE  /\ Bound(calls[n])' /\ Shaped(calls[n])' /\ Answer(calls[n])'
             /\ Whole(n)' /\ Destroyed(n)'
  <2>1. /\ Bound(calls[n]) /\ Shaped(calls[n]) /\ Answer(calls[n])
        /\ Whole(n) /\ Destroyed(n)
    BY DEF StoreInv, CallInv
  <2>2. Bound(calls[n])'
    BY <2>1 DEF Bound, KeysOf, MaskOf, EntryOf
  <2>3. Shaped(calls[n])' /\ Answer(calls[n])'
    BY <2>1 DEF Shaped, Answer
  <2>4. Whole(n)'
    BY <2>1 DEF Whole, RowFor, HomeOf, Gone
  <2>5. Destroyed(n)'
    BY <2>1 DEF Destroyed, Held, HomeOf
  <2> QED
    BY <2>2, <2>3, <2>4, <2>5
<1> QED
  BY <1>1, <1>2 DEF CallInv

(***************************************************************************)
(* A call changes its own record, and then perhaps the rows.               *)
(***************************************************************************)

(* What was said of a call that another call leaves alone. *)
LEMMA GoneStays ==
  ASSUME Typed, Typed', NEW n \in DOMAIN calls, NEW d, Continues(calls[n], d),
         calls'[n] = d, \A k \in DOMAIN calls \ {n} : calls'[k] = calls[k],
         DOMAIN calls' = DOMAIN calls, store' = store,
         NEW m \in DOMAIN calls, NEW id, Gone(m, id), calls[m].commit # 0
  PROVE  Gone(m, id)'
<1>1. PICK k \in DOMAIN calls :
        /\ calls[k].commit > calls[m].commit
        /\ calls[k].key = calls[m].key
        /\ \/ calls[k].op = "destroy"
           \/ store = "postgres" /\ id \in ToSet(calls[k].ids)
  BY DEF Gone
<1>2. calls[k] \in CallType /\ calls[m] \in CallType
  BY DEF Typed
<1>3. calls[k].commit \in Nat /\ calls[m].commit \in Nat /\ calls[k].commit # 0
  BY <1>1, <1>2, CallFields
<1>4. /\ calls'[k].commit = calls[k].commit /\ calls'[m].commit = calls[m].commit
      /\ calls'[k].key = calls[k].key /\ calls'[m].key = calls[m].key
      /\ calls'[k].op = calls[k].op /\ calls'[k].ids = calls[k].ids
  BY <1>3 DEF Continues
<1> QED
  BY <1>1, <1>4 DEF Gone

(* What was said of the rows, where they stay and their calls go on. *)
LEMMA MadeStays ==
  ASSUME Typed, NEW n \in DOMAIN calls, NEW d, Continues(calls[n], d),
         calls'[n] = d, \A k \in DOMAIN calls \ {n} : calls'[k] = calls[k],
         DOMAIN calls' = DOMAIN calls, NEW r, Made(r)
  PROVE  Made(r)'
<1>1. /\ r.call \in DOMAIN calls /\ r = RowFor(r.call, r.id)
      /\ calls[r.call].commit # 0 /\ calls[r.call].op \notin {"query", "destroy"}
  BY DEF Made
<1>2. /\ calls'[r.call].key = calls[r.call].key /\ calls'[r.call].gate = calls[r.call].gate
      /\ calls'[r.call].commit = calls[r.call].commit /\ calls'[r.call].op = calls[r.call].op
  BY <1>1 DEF Continues
<1>3. RowFor(r.call, r.id)' = RowFor(r.call, r.id)
  BY <1>2 DEF RowFor
<1> QED
  BY <1>1, <1>2, <1>3 DEF Made

LEMMA AnswerStays ==
  ASSUME NEW n \in DOMAIN calls, NEW d, Continues(calls[n], d),
         calls'[n] = d, \A k \in DOMAIN calls \ {n} : calls'[k] = calls[k],
         DOMAIN calls' = DOMAIN calls, NEW c, Answer(c)
  PROVE  Answer(c)'
  BY DEF Answer, Continues

(* A call that is not committed by the step: TakeMask, Abandon, a refused  *)
(* batch, a rollback, the count of destroy() and a retrieval.              *)
LEMMA OpenUpdate ==
  ASSUME StoreInv, Typed', NEW n \in DOMAIN calls, NEW d \in CallType,
         Continues(calls[n], d), d.commit = calls[n].commit,
         calls' = [calls EXCEPT ![n] = d], UNCHANGED <<store, entries, rows, commits>>,
         Bound(d), Shaped(d), Answer(d),
         d.op = "destroy" /\ d.outcome = "returned" =>
           (calls[n].outcome = "returned" /\ d.counted = calls[n].counted)
             \/ Held(HomeOf(d.thread), d.key) = {}
  PROVE  CallInv' /\ RowInv'
<1>0. Typed /\ CallInv /\ RowInv
  BY DEF StoreInv
<1>1. /\ DOMAIN calls' = DOMAIN calls /\ calls'[n] = d
      /\ \A k \in DOMAIN calls \ {n} : calls'[k] = calls[k]
  BY <1>0, CallsAfter DEF Typed
<1>2. RowInv'
  BY <1>0, <1>1, MadeStays DEF RowInv
<1>3. ASSUME NEW m \in DOMAIN calls
      PROVE  /\ Bound(calls[m])' /\ Shaped(calls[m])' /\ Answer(calls[m])'
             /\ Whole(m)' /\ Destroyed(m)'
  <2>1. /\ Bound(calls[m]) /\ Shaped(calls[m]) /\ Answer(calls[m])
        /\ Whole(m) /\ Destroyed(m)
    BY <1>0 DEF CallInv
  <2>2. PICK c : c = calls'[m]
    OBVIOUS
  <2>3. Bound(c) /\ Shaped(c) /\ Answer(c)
    BY <1>1, <2>1, <2>2
  <2>4. Bound(calls[m])' /\ Shaped(calls[m])'
    <3>1. \A p, k : EntryOf(p, k)' = EntryOf(p, k) /\ KeysOf(p)' = KeysOf(p)
      BY DEF EntryOf, KeysOf
    <3>2. Bound(calls[m])'
      BY <2>2, <2>3, <3>1 DEF Bound, MaskOf
    <3>3. Shaped(calls[m])'
      BY <2>2, <2>3 DEF Shaped
    <3> QED
      BY <3>2, <3>3
  <2>5. Answer(calls[m])'
    <3>1. Answer(c)'
      BY <1>1, <2>3, AnswerStays
    <3> QED
      BY <2>2, <3>1 DEF Answer
  <2>6. /\ c.op = calls[m].op /\ c.key = calls[m].key /\ c.ids = calls[m].ids
        /\ c.thread = calls[m].thread /\ c.commit = calls[m].commit
        /\ c.commit # 0 => c.gate = calls[m].gate
    BY <1>1, <2>2 DEF Continues
  <2>7. Whole(m)'
    <3> SUFFICES ASSUME c.commit # 0, NEW id \in ToSet(c.ids)
                 PROVE  RowFor(m, id)' \in rows[HomeOf(c.thread)] \/ Gone(m, id)'
      BY <2>2 DEF Whole, HomeOf
    <3>1. RowFor(m, id)' = RowFor(m, id)
      BY <2>2, <2>6 DEF RowFor
    <3>2. Gone(m, id) => Gone(m, id)'
      BY <1>0, <1>1, <2>6, GoneStays
    <3> QED
      BY <2>1, <2>6, <3>1, <3>2 DEF Whole
  <2>8. Destroyed(m)'
    <3> SUFFICES ASSUME c.op = "destroy", c.outcome = "returned",
                        NEW r \in Held(HomeOf(c.thread), c.key)
                 PROVE  calls'[r.call].commit > c.counted
      BY <2>2 DEF Destroyed, Held, HomeOf
    <3>1. r \in rows[HomeOf(c.thread)] /\ Made(r)
      <4>1. c.thread \in Threads
        BY <1>0, <2>6, CallFields DEF Typed
      <4> QED
        BY <1>0, <4>1, HomeIsHome DEF Held, RowInv
    <3>2. calls'[r.call].commit = calls[r.call].commit
      BY <1>1, <3>1 DEF Made, Continues
    <3>3. c.counted = calls[m].counted /\ calls[m].outcome = "returned"
      BY <1>1, <2>2
    <3> QED
      BY <2>1, <2>6, <3>2, <3>3 DEF Destroyed
  <2> QED
    BY <2>4, <2>5, <2>7, <2>8
<1> QED
  BY <1>1, <1>2, <1>3 DEF CallInv

(* A call commits: it writes its rows, or deletes those of its partition.  *)
Commits(t, n, d, home, W) ==
  /\ n = current[t] /\ pc[t] # "idle" /\ home = HomeOf(t)
  /\ calls[n].commit = 0 /\ calls[n].op # "query"
  /\ Continues(calls[n], d) /\ calls' = [calls EXCEPT ![n] = d]
  /\ d.commit = commits + 1 /\ d.counted = calls[n].counted /\ d.gate = calls[n].gate
  /\ d.op = "destroy" => d.outcome = "open"
  /\ commits' = commits + 1 /\ UNCHANGED <<store, entries>>
  /\ W = IF d.op = "destroy" THEN {} ELSE {RowFor(n, id) : id \in ToSet(d.ids)}
  /\ \A h \in Homes \ {home} : rows'[h] = rows[h]
  /\ rows'[home] \subseteq rows[home] \cup W /\ W \subseteq rows'[home]
  /\ \A r \in rows[home] \ rows'[home] :
        /\ r.key = d.key
        /\ d.op = "destroy" \/ (store = "postgres" /\ r.id \in ToSet(d.ids))

LEMMA CommitKeeps ==
  ASSUME StoreInv, Typed', NEW t \in Threads, NEW n, NEW d \in CallType,
         NEW home, NEW W, Commits(t, n, d, home, W)
  PROVE  CallInv' /\ RowInv'
<1> USE DEF Commits
<1>0. Typed /\ CallInv /\ RowInv /\ ThreadInv
  BY DEF StoreInv
<1>n. n \in DOMAIN calls /\ calls[n].thread = t /\ home \in Homes /\ commits \in Nat
  BY <1>0, HomeIsHome DEF ThreadInv, Busy, Call, Typed
<1>1. /\ DOMAIN calls' = DOMAIN calls /\ calls'[n] = d
      /\ \A k \in DOMAIN calls \ {n} : calls'[k] = calls[k]
  BY <1>0, <1>n, CallsAfter DEF Typed
<1>w. ASSUME NEW r \in W
      PROVE  Made(r)' /\ r.call = n
  <2>1. PICK id \in ToSet(d.ids) : r = RowFor(n, id)
    BY <1>w
  <2>2. r.id = id /\ r.call = n
    BY <2>1 DEF RowFor
  <2>3. RowFor(n, id)' = RowFor(n, id)
    BY <1>1 DEF RowFor, Continues
  <2>4. d.op \notin {"query", "destroy"}
    BY <1>w DEF Continues
  <2> QED
    BY <1>1, <1>n, <2>1, <2>2, <2>3, <2>4 DEF Made
<1>2. RowInv'
  <2> SUFFICES ASSUME NEW h \in Homes, NEW r \in rows'[h] PROVE Made(r)'
    BY DEF RowInv
  <2>1. CASE r \in rows[h]
    BY <1>0, <1>n, <1>1, <2>1, MadeStays DEF RowInv
  <2>2. CASE r \in W
    BY <2>2, <1>w
  <2> QED
    BY <2>1, <2>2
<1>3. ASSUME NEW m \in DOMAIN calls
      PROVE  /\ Bound(calls[m])' /\ Shaped(calls[m])' /\ Answer(calls[m])'
             /\ Whole(m)' /\ Destroyed(m)'
  <2>1. /\ Bound(calls[m]) /\ Shaped(calls[m]) /\ Answer(calls[m])
        /\ Whole(m) /\ Destroyed(m) /\ calls[m] \in CallType
    BY <1>0 DEF CallInv, Typed
  <2>2. PICK c : c = calls'[m]
    OBVIOUS
  <2>3. /\ c.op = calls[m].op /\ c.key = calls[m].key /\ c.ids = calls[m].ids
        /\ c.thread = calls[m].thread /\ c.gate = calls[m].gate /\ c.regime = calls[m].regime
        /\ c.wanted = calls[m].wanted /\ c.counted = calls[m].counted
        /\ calls[m].commit # 0 => c.commit = calls[m].commit
        /\ m # n => c.commit = calls[m].commit /\ c.outcome = calls[m].outcome
        /\ c.commit \in Nat /\ c.commit <= commits + 1
        /\ m # n => c = calls[m]
        /\ c.op = "query" => c = calls[m]
    BY <1>1, <1>n, <2>1, <2>2, CallFields DEF Continues, Shaped
  <2>4. Bound(calls[m])' /\ Shaped(calls[m])'
    <3>1. \A p, k : EntryOf(p, k)' = EntryOf(p, k) /\ KeysOf(p)' = KeysOf(p)
      BY DEF EntryOf, KeysOf
    <3>2. Bound(calls[m])'
      BY <2>1, <2>2, <2>3, <3>1 DEF Bound, MaskOf
    <3>3. calls[m].counted \in Nat /\ calls[m].commit \in Nat
      BY <2>1, CallFields
    <3>4. Shaped(calls[m])'
      BY <1>n, <2>1, <2>2, <2>3, <3>3 DEF Shaped
    <3> QED
      BY <3>2, <3>4
  <2>5. Answer(calls[m])'
    <3>1. CASE c = calls[m]
      <4>1. Answer(c)'
        BY <1>n, <1>1, <2>1, <3>1, AnswerStays
      <4> QED
        BY <2>2, <4>1 DEF Answer
    <3>2. CASE c.op # "query"
      BY <2>2, <3>2 DEF Answer
    <3> QED
      BY <2>3, <3>1, <3>2
  <2>6. Whole(m)'
    <3> SUFFICES ASSUME c.commit # 0, NEW id \in ToSet(c.ids)
                 PROVE  RowFor(m, id)' \in rows'[HomeOf(c.thread)] \/ Gone(m, id)'
      BY <2>2 DEF Whole, HomeOf
    <3>1. RowFor(m, id)' = RowFor(m, id)
      BY <2>2, <2>3 DEF RowFor
    <3>2. CASE m = n
      <4>1. d.op # "destroy"
        <5>1. d.op = "destroy" => d.ids = <<>>
          BY <1>1, <2>1, <2>2, <2>3, <3>2 DEF Shaped
        <5>2. d.ids # <<>>
          BY <1>1, <2>2, <3>2 DEF ToSet
        <5> QED
          BY <5>1, <5>2
      <4>2. RowFor(m, id) \in W
        BY <1>1, <2>2, <3>2, <4>1
      <4>3. HomeOf(c.thread) = home
        BY <1>n, <2>3, <3>2
      <4> QED
        BY <3>1, <4>2, <4>3
    <3>3. CASE m # n
      <4>1. calls[m].commit # 0 /\ c.commit = calls[m].commit
        BY <2>3, <3>3
      <4>2. CASE Gone(m, id)
        BY <1>0, <1>n, <1>1, <4>1, <4>2, GoneStays
      <4>3. CASE RowFor(m, id) \in rows[HomeOf(c.thread)]
        <5>1. CASE RowFor(m, id) \in rows'[HomeOf(c.thread)]
          BY <3>1, <5>1
        <5>2. CASE RowFor(m, id) \notin rows'[HomeOf(c.thread)]
          <6>1. HomeOf(c.thread) \in Homes
            BY <2>1, <2>3, CallFields, HomeIsHome
          <6>2. HomeOf(c.thread) = home
            BY <4>3, <5>2, <6>1
          <6>3. RowFor(m, id).key = d.key
                /\ (d.op = "destroy" \/ (store = "postgres" /\ RowFor(m, id).id \in ToSet(d.ids)))
            BY <4>3, <5>2, <6>2
          <6>4. RowFor(m, id).key = calls[m].key /\ RowFor(m, id).id = id
            BY DEF RowFor
          <6>5. d.commit > c.commit
            BY <1>n, <2>1, <4>1, CallFields DEF Shaped
          <6>6. /\ calls'[n].commit > calls'[m].commit /\ calls'[n].key = calls'[m].key
                /\ (calls'[n].op = "destroy" \/ (store = "postgres" /\ id \in ToSet(calls'[n].ids)))
            BY <1>1, <2>2, <2>3, <6>3, <6>4, <6>5
          <6> QED
            BY <1>1, <1>n, <6>6 DEF Gone
        <5> QED
          BY <5>1, <5>2
      <4> QED
        BY <2>1, <2>3, <4>1, <4>2, <4>3 DEF Whole
    <3> QED
      BY <3>2, <3>3
  <2>7. Destroyed(m)'
    <3> SUFFICES ASSUME c.op = "destroy", c.outcome = "returned",
                        NEW r \in rows'[HomeOf(c.thread)], r.key = c.key
                 PROVE  calls'[r.call].commit > c.counted
      BY <2>2 DEF Destroyed, Held, HomeOf
    <3>1. m # n
      BY <1>1, <2>2
    <3>2. HomeOf(c.thread) \in Homes
      BY <2>1, <2>3, CallFields, HomeIsHome
    <3>3. CASE r \in rows[HomeOf(c.thread)]
      <4>1. Made(r)
        BY <1>0, <3>2, <3>3 DEF RowInv
      <4>2. calls'[r.call].commit = calls[r.call].commit
        BY <1>1, <4>1 DEF Made, Continues
      <4>3. calls[r.call].commit > calls[m].counted
        BY <2>1, <2>3, <3>1, <3>3 DEF Destroyed, Held
      <4> QED
        BY <2>3, <4>2, <4>3
    <3>4. CASE r \in W
      <4>1. calls'[r.call].commit = commits + 1
        BY <1>w, <1>1, <3>4
      <4>2. c.counted <= commits /\ c.counted \in Nat
        BY <2>1, <2>3, CallFields DEF Shaped
      <4> QED
        BY <1>n, <4>1, <4>2
    <3> QED
      BY <3>2, <3>3, <3>4
  <2> QED
    BY <2>4, <2>5, <2>6, <2>7
<1> QED
  BY <1>1, <1>2, <1>3 DEF CallInv

(* A new call has promised nothing yet. *)
LEMMA BeginKeeps ==
  ASSUME StoreInv, Typed', NEW d \in CallType, calls' = Append(calls, d),
         UNCHANGED <<store, entries, rows, commits>>,
         Bound(d), Shaped(d), d.commit = 0, d.outcome = "open"
  PROVE  CallInv' /\ RowInv'
<1>0. Typed /\ CallInv /\ RowInv /\ calls \in Seq(CallType)
  BY DEF StoreInv, Typed
<1>n. PICK n : n = Len(calls) + 1
  OBVIOUS
<1>1. /\ DOMAIN calls' = DOMAIN calls \cup {n} /\ n \notin DOMAIN calls /\ calls'[n] = d
      /\ \A k \in DOMAIN calls : calls'[k] = calls[k]
  BY <1>0, <1>n
<1>2. RowInv'
  BY <1>0, <1>1 DEF RowInv, Made, RowFor
<1>b. \A p, k : EntryOf(p, k)' = EntryOf(p, k) /\ KeysOf(p)' = KeysOf(p)
  BY DEF EntryOf, KeysOf
<1>3. ASSUME NEW m \in DOMAIN calls
      PROVE  /\ Bound(calls[m])' /\ Shaped(calls[m])' /\ Answer(calls[m])'
             /\ Whole(m)' /\ Destroyed(m)'
  <2>1. /\ Bound(calls[m]) /\ Shaped(calls[m]) /\ Answer(calls[m])
        /\ Whole(m) /\ Destroyed(m) /\ calls[m] \in CallType
    BY <1>0 DEF CallInv, Typed
  <2>2. calls'[m] = calls[m]
    BY <1>1
  <2>3. Bound(calls[m])' /\ Shaped(calls[m])'
    BY <1>b, <2>1, <2>2 DEF Bound, MaskOf, Shaped
  <2>4. Answer(calls[m])'
    BY <1>1, <2>1, <2>2 DEF Answer
  <2>5. \A id : Gone(m, id) => Gone(m, id)'
    BY <1>1, <2>2 DEF Gone
  <2>6. Whole(m)'
    BY <2>1, <2>2, <2>5 DEF Whole, RowFor, HomeOf
  <2>7. Destroyed(m)'
    <3> SUFFICES ASSUME calls[m].op = "destroy", calls[m].outcome = "returned",
                        NEW r \in Held(HomeOf(calls[m].thread), calls[m].key)
                 PROVE  calls'[r.call].commit > calls[m].counted
      BY <2>2 DEF Destroyed, Held, HomeOf
    <3>1. calls[m].thread \in Threads
      BY <2>1, CallFields
    <3>2. Made(r)
      BY <1>0, <3>1, HomeIsHome DEF Held, RowInv
    <3> QED
      BY <1>1, <2>1, <3>2 DEF Made, Destroyed
  <2> QED
    BY <2>3, <2>4, <2>6, <2>7
<1>4. /\ Bound(calls[n])' /\ Shaped(calls[n])' /\ Answer(calls[n])'
      /\ Whole(n)' /\ Destroyed(n)'
  <2>1. Bound(calls[n])' /\ Shaped(calls[n])'
    BY <1>b, <1>1 DEF Bound, MaskOf, Shaped
  <2>2. Answer(calls[n])' /\ Whole(n)' /\ Destroyed(n)'
    BY <1>1 DEF Answer, Whole, Destroyed
  <2> QED
    BY <2>1, <2>2
<1> QED
  BY <1>1, <1>2, <1>3, <1>4 DEF CallInv

(* A registration: what the calls were told stays true. *)
LEMMA RegisterKeeps ==
  ASSUME StoreInv, MapsTyped', KeysApart', Grows,
         UNCHANGED <<store, calls, rows, commits>>
  PROVE  CallInv' /\ RowInv'
<1>0. Typed /\ CallInv /\ RowInv /\ MapsTyped /\ KeysApart
  BY DEF StoreInv, Typed
<1>1. RowInv'
  BY <1>0 DEF RowInv, Made, RowFor
<1>2. ASSUME NEW n \in DOMAIN calls
      PROVE  /\ Bound(calls[n])' /\ Shaped(calls[n])' /\ Answer(calls[n])'
             /\ Whole(n)' /\ Destroyed(n)'
  <2>1. /\ Bound(calls[n]) /\ Shaped(calls[n]) /\ Answer(calls[n])
        /\ Whole(n) /\ Destroyed(n) /\ calls[n].thread \in Threads
    BY <1>0, CallFields DEF CallInv, Typed
  <2>2. Bound(calls[n])'
    <3>1. PICK c : c = calls[n]
      OBVIOUS
    <3>2. Bound(c)'
      BY <1>0, <2>1, <3>1, BoundStays
    <3> QED
      BY <3>1, <3>2 DEF Bound
  <2>3. Shaped(calls[n])' /\ Answer(calls[n])'
    BY <2>1 DEF Shaped, Answer
  <2>4. Whole(n)'
    BY <2>1 DEF Whole, RowFor, HomeOf, Gone
  <2>5. Destroyed(n)'
    BY <2>1 DEF Destroyed, Held, HomeOf
  <2> QED
    BY <2>2, <2>3, <2>4, <2>5
<1> QED
  BY <1>1, <1>2 DEF CallInv

(***************************************************************************)
(* The steps.                                                              *)
(***************************************************************************)

Pcs == {"idle", "admitted", "prepared", "holding", "deleting", "counting"}

LEMMA ThreadStep ==
  ASSUME StoreInv, NEW t \in Threads, store' = store,
         \A u \in Threads \ {t} :
            pc'[u] = pc[u] /\ current'[u] = current[u] /\ done'[u] = done[u] /\ pending'[u] = pending[u],
         \A k \in DOMAIN calls :
            (k # current[t] \/ pc[t] = "idle") => k \in DOMAIN calls' /\ calls'[k] = calls[k],
         Busy(t)', Transaction(t)', \A u \in Threads : Locked(u)'
  PROVE  ThreadInv'
<1>1. ThreadInv
  BY DEF StoreInv
<1>2. ASSUME NEW u \in Threads \ {t} PROVE Busy(u)' /\ Transaction(u)'
  <2>1. pc[u] # "idle" => current[u] \in DOMAIN calls /\ (current[u] # current[t] \/ pc[t] = "idle")
    BY <1>1, NowApart DEF ThreadInv, Busy
  <2> QED
    BY <1>1, <2>1, OtherThread
<1> QED
  BY <1>2 DEF ThreadInv

LEMMA ThreadFacts ==
  ASSUME StoreInv, NEW t \in Threads, pc[t] # "idle"
  PROVE  /\ current[t] \in DOMAIN calls /\ calls[current[t]] \in CallType /\ Call(t) = calls[current[t]]
         /\ Call(t).thread = t /\ Call(t).outcome = "open"
         /\ Bound(Call(t)) /\ Shaped(Call(t)) /\ calls \in Seq(CallType)
         /\ HomeOf(t) \in Homes /\ ProcessOf[t] \in Processes /\ commits \in Nat
         /\ (pc[t] # "holding" \/ Call(t).op # "ingest_many") => pending[t] = {} /\ done[t] = 0
<1>1. Busy(t) /\ Transaction(t)
  BY DEF StoreInv, ThreadInv
<1>2. calls[current[t]] \in CallType /\ calls \in Seq(CallType) /\ commits \in Nat
  BY <1>1 DEF Busy, StoreInv, Typed
<1>3. Bound(Call(t)) /\ Shaped(Call(t))
  BY <1>1 DEF Busy, StoreInv, CallInv, Call
<1> QED
  BY <1>1, <1>2, <1>3, HomeIsHome, ProcessOfType DEF Busy, Transaction, Call

(* A call goes on or ends without having changed the rows. *)
OpenBy(t, d, label) ==
  /\ pc[t] # "idle"
  /\ Continues(Call(t), d) /\ d.commit = Call(t).commit
  /\ calls' = [calls EXCEPT ![current[t]] = d]
  /\ UNCHANGED <<store, entries, rows, commits, current>>
  /\ Bound(d) /\ Shaped(d) /\ Answer(d)
  /\ d.op = "destroy" /\ d.outcome = "returned" => Held(HomeOf(t), d.key) = {}
  /\ pc' = [pc EXCEPT ![t] = label]
  /\ \/ label = "idle"
     \/ /\ label = "prepared" /\ pc[t] = "admitted" /\ d.outcome = "open"
        /\ d.op = "query" => d.gate = d.regime
  /\ pending' = [pending EXCEPT ![t] = {}] /\ done' = [done EXCEPT ![t] = 0]
  /\ conn' \in [Processes -> Threads \cup {Nobody}]

LEMMA OpenStep ==
  ASSUME StoreInv, NEW t \in Threads, NEW d \in CallType, NEW label, OpenBy(t, d, label)
  PROVE  StoreInv'
<1> USE DEF OpenBy
<1>0. Typed /\ ThreadInv /\ KeysApart
  BY DEF StoreInv
<1>1. /\ current[t] \in DOMAIN calls /\ calls[current[t]] \in CallType /\ Call(t) = calls[current[t]]
      /\ Call(t).thread = t /\ Call(t).outcome = "open" /\ calls \in Seq(CallType)
  BY ThreadFacts
<1>2. PICK n : n = current[t]
  OBVIOUS
<1>3. /\ calls' \in Seq(CallType) /\ Len(calls') = Len(calls) /\ DOMAIN calls' = DOMAIN calls
      /\ calls'[n] = d /\ \A k \in DOMAIN calls \ {n} : calls'[k] = calls[k]
  BY <1>1, <1>2, CallsAfter
<1>4. Typed'
  <2>1. MapsTyped'
    BY <1>0 DEF Typed, MapsTyped
  <2>2. /\ pc' \in [Threads -> Pcs] /\ pending' \in [Threads -> SUBSET Row]
        /\ done' \in [Threads -> Nat]
    BY <1>0 DEF Typed, Pcs
  <2> QED
    BY <1>0, <1>3, <2>1, <2>2 DEF Typed, Pcs
<1>5. KeysApart'
  BY <1>0 DEF KeysApart, Unrepeated
<1>6. CallInv' /\ RowInv'
  <2>1. Continues(calls[n], d) /\ d.commit = calls[n].commit /\ n \in DOMAIN calls
        /\ calls' = [calls EXCEPT ![n] = d] /\ d.thread = t
    BY <1>1, <1>2 DEF Continues
  <2> QED
    BY <1>4, <2>1, OpenUpdate
<1>7. pc'[t] = label /\ current'[t] = n /\ pending'[t] = {} /\ done'[t] = 0
  BY <1>0, <1>2 DEF Typed
<1>8. Busy(t)'
  <2>1. label = "prepared" => Call(t).commit = 0
    BY <1>0 DEF ThreadInv, Busy
  <2> QED
    BY <1>1, <1>2, <1>3, <1>7, <2>1 DEF Busy, Call, Continues
<1>9. Transaction(t)'
  BY <1>7 DEF Transaction
<1>10. \A u \in Threads : Locked(u)'
  <2>1. \A u \in Threads : pending'[u] \subseteq pending[u]
    BY <1>0 DEF Typed
  <2> QED
    BY <1>0, <2>1, LockedKept
<1>11. ThreadInv'
  <2>1. \A u \in Threads \ {t} :
          pc'[u] = pc[u] /\ current'[u] = current[u] /\ done'[u] = done[u] /\ pending'[u] = pending[u]
    BY <1>0 DEF Typed
  <2>2. \A k \in DOMAIN calls :
          (k # current[t] \/ pc[t] = "idle") => k \in DOMAIN calls' /\ calls'[k] = calls[k]
    BY <1>2, <1>3
  <2> QED
    BY <1>8, <1>9, <1>10, <2>1, <2>2, ThreadStep
<1> QED
  BY <1>4, <1>5, <1>6, <1>11 DEF StoreInv

(* The record of a call that commits. *)
LEMMA CommittedRecord ==
  ASSUME StoreInv, NEW t \in Threads, pc[t] \notin {"idle", "counting"},
         NEW o \in {"open", "returned", "raised"}, Committed(t, o)
  PROVE  \E d \in CallType :
           /\ Continues(Call(t), d) /\ d.gate = Call(t).gate /\ d.outcome = o
           /\ d.commit = commits + 1 /\ d.counted = Call(t).counted
           /\ calls' = [calls EXCEPT ![current[t]] = d]
<1>1. /\ current[t] \in DOMAIN calls /\ calls[current[t]] \in CallType /\ Call(t) = calls[current[t]]
      /\ calls \in Seq(CallType) /\ commits \in Nat
  BY ThreadFacts
<1>2. PICK n \in DOMAIN calls : n = current[t]
  BY <1>1
<1>3. PICK x \in Nat : x = commits + 1
  BY <1>1
<1>4. PICK c \in CallType : c = calls[n]
  BY <1>1, <1>2
<1>5. c.commit = 0
  BY <1>1, <1>2, <1>4 DEF StoreInv, ThreadInv, Busy
<1>6. PICK d : d = CommitAs(c, x, o)
  OBVIOUS
<1>7. /\ d \in CallType /\ Continues(c, d) /\ d.gate = c.gate /\ d.outcome = o
      /\ d.commit = x /\ d.counted = c.counted
  BY <1>5, <1>6, CommitRecord
<1>8. calls' = [calls EXCEPT ![n] = d]
  <2>1. CommitSet(calls', calls, n, x, o)
    BY <1>2, <1>3 DEF Committed, CommitSet
  <2>2. Becomes(calls', calls, n, CommitAs(calls[n], x, o))
    BY <1>1, <2>1, CommitFields
  <2> QED
    BY <1>4, <1>6, <2>2 DEF Becomes
<1> QED
  BY <1>1, <1>2, <1>3, <1>4, <1>7, <1>8

(* A call commits. *)
CommitBy(t, d, home, W, R, label) ==
  /\ pc[t] \notin {"idle", "counting"} /\ Call(t).op # "query"
  /\ Continues(Call(t), d) /\ d.gate = Call(t).gate
  /\ d.commit = commits + 1 /\ d.counted = Call(t).counted
  /\ Call(t).op = "destroy" => d.outcome = "open"
  /\ calls' = [calls EXCEPT ![current[t]] = d]
  /\ commits' = commits + 1 /\ UNCHANGED <<store, entries, current>>
  /\ W = IF Call(t).op = "destroy" THEN {}
            ELSE {RowFor(current[t], id) : id \in ToSet(Call(t).ids)}
  /\ home = HomeOf(t) /\ R \in SUBSET Row /\ rows' = [rows EXCEPT ![home] = R]
  /\ R \subseteq rows[home] \cup W /\ W \subseteq R
  /\ \A r \in rows[home] \ R :
       /\ r.key = Call(t).key
       /\ Call(t).op = "destroy" \/ (store = "postgres" /\ r.id \in ToSet(Call(t).ids))
  /\ \A u \in Threads \ {t} : \A r \in pending[u], w \in W : r.id # w.id
  /\ pc' = [pc EXCEPT ![t] = label]
  /\ label = "idle" \/ (label = "counting" /\ Call(t).op = "destroy")
  /\ pending' = [pending EXCEPT ![t] = {}] /\ done' = [done EXCEPT ![t] = 0]
  /\ conn' \in [Processes -> Threads \cup {Nobody}]

LEMMA CommitStep ==
  ASSUME StoreInv, NEW t \in Threads, NEW d \in CallType, NEW home, NEW W, NEW R,
         NEW label, CommitBy(t, d, home, W, R, label)
  PROVE  StoreInv'
<1> USE DEF CommitBy
<1>0. Typed /\ ThreadInv /\ KeysApart
  BY DEF StoreInv
<1>1. /\ current[t] \in DOMAIN calls /\ calls[current[t]] \in CallType /\ Call(t) = calls[current[t]]
      /\ Call(t).thread = t /\ Call(t).outcome = "open" /\ calls \in Seq(CallType)
      /\ commits \in Nat /\ home \in Homes
  BY ThreadFacts
<1>2. PICK n : n = current[t]
  OBVIOUS
<1>c. calls[n].commit = 0
  BY <1>0, <1>1, <1>2 DEF ThreadInv, Busy
<1>e. /\ n \in DOMAIN calls /\ calls[n] \in CallType /\ Continues(calls[n], d)
      /\ d.gate = calls[n].gate /\ d.counted = calls[n].counted
  BY <1>1, <1>2
<1>f. calls' = [calls EXCEPT ![n] = d]
  BY <1>2
<1>3. /\ calls' \in Seq(CallType) /\ Len(calls') = Len(calls) /\ DOMAIN calls' = DOMAIN calls
      /\ calls'[n] = d /\ \A k \in DOMAIN calls \ {n} : calls'[k] = calls[k]
  BY <1>1, <1>e, <1>f, CallsAfter
<1>r. rows'[home] = R /\ (\A h \in Homes \ {home} : rows'[h] = rows[h])
      /\ rows' \in [Homes -> SUBSET Row]
  BY <1>0, <1>1 DEF Typed
<1>4. Typed'
  <2>1. MapsTyped'
    BY <1>0 DEF Typed, MapsTyped
  <2>2. /\ pc' \in [Threads -> Pcs] /\ pending' \in [Threads -> SUBSET Row]
        /\ done' \in [Threads -> Nat]
    BY <1>0 DEF Typed, Pcs
  <2>3. commits' \in Nat
    BY <1>1
  <2> QED
    BY <1>0, <1>3, <1>r, <2>1, <2>2, <2>3 DEF Typed, Pcs
<1>5. KeysApart'
  BY <1>0 DEF KeysApart, Unrepeated
<1>6. CallInv' /\ RowInv'
  <2>1. /\ d.op = Call(t).op /\ d.key = Call(t).key /\ d.ids = Call(t).ids
        /\ calls[n] = Call(t)
    BY <1>1, <1>2, <1>e DEF Continues
  <2>2. W = IF d.op = "destroy" THEN {} ELSE {RowFor(n, id) : id \in ToSet(d.ids)}
    BY <1>2, <2>1
  <2>3. /\ d.op = "destroy" => d.outcome = "open"
        /\ calls[n].op # "query" /\ pc[t] # "idle"
    BY <2>1
  <2>4. /\ \A r \in rows[home] \ rows'[home] :
              r.key = d.key /\ (d.op = "destroy" \/ (store = "postgres" /\ r.id \in ToSet(d.ids)))
        /\ rows'[home] \subseteq rows[home] \cup W /\ W \subseteq rows'[home]
    BY <1>r, <2>1
  <2>5. \A h \in Homes \ {home} : rows'[h] = rows[h]
    BY <1>r
  <2>6. Commits(t, n, d, home, W)
    BY <1>2, <1>c, <1>e, <1>f, <2>2, <2>3, <2>4, <2>5 DEF Commits
  <2> QED
    BY <1>4, <2>6, CommitKeeps
<1>7. pc'[t] = label /\ current'[t] = n /\ pending'[t] = {} /\ done'[t] = 0
  BY <1>0, <1>2 DEF Typed
<1>8. Busy(t)'
  BY <1>1, <1>2, <1>3, <1>7, <1>e DEF Busy, Call, Continues
<1>9. Transaction(t)'
  BY <1>7 DEF Transaction
<1>10. \A u \in Threads : Locked(u)'
  <2>1. \A u \in Threads : pending'[u] \subseteq pending[u]
    BY <1>0 DEF Typed
  <2>2. ASSUME NEW q \in rows'[Database], q \notin rows[Database], NEW u \in Threads,
               NEW r \in pending'[u]
        PROVE  r.id # q.id
    <3>1. Database \in Homes
      BY DEF Homes
    <3>2. q \in W
      BY <1>r, <2>2, <3>1
    <3>3. u # t /\ r \in pending[u]
      BY <1>7, <2>1, <2>2
    <3> QED
      BY <3>2, <3>3
  <2> QED
    BY <1>0, <2>1, <2>2, LockedKept
<1>11. ThreadInv'
  <2>1. \A u \in Threads \ {t} :
          pc'[u] = pc[u] /\ current'[u] = current[u] /\ done'[u] = done[u] /\ pending'[u] = pending[u]
    BY <1>0 DEF Typed
  <2>2. \A k \in DOMAIN calls :
          (k # current[t] \/ pc[t] = "idle") => k \in DOMAIN calls' /\ calls'[k] = calls[k]
    BY <1>2, <1>3
  <2> QED
    BY <1>8, <1>9, <1>10, <2>1, <2>2, ThreadStep
<1> QED
  BY <1>4, <1>5, <1>6, <1>11 DEF StoreInv

(***************************************************************************)
(* The steps that leave the rows as they are.                              *)
(***************************************************************************)

LEMMA EntryOfType ==
  ASSUME MapsTyped, KeysApart, NEW p \in Processes, NEW k \in KeysOf(p)
  PROVE  EntryOf(p, k) \in Entry /\ MaskOf(p, k) \in Regimes
<1>1. PICK i \in DOMAIN entries[p] : entries[p][i].key = k
  BY DEF KeysOf
<1>2. entries[p] \in Seq(Entry) /\ Unrepeated(entries[p])
  BY DEF MapsTyped, KeysApart
<1>3. EntryIn(entries[p], k) = entries[p][i]
  BY <1>1, <1>2, EntryInIs
<1>4. EntryOf(p, k) = entries[p][i]
  BY <1>3 DEF EntryIn, EntryOf
<1>5. entries[p][i] \in Entry
  BY <1>1, <1>2
<1> QED
  BY <1>4, <1>5 DEF MaskOf, Entry

(* What is bound for a record is bound for a later one of the same gate. *)
LEMMA BoundLater ==
  ASSUME NEW c, NEW d, Continues(c, d), Bound(c), Shaped(c), d.counted <= commits,
         d.commit = c.commit, d.gate \in {Ungated, MaskOf(ProcessOf[c.thread], c.key)}
  PROVE  Bound(d) /\ Shaped(d)
<1>1. /\ d.op = c.op /\ d.key = c.key /\ d.ids = c.ids /\ d.thread = c.thread
      /\ d.wanted = c.wanted /\ d.regime = c.regime
  BY DEF Continues
<1>2. Bound(d)
  BY <1>1 DEF Bound
<1>3. Shaped(d)
  BY <1>1 DEF Shaped
<1> QED
  BY <1>2, <1>3

LEMMA TakeMaskStep ==
  ASSUME StoreInv, NEW t \in Threads, TakeMask(t)
  PROVE  StoreInv'
<1>0. pc[t] = "admitted" /\ Typed /\ Busy(t)
  BY DEF TakeMask, StoreInv, ThreadInv
<1>1. PICK c \in CallType : c = Call(t)
  BY <1>0, ThreadFacts
<1>2. /\ current[t] \in DOMAIN calls /\ c = calls[current[t]] /\ calls \in Seq(CallType)
      /\ c.thread = t /\ c.outcome = "open" /\ Bound(c) /\ Shaped(c)
      /\ pending[t] = {} /\ done[t] = 0 /\ c.commit = 0
  BY <1>0, <1>1, ThreadFacts DEF Busy
<1>3. PICK g : g = IF c.wanted THEN MaskOf(ProcessOf[t], c.key) ELSE Ungated
  OBVIOUS
<1>4. g \in {Ungated, MaskOf(ProcessOf[c.thread], c.key)} /\ g \in Regimes \cup {Ungated}
      /\ (c.wanted => g = c.regime)
  BY <1>2, <1>3, CallFields DEF Bound
<1>5. PICK d : d = Gated(c, g)
  OBVIOUS
<1>6. /\ d \in CallType /\ Continues(c, d) /\ d.gate = g /\ d.outcome = "open"
      /\ d.commit = c.commit /\ d.counted = c.counted
  BY <1>2, <1>4, <1>5, GatedRecord
<1>7. calls' = [calls EXCEPT ![current[t]] = d]
  <2>1. calls' = [calls EXCEPT ![current[t]].gate = g]
    BY <1>1, <1>3 DEF TakeMask
  <2> QED
    BY <1>2, <1>5, <2>1 DEF Gated
<1>8. Bound(d) /\ Shaped(d)
  BY <1>2, <1>4, <1>6, BoundLater DEF Shaped
<1>9. Answer(d)
  BY <1>6 DEF Answer
<1>10. d.op = "query" => d.gate = d.regime
  BY <1>2, <1>4, <1>6 DEF Continues, Shaped
<1>11. OpenBy(t, d, "prepared")
  <2>1. /\ UNCHANGED <<store, entries, rows, commits, current>>
        /\ pc' = [pc EXCEPT ![t] = "prepared"]
        /\ pending' = [pending EXCEPT ![t] = {}] /\ done' = [done EXCEPT ![t] = 0]
        /\ conn' \in [Processes -> Threads \cup {Nobody}]
    BY <1>0, <1>2 DEF TakeMask, Goto, Typed
  <2>2. Continues(Call(t), d) /\ d.commit = Call(t).commit
    BY <1>1, <1>6
  <2> QED
    BY <1>0, <1>6, <1>7, <1>8, <1>9, <1>10, <2>1, <2>2 DEF OpenBy
<1> QED
  BY <1>6, <1>11, OpenStep

(* The steps that end a call with an exception before anything is visible. *)
LEMMA RaisedStep ==
  ASSUME StoreInv, NEW t \in Threads, Finish(t, "raised"), pc[t] # "idle",
         UNCHANGED <<store, entries, rows, commits, current>>,
         pending' = [pending EXCEPT ![t] = {}], done' = [done EXCEPT ![t] = 0],
         conn' \in [Processes -> Threads \cup {Nobody}]
  PROVE  StoreInv'
<1>1. PICK c \in CallType : c = Call(t)
  BY ThreadFacts
<1>2. /\ current[t] \in DOMAIN calls /\ c = calls[current[t]] /\ calls \in Seq(CallType)
      /\ c.thread = t /\ Bound(c) /\ Shaped(c)
  BY <1>1, ThreadFacts
<1>3. PICK d : d = Ended(c, "raised")
  OBVIOUS
<1>4. /\ d \in CallType /\ Continues(c, d) /\ d.gate = c.gate /\ d.outcome = "raised"
      /\ d.commit = c.commit /\ d.counted = c.counted
  BY <1>3, EndedRecord
<1>5. calls' = [calls EXCEPT ![current[t]] = d]
  BY <1>2, <1>3 DEF Finish, Ended
<1>6. Bound(d) /\ Shaped(d)
  BY <1>2, <1>4, BoundLater DEF Shaped, Bound
<1>7. Answer(d)
  BY <1>4 DEF Answer
<1>8. pc' = [pc EXCEPT ![t] = "idle"]
  BY DEF Finish, Goto
<1>9. OpenBy(t, d, "idle")
  BY <1>1, <1>4, <1>5, <1>6, <1>7, <1>8 DEF OpenBy
<1> QED
  BY <1>4, <1>9, OpenStep

LEMMA NothingPending ==
  ASSUME StoreInv, NEW t \in Threads, pc[t] # "idle", UNCHANGED <<pending, done>>,
         pc[t] # "holding" \/ Call(t).op # "ingest_many"
  PROVE  pending' = [pending EXCEPT ![t] = {}] /\ done' = [done EXCEPT ![t] = 0]
<1>1. pending[t] = {} /\ done[t] = 0
  BY ThreadFacts
<1> QED
  BY <1>1 DEF StoreInv, Typed

LEMMA ReleaseType ==
  ASSUME StoreInv, NEW t \in Threads, Release(t)
  PROVE  conn' \in [Processes -> Threads \cup {Nobody}]
  BY DEF StoreInv, Typed, Release

LEMMA AbandonStep ==
  ASSUME StoreInv, NEW t \in Threads, Abandon(t)
  PROVE  StoreInv'
<1>1. /\ pc[t] = "admitted" /\ Finish(t, "raised")
      /\ UNCHANGED <<store, entries, rows, pending, conn, current, done, commits>>
  BY DEF Abandon
<1>2. pending' = [pending EXCEPT ![t] = {}] /\ done' = [done EXCEPT ![t] = 0]
  BY <1>1, NothingPending
<1>3. conn' \in [Processes -> Threads \cup {Nobody}]
  BY <1>1 DEF StoreInv, Typed
<1> QED
  BY <1>1, <1>2, <1>3, RaisedStep

LEMMA RollbackStep ==
  ASSUME StoreInv, NEW t \in Threads, PgRollback(t)
  PROVE  StoreInv'
<1>1. /\ pc[t] # "idle" /\ Finish(t, "raised") /\ Release(t)
      /\ UNCHANGED <<store, entries, rows, current, commits>>
      /\ pending' = [pending EXCEPT ![t] = {}] /\ done' = [done EXCEPT ![t] = 0]
  BY DEF PgRollback
<1>2. conn' \in [Processes -> Threads \cup {Nobody}]
  BY <1>1, ReleaseType
<1> QED
  BY <1>1, <1>2, RaisedStep

(* destroy() counts, and returns only over an empty partition. *)
LEMMA CountStep ==
  ASSUME StoreInv, NEW t \in Threads, Count(t)
  PROVE  StoreInv'
<1>0. pc[t] = "counting" /\ Typed /\ Busy(t)
  BY DEF Count, StoreInv, ThreadInv
<1>1. PICK c \in CallType : c = Call(t)
  BY <1>0, ThreadFacts
<1>2. /\ current[t] \in DOMAIN calls /\ c = calls[current[t]] /\ calls \in Seq(CallType)
      /\ c.thread = t /\ Bound(c) /\ Shaped(c) /\ commits \in Nat
      /\ c.op = "destroy"
  BY <1>0, <1>1, ThreadFacts DEF Busy
<1>3. PICK o \in CountOutcomes(t) :
        calls' = [calls EXCEPT ![current[t]].counted = commits, ![current[t]].outcome = o]
  BY DEF Count
<1>4. /\ o \in {"open", "returned", "raised"}
      /\ o = "returned" => Held(HomeOf(t), c.key) = {}
  BY <1>1 DEF CountOutcomes
<1>5. PICK x \in Nat : x = commits
  BY <1>2
<1>6. PICK d : d = CountAs(c, x, o)
  OBVIOUS
<1>7. /\ d \in CallType /\ Continues(c, d) /\ d.gate = c.gate /\ d.outcome = o
      /\ d.commit = c.commit /\ d.counted = x
  BY <1>4, <1>6, CountRecord
<1>8. calls' = [calls EXCEPT ![current[t]] = d]
  <2>1. PICK n \in DOMAIN calls : n = current[t]
    BY <1>2
  <2>2. CountSet(calls', calls, n, x, o)
    BY <1>3, <1>5, <2>1 DEF CountSet
  <2>3. Becomes(calls', calls, n, CountAs(calls[n], x, o))
    BY <1>2, <2>2, CountFields
  <2> QED
    BY <1>2, <1>6, <2>1, <2>3 DEF Becomes
<1>9. Bound(d) /\ Shaped(d)
  BY <1>2, <1>5, <1>7, BoundLater DEF Bound
<1>10. Answer(d)
  BY <1>2, <1>7 DEF Answer, Continues
<1>11. OpenBy(t, d, "idle")
  <2>1. UNCHANGED <<store, entries, rows, pending, conn, current, done, commits>>
        /\ pc' = [pc EXCEPT ![t] = "idle"]
    BY DEF Count, Goto
  <2>2. pending' = [pending EXCEPT ![t] = {}] /\ done' = [done EXCEPT ![t] = 0]
    BY <1>0, <2>1, NothingPending
  <2>3. conn' \in [Processes -> Threads \cup {Nobody}]
    BY <1>0, <2>1 DEF Typed
  <2>4. d.op = "destroy" /\ d.outcome = "returned" => Held(HomeOf(t), d.key) = {}
    BY <1>4, <1>7 DEF Continues
  <2>5. Continues(Call(t), d) /\ d.commit = Call(t).commit
    BY <1>1, <1>7
  <2> QED
    BY <1>0, <1>8, <1>9, <1>10, <2>1, <2>2, <2>3, <2>4, <2>5 DEF OpenBy
<1> QED
  BY <1>7, <1>11, OpenStep

(* A query answers with rows, each as the call that wrote it made it. *)
LEMMA RetrieveStep ==
  ASSUME StoreInv, NEW t \in Threads, Retrieve(t)
  PROVE  StoreInv'
<1>0. pc[t] \in {"prepared", "holding"} /\ Call(t).op = "query" /\ Typed /\ Busy(t)
  BY DEF Retrieve, StoreInv, ThreadInv
<1>1. PICK c \in CallType : c = Call(t)
  BY <1>0, ThreadFacts
<1>2. /\ current[t] \in DOMAIN calls /\ c = calls[current[t]] /\ calls \in Seq(CallType)
      /\ c.thread = t /\ Bound(c) /\ Shaped(c) /\ HomeOf(t) \in Homes
      /\ c.op = "query" /\ c.gate = c.regime
  BY <1>0, <1>1, ThreadFacts DEF Busy
<1>3. PICK S \in Ranked(t) :
        calls' = [calls EXCEPT ![current[t]].docs = S, ![current[t]].outcome = "returned"]
  BY DEF Retrieve
<1>4. ASSUME NEW r \in S
      PROVE  r \in Row /\ r.key = c.key /\ Made(r)
  <2>1. r \in rows[HomeOf(t)] /\ r.key = c.key
    BY <1>1, <1>3, <1>4 DEF Ranked, Held
  <2> QED
    BY <1>0, <1>2, <2>1 DEF StoreInv, RowInv, Typed
<1>5. S \in SUBSET Row
  BY <1>4
<1>6. PICK d : d = Answered(c, S)
  OBVIOUS
<1>7. /\ d \in CallType /\ Continues(c, d) /\ d.gate = c.gate /\ d.outcome = "returned"
      /\ d.commit = c.commit /\ d.counted = c.counted /\ d.docs = S
  BY <1>5, <1>6, AnsweredRecord
<1>8. calls' = [calls EXCEPT ![current[t]] = d]
  <2>1. PICK n \in DOMAIN calls : n = current[t]
    BY <1>2
  <2>2. AnswerSet(calls', calls, n, S)
    BY <1>3, <2>1 DEF AnswerSet
  <2>3. Becomes(calls', calls, n, Answered(calls[n], S))
    BY <1>2, <2>2, AnswerFields
  <2> QED
    BY <1>2, <1>6, <2>1, <2>3 DEF Becomes
<1>9. Bound(d) /\ Shaped(d)
  BY <1>2, <1>7, BoundLater DEF Bound, Shaped
<1>10. Answer(d)
  <2>1. \A r \in S : /\ r.call \in DOMAIN calls /\ r.key = calls[r.call].key
                     /\ r.gate = calls[r.call].gate /\ calls[r.call].commit # 0
    <3> SUFFICES ASSUME NEW r \in S
                 PROVE  /\ r.call \in DOMAIN calls /\ r.key = calls[r.call].key
                        /\ r.gate = calls[r.call].gate /\ calls[r.call].commit # 0
      OBVIOUS
    <3>1. r = RowFor(r.call, r.id) /\ r.call \in DOMAIN calls /\ calls[r.call].commit # 0
      BY <1>4 DEF Made
    <3> QED
      BY <3>1 DEF RowFor
  <2> QED
    BY <1>2, <1>4, <1>7, <2>1 DEF Answer, Continues
<1>11. OpenBy(t, d, "idle")
  <2>1. UNCHANGED <<store, entries, rows, pending, current, done, commits>>
        /\ pc' = [pc EXCEPT ![t] = "idle"]
    BY DEF Retrieve, Goto
  <2>2. pending' = [pending EXCEPT ![t] = {}] /\ done' = [done EXCEPT ![t] = 0]
    BY <1>0, <2>1, NothingPending
  <2>3. conn' \in [Processes -> Threads \cup {Nobody}]
    <3>1. Release(t) \/ UNCHANGED conn
      BY DEF Retrieve
    <3>2. CASE Release(t)
      BY <3>2, ReleaseType
    <3>3. CASE UNCHANGED conn
      BY <1>0, <3>3 DEF Typed
    <3> QED
      BY <3>1, <3>2, <3>3
  <2>4. d.op # "destroy"
    BY <1>2, <1>7 DEF Continues
  <2>5. Continues(Call(t), d) /\ d.commit = Call(t).commit
    BY <1>1, <1>7
  <2> QED
    BY <1>0, <1>8, <1>9, <1>10, <2>1, <2>2, <2>3, <2>4, <2>5 DEF OpenBy
<1> QED
  BY <1>7, <1>11, OpenStep

(***************************************************************************)
(* The steps that change the rows.                                         *)
(***************************************************************************)

WritesOf(n, ids) == {RowFor(n, id) : id \in ToSet(ids)}

LEMMA WritesOfType ==
  ASSUME StoreInv, NEW t \in Threads, pc[t] # "idle"
  PROVE  WritesOf(current[t], Call(t).ids) \in SUBSET Row
<1>1. /\ current[t] \in DOMAIN calls /\ Call(t) \in CallType /\ Typed
  BY ThreadFacts DEF StoreInv
<1>2. Call(t).ids \in Seq(Ids)
  BY <1>1, CallFields
<1>3. \A id \in ToSet(Call(t).ids) : id \in Ids
  BY <1>2 DEF ToSet
<1> QED
  BY <1>1, <1>3, RowForType DEF WritesOf

(* In memory no transaction is ever open. *)
LEMMA MemoryHasNoTransactions ==
  ASSUME StoreInv, store = "memory", NEW u \in Threads
  PROVE  pending[u] = {}
  BY DEF StoreInv, ThreadInv, Busy, Transaction

LEMMA MemoryInsertStep ==
  ASSUME StoreInv, NEW t \in Threads, MemoryInsert(t)
  PROVE  StoreInv'
<1>0. pc[t] = "prepared" /\ Typed /\ store = "memory"
      /\ Call(t).op \notin {"query", "destroy"}
      /\ UNCHANGED <<store, entries, pending, conn, current, done, found>>
  BY DEF MemoryInsert, StoreInv, Writes
<1>1. /\ current[t] \in DOMAIN calls /\ Call(t) \in CallType /\ Bound(Call(t))
      /\ HomeOf(t) \in Homes
  BY <1>0, ThreadFacts
<1>2. /\ pending' = [pending EXCEPT ![t] = {}] /\ done' = [done EXCEPT ![t] = 0]
      /\ conn' \in [Processes -> Threads \cup {Nobody}]
  BY <1>0, NothingPending DEF Typed
<1>3. CASE ~ MemoryAccepts(t)
  <2>1. Finish(t, "raised") /\ UNCHANGED <<rows, commits>>
    BY <1>3 DEF MemoryInsert
  <2> QED
    BY <1>0, <1>2, <2>1, RaisedStep
<1>4. CASE MemoryAccepts(t)
  <2>1. Committed(t, "returned") /\ Goto(t, "idle")
    BY <1>4 DEF MemoryInsert
  <2>2. PICK d \in CallType :
          /\ Continues(Call(t), d) /\ d.gate = Call(t).gate /\ d.outcome = "returned"
          /\ d.commit = commits + 1 /\ d.counted = Call(t).counted
          /\ calls' = [calls EXCEPT ![current[t]] = d]
    BY <1>0, <2>1, CommittedRecord
  <2>3. PICK home \in Homes : home = HomeOf(t)
    BY <1>1
  <2>4. PICK W : W = WritesOf(current[t], Call(t).ids)
    OBVIOUS
  <2>5. PICK R : R = rows[home] \cup W
    OBVIOUS
  <2>6. rows' = [rows EXCEPT ![home] = R]
    BY <1>4, <2>3, <2>4, <2>5 DEF MemoryInsert, WritesOf
  <2>7. R \in SUBSET Row
    BY <1>0, <2>3, <2>4, <2>5, WritesOfType DEF Typed
  <2>8. \A u \in Threads \ {t} : \A r \in pending[u], w \in W : r.id # w.id
    BY <1>0, MemoryHasNoTransactions
  <2>9. CommitBy(t, d, home, W, R, "idle")
    BY <1>0, <1>2, <2>1, <2>2, <2>3, <2>4, <2>5, <2>6, <2>7, <2>8
       DEF CommitBy, Committed, Goto, WritesOf
  <2> QED
    BY <2>9, CommitStep
<1> QED
  BY <1>3, <1>4

LEMMA MemoryDeleteStep ==
  ASSUME StoreInv, NEW t \in Threads, MemoryDelete(t)
  PROVE  StoreInv'
<1>0. pc[t] = "prepared" /\ Typed /\ Call(t).op = "destroy"
      /\ UNCHANGED <<store, entries, pending, conn, current, done, found>>
      /\ Committed(t, "open") /\ Goto(t, "counting")
  BY DEF MemoryDelete, StoreInv
<1>2. /\ pending' = [pending EXCEPT ![t] = {}] /\ done' = [done EXCEPT ![t] = 0]
      /\ conn' \in [Processes -> Threads \cup {Nobody}]
  BY <1>0, NothingPending DEF Typed
<1>3. PICK d \in CallType :
        /\ Continues(Call(t), d) /\ d.gate = Call(t).gate /\ d.outcome = "open"
        /\ d.commit = commits + 1 /\ d.counted = Call(t).counted
        /\ calls' = [calls EXCEPT ![current[t]] = d]
  BY <1>0, CommittedRecord
<1>4. PICK home \in Homes : home = HomeOf(t)
  BY <1>0, ThreadFacts
<1>5. PICK R : R = rows[home] \ Held(home, Call(t).key)
  OBVIOUS
<1>6. rows' = [rows EXCEPT ![home] = R]
  BY <1>4, <1>5 DEF MemoryDelete
<1>7. R \in SUBSET Row
  BY <1>0, <1>5 DEF Typed
<1>8. \A r \in rows[home] \ R : r.key = Call(t).key
  BY <1>5 DEF Held
<1>9. CommitBy(t, d, home, {}, R, "counting")
  BY <1>0, <1>2, <1>3, <1>4, <1>5, <1>6, <1>7, <1>8 DEF CommitBy, Committed, Goto
<1> QED
  BY <1>9, CommitStep

LEMMA DeleteEndsStep ==
  ASSUME StoreInv, NEW t \in Threads, PgDeleteEnds(t)
  PROVE  StoreInv'
<1>0. pc[t] = "deleting" /\ Typed /\ Call(t).op = "destroy" /\ store = "postgres"
      /\ UNCHANGED <<store, entries, pending, current, done>>
      /\ Committed(t, "open") /\ Goto(t, "counting") /\ Release(t)
  BY DEF PgDeleteEnds, StoreInv, ThreadInv, Busy
<1>2. /\ pending' = [pending EXCEPT ![t] = {}] /\ done' = [done EXCEPT ![t] = 0]
      /\ conn' \in [Processes -> Threads \cup {Nobody}]
  BY <1>0, NothingPending, ReleaseType
<1>3. PICK d \in CallType :
        /\ Continues(Call(t), d) /\ d.gate = Call(t).gate /\ d.outcome = "open"
        /\ d.commit = commits + 1 /\ d.counted = Call(t).counted
        /\ calls' = [calls EXCEPT ![current[t]] = d]
  BY <1>0, CommittedRecord
<1>5. PICK R : R = {r \in rows[Database] : ~(r.key = Call(t).key /\ r.id \in found[t])}
  OBVIOUS
<1>6. rows' = [rows EXCEPT ![Database] = R]
  BY <1>5 DEF PgDeleteEnds
<1>7. R \in SUBSET Row
  BY <1>0, <1>5 DEF Typed, Homes
<1>8. \A r \in rows[Database] \ R : r.key = Call(t).key
  BY <1>5
<1>9. CommitBy(t, d, Database, {}, R, "counting")
  BY <1>0, <1>2, <1>3, <1>5, <1>6, <1>7, <1>8 DEF CommitBy, Committed, Goto, HomeOf
<1> QED
  BY <1>9, CommitStep

(* Rows that replace those with their ids, written by the call whose ids   *)
(* they are and free elsewhere.                                            *)
LEMMA UpsertStep ==
  ASSUME StoreInv, NEW t \in Threads, pc[t] = "holding",
         Call(t).op \notin {"query", "destroy"},
         NEW W, W = WritesOf(current[t], Call(t).ids),
         rows' = [rows EXCEPT ![Database] = Upsert(rows[Database], W)],
         \A w \in W, q \in rows[Database] : q.id = w.id => q.key = Call(t).key,
         \A u \in Threads \ {t} : \A r \in pending[u], w \in W : r.id # w.id,
         NEW o \in {"returned", "raised"}, Committed(t, o), Goto(t, "idle"), Release(t),
         pending' = [pending EXCEPT ![t] = {}], done' = [done EXCEPT ![t] = 0],
         UNCHANGED <<store, entries, current>>
  PROVE  StoreInv'
<1>0. Typed /\ store = "postgres"
  BY DEF StoreInv, ThreadInv, Busy
<1>1. PICK d \in CallType :
        /\ Continues(Call(t), d) /\ d.gate = Call(t).gate /\ d.outcome = o
        /\ d.commit = commits + 1 /\ d.counted = Call(t).counted
        /\ calls' = [calls EXCEPT ![current[t]] = d]
  BY CommittedRecord
<1>2. PICK R : R = Upsert(rows[Database], W)
  OBVIOUS
<1>3. R \subseteq rows[Database] \cup W /\ W \subseteq R
      /\ \A r \in rows[Database] \ R : \E w \in W : w.id = r.id
  BY <1>2 DEF Upsert
<1>4. R \in SUBSET Row
  BY <1>0, <1>3, WritesOfType DEF Typed, Homes
<1>5. \A w \in W : w.id \in ToSet(Call(t).ids)
  BY DEF WritesOf, RowFor
<1>6. \A r \in rows[Database] \ R : r.key = Call(t).key /\ r.id \in ToSet(Call(t).ids)
  BY <1>3, <1>5
<1>7. rows' = [rows EXCEPT ![Database] = R]
  BY <1>2
<1>8. conn' \in [Processes -> Threads \cup {Nobody}]
  BY ReleaseType
<1>9. CommitBy(t, d, Database, W, R, "idle")
  BY <1>0, <1>1, <1>3, <1>4, <1>6, <1>7, <1>8
     DEF CommitBy, Committed, Goto, HomeOf, WritesOf
<1> QED
  BY <1>9, CommitStep

LEMMA PgInsertStep ==
  ASSUME StoreInv, NEW t \in Threads, PgInsert(t)
  PROVE  StoreInv'
<1>0. pc[t] = "holding" /\ Call(t).op \notin {"query", "destroy", "ingest_many"}
      /\ Goto(t, "idle") /\ Release(t) /\ UNCHANGED <<store, entries, pending, current, done>>
      /\ ~LockedByOther(t, NextId(t)) /\ ~Conflicting(t, NextId(t))
  BY DEF PgInsert, Writes
<1>1. PICK o \in {"returned", "raised"} : Committed(t, o)
  BY DEF PgInsert
<1>2. /\ current[t] \in DOMAIN calls /\ Call(t) = calls[current[t]] /\ Call(t) \in CallType
      /\ Shaped(Call(t)) /\ pending[t] = {} /\ done[t] = 0
  BY <1>0, ThreadFacts
<1>3. Len(Call(t).ids) = 1 /\ Call(t).ids \in Seq(Ids)
  BY <1>0, <1>2, CallFields DEF Shaped, Ops
<1>4. ToSet(Call(t).ids) = {NextId(t)}
  BY <1>2, <1>3 DEF ToSet, NextId
<1>5. PICK W : W = WritesOf(current[t], Call(t).ids)
  OBVIOUS
<1>6. W = {RowFor(current[t], NextId(t))}
  BY <1>4, <1>5 DEF WritesOf
<1>7. Written(t) = W
  BY <1>2, <1>6 DEF Written, Upsert
<1>8. rows' = [rows EXCEPT ![Database] = Upsert(rows[Database], W)]
  BY <1>7 DEF PgInsert
<1>9. \A w \in W : w.id = NextId(t)
  BY <1>6 DEF RowFor
<1>10. \A w \in W, q \in rows[Database] : q.id = w.id => q.key = Call(t).key
  <2>1. \A q \in rows[Database] : q \in Upsert(rows[Database], pending[t])
    BY <1>2 DEF Upsert
  <2> QED
    BY <1>0, <1>9, <2>1 DEF Conflicting
<1>11. \A u \in Threads \ {t} : \A r \in pending[u], w \in W : r.id # w.id
  BY <1>0, <1>9 DEF LockedByOther
<1>12. pending' = [pending EXCEPT ![t] = {}] /\ done' = [done EXCEPT ![t] = 0]
  BY <1>0, NothingPending
<1>13. /\ pc[t] = "holding" /\ Call(t).op \notin {"query", "destroy"}
       /\ Goto(t, "idle") /\ Release(t) /\ UNCHANGED <<store, entries, current>>
  BY <1>0
<1> QED
  BY <1>1, <1>5, <1>8, <1>10, <1>11, <1>12, <1>13, UpsertStep

LEMMA PgCommitStep ==
  ASSUME StoreInv, NEW t \in Threads, PgCommit(t)
  PROVE  StoreInv'
<1>0. pc[t] = "holding" /\ Call(t).op = "ingest_many" /\ done[t] = Len(Call(t).ids)
      /\ Goto(t, "idle") /\ Release(t) /\ UNCHANGED <<store, entries, current>>
      /\ pending' = [pending EXCEPT ![t] = {}] /\ done' = [done EXCEPT ![t] = 0]
      /\ rows' = [rows EXCEPT ![Database] = Upsert(rows[Database], pending[t])]
  BY DEF PgCommit
<1>1. PICK o \in {"returned", "raised"} : Committed(t, o)
  BY DEF PgCommit
<1>2. /\ Call(t) = calls[current[t]] /\ Call(t) \in CallType /\ Transaction(t) /\ Locked(t)
  BY <1>0, ThreadFacts DEF StoreInv, ThreadInv
<1>3. Call(t).ids \in Seq(Ids)
  BY <1>2, CallFields
<1>4. PICK W : W = WritesOf(current[t], Call(t).ids)
  OBVIOUS
<1>5. pending[t] = W
  <2>1. pending[t] = {RowFor(current[t], Call(t).ids[i]) : i \in 1 .. Len(Call(t).ids)}
    BY <1>0, <1>2 DEF Transaction
  <2>2. DOMAIN Call(t).ids = 1 .. Len(Call(t).ids)
    BY <1>3
  <2> QED
    BY <1>4, <2>1, <2>2 DEF WritesOf, ToSet
<1>6. \A w \in W : w.key = Call(t).key
  BY <1>2, <1>4 DEF WritesOf, RowFor
<1>7. \A w \in W, q \in rows[Database] : q.id = w.id => q.key = Call(t).key
  BY <1>2, <1>5, <1>6 DEF Locked
<1>8. \A u \in Threads \ {t} : \A r \in pending[u], w \in W : r.id # w.id
  BY <1>2, <1>5 DEF Locked
<1>9. rows' = [rows EXCEPT ![Database] = Upsert(rows[Database], W)]
  BY <1>0, <1>5
<1> QED
  BY <1>0, <1>1, <1>4, <1>7, <1>8, <1>9, UpsertStep

(***************************************************************************)
(* The steps that change neither calls nor rows.                           *)
(***************************************************************************)

QuietBy(t, label) ==
  /\ UNCHANGED <<store, entries, rows, calls, commits, current>>
  /\ pc[t] # "idle" /\ label \in Pcs /\ pc' = [pc EXCEPT ![t] = label]
  /\ pending' \in [Threads -> SUBSET Row] /\ done' \in [Threads -> Nat]
  /\ \A u \in Threads \ {t} : pending'[u] = pending[u] /\ done'[u] = done[u]
  /\ conn' \in [Processes -> Threads \cup {Nobody}]
  /\ Busy(t)' /\ Transaction(t)' /\ \A u \in Threads : Locked(u)'

LEMMA QuietStep ==
  ASSUME StoreInv, NEW t \in Threads, NEW label, QuietBy(t, label)
  PROVE  StoreInv'
<1> USE DEF QuietBy
<1>0. Typed /\ KeysApart
  BY DEF StoreInv
<1>1. Typed'
  <2>1. MapsTyped' /\ pc' \in [Threads -> Pcs]
    BY <1>0 DEF Typed, MapsTyped, Pcs
  <2> QED
    BY <1>0, <2>1 DEF Typed, Pcs
<1>2. KeysApart'
  BY <1>0 DEF KeysApart, Unrepeated
<1>3. CallInv' /\ RowInv'
  BY CallsUnchanged
<1>4. ThreadInv'
  <2>1. \A u \in Threads \ {t} :
          pc'[u] = pc[u] /\ current'[u] = current[u] /\ done'[u] = done[u] /\ pending'[u] = pending[u]
    BY <1>0 DEF Typed
  <2> QED
    BY <2>1, ThreadStep
<1> QED
  BY <1>1, <1>2, <1>3, <1>4 DEF StoreInv

LEMMA AcquireStep ==
  ASSUME StoreInv, NEW t \in Threads, Acquire(t)
  PROVE  StoreInv'
<1>0. /\ pc[t] = "prepared" /\ store = "postgres" /\ Typed /\ ThreadInv /\ Busy(t)
      /\ UNCHANGED <<store, entries, rows, pending, current, done, found, calls, commits>>
      /\ pc' = [pc EXCEPT ![t] = "holding"] /\ conn' = [conn EXCEPT ![ProcessOf[t]] = t]
  BY DEF Acquire, Goto, StoreInv, ThreadInv
<1>1. pending[t] = {} /\ done[t] = 0 /\ Call(t) \in CallType
  BY <1>0, ThreadFacts
<1>2. pc'[t] = "holding"
  BY <1>0 DEF Typed
<1>3. Busy(t)'
  BY <1>0, <1>2 DEF Busy, Call
<1>4. Transaction(t)'
  <2>1. Call(t).ids \in Seq(Ids)
    BY <1>1, CallFields
  <2>2. 0 <= Len(Call(t).ids) /\ 1 .. 0 = {}
    BY <2>1
  <2>3. Call(t)' = Call(t) /\ done'[t] = 0 /\ pending'[t] = {}
    BY <1>0, <1>1 DEF Call
  <2> QED
    BY <1>0, <2>2, <2>3 DEF Transaction
<1>5. \A u \in Threads : Locked(u)'
  BY <1>0, LockedKept
<1>6. conn' \in [Processes -> Threads \cup {Nobody}]
  BY <1>0 DEF Typed
<1>7. QuietBy(t, "holding")
  BY <1>0, <1>3, <1>4, <1>5, <1>6 DEF QuietBy, Pcs, Typed
<1> QED
  BY <1>7, QuietStep

LEMMA DeleteStartsStep ==
  ASSUME StoreInv, NEW t \in Threads, PgDeleteStarts(t)
  PROVE  StoreInv'
<1>0. /\ pc[t] = "holding" /\ Call(t).op = "destroy" /\ Typed /\ ThreadInv /\ Busy(t)
      /\ UNCHANGED <<store, entries, rows, pending, conn, current, done, calls, commits>>
      /\ pc' = [pc EXCEPT ![t] = "deleting"]
  BY DEF PgDeleteStarts, Goto, StoreInv, ThreadInv
<1>1. pending[t] = {} /\ done[t] = 0
  BY <1>0, ThreadFacts
<1>2. pc'[t] = "deleting"
  BY <1>0 DEF Typed
<1>3. Busy(t)'
  BY <1>0, <1>2 DEF Busy, Call
<1>4. Transaction(t)'
  BY <1>0, <1>1, <1>2 DEF Transaction
<1>5. \A u \in Threads : Locked(u)'
  BY <1>0, LockedKept
<1>7. QuietBy(t, "deleting")
  BY <1>0, <1>3, <1>4, <1>5 DEF QuietBy, Pcs, Typed
<1> QED
  BY <1>7, QuietStep

(* A statement locks one more id, which nobody else has and which is free  *)
(* in the other partitions.                                                *)
LEMMA StatementStep ==
  ASSUME StoreInv, NEW t \in Threads, PgStatement(t)
  PROVE  StoreInv'
<1>0. /\ pc[t] = "holding" /\ Call(t).op = "ingest_many" /\ Typed /\ ThreadInv
      /\ Busy(t) /\ Transaction(t) /\ Locked(t) /\ done[t] < Len(Call(t).ids)
      /\ UNCHANGED <<store, entries, rows, conn, pc, current, found, calls, commits>>
      /\ ~LockedByOther(t, NextId(t)) /\ ~Conflicting(t, NextId(t))
  BY DEF PgStatement, StoreInv, ThreadInv
<1>1. /\ current[t] \in DOMAIN calls /\ Call(t) = calls[current[t]] /\ Call(t) \in CallType
  BY <1>0, ThreadFacts
<1>2. /\ Call(t).ids \in Seq(Ids) /\ done[t] \in Nat /\ done[t] + 1 \in DOMAIN Call(t).ids
      /\ Len(Call(t).ids) \in Nat
  BY <1>0, <1>1, CallFields DEF Typed
<1>3. PICK w : w = RowFor(current[t], NextId(t))
  OBVIOUS
<1>4. w \in Row /\ w.id = NextId(t) /\ w.key = Call(t).key
  <2>1. NextId(t) \in Ids
    BY <1>2 DEF NextId
  <2> QED
    BY <1>0, <1>1, <1>3, <2>1, RowForType
<1>5. \A r \in pending[t] : r = RowFor(current[t], r.id) /\ r.key = Call(t).key
  BY <1>0, <1>1 DEF Transaction, RowFor
<1>6. PICK P : P = pending[t] \cup {w}
  OBVIOUS
<1>7. Written(t) = P
  BY <1>3, <1>4, <1>5, <1>6 DEF Written, Upsert
<1>8. pending' = [pending EXCEPT ![t] = P] /\ done' = [done EXCEPT ![t] = done[t] + 1]
  BY <1>7 DEF PgStatement
<1>9. /\ pending' \in [Threads -> SUBSET Row] /\ done' \in [Threads -> Nat]
      /\ pending'[t] = P /\ done'[t] = done[t] + 1
      /\ \A u \in Threads \ {t} : pending'[u] = pending[u] /\ done'[u] = done[u]
  BY <1>0, <1>2, <1>4, <1>6, <1>8 DEF Typed
<1>10. Busy(t)'
  BY <1>0 DEF Busy, Call
<1>11. Transaction(t)'
  <2>1. PICK k \in Nat : k = done[t]
    BY <1>2
  <2>2. PICK ids \in Seq(Ids) : ids = Call(t).ids
    BY <1>2
  <2>3. PICK n : n = current[t]
    OBVIOUS
  <2>4. pending[t] = {RowFor(n, ids[i]) : i \in 1 .. k} /\ w = RowFor(n, ids[k + 1])
    BY <1>0, <1>3, <2>1, <2>2, <2>3 DEF Transaction, NextId
  <2>5. 1 .. (k + 1) = (1 .. k) \cup {k + 1}
    BY <2>1
  <2>6. P = {RowFor(n, ids[i]) : i \in 1 .. (k + 1)}
    BY <1>6, <2>4, <2>5
  <2>7. Call(t)'.ids = ids /\ current'[t] = n /\ k + 1 <= Len(ids) /\ done'[t] = k + 1
        /\ Call(t)'.op = "ingest_many"
    BY <1>0, <1>2, <1>9, <2>1, <2>2, <2>3 DEF Call
  <2>8. \A i : RowFor(n, ids[i])' = RowFor(n, ids[i])
    BY <1>0 DEF RowFor
  <2> QED
    BY <1>0, <1>9, <2>6, <2>7, <2>8 DEF Transaction
<1>12. \A u \in Threads \ {t} : \A r \in P, q \in pending[u] : r.id # q.id
  BY <1>0, <1>4, <1>6 DEF LockedByOther, Locked
<1>13. \A r \in P, q \in rows[Database] : q.id = r.id => q.key = r.key
  <2> SUFFICES ASSUME NEW q \in rows[Database], q.id = w.id
               PROVE  q.key = w.key
    BY <1>0, <1>6 DEF Locked
  <2>1. CASE \E r \in pending[t] : r.id = q.id
    BY <1>0, <1>4, <1>5, <2>1 DEF Locked
  <2>2. CASE \A r \in pending[t] : r.id # q.id
    <3>1. q \in Upsert(rows[Database], pending[t])
      BY <2>2 DEF Upsert
    <3> QED
      BY <1>0, <1>4, <3>1 DEF Conflicting
  <2> QED
    BY <2>1, <2>2
<1>14. \A u \in Threads : Locked(u)'
  <2>1. Locked(t)'
    BY <1>0, <1>9, <1>12, <1>13 DEF Locked
  <2>2. ASSUME NEW u \in Threads \ {t} PROVE Locked(u)'
    <3>1. Locked(u)
      BY <1>0 DEF ThreadInv
    <3>2. \A v \in Threads \ {u} : \A r \in pending[u], q \in pending'[v] : r.id # q.id
      BY <1>9, <1>12, <3>1 DEF Locked
    <3> QED
      BY <1>0, <1>9, <3>1, <3>2 DEF Locked
  <2> QED
    BY <2>1, <2>2
<1>15. pc' = [pc EXCEPT ![t] = "holding"]
  BY <1>0 DEF Typed
<1>16. QuietBy(t, "holding")
  BY <1>0, <1>9, <1>10, <1>11, <1>14, <1>15 DEF QuietBy, Pcs, Typed
<1> QED
  BY <1>16, QuietStep

(***************************************************************************)
(* Calls that begin, and registrations.                                    *)
(***************************************************************************)

NewCall(op, k, ids, t, wanted, regime) ==
  [op |-> op, key |-> k, ids |-> ids, thread |-> t, wanted |-> wanted,
   regime |-> regime, gate |-> Ungated,
   docs |-> {}, outcome |-> "open", commit |-> 0, counted |-> 0]

LEMMA NewRecord ==
  ASSUME NEW op \in Ops, NEW k \in Partitions, NEW ids \in Seq(Ids), NEW t \in Threads,
         NEW wanted \in BOOLEAN, NEW regime \in Regimes
  PROVE  LET d == NewCall(op, k, ids, t, wanted, regime) IN
         /\ d \in CallType /\ d.op = op /\ d.key = k /\ d.ids = ids /\ d.thread = t
         /\ d.wanted = wanted /\ d.regime = regime /\ d.gate = Ungated
         /\ d.outcome = "open" /\ d.commit = 0 /\ d.counted = 0
  BY DEF NewCall, CallType

(* The ids of a call, by what it does. *)
LEMMA IdsOfShape ==
  ASSUME NEW op \in Ops, NEW n \in 1 .. MaxCalls, NEW ids \in IdsOf(op, n)
  PROVE  /\ ids \in Seq(Ids)
         /\ op \in {"query", "destroy"} => ids = <<>>
         /\ op \in {"ingest", "weights"} => Len(ids) = 1
<1>1. CASE op = "weights"
  <2>1. ids = <<n>> /\ n \in Ids
    BY <1>1 DEF IdsOf, Ids
  <2> QED
    BY <1>1, <2>1
<1>2. CASE op = "ingest"
  <2>1. PICK x \in DocIds : ids = <<x>>
    BY <1>2 DEF IdsOf
  <2>2. x \in Ids
    BY DEF Ids
  <2> QED
    BY <1>2, <2>1, <2>2
<1>3. CASE op = "ingest_many"
  <2>1. ids \in Seq(DocIds)
    BY <1>3, BatchAssumption DEF IdsOf
  <2>2. DocIds \subseteq Ids
    BY DEF Ids
  <2> QED
    BY <1>3, <2>1, <2>2
<1>4. CASE op \in {"query", "destroy"}
  <2>1. op # "weights" /\ op # "ingest" /\ op # "ingest_many"
    BY <1>4
  <2>2. IdsOf(op, n) = {<<>>}
    BY <2>1 DEF IdsOf
  <2>3. ids = <<>> /\ ids \in Seq(Ids)
    BY <2>2
  <2> QED
    BY <2>1, <2>3
<1> QED
  BY <1>1, <1>2, <1>3, <1>4 DEF Ops

(* Admission read the binding that the call will be held to. *)
LEMMA AdmittedIsBound ==
  ASSUME MapsTyped, KeysApart, NEW t \in Threads, NEW op \in Ops, NEW k \in Partitions,
         Admitted(ProcessOf[t], op, k), NEW d, d.op = op, d.key = k, d.thread = t,
         d.regime = MaskOf(ProcessOf[t], k), d.gate = Ungated
  PROVE  Bound(d) /\ d.regime \in Regimes
<1>1. k \in KeysOf(ProcessOf[t])
  BY DEF Admitted, Writable
<1>2. d.regime \in Regimes
  BY <1>1, ProcessOfType, EntryOfType
<1>3. op = "weights" => EntryOf(ProcessOf[t], k).mode = "read_write"
  BY DEF Admitted
<1>4. op \notin {"query", "weights"} => EntryOf(ProcessOf[t], k).mode # "immutable"
  BY DEF Admitted, Writable
<1> QED
  BY <1>1, <1>2, <1>3, <1>4 DEF Bound

LEMMA BeginStep ==
  ASSUME StoreInv, NEW t \in Threads, NEW op \in Ops, NEW k \in Partitions, Begin(t, op, k)
  PROVE  StoreInv'
<1>0. /\ pc[t] = "idle" /\ Typed /\ ThreadInv /\ KeysApart /\ MapsTyped
      /\ Transaction(t) /\ calls \in Seq(CallType)
      /\ UNCHANGED <<store, entries, rows, pending, conn, done, found, commits>>
  BY DEF Begin, StoreInv, ThreadInv, Typed
<1>1. PICK n : n = Len(calls) + 1
  OBVIOUS
<1>2. /\ n \in 1 .. MaxCalls /\ Admitted(ProcessOf[t], op, k)
      /\ current' = [current EXCEPT ![t] = n] /\ pc' = [pc EXCEPT ![t] = "admitted"]
  BY <1>0, <1>1, CallAssumption DEF Begin, Goto
<1>3. PICK ids \in IdsOf(op, n), wanted \in GatingOf(op) :
        calls' = Append(calls, NewCall(op, k, ids, t, wanted, MaskOf(ProcessOf[t], k)))
  BY <1>1 DEF Begin, NewCall
<1>4. PICK g : g = MaskOf(ProcessOf[t], k)
  OBVIOUS
<1>5. g \in Regimes
  <2>1. k \in KeysOf(ProcessOf[t])
    BY <1>2 DEF Admitted, Writable
  <2> QED
    BY <1>0, <1>4, <2>1, ProcessOfType, EntryOfType
<1>6. /\ ids \in Seq(Ids)
      /\ op \in {"query", "destroy"} => ids = <<>>
      /\ op \in {"ingest", "weights"} => Len(ids) = 1
  BY <1>2, IdsOfShape
<1>7. wanted \in BOOLEAN /\ (op = "query" => wanted)
  BY DEF GatingOf
<1>8. PICK d : d = NewCall(op, k, ids, t, wanted, g)
  OBVIOUS
<1>9. /\ d \in CallType /\ d.op = op /\ d.key = k /\ d.ids = ids /\ d.thread = t
      /\ d.wanted = wanted /\ d.regime = g /\ d.gate = Ungated
      /\ d.outcome = "open" /\ d.commit = 0 /\ d.counted = 0
  BY <1>5, <1>6, <1>7, <1>8, NewRecord
<1>10. calls' = Append(calls, d)
  BY <1>3, <1>4, <1>8
<1>11. /\ calls' \in Seq(CallType) /\ Len(calls') = n /\ calls'[n] = d /\ n \in DOMAIN calls'
       /\ \A m \in DOMAIN calls : m \in DOMAIN calls' /\ calls'[m] = calls[m]
  BY <1>0, <1>1, <1>9, <1>10
<1>12. Typed'
  <2>1. MapsTyped'
    BY <1>0 DEF MapsTyped
  <2>2. pc' \in [Threads -> Pcs] /\ current' \in [Threads -> Nat] /\ Len(calls') <= MaxCalls
    BY <1>0, <1>2, <1>11 DEF Typed, Pcs
  <2> QED
    BY <1>0, <1>11, <2>1, <2>2 DEF Typed, Pcs
<1>13. KeysApart'
  BY <1>0 DEF KeysApart, Unrepeated
<1>14. CallInv' /\ RowInv'
  <2>1. Bound(d)
    BY <1>0, <1>2, <1>4, <1>9, AdmittedIsBound
  <2>2. Shaped(d)
    BY <1>0, <1>6, <1>7, <1>9 DEF Shaped, Typed
  <2> QED
    BY <1>0, <1>9, <1>10, <1>12, <2>1, <2>2, BeginKeeps
<1>15. pc'[t] = "admitted" /\ current'[t] = n
  BY <1>0, <1>2 DEF Typed
<1>16. Busy(t)'
  BY <1>9, <1>11, <1>15 DEF Busy, Call
<1>17. Transaction(t)'
  BY <1>0, <1>15 DEF Transaction
<1>18. \A u \in Threads : Locked(u)'
  BY <1>0, LockedKept
<1>19. ThreadInv'
  <2>1. \A u \in Threads \ {t} :
          pc'[u] = pc[u] /\ current'[u] = current[u] /\ done'[u] = done[u] /\ pending'[u] = pending[u]
    BY <1>0, <1>2 DEF Typed
  <2> QED
    BY <1>0, <1>11, <1>16, <1>17, <1>18, <2>1, ThreadStep
<1> QED
  BY <1>12, <1>13, <1>14, <1>19 DEF StoreInv

LEMMA RegisterStep ==
  ASSUME StoreInv, MapInv, NEW t \in Threads, NEW a \in Registrations, Register(t, a)
  PROVE  StoreInv'
<1>0. /\ Typed /\ ThreadInv /\ KeysApart
      /\ UNCHANGED <<store, rows, pending, conn, pc, current, done, found, calls, commits>>
  BY DEF Register, StoreInv
<1>1. Next
  BY DEF Next, Step
<1>2. MapsTyped' /\ Grows
  BY <1>1, StepMaps, StepGrows DEF MapInv
<1>3. KeysApart'
  BY <1>0, RegisterKeepsKeys
<1>4. CallInv' /\ RowInv'
  BY <1>0, <1>2, <1>3, RegisterKeeps
<1>5. Typed'
  BY <1>0, <1>2 DEF Typed
<1>6. ThreadInv'
  <2>1. ASSUME NEW u \in Threads PROVE Busy(u)' /\ Transaction(u)'
    <3>1. pc[u] # "idle" => current[u] \in DOMAIN calls
      BY <1>0 DEF ThreadInv, Busy
    <3> QED
      BY <1>0, <3>1, OtherThread
  <2>2. \A u \in Threads : Locked(u)'
    BY <1>0, LockedKept
  <2> QED
    BY <2>1, <2>2 DEF ThreadInv
<1> QED
  BY <1>3, <1>4, <1>5, <1>6 DEF StoreInv

(***************************************************************************)
(* The invariant, and what follows from it.                                *)
(***************************************************************************)

LEMMA InitStore == Init => StoreInv
<1> SUFFICES ASSUME Init PROVE StoreInv
  OBVIOUS
<1>1. Typed
  BY CallAssumption DEF Init, Typed, MapsTyped
<1>2. KeysApart /\ RowInv /\ CallInv
  BY DEF Init, KeysApart, Unrepeated, RowInv, CallInv
<1>3. ThreadInv
  BY DEF Init, ThreadInv, Busy, Transaction, Locked
<1> QED
  BY <1>1, <1>2, <1>3 DEF StoreInv

LEMMA StepStore == StoreInv /\ MapInv /\ [Next]_vars => StoreInv'
<1> SUFFICES ASSUME StoreInv, MapInv, [Next]_vars
             PROVE  StoreInv'
  OBVIOUS
<1>1. ASSUME NEW t \in Threads, Step(t)
      PROVE  StoreInv'
  <2>1. ASSUME NEW a \in Registrations, Register(t, a) PROVE StoreInv'
    BY <2>1, RegisterStep
  <2>2. ASSUME NEW op \in Ops, NEW k \in Partitions, Begin(t, op, k) PROVE StoreInv'
    BY <2>2, BeginStep
  <2>3. CASE TakeMask(t)
    BY <2>3, TakeMaskStep
  <2>4. CASE Abandon(t)
    BY <2>4, AbandonStep
  <2>5. CASE MemoryInsert(t)
    BY <2>5, MemoryInsertStep
  <2>6. CASE MemoryDelete(t)
    BY <2>6, MemoryDeleteStep
  <2>7. CASE Acquire(t)
    BY <2>7, AcquireStep
  <2>8. CASE PgInsert(t)
    BY <2>8, PgInsertStep
  <2>9. CASE PgStatement(t)
    BY <2>9, StatementStep
  <2>10. CASE PgCommit(t)
    BY <2>10, PgCommitStep
  <2>11. CASE PgRollback(t)
    BY <2>11, RollbackStep
  <2>12. CASE PgDeleteStarts(t)
    BY <2>12, DeleteStartsStep
  <2>13. CASE PgDeleteEnds(t)
    BY <2>13, DeleteEndsStep
  <2>14. CASE Count(t)
    BY <2>14, CountStep
  <2>15. CASE Retrieve(t)
    BY <2>15, RetrieveStep
  <2> QED
    BY <1>1, <2>1, <2>2, <2>3, <2>4, <2>5, <2>6, <2>7, <2>8, <2>9, <2>10, <2>11,
       <2>12, <2>13, <2>14, <2>15 DEF Step
<1>2. CASE UNCHANGED vars
  <2>1. CallInv' /\ RowInv'
    BY <1>2, CallsUnchanged DEF vars
  <2>2. Typed' /\ KeysApart'
    BY <1>2 DEF vars, StoreInv, Typed, MapsTyped, KeysApart, Unrepeated
  <2>3. ThreadInv'
    BY <1>2 DEF vars, StoreInv, ThreadInv, Busy, Transaction, Locked, Call, RowFor
  <2> QED
    BY <2>1, <2>2, <2>3 DEF StoreInv
<1> QED
  BY <1>1, <1>2 DEF Next

LEMMA StoreInvariant == Spec => []StoreInv
<1>1. Spec => []MapInv
  BY InitMaps, StepMaps, PTL DEF Spec
<1> QED
  BY <1>1, InitStore, StepStore, PTL DEF Spec

(* What the map told a call is what its rows carry, whatever registrations *)
(* and other calls ran in between: for any number of processes, threads,   *)
(* partitions and regimes, in memory and in the database.                  *)
THEOREM RowsKeepTheirBinding == Spec => []BindingsHold
<1>1. StoreInv => BindingsHold
  <2> SUFFICES ASSUME StoreInv PROVE BindingsHold
    OBVIOUS
  <2>0. Typed /\ CallInv /\ RowInv
    BY DEF StoreInv
  <2>1. ASSUME NEW h \in Homes, NEW r \in rows[h]
        PROVE  RowFollowsBinding(r)
    <3>1. Made(r)
      BY <2>0 DEF RowInv
    <3>2. PICK c \in CallType : c = calls[r.call]
      BY <2>0, <3>1 DEF Made, Typed
    <3>3. Bound(c) /\ c.op \notin {"query", "destroy"} /\ c.op \in Ops
      BY <2>0, <3>1, <3>2, CallFields DEF Made, CallInv
    <3>4. r.key = c.key /\ r.gate = c.gate
      BY <3>1, <3>2 DEF Made, RowFor
    <3>5. r.gate \in {Ungated, MaskOf(ProcessOf[c.thread], r.key)}
      BY <3>3, <3>4 DEF Bound
    <3>6. EntryOf(ProcessOf[c.thread], r.key).mode \in Modes
      <4>1. c.thread \in Threads /\ r.key \in KeysOf(ProcessOf[c.thread])
        BY <3>3, <3>4, CallFields DEF Bound
      <4> QED
        BY <2>0, <4>1, ProcessOfType, EntryOfType DEF StoreInv, Typed, Entry
    <3>7. EntryOf(ProcessOf[c.thread], r.key).mode
             \in (IF c.op = "weights" THEN {"read_write"} ELSE {"fresh", "read_write"})
      BY <3>3, <3>4, <3>6 DEF Bound, Modes
    <3> QED
      BY <3>2, <3>5, <3>7 DEF RowFollowsBinding
  <2>2. ASSUME NEW n \in DOMAIN calls
        PROVE  AnswerFollowsBinding(calls[n])
    <3>1. PICK c \in CallType : c = calls[n]
      BY <2>0 DEF Typed
    <3>2. Bound(c) /\ Answer(c)
      BY <2>0, <3>1 DEF CallInv
    <3> SUFFICES ASSUME c.op = "query", c.outcome = "returned"
                 PROVE  /\ c.gate = c.regime
                        /\ c.gate = MaskOf(ProcessOf[c.thread], c.key)
                        /\ \A r \in c.docs :
                             /\ r.key = c.key
                             /\ ProcessOf[calls[r.call].thread] = ProcessOf[c.thread]
                                  => r.gate \in {Ungated, c.gate}
      BY <3>1 DEF AnswerFollowsBinding
    <3>3. c.gate = c.regime /\ c.gate = MaskOf(ProcessOf[c.thread], c.key)
      BY <3>2 DEF Answer, Bound
    <3>4. ASSUME NEW r \in c.docs,
                 ProcessOf[calls[r.call].thread] = ProcessOf[c.thread]
          PROVE  r.gate \in {Ungated, c.gate}
      <4>1. r.call \in DOMAIN calls /\ r.key = c.key /\ r.key = calls[r.call].key
            /\ r.gate = calls[r.call].gate
        BY <3>2 DEF Answer
      <4>2. Bound(calls[r.call])
        BY <2>0, <4>1 DEF CallInv
      <4> QED
        BY <3>3, <3>4, <4>1, <4>2 DEF Bound
    <3> QED
      BY <3>2, <3>3, <3>4 DEF Answer
  <2> QED
    BY <2>1, <2>2 DEF BindingsHold
<1> QED
  BY <1>1, StoreInvariant, PTL

(* No batch is ever half there, for any batches and any interleaving of    *)
(* their statements.                                                       *)
THEOREM NoBatchIsHalfThere == Spec => []BatchesAreWhole
<1>1. StoreInv => BatchesAreWhole
  <2> SUFFICES ASSUME StoreInv, NEW n \in DOMAIN calls
               PROVE  LET home == HomeOf(calls[n].thread) IN
                      IF calls[n].commit = 0
                        THEN \A r \in rows[home] : r.call # n
                        ELSE \A id \in ToSet(calls[n].ids) :
                               RowFor(n, id) \in rows[home] \/ Gone(n, id)
    BY DEF BatchesAreWhole
  <2>1. calls[n] \in CallType /\ Whole(n) /\ RowInv
    BY DEF StoreInv, Typed, CallInv
  <2>2. HomeOf(calls[n].thread) \in Homes
    BY <2>1, CallFields, HomeIsHome
  <2>3. \A r \in rows[HomeOf(calls[n].thread)] : calls[r.call].commit # 0
    BY <2>1, <2>2 DEF RowInv, Made
  <2> QED
    BY <2>1, <2>3 DEF Whole
<1> QED
  BY <1>1, StoreInvariant, PTL

(* destroy() returns over a partition that is empty of what was committed  *)
(* when it counted, for any number of concurrent writers.                  *)
THEOREM DestructionIsComplete == Spec => []DestroyedIsGone
<1>1. StoreInv => DestroyedIsGone
  BY DEF StoreInv, CallInv, Destroyed, DestroyedIsGone
<1> QED
  BY <1>1, StoreInvariant, PTL

================================================================================
