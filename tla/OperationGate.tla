----------------------------- MODULE OperationGate -----------------------------
(***************************************************************************)
(* Exact-operation gates (_operation_gate.py): tokens that bind one        *)
(* transition contract, sub-gates cut from a parent, and the stateful      *)
(* one-use verifier whose ledger lives in memory and is rebuilt after a    *)
(* restart by replaying retained receipts.                                 *)
(*                                                                         *)
(* A verifier is built for one key and one release, so a gate here is that *)
(* pair: the key is the root key of the language or the child key derived  *)
(* from a parent token and a scope.  redeem and restore each hold the      *)
(* verifier's lock from their first check to their last write, so each is  *)
(* one step.  What the caller does with a returned receipt is a separate   *)
(* step, and the process may stop before it.                               *)
(***************************************************************************)
EXTENDS Integers, Sequences, FiniteSets

CONSTANTS
  Tokens,        \* token_ref values: every issue draws a fresh nonce
  Scopes,        \* child_scope texts
  Contracts,     \* the contracts callers present; a subset of ContractType
  Offered,       \* the contracts a token may be issued for, each for its token
  Symbols, Conditions, Releases,
  None,
  Overrides,     \* values callers pass as now_epoch
  Careful,       \* gates whose caller retains receipts in consumption order and
                 \* replays all it retained before it redeems again
  MaxTime,       \* bound on the clock; a token expires at most one tick later
  MaxUses,       \* bound on the length of a verifier's ledger
  MaxStarts      \* bound on the number of verifier lives

Never == -1      \* expires_epoch = None: the token does not expire

Gates == [parent : Tokens \cup {None}, scope : Scopes \cup {None}, release : Releases]
ContractType == [symbol : Symbols, children : SUBSET Symbols,
                 conditions : SUBSET Conditions, depth : Nat,
                 parent : Tokens \cup {None}, release : Releases]

ASSUME ConstantsAssumption ==
  /\ None \notin Tokens
  /\ Contracts \subseteq ContractType
  /\ Offered \in [Tokens -> SUBSET Contracts]
  /\ Overrides \subseteq Nat
  /\ Careful \subseteq Gates
  /\ MaxTime \in Nat /\ MaxUses \in Nat /\ MaxStarts \in Nat

VARIABLES
  now,          \* time.time(), in whole ticks
  tokens,       \* issued tokens; line is HISTORY, the ancestors by sub-gate issue
  running,      \* gates whose verifier instance is alive
  consumed,     \* OperationGateVerifier._consumed
  consumedSet,  \* OperationGateVerifier._consumed_set
  inHand,       \* receipts returned to the caller in this life, not retained yet
  retained,     \* the caller's durable file of receipts, with the epoch of each
  starts        \* bounded count of verifier lives

gateVars == <<now, tokens, running, consumed, consumedSet, inHand, retained, starts>>
ledger == <<consumed, consumedSet>>
life == <<running, starts>>

TokenType == [contract : Contracts, gate : Gates, expires : Int,
              line : SUBSET Tokens]
ASSUME NoneAssumption == None \notin TokenType
Receipts == [token : Tokens, contract : Contracts, index : Nat, at : Nat]
Issued == {t \in Tokens : tokens[t] # None}

RootGate(release) == [parent |-> None, scope |-> None, release |-> release]
HandedOut == {RootGate(release) : release \in Releases} \cup {tokens[t].gate : t \in Issued}

--------------------------------------------------------------------------------
(* Issuing. *)

Live(t, at) == tokens[t].expires = Never \/ at < tokens[t].expires

\* issue_operation_gate: whoever holds a key may mint under it.  expires = Never
\* is allow_non_expiring; the default of one hour is one of the future epochs.
Issue(t, g, c, expires) ==
  /\ t \notin Issued
  /\ c.release = g.release
  /\ expires = Never \/ expires > now
  /\ tokens' = [tokens EXCEPT ![t] =
                  [contract |-> c, gate |-> g, expires |-> expires, line |-> {}]]
  /\ UNCHANGED <<now, life, ledger, inHand, retained>>

\* FAULT: a parent's expiry is only enforced on children that name none.
FaultOutlives(expires, parent) ==
  tokens[parent].expires # Never /\ expires = Never
Outlives(expires, parent) ==
  tokens[parent].expires # Never /\ expires > tokens[parent].expires

\* FAULT: a child names the alphabet of its own children freely.
FaultAttenuates(c, parent) ==
  LET above == tokens[parent].contract IN
  /\ above.depth >= 1
  /\ c.parent = parent
  /\ c.release = above.release
  /\ c.symbol \in above.children
  /\ above.conditions \subseteq c.conditions
  /\ c.depth < above.depth

\* release stands for the seventeen fields of _same_parent_authority.
Attenuates(c, parent) ==
  LET above == tokens[parent].contract IN
  /\ above.depth >= 1
  /\ c.parent = parent
  /\ c.release = above.release
  /\ c.symbol \in above.children
  /\ c.children \subseteq above.children
  /\ above.conditions \subseteq c.conditions
  /\ c.depth < above.depth

\* issue_operation_subgate: the parent is authenticated against its own contract
\* and release at the wall clock.  With no expiry given, a child of an expiring
\* parent is refused and another child gets the default, a future epoch.
IssueSubgate(t, parent, c, scope, expires) ==
  /\ t \notin Issued
  /\ parent \in Issued
  /\ Live(parent, now)
  /\ Attenuates(c, parent)
  /\ expires > now
  /\ ~Outlives(expires, parent)
  /\ tokens' = [tokens EXCEPT ![t] =
                  [contract |-> c,
                   gate |-> [parent |-> parent, scope |-> scope, release |-> c.release],
                   expires |-> expires,
                   line |-> {parent} \cup tokens[parent].line]]
  /\ UNCHANGED <<now, life, ledger, inHand, retained>>

--------------------------------------------------------------------------------
(* The verifier. *)

\* authenticate_operation_gate: release, expiry, contract, key, in that order.
Authentic(g, t, c, at) ==
  /\ t \in Issued
  /\ c.release = g.release
  /\ Live(t, at)
  /\ tokens[t].contract = c
  /\ tokens[t].gate = g

Fresh(g, t) == t \notin consumedSet[g]

\* FAULT: the list grows, the set does not.
FaultRecorded(g, t) == /\ consumed' = [consumed EXCEPT ![g] = Append(@, t)]
                       /\ UNCHANGED consumedSet
Recorded(g, t) == /\ consumed' = [consumed EXCEPT ![g] = Append(@, t)]
                  /\ consumedSet' = [consumedSet EXCEPT ![g] = @ \cup {t}]

ReceiptOf(g, t, c, at) ==
  [token |-> t, contract |-> c, index |-> Len(consumed[g]), at |-> at]

\* The caller's own rule, not the verifier's.
MayRedeem(g) == g \in Careful => Len(consumed[g]) >= Len(retained[g])

Redeem(g, t, c, at) ==
  /\ g \in running
  /\ MayRedeem(g)
  /\ Len(consumed[g]) < MaxUses
  /\ Fresh(g, t)
  /\ Authentic(g, t, c, at)
  /\ inHand' = [inHand EXCEPT ![g] = @ \cup {ReceiptOf(g, t, c, at)}]
  /\ Recorded(g, t)
  /\ UNCHANGED <<now, tokens, life, retained>>

\* FAULT: the expiry of a retained token is judged at the wall clock.
FaultReplayable(g, signer, t, r, c, at) ==
  /\ r.index = Len(consumed[g])
  /\ r.token = t /\ r.contract = c
  /\ Authentic(g, t, c, now)
  /\ signer = g
  /\ Fresh(g, t)

\* FAULT: a token reused by the history is not refused.
FaultReplayableTwice(g, signer, t, r, c, at) ==
  /\ r.index = Len(consumed[g])
  /\ r.token = t /\ r.contract = c
  /\ Authentic(g, t, c, at)
  /\ signer = g

\* restore: every refusal comes before the first write.  signer is the gate whose
\* key signed the receipt (verify_operation_redemption).
Replayable(g, signer, t, r, c, at) ==
  /\ r.index = Len(consumed[g])
  /\ r.token = t /\ r.contract = c
  /\ Authentic(g, t, c, at)
  /\ signer = g
  /\ Fresh(g, t)

Restore(g, signer, t, r, c, at) ==
  /\ g \in running
  /\ Replayable(g, signer, t, r, c, at)
  /\ Recorded(g, t)
  /\ UNCHANGED <<now, tokens, life, inHand, retained>>

Start(g) ==
  /\ g \in HandedOut \ running
  /\ starts < MaxStarts
  /\ running' = running \cup {g}
  /\ starts' = starts + 1
  /\ consumed' = [consumed EXCEPT ![g] = <<>>]
  /\ consumedSet' = [consumedSet EXCEPT ![g] = {}]
  /\ UNCHANGED <<now, tokens, inHand, retained>>

--------------------------------------------------------------------------------
(* The caller and the process around the verifier. *)

\* EXTERNAL: the caller makes a receipt durable, in which order is its own rule.
Retain(g, r) ==
  /\ r \in inHand[g]
  /\ g \in Careful => r.index = Len(retained[g])
  /\ retained' = [retained EXCEPT ![g] = Append(@, r)]
  /\ inHand' = [inHand EXCEPT ![g] = @ \ {r}]
  /\ UNCHANGED <<now, tokens, life, ledger>>

\* EXTERNAL: the process ends; the verifier and the receipts in hand are gone.
Crash(g) ==
  /\ g \in running
  /\ running' = running \ {g}
  /\ consumed' = [consumed EXCEPT ![g] = <<>>]
  /\ consumedSet' = [consumedSet EXCEPT ![g] = {}]
  /\ inHand' = [inHand EXCEPT ![g] = {}]
  /\ UNCHANGED <<now, tokens, retained, starts>>

Tick ==
  /\ now < MaxTime
  /\ now' = now + 1
  /\ UNCHANGED <<tokens, life, ledger, inHand, retained>>

InFile(g) == {retained[g][i] : i \in DOMAIN retained[g]}

\* The caller presents a file it holds, with the epoch recorded in it or none.
Replay(g) ==
  \E signer \in HandedOut : \E r \in InFile(signer) :
    \E t \in Issued, c \in Contracts, at \in {now, r.at} : Restore(g, signer, t, r, c, at)

GateInit ==
  /\ now = 0
  /\ tokens = [t \in Tokens |-> None]
  /\ running = {}
  /\ consumed = [g \in Gates |-> <<>>]
  /\ consumedSet = [g \in Gates |-> {}]
  /\ inHand = [g \in Gates |-> {}]
  /\ retained = [g \in Gates |-> <<>>]
  /\ starts = 0

Issuing ==
  \E t \in Tokens : \E c \in Offered[t], expires \in {Never} \cup 1..(MaxTime + 1) :
    \/ \E g \in HandedOut : Issue(t, g, c, expires)
    \/ \E parent \in Issued, scope \in Scopes : IssueSubgate(t, parent, c, scope, expires)

Redeeming(g) ==
  \E t \in Issued, c \in Contracts, at \in {now} \cup Overrides : Redeem(g, t, c, at)

GateNext ==
  \/ Issuing
  \/ Tick
  \/ \E g \in HandedOut : \/ Redeeming(g)
                          \/ Replay(g)
                          \/ Start(g)
                          \/ \E r \in inHand[g] : Retain(g, r)
                          \/ Crash(g)

GateSpec == GateInit /\ [][GateNext]_gateVars

\* A caller that restarts a verifier replays its file; nothing else need happen.
FairSpec == GateSpec /\ \A g \in Gates : WF_gateVars(g \in HandedOut /\ Replay(g))

--------------------------------------------------------------------------------
(* Properties. *)

\* The types of the variables; only a running verifier has a ledger or gives
\* receipts.
TypeOK ==
  /\ now \in Nat
  /\ tokens \in [Tokens -> TokenType \cup {None}]
  /\ running \subseteq Gates
  /\ consumed \in [Gates -> Seq(Tokens)]
  /\ consumedSet \in [Gates -> SUBSET Tokens]
  /\ inHand \in [Gates -> SUBSET Receipts]
  /\ retained \in [Gates -> Seq(Receipts)]
  /\ starts \in Nat
  /\ \A g \in Gates \ running : consumed[g] = <<>> /\ inHand[g] = {}

\* One life of a verifier consumes a token once, whether the token was redeemed in
\* that life or replayed from a history that may hold it twice, and the list and
\* the set of consumed tokens stay in step (redeem, restore).
ConsumedOnce ==
  \A g \in Gates :
    /\ consumedSet[g] = {consumed[g][i] : i \in 1..Len(consumed[g])}
    /\ \A i, j \in 1..Len(consumed[g]) : consumed[g][i] = consumed[g][j] => i = j

\* A receipt in hand names its token's place in the ledger, whatever was replayed
\* or redeemed around it: consumption_index is what restore orders a history by.
ReceiptsIndexTheLedger ==
  \A g \in Gates : \A r \in inHand[g] :
    /\ r.index < Len(consumed[g])
    /\ consumed[g][r.index + 1] = r.token

\* The ancestors of a token up to and without those of its ancestor a: one of them
\* for each generation from a to the token.
Generations(t, a) == Cardinality(tokens[t].line \ tokens[a].line)

\* The attenuation law of the module's header along the whole lineage, of which the
\* code only ever compares two neighbours: the operation of a sub-gate is one that
\* every ancestor passed on, under all its conditions, and no ancestor has more
\* generations below it than the depth it was given.
Attenuation ==
  \A t \in Issued : \A a \in tokens[t].line :
    /\ a \in Issued
    /\ tokens[t].contract.symbol \in tokens[a].contract.children
    /\ tokens[a].contract.conditions \subseteq tokens[t].contract.conditions
    /\ Generations(t, a) <= tokens[a].contract.depth

\* An operation redeemed through a sub-gate was redeemed before any ancestor of its
\* token expired, although the verifier never sees the ancestors ("expiry cannot
\* outlive the parent").
RedeemedWithinLineage ==
  \A g \in Gates : \A r \in inHand[g] \cup InFile(g) :
    \A a \in {r.token} \cup tokens[r.token].line : Live(a, r.at)

\* What was redeemed can be replayed: the receipt due next in a verifier's history
\* is accepted at its recorded epoch however late, unless the history already used
\* its token (restore's docstring, "a long-running admission still restores after
\* the token lifetime has passed").
RetainedHistoryRestores ==
  \A g \in running : \A r \in InFile(g) :
    (r.index = Len(consumed[g]) /\ r.token \notin {consumed[g][i] : i \in 1..Len(consumed[g])})
      => Replayable(g, g, r.token, r, r.contract, r.at)

\* For a caller that retains in consumption order and replays before it redeems,
\* restore makes one-use survive crashes: no token has two retained receipts, and
\* the file is the ledger's own order.
OneUseAcrossLives ==
  \A g \in Careful : \A i \in 1..Len(retained[g]) :
    /\ retained[g][i].index = i - 1
    /\ \A j \in 1..Len(retained[g]) : retained[g][i].token = retained[g][j].token => i = j

\* A caller that retains in order and replays its file gets through it: no receipt
\* it holds can block the ones behind it, even after every token has expired.
ReplayFinishes ==
  \A g \in Careful : g \in running ~> (g \notin running \/ Len(consumed[g]) >= Len(retained[g]))

================================================================================
