-------------------------- MODULE CalendarCallsProofs --------------------------
(***************************************************************************)
(* Proofs about CalendarCalls for any number of grants, requests,          *)
(* processes, crashes and database faults: type correctness; the provider  *)
(* sees a call at most once, also across ledger rollbacks; custody,        *)
(* receipts and limits; and the refinement of OneUseAuthority.             *)
(***************************************************************************)
EXTENDS CalendarCalls, FiniteSetTheorems, TLAPS

\* A coroutine that popped the credential of g and has not sent it yet.
Holds(e, g) ==
  /\ exec[e].grant = g
  /\ exec[e].pc = "exchanging"

\* The right to send g is in at most one place: not yet sealed anywhere, in one
\* process's custody, or with one coroutine. Once it was used it is nowhere.
OneHolder(g) ==
  /\ approval[g] = "new" =>
       /\ sent[g] = 0
       /\ \A o \in Owners : g \notin custody[o]
       /\ \A e \in Execs : ~Holds(e, g)
  /\ \A o \in Owners : g \in custody[o] =>
       /\ sent[g] = 0
       /\ \A p \in Owners : g \in custody[p] => p = o
       /\ \A e \in Execs : ~Holds(e, g)
  /\ \A e \in Execs : Holds(e, g) =>
       /\ sent[g] = 0
       /\ \A f \in Execs : Holds(f, g) => f = e
  /\ sent[g] <= 1

Inv == TypeOK /\ \A g \in Grants : OneHolder(g)

--------------------------------------------------------------------------------
(* Type correctness. *)

LEMMA InitTypeOK == Init => TypeOK
  BY ConstantsAssumption DEF Init, TypeOK, Idle, Coroutines, Phases, Outcomes

LEMMA DiscardedType ==
  ASSUME TypeOK, NEW o, NEW g
  PROVE  /\ Discarded(o, g) \in [Owners -> SUBSET Grants]
         /\ \A p \in Owners : Discarded(o, g)[p] \subseteq custody[p]
         /\ o \in Owners => g \notin Discarded(o, g)[o]
  BY DEF TypeOK, Discarded, Unexpired

LEMMA PrunedType ==
  ASSUME TypeOK, NEW o
  PROVE  /\ [custody EXCEPT ![o] = Unexpired(o)] \in [Owners -> SUBSET Grants]
         /\ \A p \in Owners : [custody EXCEPT ![o] = Unexpired(o)][p] \subseteq custody[p]
  BY DEF TypeOK, Unexpired

\* Updating a coroutine's position and outcome keeps it a coroutine.
LEMMA CoroutineUpdates ==
  ASSUME NEW c \in Coroutines, NEW p \in Phases
  PROVE  /\ [c EXCEPT !.pc = p] \in Coroutines
         /\ \A x \in Outcomes : [c EXCEPT !.pc = p, !.outcome = x] \in Coroutines
  BY DEF Coroutines

LEMMA CoroutineAt == ASSUME TypeOK, NEW e \in Execs PROVE exec[e] \in Coroutines
  BY DEF TypeOK

LEMMA NextTypeOK == TypeOK /\ [Next]_vars => TypeOK'
<1> SUFFICES ASSUME TypeOK, [Next]_vars PROVE TypeOK'
  OBVIOUS
<1> USE DEF TypeOK, world, history
<1>1. ASSUME NEW g \in Grants, Approving(g) PROVE TypeOK'
  <2>1. ASSUME NEW o \in Owners, NEW t \in Tenants, NEW ttl \in 1..MaxTtl,
               ApproveSeal(g, o, t, ttl)
        PROVE TypeOK'
    <3>1. now + ttl \in Nat
      BY ConstantsAssumption
    <3>2. meta' \in [Grants -> Metadata \cup {None}]
      BY <2>1, <3>1 DEF ApproveSeal, Metadata
    <3>3. custody' \in [Owners -> SUBSET Grants]
      BY <2>1 DEF ApproveSeal, Unexpired
    <3> QED BY <2>1, <3>2, <3>3 DEF ApproveSeal
  <2>2. CASE ApproveAdd(g)
    BY <2>2 DEF ApproveAdd, Kept, Rows
  <2>3. CASE ApproveFails(g)
    BY <2>3, DiscardedType DEF ApproveFails
  <2> QED BY <1>1, <2>1, <2>2, <2>3 DEF Approving
<1>2. ASSUME NEW g \in Grants, Revoking(g) PROVE TypeOK'
  <2>1. ASSUME NEW o \in Owners, Revoke(g, o) PROVE TypeOK'
    BY <2>1 DEF Revoke, Revocable, Rows
  <2>2. CASE RevokeDiscards(g)
    BY <2>2, DiscardedType DEF RevokeDiscards
  <2> QED BY <1>2, <2>1, <2>2 DEF Revoking
<1>3. ASSUME NEW g \in Grants, RestoreRow(g) PROVE TypeOK'
  BY <1>3 DEF RestoreRow, Rows
<1>4. ASSUME NEW e \in Execs, Executing(e) PROVE TypeOK'
  <2>1. ASSUME NEW o \in Owners, NEW g \in Grants, ExecBegin(e, o, g) PROVE TypeOK'
    BY <2>1 DEF ExecBegin, Idle, Outcomes, Coroutines, Phases
  <2>2. CASE ClaimCommits(e)
    <3>1. exec[e].grant \in Grants /\ exec[e].owner \in Owners
      BY <2>2 DEF ClaimCommits, Coroutines, Phases
    <3>2. exec' \in [Execs -> Coroutines]
      BY <2>2, <3>1 DEF ClaimCommits, Coroutines, Phases
    <3>3. ledger' \in [Grants -> Rows \cup {None}]
      BY <2>2, <3>1 DEF ClaimCommits, Consumable, Rows, Coroutines, Phases
    <3>4. claims' \in [Grants -> Nat]
      BY <2>2, <3>1 DEF ClaimCommits, Coroutines, Phases
    <3> QED BY <2>2, <3>1, <3>2, <3>3, <3>4 DEF ClaimCommits
  <2>3. CASE ClaimFails(e)
    BY <2>3 DEF ClaimFails, Coroutines, Phases
  <2>4. CASE GiveUp(e)
    BY <2>4 DEF GiveUp, Coroutines, Phases
  <2>5. CASE Take(e)
    <3>1. exec[e].grant \in Grants /\ exec[e].owner \in Owners
      BY <2>5 DEF Take, Coroutines, Phases
    <3>2. exec' \in [Execs -> Coroutines]
      BY <2>5, <3>1, CoroutineAt, CoroutineUpdates DEF Take, Phases, Outcomes
    <3>3. custody' \in [Owners -> SUBSET Grants]
      BY <2>5, <3>1, DiscardedType DEF Take, Coroutines, Phases
    <3> QED BY <2>5, <3>1, <3>2, <3>3 DEF Take
  <2>6. CASE TakeFails(e)
    <3>1. exec[e].grant \in Grants /\ exec[e].owner \in Owners
      BY <2>6 DEF TakeFails, Coroutines, Phases
    <3>2. exec' \in [Execs -> Coroutines]
      BY <2>6, <3>1 DEF TakeFails, Coroutines, Phases
    <3>3. custody' \in [Owners -> SUBSET Grants]
      BY <2>6, <3>1, PrunedType DEF TakeFails, Coroutines, Phases
    <3> QED BY <2>6, <3>1, <3>2, <3>3 DEF TakeFails
  <2>7. CASE Send(e)
    <3>1. exec[e].grant \in Grants /\ exec[e].owner \in Owners
      BY <2>7 DEF Send, Coroutines, Phases
    <3>2. exec' \in [Execs -> Coroutines]
      BY <2>7, CoroutineAt, CoroutineUpdates DEF Send, Phases
    <3>3. sent' \in [Grants -> Nat]
      BY <2>7, <3>1 DEF Send, Coroutines, Phases
    <3> QED BY <2>7, <3>1, <3>2, <3>3 DEF Send
  <2>8. ASSUME NEW outcome \in Replies, Reply(e, outcome) PROVE TypeOK'
    <3>1. exec' \in [Execs -> Coroutines]
      BY <2>8, CoroutineAt, CoroutineUpdates DEF Reply, Phases, Outcomes
    <3> QED BY <2>8, <3>1 DEF Reply
  <2>9. CASE ExchangeFails(e)
    BY <2>9 DEF ExchangeFails, Coroutines, Phases
  <2>10. CASE Cancel(e)
    BY <2>10 DEF Cancel, Coroutines, Phases
  <2>11. CASE Settled(e)
    BY <2>11 DEF Settled, Coroutines, Phases
  <2>12. CASE CleanUp(e)
    BY <2>12, DiscardedType DEF CleanUp, Coroutines, Phases
  <2>13. CASE Finish(e)
    <3>1. exec[e].grant \in Grants /\ exec[e].owner \in Owners
      BY <2>13 DEF Finish, Coroutines, Phases
    <3>2. exec' \in [Execs -> Coroutines]
      BY <2>13, <3>1 DEF Finish, Coroutines, Phases
    <3>3. ledger' \in [Grants -> Rows \cup {None}]
      BY <2>13, <3>1 DEF Finish, HasConsumedRow, Rows, Coroutines, Phases
    <3> QED BY <2>13, <3>1, <3>2, <3>3 DEF Finish
  <2>14. CASE FinishFails(e)
    BY <2>14 DEF FinishFails, Coroutines, Phases
  <2> QED
    BY <1>4, <2>1, <2>2, <2>3, <2>4, <2>5, <2>6, <2>7, <2>8, <2>9, <2>10, <2>11, <2>12, <2>13, <2>14 DEF Executing, Advance
<1>5. ASSUME NEW o \in Owners, Maintaining(o) PROVE TypeOK'
  <2>1. CASE Sweep(o)
    BY <2>1, PrunedType DEF Sweep
  <2>2. CASE Start(o)
    BY <2>2 DEF Start
  <2>3. CASE Close(o)
    BY <2>3 DEF Close
  <2>4. CASE Crash(o)
    <3>1. ASSUME NEW e \in Execs
          PROVE  /\ exec'[e] \in Coroutines
                 /\ exec'[e].pc # "idle" => /\ exec'[e].owner \in Owners
                                            /\ exec'[e].grant \in Grants
      <4>1. exec[e] \in Coroutines
        OBVIOUS
      <4>2. [exec[e] EXCEPT !.pc = "dead"] \in Coroutines
        BY <4>1, CoroutineUpdates DEF Phases
      <4>3. exec'[e] \in {exec[e], [exec[e] EXCEPT !.pc = "dead"]}
        BY <2>4 DEF Crash
      <4> QED BY <4>1, <4>2, <4>3, <2>4 DEF Crash, Coroutines
    <3>2. exec' \in [Execs -> Coroutines]
      BY <2>4, <3>1 DEF Crash
    <3> QED BY <2>4, <3>1, <3>2 DEF Crash
  <2> QED BY <1>5, <2>1, <2>2, <2>3, <2>4 DEF Maintaining
<1>6. CASE Tick
  BY <1>6 DEF Tick
<1>7. CASE UNCHANGED vars
  BY <1>7 DEF vars
<1> QED BY <1>1, <1>2, <1>3, <1>4, <1>5, <1>6, <1>7 DEF Next

\* Every variable keeps its type, for every value of the constants.
THEOREM TypeCorrect == Spec => []TypeOK
<1>1. TypeOK /\ [Next]_vars => TypeOK'
  BY NextTypeOK
<1> QED BY InitTypeOK, <1>1, PTL DEF Spec

--------------------------------------------------------------------------------
(* At most one dispatch. *)

\* Whatever only removes credentials from custody, ends exchanges and leaves the
\* number of dispatches alone keeps the right to send where it was.
LEMMA OnlyRemoving ==
  ASSUME NEW g \in Grants, OneHolder(g),
         sent'[g] = sent[g],
         approval'[g] = "new" => approval[g] = "new",
         \A o \in Owners : custody'[o] \subseteq custody[o],
         \A e \in Execs : Holds(e, g)' => Holds(e, g)
  PROVE  OneHolder(g)'
  BY DEF OneHolder

LEMMA ApprovingKeepsOneHolder ==
  ASSUME TypeOK, NEW h \in Grants, Approving(h), NEW g \in Grants, OneHolder(g)
  PROVE  OneHolder(g)'
<1> USE DEF world, history
<1>1. ASSUME NEW o \in Owners, NEW t \in Tenants, NEW ttl \in 1..MaxTtl,
             ApproveSeal(h, o, t, ttl)
      PROVE OneHolder(g)'
  <2>1. \A p \in Owners : g \in custody'[p] => g \in custody[p] \/ (g = h /\ p = o)
    BY <1>1 DEF ApproveSeal, Unexpired, TypeOK
  <2>2. \A e \in Execs : Holds(e, g)' <=> Holds(e, g)
    BY <1>1 DEF ApproveSeal, Holds
  <2>3. sent' = sent /\ approval[h] = "new" /\ approval'[h] = "sealed"
    BY <1>1 DEF ApproveSeal, TypeOK
  <2>4. g # h => approval'[g] = approval[g]
    BY <1>1 DEF ApproveSeal, TypeOK
  <2>5. CASE g = h
    BY <2>1, <2>2, <2>3, <2>5 DEF OneHolder
  <2>6. CASE g # h
    BY <2>1, <2>2, <2>3, <2>4, <2>6 DEF OneHolder
  <2> QED BY <2>5, <2>6
<1>2. CASE ApproveAdd(h)
  BY <1>2, OnlyRemoving DEF ApproveAdd, Holds, TypeOK
<1>3. CASE ApproveFails(h)
  BY <1>3, OnlyRemoving, DiscardedType DEF ApproveFails, Holds, TypeOK
<1> QED BY <1>1, <1>2, <1>3 DEF Approving

LEMMA RevokingKeepsOneHolder ==
  ASSUME TypeOK, NEW h \in Grants, Revoking(h) \/ RestoreRow(h),
         NEW g \in Grants, OneHolder(g)
  PROVE  OneHolder(g)'
<1> USE DEF world, history
<1>1. ASSUME NEW o \in Owners, Revoke(h, o) PROVE OneHolder(g)'
  BY <1>1, OnlyRemoving DEF Revoke, Holds
<1>2. CASE RevokeDiscards(h)
  BY <1>2, OnlyRemoving, DiscardedType DEF RevokeDiscards, Holds
<1>3. CASE RestoreRow(h)
  BY <1>3, OnlyRemoving DEF RestoreRow, Holds
<1> QED BY <1>1, <1>2, <1>3 DEF Revoking

LEMMA MaintainingKeepsOneHolder ==
  ASSUME TypeOK, NEW o \in Owners, Maintaining(o), NEW g \in Grants, OneHolder(g)
  PROVE  OneHolder(g)'
<1> USE DEF world, history
<1>1. CASE Sweep(o)
  BY <1>1, OnlyRemoving, PrunedType DEF Sweep, Holds
<1>2. CASE Start(o)
  BY <1>2, OnlyRemoving DEF Start, Holds
<1>3. CASE Close(o)
  BY <1>3, OnlyRemoving DEF Close, Holds, TypeOK
<1>4. CASE Crash(o)
  <2>1. \A e \in Execs : Holds(e, g)' => Holds(e, g)
    BY <1>4 DEF Crash, Holds, TypeOK, Coroutines
  <2>2. approval'[g] = "new" => approval[g] = "new"
    BY <1>4 DEF Crash
  <2>3. \A p \in Owners : custody'[p] \subseteq custody[p]
    BY <1>4 DEF Crash, TypeOK
  <2> QED BY <1>4, <2>1, <2>2, <2>3, OnlyRemoving DEF Crash
<1> QED BY <1>1, <1>2, <1>3, <1>4 DEF Maintaining

LEMMA ExecutingKeepsOneHolder ==
  ASSUME TypeOK, NEW d \in Execs, Executing(d), NEW g \in Grants, OneHolder(g)
  PROVE  OneHolder(g)'
<1> USE DEF world, history
<1>1. CASE Take(d)
  <2>1. exec[d].owner \in Owners /\ exec[d].grant \in Grants
    BY <1>1 DEF Take, TypeOK
  <2>2. \A e \in Execs : Holds(e, g)' => Holds(e, g) \/ (e = d /\ g = exec[d].grant)
    BY <1>1 DEF Take, Holds, TypeOK, Coroutines
  <2>3. \A p \in Owners : custody'[p] \subseteq custody[p]
    BY <1>1, DiscardedType DEF Take
  <2>4. exec[d].grant \in custody[exec[d].owner] /\ exec[d].grant \notin custody'[exec[d].owner]
    BY <1>1, <2>1, DiscardedType DEF Take, Unexpired
  <2>5. sent' = sent /\ approval' = approval
    BY <1>1 DEF Take
  <2>6. CASE g = exec[d].grant
    BY <2>1, <2>2, <2>3, <2>4, <2>5, <2>6 DEF OneHolder
  <2>7. CASE g # exec[d].grant
    BY <2>2, <2>3, <2>5, <2>7, OnlyRemoving
  <2> QED BY <2>6, <2>7
<1>2. CASE Send(d)
  <2>1. exec[d].grant \in Grants
    BY <1>2 DEF Send, TypeOK
  <2>2. \A e \in Execs : Holds(e, g)' => Holds(e, g) /\ e # d
    BY <1>2 DEF Send, Holds, TypeOK, Coroutines
  <2>3. approval' = approval /\ custody' = custody
    BY <1>2 DEF Send
  <2>4. CASE g = exec[d].grant
    <3>1. Holds(d, g)
      BY <1>2, <2>4 DEF Send, Holds
    <3>2. sent'[g] = 1
      BY <1>2, <2>1, <2>4, <3>1 DEF Send, OneHolder, TypeOK
    <3> QED BY <2>2, <2>3, <3>1, <3>2 DEF OneHolder
  <2>5. CASE g # exec[d].grant
    <3>1. sent'[g] = sent[g]
      BY <1>2, <2>5 DEF Send, TypeOK
    <3> QED BY <2>2, <2>3, <3>1, OnlyRemoving
  <2> QED BY <2>4, <2>5
<1>3. ASSUME sent' = sent, approval' = approval,
             \A p \in Owners : custody'[p] \subseteq custody[p],
             exec'[d].pc # "exchanging",
             \A e \in Execs : e # d => exec'[e] = exec[e]
      PROVE OneHolder(g)'
  BY <1>3, OnlyRemoving DEF Holds
<1>4. ASSUME NEW o \in Owners, NEW h \in Grants, ExecBegin(d, o, h) PROVE OneHolder(g)'
  BY <1>3, <1>4 DEF ExecBegin, Idle, TypeOK, Coroutines
<1>5. CASE ClaimCommits(d)
  BY <1>3, <1>5 DEF ClaimCommits, TypeOK, Coroutines
<1>6. CASE ClaimFails(d)
  BY <1>3, <1>6 DEF ClaimFails, TypeOK, Coroutines
<1>7. CASE GiveUp(d)
  BY <1>3, <1>7 DEF GiveUp, TypeOK, Coroutines
<1>8. CASE TakeFails(d)
  BY <1>3, <1>8, PrunedType DEF TakeFails, TypeOK, Coroutines
<1>9. ASSUME NEW outcome \in Replies, Reply(d, outcome) PROVE OneHolder(g)'
  BY <1>3, <1>9 DEF Reply, TypeOK, Coroutines
<1>10. CASE ExchangeFails(d)
  BY <1>3, <1>10 DEF ExchangeFails, TypeOK, Coroutines
<1>11. CASE Cancel(d)
  BY <1>3, <1>11 DEF Cancel, TypeOK, Coroutines
<1>12. CASE Settled(d)
  BY <1>3, <1>12 DEF Settled, TypeOK, Coroutines
<1>13. CASE CleanUp(d)
  BY <1>3, <1>13, DiscardedType DEF CleanUp, TypeOK, Coroutines
<1>14. CASE Finish(d)
  BY <1>3, <1>14 DEF Finish, TypeOK, Coroutines
<1>15. CASE FinishFails(d)
  BY <1>3, <1>15 DEF FinishFails, TypeOK, Coroutines
<1> QED
  BY <1>1, <1>2, <1>4, <1>5, <1>6, <1>7, <1>8, <1>9, <1>10, <1>11, <1>12, <1>13,
     <1>14, <1>15 DEF Executing, Advance

LEMMA InvInit == Init => Inv
<1> SUFFICES ASSUME Init, NEW g \in Grants PROVE OneHolder(g)
  BY InitTypeOK DEF Inv
<1> QED BY DEF Init, Idle, Holds, OneHolder

LEMMA InvNext == Inv /\ [Next]_vars => Inv'
<1> SUFFICES ASSUME Inv, [Next]_vars, NEW g \in Grants PROVE OneHolder(g)'
  BY NextTypeOK DEF Inv
<1>1. TypeOK /\ OneHolder(g)
  BY DEF Inv
<1>2. ASSUME NEW h \in Grants, Approving(h) \/ Revoking(h) \/ RestoreRow(h)
      PROVE OneHolder(g)'
  BY <1>1, <1>2, ApprovingKeepsOneHolder, RevokingKeepsOneHolder
<1>3. ASSUME NEW e \in Execs, Executing(e) PROVE OneHolder(g)'
  BY <1>1, <1>3, ExecutingKeepsOneHolder
<1>4. ASSUME NEW o \in Owners, Maintaining(o) PROVE OneHolder(g)'
  BY <1>1, <1>4, MaintainingKeepsOneHolder
<1>5. CASE Tick \/ UNCHANGED vars
  BY <1>1, <1>5, OnlyRemoving DEF Tick, vars, Holds, history
<1> QED BY <1>2, <1>3, <1>4, <1>5 DEF Next

\* The provider sees a call at most once, for any number of grants, requests and
\* processes, under crashes, cancellations, faults and ledger rollbacks.
THEOREM AtMostOneDispatch == Spec => []OneDispatch
<1>1. Inv => OneDispatch
  BY DEF Inv, OneHolder, OneDispatch
<1> QED BY InvInit, InvNext, <1>1, PTL DEF Spec

--------------------------------------------------------------------------------
(* Custody, receipts and dispatch: the invariants. *)

Serves(e, g) == exec[e].pc # "idle" /\ exec[e].grant = g

Won(e, g) == exec[e].grant = g /\ exec[e].claim = "won"

\* A coroutine past its claim won it; one still at its claim has done nothing else.
Phased(e) ==
  /\ exec[e].pc = "idle" => exec[e].claim = "none"
  /\ exec[e].pc \in {"exchanging", "awaiting", "cleaning", "finishing"} => exec[e].claim = "won"
  /\ exec[e].claim = "running" => exec[e].pc \in {"claiming", "settling", "dead"}
  /\ exec[e].pc \in {"claiming", "settling"} => exec[e].outcome = "not_dispatched"

\* Whatever names a grant names one whose contract is on record, with the owner
\* of that contract; a row that is gone was purged after it expired.
Bound(g) ==
  /\ approval[g] # "new" => meta[g] \in Metadata
  /\ ledger[g] # None \/ g \in revoking => approval[g] = "added"
  /\ \A o \in Owners : g \in custody[o] => /\ approval[g] \in {"sealed", "added"}
                                          /\ meta[g].owner = o
  /\ \A e \in Execs : Serves(e, g) => /\ approval[g] = "added"
                                      /\ meta[g].owner = exec[e].owner
  /\ approval[g] = "added" /\ ledger[g] = None => meta[g].expires < now

\* Until a rollback the row of a grant is won once, and the winner alone decides
\* how often the request left and what the receipt says.
Settles(g) ==
  restores = 0 =>
  /\ \A e \in Execs : Won(e, g) =>
       /\ \A f \in Execs : Won(f, g) => f = e
       /\ claims[g] > 0
       /\ ledger[g] # None => /\ ledger[g].state = "consumed"
                              /\ ledger[g].receipt # None =>
                                   /\ exec[e].pc = "done"
                                   /\ ledger[g].receipt = exec[e].outcome
       /\ exec[e].pc \in {"exchanging", "awaiting"} => exec[e].outcome = "unknown"
       /\ exec[e].pc = "exchanging" => sent[g] = 0
       /\ exec[e].pc = "awaiting" => sent[g] = 1
       /\ exec[e].outcome = "not_dispatched" => sent[g] = 0
       /\ exec[e].outcome \in Replies => sent[g] = 1
       /\ exec[e].pc \in {"exchanging", "awaiting", "finishing", "done"} =>
            \A o \in Owners : g \notin custody[o]
  /\ (\A e \in Execs : ~Won(e, g)) =>
       /\ sent[g] = 0
       /\ claims[g] = 0
       /\ ledger[g] # None => ledger[g].state # "consumed" /\ ledger[g].receipt = None

\* Where a step leaves the coroutine that takes it, and the others where they are.
Moved(d, p, c, x) ==
  /\ exec'[d].pc = p /\ exec'[d].claim = c /\ exec'[d].outcome = x
  /\ exec'[d].owner = exec[d].owner /\ exec'[d].grant = exec[d].grant
  /\ \A e \in Execs \ {d} : exec'[e] = exec[e]

\* What each step of a coroutine does to its record.
LEMMA Moves ==
  ASSUME TypeOK, NEW d \in Execs
  PROVE  /\ ClaimCommits(d) => Moved(d, exec[d].pc, "won", exec[d].outcome)
         /\ ClaimFails(d) => Moved(d, exec[d].pc, "lost", exec[d].outcome)
         /\ GiveUp(d) => Moved(d, "done", exec[d].claim, exec[d].outcome)
         /\ Take(d) => Moved(d, "exchanging", exec[d].claim, "unknown")
         /\ TakeFails(d) => Moved(d, "cleaning", exec[d].claim, exec[d].outcome)
         /\ Send(d) => Moved(d, "awaiting", exec[d].claim, exec[d].outcome)
         /\ \A x \in Replies : Reply(d, x) => Moved(d, "cleaning", exec[d].claim, x)
         /\ ExchangeFails(d) => Moved(d, "cleaning", exec[d].claim, exec[d].outcome)
         /\ Settled(d) => Moved(d, "cleaning", exec[d].claim, exec[d].outcome)
         /\ CleanUp(d) => Moved(d, "finishing", exec[d].claim, exec[d].outcome)
         /\ Finish(d) => Moved(d, "done", exec[d].claim, exec[d].outcome)
         /\ FinishFails(d) => Moved(d, "done", exec[d].claim, exec[d].outcome)
<1> USE DEF TypeOK, Coroutines, Moved
<1>1. ClaimCommits(d) => Moved(d, exec[d].pc, "won", exec[d].outcome)
  BY DEF ClaimCommits
<1>2. ClaimFails(d) => Moved(d, exec[d].pc, "lost", exec[d].outcome)
  BY DEF ClaimFails
<1>3. GiveUp(d) => Moved(d, "done", exec[d].claim, exec[d].outcome)
  BY DEF GiveUp
<1>4. Take(d) => Moved(d, "exchanging", exec[d].claim, "unknown")
  BY DEF Take
<1>5. TakeFails(d) => Moved(d, "cleaning", exec[d].claim, exec[d].outcome)
  BY DEF TakeFails
<1>6. Send(d) => Moved(d, "awaiting", exec[d].claim, exec[d].outcome)
  BY DEF Send
<1>7. \A x \in Replies : Reply(d, x) => Moved(d, "cleaning", exec[d].claim, x)
  BY DEF Reply
<1>8. ExchangeFails(d) => Moved(d, "cleaning", exec[d].claim, exec[d].outcome)
  BY DEF ExchangeFails
<1>9. Settled(d) => Moved(d, "cleaning", exec[d].claim, exec[d].outcome)
  BY DEF Settled
<1>10. CleanUp(d) => Moved(d, "finishing", exec[d].claim, exec[d].outcome)
  BY DEF CleanUp
<1>11. Finish(d) => Moved(d, "done", exec[d].claim, exec[d].outcome)
  BY DEF Finish
<1>12. FinishFails(d) => Moved(d, "done", exec[d].claim, exec[d].outcome)
  BY DEF FinishFails
<1> QED
  BY <1>1, <1>2, <1>3, <1>4, <1>5, <1>6, <1>7, <1>8, <1>9, <1>10, <1>11, <1>12

LEMMA Cancels ==
  ASSUME TypeOK, NEW d \in Execs, Cancel(d)
  PROVE  /\ exec[d].pc = "claiming" => Moved(d, "settling", exec[d].claim, exec[d].outcome)
         /\ exec[d].pc # "claiming" => Moved(d, "cleaning", exec[d].claim, exec[d].outcome)
  BY DEF TypeOK, Coroutines, Moved, Cancel

LEMMA Begins ==
  ASSUME TypeOK, NEW d \in Execs, NEW o, NEW g, ExecBegin(d, o, g)
  PROVE  /\ exec'[d].pc = "claiming" /\ exec'[d].claim = "running"
         /\ exec'[d].outcome = "not_dispatched" /\ exec'[d].owner = o /\ exec'[d].grant = g
         /\ \A e \in Execs \ {d} : exec'[e] = exec[e]
  BY DEF TypeOK, ExecBegin, Idle

LEMMA Crashes ==
  ASSUME TypeOK, NEW o, Crash(o), NEW e \in Execs
  PROVE  \/ exec'[e] = exec[e]
         \/ /\ exec[e].owner = o /\ exec[e].pc \notin {"idle", "done"} /\ exec'[e].pc = "dead"
            /\ exec'[e].claim = exec[e].claim /\ exec'[e].outcome = exec[e].outcome
            /\ exec'[e].owner = exec[e].owner /\ exec'[e].grant = exec[e].grant
  BY DEF TypeOK, Coroutines, Crash

LEMMA Placed ==
  ASSUME TypeOK, NEW d \in Execs, exec[d].pc # "idle"
  PROVE  exec[d].owner \in Owners /\ exec[d].grant \in Grants
  BY DEF TypeOK

LEMMA PhasedNext ==
  ASSUME TypeOK, [Next]_vars, NEW e \in Execs, Phased(e)
  PROVE  Phased(e)'
<1> USE DEF Phased
<1>1. ASSUME exec'[e] = exec[e] PROVE Phased(e)'
  BY <1>1
<1>2. ASSUME NEW d \in Execs, Executing(d) PROVE Phased(e)'
  <2>1. ASSUME NEW o \in Owners, NEW g \in Grants, ExecBegin(d, o, g) PROVE Phased(e)'
    BY <1>1, <2>1, Begins
  <2>2. CASE Cancel(d)
    BY <1>1, <2>2, Cancels DEF Moved, Cancel
  <2>3. CASE ClaimCommits(d)
    BY <1>1, <2>3, Moves DEF Moved, ClaimCommits
  <2>4. CASE ClaimFails(d)
    BY <1>1, <2>4, Moves DEF Moved, ClaimFails
  <2>5. CASE GiveUp(d)
    BY <1>1, <2>5, Moves DEF Moved, GiveUp
  <2>6. CASE Take(d)
    <3>1. exec[d].claim = "won" /\ Moved(d, "exchanging", exec[d].claim, "unknown")
      BY <2>6, Moves DEF Take
    <3> QED BY <1>1, <3>1 DEF Moved
  <2>7. CASE TakeFails(d)
    BY <1>1, <2>7, Moves DEF Moved, TakeFails
  <2>8. CASE Send(d)
    BY <1>1, <2>8, Moves DEF Moved, Send
  <2>9. ASSUME NEW x \in Replies, Reply(d, x) PROVE Phased(e)'
    BY <1>1, <2>9, Moves DEF Moved, Reply
  <2>10. CASE ExchangeFails(d)
    BY <1>1, <2>10, Moves DEF Moved, ExchangeFails
  <2>11. CASE Settled(d)
    BY <1>1, <2>11, Moves DEF Moved, Settled
  <2>12. CASE CleanUp(d)
    BY <1>1, <2>12, Moves DEF Moved, CleanUp
  <2>13. CASE Finish(d)
    BY <1>1, <2>13, Moves DEF Moved, Finish
  <2>14. CASE FinishFails(d)
    BY <1>1, <2>14, Moves DEF Moved, FinishFails
  <2> QED
    BY <1>2, <2>1, <2>2, <2>3, <2>4, <2>5, <2>6, <2>7, <2>8, <2>9, <2>10, <2>11,
       <2>12, <2>13, <2>14 DEF Executing, Advance
<1>3. ASSUME NEW o \in Owners, Crash(o) PROVE Phased(e)'
  BY <1>1, <1>3, Crashes
<1>4. CASE exec' = exec
  BY <1>1, <1>4
<1>5. ASSUME NEW o \in Owners, Maintaining(o), ~Crash(o) PROVE exec' = exec
  BY <1>5 DEF Maintaining, Sweep, Start, Close
<1>6. ASSUME NEW g \in Grants, Approving(g) \/ Revoking(g) \/ RestoreRow(g) PROVE exec' = exec
  BY <1>6 DEF Approving, Revoking, RestoreRow, ApproveSeal, ApproveAdd, ApproveFails, Revoke,
              RevokeDiscards
<1> QED BY <1>2, <1>3, <1>4, <1>5, <1>6 DEF Next, Tick, vars

\* A step that creates no reference to g, changes no contract and removes no row
\* keeps g bound.
LEMMA StillBound ==
  ASSUME TypeOK, NEW g \in Grants, Bound(g), now' \in Nat, now <= now',
         approval'[g] = approval[g], meta'[g] = meta[g],
         g \in revoking' => g \in revoking,
         ledger'[g] = None <=> ledger[g] = None,
         \A o \in Owners : custody'[o] \subseteq custody[o],
         \A e \in Execs : Serves(e, g)' => Serves(e, g) /\ exec'[e].owner = exec[e].owner
  PROVE  Bound(g)'
<1>1. approval[g] = "added" => meta[g].expires \in Nat
  BY DEF Bound, Metadata
<1>2. approval[g] = "added" /\ ledger[g] = None => meta[g].expires < now'
  BY <1>1 DEF Bound, TypeOK
<1> QED BY <1>2 DEF Bound

\* A row's update leaves a row: None is no record.
LEMMA StatesStay ==
  ASSUME TypeOK, NEW h \in Grants, ledger[h] # None, NEW s \in {"pending", "consumed", "revoked"},
         ledger' = [ledger EXCEPT ![h].state = s]
  PROVE  /\ ledger'[h] # None /\ ledger'[h].state = s /\ ledger'[h].receipt = ledger[h].receipt
         /\ \A g \in Grants \ {h} : ledger'[g] = ledger[g]
  BY NoneAssumption DEF TypeOK, Rows

LEMMA ReceiptsStay ==
  ASSUME TypeOK, NEW h \in Grants, ledger[h] # None, NEW r \in Outcomes,
         ledger' = [ledger EXCEPT ![h].receipt = r]
  PROVE  /\ ledger'[h] # None /\ ledger'[h].state = ledger[h].state /\ ledger'[h].receipt = r
         /\ \A g \in Grants \ {h} : ledger'[g] = ledger[g]
  BY NoneAssumption DEF TypeOK, Rows

LEMMA ApprovingKeepsBound ==
  ASSUME TypeOK, NEW h \in Grants, Approving(h), Bound(h), NEW g \in Grants, Bound(g)
  PROVE  Bound(g)'
<1> USE DEF world, history
<1>1. ASSUME NEW o \in Owners, NEW t \in Tenants, NEW ttl \in 1..MaxTtl,
             ApproveSeal(h, o, t, ttl)
      PROVE Bound(g)'
  <2>1. /\ exec' = exec /\ revoking' = revoking /\ ledger' = ledger /\ now' = now
        /\ approval[h] = "new" /\ approval'[h] = "sealed"
        /\ g # h => approval'[g] = approval[g] /\ meta'[g] = meta[g]
    BY <1>1 DEF ApproveSeal, TypeOK
  <2>2. meta'[h] \in Metadata /\ meta'[h].owner = o
    <3>1. now + ttl \in Nat
      BY ConstantsAssumption DEF TypeOK
    <3>2. meta'[h] = [owner |-> o, tenant |-> t, expires |-> now + ttl]
      BY <1>1 DEF ApproveSeal, TypeOK
    <3> QED BY <3>1, <3>2 DEF Metadata
  <2>3. \A p \in Owners : g \in custody'[p] => g \in custody[p] \/ (g = h /\ p = o)
    BY <1>1 DEF ApproveSeal, Unexpired, TypeOK
  <2>4. \A e \in Execs : Serves(e, g)' <=> Serves(e, g)
    BY <2>1 DEF Serves
  <2>5. CASE g = h
    BY <2>1, <2>2, <2>3, <2>4, <2>5 DEF Bound
  <2>6. CASE g # h
    BY <2>1, <2>3, <2>4, <2>6 DEF Bound
  <2> QED BY <2>5, <2>6
<1>2. CASE ApproveAdd(h)
  <2>1. /\ exec' = exec /\ revoking' = revoking /\ custody' = custody /\ meta' = meta
        /\ now' = now /\ approval[h] = "sealed" /\ approval'[h] = "added"
        /\ g # h => approval'[g] = approval[g]
    BY <1>2 DEF ApproveAdd, TypeOK
  <2>2. ledger'[h] # None
    <3>1. [state |-> "pending", receipt |-> None] \in Rows
      BY DEF Rows
    <3>2. ledger'[h] = [state |-> "pending", receipt |-> None]
      BY <1>2, <2>1 DEF ApproveAdd, Kept, Bound
    <3> QED BY <3>1, <3>2, NoneAssumption
  <2>3. g # h => \/ ledger'[g] = ledger[g]
                 \/ ledger'[g] = None /\ (ledger[g] = None \/ ~(meta[g].expires >= now))
    BY <1>2 DEF ApproveAdd, Kept
  <2>4. \A e \in Execs : Serves(e, g)' <=> Serves(e, g)
    BY <2>1 DEF Serves
  <2>5. CASE g = h
    BY <2>1, <2>2, <2>4, <2>5 DEF Bound
  <2>6. CASE g # h
    <3>1. approval[g] = "added" => meta[g].expires \in Nat
      BY DEF Bound, Metadata
    <3>2. approval[g] = "added" /\ ledger'[g] = None => meta[g].expires < now
      BY <2>3, <2>6, <3>1 DEF Bound, TypeOK
    <3> QED BY <2>1, <2>3, <2>4, <2>6, <3>2 DEF Bound
  <2> QED BY <2>5, <2>6
<1>3. CASE ApproveFails(h)
  <2>1. /\ exec' = exec /\ revoking' = revoking /\ ledger' = ledger /\ meta' = meta
        /\ now' = now /\ approval[h] = "sealed" /\ approval'[h] = "failed"
        /\ g # h => approval'[g] = approval[g]
        /\ custody' = Discarded(meta[h].owner, h)
    BY <1>3 DEF ApproveFails, TypeOK
  <2>2. \A p \in Owners : custody'[p] \subseteq custody[p]
    BY <2>1, DiscardedType
  <2>3. \A e \in Execs : Serves(e, g)' <=> Serves(e, g)
    BY <2>1 DEF Serves
  <2>4. CASE g = h
    <3>1. \A p \in Owners : g \notin custody'[p]
      <4>1. meta[h].owner \in Owners
        BY <2>1, <2>4 DEF Bound, Metadata
      <4> QED BY <2>1, <2>2, <2>4, <4>1, DiscardedType DEF Bound
    <3> QED BY <2>1, <2>3, <2>4, <3>1 DEF Bound
  <2>5. CASE g # h
    BY <2>1, <2>2, <2>3, <2>5, StillBound DEF TypeOK
  <2> QED BY <2>4, <2>5
<1> QED BY <1>1, <1>2, <1>3 DEF Approving

LEMMA RevokingKeepsBound ==
  ASSUME TypeOK, NEW h \in Grants, Revoking(h) \/ RestoreRow(h), NEW g \in Grants, Bound(g)
  PROVE  Bound(g)'
<1> USE DEF world, history
<1>1. ASSUME NEW o \in Owners, Revoke(h, o) PROVE Bound(g)'
  <2>1. ledger'[g] = None <=> ledger[g] = None
    BY <1>1, StatesStay DEF Revoke, Revocable
  <2>2. g \in revoking' => g \in revoking \/ ledger[g] # None
    BY <1>1 DEF Revoke, Revocable
  <2> QED BY <1>1, <2>1, <2>2 DEF Revoke, Bound, Serves
<1>2. CASE RevokeDiscards(h)
  BY <1>2, DiscardedType, StillBound DEF RevokeDiscards, Serves, TypeOK
<1>3. CASE RestoreRow(h)
  <2>1. [state |-> "pending", receipt |-> None] \in Rows
    BY DEF Rows
  <2>2. ledger'[h] # None /\ (g # h => ledger'[g] = ledger[g])
    BY <1>3, <2>1, NoneAssumption DEF RestoreRow, TypeOK
  <2>3. CASE g = h
    BY <1>3, <2>2, <2>3 DEF RestoreRow, Bound, Serves
  <2>4. CASE g # h
    BY <1>3, <2>2, <2>4, StillBound DEF RestoreRow, Serves, TypeOK
  <2> QED BY <2>3, <2>4
<1> QED BY <1>1, <1>2, <1>3 DEF Revoking

LEMMA MaintainingKeepsBound ==
  ASSUME TypeOK, NEW o \in Owners, Maintaining(o), NEW g \in Grants, Bound(g)
  PROVE  Bound(g)'
<1> USE DEF world, history
<1>1. CASE Sweep(o)
  BY <1>1, PrunedType, StillBound DEF Sweep, Serves, TypeOK
<1>2. CASE Start(o)
  BY <1>2, StillBound DEF Start, Serves, TypeOK
<1>3. CASE Close(o)
  BY <1>3, StillBound DEF Close, Serves, TypeOK
<1>4. CASE Crash(o)
  <2>1. \A e \in Execs : Serves(e, g)' => Serves(e, g) /\ exec'[e].owner = exec[e].owner
    BY <1>4, Crashes DEF Serves
  <2>2. /\ meta' = meta /\ ledger' = ledger /\ now' = now /\ revoking' \subseteq revoking
        /\ custody'[o] = {} /\ \A p \in Owners \ {o} : custody'[p] = custody[p]
        /\ approval'[g] = IF approval[g] = "sealed" /\ meta[g].owner = o
                            THEN "failed" ELSE approval[g]
    BY <1>4 DEF Crash, TypeOK
  <2> QED BY <2>1, <2>2 DEF Bound
<1> QED BY <1>1, <1>2, <1>3, <1>4 DEF Maintaining

LEMMA ExecutingKeepsBound ==
  ASSUME TypeOK, NEW d \in Execs, Executing(d), NEW g \in Grants, Bound(g)
  PROVE  Bound(g)'
<1> USE DEF world, history
<1>1. ASSUME NEW o \in Owners, NEW h \in Grants, ExecBegin(d, o, h) PROVE Bound(g)'
  <2>1. \A e \in Execs : Serves(e, g)' => \/ Serves(e, g) /\ exec'[e].owner = exec[e].owner
                                          \/ g = h /\ exec'[e].owner = o
    BY <1>1, Begins DEF Serves
  <2> QED BY <1>1, <2>1 DEF ExecBegin, Executable, Bound
<1>2. ASSUME NEW p, NEW c, NEW x, Moved(d, p, c, x), exec[d].pc # "idle",
             now' = now, approval' = approval, meta' = meta, revoking' = revoking,
             ledger'[g] = None <=> ledger[g] = None,
             \A o \in Owners : custody'[o] \subseteq custody[o]
      PROVE Bound(g)'
  <2>1. \A e \in Execs : Serves(e, g)' => Serves(e, g) /\ exec'[e].owner = exec[e].owner
    BY <1>2 DEF Moved, Serves
  <2> QED BY <1>2, <2>1, StillBound DEF TypeOK
<1>3. CASE Cancel(d)
  BY <1>2, <1>3, Cancels DEF Cancel
<1>4. CASE ClaimCommits(d)
  <2>1. ledger'[g] = None <=> ledger[g] = None
    <3>1. exec[d].grant \in Grants
      BY <1>4, Placed DEF ClaimCommits
    <3> QED BY <1>4, <3>1, StatesStay DEF ClaimCommits, Consumable
  <2> QED BY <1>2, <1>4, <2>1, Moves DEF ClaimCommits
<1>5. CASE ClaimFails(d)
  BY <1>2, <1>5, Moves DEF ClaimFails
<1>6. CASE GiveUp(d)
  BY <1>2, <1>6, Moves DEF GiveUp
<1>7. CASE Take(d)
  BY <1>2, <1>7, Moves, DiscardedType DEF Take
<1>8. CASE TakeFails(d)
  BY <1>2, <1>8, Moves, PrunedType DEF TakeFails
<1>9. CASE Send(d)
  BY <1>2, <1>9, Moves DEF Send
<1>10. ASSUME NEW x \in Replies, Reply(d, x) PROVE Bound(g)'
  BY <1>2, <1>10, Moves DEF Reply
<1>11. CASE ExchangeFails(d)
  BY <1>2, <1>11, Moves DEF ExchangeFails
<1>12. CASE Settled(d)
  BY <1>2, <1>12, Moves DEF Settled
<1>13. CASE CleanUp(d)
  BY <1>2, <1>13, Moves, DiscardedType DEF CleanUp
<1>14. CASE Finish(d)
  <2>1. exec[d].outcome \in Outcomes
    BY DEF TypeOK, Coroutines
  <2>2. ledger'[g] = None <=> ledger[g] = None
    BY <1>14, <2>1, ReceiptsStay, Placed DEF Finish, HasConsumedRow
  <2> QED BY <1>2, <1>14, <2>2, Moves DEF Finish
<1>15. CASE FinishFails(d)
  BY <1>2, <1>15, Moves DEF FinishFails
<1> QED
  BY <1>1, <1>3, <1>4, <1>5, <1>6, <1>7, <1>8, <1>9, <1>10, <1>11, <1>12, <1>13, <1>14,
     <1>15 DEF Executing, Advance

LEMMA BoundNext ==
  ASSUME TypeOK, [Next]_vars, \A h \in Grants : Bound(h), NEW g \in Grants
  PROVE  Bound(g)'
<1>1. ASSUME NEW h \in Grants, Approving(h) \/ Revoking(h) \/ RestoreRow(h) PROVE Bound(g)'
  BY <1>1, ApprovingKeepsBound, RevokingKeepsBound
<1>2. CASE Tick
  BY <1>2, StillBound DEF Tick, Serves, TypeOK
<1>3. CASE UNCHANGED vars
  BY <1>3 DEF vars, Bound, Serves
<1> QED
  BY <1>1, <1>2, <1>3, ExecutingKeepsBound, MaintainingKeepsBound DEF Next

--------------------------------------------------------------------------------
(* No credential is left in custody without a reason. *)

\* A coroutine that won the call and has not popped or discarded the credential.
Minding(e, g) ==
  /\ exec[e].grant = g
  /\ exec[e].claim = "won"
  /\ exec[e].pc \in {"claiming", "settling", "cleaning"}

Pending(g) == ledger[g] # None /\ ledger[g].state = "pending"

Custodial(g) == \A o \in Owners : g \in custody[o] => Accounted(g)

\* A step that keeps every reason, or hands it on to a coroutine, keeps g accounted.
LEMMA StillCustodial ==
  ASSUME TypeOK, NEW g \in Grants, Bound(g), Custodial(g), now' \in Nat, now <= now',
         meta'[g] = meta[g],
         \A o \in Owners : custody'[o] \subseteq custody[o],
         \A o \in Owners : g \in custody'[o] =>
           /\ approval[g] = "sealed" => approval'[g] = "sealed" \/ Pending(g)'
           /\ Pending(g) => \/ Pending(g)' \/ g \in revoking'
                            \/ \E e \in Execs : Minding(e, g)'
                            \/ meta[g].expires < now
           /\ g \in revoking => g \in revoking'
           /\ \A e \in Execs : Minding(e, g) => Minding(e, g)'
  PROVE  Custodial(g)'
<1> SUFFICES ASSUME NEW o \in Owners, g \in custody'[o] PROVE Accounted(g)'
  BY DEF Custodial
<1>1. meta[g].expires \in Nat
  BY DEF Bound, Metadata
<1>2. Accounted(g)
  BY DEF Custodial
<1>3. \/ approval[g] = "sealed" \/ Pending(g) \/ g \in revoking
      \/ (\E e \in Execs : Minding(e, g)) \/ meta[g].expires <= now
  BY <1>2 DEF Accounted, Pending, Minding
<1>4. \/ approval'[g] = "sealed" \/ Pending(g)' \/ g \in revoking'
      \/ (\E e \in Execs : Minding(e, g)') \/ meta'[g].expires <= now'
  BY <1>1, <1>3 DEF TypeOK
<1> QED BY <1>4 DEF Accounted, Pending, Minding

LEMMA ExecutingKeepsCustodial ==
  ASSUME TypeOK, NEW d \in Execs, Executing(d), Phased(d),
         NEW g \in Grants, Bound(g), Custodial(g)
  PROVE  Custodial(g)'
<1> USE DEF world, history
<1>1. ASSUME NEW p, NEW c, NEW x, Moved(d, p, c, x),
             now' = now, approval' = approval, meta' = meta, revoking' = revoking,
             Minding(d, g) => \/ p \in {"claiming", "settling", "cleaning"} /\ c = "won"
                              \/ \A o \in Owners : g \notin custody'[o],
             Pending(g) => Pending(g)',
             \A o \in Owners : custody'[o] \subseteq custody[o]
      PROVE Custodial(g)'
  <2>1. \A e \in Execs : Minding(e, g) => Minding(e, g)' \/ \A o \in Owners : g \notin custody'[o]
    BY <1>1 DEF Moved, Minding
  <2> QED BY <1>1, <2>1, StillCustodial DEF TypeOK
<1>2. ASSUME NEW o \in Owners, NEW h \in Grants, ExecBegin(d, o, h) PROVE Custodial(g)'
  <2>1. \A e \in Execs : Minding(e, g) => Minding(e, g)'
    BY <1>2, Begins DEF Minding, Phased, ExecBegin
  <2> QED BY <1>2, <2>1, StillCustodial DEF ExecBegin, Pending, TypeOK
<1>3. CASE Cancel(d)
  BY <1>1, <1>3, Cancels DEF Cancel, Minding, Pending
<1>4. CASE ClaimCommits(d)
  <2>1. exec[d].grant \in Grants
    BY <1>4, Placed DEF ClaimCommits
  <2>2. g # exec[d].grant => ledger'[g] = ledger[g]
    BY <1>4, <2>1, StatesStay DEF ClaimCommits, Consumable
  <2>3. Moved(d, exec[d].pc, "won", exec[d].outcome)
    BY <1>4, Moves
  <2>4. g = exec[d].grant => Minding(d, g)'
    BY <1>4, <2>3 DEF ClaimCommits, Minding, Moved
  <2>5. \A e \in Execs : Minding(e, g) => Minding(e, g)'
    BY <1>4, <2>3 DEF ClaimCommits, Minding, Moved
  <2> QED BY <1>4, <2>2, <2>4, <2>5, StillCustodial DEF ClaimCommits, Pending, TypeOK
<1>5. CASE ClaimFails(d)
  BY <1>1, <1>5, Moves DEF ClaimFails, Minding, Pending
<1>6. CASE GiveUp(d)
  BY <1>1, <1>6, Moves DEF GiveUp, Minding, Pending
<1>7. CASE Take(d)
  <2>1. exec[d].owner \in Owners /\ \A o \in Owners : custody'[o] \subseteq custody[o]
    BY <1>7, Placed, DiscardedType DEF Take
  <2>2. Minding(d, g) => \A o \in Owners : g \notin custody'[o]
    BY <1>7, <2>1, DiscardedType DEF Take, Bound, Serves, Minding
  <2> QED BY <1>1, <1>7, <2>1, <2>2, Moves DEF Take, Pending
<1>8. CASE TakeFails(d)
  <2>1. \A o \in Owners : custody'[o] \subseteq custody[o]
    BY <1>8, PrunedType DEF TakeFails
  <2>2. Moved(d, "cleaning", exec[d].claim, exec[d].outcome)
    BY <1>8, Moves
  <2> QED BY <1>1, <1>8, <2>1, <2>2 DEF TakeFails, Minding, Pending
<1>9. CASE Send(d)
  BY <1>1, <1>9, Moves DEF Send, Minding, Pending
<1>10. ASSUME NEW x \in Replies, Reply(d, x) PROVE Custodial(g)'
  BY <1>1, <1>10, Moves DEF Reply, Minding, Pending
<1>11. CASE ExchangeFails(d)
  BY <1>1, <1>11, Moves DEF ExchangeFails, Minding, Pending
<1>12. CASE Settled(d)
  BY <1>1, <1>12, Moves DEF Settled, Minding, Pending
<1>13. CASE CleanUp(d)
  <2>1. exec[d].owner \in Owners /\ \A o \in Owners : custody'[o] \subseteq custody[o]
    BY <1>13, Placed, DiscardedType DEF CleanUp
  <2>2. Minding(d, g) => \A o \in Owners : g \notin custody'[o]
    BY <1>13, <2>1, DiscardedType DEF CleanUp, Bound, Serves, Minding
  <2> QED BY <1>1, <1>13, <2>1, <2>2, Moves DEF CleanUp, Pending
<1>14. CASE Finish(d)
  <2>1. exec[d].outcome \in Outcomes /\ exec[d].grant \in Grants
    BY <1>14, Placed DEF TypeOK, Coroutines, Finish
  <2>2. Pending(g) => Pending(g)'
    BY <1>14, <2>1, ReceiptsStay DEF Finish, HasConsumedRow, Pending
  <2> QED BY <1>1, <1>14, <2>2, Moves DEF Finish, Minding
<1>15. CASE FinishFails(d)
  BY <1>1, <1>15, Moves DEF FinishFails, Minding, Pending
<1> QED
  BY <1>2, <1>3, <1>4, <1>5, <1>6, <1>7, <1>8, <1>9, <1>10, <1>11, <1>12, <1>13, <1>14,
     <1>15 DEF Executing, Advance

LEMMA CustodialNext ==
  ASSUME TypeOK, [Next]_vars, \A e \in Execs : Phased(e), \A h \in Grants : Bound(h),
         NEW g \in Grants, Custodial(g)
  PROVE  Custodial(g)'
<1> USE DEF world, history
<1>m. exec' = exec => \A e \in Execs : Minding(e, g)' <=> Minding(e, g)
  BY DEF Minding
<1>1. ASSUME NEW h \in Grants, Approving(h) PROVE Custodial(g)'
  <2>1. ASSUME NEW o \in Owners, NEW t \in Tenants, NEW ttl \in 1..MaxTtl,
               ApproveSeal(h, o, t, ttl)
        PROVE Custodial(g)'
    <3>1. CASE g = h
      <4>1. approval'[g] = "sealed"
        BY <2>1, <3>1 DEF ApproveSeal, TypeOK
      <4> QED BY <4>1 DEF Custodial, Accounted
    <3>2. CASE g # h
      <4>1. /\ meta'[g] = meta[g] /\ approval'[g] = approval[g]
            /\ exec' = exec /\ ledger' = ledger /\ revoking' = revoking /\ now' = now
        BY <2>1, <3>2 DEF ApproveSeal, TypeOK
      <4>2. \A p \in Owners : g \in custody'[p] => g \in custody[p]
        BY <2>1, <3>2 DEF ApproveSeal, TypeOK, Unexpired
      <4> QED BY <4>1, <4>2 DEF Custodial, Accounted
    <3> QED BY <3>1, <3>2
  <2>2. CASE ApproveAdd(h)
    <3>1. /\ exec' = exec /\ custody' = custody /\ meta' = meta /\ now' = now
          /\ revoking' = revoking /\ (g # h => approval'[g] = approval[g])
      BY <2>2 DEF ApproveAdd, TypeOK
    <3>2. CASE g = h
      <4>1. [state |-> "pending", receipt |-> None] \in Rows
        BY DEF Rows
      <4>2. ledger'[g] = [state |-> "pending", receipt |-> None]
        BY <2>2, <3>2 DEF ApproveAdd, Kept, Bound
      <4> QED BY <4>1, <4>2, NoneAssumption DEF Custodial, Accounted
    <3>3. CASE g # h
      <4>1. \/ ledger'[g] = ledger[g]
            \/ ledger[g] = None \/ ~(meta[g].expires >= now)
        BY <2>2, <3>3 DEF ApproveAdd, Kept
      <4>2. Pending(g) => Pending(g)' \/ ~(meta[g].expires >= now)
        BY <4>1 DEF Pending
      <4>3. \A o \in Owners : g \in custody[o] => meta[g].expires \in Nat
        BY DEF Bound, Metadata
      <4>4. \A o \in Owners : g \in custody[o] =>
              (Pending(g) => Pending(g)' \/ meta[g].expires < now)
        BY <4>2, <4>3 DEF TypeOK
      <4>5. \A e \in Execs : Minding(e, g) => Minding(e, g)'
        BY <3>1, <1>m
      <4>6. /\ now' \in Nat /\ now <= now' /\ meta'[g] = meta[g] /\ approval'[g] = approval[g]
            /\ g \in revoking => g \in revoking'
            /\ \A o \in Owners : custody'[o] = custody[o]
        BY <3>1, <3>3 DEF TypeOK
      <4> QED BY <4>4, <4>5, <4>6, StillCustodial
    <3> QED BY <3>2, <3>3
  <2>3. CASE ApproveFails(h)
    <3>1. /\ exec' = exec /\ meta' = meta /\ now' = now /\ ledger' = ledger
          /\ revoking' = revoking /\ (g # h => approval'[g] = approval[g])
          /\ approval[h] = "sealed" /\ custody' = Discarded(meta[h].owner, h)
      BY <2>3 DEF ApproveFails, TypeOK
    <3>2. \A o \in Owners : custody'[o] \subseteq custody[o]
      BY <3>1, DiscardedType
    <3>3. g = h => \A o \in Owners : g \notin custody'[o]
      <4>1. meta[h].owner \in Owners
        BY <3>1 DEF Bound, Metadata
      <4> QED BY <3>1, <3>2, <4>1, DiscardedType DEF Bound
    <3> QED BY <3>1, <3>2, <3>3, <1>m, StillCustodial DEF TypeOK, Pending
  <2> QED BY <1>1, <2>1, <2>2, <2>3 DEF Approving
<1>2. ASSUME NEW h \in Grants, NEW o \in Owners, Revoke(h, o) PROVE Custodial(g)'
  <2>1. g # h => ledger'[g] = ledger[g]
    BY <1>2, StatesStay DEF Revoke, Revocable
  <2> QED BY <1>2, <2>1, <1>m, StillCustodial DEF Revoke, Pending, TypeOK
<1>3. ASSUME NEW h \in Grants, RevokeDiscards(h) PROVE Custodial(g)'
  <2>1. \A o \in Owners : custody'[o] \subseteq custody[o]
    BY <1>3, DiscardedType DEF RevokeDiscards
  <2>2. g = h => \A o \in Owners : g \notin custody'[o]
    <3>1. g = h => meta[h].owner \in Owners
      BY <1>3 DEF Bound, Metadata, RevokeDiscards
    <3> QED BY <1>3, <2>1, <3>1, DiscardedType DEF Bound, RevokeDiscards
  <2> QED BY <1>3, <2>1, <2>2, <1>m, StillCustodial DEF RevokeDiscards, Pending, TypeOK
<1>4. ASSUME NEW h \in Grants, RestoreRow(h) PROVE Custodial(g)'
  <2>1. [state |-> "pending", receipt |-> None] \in Rows
    BY DEF Rows
  <2>2. Pending(h)' /\ (g # h => ledger'[g] = ledger[g])
    BY <1>4, <2>1, NoneAssumption DEF RestoreRow, TypeOK, Pending
  <2>3. Pending(g) => Pending(g)'
    BY <2>2 DEF Pending
  <2> QED BY <1>4, <2>3, <1>m, StillCustodial DEF RestoreRow, TypeOK
<1>5. ASSUME NEW o \in Owners, Maintaining(o), ~Crash(o) PROVE Custodial(g)'
  BY <1>5, <1>m, StillCustodial, PrunedType DEF Maintaining, Sweep, Start, Close, Pending, TypeOK
<1>6. ASSUME NEW o \in Owners, Crash(o) PROVE Custodial(g)'
  <2>1. /\ meta' = meta /\ now' = now /\ ledger' = ledger /\ custody'[o] = {}
        /\ \A q \in Owners \ {o} : custody'[q] = custody[q]
        /\ meta[g].owner # o => approval'[g] = approval[g] /\ (g \in revoking => g \in revoking')
    BY <1>6 DEF Crash, TypeOK
  <2>2. (\E q \in Owners : g \in custody'[q]) => meta[g].owner # o
    BY <2>1 DEF Bound
  <2>3. meta[g].owner # o => \A e \in Execs : Minding(e, g) => Minding(e, g)'
    BY <1>6, Crashes DEF Minding, Bound, Serves
  <2> QED BY <2>1, <2>2, <2>3, StillCustodial DEF Pending, TypeOK
<1>7. CASE Tick
  BY <1>7, <1>m, StillCustodial DEF Tick, Pending, TypeOK
<1>8. CASE UNCHANGED vars
  BY <1>8 DEF vars, Custodial, Accounted
<1> QED
  BY <1>1, <1>2, <1>3, <1>4, <1>5, <1>6, <1>7, <1>8, ExecutingKeepsCustodial DEF Next, Revoking

--------------------------------------------------------------------------------
(* The winner of a row alone decides what is sent and what the receipt says. *)

\* A step that makes no winner and moves none, unless its process dies, and leaves
\* the row as it was, clears it away or revokes it, keeps the account.
LEMMA StillSettles ==
  ASSUME NEW g \in Grants, Settles(g), restores' = restores,
         sent'[g] = sent[g], claims'[g] = claims[g],
         ledger'[g] # None => /\ ledger[g] # None
                              /\ ledger'[g].receipt = ledger[g].receipt
                              /\ \/ ledger'[g].state = ledger[g].state
                                 \/ ledger[g].state # "consumed" /\ ledger'[g].state # "consumed",
         \A e \in Execs : Won(e, g)' <=> Won(e, g),
         \A e \in Execs : Won(e, g) =>
           /\ exec'[e].outcome = exec[e].outcome
           /\ \/ exec'[e].pc = exec[e].pc
              \/ exec[e].pc # "done" /\ exec'[e].pc = "dead",
         \A e \in Execs, o \in Owners : Won(e, g) /\ g \in custody'[o] => g \in custody[o]
  PROVE  Settles(g)'
<1> SUFFICES ASSUME restores' = 0 PROVE Settles(g)'
  BY DEF Settles
<1>1. (\A e \in Execs : ~Won(e, g)) => /\ sent'[g] = 0 /\ claims'[g] = 0
                                        /\ ledger'[g] # None => /\ ledger'[g].state # "consumed"
                                                                /\ ledger'[g].receipt = None
  BY DEF Settles
<1>2. ASSUME NEW e \in Execs, Won(e, g)
      PROVE  /\ \A f \in Execs : Won(f, g)' => f = e
             /\ claims'[g] > 0
             /\ ledger'[g] # None => /\ ledger'[g].state = "consumed"
                                     /\ ledger'[g].receipt # None =>
                                          /\ exec'[e].pc = "done"
                                          /\ ledger'[g].receipt = exec'[e].outcome
             /\ exec'[e].pc \in {"exchanging", "awaiting"} => exec'[e].outcome = "unknown"
             /\ exec'[e].pc = "exchanging" => sent'[g] = 0
             /\ exec'[e].pc = "awaiting" => sent'[g] = 1
             /\ exec'[e].outcome = "not_dispatched" => sent'[g] = 0
             /\ exec'[e].outcome \in Replies => sent'[g] = 1
             /\ exec'[e].pc \in {"exchanging", "awaiting", "finishing", "done"} =>
                  \A o \in Owners : g \notin custody'[o]
  BY <1>2 DEF Settles
<1> QED BY <1>1, <1>2 DEF Settles

\* The winner d of g takes a step: what has to be shown of the winner alone.
LEMMA WinnerSettles ==
  ASSUME NEW g \in Grants, Settles(g), NEW d \in Execs, Won(d, g), restores' = restores,
         Moved(d, exec'[d].pc, "won", exec'[d].outcome),
         claims'[g] = claims[g],
         restores = 0 =>
           /\ ledger'[g] # None => /\ ledger'[g].state = "consumed"
                                   /\ ledger'[g].receipt # None =>
                                        /\ exec'[d].pc = "done"
                                        /\ ledger'[g].receipt = exec'[d].outcome
           /\ exec'[d].pc \in {"exchanging", "awaiting"} => exec'[d].outcome = "unknown"
           /\ exec'[d].pc = "exchanging" => sent'[g] = 0
           /\ exec'[d].pc = "awaiting" => sent'[g] = 1
           /\ exec'[d].outcome = "not_dispatched" => sent'[g] = 0
           /\ exec'[d].outcome \in Replies => sent'[g] = 1
           /\ exec'[d].pc \in {"exchanging", "awaiting", "finishing", "done"} =>
                \A o \in Owners : g \notin custody'[o]
  PROVE  Settles(g)'
<1> SUFFICES ASSUME restores = 0 PROVE Settles(g)'
  BY DEF Settles
<1>1. Won(d, g)' /\ \A e \in Execs : Won(e, g)' => e = d
  BY DEF Settles, Moved, Won
<1>2. claims'[g] > 0
  BY DEF Settles
<1> QED BY <1>1, <1>2 DEF Settles

\* Until a rollback, the row of a grant its winner still works on is no longer
\* pending, and holds no receipt before the winner is done.
LEMMA WinnerRow ==
  ASSUME NEW g \in Grants, Settles(g), restores = 0, NEW d \in Execs, Won(d, g), exec[d].pc # "done"
  PROVE  ledger[g] # None => ledger[g].state = "consumed" /\ ledger[g].receipt = None
  BY DEF Settles

LEMMA ExecutingKeepsSettles ==
  ASSUME TypeOK, NEW d \in Execs, Executing(d), Phased(d),
         NEW g \in Grants, Bound(g), Settles(g)
  PROVE  Settles(g)'
<1> USE DEF world, history
\* A step of a coroutine that has not won the call and does not win it now.
<1>1. ASSUME ~Won(d, g), ~Won(d, g)', \A e \in Execs \ {d} : exec'[e] = exec[e],
             restores' = restores, sent'[g] = sent[g], claims'[g] = claims[g],
             ledger'[g] = ledger[g],
             \A o \in Owners : custody'[o] \subseteq custody[o]
      PROVE Settles(g)'
  <2>1. \A e \in Execs : /\ Won(e, g)' <=> Won(e, g)
                         /\ Won(e, g) => exec'[e] = exec[e]
    BY <1>1 DEF Won
  <2>2. \A e \in Execs : Won(e, g)' <=> Won(e, g)
    BY <2>1
  <2>3. \A e \in Execs : Won(e, g) =>
          /\ exec'[e].outcome = exec[e].outcome
          /\ exec'[e].pc = exec[e].pc
    BY <2>1
  <2> QED BY <1>1, <2>2, <2>3, StillSettles
<1>2. ASSUME NEW o \in Owners, NEW h \in Grants, ExecBegin(d, o, h) PROVE Settles(g)'
  BY <1>1, <1>2, Begins DEF ExecBegin, Won, Phased
<1>3. CASE Cancel(d)
  <2>1. Moved(d, exec'[d].pc, exec[d].claim, exec[d].outcome)
        /\ exec'[d].pc = IF exec[d].pc = "claiming" THEN "settling" ELSE "cleaning"
    BY <1>3, Cancels DEF Moved
  <2>2. CASE Won(d, g)
    <3>1. exec'[d].outcome = exec[d].outcome
      BY <2>1 DEF Moved
    <3>2. Moved(d, exec'[d].pc, "won", exec'[d].outcome)
      BY <2>1, <2>2, <3>1 DEF Won
    <3> QED BY <1>3, <2>1, <2>2, <3>1, <3>2, WinnerSettles, WinnerRow DEF Cancel, Settles
  <2>3. CASE ~Won(d, g)
    BY <1>1, <1>3, <2>1, <2>3 DEF Cancel, Won, Moved
  <2> QED BY <2>2, <2>3
<1>4. CASE ClaimCommits(d)
  <2>1. exec[d].grant \in Grants
    BY <1>4, Placed DEF ClaimCommits
  <2>2. Moved(d, exec[d].pc, "won", exec[d].outcome)
    BY <1>4, Moves
  <2>3. CASE g = exec[d].grant
    <3> SUFFICES ASSUME restores = 0 PROVE Settles(g)'
      BY <1>4 DEF ClaimCommits, Settles
    <3>1. ledger[g] # None /\ ledger[g].state = "pending"
      BY <1>4, <2>3 DEF ClaimCommits, Consumable
    <3>2. \A e \in Execs : ~Won(e, g)
      BY <3>1 DEF Settles
    <3>3. sent[g] = 0 /\ claims[g] = 0 /\ ledger[g].receipt = None
      BY <3>1, <3>2 DEF Settles
    <3>4. ledger'[g].state = "consumed" /\ ledger'[g].receipt = None
      BY <1>4, <2>1, <2>3, <3>1, <3>3, StatesStay DEF ClaimCommits
    <3>5. claims'[g] = 1 /\ sent'[g] = 0
      BY <1>4, <2>3, <3>3 DEF ClaimCommits, TypeOK
    <3>6. exec[d].pc \in {"claiming", "settling"} /\ exec[d].outcome = "not_dispatched"
      BY <1>4 DEF ClaimCommits, Phased
    <3> QED BY <2>2, <2>3, <3>2, <3>4, <3>5, <3>6 DEF Moved, Won, Settles, Replies
  <2>4. CASE g # exec[d].grant
    <3>1. ledger'[g] = ledger[g] /\ claims'[g] = claims[g]
      BY <1>4, <2>1, <2>4, StatesStay DEF ClaimCommits, Consumable, TypeOK
    <3> QED BY <1>1, <1>4, <2>2, <2>4, <3>1 DEF ClaimCommits, Moved, Won
  <2> QED BY <2>3, <2>4
<1>5. CASE ClaimFails(d)
  BY <1>1, <1>5, Moves DEF ClaimFails, Moved, Won
<1>6. CASE GiveUp(d)
  BY <1>1, <1>6, Moves DEF GiveUp, Moved, Won
<1>7. CASE Take(d)
  <2>1. exec[d].owner \in Owners /\ \A o \in Owners : custody'[o] \subseteq custody[o]
    BY <1>7, Placed, DiscardedType DEF Take
  <2>2. Moved(d, "exchanging", exec[d].claim, "unknown")
    BY <1>7, Moves
  <2>3. CASE Won(d, g)
    <3>1. \A o \in Owners : g \notin custody'[o]
      BY <1>7, <2>1, <2>3, DiscardedType DEF Take, Bound, Serves, Won
    <3>2. restores = 0 => sent'[g] = 0
      BY <1>7, <2>3 DEF Take, Settles, Phased
    <3>3. Moved(d, exec'[d].pc, "won", exec'[d].outcome) /\ exec'[d].pc = "exchanging"
          /\ exec'[d].outcome = "unknown"
      BY <2>2, <2>3 DEF Won, Moved
    <3> QED BY <1>7, <2>3, <3>1, <3>2, <3>3, WinnerSettles, WinnerRow DEF Take, Replies
  <2>4. CASE ~Won(d, g)
    BY <1>1, <1>7, <2>1, <2>2, <2>4 DEF Take, Won, Moved
  <2> QED BY <2>3, <2>4
<1>8. CASE TakeFails(d)
  <2>1. \A o \in Owners : custody'[o] \subseteq custody[o]
    BY <1>8, PrunedType DEF TakeFails
  <2>2. Moved(d, "cleaning", exec[d].claim, exec[d].outcome)
    BY <1>8, Moves
  <2>3. CASE Won(d, g)
    BY <1>8, <2>2, <2>3, WinnerSettles, WinnerRow DEF TakeFails, Settles, Won, Moved
  <2>4. CASE ~Won(d, g)
    BY <1>1, <1>8, <2>1, <2>2, <2>4 DEF TakeFails, Won, Moved
  <2> QED BY <2>3, <2>4
<1>9. CASE Send(d)
  <2>1. exec[d].grant \in Grants /\ exec[d].claim = "won"
    BY <1>9, Placed DEF Send, Phased
  <2>2. Moved(d, "awaiting", exec[d].claim, exec[d].outcome)
    BY <1>9, Moves
  <2>3. CASE g = exec[d].grant
    <3>1. Won(d, g)
      BY <2>1, <2>3 DEF Won
    <3>2. restores = 0 => sent'[g] = 1 /\ exec[d].outcome = "unknown"
                          /\ \A o \in Owners : g \notin custody[o]
      BY <1>9, <2>3, <3>1 DEF Send, Settles, TypeOK
    <3> QED BY <1>9, <2>2, <3>1, <3>2, WinnerSettles, WinnerRow DEF Send, Won, Moved, Replies
  <2>4. CASE g # exec[d].grant
    <3>1. sent'[g] = sent[g]
      BY <1>9, <2>4 DEF Send, TypeOK
    <3> QED BY <1>1, <1>9, <2>2, <2>4, <3>1 DEF Send, Moved, Won
  <2> QED BY <2>3, <2>4
<1>10. ASSUME NEW x \in Replies, Reply(d, x) PROVE Settles(g)'
  <2>1. Moved(d, "cleaning", exec[d].claim, x)
    BY <1>10, Moves
  <2>2. CASE Won(d, g)
    <3>1. restores = 0 => sent'[g] = 1
      BY <1>10, <2>2 DEF Reply, Settles
    <3>2. x # "not_dispatched"
      BY DEF Replies
    <3> QED BY <1>10, <2>1, <2>2, <3>1, <3>2, WinnerSettles, WinnerRow DEF Reply, Won, Moved
  <2>3. CASE ~Won(d, g)
    BY <1>1, <1>10, <2>1, <2>3 DEF Reply, Won, Moved
  <2> QED BY <2>2, <2>3
<1>11. CASE ExchangeFails(d)
  <2>1. Moved(d, "cleaning", exec[d].claim, exec[d].outcome)
    BY <1>11, Moves
  <2>2. CASE Won(d, g)
    BY <1>11, <2>1, <2>2, WinnerSettles, WinnerRow DEF ExchangeFails, Settles, Won, Moved
  <2>3. CASE ~Won(d, g)
    BY <1>1, <1>11, <2>1, <2>3 DEF ExchangeFails, Won, Moved
  <2> QED BY <2>2, <2>3
<1>12. CASE Settled(d)
  <2>1. Moved(d, "cleaning", exec[d].claim, exec[d].outcome)
    BY <1>12, Moves
  <2>2. CASE Won(d, g)
    BY <1>12, <2>1, <2>2, WinnerSettles, WinnerRow DEF Settled, Settles, Won, Moved
  <2>3. CASE ~Won(d, g)
    BY <1>1, <1>12, <2>1, <2>3 DEF Settled, Won, Moved
  <2> QED BY <2>2, <2>3
<1>13. CASE CleanUp(d)
  <2>1. exec[d].owner \in Owners /\ \A o \in Owners : custody'[o] \subseteq custody[o]
    BY <1>13, Placed, DiscardedType DEF CleanUp
  <2>2. Moved(d, "finishing", exec[d].claim, exec[d].outcome)
    BY <1>13, Moves
  <2>3. CASE Won(d, g)
    <3>1. \A o \in Owners : g \notin custody'[o]
      BY <1>13, <2>1, <2>3, DiscardedType DEF CleanUp, Bound, Serves, Won
    <3> QED BY <1>13, <2>2, <2>3, <3>1, WinnerSettles, WinnerRow DEF CleanUp, Settles, Won, Moved
  <2>4. CASE ~Won(d, g)
    BY <1>1, <1>13, <2>1, <2>2, <2>4 DEF CleanUp, Won, Moved
  <2> QED BY <2>3, <2>4
<1>14. CASE Finish(d)
  <2>1. exec[d].outcome \in Outcomes /\ exec[d].grant \in Grants
    BY <1>14, Placed DEF TypeOK, Coroutines, Finish
  <2>2. Moved(d, "done", exec[d].claim, exec[d].outcome) /\ exec[d].claim = "won"
    BY <1>14, Moves DEF Finish, Phased
  <2>3. CASE g = exec[d].grant
    <3>1. Won(d, g)
      BY <2>2, <2>3 DEF Won
    <3>2. ledger'[g].state = "consumed" /\ ledger'[g].receipt = exec[d].outcome
      BY <1>14, <2>1, <2>3, ReceiptsStay DEF Finish, HasConsumedRow
    <3> QED BY <1>14, <2>2, <3>1, <3>2, WinnerSettles DEF Finish, Settles, Won, Moved
  <2>4. CASE g # exec[d].grant
    <3>1. ledger'[g] = ledger[g]
      BY <1>14, <2>1, <2>4, ReceiptsStay DEF Finish, HasConsumedRow
    <3> QED BY <1>1, <1>14, <2>2, <2>4, <3>1 DEF Finish, Moved, Won
  <2> QED BY <2>3, <2>4
<1>15. CASE FinishFails(d)
  <2>1. Moved(d, "done", exec[d].claim, exec[d].outcome)
    BY <1>15, Moves
  <2>2. CASE Won(d, g)
    BY <1>15, <2>1, <2>2, WinnerSettles, WinnerRow DEF FinishFails, Settles, Won, Moved
  <2>3. CASE ~Won(d, g)
    BY <1>1, <1>15, <2>1, <2>3 DEF FinishFails, Won, Moved
  <2> QED BY <2>2, <2>3
<1> QED
  BY <1>2, <1>3, <1>4, <1>5, <1>6, <1>7, <1>8, <1>9, <1>10, <1>11, <1>12, <1>13, <1>14,
     <1>15 DEF Executing, Advance

LEMMA SettlesNext ==
  ASSUME TypeOK, [Next]_vars, \A e \in Execs : Phased(e), \A h \in Grants : Bound(h),
         NEW g \in Grants, Settles(g)
  PROVE  Settles(g)'
<1> USE DEF world, history
\* A step that leaves the coroutines alone.
<1>1. ASSUME exec' = exec, sent' = sent, claims' = claims, restores' = restores,
             ledger'[g] # None => /\ ledger[g] # None
                                  /\ ledger'[g].receipt = ledger[g].receipt
                                  /\ \/ ledger'[g].state = ledger[g].state
                                     \/ /\ ledger[g].state # "consumed"
                                        /\ ledger'[g].state # "consumed",
             \A o \in Owners : g \in custody'[o] => g \in custody[o]
      PROVE Settles(g)'
  <2>1. \A e \in Execs : Won(e, g)' <=> Won(e, g)
    BY <1>1 DEF Won
  <2> QED BY <1>1, <2>1, StillSettles
<1>2. ASSUME \A e \in Execs : Serves(e, g) => approval[g] = "added"
      PROVE approval[g] # "added" => \A e \in Execs : ~Won(e, g)
  BY <1>2 DEF Won, Serves, Phased
<1>3. ASSUME NEW h \in Grants, Approving(h) PROVE Settles(g)'
  <2>1. ASSUME NEW o \in Owners, NEW t \in Tenants, NEW ttl \in 1..MaxTtl,
               ApproveSeal(h, o, t, ttl)
        PROVE Settles(g)'
    <3>1. exec' = exec /\ sent' = sent /\ claims' = claims /\ restores' = restores
          /\ ledger' = ledger /\ approval[h] = "new"
      BY <2>1 DEF ApproveSeal
    <3>2. CASE g = h
      <4>1. \A e \in Execs : ~Won(e, g)
        BY <1>2, <3>1, <3>2 DEF Bound
      <4>2. \A e \in Execs : ~Won(e, g)'
        BY <3>1, <4>1 DEF Won
      <4> QED BY <3>1, <4>1, <4>2 DEF Settles
    <3>3. CASE g # h
      <4>1. \A p \in Owners : g \in custody'[p] => g \in custody[p]
        BY <2>1, <3>3 DEF ApproveSeal, TypeOK, Unexpired
      <4> QED BY <1>1, <3>1, <4>1
    <3> QED BY <3>2, <3>3
  <2>2. CASE ApproveAdd(h)
    <3>1. exec' = exec /\ sent' = sent /\ claims' = claims /\ restores' = restores
          /\ custody' = custody /\ approval[h] = "sealed"
      BY <2>2 DEF ApproveAdd
    <3>2. CASE g = h
      <4>1. \A e \in Execs : ~Won(e, g)
        BY <1>2, <3>1, <3>2 DEF Bound
      <4>2. \A e \in Execs : ~Won(e, g)'
        BY <3>1, <4>1 DEF Won
      <4>3. ledger'[g] = [state |-> "pending", receipt |-> None]
        BY <2>2, <3>1, <3>2 DEF ApproveAdd, Kept, Bound
      <4> QED BY <3>1, <4>1, <4>2, <4>3 DEF Settles
    <3>3. CASE g # h
      <4>1. ledger'[g] = ledger[g] \/ ledger'[g] = None
        BY <2>2, <3>3 DEF ApproveAdd
      <4> QED BY <1>1, <3>1, <4>1
    <3> QED BY <3>2, <3>3
  <2>3. CASE ApproveFails(h)
    BY <1>1, <2>3, DiscardedType DEF ApproveFails
  <2> QED BY <1>3, <2>1, <2>2, <2>3 DEF Approving
<1>4. ASSUME NEW h \in Grants, NEW o \in Owners, Revoke(h, o) PROVE Settles(g)'
  <2>1. /\ ledger[h].state = "pending" /\ ledger'[h].state = "revoked"
        /\ ledger[h] # None /\ ledger'[h].receipt = ledger[h].receipt
        /\ g # h => ledger'[g] = ledger[g]
    BY <1>4, StatesStay DEF Revoke, Revocable
  <2>2. exec' = exec /\ sent' = sent /\ claims' = claims /\ restores' = restores
        /\ custody' = custody
    BY <1>4 DEF Revoke
  <2> QED BY <1>1, <2>1, <2>2
<1>5. ASSUME NEW h \in Grants, RevokeDiscards(h) PROVE Settles(g)'
  BY <1>1, <1>5, DiscardedType DEF RevokeDiscards
<1>6. ASSUME NEW h \in Grants, RestoreRow(h) PROVE Settles(g)'
  BY <1>6 DEF RestoreRow, Settles, TypeOK
<1>7. ASSUME NEW o \in Owners, Maintaining(o), ~Crash(o) PROVE Settles(g)'
  <2>1. \A p \in Owners : custody'[p] \subseteq custody[p]
    BY <1>7, PrunedType DEF Maintaining, Sweep, Start, Close, TypeOK
  <2> QED BY <1>1, <1>7, <2>1 DEF Maintaining, Sweep, Start, Close
<1>8. ASSUME NEW o \in Owners, Crash(o) PROVE Settles(g)'
  <2>1. \A e \in Execs : /\ exec'[e].outcome = exec[e].outcome
                         /\ \/ exec'[e].pc = exec[e].pc
                            \/ exec[e].pc # "done" /\ exec'[e].pc = "dead"
    BY <1>8, Crashes
  <2>2. \A e \in Execs : Won(e, g)' <=> Won(e, g)
    BY <1>8, Crashes DEF Won
  <2>3. \A p \in Owners : custody'[p] \subseteq custody[p]
    BY <1>8 DEF Crash, TypeOK
  <2> QED BY <1>8, <2>1, <2>2, <2>3, StillSettles DEF Crash
<1>9. CASE Tick
  BY <1>1, <1>9 DEF Tick
<1>10. CASE UNCHANGED vars
  BY <1>1, <1>10 DEF vars
<1> QED
  BY <1>3, <1>4, <1>5, <1>6, <1>7, <1>8, <1>9, <1>10, ExecutingKeepsSettles DEF Next, Revoking

--------------------------------------------------------------------------------
(* The theorems about custody, receipts and dispatch. *)

CallInv ==
  /\ TypeOK
  /\ \A e \in Execs : Phased(e)
  /\ \A g \in Grants : Bound(g) /\ Custodial(g) /\ Settles(g)

LEMMA CallInvInit == Init => CallInv
<1> SUFFICES ASSUME Init PROVE CallInv
  OBVIOUS
<1>1. TypeOK
  BY InitTypeOK
<1>2. \A e \in Execs : Phased(e)
  BY DEF Init, Idle, Phased
<1>3. \A g \in Grants : Bound(g)
  BY DEF Init, Idle, Bound, Serves
<1>4. \A g \in Grants : Custodial(g)
  BY DEF Init, Custodial
<1>5. \A g \in Grants : Settles(g)
  BY DEF Init, Idle, Settles, Won
<1> QED BY <1>1, <1>2, <1>3, <1>4, <1>5 DEF CallInv

LEMMA CallInvNext == CallInv /\ [Next]_vars => CallInv'
<1> SUFFICES ASSUME CallInv, [Next]_vars PROVE CallInv'
  OBVIOUS
<1>1. TypeOK'
  BY NextTypeOK DEF CallInv
<1>2. \A e \in Execs : Phased(e)'
  BY PhasedNext DEF CallInv
<1>3. \A g \in Grants : Bound(g)'
  BY BoundNext DEF CallInv
<1>4. \A g \in Grants : Custodial(g)'
  BY CustodialNext DEF CallInv
<1>5. \A g \in Grants : Settles(g)'
  BY SettlesNext DEF CallInv
<1> QED BY <1>1, <1>2, <1>3, <1>4, <1>5 DEF CallInv

THEOREM CallsInvariant == Spec => []CallInv
  BY CallInvInit, CallInvNext, PTL DEF Spec

\* No path of a call, failed, cancelled, crashed or lost, leaves a credential in
\* custody without a reason.
THEOREM CustodyHasReason == Spec => []CustodyAccounted
<1>1. CallInv => CustodyAccounted
  BY DEF CallInv, Custodial, CustodyAccounted, TypeOK
<1> QED BY <1>1, CallsInvariant, PTL

\* Until a ledger rollback a stored receipt says what happened to its call.
THEOREM ReceiptsTellTheTruth == Spec => []ReceiptTruthful
<1>1. ASSUME CallInv PROVE ReceiptTruthful
  <2> SUFFICES ASSUME NEW g \in Grants, restores = 0, ledger[g] # None, ledger[g].receipt # None
               PROVE  /\ \A o \in Owners : g \notin custody[o]
                      /\ ledger[g].receipt = "not_dispatched" => sent[g] = 0
                      /\ ledger[g].receipt \in Replies => sent[g] = 1
    BY DEF ReceiptTruthful
  <2>1. Settles(g)
    BY <1>1 DEF CallInv
  <2>2. PICK e \in Execs : Won(e, g)
    BY <2>1 DEF Settles
  <2> QED BY <2>1, <2>2 DEF Settles
<1> QED BY <1>1, CallsInvariant, PTL

\* Until a ledger rollback a request leaves only on a row that says consumed, or
\* that expired and was cleared away.
THEOREM NoDispatchBeforeConsumption == Spec => DispatchFollowsConsumption
<1> DEFINE Follows == \A g \in Grants : restores' = 0 /\ sent'[g] # sent[g] =>
                        \/ HasConsumedRow(g)
                        \/ ledger[g] = None /\ meta[g].expires < now
<1>1. ASSUME CallInv, [Next]_vars PROVE [Follows]_vars
  <2> SUFFICES ASSUME NEW g \in Grants, restores' = 0, sent'[g] # sent[g]
               PROVE  \/ HasConsumedRow(g)
                      \/ ledger[g] = None /\ meta[g].expires < now
    OBVIOUS
  <2>1. PICK d \in Execs : Send(d)
    BY <1>1 DEF Next, Approving, ApproveSeal, ApproveAdd, ApproveFails, Revoking, Revoke,
       RevokeDiscards, RestoreRow, Executing, Advance, ExecBegin, ClaimCommits, ClaimFails,
       GiveUp, Take, TakeFails, Reply, ExchangeFails, Cancel, Settled, CleanUp, Finish,
       FinishFails, Maintaining, Sweep, Start, Close, Crash, Tick, vars, history
  <2>2. exec[d].pc = "exchanging" /\ exec[d].grant = g /\ restores = 0
    BY <1>1, <2>1 DEF Send, CallInv, TypeOK
  <2>3. Won(d, g) /\ Serves(d, g)
    BY <1>1, <2>2 DEF CallInv, Phased, Won, Serves
  <2>4. Settles(g) /\ Bound(g)
    BY <1>1 DEF CallInv
  <2>5. ledger[g] # None => ledger[g].state = "consumed"
    BY <2>2, <2>3, <2>4 DEF Settles
  <2>6. ledger[g] = None => meta[g].expires < now
    BY <2>3, <2>4 DEF Bound
  <2> QED BY <2>5, <2>6 DEF HasConsumedRow
<1>2. Spec => [][Follows]_vars
  BY <1>1, CallsInvariant, PTL DEF Spec
<1> QED BY <1>2 DEF DispatchFollowsConsumption

--------------------------------------------------------------------------------
(* The limits. *)

RowsHeld == {g \in Grants : ledger[g] # None}

PendingRows(t) == {g \in Grants : Pending(g) /\ meta[g].tenant = t}

Bounded(S, limit) == IsFiniteSet(S) /\ Cardinality(S) <= limit

LimitInv ==
  /\ \A o \in Owners : Bounded(custody[o], MaxCustody)
  /\ restores = 0 => /\ Bounded(RowsHeld, MaxRows)
                     /\ \A t \in Tenants : Bounded(PendingRows(t), MaxTenantPending)

LEMMA BoundedShrinks ==
  ASSUME NEW S, NEW T, NEW limit \in Nat, Bounded(S, limit), T \subseteq S
  PROVE  Bounded(T, limit)
<1>1. IsFiniteSet(T) /\ Cardinality(T) <= Cardinality(S)
  BY FS_Subset DEF Bounded
<1>2. Cardinality(S) \in Nat /\ Cardinality(T) \in Nat
  BY <1>1, FS_CardinalityType DEF Bounded
<1> QED BY <1>1, <1>2 DEF Bounded

\* One more element fits where the count was checked to be below the limit.
LEMMA BoundedGrows ==
  ASSUME NEW S, NEW T, NEW x, NEW limit \in Nat, IsFiniteSet(S), Cardinality(S) < limit,
         T \subseteq S \cup {x}
  PROVE  Bounded(T, limit)
<1>1. IsFiniteSet(S \cup {x}) /\ Cardinality(S) \in Nat
  BY FS_AddElement, FS_CardinalityType
<1>2. Cardinality(S \cup {x}) <= Cardinality(S) + 1
  BY <1>1, FS_AddElement
<1>3. Cardinality(S \cup {x}) \in Nat
  BY <1>1, FS_CardinalityType
<1>4. Bounded(S \cup {x}, limit)
  BY <1>1, <1>2, <1>3 DEF Bounded
<1> QED BY <1>4, BoundedShrinks

LEMMA StillLimited ==
  ASSUME LimitInv,
         \A o \in Owners : custody'[o] \subseteq custody[o],
         restores' = 0 => /\ restores = 0
                          /\ \A g \in Grants : ledger'[g] # None => ledger[g] # None
                          /\ \A g \in Grants : Pending(g)' => Pending(g) /\ meta'[g] = meta[g]
  PROVE  LimitInv'
<1>1. \A o \in Owners : Bounded(custody'[o], MaxCustody)
  BY BoundedShrinks, ConstantsAssumption DEF LimitInv
<1>2. ASSUME restores' = 0
      PROVE  /\ Bounded(RowsHeld', MaxRows)
             /\ \A t \in Tenants : Bounded(PendingRows(t)', MaxTenantPending)
  <2>1. RowsHeld' \subseteq RowsHeld
    BY <1>2 DEF RowsHeld
  <2>2. \A t \in Tenants : PendingRows(t)' \subseteq PendingRows(t)
    BY <1>2 DEF PendingRows
  <2> QED BY <1>2, <2>1, <2>2, BoundedShrinks, ConstantsAssumption DEF LimitInv
<1> QED BY <1>1, <1>2 DEF LimitInv

LEMMA LimitNext ==
  ASSUME CallInv, [Next]_vars, LimitInv
  PROVE  LimitInv'
<1> USE DEF world, history
<1>t. TypeOK /\ \A h \in Grants : Bound(h)
  BY DEF CallInv
<1>1. ASSUME NEW h \in Grants, NEW o \in Owners, NEW t \in Tenants, NEW ttl \in 1..MaxTtl,
             ApproveSeal(h, o, t, ttl)
      PROVE LimitInv'
  <2>1. \A p \in Owners : Bounded(custody'[p], MaxCustody)
    <3> SUFFICES ASSUME NEW p \in Owners PROVE Bounded(custody'[p], MaxCustody)
      OBVIOUS
    <3>1. CASE p = o
      <4>1. Unexpired(o) \subseteq custody[o]
        BY DEF Unexpired
      <4>2. IsFiniteSet(Unexpired(o))
        BY <4>1, FS_Subset DEF LimitInv, Bounded
      <4>3. Cardinality(Unexpired(o)) < MaxCustody /\ custody'[o] = Unexpired(o) \cup {h}
        BY <1>1, <1>t DEF ApproveSeal, TypeOK
      <4> QED BY <3>1, <4>2, <4>3, BoundedGrows, ConstantsAssumption
    <3>2. CASE p # o
      BY <1>1, <1>t, <3>2 DEF ApproveSeal, TypeOK, LimitInv
    <3> QED BY <3>1, <3>2
  <2>2. ledger' = ledger /\ restores' = restores /\ ledger[h] = None
    BY <1>1, <1>t DEF ApproveSeal, Bound
  <2>3. \A g \in Grants : Pending(g)' => Pending(g) /\ meta'[g] = meta[g]
    BY <1>1, <1>t, <2>2 DEF ApproveSeal, TypeOK, Pending
  <2>4. RowsHeld' = RowsHeld
    BY <2>2 DEF RowsHeld
  <2>5. \A q \in Tenants : PendingRows(q)' \subseteq PendingRows(q)
    BY <2>3 DEF PendingRows
  <2> QED BY <2>1, <2>2, <2>4, <2>5, BoundedShrinks, ConstantsAssumption DEF LimitInv
<1>2. ASSUME NEW h \in Grants, ApproveAdd(h) PROVE LimitInv'
  <2>1. restores' = restores /\ custody' = custody /\ meta' = meta /\ HasRoom(h)
    BY <1>2 DEF ApproveAdd
  <2>2. ASSUME restores' = 0
        PROVE  /\ Bounded(RowsHeld', MaxRows)
               /\ \A t \in Tenants : Bounded(PendingRows(t)', MaxTenantPending)
    <3>1. Kept \subseteq RowsHeld /\ RowsHeld' \subseteq Kept \cup {h}
      BY <1>2 DEF ApproveAdd, RowsHeld, Kept
    <3>2. IsFiniteSet(Kept)
      BY <2>1, <2>2, <3>1, FS_Subset DEF LimitInv, Bounded
    <3>3. Bounded(RowsHeld', MaxRows)
      BY <2>1, <3>1, <3>2, BoundedGrows, ConstantsAssumption DEF HasRoom
    <3>4. ASSUME NEW t \in Tenants PROVE Bounded(PendingRows(t)', MaxTenantPending)
      <4>1. PendingOf(t) \subseteq PendingRows(t) /\ PendingRows(t)' \subseteq PendingOf(t) \cup {h}
        BY <1>2, <2>1 DEF ApproveAdd, PendingRows, PendingOf, Pending, Kept
      <4>2. CASE meta[h].tenant = t
        <5>1. IsFiniteSet(PendingOf(t))
          BY <2>1, <2>2, <4>1, FS_Subset DEF LimitInv, Bounded
        <5> QED BY <2>1, <4>1, <4>2, <5>1, BoundedGrows, ConstantsAssumption DEF HasRoom
      <4>3. CASE meta[h].tenant # t
        <5>1. PendingRows(t)' \subseteq PendingRows(t)
          BY <2>1, <4>1, <4>3 DEF PendingRows
        <5> QED BY <2>1, <2>2, <5>1, BoundedShrinks, ConstantsAssumption DEF LimitInv
      <4> QED BY <4>2, <4>3
    <3> QED BY <3>3, <3>4
  <2> QED BY <2>1, <2>2 DEF LimitInv
<1>3. ASSUME NEW h \in Grants, ApproveFails(h) PROVE LimitInv'
  BY <1>3, <1>t, StillLimited, DiscardedType DEF ApproveFails, Pending
<1>4. ASSUME NEW h \in Grants, NEW o \in Owners, Revoke(h, o) PROVE LimitInv'
  <2>1. \A g \in Grants : /\ ledger'[g] # None => ledger[g] # None
                          /\ Pending(g)' => Pending(g)
    BY <1>4, <1>t, StatesStay DEF Revoke, Revocable, Pending
  <2> QED BY <1>4, <2>1, StillLimited DEF Revoke
<1>5. ASSUME NEW h \in Grants, RevokeDiscards(h) PROVE LimitInv'
  BY <1>5, <1>t, StillLimited, DiscardedType DEF RevokeDiscards, Pending
<1>6. ASSUME NEW h \in Grants, RestoreRow(h) PROVE LimitInv'
  BY <1>6, <1>t DEF RestoreRow, LimitInv, TypeOK
<1>7. ASSUME NEW d \in Execs, Executing(d) PROVE LimitInv'
  <2>1. \A o \in Owners : custody'[o] \subseteq custody[o]
    <3>1. CASE Take(d)
      BY <3>1, <1>t, DiscardedType DEF Take
    <3>2. CASE TakeFails(d)
      BY <3>2, <1>t, PrunedType DEF TakeFails
    <3>3. CASE CleanUp(d)
      BY <3>3, <1>t, DiscardedType DEF CleanUp
    <3>4. ~Take(d) /\ ~TakeFails(d) /\ ~CleanUp(d) => custody' = custody
      BY <1>7 DEF Executing, Advance, ExecBegin, ClaimCommits, ClaimFails, GiveUp, Send, Reply,
         ExchangeFails, Cancel, Settled, Finish, FinishFails
    <3> QED BY <3>1, <3>2, <3>3, <3>4
  <2>2. meta' = meta /\ restores' = restores
    BY <1>7 DEF Executing, Advance, ExecBegin, ClaimCommits,
       ClaimFails, GiveUp, Take, TakeFails, Send, Reply, ExchangeFails, Cancel, Settled, CleanUp,
       Finish, FinishFails
  <2>3. \A g \in Grants : /\ ledger'[g] # None => ledger[g] # None
                          /\ Pending(g)' => Pending(g)
    <3>1. CASE ClaimCommits(d)
      <4>1. exec[d].grant \in Grants
        BY <3>1, <1>t, Placed DEF ClaimCommits
      <4> QED BY <3>1, <4>1, <1>t, StatesStay DEF ClaimCommits, Consumable, Pending
    <3>2. CASE Finish(d)
      <4>1. exec[d].grant \in Grants /\ exec[d].outcome \in Outcomes
        BY <3>2, <1>t, Placed DEF Finish, TypeOK, Coroutines
      <4> QED BY <3>2, <4>1, <1>t, ReceiptsStay DEF Finish, HasConsumedRow, Pending
    <3>3. ~ClaimCommits(d) /\ ~Finish(d) => ledger' = ledger
      BY <1>7 DEF Executing, Advance, ExecBegin, ClaimFails, GiveUp, Take, TakeFails, Send,
         Reply, ExchangeFails, Cancel, Settled, CleanUp, FinishFails
    <3> QED BY <3>1, <3>2, <3>3 DEF Pending
  <2> QED BY <2>1, <2>2, <2>3, StillLimited
<1>8. ASSUME NEW o \in Owners, Maintaining(o) PROVE LimitInv'
  <2>1. \A p \in Owners : custody'[p] \subseteq custody[p]
    BY <1>8, <1>t, PrunedType DEF Maintaining, Sweep, Start, Close, Crash, TypeOK
  <2>2. meta' = meta /\ restores' = restores /\ ledger' = ledger
    BY <1>8 DEF Maintaining, Sweep, Start, Close, Crash
  <2> QED BY <2>1, <2>2, StillLimited DEF Pending
<1>9. CASE Tick \/ UNCHANGED vars
  BY <1>9, StillLimited DEF Tick, vars, Pending
<1> QED
  BY <1>1, <1>2, <1>3, <1>4, <1>5, <1>6, <1>7, <1>8, <1>9 DEF Next, Approving, Revoking

LEMMA LimitInit == Init => LimitInv
<1> SUFFICES ASSUME Init PROVE LimitInv
  OBVIOUS
<1>1. \A limit \in Nat : Bounded({}, limit)
  BY FS_EmptySet DEF Bounded
<1>2. RowsHeld = {} /\ \A t \in Tenants : PendingRows(t) = {}
  BY DEF Init, RowsHeld, PendingRows, Pending
<1> QED BY <1>1, <1>2, ConstantsAssumption DEF Init, LimitInv

\* Until a ledger rollback the limits on custody, rows and pending rows hold
\* together, whatever sets of grants, tenants and processes there are.
THEOREM LimitsKept == Spec => []LimitsHold
<1>1. CallInv /\ LimitInv => LimitsHold
  <2> SUFFICES ASSUME CallInv, LimitInv PROVE LimitsHold
    OBVIOUS
  <2>1. \A t \in Tenants : PendingRows(t) = {g \in Grants : /\ ledger[g] # None
                                                            /\ ledger[g].state = "pending"
                                                            /\ meta[g].tenant = t}
    BY DEF PendingRows, Pending
  <2> QED BY <2>1 DEF LimitInv, LimitsHold, Bounded, RowsHeld
<1>2. CallInv /\ LimitInv /\ [Next]_vars => LimitInv'
  BY LimitNext
<1> QED BY <1>1, <1>2, LimitInit, CallsInvariant, PTL DEF Spec

--------------------------------------------------------------------------------
(* Without ledger rollback the service implements the one-use authority. *)

NoRollback == MaxRestores = 0

Unrolled == restores = 0

LEMMA UnrolledAlways == ASSUME NoRollback PROVE Spec => []Unrolled
<1>1. Init => Unrolled
  BY DEF Init, Unrolled
<1>2. ASSUME NEW g \in Grants, Unrolled PROVE ~RestoreRow(g)
  BY <1>2 DEF NoRollback, Unrolled, RestoreRow
<1>3. ASSUME Unrolled, [Next]_vars PROVE Unrolled'
  <2>1. ASSUME NEW g \in Grants, Approving(g) \/ Revoking(g) PROVE Unrolled'
    BY <1>3, <2>1 DEF Unrolled, Approving, ApproveSeal, ApproveAdd, ApproveFails, Revoking, Revoke,
       RevokeDiscards, history
  <2>2. ASSUME NEW e \in Execs, Executing(e) PROVE Unrolled'
    BY <1>3, <2>2 DEF Unrolled, Executing, Advance, ExecBegin, ClaimCommits, ClaimFails, GiveUp,
       Take, TakeFails, Send, Reply, ExchangeFails, Cancel, Settled, CleanUp, Finish, FinishFails,
       history
  <2>3. ASSUME NEW o \in Owners, Maintaining(o) PROVE Unrolled'
    BY <1>3, <2>3 DEF Unrolled, Maintaining, Sweep, Start, Close, Crash, history
  <2> QED BY <1>2, <1>3, <2>1, <2>2, <2>3 DEF Next, Tick, vars, Unrolled, history
<1> QED BY <1>1, <1>3, PTL DEF Spec

\* What is known of a grant whose row was never rolled back.
Unspoilt(g) ==
  /\ sent[g] \in Nat /\ claims[g] \in Nat
  /\ claims[g] = 0 => sent[g] = 0
  /\ Pending(g) => claims[g] = 0 /\ approval[g] = "added"

LEMMA SettledIsUnspoilt ==
  ASSUME CallInv, Unrolled, NEW g \in Grants
  PROVE  Unspoilt(g)
<1>1. TypeOK /\ Settles(g) /\ Bound(g)
  BY DEF CallInv
<1>2. claims[g] = 0 => sent[g] = 0
  BY <1>1 DEF Settles, Unrolled
<1>3. Pending(g) => claims[g] = 0
  BY <1>1 DEF Settles, Unrolled, Pending
<1> QED BY <1>1, <1>2, <1>3 DEF Unspoilt, TypeOK, Bound, Pending

AllUnspoilt == \A g \in Grants : Unspoilt(g)

\* The stages, one by one.
LEMMA StageIs ==
  ASSUME NEW g \in Grants, Unspoilt(g)
  PROVE  Stage(g) = IF sent[g] > 0 THEN "used"
                    ELSE IF claims[g] > 0 THEN "spent"
                    ELSE IF approval[g] # "added" THEN "new"
                    ELSE IF Pending(g) THEN "live" ELSE "void"
<1>1. CASE sent[g] > 0
  BY <1>1 DEF Stage, Unspoilt
<1>2. CASE sent[g] = 0 /\ claims[g] > 0
  BY <1>2 DEF Stage
<1>3. CASE sent[g] = 0 /\ claims[g] = 0 /\ approval[g] # "added"
  BY <1>3 DEF Stage
<1>4. CASE sent[g] = 0 /\ claims[g] = 0 /\ approval[g] = "added"
  BY <1>4 DEF Stage, Pending
<1> QED BY <1>1, <1>2, <1>3, <1>4 DEF Unspoilt

\* A step that touches no count, and no pending row that is still to be claimed,
\* is invisible in the stage of a grant.
LEMMA SameStage ==
  ASSUME NEW g \in Grants, Unspoilt(g), Unspoilt(g)',
         sent'[g] = sent[g], claims'[g] = claims[g],
         approval'[g] = "added" <=> approval[g] = "added",
         claims[g] = 0 => (Pending(g)' <=> Pending(g))
  PROVE  Stage(g)' = Stage(g)
<1>1. Stage(g)' = IF sent'[g] > 0 THEN "used"
                  ELSE IF claims'[g] > 0 THEN "spent"
                  ELSE IF approval'[g] # "added" THEN "new"
                  ELSE IF Pending(g)' THEN "live" ELSE "void"
  <2>1. CASE sent'[g] > 0
    BY <2>1 DEF Stage, Unspoilt
  <2>2. CASE sent'[g] = 0 /\ claims'[g] > 0
    BY <2>2 DEF Stage
  <2>3. CASE sent'[g] = 0 /\ claims'[g] = 0 /\ approval'[g] # "added"
    BY <2>3 DEF Stage
  <2>4. CASE sent'[g] = 0 /\ claims'[g] = 0 /\ approval'[g] = "added"
    BY <2>4 DEF Stage, Pending
  <2> QED BY <2>1, <2>2, <2>3, <2>4 DEF Unspoilt
<1> QED BY <1>1, StageIs DEF Unspoilt

\* A step in which only g changes stage is a move of the abstract authority.
LEMMA OneMoves ==
  ASSUME NEW g \in Grants, NEW from, NEW to, Stage(g) = from, Stage(g)' = to,
         \A h \in Grants \ {g} : Stage(h)' = Stage(h)
  PROVE  Authority!Move(g, from, to)
<1>1. [h \in Grants |-> Stage(h)]' = [[h \in Grants |-> Stage(h)] EXCEPT ![g] = to]
  OBVIOUS
<1> QED BY <1>1 DEF Authority!Move

\* What the abstract authority sees of the service.
Shown == <<[g \in Grants |-> Stage(g)], [g \in Grants |-> Winners(g)], sent>>

\* Only a claim that commits makes a winner; a winner stays one, even when it dies.
LEMMA WinnersStay ==
  ASSUME TypeOK, \A f \in Execs : Phased(f), [Next]_vars, \A d \in Execs : ~ClaimCommits(d),
         NEW e \in Execs, NEW g \in Grants
  PROVE  Won(e, g)' <=> Won(e, g)
<1>1. ASSUME NEW d \in Execs, Executing(d) PROVE Won(e, g)' <=> Won(e, g)
  <2>1. ASSUME NEW o \in Owners, NEW h \in Grants, ExecBegin(d, o, h)
        PROVE  Won(e, g)' <=> Won(e, g)
    <3>1. exec'[d].claim = "running" /\ \A f \in Execs \ {d} : exec'[f] = exec[f]
      BY <2>1, Begins
    <3>2. exec[d].claim # "won"
      BY <2>1 DEF ExecBegin, Phased
    <3> QED BY <3>1, <3>2 DEF Won
  <2>2. CASE Cancel(d)
    BY <2>2, Cancels DEF Moved, Won
  <2>3. CASE ClaimFails(d)
    BY <2>3, Moves DEF Moved, Won, ClaimFails
  <2>4. ASSUME NEW x \in Replies, Reply(d, x) PROVE Won(e, g)' <=> Won(e, g)
    BY <2>4, Moves DEF Moved, Won
  <2>5. CASE GiveUp(d) \/ Take(d) \/ TakeFails(d) \/ Send(d)
    BY <2>5, Moves DEF Moved, Won
  <2>6. CASE ExchangeFails(d) \/ Settled(d) \/ CleanUp(d) \/ Finish(d) \/ FinishFails(d)
    BY <2>6, Moves DEF Moved, Won
  <2> QED BY <1>1, <2>1, <2>2, <2>3, <2>4, <2>5, <2>6 DEF Executing, Advance
<1>2. ASSUME NEW o \in Owners, Crash(o) PROVE Won(e, g)' <=> Won(e, g)
  BY <1>2, Crashes DEF Won
<1>3. CASE exec' = exec
  BY <1>3 DEF Won
<1>4. ASSUME NEW o \in Owners, Maintaining(o), ~Crash(o) PROVE exec' = exec
  BY <1>4 DEF Maintaining, Sweep, Start, Close
<1>5. ASSUME NEW h \in Grants, Approving(h) \/ Revoking(h) \/ RestoreRow(h) PROVE exec' = exec
  BY <1>5 DEF Approving, ApproveSeal, ApproveAdd, ApproveFails, Revoking, Revoke, RevokeDiscards,
     RestoreRow
<1> QED BY <1>1, <1>2, <1>3, <1>4, <1>5 DEF Next, Tick, vars

LEMMA SameWinners ==
  ASSUME \A e \in Execs, g \in Grants : Won(e, g)' <=> Won(e, g)
  PROVE  UNCHANGED [g \in Grants |-> Winners(g)]
<1>1. ASSUME NEW g \in Grants PROVE Winners(g)' = Winners(g)
  BY DEF Winners, Won
<1> QED BY <1>1

LEMMA NoneMoves ==
  ASSUME \A h \in Grants : Stage(h)' = Stage(h)
  PROVE  UNCHANGED [g \in Grants |-> Stage(g)]
  OBVIOUS

LEMMA Implements ==
  ASSUME CallInv, Unrolled, Unrolled', AllUnspoilt, AllUnspoilt', [Next]_vars
  PROVE  Authority!Next \/ UNCHANGED Shown
<1> USE DEF world, history
<1>u. \A g \in Grants : Unspoilt(g) /\ Unspoilt(g)'
  BY DEF AllUnspoilt
<1>t. TypeOK /\ (\A g \in Grants : Bound(g)) /\ (\A e \in Execs : Phased(e))
  BY DEF CallInv
\* The claim that commits is the one step that makes a winner.
<1>6. ASSUME NEW d \in Execs, ClaimCommits(d) PROVE Authority!Next
  <2>1. PICK h \in Grants : h = exec[d].grant
    BY <1>6, <1>t, Placed DEF ClaimCommits
  <2>2. /\ Pending(h)
        /\ \A g \in Grants \ {h} : ledger'[g] = ledger[g] /\ claims'[g] = claims[g]
        /\ sent' = sent /\ approval' = approval /\ claims'[h] = claims[h] + 1
    BY <1>6, <1>t, <2>1, StatesStay DEF ClaimCommits, Consumable, Pending, TypeOK
  <2>3. Stage(h) = "live" /\ claims[h] = 0 /\ sent[h] = 0
    BY <1>u, <2>1, <2>2, StageIs DEF Unspoilt
  <2>4. Stage(h)' = "spent"
    BY <1>u, <2>2, <2>3 DEF Stage, Unspoilt
  <2>5. \A g \in Grants \ {h} : Stage(g)' = Stage(g)
    BY <1>u, <2>2, SameStage DEF Pending
  <2>6. Authority!Move(h, "live", "spent")
    BY <2>1, <2>3, <2>4, <2>5, OneMoves
  <2>7. Moved(d, exec[d].pc, "won", exec[d].outcome)
    BY <1>6, <1>t, Moves
  <2>8. Winners(h)' = Winners(h) \cup {d}
    BY <2>1, <2>7 DEF Moved, Winners
  <2>9. ASSUME NEW g \in Grants \ {h} PROVE Winners(g)' = Winners(g)
    BY <2>1, <2>7 DEF Moved, Winners
  <2>10. [g \in Grants |-> Winners(g)]'
           = [[g \in Grants |-> Winners(g)] EXCEPT ![h] = @ \cup {d}]
    BY <2>1, <2>8, <2>9
  <2>11. Authority!Spend(h, d)
    BY <2>2, <2>6, <2>10 DEF Authority!Spend
  <2> QED BY <2>1, <2>11 DEF Authority!Next
<1> SUFFICES ASSUME \A d \in Execs : ~ClaimCommits(d)
             PROVE  Authority!Next \/ UNCHANGED Shown
  BY <1>6
<1>w. UNCHANGED [g \in Grants |-> Winners(g)]
  BY <1>t, WinnersStay, SameWinners
\* The steps that leave the counts and the approvals alone, and every pending row.
<1>1. ASSUME sent' = sent, claims' = claims,
             \A g \in Grants : approval'[g] = "added" <=> approval[g] = "added",
             \A g \in Grants : Pending(g)' <=> Pending(g)
      PROVE  UNCHANGED Shown
  <2>1. UNCHANGED [g \in Grants |-> Stage(g)]
    BY <1>1, <1>u, SameStage, NoneMoves
  <2> QED BY <1>1, <1>w, <2>1 DEF Shown
<1>2. ASSUME NEW h \in Grants, NEW o \in Owners, NEW t \in Tenants, NEW ttl \in 1..MaxTtl,
             ApproveSeal(h, o, t, ttl)
      PROVE  UNCHANGED Shown
  BY <1>1, <1>2, <1>t DEF ApproveSeal, Pending, TypeOK
<1>3. ASSUME NEW h \in Grants, ApproveFails(h)
      PROVE  UNCHANGED Shown
  BY <1>1, <1>3, <1>t DEF ApproveFails, Pending, TypeOK
<1>4. ASSUME NEW h \in Grants, ApproveAdd(h) PROVE Authority!Next
  <2> DEFINE purged == {g \in Grants : Stage(g) = "live" /\ g \notin Kept}
  <2>1. sent' = sent /\ claims' = claims /\ approval[h] = "sealed" /\ approval'[h] = "added"
        /\ \A g \in Grants \ {h} : approval'[g] = approval[g]
    BY <1>4, <1>t DEF ApproveAdd, TypeOK
  <2>2. ledger[h] = None
    BY <1>t, <2>1 DEF Bound
  <2>3. \A e \in Execs : ~Won(e, h)
    BY <1>t, <2>1 DEF Bound, Serves, Won, Phased
  <2>4. claims[h] = 0 /\ sent[h] = 0
    BY <2>3 DEF CallInv, Settles, Unrolled
  <2>5. Stage(h) = "new"
    BY <1>u, <2>1, <2>4, StageIs
  <2>6. ledger'[h] = [state |-> "pending", receipt |-> None]
    BY <1>4, <2>2 DEF ApproveAdd, Kept
  <2>7. [state |-> "pending", receipt |-> None] \in Rows
    BY DEF Rows
  <2>8. Stage(h)' = "live"
    BY <1>u, <2>1, <2>4, <2>6, <2>7, NoneAssumption DEF Stage, Pending
  <2>9. ASSUME NEW g \in Grants \ {h}, g \in purged PROVE Stage(g)' = "void"
    <3>1. claims[g] = 0 /\ sent[g] = 0 /\ approval[g] = "added"
      BY <1>u, <2>9, StageIs DEF Unspoilt
    <3>2. ledger'[g] = None
      BY <1>4, <2>9 DEF ApproveAdd
    <3> QED BY <2>1, <3>1, <3>2 DEF Stage
  <2>10. ASSUME NEW g \in Grants \ {h}, g \notin purged PROVE Stage(g)' = Stage(g)
    <3>1. CASE g \in Kept
      <4>1. Pending(g)' <=> Pending(g)
        BY <1>4, <2>10, <3>1 DEF ApproveAdd, Pending
      <4> QED BY <1>u, <2>1, <4>1, SameStage
    <3>2. CASE g \notin Kept
      <4>1. Stage(g) # "live"
        BY <2>10, <3>2
      <4>2. claims[g] = 0 => ~Pending(g)
        BY <1>u, <4>1, StageIs DEF Unspoilt
      <4>3. ~Pending(g)'
        BY <1>4, <3>2 DEF ApproveAdd, Pending
      <4> QED BY <1>u, <2>1, <4>2, <4>3, SameStage
    <3> QED BY <3>1, <3>2
  <2>11. purged \in SUBSET (Grants \ {h}) /\ \A g \in purged : Stage(g) = "live"
    BY <2>5
  <2>12. [g \in Grants |-> Stage(g)]'
           = [g \in Grants |-> CASE g = h -> "live" [] g \in purged -> "void" [] OTHER -> Stage(g)]
    <3> SUFFICES ASSUME NEW g \in Grants
                 PROVE  Stage(g)' = CASE g = h -> "live" [] g \in purged -> "void" [] OTHER -> Stage(g)
      OBVIOUS
    <3>1. CASE g = h
      BY <2>5, <2>8, <3>1
    <3>2. CASE g # h /\ g \in purged
      BY <2>9, <3>2
    <3>3. CASE g # h /\ g \notin purged
      BY <2>10, <3>3
    <3> QED BY <3>1, <3>2, <3>3
  <2>13. Authority!Issue(h, purged)
    <3> HIDE DEF purged
    <3> QED BY <1>w, <2>1, <2>5, <2>11, <2>12 DEF Authority!Issue
  <2> QED BY <2>11, <2>13 DEF Authority!Next
<1>5. ASSUME NEW h \in Grants, NEW o \in Owners, Revoke(h, o)
      PROVE  Authority!Next
  <2>1. /\ Pending(h) /\ ledger'[h].state = "revoked"
        /\ \A g \in Grants \ {h} : ledger'[g] = ledger[g]
        /\ sent' = sent /\ claims' = claims /\ approval' = approval
    BY <1>5, <1>t, StatesStay DEF Revoke, Revocable, Pending
  <2>2. Stage(h) = "live"
    BY <1>u, <2>1, StageIs DEF Unspoilt
  <2>3. Stage(h)' = "void"
    BY <1>u, <2>1 DEF Unspoilt, Stage
  <2>4. \A g \in Grants \ {h} : Stage(g)' = Stage(g)
    BY <1>u, <2>1, SameStage DEF Pending
  <2>5. Authority!Move(h, "live", "void")
    BY <2>2, <2>3, <2>4, OneMoves
  <2> QED BY <1>w, <2>1, <2>5 DEF Authority!Next, Authority!Void
<1>7. ASSUME NEW d \in Execs, Send(d) PROVE Authority!Next
  <2>1. PICK h \in Grants : h = exec[d].grant
    BY <1>7, <1>t, Placed DEF Send
  <2>2. Won(d, h)
    BY <1>7, <1>t, <2>1 DEF Send, Phased, Won
  <2>3. sent[h] = 0 /\ claims[h] > 0
    BY <1>7, <2>1, <2>2 DEF Send, CallInv, Settles, Unrolled
  <2>4. /\ \A g \in Grants \ {h} : sent'[g] = sent[g]
        /\ sent'[h] = 1 /\ sent' = [sent EXCEPT ![h] = @ + 1] /\ claims' = claims /\ approval' = approval /\ ledger' = ledger
    BY <1>7, <1>t, <2>1, <2>3 DEF Send, TypeOK
  <2>5. Stage(h) = "spent" /\ Stage(h)' = "used"
    <3>1. Stage(h) = "spent"
      BY <2>3 DEF Stage
    <3>2. Stage(h)' = "used"
      BY <2>4, <2>3 DEF Stage
    <3> QED BY <3>1, <3>2
  <2>6. \A g \in Grants \ {h} : Stage(g)' = Stage(g)
    BY <1>u, <2>4, SameStage DEF Pending
  <2>7. Authority!Move(h, "spent", "used")
    BY <2>1, <2>5, <2>6, OneMoves
  <2>8. d \in Winners(h)
    BY <2>2 DEF Won, Winners
  <2> QED BY <1>w, <2>1, <2>4, <2>7, <2>8 DEF Authority!Next, Authority!Use
<1>8. ASSUME NEW d \in Execs, Finish(d) PROVE UNCHANGED Shown
  <2>1. exec[d].outcome \in Outcomes /\ exec[d].grant \in Grants
    BY <1>8, <1>t, Placed DEF TypeOK, Coroutines, Finish
  <2>2. \A g \in Grants : Pending(g)' <=> Pending(g)
    BY <1>8, <1>t, <2>1, ReceiptsStay DEF Finish, HasConsumedRow, Pending
  <2> QED BY <1>1, <1>8, <2>2 DEF Finish
<1>9. ASSUME NEW d \in Execs, Executing(d), ~Send(d), ~Finish(d)
      PROVE  UNCHANGED Shown
  BY <1>1, <1>9 DEF Executing, Advance, ExecBegin, ClaimFails, GiveUp, Take, TakeFails, Reply,
     ExchangeFails, Cancel, Settled, CleanUp, FinishFails, Pending
<1>10. ASSUME NEW o \in Owners, Maintaining(o) PROVE UNCHANGED Shown
  <2>1. /\ sent' = sent /\ claims' = claims /\ ledger' = ledger
        /\ \A g \in Grants : approval'[g] = "added" <=> approval[g] = "added"
    BY <1>10 DEF Maintaining, Sweep, Start, Close, Crash
  <2> QED BY <1>1, <2>1 DEF Pending
<1>11. ASSUME NEW h \in Grants, RevokeDiscards(h) PROVE UNCHANGED Shown
  BY <1>1, <1>11 DEF RevokeDiscards, Pending
<1>12. ASSUME NEW h \in Grants PROVE ~RestoreRow(h)
  BY DEF RestoreRow, Unrolled
<1>13. CASE Tick \/ UNCHANGED vars
  BY <1>1, <1>13 DEF Tick, vars, Pending
<1> QED
  BY <1>2, <1>3, <1>4, <1>5, <1>7, <1>8, <1>9, <1>10, <1>11, <1>12, <1>13
     DEF Next, Approving, Revoking

\* With no ledger rollback every behaviour of the service is one of the one-use
\* authority: a grant is issued, then voided or won by a single execution, and the
\* request leaves at most once, by the hand of the execution that won.
THEOREM CallsAreOneUse == ASSUME NoRollback PROVE Spec => ImplementsOneUse
<1>1. Init => Authority!Init
  <2>1. ASSUME Init, NEW g \in Grants PROVE Stage(g) = "new" /\ Winners(g) = {}
    BY <2>1 DEF Init, Stage, Winners, Idle
  <2> QED BY <2>1 DEF Init, Authority!Init
<1>2. CallInv /\ Unrolled => AllUnspoilt
  BY SettledIsUnspoilt DEF AllUnspoilt
<1>3. CallInv /\ Unrolled /\ Unrolled' /\ AllUnspoilt /\ AllUnspoilt' /\ [Next]_vars
        => [Authority!Next]_(Authority!authority)
  BY Implements DEF Shown, Authority!authority
<1>4. Spec => Authority!Spec
  BY <1>1, <1>2, <1>3, CallsInvariant, UnrolledAlways, PTL DEF Spec, Authority!Spec
<1> QED BY <1>4 DEF ImplementsOneUse

================================================================================
