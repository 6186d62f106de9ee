----------------------------- MODULE CalendarCalls -----------------------------
(***************************************************************************)
(* One approved Google Calendar call, from approval to receipt: the SQLite *)
(* ledger (call_ledger.py), the process-local credential custody           *)
(* (ephemeral.py), the service that drives both (calendar_calls.py) and    *)
(* the cancellation-proof wait of completion.py.                           *)
(*                                                                         *)
(* Several broker processes may share one ledger file; each process start  *)
(* draws a fresh custody owner, so an owner here is one process lifetime.  *)
(* Every ledger operation is one BEGIN IMMEDIATE transaction and every     *)
(* custody operation holds one lock, so each is one step; whatever runs    *)
(* between two of them is a separate step, and a crash or a cancellation   *)
(* may fall there.                                                         *)
(***************************************************************************)
EXTENDS Integers, FiniteSets

CONSTANTS
  Grants,            \* uuid4 grant ids
  Execs,             \* execute() requests, each served by one coroutine
  Owners,            \* process lifetimes (custody_owner uuids)
  Tenants,
  None,
  MaxTime,           \* bound on the clock
  MaxTtl,            \* 300 s in calendar_calls.py
  MaxCustody,        \* 64, EphemeralSecrets.max_pending
  MaxRows,           \* 1000 ledger rows
  MaxTenantPending,  \* 16 pending rows per tenant
  MaxRestores,       \* bound on out-of-band ledger rollbacks
  DatabaseFaults     \* may a transaction fail and roll back?

ASSUME ConstantsAssumption ==
  /\ MaxTime \in Nat /\ MaxTtl \in Nat \ {0}
  /\ MaxCustody \in Nat \ {0} /\ MaxRows \in Nat \ {0}
  /\ MaxTenantPending \in Nat \ {0} /\ MaxRestores \in Nat
  /\ DatabaseFaults \in BOOLEAN
  /\ None \notin Owners

VARIABLES
  now,       \* time.time(), in whole ticks
  process,   \* what each process lifetime is doing
  meta,      \* approved metadata of a grant; the rest of its contract is abstract
  approval,  \* progress of the approve() call that created the grant
  ledger,    \* the calendar_calls row of a grant, None when there is none
  custody,   \* EphemeralSecrets._entries of each process
  exec,      \* the execute() coroutines
  revoking,  \* grants whose revoke() committed but has not discarded yet
  sent,      \* HISTORY: requests that left for the provider, per grant
  claims,    \* HISTORY: committed pending -> consumed transitions
  restores   \* bounded count of ledger rollbacks

vars == <<now, process, meta, approval, ledger, custody, exec, revoking, sent,
          claims, restores>>
world == <<now, process, meta>>
history == <<sent, claims, restores>>

Replies == {"provider_rejected", "invalid_provider_response", "confirmed"}
Outcomes == {"not_dispatched", "unknown"} \cup Replies
Metadata == [owner : Owners, tenant : Tenants, expires : Nat]
Rows == [state : {"pending", "consumed", "revoked"}, receipt : Outcomes \cup {None}]
ASSUME NoneAssumption == None \notin Rows \cup Metadata
Phases == {"idle", "claiming", "settling", "exchanging", "awaiting", "cleaning",
           "finishing", "done", "dead"}
Coroutines == [pc : Phases, owner : Owners \cup {None}, grant : Grants \cup {None},
               claim : {"none", "running", "won", "lost"}, outcome : Outcomes]
Idle == [pc |-> "idle", owner |-> None, grant |-> None, claim |-> "none",
         outcome |-> "not_dispatched"]

Running(o) == process[o] \in {"up", "closed"}

\* FAULT: expiry is only looked at when an entry is used, never swept.
FaultUnexpired(o) == custody[o]

\* _prune_locked: every custody operation first drops what has expired.
Unexpired(o) == {g \in custody[o] : meta[g].expires > now}

\* FAULT: the lookup leaves the entry where it is.
FaultDiscarded(o, g) == [custody EXCEPT ![o] = Unexpired(o)]

\* discard(): works on a closed store too, and on a grant it does not hold.
Discarded(o, g) == [custody EXCEPT ![o] = Unexpired(o) \ {g}]

--------------------------------------------------------------------------------
(* Approval: calendar_calls.approve, running in a worker thread. *)

\* Quota and capacity refusals of seal() change nothing but the prune, which
\* Sweep covers; a grant id that was refused is never used again.
ApproveSeal(g, o, t, ttl) ==
  /\ approval[g] = "new"
  /\ process[o] = "up"
  /\ now + ttl <= MaxTime          \* bound: the clock can reach every expiry
  /\ Cardinality(Unexpired(o)) < MaxCustody
  /\ meta' = [meta EXCEPT ![g] = [owner |-> o, tenant |-> t, expires |-> now + ttl]]
  /\ custody' = [custody EXCEPT ![o] = Unexpired(o) \cup {g}]
  /\ approval' = [approval EXCEPT ![g] = "sealed"]
  /\ UNCHANGED <<now, process, ledger, exec, revoking, history>>

\* Rows that survive the DELETE at the head of CallLedger.add.
Kept == {h \in Grants : ledger[h] # None /\ meta[h].expires >= now}
PendingOf(t) == {h \in Kept : meta[h].tenant = t /\ ledger[h].state = "pending"}
\* FAULT: both limits off by one.
FaultHasRoom(g) ==
  /\ Cardinality(Kept) <= MaxRows
  /\ Cardinality(PendingOf(meta[g].tenant)) <= MaxTenantPending
HasRoom(g) ==
  /\ Cardinality(Kept) < MaxRows
  /\ Cardinality(PendingOf(meta[g].tenant)) < MaxTenantPending

\* The purge and the insert are one transaction; a refusal rolls both back.
ApproveAdd(g) ==
  /\ approval[g] = "sealed"
  /\ HasRoom(g)
  /\ ledger' = [h \in Grants |->
                  CASE h = g       -> [state |-> "pending", receipt |-> None]
                    [] h \in Kept  -> ledger[h]
                    [] OTHER       -> None]
  /\ approval' = [approval EXCEPT ![g] = "added"]
  /\ UNCHANGED <<world, custody, exec, revoking, history>>

ApproveFails(g) ==
  /\ approval[g] = "sealed"
  /\ ~HasRoom(g) \/ DatabaseFaults
  /\ custody' = Discarded(meta[g].owner, g)
  /\ approval' = [approval EXCEPT ![g] = "failed"]
  /\ UNCHANGED <<world, ledger, exec, revoking, history>>

--------------------------------------------------------------------------------
(* Execution: the execute() coroutine and its two worker-thread tasks. *)

\* FAULT: any process on the ledger file serves the grant.
FaultExecutable(o, g) == ledger[g] # None /\ meta[g].expires > now
Executable(o, g) ==
  /\ ledger[g] # None
  /\ meta[g].owner = o
  /\ meta[g].expires > now

\* Lookup, owner check, contract hash and Gate authentication. A request for
\* another call, channel, tenant or owner is refused and changes nothing; what
\* may change before the claim (state, expiry) the claim checks again.
ExecBegin(e, o, g) ==
  /\ exec[e].pc = "idle"
  /\ Running(o)
  /\ Executable(o, g)
  /\ exec' = [exec EXCEPT ![e] = [Idle EXCEPT !.pc = "claiming", !.owner = o,
                                              !.grant = g, !.claim = "running"]]
  /\ UNCHANGED <<world, approval, ledger, custody, revoking, history>>

\* FAULT: the claim forgets to look at the state of the row.
FaultConsumable(g) == ledger[g] # None /\ meta[g].expires > now

Consumable(g) ==
  /\ ledger[g] # None
  /\ ledger[g].state = "pending"
  /\ meta[g].expires > now

\* CallLedger.consume commits; the coroutine may already be cancelled.
ClaimCommits(e) ==
  LET g == exec[e].grant IN
  /\ exec[e].claim = "running"
  /\ exec[e].pc \in {"claiming", "settling"}
  /\ Consumable(g)
  /\ ledger' = [ledger EXCEPT ![g].state = "consumed"]
  /\ exec' = [exec EXCEPT ![e].claim = "won"]
  /\ claims' = [claims EXCEPT ![g] = @ + 1]
  /\ UNCHANGED <<world, approval, custody, revoking, sent, restores>>

ClaimFails(e) ==
  /\ exec[e].claim = "running"
  /\ exec[e].pc \in {"claiming", "settling"}
  /\ ~Consumable(exec[e].grant) \/ DatabaseFaults
  /\ exec' = [exec EXCEPT ![e].claim = "lost"]
  /\ UNCHANGED <<world, approval, ledger, custody, revoking, history>>

\* A lost claim: nothing was consumed, so nothing is destroyed or signed.
GiveUp(e) ==
  /\ exec[e].pc \in {"claiming", "settling"}
  /\ exec[e].claim = "lost"
  /\ exec' = [exec EXCEPT ![e].pc = "done"]
  /\ UNCHANGED <<world, approval, ledger, custody, revoking, history>>

\* EphemeralSecrets.take pops the entry before it decrypts.
Take(e) ==
  LET g == exec[e].grant
      o == exec[e].owner IN
  /\ exec[e].pc = "claiming"
  /\ exec[e].claim = "won"
  /\ process[o] = "up"
  /\ g \in Unexpired(o)
  /\ custody' = Discarded(o, g)
  /\ exec' = [exec EXCEPT ![e] = [@ EXCEPT !.pc = "exchanging", !.outcome = "unknown"]]
  /\ UNCHANGED <<world, approval, ledger, revoking, history>>

\* Closed, expired between claim and take, or no entry: the call is burnt.
TakeFails(e) ==
  LET g == exec[e].grant
      o == exec[e].owner IN
  /\ exec[e].pc = "claiming"
  /\ exec[e].claim = "won"
  /\ process[o] = "closed" \/ g \notin Unexpired(o)
  /\ custody' = [custody EXCEPT ![o] = Unexpired(o)]
  /\ exec' = [exec EXCEPT ![e].pc = "cleaning"]
  /\ UNCHANGED <<world, approval, ledger, revoking, history>>

\* Broker.exchange writes the request; from here the provider may act on it.
Send(e) ==
  LET g == exec[e].grant IN
  /\ exec[e].pc = "exchanging"
  /\ exec' = [exec EXCEPT ![e].pc = "awaiting"]
  /\ sent' = [sent EXCEPT ![g] = @ + 1]
  /\ UNCHANGED <<world, approval, ledger, custody, revoking, claims, restores>>

Reply(e, outcome) ==
  /\ exec[e].pc = "awaiting"
  /\ exec' = [exec EXCEPT ![e] = [@ EXCEPT !.pc = "cleaning", !.outcome = outcome]]
  /\ UNCHANGED <<world, approval, ledger, custody, revoking, history>>

\* Timeout, transport error or a blocked answer, whether or not the request left.
ExchangeFails(e) ==
  /\ exec[e].pc \in {"exchanging", "awaiting"}
  /\ exec' = [exec EXCEPT ![e].pc = "cleaning"]
  /\ UNCHANGED <<world, approval, ledger, custody, revoking, history>>

\* The client leaves or the response deadline passes. While the claim runs the
\* coroutine must wait for its verdict; later waits remember the cancellation
\* and go on (completion.settle), which changes no state modelled here.
Cancel(e) ==
  /\ exec[e].pc \in {"claiming", "exchanging", "awaiting"}
  /\ exec' = [exec EXCEPT ![e].pc = IF @ = "claiming" THEN "settling" ELSE "cleaning"]
  /\ UNCHANGED <<world, approval, ledger, custody, revoking, history>>

\* FAULT: a cancelled coroutine does not wait for the claim it started.
FaultSettled(e) ==
  /\ exec[e].pc = "settling"
  /\ exec[e].claim = "won"
  /\ exec' = [exec EXCEPT ![e].pc = "done"]
  /\ UNCHANGED <<world, approval, ledger, custody, revoking, history>>

\* The cancelled claim had committed after all: clean up as if executed.
Settled(e) ==
  /\ exec[e].pc = "settling"
  /\ exec[e].claim = "won"
  /\ exec' = [exec EXCEPT ![e].pc = "cleaning"]
  /\ UNCHANGED <<world, approval, ledger, custody, revoking, history>>

\* secrets.discard and the signature: no await between them.
CleanUp(e) ==
  /\ exec[e].pc = "cleaning"
  /\ custody' = Discarded(exec[e].owner, exec[e].grant)
  /\ exec' = [exec EXCEPT ![e].pc = "finishing"]
  /\ UNCHANGED <<world, approval, ledger, revoking, history>>

HasConsumedRow(g) == ledger[g] # None /\ ledger[g].state = "consumed"

\* CallLedger.finish stores the signed receipt.
Finish(e) ==
  LET g == exec[e].grant IN
  /\ exec[e].pc = "finishing"
  /\ HasConsumedRow(g)
  /\ ledger' = [ledger EXCEPT ![g].receipt = exec[e].outcome]
  /\ exec' = [exec EXCEPT ![e].pc = "done"]
  /\ UNCHANGED <<world, approval, custody, revoking, history>>

\* The row is gone or the transaction fails: the receipt is lost for good.
FinishFails(e) ==
  /\ exec[e].pc = "finishing"
  /\ ~HasConsumedRow(exec[e].grant) \/ DatabaseFaults
  /\ exec' = [exec EXCEPT ![e].pc = "done"]
  /\ UNCHANGED <<world, approval, ledger, custody, revoking, history>>

--------------------------------------------------------------------------------
(* Revocation, custody maintenance and process lifetimes. *)

\* FAULT: a consumed row can be revoked while its call is in flight.
FaultRevocable(g, o) == ledger[g] # None /\ meta[g].owner = o
Revocable(g, o) ==
  /\ ledger[g] # None
  /\ meta[g].owner = o
  /\ ledger[g].state = "pending"

\* The ledger decides; the custody entry is discarded by a later step.
Revoke(g, o) ==
  /\ Running(o)
  /\ Revocable(g, o)
  /\ ledger' = [ledger EXCEPT ![g].state = "revoked"]
  /\ revoking' = revoking \cup {g}
  /\ UNCHANGED <<world, approval, custody, exec, history>>

RevokeDiscards(g) ==
  /\ g \in revoking
  /\ custody' = Discarded(meta[g].owner, g)
  /\ revoking' = revoking \ {g}
  /\ UNCHANGED <<world, approval, ledger, exec, history>>

\* The once-per-second task of api.py; it is cancelled before close().
Sweep(o) ==
  /\ process[o] = "up"
  /\ custody[o] # Unexpired(o)
  /\ custody' = [custody EXCEPT ![o] = Unexpired(o)]
  /\ UNCHANGED <<world, approval, ledger, exec, revoking, history>>

Start(o) ==
  /\ process[o] = "unborn"
  /\ process' = [process EXCEPT ![o] = "up"]
  /\ UNCHANGED <<now, meta, approval, ledger, custody, exec, revoking, history>>

\* EphemeralSecrets.close at shutdown; requests in flight still finish.
Close(o) ==
  /\ process[o] = "up"
  /\ process' = [process EXCEPT ![o] = "closed"]
  /\ custody' = [custody EXCEPT ![o] = {}]
  /\ UNCHANGED <<now, meta, approval, ledger, exec, revoking, history>>

\* Memory is lost; the ledger file and what already left for the provider stay.
Crash(o) ==
  /\ Running(o)
  /\ process' = [process EXCEPT ![o] = "down"]
  /\ custody' = [custody EXCEPT ![o] = {}]
  /\ exec' = [e \in Execs |->
                IF exec[e].owner = o /\ exec[e].pc \notin {"idle", "done"}
                  THEN [exec[e] EXCEPT !.pc = "dead"] ELSE exec[e]]
  /\ approval' = [g \in Grants |->
                    IF approval[g] = "sealed" /\ meta[g].owner = o
                      THEN "failed" ELSE approval[g]]
  /\ revoking' = {g \in revoking : meta[g].owner # o}
  /\ UNCHANGED <<now, meta, ledger, history>>

\* An operator restores an old copy of the row, as the rollback test does.
RestoreRow(g) ==
  /\ restores < MaxRestores
  /\ approval[g] = "added"
  /\ ledger' = [ledger EXCEPT ![g] = [state |-> "pending", receipt |-> None]]
  /\ restores' = restores + 1
  /\ UNCHANGED <<world, approval, custody, exec, revoking, sent, claims>>

Tick ==
  /\ now < MaxTime
  /\ now' = now + 1
  /\ UNCHANGED <<process, meta, approval, ledger, custody, exec, revoking, history>>

--------------------------------------------------------------------------------
Init ==
  /\ now = 0
  /\ process = [o \in Owners |-> "unborn"]
  /\ meta = [g \in Grants |-> None]
  /\ approval = [g \in Grants |-> "new"]
  /\ ledger = [g \in Grants |-> None]
  /\ custody = [o \in Owners |-> {}]
  /\ exec = [e \in Execs |-> Idle]
  /\ revoking = {}
  /\ sent = [g \in Grants |-> 0]
  /\ claims = [g \in Grants |-> 0]
  /\ restores = 0

Approving(g) ==
  \/ \E o \in Owners, t \in Tenants, ttl \in 1..MaxTtl : ApproveSeal(g, o, t, ttl)
  \/ ApproveAdd(g)
  \/ ApproveFails(g)

\* The steps a coroutine and its worker threads take by themselves.
Advance(e) ==
  \/ ClaimCommits(e)
  \/ ClaimFails(e)
  \/ GiveUp(e)
  \/ Take(e)
  \/ TakeFails(e)
  \/ ExchangeFails(e)
  \/ Settled(e)
  \/ CleanUp(e)
  \/ Finish(e)
  \/ FinishFails(e)

Executing(e) ==
  \/ \E o \in Owners, g \in Grants : ExecBegin(e, o, g)
  \/ Advance(e)
  \/ Send(e)
  \/ \E outcome \in Replies : Reply(e, outcome)
  \/ Cancel(e)

Maintaining(o) == Sweep(o) \/ Start(o) \/ Close(o) \/ Crash(o)

Revoking(g) == (\E o \in Owners : Revoke(g, o)) \/ RevokeDiscards(g)

Next ==
  \/ \E g \in Grants : Approving(g) \/ Revoking(g) \/ RestoreRow(g)
  \/ \E e \in Execs : Executing(e)
  \/ \E o \in Owners : Maintaining(o)
  \/ Tick

Spec == Init /\ [][Next]_vars

\* Worker threads finish, the 20 s exchange timeout ends a silent exchange
\* (Advance includes ExchangeFails), time passes, and the sweep task runs.
Fairness ==
  /\ \A e \in Execs : WF_vars(Advance(e))
  /\ \A g \in Grants : WF_vars(ApproveAdd(g) \/ ApproveFails(g))
  /\ \A g \in Grants : WF_vars(RevokeDiscards(g))
  /\ \A o \in Owners : WF_vars(Sweep(o))
  /\ WF_vars(Tick)

FairSpec == Spec /\ Fairness

--------------------------------------------------------------------------------
(* Properties. *)

\* Every variable keeps its type.
TypeOK ==
  /\ now \in Nat
  /\ process \in [Owners -> {"unborn", "up", "closed", "down"}]
  /\ meta \in [Grants -> Metadata \cup {None}]
  /\ approval \in [Grants -> {"new", "sealed", "added", "failed"}]
  /\ ledger \in [Grants -> Rows \cup {None}]
  /\ custody \in [Owners -> SUBSET Grants]
  /\ exec \in [Execs -> Coroutines]
  /\ \A e \in Execs : exec[e].pc # "idle" => /\ exec[e].owner \in Owners
                                           /\ exec[e].grant \in Grants
  /\ revoking \in SUBSET Grants
  /\ sent \in [Grants -> Nat]
  /\ claims \in [Grants -> Nat]
  /\ restores \in Nat

\* The provider sees the approved request at most once, whatever is cancelled,
\* retried, restarted or rolled back in the ledger: the row and the custody
\* entry are two independent one-use barriers, and either alone suffices.
OneDispatch == \A g \in Grants : sent[g] <= 1

\* A credential in custody has a reason to be there: its approval is being
\* recorded, its row is pending, the call that won it is about to pop or discard
\* it, a committed revoke is about to discard it, or its expiry passed and the
\* next operation or sweep drops it. No failed or lost path leaks one.
Accounted(g) ==
  \/ approval[g] = "sealed"
  \/ ledger[g] # None /\ ledger[g].state = "pending"
  \/ g \in revoking
  \/ \E e \in Execs : /\ exec[e].grant = g
                      /\ exec[e].claim = "won"
                      /\ exec[e].pc \in {"claiming", "settling", "cleaning"}
  \/ meta[g].expires <= now
CustodyAccounted == \A o \in Owners : \A g \in custody[o] : Accounted(g)

\* Until a ledger rollback, a stored receipt tells the truth: the credential is in
\* no process's custody, "not_dispatched" means the request never left, and a
\* provider verdict means it left exactly once. ("unknown" may be either.)
ReceiptTruthful ==
  \A g \in Grants :
    (restores = 0 /\ ledger[g] # None /\ ledger[g].receipt # None) =>
      /\ \A o \in Owners : g \notin custody[o]
      /\ ledger[g].receipt = "not_dispatched" => sent[g] = 0
      /\ ledger[g].receipt \in Replies => sent[g] = 1

\* Until a ledger rollback, a request leaves only while its row durably says
\* consumed (or expired and was cleared away), so a revoke that was granted is
\* never followed by a dispatch, and an answered revoke excludes the effect.
DispatchFollowsConsumption ==
  [][\A g \in Grants : restores' = 0 /\ sent'[g] # sent[g] =>
       \/ HasConsumedRow(g)
       \/ ledger[g] = None /\ meta[g].expires < now]_vars

\* Until a ledger rollback, the limits hold together: custody per process, rows in
\* all, and pending rows per tenant, although they are checked in different places.
LimitsHold ==
  restores = 0 =>
  /\ \A o \in Owners : Cardinality(custody[o]) <= MaxCustody
  /\ Cardinality({g \in Grants : ledger[g] # None}) <= MaxRows
  /\ \A t \in Tenants :
       Cardinality({g \in Grants : /\ ledger[g] # None
                                   /\ ledger[g].state = "pending"
                                   /\ meta[g].tenant = t}) <= MaxTenantPending

\* Without database faults, a call that won its claim ends with a stored receipt
\* unless its process dies or the row expires and is cleared away first.
ConsumedCallSettles ==
  \A e \in Execs :
    exec[e].claim = "won" ~>
      \/ exec[e].pc = "dead"
      \/ exec[e].pc = "done" /\ \/ ledger[exec[e].grant] = None
                                \/ ledger[exec[e].grant].receipt # None

\* No credential stays in memory for ever: used, revoked, expired or lost, it goes.
CredentialDestroyed ==
  \A o \in Owners, g \in Grants : g \in custody[o] ~> g \notin custody[o]

--------------------------------------------------------------------------------
(* The service implements the one-use authority. *)

Stage(g) ==
  CASE sent[g] > 0                                      -> "used"
    [] sent[g] = 0 /\ claims[g] > 0                     -> "spent"
    [] claims[g] = 0 /\ approval[g] # "added"           -> "new"
    [] OTHER -> IF ledger[g] # None /\ ledger[g].state = "pending"
                  THEN "live" ELSE "void"

\* The executions that were told that their claim committed.
Winners(g) == {e \in Execs : exec[e].grant = g /\ exec[e].claim = "won"}

Authority ==
  INSTANCE OneUseAuthority WITH
    Parties  <- Execs,
    stage    <- [g \in Grants |-> Stage(g)],
    spenders <- [g \in Grants |-> Winners(g)],
    uses     <- sent

\* Without ledger rollback every step of the service is a step of the abstract
\* one-use authority: a grant is issued, then voided or won by one execution; the
\* request leaves once and only by the hand of that execution.  A second winner or a
\* second dispatch, of whatever execution or process, is a step it does not have.
ImplementsOneUse == Authority!Spec

================================================================================
