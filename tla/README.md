# Schemen Gate in TLA+

This directory holds a TLA+ model of the parts of this repository that keep state
and promise something about it, the TLC configurations that check the model on
small instances, and proofs, checked by TLAPS, that the most important promises
hold for every value of the constants. It is written from the code at this commit.
Where a document or a test says something else than the code does, the model
follows the code and a run shows the difference (see *Findings*).

Paths below are relative to the repository. `services/credential-broker/src/credential_broker`
is abbreviated `broker/` and `src/schemen_gate` is abbreviated `gate/`.

## The system

The services and the library share one idea: *an exact operation is approved
once, is executed at most once, and leaves a receipt that tells the truth.* Beside them
stand the experiments that measure how well regimes of one model are separated, and
the tooling that repeats them and judges their artifacts.

| Part | Code | State it keeps | Operations | What is hard |
|---|---|---|---|---|
| Calendar one-off calls | `broker/calendar_calls.py`, `call_ledger.py`, `ephemeral.py`, `completion.py`, `calendar_api.py`, `api.py` | SQLite rows (pending, consumed, revoked, receipt); credentials in memory, per process | approve, execute, revoke, read a receipt, sweep, shutdown | cancellation while a worker thread commits; crash between claim and receipt; a restored ledger file; two processes on one file; limits checked in several places |
| Delegated authorization | `broker/delegation/` | SQLite requests, replay table, outbox; the caller's own inbox | request, review, approve, deny, revoke, callback, token, execute, result | lost and repeated messages; three expiries; a replay table that forgets; checks made before the lock; races of executions |
| Exact-operation gates | `gate/_operation_gate.py` | the one-use ledger of a verifier, in memory; the caller's file of receipts | issue, issue sub-gate, redeem, restore | restarts; order of the retained history; expiry at replay; lineages of sub-gates |
| Cargo Mode | `gate/_cargo.py`, `_cargo_impl.py` | docked manifests, live sessions; documents in the vector store | dock, load, unload, reissue, depart, verify | concurrent docks; stores that fail or answer late; expiry on the way; restarts |
| Partition map and retrieval | `gate/_rag.py`, `_rag_stores.py`, `_rag_arch.py` | partition bindings, per process; the vector stores | register, ingest, ingest many, ingest weights, query, transfer, destroy | an adapter call reads the map more than once, then calls the store; two processes on one database |
| Vault and request broker | `broker/vault.py`, `broker.py`, `models.py`, `api.py` | encrypted credentials, key check, audit ring | put, get, delete, rekey, request | a rekey seen by other processes; a write that outlives its request; a credential read and used later |
| Admission | `broker/limits.py`, `guard.py`, `json_codec.py` | slots and token buckets, in memory | authenticate, admit | slots given back on every exit |
| Delegation chains | `broker/delegation/delegation.py`, `statements.py`, `_profile.py` | none | approver, approval | chains of links must not widen the root |
| Call gate and receipts | `broker/call_gate.py`, `call_receipt.py` | none | issue, authorize, sign | binding of a call to its token |
| Gate rights | `gate/_tokens.py`, `_mask.py` | none | compose, union, complement | expiries under the algebra |
| Lockbox | `gate/_lockbox.py`, `_key_wrapping.py`, `_pkcs12.py`, `_x509_names.py` | the lockbox in the issuer's program, one YAML file, the attestation in a model file | create, seal, bind, sign, reissue, save, load, attest, verify | revocation answers that are late, partial or missing; torn files; a signed document still in hand |
| Training experiments | `research/cdp/experiments/*.py` | parameters, gradients, optimizer moments, reports | train a phase, measure, score, report | optimizer state that reaches beyond a mask; measurements taken at the wrong time; verdicts that forget one |
| Re-certification | `scripts/modal_recertify.py`, `modal_recertification.py` | stage directories, ledgers, artifacts in custody; the results directory of the checkout | execute a stage, launch a job, collect, validate | operators that overlap; launchers that outlive them; crashes; a HEAD that moves |
| Capability tokens, release identity, vector dispatch, folding, public interface, command lines | `gate/capability.py`, `_release.py`, `_vector_dispatch.py`, `_von.py`, `_row_folding.py`, `_regime0_fold.py`, `torch.py`, `_crypto.py`, `__init__.py`, `broker/cli.py` ... | none or read-only | sign, verify, score | encodings and arithmetic |

How they interact. `api.py` builds the broker application: the guard admits a
request, the Calendar service approves through a call gate (an exact-operation
gate), seals the credential in the ephemeral store, and records a row in the
ledger; executing claims the row, takes the credential and calls the broker's
exchange. The delegation service uses the same exchange for the execution of an
access token. A caller that restarts a gate verifier replays the receipts it
retained. A Cargo session works on one partition of a retrieval adapter, whose
store other sessions use at the same time. A lockbox is handed over as a file, a model as
another, and a consumer checks the two against each other. Executions of a
re-certification plan share the results directory that their launchers write into.
Processes interact through SQLite files
(every operation one `BEGIN IMMEDIATE` transaction) and through messages; threads
through one lock per object.

The full list of parts, with what is modelled of each and why the rest is not, is
`components` in `PROJECT.json`; the hazards, at their lines, are `hazards`.

## Modules

| Module | What it is |
|---|---|
| `OneUseAuthority` | The abstract promise: an authority is issued, then spent by one party or voided and never both; that party alone causes the effect, once, after it spent the authority. |
| `CalendarCalls` | The Calendar call service, detailed. Implements `OneUseAuthority`. |
| `DelegatedFlow` | Delegated authorization, service, network and caller. Implements `OneUseAuthority`. |
| `OperationGate` | Gates, sub-gates, the one-use verifier, and the caller that retains and replays receipts. |
| `CargoBus` | The bus, its sessions and receipts, over a shared store that may fail. |
| `ConnectionBroker` | Reusable connections: the endpoints, the broker and the encrypted vault that broker processes share. |
| `PartitionStore` | The partition map, the adapter and the two stores, used by threads of several processes. |
| `CertificateStatus` | A revocation check under way, the endpoints it asks, and the world that moves meanwhile. |
| `CertificatePath` | Path validation as operators over certificates: names, purposes, lengths, signatures, anchors. |
| `Lockbox` | Issuer, file, model file and consumer; EXTENDS the two certificate modules. |
| `TrainingStep` | What the training experiments share: groups of parameters, a batch, an optimizer that may leak, scores. |
| `PackedBanks`, `GatedCotraining`, `LaneTraining` | Fourteen experiments over `TrainingStep`; `LaneTraining` holds the rest of them, the specification and its properties. |
| `ContinuedTraining` | The matched adaptation experiment: models, optimizers and checkpoints that share state. |
| `Acceptance` | What a plan demands of an artifact: planned configurations, and the validators of seven experiments. |
| `Recertification` | Executions of a sealed plan, their launchers and the custody of artifacts; EXTENDS `Acceptance`. |
| `MC...` | The finite instance of a module for TLC: contents of proofs, contracts, manifests and certificates, symmetry. |
| `...Proofs` | The theorems of a module and their proofs. `GateLibraryProofs` holds those of `OperationGate` and of `PartitionStore`, the two parts of the library that keep state; so that both can be extended at once, the specification of the gates is called `GateSpec`. |

Operators whose name begins with `Fault` are plausible bugs: each is the definition
that follows it with one guard dropped or one value off. The specification never
uses them; they document which bug each property catches (`mutants`).

### CalendarCalls

State. `ledger` is the `calendar_calls` table (`None`: no row), `custody` the
entries of each process's `EphemeralSecrets`, `meta` the approved metadata that row
and entry both carry, `approval` and `exec` the program counters of `approve()` and
`execute()`, `revoking` the gap in `revoke()` between its commit and its discard,
`process` the lifetimes. `sent` and `claims` are history: what left for the provider
and which claims committed.

Steps. A ledger operation is one transaction and a custody operation holds one
lock, so each is one action; what runs between two of them is another. `execute()`
is therefore ExecBegin, ClaimCommits or ClaimFails (in a worker thread, which goes
on when the coroutine is cancelled: Cancel and `completion.settle`), Settled, Take
or TakeFails, Send, Reply or ExchangeFails, CleanUp (the two `finally` parts), and
Finish or FinishFails. Crash ends a process anywhere; RestoreRow is the operator
that puts an older ledger file back. Two or more processes may share the file.

Abstracted: the contract of a call beyond its grant, tenant and expiry (its gate
token binds it, `call_gate.py`), and all encodings.

### DelegatedFlow

State. `row` is the `requests` table with its outbox (the decision to call back),
`replay` the replay table, `wire` every callback ever sent, `inbox` the caller's
rows, `run` the executions past the consumption. A *proof* is any signed one-use
statement a client presents: it carries what is signed into it (iat, exp, what it is
about, what it says) and is an element of the constant `Proofs`, which a client may
present at any time and any number of times.

Steps. Each endpoint is one transaction, except execution, which commits the
consumption (Consume), dispatches (Dispatch) and stores the result (StoreResult) in
three steps, between which the process may die (Lose). The statements of requests,
reviews and result requests are verified before `BEGIN IMMEDIATE`, which may wait up
to 5 s for the lock; `CheckedBeforeLock` says so. Approvals, client assertions and
DPoP proofs are verified inside.

Abstracted: signatures, hashes and the delegation chain, whose verdict is given.

### OperationGate

A gate is what a verifier is built for: the parent token and the scope its key is
derived from, and the release. `consumed` and `consumedSet` are the two fields of
the verifier, `inHand` the receipts a caller got and has not made durable, `retained`
its durable file. Issue and IssueSubgate mint tokens, and `line` keeps the ancestors of
each (history: the code compares a child with its parent and keeps nothing else); Redeem and Restore hold the
verifier's lock and are one step each; Start and Crash begin and end a verifier's
life. `Careful` names the gates whose caller follows the discipline that restore's
docstring assumes: it retains receipts in consumption order, and replays what it
retained before it redeems again. Nothing is assumed of the other gates.

### CargoBus

`docked` is the set of the bus, `session` each `dock()` call with the fields of its
`LiveDockingSession` (a departed session's fields are its receipt), `holder` who
wrote each document of each partition, `durable` which of the two bundled stores the
adapter was given. `dock()` checks before it takes the lock, and a load or retrieval
calls the store between its checks and its record: each is two steps. A store call
succeeds, fails with nothing written, or (PostgreSQL only) commits and loses its
answer (LoadUnacknowledged). Restart empties the bus and the in-memory store.

### PartitionStore

`entries` is the PartitionMap of each process, `rows` the stores (one per process in memory,
one database for PostgreSQL), `calls` every adapter call and `current` that of each thread. A call checks
the binding, gates the embeddings, and reaches the store in separate steps, and other
threads move between them. A PostgreSQL batch is a transaction that locks row by
row, may wait for another, and is rolled back on a conflict, a lost connection or a
deadlock the server aborts (PgRollback).

Abstracted: DELETE removes its rows in one step after its snapshot; the ranking of a
query is any choice of at most TopK matching rows; ingest and transfer are one
operation, since transfer only asks that its source be bound; `compose()` and
`to_dict()` read only. A process restarted over the same database is a second
process with an empty map.

### CertificateStatus, CertificatePath and Lockbox

`CertificatePath` translates `_verify_cert_chain` and what it calls: an operator for
each rule, over certificates as records, with a conjunction that a whole path must
satisfy. Names are sequences of labels, so that a subtree is a prefix; keys keep
their kind and size, since the code refuses weak ones. `PathsAreJudged`, an assumption
of `MCLockbox` that TLC evaluates, holds three issued paths up to the rules, and 23
certificates each of which breaks one.

`CertificateStatus` is one revocation check: the clock is read once, then one endpoint
after another answers or does not (Answer, NoAnswer, Exhausted), while certificates are
revoked and endpoints publish. An answer that fails a signature, scope or extension
rule is no answer. NothingAsked is a verifier that has no question: `verify_authority` asks
only about an authority that carries a chain (AskAboutSigner), and
`verify_model_attestation` only where the certificate is not the root itself.

In `Lockbox`, `desk` is the lockbox in the issuer's program, `slip` an authority that
`sign_lockbox` has returned and the caller has not attached, `file` the YAML file (which
a crash tears, because `save_lockbox` empties it first), `artifact` the model file with
its attestation, `reader` the consumer. Every check of the consumer is two steps, its
own conditions and paths, then the revocation check, if there is a question. `signer`,
the certificate that signs, is chosen with policy and caller at the start. `dropped` and
`vouched` are history.

### Recertification and Acceptance

`Acceptance` translates `validate_artifact`: a report names its experiment, the checkout
it was written from and its records; a record has its configuration, its assets and the
*facts* that its fields show ("refusals": the probe refused everything and called no
model). A validator demands facts; how fields, rows and measurements show one is left
out. `ReportsAreJudged` (in `MCRecertification`) evaluates all seven validators on a
complete report and on one without refusals.

`Recertification` is `execute()`: Start checks plan, cost, approval and provider and makes
the stage directory (mkdir without exist_ok decides who runs a stage), MakeStage and
the steps after it write the ledger, launch, wait, collect what is new in the results
directory, and validate. A launcher goes on when its execution dies. HEAD moves, and an
artifact carries the HEAD its launcher saw.

### TrainingStep, PackedBanks, GatedCotraining and LaneTraining

Parameters are taken in groups (the backbone, a lane and a head for each regime), and a
group holds how often it was written and *whose data its value depends on*. A gradient
is absent, zero, or the data it depends on. Optimizers are libraries: the experiments do
not trust them but measure what they wrote, so in each run one optimizer step may write
one group that it should not, and the properties ask whether the verdict tells. Each
experiment has actions of its own for its phases, batches, measurements, scores and
verdict, in the order of its code; MaxLeaks bounds the stray writes.

A stray write in a packed lane's own training can only hit that lane. A utility floor is
a nondeterministic choice. Data loading, numbers, tokenizers and the remote execution
are left out.

### ContinuedTraining

Parameters and optimizer state are counts of batches. `cell` is optimizer state by the
tensors that hold it, and `opt` the cell the running optimizer holds: loading a
checkpoint's optimizer shares its cell, as `load_state_dict` does with tensors of the
right type and device.

### ConnectionBroker

`rows` is the connections table, each record with the key it is encrypted under,
`check` the key that the key_check row authenticates, `server` the processes with the
key and the provider configuration each started with, `call` the requests. `stores`
and `voided` are history: every credential an administrator gives gets a serial, and
a serial is voided when its row is deleted or replaced.

A vault operation is one transaction that starts by verifying the process's key
(Verified), so Store, Removed, Lookup and AuditDispatch are one step each; between
them everything else moves. A write runs in a worker thread and finishes although its
request was cancelled (Cancel, phase `orphan`). Rekey is the operator's command in a
process of its own, which may run beside a broker that was forgotten; Start includes
the takeover of a file from before key_check existed (Blessed). Crash ends a process
with its threads.

Abstracted: routes, bodies and answers; the audit rows other than the one of a
dispatch; admission, so that a call begins authenticated.

## Checks

Each row is one run of TLC (`tlc -config X.cfg M`), and `PROJECT.json` names for
every property a mutant of the code that violates it.

| Run | What it asks |
|---|---|
| `calls_safety` | Two executions, two grants, two processes, cancellation, database faults, crashes and one rollback of the ledger. One dispatch at most (OneDispatch); no credential stays without a reason (CustodyAccounted); receipts tell the truth (ReceiptTruthful); the three limits hold together (LimitsHold); until a rollback, a dispatch follows a durable consumption (DispatchFollowsConsumption). |
| `calls_liveness` | Under fairness: a claimed call ends with a receipt or a dead process, every credential leaves custody, and the service implements `OneUseAuthority` (without a rollback): one execution wins the claim, and the request leaves once, by its hand. |
| `flow_pair` | Two requests of one client that share a replay table which can fill up. One effect (OneEffect), exclusion of revocation and effect (RevokedNeverActs), true results (ResultTruthful), consumption within all three expiries (ConsumedInTime), proofs accepted once although the table forgets (ProofAcceptedOnce), caller and service agree (InboxAgrees), refinement of `OneUseAuthority`: one execution takes an approved action, and it alone reaches the provider, once. |
| `gates` | A careful and a careless caller, with sub-gates and verifier lives ending anywhere: one use per life, a retained history restores after every expiry, one use across lives for the careful caller, whose replay finishes (under fairness). A root, its child and its grandchild, with contracts that stay inside, add an operation for the next generation, drop a condition or overstay their depth: each ancestor's alphabet, conditions and depth hold for every generation below it (Attenuation), and nothing is redeemed after an ancestor expired (RedeemedWithinLineage). |
| `cargo_sessions` | Two docks of two manifests that sign the same document, on either store: one session per manifest, receipts that verify, store and receipts that account for each other. |
| `broker_vault` | Two requests in two broker lives over one file, with one key rotation, two keys, two configurations and a quota of one: whatever is stored can be read (RowsReadable), a revoked credential is not picked up by a later request (RevocationStopsLookups), what leaves was audited and granted (DispatchWithinGrant). |
| `store` | Two adapter calls of three threads in two processes, over either store, while partitions are registered: automatic regimes stay apart (RegimesApart), a binding holds while a call runs (BindingsHold), batches are whole (BatchesAreWhole), a destroyed partition is empty of what was committed before (DestroyedIsGone). |
| `lockbox` | An issuer with two recipients, late or prompt with the authority, and a consumer, under SKIP, WARN and ENFORCE: what is trusted is what was signed (TrustedAsSigned), an attested model is the one bound (AttestedModelIsBound), no old revocation is missed of any certificate that is asked about (TrustIsFresh). The signing certificate shows a chain, or is the pinned root itself. |
| `recert` | Two operators and two evidence roots, one after the other or at once, with crashes, interrupts, wall limits and moves of HEAD: a job is launched once for a stage (LaunchedOnce), and a pass rests on an artifact of that job, stage and commit whose records show what was planned (PassRestsOnEvidence). |
| `lanes` | Fourteen experiments, each with an optimizer that may write one group it should not: lanes hold their own data only (OwnUpdatesOnly), a reported separation is true (PassIsSeparated), every regime starts from the same parameters (StartsFromInitial). |
| `flow_repeat`, `adaptation` | Expected violations, see *Findings*. |

Type correctness is proved rather than run wherever a module has a proof.

### Bounds, and why they are enough

Time is whole ticks and every lifetime is one to four of them, so that each expiry
can fall before, between and after the steps it races. Two grants, two executions
and two processes are the smallest numbers at which every pair of actors meets, and
each limit (custody 1, rows 2, pending per tenant 1) can be reached from both sides.
In `flow_pair` the replay table holds 6 proofs of 13, so that it both fills and forgets
within the run, and two execute proofs exist for one request, so that executions race.
In `gates` a verifier may start three times over two gates with two uses each: a history
can be partly replayed, lost again and replayed by a third life; or it has, in one life,
three tokens of which each is cut from the one before. `Explored` in `MCOperationGate`, and
`Offered`, the contracts for each token, keep the two apart; each token is issued under the
gate that its contract names. Three tokens are the fewest with a grandparent: a fault that
only a grandchild shows (a child that passes on an operation it was not given, a depth that
is not used up) comes out there.
`AttenuationLaw` and `RedemptionWithinLineage` prove every depth. `cargo_sessions`
has a manifest that expires and one that does not, an overlap of document ids, and one
restart.

`store` needs two calls, in opposite orders over the same documents, for two transactions
to wait for each other, and a process of its own for a second map. `lockbox` allows seven
steps of the issuer where no endpoint is asked (seal, sign, save, reissue, sign, save and
one more) and four where they are; a signing certificate below the root and, under
ENFORCE and WARN, the root itself; two endpoints of which one covers one reason; one
revocation; validity 0 and time 1, so that an answer may be from before and be fresh.
One recipient's path has three certificates and its authority ends first. `recert` has
four launches, one crash, two moves of HEAD where executions follow each other and one where they
overlap, four starts or two; the factorial job is planned as `modal-recertification.json`
plans it, and its artifact is complete or lacks refusals. `lanes` has three regimes, so
that a lane can be one before and one after the lane in training, two batches, so that
moments have a past, and one stray write.

In `broker_vault` the file may be empty, old without key_check, or old with either; two
writes race for the one place in the quota, and a write encrypted under the old key is
under way when the rotation commits.

Symmetry is used for interchangeable identities (executions, sessions, calls, processes,
keys), never with a liveness property.

### Fairness

* `CalendarCalls`: worker threads and coroutines go on (`Advance`), since thread
  pool and event loop run them and the provider call ends after 20 s at the latest
  (`broker.py`, `asyncio.timeout`); `approve()` goes on; `revoke()` reaches its
  discard; the sweep task of `api.py` runs once a second while the process is up; the
  clock advances. Processes need not stay alive and nothing requests an execution.
* `OperationGate`: a caller that starts a verifier goes on to present its file (weak
  fairness on Replay; the run relies on the careful callers only). Nobody need redeem, retain or restart anything.
* The other modules promise no progress: a lost answer, a dead execution or an endpoint
  that never answers stays so. Only safety is stated.

### Assumptions of the models

The clock does not step back and is shared by the processes of one service; a
client's clock is wrong by whatever the iat of its proofs says. A transaction
takes less than a tick once it has its lock. SQLite and PostgreSQL transactions are
atomic and durable. Signatures and key derivations are perfect.

## Proofs

Every theorem holds for all values of the constants allowed by the named
assumptions of its module. Those say that bounds are numbers, that a plan, a batch or a
certificate is well formed, and that `None` is none of the values it stands beside
(`NoneAssumption`). One says something about the code's inputs: `StageAssumption` of
`Recertification`, that only the canary runs with `--smoke`, that a launcher records how
it was run, and that Cargo, whose configuration no validator reads, has no canary; that
is what `modal-recertification.json` plans, and without it a canary's artifact could be
taken for a full one's where executions overlap.

* **CalendarCallsProofs**. `TypeCorrect`; `AtMostOneDispatch`: whatever is cancelled,
  crashes, fails or is rolled back, a grant's request leaves at most once. TLC's
  OneDispatch is not inductive: nothing in it says who may still send. The
  invariant proved is `TypeOK` and, for every grant, `OneHolder`: at most one among
  the custodies and the executions past Take holds the credential, and if it was
  sent none does. The ledger is not part of the argument, which is why a rollback of
  the file does not break it.
  `CustodyHasReason`, `ReceiptsTellTheTruth` and `NoDispatchBeforeConsumption` (an action
  property) come from `CallInv`, whose parts each fail alone: `Phased` ties the verdict of
  a claim to the place of its coroutine, `Bound` says that whatever names a grant names
  one on record, `Custodial` that a reason to keep a credential ends only by handing it
  on, and `Settles` that, until a rollback, one execution won the row and it alone decides
  what left and what the receipt says. `LimitsKept` counts finite sets (`LimitInv`): a row
  enters only in the transaction that counted. `CallsAreOneUse` maps each step to a step
  of `OneUseAuthority` or a stutter, with the winners of a claim for its spenders and
  what left for its uses; its hypothesis `NoRollback` (MaxRestores = 0) is the
  setting of `calls_liveness`, since a restored row makes a revoked authority live again.
* **DelegatedFlowProofs**. `FlowTypeCorrect`; `LockedProofsOnce` from `OnceInv` (an
  accepted proof is in the table or its window has closed, so that forgetting is
  safe for every window, skew and capacity); `AtMostOneEffect`,
  `RevocationExcludesEffect` and `ResultsTellTheTruth` from `OneEffectInv`, which
  ties each row's status, result and executions together (`Sound`).
  `InboxHoldsTheDecision` and `ConsumptionIsInTime` (an action property) from `TermsInv`: a
  decision is taken once, only narrows the expiry and rests on an owner's statement that
  outlives it, and is what every callback on the wire carries, however old.
  `FlowIsOneUse` is the refinement of `OneUseAuthority`, with the executions past the
  consumption for its spenders and no hypothesis.
* **GateLibraryProofs**, the gates. `GateTypeCorrect`; `AttenuationLaw` from `LineageInv` (a
  token is inside *every* ancestor, passes on no more than it was given, expires within
  each, and its depth and the generations from an ancestor fit into that ancestor's depth,
  by counting finite sets); `OneUsePerLife` and
  `ReceiptsIndexed` from `LedgerInv` (list and set agree, no repeats, receipts in hand
  name their place); `RedemptionWithinLineage` and `HistoryRestores` from
  `HistoryInv` (every receipt was genuine at its epoch, and tokens never change);
  `OneUseSurvivesCrashes` from `FileInv` (the file of a careful caller is a prefix of
  the ledger, or the ledger a prefix of the file).

* **ConnectionBrokerProofs**. `VaultTypeCorrect`; `StoredCredentialsReadable` from
  `Readable` (what a call still has to write is under the key of its own process, and
  the writing transaction verifies that key); `RevokedNeverSent` from `Revocation`
  (serials in rows, in unfinished writes and among the voided are disjoint, so that
  a late write never brings a voided credential back); `DispatchesGranted` from
  `AllGranted` (what the checks established stays true of the record in hand);
  `QuotaKept`, by counting, for any finite set of identifiers.

* **CargoBusProofs**. `TypeCorrect`; `ManifestDockedOnce` from `SessionInv` (an opened
  session's manifest is docked for as long as its process lives, and one under way is of
  this life), which is what the second check under the lock buys; `ReceiptsAccepted`, from
  the order in which operations are recorded and the obligations met at departure;
  `ReceiptsAccountForDocuments` and `ReceiptsAccountForCommits` from `LedgerInv`: a session
  of this life has committed its payload exactly when its flag says so, what it committed
  is still there, and nothing was committed under a manifest that is not docked.
* **GateLibraryProofs**, the store. `AutomaticRegimesApart` and `BindingsArePermanent` from `MapInv`
  (`MapsTyped` and `RegimesApart`): Register is the only action that writes the maps.
  `RowsKeepTheirBinding`, `NoBatchIsHalfThere` and `DestructionIsComplete` from `StoreInv`,
  over calls, threads and rows at once: what a call read is still the binding (`Bound`), a
  transaction under way holds the locks of the ids it wrote (`Transaction`, `Locked`), so
  that nobody else changes them before it commits, each row was made by a committed call
  (`RowInv`), and `destroy()` returns only where its count found nothing, so that whatever
  is there later was committed later (`Destroyed`).
* **LockboxProofs**. `TypeCorrect`; `GrantsTrustedAsSigned` (every authority in hand, in the
  file or with the consumer is content that was signed, and a signed lockbox is not
  changed by a reissue); `TrustedModelIsBound`; `TrustedGrantsAreFresh`, of the consumer's
  certificate and of a signing certificate that shows a chain, from what a check has
  covered so far and from the fact that an endpoint which does not list a revoked
  certificate published before. `LimitsBoundPaths` and `PathsNest` are about
  `CertificatePath`, for paths of any length: a path length limit bounds how high above the
  leaf its authority can stand, and an accepted path for client authentication is accepted
  from each of its certificates on. They need no induction: the authorities between two
  certificates are a finite set, and the end of a path maps its own into those of the whole.
* **RecertificationProofs**. `TypeCorrect`; `NeverLaunchedTwice` from an invariant of five
  parts (types, executions, claims, jobs, launches): mkdir without exist_ok claims a stage
  for one execution, and the record of a job is written before its launcher starts;
  `AcceptedShowsRefusals`, for each experiment and every planned step, about `Acceptance`.
  `PassIsEvidence` from `EInv`, which follows an artifact from the launcher that writes it
  to the receipt of the job that passed: a file holds what its launcher wrote, once
  (`FileInv`); a running execution's launcher is none that it saw before (`OwnInv`); what
  an execution validates, copies, unlinks and concludes with has come that way
  (`JudgedInv`); an artifact that was unlinked is nobody else's (`HeldInv`), which is why
  two overlapping executions never pass on one artifact; what a passed job rests on stays
  (`PassInv`); and the jobs an execution is past have passed (`LedgerInv`).
* **LaneTrainingProofs**, for any number of regimes, batches and stray writes.
  `TurnActions` and `TogetherSteps` first say which kinds of step each experiment takes, so
  that an argument about a batch or a measurement is made once for all that use it.
  `TrainingTypeCorrect` holds with `Turns`, which says how far a run in turn is.
  `OnlyOwnUpdates` needs to speak of moments and not of values alone (`OwnTraces`): what a
  batch reads, what a gradient carries and what the optimizer remembers of a group stay
  within its regime's data and public data, or a later step would bring the rest in.
  `StartingPoint` comes from `Ahead` (where regimes train in turn, a regime whose turn is
  still to come has what it reads untouched: a batch moves nothing of another
  regime unless the optimizer leaks, `BatchSpares`) and `Together` (where all train at once,
  from the values that are loaded before a training begins).
  `ReportedSeparationHolds` is `Separation`, in which the optimizer is trusted with nothing.
  For regimes in turn, `Learning` follows what each had learnt: groups that train were equal
  to it whenever they were measured (`Covers` says what each experiment's measurement
  looks at), and a frozen group counts its writes, so that it has not moved between the
  first snapshot and the last if the two counts are the same (`Between`); `FrozenMeasured`
  and `ScoredRows` say what the last measurement and the scores were of. For packed lanes
  `Banked` says that a lane keeps what it had learnt while others train, and that bank and
  scores are copies of it; `Compared` the same of the attention lanes up to their controls.
  `Verdicts` says that nothing follows a verdict.

The proofs have one lemma per group of actions and a `Step` or `Next` lemma that
combines them; invariants were checked by TLC on the runs' instances before they were
proved. Every safety and action property of a passing run, and both refinements, are
proved. Not proved, only model-checked, is what needs fairness: ConsumedCallSettles,
CredentialDestroyed, ReplayFinishes. Liveness under fairness and ENABLED are out of the
prover's reach.

## Findings

Where code and documents disagree; each is a run whose counterexample shows it.

1. `flow_repeat`. A signed delegation request is checked before the lock, its replay
   entry is purged once expired, so a repeat that waited for the lock across the
   expiry opens a second row for one statement.
2. `adaptation`. Each continued condition loads the checkpoint's optimizer state and
   advances it in place, so that the later fractions resume what the earlier ones left,
   where the docstring promises independent continuations.

### Disagreements and limits without a run

Met while modelling; the models follow the code.

* Delegated authorization accepts a request whose iat is up to 5 s ahead and signs the
  actor token and the acknowledgement with its own iat and the client's exp, so that
  `exp > iat + 300` and `valid()` refuses them (`service.py:139-154`, `crypto.py:77`).
* `load_cargo` sets its flag only after the store has returned (`_cargo_impl.py:400`): a
  PostgreSQL commit whose answer is lost lets the payload be committed twice, where the
  docstring says "exactly once".
* A session that declared a load and expired before it can neither load nor depart,
  although the comment at `_cargo_impl.py:578` says that departure is always permitted.
* Two `DefaultRegimeBus` objects for one partition each dock a manifest once (BusTerminal
  prevents it); the docked set is memory only, as `docs/CARGO_MODE.md` says.
* `register()` with another mode on a bound partition keeps the old mode silently; with
  two processes on one database, the order of registrations may bind one partition to
  different regimes; `transfer()` checks that its source is bound and reads nothing of it;
  the PostgreSQL store replaces a document of another manifest with the same id.
* `GateRights.union` keeps the later expiry, its complement law the earlier one;
  `reconstitute_gate_key` with too few shares returns a wrong key without an error.
* A wall clock that steps back revives purged replay entries; two verifiers of one gate
  key each accept a token once, as `docs/RESEARCH_EVIDENCE.md` says.
* The lockbox: `sign_lockbox` says that it attaches the authority, its caller does; a late
  attachment may leave a model unbound; "a revoked certificate always fails" does not hold under WARN where no
  endpoint knows; a signed lockbox stays valid after a reissue; concurrent reissues
  lose updates; `save_lockbox` truncates the only copy; `diagnose_operational` checks
  the signing certificate as its own issuer; an attestation embeds one authority, so
  that a signer below an intermediate one cannot attest.
* ENFORCE "denies when no fresh authenticated revocation answer is available"
  (`docs/SECURITY_ENGINEERING.md:45`), and the docstring of `verify_authority` leaves a
  self-signed root to an explicit SKIP; but it asks only about an authority that carries
  a chain (`_lockbox.py:1351`), and `verify_model_attestation` not where the certificate is
  the root (3539-3541). A lockbox that a pinned root signs itself is therefore trusted under
  ENFORCE with no answer about that certificate, and TrustIsFresh says nothing of it.
* Re-certification: executions that overlap may pass on an artifact that another one's
  launcher wrote; an interrupt outside `subprocess.run` leaves the ledger "running" and
  new artifacts uncollected; the approved maximum is checked for each execution and not
  debited between stages; Cargo's validator demands neither configuration nor runtime probe.
* Experiments: `max(0.0, nan)` keeps 0.0 in separation measures; the rejection probe of
  the preflight counts calls around `authorize()`, which makes none; the dirty phase of the
  KV cache experiment never hands the cache to the probe; the wrong-key perplexity
  of the generative experiments is regime 1's own score; matched deposition reports
  "completed" whatever its frozen parameters did.

## Not modelled

Encodings, signatures and key derivations (perfect by assumption); numeric code
(masks, folding, scoring, training arithmetic); command lines, demonstrations, benchmarks; the vector
bridge and stream frames of Cargo Mode, which carry no state of their own; the Ed25519
attestation of gates, which is stateless signing. Of the lockbox: the hierarchy of access
levels, threshold recovery, the wrapping of keys, SPIFFE identities, the scope and
signature rules of a revocation answer (a failed one is no answer), and diagnostics.
Of the experiments: those without a training protocol (KV cache, runtime superposition,
service consolidation, Cargo authorization), whose artifacts `Acceptance` judges.

## Plan

In this order. A part that meets a component already modelled joins its module and its
run; the others get a module of their own.

1. `CallsAreOneUse` without its hypothesis: an abstract authority whose approval can be
   taken back with the ledger file, and what still holds of it.
2. PostgreSQL's side of the account of receipts: what a lost answer may leave unrecorded.
3. `Admission`: `limits.py` and `guard.py` around the calls of `ConnectionBroker`. Slots
   are given back on every exit, nobody passes the burst. Theorem: the slots in use
   are the admitted requests.
4. `DelegationChain`: `delegation.py` and `capability.py` as operators over chains of
   links, with the rule that a chain never widens its root, feeding `DelegatedFlow`.
5. `GateRights`: compose, union and complement of `_tokens.py` with their expiries.
6. Threshold recovery and SPIFFE identities in `Lockbox`; `CargoBus` over `PartitionStore`
   instead of a store of its own.
