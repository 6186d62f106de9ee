----------------------------- MODULE DelegatedFlow -----------------------------
(***************************************************************************)
(* Delegated authorization (credential_broker/delegation): a caller asks   *)
(* for one Calendar action, an owner decides, the decision travels back as *)
(* a callback, the caller redeems it for an access token and executes once. *)
(*                                                                         *)
(* The service's rows and its replay table live in one SQLite file and     *)
(* every endpoint is one BEGIN IMMEDIATE transaction (store.py), so any    *)
(* number of service processes act as the steps below; only a running      *)
(* execution is lost with its process. The network may lose, delay and     *)
(* repeat every message: `wire` keeps what was ever sent, and a receiver   *)
(* may take it again at any later time, or never.                          *)
(***************************************************************************)
EXTENDS Integers, FiniteSets

CONSTANTS
  Requests,        \* request ids drawn by the service
  Execs,           \* concurrent calls of the execute endpoint
  Proofs,          \* signed one-use statements clients may present
  None,
  Skew,            \* 5 s of clock skew granted to iat
  Window,          \* 30 s a DPoP proof stays acceptable
  TokenLife,       \* 60 s, the longest access token
  MaxLife,         \* 300 s, the longest any other statement may live
  LockWait,        \* 5 s, how long a checked request may wait for the database
  Capacity,        \* 10 000 live replay entries
  MaxRequests,     \* 1 000 retained requests
  MaxTime          \* bound on the clock

Kinds == {"request", "review", "approval", "client-auth", "dpop", "result"}

\* A proof is its namespace and jti. Signed into it are its iat and exp, the row
\* it is about (through the request hash, id or row nonce; None for request and
\* client-auth) and what it says: a decision, or the endpoint of a DPoP proof.
ASSUME ProofsAssumption ==
  \A p \in Proofs : /\ p.kind \in Kinds
                    /\ p.iat \in Nat /\ p.exp \in Nat
                    /\ p.about \in Requests \cup {None}
                    /\ p.says \in {"approve", "deny", "token", "execute", None}
ASSUME BoundsAssumption ==
  /\ Skew \in Nat /\ Window \in Nat /\ TokenLife \in Nat \ {0}
  /\ MaxLife \in Nat \ {0} /\ LockWait \in Nat
  /\ Capacity \in Nat /\ MaxRequests \in Nat /\ MaxTime \in Nat
  /\ None \notin {"approve", "deny"} /\ None \notin Requests

VARIABLES
  now,
  row,       \* the requests table, None before the request exists
  replay,    \* the replay table: proofs remembered
  wire,      \* callbacks sent so far, with their expiry
  inbox,     \* the caller's own durable rows (client.Inbox)
  run,       \* executions past their consumption
  accepted,  \* HISTORY: how often each proof was accepted; 2 stands for more
  effects    \* HISTORY: dispatches to the provider, per request

vars == <<now, row, replay, wire, inbox, run, accepted, effects>>
service == <<row, replay, accepted>>

Replies == {"provider_rejected", "invalid_provider_response", "confirmed"}
Statuses == {"pending", "approved", "denied", "issued", "consumed", "revoked"}
Decisions == {"approve", "deny"}
\* asked: the request's own expiry; actor, ack: when the actor token and the
\* acknowledgement were signed; expires: narrowed by the decision; token: expiry
\* of the access token.
Rows == [status : Statuses, asked : Nat, actor : Nat, ack : Nat, expires : Nat,
         callback : Decisions \cup {None}, token : Nat,
         result : Replies \cup {"not_dispatched", "unknown", None}]
Messages == [req : Requests, decision : Decisions, exp : Nat]
InboxRows == [expires : Nat, callback : Messages \cup {None}]

ASSUME NoneAssumption == None \notin Rows

Lesser(a, b) == IF a <= b THEN a ELSE b

--------------------------------------------------------------------------------
(* crypto.valid, crypto.check_dpop and Store.replay. *)

ValidAt(p, t) ==
  /\ p.iat <= t + Skew
  /\ IF p.kind = "dpop" THEN t - Window <= p.iat
                        ELSE t < p.exp /\ p.iat < p.exp /\ p.exp <= p.iat + MaxLife

\* Requests, reviews and result requests are checked before BEGIN IMMEDIATE,
\* which may wait for the lock: they are used up to LockWait after the check.
Recently == {t \in (now - LockWait)..now : t >= 0}
CheckedBeforeLock(p) == \E t \in Recently : ValidAt(p, t)

\* FAULT: a proof is remembered only for the clock skew it was granted.
FaultRemembered(p) == p.iat + Skew
Remembered(p) == IF p.kind = "dpop" THEN p.iat + Window + Skew ELSE p.exp

\* Each insertion first deletes what has expired.
Unexpired == {p \in replay : Remembered(p) >= now}

\* One transaction remembers every proof in ps, or is refused and changes nothing.
Remember(ps) ==
  /\ ps \cap Unexpired = {}
  /\ Cardinality(Unexpired) + Cardinality(ps) <= Capacity
  /\ replay' = Unexpired \cup ps
  /\ accepted' = [p \in Proofs |-> IF p \in ps THEN Lesser(accepted[p] + 1, 2)
                                           ELSE accepted[p]]

\* A proof checked under the lock.
Accept(p) == ValidAt(p, now) /\ Remember({p})

Live(r) == row[r] # None /\ now < row[r].expires

--------------------------------------------------------------------------------
(* The service's endpoints. *)

\* service.request: checked and the actor token signed at t, before the lock;
\* the answer is the PENDING statement a caller may Expect.
Request(r, p, t) ==
  /\ row[r] = None
  /\ p.kind = "request"
  /\ ValidAt(p, t)
  /\ Remember({p})
  /\ Cardinality({q \in Requests : row[q] # None}) < MaxRequests
  /\ row' = [row EXCEPT ![r] =
       [status |-> "pending", asked |-> p.exp, actor |-> t, ack |-> now,
        expires |-> p.exp, callback |-> None, token |-> 0, result |-> None]]
  /\ UNCHANGED <<now, wire, inbox, run, effects>>

\* review.review: a reviewer's statement is accepted once; nothing else changes.
Review(r, p) ==
  /\ p.kind = "review" /\ p.about = r
  /\ CheckedBeforeLock(p)
  /\ Live(r)
  /\ Remember({p})
  /\ UNCHANGED <<now, row, wire, inbox, run, effects>>

\* FAULT: the decision's expiry replaces the request's instead of narrowing it.
FaultDecidedExpiry(r, p) ==
  [row[r] EXCEPT !.status = IF p.says = "approve" THEN "approved" ELSE "denied",
                 !.expires = p.exp, !.callback = p.says]
\* The row an owner's decision leaves, and the expiry it narrows.
Decided(r, p) ==
  [row[r] EXCEPT !.status = IF p.says = "approve" THEN "approved" ELSE "denied",
                 !.expires = Lesser(@, p.exp),
                 !.callback = p.says]

\* service.approve: signs the callback in the same transaction.
Approve(r, p) ==
  /\ Live(r)
  /\ row[r].status = "pending"
  /\ p.kind = "approval" /\ p.about = r /\ p.says \in Decisions
  /\ Accept(p)
  /\ row' = [row EXCEPT ![r] = Decided(r, p)]
  /\ UNCHANGED <<now, wire, inbox, run, effects>>

\* FAULT: an execution that already consumed its approval can still be revoked.
FaultRevocable == {"pending", "approved", "issued", "consumed"}
Revocable == {"pending", "approved", "issued"}

\* service.revoke needs no live row, only one that was not yet used up.
Revoke(r, p) ==
  /\ row[r] # None
  /\ row[r].status \in Revocable
  /\ p.kind = "approval" /\ p.about = r /\ p.says = "deny"
  /\ Accept(p)
  /\ row' = [row EXCEPT ![r].status = "revoked"]
  /\ UNCHANGED <<now, wire, inbox, run, effects>>

\* service.callback: the outbox may be read again and again, whatever the status.
SendCallback(r) ==
  /\ Live(r)
  /\ row[r].callback # None
  /\ wire' = wire \cup {[req |-> r, decision |-> row[r].callback, exp |-> row[r].expires]}
  /\ UNCHANGED <<now, service, inbox, run, effects>>

\* The actor token is judged like any statement: it may not live longer than
\* MaxLife from its own iat, although its expiry is the request's.
ActorValid(r) == now < row[r].asked /\ row[r].asked <= row[r].actor + MaxLife

\* redeem.redeem: an approving callback, two proofs, one access token.
Redeem(r, auth, proof) ==
  /\ Live(r)
  /\ row[r].status = "approved"
  /\ row[r].callback = "approve"
  /\ \E m \in wire : m.req = r            \* the caller has seen the callback
  /\ ActorValid(r)
  /\ auth.kind = "client-auth" /\ ValidAt(auth, now)
  /\ proof.kind = "dpop" /\ proof.about = r /\ proof.says = "token"
  /\ ValidAt(proof, now)
  /\ Remember({auth, proof})
  /\ row' = [row EXCEPT ![r] =
       [@ EXCEPT !.status = "issued", !.token = Lesser(row[r].expires, now + TokenLife)]]
  /\ UNCHANGED <<now, wire, inbox, run, effects>>

\* FAULT: a token is good as long as its row says so, whatever became of the row.
FaultExecutable(r) == Live(r) /\ row[r].token > now
\* FAULT: the row is looked at, the expiry of the token is not.
FaultTokenUnchecked(r) == Live(r) /\ row[r].status = "issued"
Executable(r) == Live(r) /\ row[r].status = "issued" /\ row[r].token > now

\* execution.execute up to its commit: the action budget is spent here.
Consume(x, r, proof) ==
  /\ run[x].pc = "idle"
  /\ Executable(r)
  /\ proof.kind = "dpop" /\ proof.about = r /\ proof.says = "execute"
  /\ Accept(proof)
  /\ row' = [row EXCEPT ![r].status = "consumed"]
  /\ run' = [run EXCEPT ![x] = [pc |-> "consumed", req |-> r]]
  /\ UNCHANGED <<now, wire, inbox, effects>>

\* FAULT: a dispatch that got no answer is tried again.
FaultDispatch(x) ==
  /\ run[x].pc \in {"consumed", "dispatched"}
  /\ run' = [run EXCEPT ![x].pc = "dispatched"]
  /\ effects' = [effects EXCEPT ![run[x].req] = @ + 1]
  /\ UNCHANGED <<now, service, wire, inbox>>

\* CalendarExecutor: the provider receives the call (CalendarCalls in detail).
Dispatch(x) ==
  /\ run[x].pc = "consumed"
  /\ run' = [run EXCEPT ![x].pc = "dispatched"]
  /\ effects' = [effects EXCEPT ![run[x].req] = @ + 1]
  /\ UNCHANGED <<now, service, wire, inbox>>

\* What the executor can report. An exception or a cancellation is "unknown".
Reports(pc) == {"unknown"} \cup IF pc = "dispatched" THEN Replies ELSE {"not_dispatched"}

\* FAULT: whatever went wrong, the receipt says the call never left.
FaultReported(outcome) == IF outcome \in Replies THEN outcome ELSE "not_dispatched"
Reported(outcome) == outcome

\* The finally block stores the signed result in a second transaction.
StoreResult(x, outcome) ==
  /\ run[x].pc \in {"consumed", "dispatched"}
  /\ outcome \in Reports(run[x].pc)
  /\ row' = [row EXCEPT ![run[x].req].result = Reported(outcome)]
  /\ run' = [run EXCEPT ![x].pc = "done"]
  /\ UNCHANGED <<now, replay, wire, inbox, accepted, effects>>

\* The process dies, or that transaction fails: consumed without a result.
Lose(x) ==
  /\ run[x].pc \in {"consumed", "dispatched"}
  /\ run' = [run EXCEPT ![x].pc = "dead"]
  /\ UNCHANGED <<now, service, wire, inbox, effects>>

\* The results endpoint: an authenticated caller collects a stored result.
Collect(r, p) ==
  /\ row[r] # None
  /\ row[r].result # None
  /\ p.kind = "result" /\ p.about = r
  /\ CheckedBeforeLock(p)
  /\ Remember({p})
  /\ UNCHANGED <<now, row, wire, inbox, run, effects>>

--------------------------------------------------------------------------------
(* The caller's inbox (client.Inbox), on its own store. *)

\* The PENDING answer reaches the caller, which checks it like any statement. The
\* inbox id is a primary key, so a second copy of the answer is refused.
Expect(r) ==
  /\ row[r] # None
  /\ row[r].asked <= row[r].ack + MaxLife
  /\ \E t \in Recently : row[r].ack <= t /\ t < row[r].asked
  /\ inbox[r] = None
  /\ inbox' = [inbox EXCEPT ![r] = [expires |-> row[r].asked, callback |-> None]]
  /\ UNCHANGED <<now, service, wire, run, effects>>

\* A first callback is kept. A repeat must be the same statement (and changes
\* nothing); anything else is a conflict and is refused.
Receive(m) ==
  /\ inbox[m.req] # None
  /\ \E t \in Recently : t < m.exp
  /\ now < inbox[m.req].expires
  /\ m.exp <= inbox[m.req].expires
  /\ inbox[m.req].callback = None
  /\ inbox' = [inbox EXCEPT ![m.req].callback = m]
  /\ UNCHANGED <<now, service, wire, run, effects>>

Tick ==
  /\ now < MaxTime
  /\ now' = now + 1
  /\ UNCHANGED <<service, wire, inbox, run, effects>>

--------------------------------------------------------------------------------
Init ==
  /\ now = 0
  /\ row = [r \in Requests |-> None]
  /\ replay = {}
  /\ wire = {}
  /\ inbox = [r \in Requests |-> None]
  /\ run = [x \in Execs |-> [pc |-> "idle", req |-> None]]
  /\ accepted = [p \in Proofs |-> 0]
  /\ effects = [r \in Requests |-> 0]

Presenting(r, p) ==
  \/ \E t \in Recently : Request(r, p, t)
  \/ Review(r, p)
  \/ Approve(r, p)
  \/ Revoke(r, p)
  \/ \E proof \in Proofs : Redeem(r, p, proof)
  \/ \E x \in Execs : Consume(x, r, p)
  \/ Collect(r, p)

Running(x) ==
  \/ Dispatch(x)
  \/ \E outcome \in Replies \cup {"unknown", "not_dispatched"} : StoreResult(x, outcome)
  \/ Lose(x)

Next ==
  \/ \E r \in Requests, p \in Proofs : Presenting(r, p)
  \/ \E r \in Requests : SendCallback(r) \/ Expect(r)
  \/ \E x \in Execs : Running(x)
  \/ \E m \in wire : Receive(m)
  \/ Tick

Spec == Init /\ [][Next]_vars

--------------------------------------------------------------------------------
(* Properties. *)

\* Every variable keeps its type.
TypeOK ==
  /\ now \in Nat
  /\ row \in [Requests -> Rows \cup {None}]
  /\ replay \in SUBSET Proofs
  /\ wire \in SUBSET Messages
  /\ inbox \in [Requests -> InboxRows \cup {None}]
  /\ run \in [Execs -> [pc : {"idle", "consumed", "dispatched", "done", "dead"},
                        req : Requests \cup {None}]]
  /\ \A x \in Execs : run[x].pc # "idle" => /\ run[x].req \in Requests
                                          /\ row[run[x].req] \in Rows
  /\ accepted \in [Proofs -> 0..2]
  /\ effects \in [Requests -> Nat]

\* No proof checked under the database lock is ever accepted twice, although the
\* replay table forgets: it may forget a proof only once its window has closed.
ProofAcceptedOnce ==
  \A p \in Proofs : p.kind \in {"approval", "client-auth", "dpop"} => accepted[p] <= 1

\* A signed request opens one request: its repeat is refused, as
\* test_request_replay_survives_restart asserts (test_bound_flow.py:110-113).
RequestAcceptedOnce == \A p \in Proofs : p.kind = "request" => accepted[p] <= 1

\* One approval, one effect: however often tokens and callbacks are repeated and
\* executions race or die, the provider sees the action at most once.
OneEffect == \A r \in Requests : effects[r] <= 1

\* A revocation or denial that was committed excludes the action, and no
\* execution is under way that could still perform it.
RevokedNeverActs ==
  \A r \in Requests :
    (row[r] # None /\ row[r].status \in {"revoked", "denied"}) =>
      /\ effects[r] = 0
      /\ \A x \in Execs : run[x].req # r

\* Caller and service agree: the caller never holds a promise shorter than the
\* service's own row, and a callback it holds is the decision the service stored.
InboxAgrees ==
  \A r \in Requests : inbox[r] # None =>
    /\ row[r] # None
    /\ row[r].expires <= inbox[r].expires
    /\ inbox[r].callback # None =>
         /\ inbox[r].callback.decision = row[r].callback
         /\ inbox[r].callback.exp = row[r].expires

\* A stored result is true: "not_dispatched" means no effect, a provider's verdict
\* means one. A result is only ever stored for a consumed request.
ResultTruthful ==
  \A r \in Requests :
    (row[r] # None /\ row[r].result # None) =>
      /\ row[r].status = "consumed"
      /\ row[r].result = "not_dispatched" => effects[r] = 0
      /\ row[r].result \in Replies => effects[r] = 1

\* Consumption happens inside every expiry on the way: the request's own, the
\* owner's decision and the access token. (Only a decision narrows `expires`.)
ConsumedInTime ==
  [][\A r \in Requests :
       (row[r] # None /\ row'[r].status = "consumed" /\ row[r].status # "consumed") =>
         /\ now < row[r].asked /\ now < row[r].token
         /\ \E p \in Proofs : /\ p.kind = "approval" /\ p.about = r
                              /\ p.says = "approve" /\ accepted[p] > 0
                              /\ now < p.exp]_vars

--------------------------------------------------------------------------------
(* The flow implements the one-use authority: an approval issues it, redemption
   leaves it live, consumption spends it, the dispatch uses it. *)

Stage(r) ==
  IF row[r] = None \/ row[r].callback # "approve" THEN "new"
  ELSE CASE effects[r] > 0 -> "used"
         [] effects[r] = 0 /\ row[r].status = "consumed" -> "spent"
         [] effects[r] = 0 /\ row[r].status = "revoked" -> "void"
         [] OTHER -> "live"

\* The executions that were let past the consumption of the action budget.
Takers(r) == {x \in Execs : run[x].req = r}

Authority ==
  INSTANCE OneUseAuthority WITH
    Grants   <- Requests,
    Parties  <- Execs,
    stage    <- [r \in Requests |-> Stage(r)],
    spenders <- [r \in Requests |-> Takers(r)],
    uses     <- effects

\* Every step of the flow is a step of the abstract one-use authority: an approval is
\* consumed by one execution or voided by a revocation, and that execution alone
\* dispatches the action, once.  A second execution of a consumed row, or a dispatch
\* that is repeated, is a step it does not have.
ImplementsOneUse == Authority!Spec

================================================================================
