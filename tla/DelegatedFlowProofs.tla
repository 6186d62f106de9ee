-------------------------- MODULE DelegatedFlowProofs --------------------------
(***************************************************************************)
(* Proofs about DelegatedFlow for any number of requests, executions and   *)
(* signed proofs, any capacity and any windows: type correctness, proofs   *)
(* that are accepted once although the replay table forgets, one effect    *)
(* per approval, agreement of caller and service, consumption in time, and *)
(* the refinement of OneUseAuthority.                                      *)
(***************************************************************************)
EXTENDS DelegatedFlow, TLAPS

--------------------------------------------------------------------------------
(* Type correctness. *)

LEMMA InitTypeOK == Init => TypeOK
  BY DEF Init, TypeOK

\* What remembering a set of proofs does to the service's own variables.
LEMMA RememberType ==
  ASSUME TypeOK, NEW ps \in SUBSET Proofs, Remember(ps)
  PROVE  replay' \in SUBSET Proofs /\ accepted' \in [Proofs -> 0..2]
<1>1. replay' \in SUBSET Proofs
  BY DEF Remember, TypeOK, Unexpired
<1>2. \A p \in Proofs : Lesser(accepted[p] + 1, 2) \in 0..2
  BY DEF TypeOK, Lesser
<1> QED BY <1>1, <1>2 DEF Remember, TypeOK

LEMMA RowAt == ASSUME TypeOK, NEW r \in Requests, row[r] # None PROVE row[r] \in Rows
  BY DEF TypeOK

\* Updates of one field of a row keep it a row.
LEMMA RowUpdates ==
  ASSUME NEW c \in Rows, NEW s \in Statuses
  PROVE  /\ [c EXCEPT !.status = s] \in Rows
         /\ \A n \in Nat : [c EXCEPT !.status = s, !.token = n] \in Rows
         /\ \A n \in Nat, d \in Decisions :
              [c EXCEPT !.status = s, !.expires = n, !.callback = d] \in Rows
         /\ \A o \in Replies \cup {"not_dispatched", "unknown"} :
              [c EXCEPT !.result = o] \in Rows
  BY DEF Rows

\* Writing one row keeps the table, and every execution's row stays a row.
LEMMA OneRowChanges ==
  ASSUME TypeOK, NEW r \in Requests, NEW c \in Rows, row' = [row EXCEPT ![r] = c]
  PROVE  /\ row' \in [Requests -> Rows \cup {None}]
         /\ \A x \in Execs : run[x].pc # "idle" => /\ run[x].req \in Requests
                                                 /\ row'[run[x].req] \in Rows
  BY DEF TypeOK

LEMMA LesserNat == ASSUME NEW a \in Nat, NEW b \in Nat PROVE Lesser(a, b) \in Nat
  BY DEF Lesser

LEMMA DecidedIsRow ==
  ASSUME TypeOK, NEW r \in Requests, row[r] # None, NEW p \in Proofs, p.says \in Decisions,
         row' = [row EXCEPT ![r] = Decided(r, p)]
  PROVE  row'[r] = Decided(r, p) /\ row'[r] \in Rows /\ row'[r] # None
<1>1. row[r] \in Rows
  BY RowAt
<1>2. row[r].expires \in Nat /\ p.exp \in Nat
  BY <1>1, ProofsAssumption DEF Rows
<1>3. Lesser(row[r].expires, p.exp) \in Nat
  BY <1>2, LesserNat
<1>4. (IF p.says = "approve" THEN "approved" ELSE "denied") \in Statuses
  BY DEF Statuses
<1>5. Decided(r, p) \in Rows
  BY <1>1, <1>3, <1>4, RowUpdates DEF Decided
<1> QED BY <1>5, NoneAssumption DEF TypeOK

LEMMA ReportsInResults ==
  ASSUME NEW pc, NEW o \in Reports(pc)
  PROVE  Reported(o) \in Replies \cup {"not_dispatched", "unknown"}
  BY DEF Reports, Reported

LEMMA NextTypeOK == TypeOK /\ [Next]_vars => TypeOK'
<1> SUFFICES ASSUME TypeOK, [Next]_vars PROVE TypeOK'
  OBVIOUS
<1>1. ASSUME NEW r \in Requests, NEW p \in Proofs, Presenting(r, p) PROVE TypeOK'
  <2>1. ASSUME NEW t \in Recently, Request(r, p, t) PROVE TypeOK'
    <3>1. replay' \in SUBSET Proofs /\ accepted' \in [Proofs -> 0..2]
      BY <2>1, RememberType DEF Request
    <3>2. t \in Nat
      BY BoundsAssumption DEF TypeOK, Recently
    <3>3. row' \in [Requests -> Rows \cup {None}]
      BY <2>1, <3>2, ProofsAssumption DEF Request, TypeOK, Rows, Statuses
    <3> QED BY <2>1, <3>1, <3>3 DEF Request, TypeOK
  <2>2. CASE Review(r, p)
    BY <2>2, RememberType DEF Review, TypeOK
  <2>3. CASE Approve(r, p)
    <3>1. replay' \in SUBSET Proofs /\ accepted' \in [Proofs -> 0..2]
      BY <2>3, RememberType DEF Approve, Accept
    <3>2. row[r] \in Rows
      BY <2>3, RowAt DEF Approve, Live
    <3>3. Decided(r, p) \in Rows
      BY <2>3, DecidedIsRow DEF Approve, Live
    <3>4. /\ row' \in [Requests -> Rows \cup {None}]
          /\ \A y \in Execs : run[y].pc # "idle" => /\ run[y].req \in Requests
                                                  /\ row'[run[y].req] \in Rows
      BY <2>3, <3>3, OneRowChanges DEF Approve
    <3> QED BY <2>3, <3>1, <3>4 DEF Approve, TypeOK
  <2>4. CASE Revoke(r, p)
    <3>1. replay' \in SUBSET Proofs /\ accepted' \in [Proofs -> 0..2]
      BY <2>4, RememberType DEF Revoke, Accept
    <3>2. [row[r] EXCEPT !.status = "revoked"] \in Rows
      BY <2>4, RowAt, RowUpdates DEF Revoke, Statuses
    <3>3. /\ row' \in [Requests -> Rows \cup {None}]
          /\ \A y \in Execs : run[y].pc # "idle" => /\ run[y].req \in Requests
                                                  /\ row'[run[y].req] \in Rows
      BY <2>4, <3>2, OneRowChanges DEF Revoke
    <3> QED BY <2>4, <3>1, <3>3 DEF Revoke, TypeOK
  <2>5. ASSUME NEW proof \in Proofs, Redeem(r, p, proof) PROVE TypeOK'
    <3>1. replay' \in SUBSET Proofs /\ accepted' \in [Proofs -> 0..2]
      BY <2>5, RememberType DEF Redeem
    <3>2. row[r] \in Rows
      BY <2>5, RowAt DEF Redeem, Live
    <3>3. Lesser(row[r].expires, now + TokenLife) \in Nat
      <4>1. row[r].expires \in Nat
        BY <3>2 DEF Rows
      <4>2. now + TokenLife \in Nat
        BY BoundsAssumption DEF TypeOK
      <4> QED BY <4>1, <4>2, LesserNat
    <3>4. [row[r] EXCEPT !.status = "issued",
                         !.token = Lesser(row[r].expires, now + TokenLife)] \in Rows
      BY <3>2, <3>3, RowUpdates DEF Statuses
    <3>5. /\ row' \in [Requests -> Rows \cup {None}]
          /\ \A y \in Execs : run[y].pc # "idle" => /\ run[y].req \in Requests
                                                  /\ row'[run[y].req] \in Rows
      BY <2>5, <3>4, OneRowChanges DEF Redeem
    <3> QED BY <2>5, <3>1, <3>5 DEF Redeem, TypeOK
  <2>6. ASSUME NEW x \in Execs, Consume(x, r, p) PROVE TypeOK'
    <3>1. replay' \in SUBSET Proofs /\ accepted' \in [Proofs -> 0..2]
      BY <2>6, RememberType DEF Consume, Accept
    <3>2. [row[r] EXCEPT !.status = "consumed"] \in Rows
      BY <2>6, RowAt, RowUpdates DEF Consume, Executable, Live, Statuses
    <3>3. /\ row' \in [Requests -> Rows \cup {None}]
          /\ \A y \in Execs : run[y].pc # "idle" => /\ run[y].req \in Requests
                                                  /\ row'[run[y].req] \in Rows
      BY <2>6, <3>2, OneRowChanges DEF Consume
    <3>4. row'[r] \in Rows
      BY <2>6, <3>2 DEF Consume, TypeOK
    <3>5. run' = [run EXCEPT ![x] = [pc |-> "consumed", req |-> r]]
      BY <2>6 DEF Consume
    <3>6. run' \in [Execs -> [pc : {"idle", "consumed", "dispatched", "done", "dead"},
                             req : Requests \cup {None}]]
      BY <3>5 DEF TypeOK
    <3>7. \A y \in Execs : run'[y].pc # "idle" => /\ run'[y].req \in Requests
                                                 /\ row'[run'[y].req] \in Rows
      BY <3>3, <3>4, <3>5 DEF TypeOK
    <3> QED BY <2>6, <3>1, <3>3, <3>6, <3>7 DEF Consume, TypeOK
  <2>7. CASE Collect(r, p)
    BY <2>7, RememberType DEF Collect, TypeOK
  <2> QED BY <1>1, <2>1, <2>2, <2>3, <2>4, <2>5, <2>6, <2>7 DEF Presenting
<1>2. ASSUME NEW r \in Requests, SendCallback(r) PROVE TypeOK'
  <2>1. [req |-> r, decision |-> row[r].callback, exp |-> row[r].expires] \in Messages
    BY <1>2, RowAt DEF SendCallback, Live, Messages, Rows
  <2> QED BY <1>2, <2>1 DEF SendCallback, TypeOK, service
<1>3. ASSUME NEW r \in Requests, Expect(r) PROVE TypeOK'
  <2>1. [expires |-> row[r].asked, callback |-> None] \in InboxRows
    BY <1>3, RowAt DEF Expect, InboxRows, Rows
  <2> QED BY <1>3, <2>1 DEF Expect, TypeOK, service
<1>4. ASSUME NEW x \in Execs, Running(x) PROVE TypeOK'
  <2>1. CASE Dispatch(x)
    BY <2>1 DEF Dispatch, TypeOK, service
  <2>2. ASSUME NEW o \in Replies \cup {"unknown", "not_dispatched"}, StoreResult(x, o)
        PROVE TypeOK'
    <3>1. run[x].req \in Requests
      BY <2>2 DEF StoreResult, TypeOK
    <3>2. [row[run[x].req] EXCEPT !.result = Reported(o)] \in Rows
      <4>1. row[run[x].req] \in Rows
        BY <2>2 DEF StoreResult, TypeOK
      <4>2. Reported(o) \in Replies \cup {"not_dispatched", "unknown"}
        BY <2>2, ReportsInResults DEF StoreResult
      <4>3. "consumed" \in Statuses
        BY DEF Statuses
      <4> QED BY <4>1, <4>2, <4>3, RowUpdates
    <3> QED BY <2>2, <3>1, <3>2 DEF StoreResult, TypeOK
  <2>3. CASE Lose(x)
    BY <2>3 DEF Lose, TypeOK, service
  <2> QED BY <1>4, <2>1, <2>2, <2>3 DEF Running
<1>5. ASSUME NEW m \in wire, Receive(m) PROVE TypeOK'
  <2>1. m \in Messages /\ m.req \in Requests
    BY DEF TypeOK, Messages
  <2>2. inbox[m.req] \in InboxRows
    BY <1>5, <2>1 DEF Receive, TypeOK
  <2>3. [inbox[m.req] EXCEPT !.callback = m] \in InboxRows
    BY <2>1, <2>2 DEF InboxRows
  <2> QED BY <1>5, <2>1, <2>3 DEF Receive, TypeOK, service
<1>6. CASE Tick
  BY <1>6 DEF Tick, TypeOK, service
<1>7. CASE UNCHANGED vars
  BY <1>7 DEF vars, TypeOK
<1> QED BY <1>1, <1>2, <1>3, <1>4, <1>5, <1>6, <1>7 DEF Next

\* Every variable of the delegated flow keeps its type (service.py, store.py,
\* redeem.py, execution.py, client.py).
THEOREM FlowTypeCorrect == Spec => []TypeOK
<1>1. Init => TypeOK BY InitTypeOK
<1>2. TypeOK /\ [Next]_vars => TypeOK' BY NextTypeOK
<1> QED BY <1>1, <1>2, PTL DEF Spec

--------------------------------------------------------------------------------
(* Proofs are accepted once. *)

Locked == {"approval", "client-auth", "dpop"}

\* An accepted proof is remembered, or forgotten when its window had closed.
Once(p) ==
  accepted[p] = 0 \/ (accepted[p] = 1 /\ (p \in replay \/ Remembered(p) < now))

OnceInv == TypeOK /\ \A p \in Proofs : p.kind \in Locked => Once(p)

\* While a proof is valid it is not yet forgotten.
LEMMA ValidIsRemembered ==
  ASSUME NEW p \in Proofs, now \in Nat, p.kind \in Locked, ValidAt(p, now)
  PROVE  Remembered(p) >= now
  BY ProofsAssumption, BoundsAssumption DEF ValidAt, Remembered, Locked

LEMMA RememberedNat == ASSUME NEW p \in Proofs PROVE Remembered(p) \in Nat
  BY ProofsAssumption, BoundsAssumption DEF Remembered

LEMMA RememberOnce ==
  ASSUME TypeOK, NEW ps \in SUBSET Proofs, Remember(ps), now' = now,
         NEW p \in Proofs, p.kind \in Locked, Once(p),
         p \in ps => ValidAt(p, now)
  PROVE  Once(p)'
<1>1. now \in Nat /\ Remembered(p) \in Nat /\ accepted[p] \in 0..2
  BY RememberedNat DEF TypeOK
<1>2. Remembered(p)' = Remembered(p)
  BY DEF Remembered
<1>3. CASE p \in ps
  <2>1. Remembered(p) >= now
    BY <1>1, <1>3, ValidIsRemembered
  <2>2. p \notin replay
    BY <2>1, <1>3 DEF Remember, Unexpired
  <2>3. accepted[p] = 0
    BY <1>1, <2>1, <2>2 DEF Once
  <2>4. accepted'[p] = 1 /\ p \in replay'
    BY <1>3, <2>3 DEF Remember, Lesser
  <2> QED BY <2>4 DEF Once
<1>4. CASE p \notin ps
  <2>1. accepted'[p] = accepted[p]
    BY <1>4 DEF Remember
  <2>2. p \in replay => p \in replay' \/ Remembered(p) < now
    BY <1>1 DEF Remember, Unexpired
  <2> QED BY <1>1, <1>2, <2>1, <2>2 DEF Once
<1> QED BY <1>3, <1>4

LEMMA NextOnceInv == OnceInv /\ [Next]_vars => OnceInv'
<1> SUFFICES ASSUME OnceInv, [Next]_vars PROVE OnceInv'
  OBVIOUS
<1>0. TypeOK /\ TypeOK'
  BY NextTypeOK DEF OnceInv
<1> SUFFICES ASSUME NEW q \in Proofs, q.kind \in Locked PROVE Once(q)'
  BY <1>0 DEF OnceInv
<1>a. Once(q)
  BY DEF OnceInv
<1>b. Remembered(q)' = Remembered(q) /\ Remembered(q) \in Nat /\ now \in Nat
  BY <1>0, RememberedNat DEF Remembered, TypeOK
<1>1. ASSUME NEW r \in Requests, NEW p \in Proofs, Presenting(r, p) PROVE Once(q)'
  <2>1. ASSUME NEW t \in Recently, Request(r, p, t) PROVE Once(q)'
    <3>1. q # p
      BY <2>1 DEF Request, Locked
    <3> QED BY <1>0, <1>a, <2>1, <3>1, RememberOnce DEF Request
  <2>2. CASE Review(r, p)
    <3>1. q # p
      BY <2>2 DEF Review, Locked
    <3> QED BY <1>0, <1>a, <2>2, <3>1, RememberOnce DEF Review
  <2>3. CASE Approve(r, p)
    BY <1>0, <1>a, <2>3, RememberOnce DEF Approve, Accept
  <2>4. CASE Revoke(r, p)
    BY <1>0, <1>a, <2>4, RememberOnce DEF Revoke, Accept
  <2>5. ASSUME NEW proof \in Proofs, Redeem(r, p, proof) PROVE Once(q)'
    BY <1>0, <1>a, <2>5, RememberOnce DEF Redeem
  <2>6. ASSUME NEW x \in Execs, Consume(x, r, p) PROVE Once(q)'
    BY <1>0, <1>a, <2>6, RememberOnce DEF Consume, Accept
  <2>7. CASE Collect(r, p)
    <3>1. q # p
      BY <2>7 DEF Collect, Locked
    <3> QED BY <1>0, <1>a, <2>7, <3>1, RememberOnce DEF Collect
  <2> QED BY <1>1, <2>1, <2>2, <2>3, <2>4, <2>5, <2>6, <2>7 DEF Presenting
<1>2. ASSUME NEW r \in Requests, SendCallback(r) \/ Expect(r) PROVE Once(q)'
  BY <1>2, <1>a, <1>b DEF SendCallback, Expect, service, Once
<1>3. ASSUME NEW x \in Execs, Running(x) PROVE Once(q)'
  BY <1>3, <1>a, <1>b DEF Running, Dispatch, StoreResult, Lose, service, Once
<1>4. ASSUME NEW c \in wire, Receive(c) PROVE Once(q)'
  BY <1>4, <1>a, <1>b DEF Receive, service, Once
<1>5. CASE Tick
  BY <1>5, <1>a, <1>b DEF Tick, service, Once
<1>6. CASE UNCHANGED vars
  BY <1>6, <1>a, <1>b DEF vars, Once
<1> QED BY <1>1, <1>2, <1>3, <1>4, <1>5, <1>6 DEF Next

\* A statement checked under the database lock is accepted at most once, for any
\* windows, skew and capacity (Store.replay, crypto.valid, crypto.check_dpop).
THEOREM LockedProofsOnce == Spec => []ProofAcceptedOnce
<1>1. Init => OnceInv
  BY InitTypeOK DEF Init, OnceInv, Once
<1>2. OnceInv /\ [Next]_vars => OnceInv'
  BY NextOnceInv
<1>3. OnceInv => ProofAcceptedOnce
  BY DEF OnceInv, Once, ProofAcceptedOnce, Locked
<1> QED BY <1>1, <1>2, <1>3, PTL DEF Spec

--------------------------------------------------------------------------------
(* One approval, one effect. *)

\* At most one execution ever works for a request, and only once its row says
\* consumed; where that execution stands tells how many effects there were, and
\* a stored result means it is over.
Sound(r) ==
  /\ (row[r] = None \/ row[r].status # "consumed") =>
       /\ effects[r] = 0
       /\ \A x \in Execs : run[x].req # r
       /\ row[r] # None => row[r].result = None
  /\ \A x, y \in Execs : run[x].req = r /\ run[y].req = r => x = y
  /\ \A x \in Execs : run[x].req = r =>
       /\ run[x].pc # "idle"
       /\ run[x].pc = "consumed" => effects[r] = 0
       /\ run[x].pc = "dispatched" => effects[r] = 1
       /\ run[x].pc # "done" => row[r].result = None
  /\ effects[r] \in {0, 1}
  /\ (row[r] # None /\ row[r].result # None) =>
       /\ row[r].result = "not_dispatched" => effects[r] = 0
       /\ row[r].result \in Replies => effects[r] = 1

OneEffectInv == TypeOK /\ \A r \in Requests : Sound(r)

\* A step that leaves executions and effects alone, and moves one row between
\* statuses other than consumed without touching its result.
LEMMA UnconsumedStep ==
  ASSUME TypeOK, NEW q \in Requests, Sound(q), NEW r \in Requests, NEW c,
         row' = [row EXCEPT ![r] = c], c.status # "consumed", c.result = None,
         row[r] = None \/ row[r].status # "consumed",
         UNCHANGED <<run, effects>>
  PROVE  Sound(q)'
<1>1. CASE q = r
  <2>1. row'[r] = c
    BY DEF TypeOK
  <2> QED BY <1>1, <2>1 DEF Sound
<1>2. CASE q # r
  <2>1. row'[q] = row[q]
    BY <1>2 DEF TypeOK
  <2> QED BY <2>1 DEF Sound
<1> QED BY <1>1, <1>2

LEMMA UnchangedSound ==
  ASSUME NEW q \in Requests, Sound(q), UNCHANGED <<row, run, effects>>
  PROVE  Sound(q)'
  BY DEF Sound

\* The rows written by the endpoints.
LEMMA WrittenRows ==
  ASSUME NEW c \in Rows, NEW s, NEW n, NEW d
  PROVE  /\ [c EXCEPT !.status = s].status = s
         /\ [c EXCEPT !.status = s].result = c.result
         /\ [c EXCEPT !.status = s, !.token = n].status = s
         /\ [c EXCEPT !.status = s, !.token = n].result = c.result
         /\ [c EXCEPT !.status = s, !.expires = n, !.callback = d].status = s
         /\ [c EXCEPT !.status = s, !.expires = n, !.callback = d].result = c.result
  BY DEF Rows

LEMMA NextOneEffectInv == OneEffectInv /\ [Next]_vars => OneEffectInv'
<1> SUFFICES ASSUME OneEffectInv, [Next]_vars PROVE OneEffectInv'
  OBVIOUS
<1>0. TypeOK /\ TypeOK'
  BY NextTypeOK DEF OneEffectInv
<1> SUFFICES ASSUME NEW q \in Requests PROVE Sound(q)'
  BY <1>0 DEF OneEffectInv
<1>a. Sound(q)
  BY DEF OneEffectInv
<1>1. ASSUME NEW r \in Requests, NEW p \in Proofs, Presenting(r, p) PROVE Sound(q)'
  <2>a. Sound(r)
    BY DEF OneEffectInv
  <2>b. row[r] # None => row[r] \in Rows
    BY <1>0, RowAt
  <2>1. ASSUME NEW t \in Recently, Request(r, p, t) PROVE Sound(q)'
    <3> DEFINE c == [status |-> "pending", asked |-> p.exp, actor |-> t, ack |-> now,
                     expires |-> p.exp, callback |-> None, token |-> 0, result |-> None]
    <3>1. row' = [row EXCEPT ![r] = c] /\ row[r] = None /\ UNCHANGED <<run, effects>>
      BY <2>1 DEF Request
    <3>2. c.status # "consumed" /\ c.result = None
      OBVIOUS
    <3> HIDE DEF c
    <3> QED BY <1>0, <1>a, <3>1, <3>2, UnconsumedStep
  <2>2. CASE Review(r, p)
    BY <1>a, <2>2, UnchangedSound DEF Review
  <2>3. CASE Approve(r, p)
    <3>1. row[r] # None /\ row[r].status # "consumed" /\ row[r].result = None
      BY <2>3, <2>a DEF Approve, Live, Sound
    <3>2. Decided(r, p).status # "consumed" /\ Decided(r, p).result = None
      BY <2>b, <3>1, WrittenRows DEF Decided
    <3>3. row' = [row EXCEPT ![r] = Decided(r, p)] /\ UNCHANGED <<run, effects>>
      BY <2>3 DEF Approve
    <3> QED BY <1>0, <1>a, <3>1, <3>2, <3>3, UnconsumedStep
  <2>4. CASE Revoke(r, p)
    <3> DEFINE c == [row[r] EXCEPT !.status = "revoked"]
    <3>1. row[r] # None /\ row[r].status # "consumed" /\ row[r].result = None
      BY <2>4, <2>a DEF Revoke, Revocable, Sound
    <3>2. c.status # "consumed" /\ c.result = None
      BY <2>b, <3>1, WrittenRows
    <3>3. row' = [row EXCEPT ![r] = c] /\ UNCHANGED <<run, effects>>
      BY <2>4 DEF Revoke
    <3> HIDE DEF c
    <3> QED BY <1>0, <1>a, <3>1, <3>2, <3>3, UnconsumedStep
  <2>5. ASSUME NEW proof \in Proofs, Redeem(r, p, proof) PROVE Sound(q)'
    <3> DEFINE c == [row[r] EXCEPT !.status = "issued",
                                   !.token = Lesser(row[r].expires, now + TokenLife)]
    <3>1. row[r] # None /\ row[r].status # "consumed" /\ row[r].result = None
      BY <2>5, <2>a DEF Redeem, Live, Sound
    <3>2. c.status # "consumed" /\ c.result = None
      BY <2>b, <3>1, WrittenRows
    <3>3. row' = [row EXCEPT ![r] = c] /\ UNCHANGED <<run, effects>>
      BY <2>5 DEF Redeem
    <3> HIDE DEF c
    <3> QED BY <1>0, <1>a, <3>1, <3>2, <3>3, UnconsumedStep
  <2>6. ASSUME NEW x \in Execs, Consume(x, r, p) PROVE Sound(q)'
    <3>1. row[r] # None /\ row[r].status # "consumed" /\ run[x].pc = "idle"
      BY <2>6 DEF Consume, Executable, Live
    <3>2. effects[r] = 0 /\ row[r].result = None /\ \A y \in Execs : run[y].req # r
      BY <3>1, <2>a DEF Sound
    <3>3. row'[r].status = "consumed" /\ row'[r].result = None
      BY <2>6, <2>b, <3>1, <3>2, WrittenRows DEF Consume, TypeOK, OneEffectInv
    <3>4. /\ run' = [run EXCEPT ![x] = [pc |-> "consumed", req |-> r]]
          /\ effects' = effects
      BY <2>6 DEF Consume
    <3>5. CASE q = r
      <4>1. run'[x].req = r /\ run'[x].pc = "consumed"
        BY <1>0, <3>4 DEF TypeOK
      <4>2. \A y \in Execs : run'[y].req = r => y = x
        BY <1>0, <3>2, <3>4 DEF TypeOK
      <4>3. row'[r] # None
        <5>1. [row[r] EXCEPT !.status = "consumed"] \in Rows
          BY <2>b, <3>1, RowUpdates DEF Statuses
        <5>2. row'[r] = [row[r] EXCEPT !.status = "consumed"]
          BY <2>6, <1>0 DEF Consume, TypeOK
        <5> QED BY <5>1, <5>2, NoneAssumption
      <4> QED BY <3>2, <3>3, <3>4, <3>5, <4>1, <4>2, <4>3 DEF Sound
    <3>6. CASE q # r
      <4>1. row'[q] = row[q]
        BY <2>6, <3>6, <1>0 DEF Consume, TypeOK
      <4>2. \A y \in Execs : run'[y].req = q => run'[y] = run[y]
        BY <3>4, <3>6, <1>0 DEF TypeOK
      <4> QED BY <1>a, <3>4, <4>1, <4>2 DEF Sound
    <3> QED BY <3>5, <3>6
  <2>7. CASE Collect(r, p)
    BY <1>a, <2>7, UnchangedSound DEF Collect
  <2> QED BY <1>1, <2>1, <2>2, <2>3, <2>4, <2>5, <2>6, <2>7 DEF Presenting
<1>2. ASSUME NEW r \in Requests, SendCallback(r) \/ Expect(r) PROVE Sound(q)'
  BY <1>2, <1>a, UnchangedSound DEF SendCallback, Expect, service
<1>3. ASSUME NEW x \in Execs, Running(x) PROVE Sound(q)'
  <2>1. CASE Dispatch(x)
    <3>1. run' = [run EXCEPT ![x].pc = "dispatched"] /\ run[x].pc = "consumed"
      BY <2>1 DEF Dispatch
    <3>2. effects' = [effects EXCEPT ![run[x].req] = @ + 1] /\ row' = row
      BY <2>1 DEF Dispatch, service
    <3>3. \A y \in Execs : run'[y].req = run[y].req
      BY <3>1, <1>0 DEF TypeOK
    <3>4. CASE run[x].req = q
      <4>1. \A y \in Execs : run[y].req = q => y = x
        BY <1>a, <3>4 DEF Sound
      <4>2. effects[q] = 0 /\ effects'[q] = 1 /\ run'[x].pc = "dispatched"
        BY <1>a, <1>0, <3>1, <3>2, <3>4 DEF Sound, TypeOK
      <4>3. row[q].result = None /\ row[q] # None /\ row[q].status = "consumed"
        BY <1>a, <3>1, <3>4 DEF Sound
      <4> QED BY <3>2, <3>3, <4>1, <4>2, <4>3 DEF Sound
    <3>5. CASE run[x].req # q
      <4>1. effects'[q] = effects[q]
        BY <1>0, <3>2, <3>5 DEF TypeOK
      <4>2. \A y \in Execs : run'[y].req = q => run'[y] = run[y]
        BY <1>0, <3>1, <3>5 DEF TypeOK
      <4> QED BY <1>a, <3>2, <3>3, <4>1, <4>2 DEF Sound
    <3> QED BY <3>4, <3>5
  <2>2. ASSUME NEW o \in Replies \cup {"unknown", "not_dispatched"}, StoreResult(x, o)
        PROVE Sound(q)'
    <3>1. /\ run' = [run EXCEPT ![x].pc = "done"]
          /\ run[x].pc \in {"consumed", "dispatched"} /\ o \in Reports(run[x].pc)
          /\ effects' = effects
          /\ row' = [row EXCEPT ![run[x].req].result = o]
      BY <2>2 DEF StoreResult, Reported
    <3>2. \A y \in Execs : run'[y].req = run[y].req
      BY <3>1, <1>0 DEF TypeOK
    <3>3. CASE run[x].req = q
      <4>1. row[q] \in Rows
        BY <1>0, <3>1, <3>3 DEF TypeOK
      <4>2. row[q] # None /\ row[q].status = "consumed"
        BY <1>a, <3>3 DEF Sound
      <4>3. row'[q].status = "consumed" /\ row'[q].result = o
        BY <1>0, <3>1, <3>3, <4>1, <4>2 DEF TypeOK, Rows
      <4>4. \A y \in Execs : run[y].req = q => run'[y].pc = "done"
        BY <1>a, <1>0, <3>1, <3>3 DEF Sound, TypeOK
      <4>5. /\ o = "not_dispatched" => effects[q] = 0
            /\ o \in Replies => effects[q] = 1
        BY <1>a, <3>1, <3>3 DEF Sound, Reports, Replies
      <4>6. effects[q] \in {0, 1} /\ \A y, z \in Execs :
              run[y].req = q /\ run[z].req = q => y = z
        BY <1>a DEF Sound
      <4>7. row'[q] # None
        <5>1. [row[q] EXCEPT !.result = o] \in Rows
          BY <2>2, <4>1, RowUpdates DEF Statuses
        <5>2. row'[q] = [row[q] EXCEPT !.result = o]
          BY <1>0, <3>1, <3>3 DEF TypeOK
        <5> QED BY <5>1, <5>2, NoneAssumption
      <4> QED BY <3>1, <3>2, <4>3, <4>4, <4>5, <4>6, <4>7 DEF Sound
    <3>4. CASE run[x].req # q
      <4>1. row'[q] = row[q]
        BY <1>0, <3>1, <3>4 DEF TypeOK
      <4>2. \A y \in Execs : run'[y].req = q => run'[y] = run[y]
        BY <1>0, <3>1, <3>4 DEF TypeOK
      <4>3. effects'[q] = effects[q]
        BY <3>1
      <4> QED BY <1>a, <3>2, <4>1, <4>2, <4>3 DEF Sound
    <3> QED BY <3>3, <3>4
  <2>3. CASE Lose(x)
    <3>1. /\ run' = [run EXCEPT ![x].pc = "dead"]
          /\ run[x].pc \in {"consumed", "dispatched"}
          /\ UNCHANGED <<row, effects>>
      BY <2>3 DEF Lose, service
    <3>2. \A y \in Execs : run'[y].req = run[y].req
      BY <3>1, <1>0 DEF TypeOK
    <3>3. \A y \in Execs : y # x => run'[y] = run[y]
      BY <3>1, <1>0 DEF TypeOK
    <3>4. run'[x].pc = "dead"
      BY <3>1, <1>0 DEF TypeOK
    <3> QED BY <1>a, <3>1, <3>2, <3>3, <3>4 DEF Sound
  <2> QED BY <1>3, <2>1, <2>2, <2>3 DEF Running
<1>4. ASSUME NEW m \in wire, Receive(m) PROVE Sound(q)'
  BY <1>4, <1>a, UnchangedSound DEF Receive, service
<1>5. CASE Tick
  BY <1>5, <1>a, UnchangedSound DEF Tick, service
<1>6. CASE UNCHANGED vars
  BY <1>6, <1>a, UnchangedSound DEF vars
<1> QED BY <1>1, <1>2, <1>3, <1>4, <1>5, <1>6 DEF Next

LEMMA OneEffectInvariant == Spec => []OneEffectInv
<1>1. Init => OneEffectInv
  BY InitTypeOK, BoundsAssumption DEF Init, OneEffectInv, Sound
<1>2. OneEffectInv /\ [Next]_vars => OneEffectInv'
  BY NextOneEffectInv
<1> QED BY <1>1, <1>2, PTL DEF Spec

\* The provider sees an approved action at most once, for any number of requests,
\* executions and repeated statements (redeem.py, execution.py).
THEOREM AtMostOneEffect == Spec => []OneEffect
<1>1. OneEffectInv => OneEffect
  BY DEF OneEffectInv, Sound, OneEffect
<1> QED BY <1>1, OneEffectInvariant, PTL

\* A revoked or denied request never acts (service.revoke, service.approve).
THEOREM RevocationExcludesEffect == Spec => []RevokedNeverActs
<1>1. OneEffectInv => RevokedNeverActs
  BY DEF OneEffectInv, Sound, RevokedNeverActs
<1> QED BY <1>1, OneEffectInvariant, PTL

\* A stored result agrees with what the provider saw (execution.execute).
THEOREM ResultsTellTheTruth == Spec => []ResultTruthful
<1>1. OneEffectInv => ResultTruthful
  BY DEF OneEffectInv, Sound, ResultTruthful
<1> QED BY <1>1, OneEffectInvariant, PTL

--------------------------------------------------------------------------------
(* The terms of a request: what its row, the wire and the inbox say of it. *)

\* The owner's statement that a row's approval rests on.
Basis(r, p) ==
  /\ p.kind = "approval" /\ p.about = r /\ p.says = "approve"
  /\ accepted[p] > 0
  /\ row[r].expires <= p.exp

\* A decision is taken once, narrows the expiry, and is what the wire carries and
\* the inbox holds; a pending row has none, so nothing was sent about it.
Terms(r) ==
  /\ row[r] # None =>
       /\ row[r].expires <= row[r].asked
       /\ row[r].status = "pending" => row[r].callback = None
       /\ row[r].status = "denied" => row[r].callback = "deny"
       /\ row[r].status \in {"approved", "issued", "consumed"} => row[r].callback = "approve"
       /\ row[r].callback = "approve" => \E p \in Proofs : Basis(r, p)
  /\ \A m \in wire : m.req = r =>
       /\ row[r] # None
       /\ m.decision = row[r].callback
       /\ m.exp = row[r].expires
  /\ inbox[r] # None =>
       /\ row[r] # None
       /\ row[r].expires <= inbox[r].expires
       /\ inbox[r].callback # None =>
            /\ inbox[r].callback.decision = row[r].callback
            /\ inbox[r].callback.exp = row[r].expires

TermsInv == TypeOK /\ \A r \in Requests : Terms(r)

LEMMA RememberCounts ==
  ASSUME TypeOK, NEW ps \in SUBSET Proofs, Remember(ps), NEW p \in Proofs
  PROVE  /\ accepted[p] > 0 => accepted'[p] > 0
         /\ p \in ps => accepted'[p] > 0
<1>1. accepted[p] \in 0..2
  BY DEF TypeOK
<1>2. Lesser(accepted[p] + 1, 2) > 0
  BY <1>1 DEF Lesser
<1> QED BY <1>1, <1>2 DEF Remember

\* A step that keeps the terms of a row, where it had any, keeps the agreement.
LEMMA TermsKept ==
  ASSUME NEW q \in Requests, Terms(q),
         row[q] = None => row'[q] = None,
         row[q] # None =>
           /\ row'[q] # None
           /\ row'[q].expires = row[q].expires /\ row'[q].asked = row[q].asked
           /\ row'[q].callback = row[q].callback
           /\ \/ row'[q].status = row[q].status
              \/ row'[q].status = "revoked"
              \/ row'[q].status \in {"issued", "consumed"} /\ row[q].callback = "approve",
         \A m \in wire' : m.req = q => m \in wire,
         inbox'[q] = inbox[q],
         \A p \in Proofs : accepted[p] > 0 => accepted'[p] > 0
  PROVE  Terms(q)'
<1>1. row[q] # None => \A p \in Proofs : Basis(q, p) => Basis(q, p)'
  BY DEF Basis
<1>2. row'[q] # None => row[q] # None
  OBVIOUS
<1>3. row'[q] # None =>
        /\ row'[q].expires <= row'[q].asked
        /\ row'[q].status = "pending" => row'[q].callback = None
        /\ row'[q].status = "denied" => row'[q].callback = "deny"
        /\ row'[q].status \in {"approved", "issued", "consumed"} => row'[q].callback = "approve"
        /\ row'[q].callback = "approve" => \E p \in Proofs : Basis(q, p)'
  BY <1>1, <1>2 DEF Terms
<1>4. \A m \in wire' : m.req = q =>
        /\ row'[q] # None
        /\ m.decision = row'[q].callback
        /\ m.exp = row'[q].expires
  BY DEF Terms
<1>5. inbox'[q] # None =>
        /\ row'[q] # None
        /\ row'[q].expires <= inbox'[q].expires
        /\ inbox'[q].callback # None =>
             /\ inbox'[q].callback.decision = row'[q].callback
             /\ inbox'[q].callback.exp = row'[q].expires
  BY DEF Terms
<1> QED BY <1>3, <1>4, <1>5 DEF Terms

\* What the updates of a row do to its terms.
LEMMA UpdatedTerms ==
  ASSUME TypeOK, NEW r \in Requests, row[r] # None, NEW c, row' = [row EXCEPT ![r] = c],
         \/ \E s \in Statuses : c = [row[r] EXCEPT !.status = s]
         \/ \E s \in Statuses, n \in Nat : c = [row[r] EXCEPT !.status = s, !.token = n]
         \/ \E o \in Replies \cup {"not_dispatched", "unknown"} : c = [row[r] EXCEPT !.result = o]
  PROVE  /\ row'[r] # None /\ row'[r].status = c.status
         /\ row'[r].expires = row[r].expires /\ row'[r].asked = row[r].asked
         /\ row'[r].callback = row[r].callback
         /\ \A q \in Requests \ {r} : row'[q] = row[q]
<1>1. row[r] \in Rows /\ row'[r] = c /\ \A q \in Requests \ {r} : row'[q] = row[q]
  BY RowAt DEF TypeOK
<1>2. "pending" \in Statuses
  BY DEF Statuses
<1>3. c \in Rows
  <2>1. CASE \E s \in Statuses : c = [row[r] EXCEPT !.status = s]
    BY <1>1, <2>1, RowUpdates
  <2>2. CASE \E s \in Statuses, n \in Nat : c = [row[r] EXCEPT !.status = s, !.token = n]
    <3>1. PICK s \in Statuses, n \in Nat : c = [row[r] EXCEPT !.status = s, !.token = n]
      BY <2>2
    <3>2. [row[r] EXCEPT !.status = s, !.token = n] \in Rows
      BY <1>1, RowUpdates
    <3> QED BY <3>1, <3>2
  <2>3. CASE \E o \in Replies \cup {"not_dispatched", "unknown"} : c = [row[r] EXCEPT !.result = o]
    BY <1>1, <1>2, <2>3, RowUpdates
  <2> QED BY <2>1, <2>2, <2>3
<1>4. c.expires = row[r].expires /\ c.asked = row[r].asked /\ c.callback = row[r].callback
  BY <1>1 DEF Rows
<1> QED BY <1>1, <1>3, <1>4, NoneAssumption

LEMMA PresentingKeepsTerms ==
  ASSUME TypeOK, \A q \in Requests : Terms(q),
         NEW r \in Requests, NEW p \in Proofs, Presenting(r, p), NEW q \in Requests
  PROVE  Terms(q)'
<1>t. row[r] # None => row[r] \in Rows
  BY RowAt
<1>1. ASSUME NEW t \in Recently, Request(r, p, t) PROVE Terms(q)'
  <2> DEFINE c == [status |-> "pending", asked |-> p.exp, actor |-> t, ack |-> now,
                   expires |-> p.exp, callback |-> None, token |-> 0, result |-> None]
  <2>1. /\ row' = [row EXCEPT ![r] = c] /\ row[r] = None /\ wire' = wire /\ inbox' = inbox
        /\ Remember({p})
    BY <1>1 DEF Request
  <2>2. \A s \in Proofs : accepted[s] > 0 => accepted'[s] > 0
    BY <2>1, RememberCounts
  <2>3. c.status = "pending" /\ c.asked = p.exp /\ c.expires = p.exp /\ c.callback = None
    OBVIOUS
  <2>4. p.exp <= p.exp
    BY ProofsAssumption
  <2> HIDE DEF c
  <2>5. row'[r] = c /\ (q # r => row'[q] = row[q])
    BY <2>1 DEF TypeOK
  <2>6. CASE q = r
    <3>1. inbox[r] = None /\ \A m \in wire : m.req # r
      BY <2>1 DEF Terms
    <3> QED BY <2>1, <2>3, <2>4, <2>5, <2>6, <3>1, BoundsAssumption DEF Terms
  <2>7. CASE q # r
    BY <2>1, <2>2, <2>5, <2>7, TermsKept
  <2> QED BY <2>6, <2>7
<1>2. ASSUME Remember({p}), row' = row, wire' = wire, inbox' = inbox PROVE Terms(q)'
  <2>1. \A s \in Proofs : accepted[s] > 0 => accepted'[s] > 0
    BY <1>2, RememberCounts
  <2> QED BY <1>2, <2>1, TermsKept
<1>3. CASE Approve(r, p)
  <2>1. /\ Remember({p}) /\ row' = [row EXCEPT ![r] = Decided(r, p)] /\ wire' = wire
        /\ inbox' = inbox /\ row[r] # None /\ row[r].status = "pending"
        /\ p.kind = "approval" /\ p.about = r /\ p.says \in Decisions
    BY <1>3 DEF Approve, Accept, Live
  <2>2. \A s \in Proofs : accepted[s] > 0 => accepted'[s] > 0
    BY <2>1, RememberCounts
  <2>3. accepted'[p] > 0
    BY <2>1, RememberCounts
  <2>4. row'[r] = Decided(r, p) /\ (q # r => row'[q] = row[q])
    BY <2>1 DEF TypeOK
  <2>5. CASE q = r
    <3>1. row[r].callback = None /\ row[r].expires <= row[r].asked
      BY <2>1 DEF Terms
    <3>2. \A m \in wire : m.req # r
      BY <2>1, <3>1, BoundsAssumption DEF Terms, TypeOK, Messages, Decisions
    <3>3. inbox[r] # None => row[r].expires <= inbox[r].expires
      BY DEF Terms
    <3>4. inbox[r] # None => inbox[r].callback = None
      <4> SUFFICES ASSUME inbox[r] # None, inbox[r].callback # None PROVE FALSE
        OBVIOUS
      <4>1. inbox[r].callback \in Messages
        BY DEF TypeOK, InboxRows
      <4>2. inbox[r].callback.decision \in Decisions
        BY <4>1 DEF Messages
      <4>3. inbox[r].callback.decision = None
        BY <3>1 DEF Terms
      <4> QED BY <4>2, <4>3, BoundsAssumption DEF Decisions
    <3>5. row[r].expires \in Nat /\ row[r].asked \in Nat /\ p.exp \in Nat
      BY <1>t, <2>1, ProofsAssumption DEF Rows
    <3>6. /\ Decided(r, p).status = (IF p.says = "approve" THEN "approved" ELSE "denied")
          /\ Decided(r, p).expires = Lesser(row[r].expires, p.exp)
          /\ Decided(r, p).callback = p.says
          /\ Decided(r, p).asked = row[r].asked
      BY <1>t, <2>1 DEF Decided, Rows
    <3>7. Lesser(row[r].expires, p.exp) <= row[r].expires /\ Lesser(row[r].expires, p.exp) <= p.exp
          /\ Lesser(row[r].expires, p.exp) \in Nat
      BY <3>5 DEF Lesser
    <3>8. p.says = "approve" => Basis(r, p)'
      BY <2>1, <2>3, <2>4, <3>6, <3>7 DEF Basis
    <3>9. Decided(r, p) # None
      BY <2>1, DecidedIsRow
    <3>10. row'[r].expires <= row'[r].asked
      BY <2>4, <3>1, <3>5, <3>6, <3>7
    <3>11. inbox[r] # None => row'[r].expires <= inbox[r].expires
      <4>1. inbox[r] # None => inbox[r].expires \in Nat
        BY DEF TypeOK, InboxRows
      <4> QED BY <2>4, <3>3, <3>5, <3>6, <3>7, <4>1
    <3>12. /\ row'[r].status # "pending"
           /\ row'[r].status = "denied" => row'[r].callback = "deny"
           /\ row'[r].status \in {"approved", "issued", "consumed"} => row'[r].callback = "approve"
           /\ row'[r].callback = "approve" => Basis(r, p)'
      BY <2>1, <2>4, <3>6, <3>8 DEF Decisions
    <3> QED BY <2>1, <2>4, <2>5, <3>2, <3>4, <3>9, <3>10, <3>11, <3>12 DEF Terms
  <2>6. CASE q # r
    BY <2>1, <2>2, <2>4, <2>6, TermsKept
  <2> QED BY <2>5, <2>6
\* Revocation, redemption and consumption keep the terms of the row.
<1>4. ASSUME NEW ps \in SUBSET Proofs, Remember(ps), row[r] # None,
             NEW c, row' = [row EXCEPT ![r] = c], wire' = wire, inbox' = inbox,
             \/ c.status = "revoked"
             \/ c.status \in {"issued", "consumed"} /\ row[r].callback = "approve",
             \/ \E s \in Statuses : c = [row[r] EXCEPT !.status = s]
             \/ \E s \in Statuses, n \in Nat : c = [row[r] EXCEPT !.status = s, !.token = n]
      PROVE Terms(q)'
  <2>1. \A s \in Proofs : accepted[s] > 0 => accepted'[s] > 0
    BY <1>4, RememberCounts
  <2>2. /\ row'[r] # None /\ row'[r].status = c.status
        /\ row'[r].expires = row[r].expires /\ row'[r].asked = row[r].asked
        /\ row'[r].callback = row[r].callback
        /\ \A k \in Requests \ {r} : row'[k] = row[k]
    BY <1>4, UpdatedTerms
  <2>3. CASE q = r
    BY <1>4, <2>1, <2>2, <2>3, TermsKept
  <2>4. CASE q # r
    <3>1. row'[q] = row[q]
      BY <2>2, <2>4
    <3> QED BY <1>4, <2>1, <3>1, TermsKept
  <2> QED BY <2>3, <2>4
<1>5. CASE Revoke(r, p)
  <2>1. [row[r] EXCEPT !.status = "revoked"].status = "revoked" /\ "revoked" \in Statuses
    BY <1>t, <1>5 DEF Revoke, Rows, Statuses
  <2> QED BY <1>4, <1>5, <2>1 DEF Revoke, Accept
<1>6. ASSUME NEW proof \in Proofs, Redeem(r, p, proof) PROVE Terms(q)'
  <2>1. Lesser(row[r].expires, now + TokenLife) \in Nat /\ "issued" \in Statuses
    BY <1>t, <1>6, BoundsAssumption DEF Redeem, Live, Rows, Lesser, Statuses, TypeOK
  <2>2. [row[r] EXCEPT !.status = "issued", !.token = Lesser(row[r].expires, now + TokenLife)].status
          = "issued"
    BY <1>t, <1>6 DEF Redeem, Live, Rows
  <2>3. {p, proof} \in SUBSET Proofs /\ row[r] # None
    BY <1>6 DEF Redeem, Live
  <2> QED BY <1>4, <1>6, <2>1, <2>2, <2>3 DEF Redeem
<1>7. ASSUME NEW x \in Execs, Consume(x, r, p) PROVE Terms(q)'
  <2>1. row[r] # None /\ row[r].status = "issued" /\ row[r].callback = "approve"
    BY <1>7 DEF Consume, Executable, Live, Terms
  <2>2. [row[r] EXCEPT !.status = "consumed"].status = "consumed" /\ "consumed" \in Statuses
    BY <1>t, <2>1 DEF Rows, Statuses
  <2> QED BY <1>4, <1>7, <2>1, <2>2 DEF Consume, Accept
<1> QED
  BY <1>1, <1>2, <1>3, <1>5, <1>6, <1>7 DEF Presenting, Review, Collect

LEMMA TermsNext == TermsInv /\ [Next]_vars => TermsInv'
<1> SUFFICES ASSUME TermsInv, [Next]_vars, NEW q \in Requests PROVE Terms(q)'
  BY NextTypeOK DEF TermsInv
<1> USE DEF service
<1>t. TypeOK /\ \A r \in Requests : Terms(r)
  BY DEF TermsInv
<1>1. ASSUME NEW r \in Requests, NEW p \in Proofs, Presenting(r, p) PROVE Terms(q)'
  BY <1>1, <1>t, PresentingKeepsTerms
<1>2. ASSUME NEW r \in Requests, SendCallback(r) PROVE Terms(q)'
  <2>1. /\ row' = row /\ inbox' = inbox /\ accepted' = accepted /\ row[r] # None
        /\ wire' = wire \cup {[req |-> r, decision |-> row[r].callback, exp |-> row[r].expires]}
    BY <1>2 DEF SendCallback, Live
  <2>2. CASE q = r
    BY <1>t, <2>1, <2>2 DEF Terms, Basis
  <2>3. CASE q # r
    BY <1>t, <2>1, <2>3, TermsKept
  <2> QED BY <2>2, <2>3
<1>3. ASSUME NEW r \in Requests, Expect(r) PROVE Terms(q)'
  <2>1. /\ row' = row /\ wire' = wire /\ accepted' = accepted /\ row[r] # None
        /\ inbox' = [inbox EXCEPT ![r] = [expires |-> row[r].asked, callback |-> None]]
    BY <1>3 DEF Expect
  <2>2. CASE q = r
    BY <1>t, <2>1, <2>2 DEF Terms, Basis, TypeOK
  <2>3. CASE q # r
    BY <1>t, <2>1, <2>3, TermsKept DEF TypeOK
  <2> QED BY <2>2, <2>3
<1>4. ASSUME NEW m \in wire, Receive(m) PROVE Terms(q)'
  <2>1. m.req \in Requests /\ inbox[m.req] # None /\ inbox[m.req] \in InboxRows
    BY <1>4, <1>t DEF Receive, TypeOK, Messages
  <2>2. /\ row' = row /\ wire' = wire /\ accepted' = accepted
        /\ inbox' = [inbox EXCEPT ![m.req].callback = m]
    BY <1>4 DEF Receive
  <2>3. CASE q = m.req
    <3>1. inbox'[q].callback = m /\ inbox'[q].expires = inbox[q].expires
      BY <1>t, <2>1, <2>2, <2>3 DEF TypeOK, InboxRows
    <3>2. row[q] # None /\ m.decision = row[q].callback /\ m.exp = row[q].expires
          /\ row[q].expires <= inbox[q].expires
      BY <1>t, <2>1, <2>3 DEF Terms
    <3> QED BY <1>t, <2>2, <3>1, <3>2 DEF Terms, Basis
  <2>4. CASE q # m.req
    BY <1>t, <2>1, <2>2, <2>4, TermsKept DEF TypeOK
  <2> QED BY <2>3, <2>4
<1>5. ASSUME NEW x \in Execs, Running(x) PROVE Terms(q)'
  <2>1. CASE row' = row /\ wire' = wire /\ inbox' = inbox /\ accepted' = accepted
    BY <1>t, <2>1, TermsKept
  <2>2. ASSUME NEW o \in Replies \cup {"unknown", "not_dispatched"}, StoreResult(x, o)
        PROVE Terms(q)'
    <3>1. PICK r \in Requests : r = run[x].req /\ row[r] # None
      BY <1>t, <2>2, NoneAssumption DEF StoreResult, TypeOK
    <3>2. row' = [row EXCEPT ![r] = [row[r] EXCEPT !.result = o]] /\ wire' = wire
          /\ inbox' = inbox /\ accepted' = accepted
      BY <2>2, <3>1 DEF StoreResult, Reported
    <3>3. [row[r] EXCEPT !.result = o].status = row[r].status
      BY <1>t, <3>1, RowAt DEF Rows
    <3>4. /\ row'[r] # None /\ row'[r].status = row[r].status
          /\ row'[r].expires = row[r].expires /\ row'[r].asked = row[r].asked
          /\ row'[r].callback = row[r].callback
          /\ \A k \in Requests \ {r} : row'[k] = row[k]
      BY <1>t, <3>1, <3>2, <3>3, UpdatedTerms
    <3>5. CASE q = r
      BY <1>t, <3>1, <3>2, <3>4, <3>5, TermsKept
    <3>6. CASE q # r
      <4>1. row'[q] = row[q]
        BY <3>4, <3>6
      <4> QED BY <1>t, <3>2, <4>1, TermsKept
    <3> QED BY <3>5, <3>6
  <2> QED BY <1>5, <2>1, <2>2 DEF Running, Dispatch, Lose
<1>6. CASE Tick
  BY <1>t, <1>6, TermsKept DEF Tick
<1>7. CASE UNCHANGED vars
  BY <1>t, <1>7, TermsKept DEF vars
<1> QED BY <1>1, <1>2, <1>3, <1>4, <1>5, <1>6, <1>7 DEF Next

LEMMA TermsInvariant == Spec => []TermsInv
<1>1. Init => TermsInv
  BY InitTypeOK DEF Init, TermsInv, Terms
<1> QED BY <1>1, TermsNext, PTL DEF Spec

\* What the caller's inbox holds is what the service decided, for no longer than
\* the caller was promised (client.Inbox, service.approve, service.callback).
THEOREM InboxHoldsTheDecision == Spec => []InboxAgrees
<1>1. TermsInv => InboxAgrees
  BY DEF TermsInv, Terms, InboxAgrees
<1> QED BY <1>1, TermsInvariant, PTL

\* Only a consumption turns a row consumed.
LEMMA ConsumptionSteps ==
  ASSUME TypeOK, [Next]_vars, NEW r \in Requests, row[r] # None,
         row'[r].status = "consumed", row[r].status # "consumed"
  PROVE  \E x \in Execs, p \in Proofs : Consume(x, r, p)
<1> USE DEF service
<1>t. row \in [Requests -> Rows \cup {None}] /\ row[r] \in Rows
  BY RowAt DEF TypeOK
<1>0. row'[r] # row[r]
  OBVIOUS
<1>1. ASSUME NEW q \in Requests, NEW p \in Proofs, Presenting(q, p), row' # row
      PROVE  \E x \in Execs, s \in Proofs : Consume(x, r, s)
  <2>1. ASSUME NEW t \in Recently, Request(q, p, t) PROVE FALSE
    BY <1>0, <1>t, <2>1 DEF Request
  <2>2. CASE Approve(q, p)
    <3>1. row' = [row EXCEPT ![q] = Decided(q, p)] /\ q = r
      BY <1>0, <1>t, <2>2 DEF Approve
    <3>2. Decided(r, p).status \in {"approved", "denied"}
      BY <1>t DEF Decided, Rows
    <3> QED BY <1>t, <3>1, <3>2
  <2>3. CASE Revoke(q, p)
    <3>1. row' = [row EXCEPT ![q] = [row[q] EXCEPT !.status = "revoked"]] /\ q = r
      BY <1>0, <1>t, <2>3 DEF Revoke
    <3>2. [row[r] EXCEPT !.status = "revoked"].status = "revoked"
      BY <1>t DEF Rows
    <3> QED BY <1>t, <3>1, <3>2
  <2>4. ASSUME NEW s \in Proofs, Redeem(q, p, s) PROVE FALSE
    <3> DEFINE c == [row[r] EXCEPT !.status = "issued",
                                   !.token = Lesser(row[r].expires, now + TokenLife)]
    <3>1. row' = [row EXCEPT ![r] = c] /\ q = r
      BY <1>0, <1>t, <2>4 DEF Redeem
    <3>2. c.status = "issued"
      BY <1>t DEF Rows
    <3> QED BY <1>t, <3>1, <3>2
  <2>5. ASSUME NEW x \in Execs, Consume(x, q, p) PROVE q = r
    BY <1>0, <1>t, <2>5 DEF Consume
  <2> QED BY <1>1, <2>1, <2>2, <2>3, <2>4, <2>5 DEF Presenting, Review, Collect
<1>2. ASSUME NEW x \in Execs, NEW o \in Replies \cup {"unknown", "not_dispatched"}, StoreResult(x, o)
      PROVE  FALSE
  <2>1. PICK q \in Requests : q = run[x].req /\ row[q] # None
    BY <1>2, NoneAssumption DEF StoreResult, TypeOK
  <2>2. row' = [row EXCEPT ![q] = [row[q] EXCEPT !.result = o]]
    BY <1>2, <2>1 DEF StoreResult, Reported
  <2>3. [row[q] EXCEPT !.result = o].status = row[q].status
    BY <2>1, RowAt DEF Rows
  <2>4. row'[q].status = row[q].status /\ \A k \in Requests \ {q} : row'[k] = row[k]
    BY <2>1, <2>2, <2>3, UpdatedTerms
  <2> QED BY <2>1, <2>4
<1> QED
  BY <1>0, <1>1, <1>2 DEF Next, Running, SendCallback, Expect, Dispatch, Lose, Receive, Tick, vars

\* An action is consumed inside the request's own expiry, the token's and that of
\* the owner's statement it rests on (execution.execute, redeem.redeem).
THEOREM ConsumptionIsInTime == Spec => ConsumedInTime
<1>1. ASSUME TermsInv, [Next]_vars, NEW r \in Requests, row[r] # None,
             row'[r].status = "consumed", row[r].status # "consumed"
      PROVE  /\ now < row[r].asked /\ now < row[r].token
             /\ \E p \in Proofs : /\ p.kind = "approval" /\ p.about = r
                                  /\ p.says = "approve" /\ accepted[p] > 0
                                  /\ now < p.exp
  <2>1. \E x \in Execs, p \in Proofs : Consume(x, r, p)
    BY <1>1, ConsumptionSteps DEF TermsInv
  <2>2. now < row[r].expires /\ row[r].status = "issued" /\ now < row[r].token
    BY <2>1 DEF Consume, Executable, Live
  <2>3. row[r].expires <= row[r].asked /\ row[r].callback = "approve"
    BY <1>1, <2>2 DEF TermsInv, Terms
  <2>4. PICK p \in Proofs : Basis(r, p)
    BY <1>1, <2>3 DEF TermsInv, Terms
  <2>5. now \in Nat /\ row[r].expires \in Nat /\ row[r].asked \in Nat /\ p.exp \in Nat
    BY <1>1, RowAt, ProofsAssumption DEF TermsInv, TypeOK, Rows
  <2>6. now < row[r].asked /\ now < p.exp
    BY <2>2, <2>3, <2>4, <2>5 DEF Basis
  <2> QED BY <2>2, <2>4, <2>6 DEF Basis
<1>2. TermsInv /\ [Next]_vars =>
        [\A r \in Requests :
           (row[r] # None /\ row'[r].status = "consumed" /\ row[r].status # "consumed") =>
             /\ now < row[r].asked /\ now < row[r].token
             /\ \E p \in Proofs : /\ p.kind = "approval" /\ p.about = r
                                  /\ p.says = "approve" /\ accepted[p] > 0
                                  /\ now < p.exp]_vars
  BY <1>1
<1> QED BY <1>2, TermsInvariant, PTL DEF Spec, ConsumedInTime

--------------------------------------------------------------------------------
(* The flow implements the one-use authority. *)

LEMMA SameStage ==
  ASSUME NEW r \in Requests, effects'[r] = effects[r],
         \/ row'[r] = row[r]
         \/ /\ row[r] # None /\ row'[r] # None
            /\ row'[r].callback = row[r].callback /\ row'[r].status = row[r].status
         \/ /\ row[r] = None \/ row[r].callback # "approve"
            /\ row'[r] = None \/ row'[r].callback # "approve"
  PROVE  Stage(r)' = Stage(r)
  BY DEF Stage

\* The stage of a request that was approved.
LEMMA ApprovedStage ==
  ASSUME NEW r \in Requests, row[r] # None, row[r].callback = "approve", effects[r] \in {0, 1}
  PROVE  /\ effects[r] = 1 => Stage(r) = "used"
         /\ effects[r] = 0 /\ row[r].status = "consumed" => Stage(r) = "spent"
         /\ effects[r] = 0 /\ row[r].status = "revoked" => Stage(r) = "void"
         /\ effects[r] = 0 /\ row[r].status \in {"approved", "issued"} => Stage(r) = "live"
  BY DEF Stage

\* The same after a step.
LEMMA ApprovedStageAfter ==
  ASSUME NEW r \in Requests, row'[r] # None, row'[r].callback = "approve", effects'[r] \in {0, 1}
  PROVE  /\ effects'[r] = 1 => Stage(r)' = "used"
         /\ effects'[r] = 0 /\ row'[r].status = "consumed" => Stage(r)' = "spent"
         /\ effects'[r] = 0 /\ row'[r].status = "revoked" => Stage(r)' = "void"
         /\ effects'[r] = 0 /\ row'[r].status \in {"approved", "issued"} => Stage(r)' = "live"
  BY DEF Stage

\* A step in which only r changes stage is a move of the abstract authority.
LEMMA OneMoves ==
  ASSUME NEW r \in Requests, NEW from, NEW to, Stage(r) = from, Stage(r)' = to,
         \A q \in Requests \ {r} : Stage(q)' = Stage(q)
  PROVE  Authority!Move(r, from, to)
<1>1. [q \in Requests |-> Stage(q)]' = [[q \in Requests |-> Stage(q)] EXCEPT ![r] = to]
  OBVIOUS
<1> QED BY <1>1 DEF Authority!Move

\* What the abstract authority sees of the flow.
Shown == <<[q \in Requests |-> Stage(q)], [q \in Requests |-> Takers(q)], effects>>

\* An execution that does not begin keeps its request.
LEMMA SameTakers ==
  ASSUME \A x \in Execs : run'[x].req = run[x].req
  PROVE  UNCHANGED [q \in Requests |-> Takers(q)]
<1>1. ASSUME NEW q \in Requests PROVE Takers(q)' = Takers(q)
  BY DEF Takers
<1> QED BY <1>1

LEMMA Unseen ==
  ASSUME \A q \in Requests : Stage(q)' = Stage(q), effects' = effects,
         \A x \in Execs : run'[x].req = run[x].req
  PROVE  UNCHANGED Shown
  BY SameTakers DEF Shown

LEMMA PresentingImplements ==
  ASSUME TermsInv, OneEffectInv, NEW r \in Requests, NEW p \in Proofs, Presenting(r, p)
  PROVE  Authority!Next \/ UNCHANGED Shown
<1>t. TypeOK /\ (\A q \in Requests : Terms(q)) /\ (\A q \in Requests : Sound(q))
  BY DEF TermsInv, OneEffectInv
<1>0. row \in [Requests -> Rows \cup {None}]
  BY <1>t DEF TypeOK
\* A step that updates the status of a row.
<1>u. ASSUME row[r] # None, effects' = effects, NEW c, row' = [row EXCEPT ![r] = c],
             \/ \E s \in Statuses : c = [row[r] EXCEPT !.status = s]
             \/ \E s \in Statuses, n \in Nat : c = [row[r] EXCEPT !.status = s, !.token = n]
      PROVE  /\ row'[r] # None /\ row'[r].callback = row[r].callback
             /\ row'[r].status = c.status
             /\ \A q \in Requests \ {r} : Stage(q)' = Stage(q)
  <2>1. /\ row'[r] # None /\ row'[r].callback = row[r].callback /\ row'[r].status = c.status
        /\ \A q \in Requests \ {r} : row'[q] = row[q]
    BY <1>t, <1>u, UpdatedTerms
  <2> QED BY <1>u, <2>1, SameStage
<1>1. ASSUME NEW t \in Recently, Request(r, p, t) PROVE UNCHANGED Shown
  <2>1. /\ effects' = effects /\ run' = run /\ row[r] = None /\ row'[r].callback = None
        /\ \A q \in Requests \ {r} : row'[q] = row[q]
    BY <1>1, <1>0 DEF Request
  <2>2. \A q \in Requests : Stage(q)' = Stage(q)
    BY <2>1, SameStage, BoundsAssumption
  <2> QED BY <2>1, <2>2, Unseen
<1>2. CASE Approve(r, p)
  <2>1. /\ row[r] # None /\ row[r].status = "pending" /\ row[r] \in Rows
        /\ row' = [row EXCEPT ![r] = Decided(r, p)] /\ effects' = effects /\ run' = run
        /\ p.says \in Decisions
    BY <1>2, <1>0 DEF Approve, Live
  <2>2. row[r].callback # "approve" /\ effects[r] = 0
    BY <1>t, <2>1, BoundsAssumption DEF Terms, Sound
  <2>3. \A q \in Requests \ {r} : Stage(q)' = Stage(q)
    BY <1>0, <2>1, SameStage
  <2>4. /\ row'[r].callback = p.says
        /\ p.says = "approve" => row'[r].status = "approved"
    BY <1>0, <2>1 DEF Decided, Rows
  <2>5. CASE p.says = "approve"
    <3>1. Stage(r) = "new"
      BY <2>2 DEF Stage
    <3>2. row'[r] # None
      BY <1>t, <2>1, <2>5, DecidedIsRow, NoneAssumption
    <3>3. Stage(r)' = "live"
      BY <2>1, <2>2, <2>4, <2>5, <3>2, ApprovedStageAfter
    <3>4. [q \in Requests |-> Stage(q)]'
            = [q \in Requests |-> CASE q = r -> "live" [] q \in {} -> "void" [] OTHER -> Stage(q)]
      BY <2>3, <3>3
    <3>5. Authority!Issue(r, {})
      BY <2>1, <3>1, <3>4, SameTakers DEF Authority!Issue
    <3>6. {} \in SUBSET (Requests \ {r})
      OBVIOUS
    <3> QED BY <3>5, <3>6 DEF Authority!Next
  <2>6. CASE p.says # "approve"
    <3>1. Stage(r)' = Stage(r)
      BY <2>1, <2>2, <2>4, <2>6, SameStage
    <3> QED BY <2>1, <2>3, <3>1, Unseen
  <2> QED BY <2>5, <2>6
<1>3. CASE Revoke(r, p)
  <2> DEFINE c == [row[r] EXCEPT !.status = "revoked"]
  <2>1. /\ row[r] # None /\ row[r].status \in Revocable /\ row[r] \in Rows
        /\ row' = [row EXCEPT ![r] = c] /\ effects' = effects /\ run' = run
    BY <1>3, <1>0 DEF Revoke
  <2>2. c.status = "revoked" /\ "revoked" \in Statuses
    BY <2>1 DEF Rows, Statuses
  <2>3. /\ row'[r] # None /\ row'[r].callback = row[r].callback /\ row'[r].status = "revoked"
        /\ \A q \in Requests \ {r} : Stage(q)' = Stage(q)
    BY <1>u, <2>1, <2>2
  <2>4. effects[r] = 0
    BY <1>t, <2>1 DEF Sound, Revocable
  <2>5. CASE row[r].status = "pending"
    <3>1. row[r].callback # "approve"
      BY <1>t, <2>1, <2>5, BoundsAssumption DEF Terms
    <3>2. Stage(r)' = Stage(r)
      BY <2>1, <2>3, <3>1, SameStage
    <3> QED BY <2>1, <2>3, <3>2, Unseen
  <2>6. CASE row[r].status \in {"approved", "issued"}
    <3>1. row[r].callback = "approve"
      BY <1>t, <2>1, <2>6 DEF Terms
    <3>2. Stage(r) = "live"
      BY <2>1, <2>4, <2>6, <3>1, ApprovedStage
    <3>3. Stage(r)' = "void"
      BY <2>1, <2>3, <2>4, <3>1, ApprovedStageAfter
    <3>4. Authority!Move(r, "live", "void")
      BY <2>3, <3>2, <3>3, OneMoves
    <3> QED BY <2>1, <3>4, SameTakers DEF Authority!Next, Authority!Void
  <2> QED BY <2>1, <2>5, <2>6 DEF Revocable
<1>4. ASSUME NEW proof \in Proofs, Redeem(r, p, proof)
      PROVE  UNCHANGED Shown
  <2> DEFINE n == Lesser(row[r].expires, now + TokenLife)
             c == [row[r] EXCEPT !.status = "issued", !.token = n]
  <2>1. /\ row[r] # None /\ row[r].status = "approved" /\ row[r].callback = "approve"
        /\ row[r] \in Rows /\ row' = [row EXCEPT ![r] = c] /\ effects' = effects /\ run' = run
    BY <1>4, <1>0 DEF Redeem, Live
  <2>2. n \in Nat /\ "issued" \in Statuses /\ c.status = "issued"
    BY <1>t, <2>1, BoundsAssumption, LesserNat DEF Rows, Statuses, TypeOK
  <2> HIDE DEF n
  <2>3. /\ row'[r] # None /\ row'[r].callback = row[r].callback /\ row'[r].status = "issued"
        /\ \A q \in Requests \ {r} : Stage(q)' = Stage(q)
    BY <1>u, <2>1, <2>2
  <2>4. effects[r] = 0
    BY <1>t, <2>1 DEF Sound
  <2>5. Stage(r) = "live" /\ Stage(r)' = "live"
    BY <2>1, <2>3, <2>4, ApprovedStage, ApprovedStageAfter
  <2> QED BY <2>1, <2>3, <2>5, Unseen
<1>5. ASSUME NEW x \in Execs, Consume(x, r, p) PROVE Authority!Next
  <2> DEFINE c == [row[r] EXCEPT !.status = "consumed"]
  <2>1. /\ row[r] # None /\ row[r].status = "issued" /\ row[r] \in Rows
        /\ row' = [row EXCEPT ![r] = c] /\ effects' = effects
    BY <1>5, <1>0 DEF Consume, Executable, Live
  <2>2. c.status = "consumed" /\ "consumed" \in Statuses
    BY <2>1 DEF Rows, Statuses
  <2>3. /\ row'[r] # None /\ row'[r].callback = row[r].callback /\ row'[r].status = "consumed"
        /\ \A q \in Requests \ {r} : Stage(q)' = Stage(q)
    BY <1>u, <2>1, <2>2
  <2>4. effects[r] = 0 /\ row[r].callback = "approve"
    BY <1>t, <2>1 DEF Sound, Terms
  <2>5. Stage(r) = "live" /\ Stage(r)' = "spent"
    BY <2>1, <2>3, <2>4, ApprovedStage, ApprovedStageAfter
  <2>6. Authority!Move(r, "live", "spent")
    BY <2>3, <2>5, OneMoves
  <2>7. run[x].pc = "idle" /\ run' = [run EXCEPT ![x] = [pc |-> "consumed", req |-> r]]
    BY <1>5 DEF Consume
  <2>8. ASSUME NEW q \in Requests \ {r} PROVE Takers(q)' = Takers(q)
    <3>1. x \notin Takers(q)
      BY <1>t, <2>7 DEF Sound, Takers
    <3>2. run'[x].req = r /\ \A y \in Execs \ {x} : run'[y] = run[y]
      BY <1>t, <2>7 DEF TypeOK
    <3> QED BY <3>1, <3>2 DEF Takers
  <2>9. Takers(r)' = Takers(r) \cup {x}
    BY <1>t, <2>7 DEF TypeOK, Takers
  <2>10. [q \in Requests |-> Takers(q)]'
           = [[q \in Requests |-> Takers(q)] EXCEPT ![r] = @ \cup {x}]
    BY <2>8, <2>9
  <2> QED BY <2>1, <2>6, <2>10 DEF Authority!Next, Authority!Spend
<1>6. CASE Review(r, p) \/ Collect(r, p)
  <2>1. \A q \in Requests : Stage(q)' = Stage(q)
    BY <1>6, SameStage DEF Review, Collect
  <2> QED BY <1>6, <2>1, Unseen DEF Review, Collect
<1> QED BY <1>1, <1>2, <1>3, <1>4, <1>5, <1>6 DEF Presenting

LEMMA StepImplements ==
  ASSUME TermsInv, OneEffectInv, [Next]_vars
  PROVE  Authority!Next \/ UNCHANGED Shown
<1> USE DEF service
<1>t. TypeOK /\ (\A q \in Requests : Terms(q)) /\ (\A q \in Requests : Sound(q))
  BY DEF TermsInv, OneEffectInv
<1>0. ASSUME row' = row, effects' = effects, \A x \in Execs : run'[x].req = run[x].req
      PROVE  UNCHANGED Shown
  <2>1. \A q \in Requests : Stage(q)' = Stage(q)
    BY <1>0, SameStage
  <2> QED BY <1>0, <2>1, Unseen
\* What an execution does after it began keeps its request.
<1>r. ASSUME NEW x \in Execs, NEW c, run' = [run EXCEPT ![x].pc = c]
      PROVE  \A y \in Execs : run'[y].req = run[y].req
  BY <1>t, <1>r DEF TypeOK
<1>1. ASSUME NEW x \in Execs, Dispatch(x) PROVE Authority!Next
  <2>1. PICK r \in Requests : r = run[x].req
    BY <1>1, <1>t DEF Dispatch, TypeOK
  <2>2. run[x].pc = "consumed" /\ row' = row /\ effects' = [effects EXCEPT ![r] = @ + 1]
    BY <1>1, <2>1 DEF Dispatch
  <2>3. row[r] # None /\ row[r].status = "consumed" /\ effects[r] = 0
    BY <1>t, <2>1, <2>2 DEF Sound
  <2>4. row[r].callback = "approve"
    BY <1>t, <2>3 DEF Terms
  <2>5. effects'[r] = 1 /\ \A q \in Requests \ {r} : effects'[q] = effects[q]
    BY <1>t, <2>2, <2>3 DEF TypeOK
  <2>6. Stage(r) = "spent" /\ Stage(r)' = "used"
    BY <2>2, <2>3, <2>4, <2>5, ApprovedStage, ApprovedStageAfter
  <2>7. \A q \in Requests \ {r} : Stage(q)' = Stage(q)
    BY <2>2, <2>5, SameStage
  <2>8. Authority!Move(r, "spent", "used")
    BY <2>6, <2>7, OneMoves
  <2>9. x \in Takers(r) /\ UNCHANGED [q \in Requests |-> Takers(q)]
    BY <1>1, <1>r, <2>1, SameTakers DEF Dispatch, Takers
  <2> QED BY <2>2, <2>8, <2>9 DEF Authority!Next, Authority!Use
<1>2. ASSUME NEW x \in Execs, NEW o \in Replies \cup {"unknown", "not_dispatched"}, StoreResult(x, o)
      PROVE  UNCHANGED Shown
  <2>1. PICK r \in Requests : r = run[x].req /\ row[r] # None
    BY <1>2, <1>t, NoneAssumption DEF StoreResult, TypeOK
  <2>2. row' = [row EXCEPT ![r] = [row[r] EXCEPT !.result = o]] /\ effects' = effects
    BY <1>2, <2>1 DEF StoreResult, Reported
  <2>3. [row[r] EXCEPT !.result = o].status = row[r].status
    BY <1>t, <2>1, RowAt DEF Rows
  <2>4. /\ row'[r] # None /\ row'[r].status = row[r].status
        /\ row'[r].callback = row[r].callback
        /\ \A q \in Requests \ {r} : row'[q] = row[q]
    BY <1>t, <2>1, <2>2, <2>3, UpdatedTerms
  <2>5. \A q \in Requests : Stage(q)' = Stage(q)
    BY <2>1, <2>2, <2>4, SameStage
  <2>6. \A y \in Execs : run'[y].req = run[y].req
    BY <1>2, <1>r DEF StoreResult
  <2> QED BY <2>2, <2>5, <2>6, Unseen
<1>3. ASSUME NEW r \in Requests, NEW p \in Proofs, Presenting(r, p)
      PROVE  Authority!Next \/ UNCHANGED Shown
  BY <1>3, PresentingImplements
<1>4. ASSUME NEW x \in Execs, Lose(x) PROVE UNCHANGED Shown
  BY <1>0, <1>4, <1>r DEF Lose
<1> QED
  BY <1>0, <1>1, <1>2, <1>3, <1>4
     DEF Next, Running, SendCallback, Expect, Receive, Tick, vars

\* Every behaviour of the flow is one of the one-use authority: a request is
\* approved, then voided or consumed by one execution, and dispatched at most once,
\* by that execution.
THEOREM FlowIsOneUse == Spec => ImplementsOneUse
<1>1. Init => Authority!Init
  <2>1. ASSUME Init, NEW r \in Requests PROVE Stage(r) = "new" /\ Takers(r) = {}
    BY <2>1, BoundsAssumption DEF Init, Stage, Takers
  <2> QED BY <2>1 DEF Init, Authority!Init
<1>2. TermsInv /\ OneEffectInv /\ [Next]_vars => [Authority!Next]_(Authority!authority)
  BY StepImplements DEF Shown, Authority!authority
<1>3. Spec => Authority!Spec
  BY <1>1, <1>2, TermsInvariant, OneEffectInvariant, PTL DEF Spec, Authority!Spec
<1> QED BY <1>3 DEF ImplementsOneUse

================================================================================
