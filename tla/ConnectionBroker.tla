---------------------------- MODULE ConnectionBroker ---------------------------
(***************************************************************************)
(* Reusable connections: the endpoints (api.py), the broker that looks a   *)
(* credential up and dispatches with it (broker.py), and the encrypted     *)
(* vault that broker processes share through one SQLite file (vault.py).   *)
(*                                                                         *)
(* A vault operation is one BEGIN IMMEDIATE transaction that first checks  *)
(* the process's key against the file, so it is one step; it runs in a     *)
(* worker thread, which goes on when the request it serves is cancelled.   *)
(* Between two transactions everything else may move: other requests,      *)
(* other broker processes, the clock, a crash, and the offline rotation of *)
(* the master key, which the operator may run beside a forgotten process.  *)
(* Admission (guard.py, limits.py) is a module of its own.  The audit rows *)
(* of administrative changes are part of their transactions and the row    *)
(* that ends a request changes nothing here, so only that of a dispatch is *)
(* kept.                                                                   *)
(***************************************************************************)
EXTENDS Integers, FiniteSets

CONSTANTS
  Servers,        \* broker process lifetimes
  Calls,          \* concurrent authenticated HTTP requests, one after another in each
  Principals, Admins,
  Tenants, TenantOf, Ids,
  Keys,           \* master keys
  Policies,       \* provider configuration fingerprints
  Lifetimes,      \* values of expires_at an administrator may give
  None,
  Quota,          \* 1,000 connections per tenant
  MaxTime, MaxRekeys, MaxStores

Never == -1       \* expires_at = None
Places == Tenants \X Ids

\* serial is HISTORY: 0 for a credential of an earlier life, then 1, 2, ...
Credentials == [serial : Nat, subjects : SUBSET Principals,
                policy : Policies \cup {None}, expires : Nat \cup {Never}]
Rows == [key : Keys, credential : Credentials]

ASSUME ConstantsAssumption ==
  /\ Admins \subseteq Principals
  /\ TenantOf \in [Principals -> Tenants]
  /\ Lifetimes \subseteq Nat \cup {Never}
  /\ Quota \in Nat /\ MaxTime \in Nat /\ MaxRekeys \in Nat /\ MaxStores \in Nat
  /\ None \notin Keys /\ None \notin Servers /\ None \notin Rows
\* identifier() admits names of 1 to 80 characters.
ASSUME FiniteAssumption == IsFiniteSet(Tenants) /\ IsFiniteSet(Ids)

VARIABLES
  now,
  check,      \* the key that the file's key_check row authenticates, if there is one
  rows,       \* the connections table
  server,     \* broker processes, each with the key and configuration it started with
  call,       \* the requests
  stores,     \* HISTORY: number of credentials administrators gave so far, bounded
  voided,     \* HISTORY: credentials deleted or replaced so far
  rekeys      \* bounded count of key rotations

vars == <<now, check, rows, server, call, stores, voided, rekeys>>
history == <<stores, rekeys>>
file == <<check, rows, voided>>

ServerType == [up : {"unborn", "up", "down"}, cipher : Keys \cup {None},
               policy : Policies \cup {None}]
Phases == {"idle", "begun", "storing", "removing", "orphan", "held", "approved",
           "cleared", "out"}
Ops == {"put", "delete", "request"}
CallType == [pc : Phases, op : Ops \cup {None}, server : Servers \cup {None},
             principal : Principals \cup {None}, id : Ids \cup {None},
             key : Keys \cup {None}, credential : Credentials \cup {None},
             event : {"none", "dispatch"},      \* what the audit table has of it
             before : SUBSET (Places \X Nat)]   \* HISTORY: voided when it began
Idle == [pc |-> "idle", op |-> None, server |-> None, principal |-> None, id |-> None,
         key |-> None, credential |-> None, event |-> "none", before |-> {}]

Up(s) == server[s].up = "up"
Of(c) == server[call[c].server]
At(c) == <<TenantOf[call[c].principal], call[c].id>>
Current(place) == IF rows[place] = None THEN {} ELSE {<<place, rows[place].credential.serial>>}
Moves(c, pc) == call' = [call EXCEPT ![c].pc = pc]
Ends(c) == call' = [call EXCEPT ![c] = Idle]

Begin(c, s, p, op, id) ==
  /\ call[c].pc = "idle"
  /\ Up(s)
  /\ op # "request" => p \in Admins
  /\ call' = [call EXCEPT ![c] =
                [Idle EXCEPT !.pc = "begun", !.op = op, !.server = s,
                             !.principal = p, !.id = id, !.before = voided]]
  /\ UNCHANGED <<now, file, server, history>>

--------------------------------------------------------------------------------
(* The vault's transactions. *)

\* FAULT: the key is verified when the process starts, and never again.
FaultVerified(s) == TRUE
\* _verify_key: every transaction authenticates the key_check row with its own key.
Verified(s) == server[s].cipher = check

\* put_connection: the credential is encrypted before the transaction begins.
Encrypt(c, subjects, expires) ==
  /\ call[c].pc = "begun" /\ call[c].op = "put"
  /\ subjects # {}
  /\ stores < MaxStores
  /\ stores' = stores + 1
  /\ call' = [call EXCEPT ![c].pc = "storing", ![c].key = Of(c).cipher,
                          ![c].credential = [serial |-> stores + 1, subjects |-> subjects,
                                             policy |-> Of(c).policy, expires |-> expires]]
  /\ UNCHANGED <<now, file, server, rekeys>>

Stored(tenant) == {place \in Places : place[1] = tenant /\ rows[place] # None}

\* FAULT: a tenant at its quota may add one more.
FaultRoom(place) == rows[place] # None \/ Cardinality(Stored(place[1])) <= Quota
Room(place) == rows[place] # None \/ Cardinality(Stored(place[1])) < Quota

Store(c) ==
  /\ call[c].pc \in {"storing", "orphan"} /\ call[c].op = "put"
  /\ Verified(call[c].server)
  /\ Room(At(c))
  /\ rows' = [rows EXCEPT ![At(c)] = [key |-> call[c].key, credential |-> call[c].credential]]
  /\ voided' = voided \cup Current(At(c))
  /\ Ends(c)
  /\ UNCHANGED <<now, check, server, history>>

Remove(c) ==
  /\ call[c].pc = "begun" /\ call[c].op = "delete"
  /\ Moves(c, "removing")
  /\ UNCHANGED <<now, file, server, history>>

\* FAULT: the deletion names the row but leaves it readable.
FaultWithout(place) == rows
Without(place) == [rows EXCEPT ![place] = None]

Removed(c) ==
  /\ call[c].pc \in {"removing", "orphan"} /\ call[c].op = "delete"
  /\ Verified(call[c].server)
  /\ rows' = Without(At(c))
  /\ voided' = voided \cup Current(At(c))
  /\ Ends(c)
  /\ UNCHANGED <<now, check, server, history>>

\* The transaction is refused (key, quota, lock wait) or fails: nothing changes.
WriteFails(c) ==
  /\ call[c].pc \in {"storing", "removing", "orphan"}
  /\ Ends(c)
  /\ UNCHANGED <<now, file, server, history>>

--------------------------------------------------------------------------------
(* The request endpoint. *)

Lookup(c) ==
  /\ call[c].pc = "begun" /\ call[c].op = "request"
  /\ Verified(call[c].server)
  /\ rows[At(c)] # None
  /\ rows[At(c)].key = Of(c).cipher
  /\ call' = [call EXCEPT ![c].pc = "held", ![c].credential = rows[At(c)].credential]
  /\ UNCHANGED <<now, file, server, history>>

\* FAULT: a changed provider configuration is not noticed.
FaultPermitted(c) ==
  /\ call[c].principal \in call[c].credential.subjects
  /\ call[c].credential.expires = Never \/ now < call[c].credential.expires
\* The checks between the lookup and the dispatch; the route is abstract.
Permitted(c) ==
  /\ call[c].principal \in call[c].credential.subjects
  /\ call[c].credential.expires = Never \/ now < call[c].credential.expires
  /\ call[c].credential.policy = Of(c).policy

Approve(c) ==
  /\ call[c].pc = "held"
  /\ Permitted(c)
  /\ Moves(c, "approved")
  /\ UNCHANGED <<now, file, server, history>>

AuditDispatch(c) ==
  /\ call[c].pc = "approved"
  /\ Verified(call[c].server)
  /\ call' = [call EXCEPT ![c].pc = "cleared", ![c].event = "dispatch"]
  /\ UNCHANGED <<now, file, server, history>>

\* Broker.exchange: the request leaves with the credential.
Send(c) ==
  /\ call[c].pc = "cleared"
  /\ Moves(c, "out")
  /\ UNCHANGED <<now, file, server, history>>

\* Any exit of a request: an answer, an error, the 20 s timeout, a refusal (nothing
\* stored, unreadable, not permitted, audit failed) or a cancellation.
Return(c) ==
  /\ call[c].pc \in {"begun", "held", "approved", "cleared", "out"}
  /\ Ends(c)
  /\ UNCHANGED <<now, file, server, history>>

\* The request is cancelled while a thread writes for it: the write goes on.
Cancel(c) ==
  /\ call[c].pc \in {"storing", "removing"}
  /\ Moves(c, "orphan")
  /\ UNCHANGED <<now, file, server, history>>

--------------------------------------------------------------------------------
(* Processes and the operator. *)

\* FAULT: a file without key_check is taken over with any key.
FaultBlessed(key) == check = None \/ check = key
\* Vault.__init__: a file that has no key_check yet must be readable with this key.
Blessed(key) == IF check = None
                  THEN \A place \in Places : rows[place] # None => rows[place].key = key
                  ELSE check = key

Start(s, key, policy) ==
  /\ server[s].up = "unborn"
  /\ Blessed(key)
  /\ check' = key
  /\ server' = [server EXCEPT ![s] = [up |-> "up", cipher |-> key, policy |-> policy]]
  /\ UNCHANGED <<now, rows, call, voided, history>>

\* The rekey command, a process of its own: it opens the vault with the old key and
\* changes records and key_check in one transaction.
Rekey(old, new) ==
  /\ rekeys < MaxRekeys
  /\ Blessed(old)
  /\ \A place \in Places : rows[place] # None => rows[place].key = old
  /\ rows' = [place \in Places |-> IF rows[place] = None THEN None
                                   ELSE [rows[place] EXCEPT !.key = new]]
  /\ check' = new
  /\ rekeys' = rekeys + 1
  /\ UNCHANGED <<now, server, call, stores, voided>>

\* EXTERNAL: a process ends, with its threads, wherever it is.
Crash(s) ==
  /\ Up(s)
  /\ server' = [server EXCEPT ![s].up = "down"]
  /\ call' = [c \in Calls |->
                IF call[c].server = s THEN Idle ELSE call[c]]
  /\ UNCHANGED <<now, file, history>>

\* EXTERNAL: the clock.
Tick ==
  /\ now < MaxTime
  /\ now' = now + 1
  /\ UNCHANGED <<file, server, call, history>>

\* A file an earlier process left, perhaps one from before key_check existed.
Init ==
  /\ now = 0
  /\ \E key \in Keys, policy \in Policies \cup {None} :
       /\ check \in {None, key}
       /\ rows \in [Places -> {None, [key |-> key,
                                      credential |-> [serial |-> 0, subjects |-> Principals,
                                                      policy |-> policy, expires |-> Never]]}]
  /\ \A tenant \in Tenants : Cardinality(Stored(tenant)) <= Quota
  /\ server = [s \in Servers |-> [up |-> "unborn", cipher |-> None, policy |-> None]]
  /\ call = [c \in Calls |-> Idle]
  /\ stores = 0
  /\ voided = {}
  /\ rekeys = 0

Serving(c) ==
  \/ \E subjects \in SUBSET Principals, expires \in Lifetimes : Encrypt(c, subjects, expires)
  \/ Store(c)
  \/ Remove(c)
  \/ Removed(c)
  \/ WriteFails(c)
  \/ Lookup(c)
  \/ Approve(c)
  \/ AuditDispatch(c)
  \/ Send(c)
  \/ Return(c)
  \/ Cancel(c)

Operating(s) ==
  \/ \E key \in Keys, policy \in Policies : Start(s, key, policy)
  \/ Crash(s)

Next ==
  \/ \E c \in Calls :
       \/ \E s \in Servers, p \in Principals, op \in Ops, id \in Ids : Begin(c, s, p, op, id)
       \/ Serving(c)
  \/ \E s \in Servers : Operating(s)
  \/ \E old, new \in Keys : Rekey(old, new)
  \/ Tick

Spec == Init /\ [][Next]_vars

--------------------------------------------------------------------------------
(* Properties. *)

\* What a call is allowed to hold: a running one has a live process and a principal,
\* and it holds a credential from its lookup to its end and at no other time.
Holding(c) == call[c].pc \in {"held", "approved", "cleared", "out"}
Writing(c) == call[c].pc \in {"storing", "orphan"} /\ call[c].op = "put"
Shaped(c) ==
  /\ call[c].pc # "idle" => /\ call[c].server \in Servers /\ Up(call[c].server)
                            /\ call[c].principal \in Principals /\ call[c].id \in Ids
  /\ Holding(c) => call[c].credential \in Credentials
  /\ Writing(c) => call[c].credential \in Credentials /\ call[c].key \in Keys
  /\ call[c].pc \in {"idle", "begun", "removing"} => call[c].credential = None
  /\ call[c].pc = "removing" => call[c].op = "delete"

\* The types of the variables, and the shape of processes and calls.
TypeOK ==
  /\ now \in Nat
  /\ check \in Keys \cup {None}
  /\ rows \in [Places -> Rows \cup {None}]
  /\ server \in [Servers -> ServerType]
  /\ call \in [Calls -> CallType]
  /\ stores \in Nat /\ rekeys \in Nat
  /\ voided \subseteq Places \X Nat
  /\ \A s \in Servers : Up(s) => server[s].cipher \in Keys /\ server[s].policy \in Policies
  /\ \A c \in Calls : Shaped(c)

\* Every stored credential can be read with the key the file vouches for, whatever
\* rotation, stale process, cancelled request or first start of an old file did
\* ("Old-key processes fail closed on subsequent database access", SECURITY.md:69).
RowsReadable ==
  check # None => \A place \in Places : rows[place] # None => rows[place].key = check

\* A request that began after a credential was deleted or replaced does not leave
\* with it ("Revocation stops subsequent credential lookups", SECURITY.md:63).
RevocationStopsLookups ==
  \A c \in Calls : call[c].pc = "out" => <<At(c), call[c].credential.serial>> \notin call[c].before

\* What leaves was audited before, and leaves for the destination and the subjects
\* its administrator stored it for, although the configuration may change between
\* two lives of the broker and the subjects between two versions of the connection.
DispatchWithinGrant ==
  \A c \in Calls : call[c].pc = "out" =>
    /\ call[c].event = "dispatch"
    /\ call[c].principal \in call[c].credential.subjects
    /\ call[c].credential.policy = Of(c).policy

\* A tenant's connections stay within its quota, however many processes add some.
QuotaHolds == \A tenant \in Tenants : Cardinality(Stored(tenant)) <= Quota

================================================================================
