--------------------------- MODULE PartitionStore ---------------------------
(***************************************************************************)
(* The partition map, the vector stores and the adapter that joins them    *)
(* (src/src/schemen_gate/_rag.py and _rag_stores.py).                      *)
(*                                                                         *)
(* A process owns one PartitionMap, which binds a partition key to a       *)
(* regime and a mode, and one GatedRAGAdapter over a store.  The store is  *)
(* either the in-memory one, private to the process, or a PostgreSQL       *)
(* table that all processes share through one connection each.  Threads    *)
(* call the adapter; an adapter call reads the map more than once and then *)
(* calls the store, and other threads run between those steps.             *)
(*                                                                         *)
(* A document is its id, the partition that holds it, the regime whose     *)
(* mask its embedding went through, and the call that wrote it.  Scores,   *)
(* contents, kinds and metadata are left out.                              *)
(***************************************************************************)
EXTENDS Naturals, Sequences, FiniteSets, SequencesExt, FiniteSetsExt

CONSTANTS
  Processes,
  Threads,
  ProcessOf,       \* the process each thread runs in
  Partitions,
  NRegimes,        \* PartitionMap(n_regimes)
  Registrations,   \* the register() calls made: [key, regime, mode]
  DocIds,          \* ids a caller names in the metadata
  Batches,         \* the id sequences handed to ingest_many
  TopK,            \* the top_k of a query
  MaxCalls,        \* bound: adapter calls
  AnyRegime,       \* register() without a regime_id
  Ungated,         \* an embedding no mask was applied to
  Nobody           \* no thread, no call

Regimes == 0 .. (NRegimes - 1)

ASSUME ProcessAssumption == ProcessOf \in [Threads -> Processes]
ASSUME RegimeAssumption == NRegimes \in Nat \ {0}
ASSUME BatchAssumption == Batches \subseteq Seq(DocIds)
ASSUME CallAssumption == MaxCalls \in Nat /\ TopK \in Nat
ASSUME DistinctAssumption ==
  /\ AnyRegime \notin Regimes
  /\ Ungated \notin Regimes
  /\ Nobody \notin Threads
  /\ DocIds \cap Nat = {}

Modes == {"fresh", "immutable", "read_write"}

ASSUME RegistrationAssumption ==
  Registrations \subseteq
    [key : Partitions, regime : Regimes \cup {AnyRegime}, mode : Modes]

Stores == {"memory", "postgres"}

(* ingest() and transfer() make the same checks and end in the same        *)
(* insert(): transfer() reads nothing of its source, it only asks that it  *)
(* be bound.  Both are "ingest".                                           *)
Ops == {"ingest", "ingest_many", "weights", "query", "destroy"}

(* A home is where rows live: one per process in memory, one database. *)
Database == "database"
Homes == Processes \cup {Database}

VARIABLES
  store,     \* which VectorStore the adapters were built on
  entries,   \* PartitionMap._entries of each process, in registration order
  rows,      \* the visible documents of each home
  pending,   \* rows a thread's open transaction wrote and has not committed
  conn,      \* the thread that holds PgVectorStore._conn_lock of a process
  pc,        \* where each thread is inside its call
  current,   \* the number of the call each thread is in
  done,      \* statements of the batch already executed
  found,     \* the ids a running DELETE saw when it started
  calls,     \* every call made, with what it did
  commits    \* committed changes so far; orders them

vars == <<store, entries, rows, pending, conn, pc, current, done, found, calls,
          commits>>

Entry == [key : Partitions, regime : Regimes, mode : Modes, asked : BOOLEAN]
Row == [id : DocIds \cup (1 .. MaxCalls), key : Partitions,
        gate : Regimes \cup {Ungated}, call : 1 .. MaxCalls]

(***************************************************************************)
(* Reading the map.                                                        *)
(***************************************************************************)

KeysOf(p) == {entries[p][i].key : i \in DOMAIN entries[p]}

EntryOf(p, k) == CHOOSE e \in ToSet(entries[p]) : e.key = k

AssignedRegimes(p) == {e.regime : e \in ToSet(entries[p])}

Writable(p, k) == k \in KeysOf(p) /\ EntryOf(p, k).mode # "immutable"

(* mask_for() derives the mask from the gate key and the entry's regime,   *)
(* so the regime stands for the mask.                                      *)
MaskOf(p, k) == EntryOf(p, k).regime

HomeOf(t) == IF store = "memory" THEN ProcessOf[t] ELSE Database

Held(h, k) == {r \in rows[h] : r.key = k}

Call(t) == calls[current[t]]

(* What the batch of a call writes; the last of two equal ids stays. *)
RowFor(n, id) == [id |-> id, key |-> calls[n].key, gate |-> calls[n].gate,
                  call |-> n]

(* PostgreSQL: rows of `new` replace those of `old` with the same id. *)
Upsert(old, new) ==
  {r \in old : \A n \in new : n.id # r.id} \cup new

(***************************************************************************)
(* PartitionMap.register().                                                *)
(***************************************************************************)

\* Fault: the next regime counted from the number of bindings.
FaultLowestFree(p) == {Len(entries[p])} \cap Regimes

LowestFree(p) == {r \in Regimes : r \notin AssignedRegimes(p)
                    /\ \A q \in 0 .. (r - 1) : q \in AssignedRegimes(p)}

Bind(p, a, r) ==
  entries' = [entries EXCEPT ![p] = Append(@,
     [key |-> a.key, regime |-> r, mode |-> a.mode, asked |-> a.regime # AnyRegime])]

\* Fault: a second registration gives the bound key its own mode.
FaultRegister(t, a) ==
  /\ pc[t] = "idle"
  /\ LET p == ProcessOf[t] IN
       IF a.key \in KeysOf(p)
         THEN entries' = [entries EXCEPT ![p] =
                [i \in DOMAIN @ |-> IF @[i].key = a.key
                                     THEN [@[i] EXCEPT !.mode = a.mode] ELSE @[i]]]
         ELSE \/ a.regime # AnyRegime /\ Bind(p, a, a.regime)
              \/ a.regime = AnyRegime /\ \E r \in LowestFree(p) : Bind(p, a, r)
  /\ UNCHANGED <<store, rows, pending, conn, pc, current, done, found, calls,
                 commits>>

(* A second registration of a bound key returns the bound regime whatever  *)
(* mode it names; one that names another regime raises.  Both leave the    *)
(* map as it is.                                                           *)
Register(t, a) ==
  /\ pc[t] = "idle"
  /\ LET p == ProcessOf[t] IN
       IF a.key \in KeysOf(p)
         THEN UNCHANGED entries
         ELSE \/ a.regime # AnyRegime /\ Bind(p, a, a.regime)
              \/ a.regime = AnyRegime /\ \E r \in LowestFree(p) : Bind(p, a, r)
  /\ UNCHANGED <<store, rows, pending, conn, pc, current, done, found, calls,
                 commits>>

(***************************************************************************)
(* The adapter: admission, mask, store.                                    *)
(***************************************************************************)

Goto(t, label) == pc' = [pc EXCEPT ![t] = label]

Finish(t, outcome) ==
  /\ Goto(t, "idle")
  /\ calls' = [calls EXCEPT ![current[t]].outcome = outcome]

(* The first read of the map.  Every write but a weight snapshot needs a   *)
(* partition that is not IMMUTABLE; a snapshot needs READ_WRITE.  A        *)
(* refused call raises and changes nothing.                                *)
Admitted(p, op, k) ==
  CASE op = "query" -> k \in KeysOf(p)
    [] op = "weights" -> k \in KeysOf(p) /\ EntryOf(p, k).mode = "read_write"
    [] OTHER -> Writable(p, k)

(* The ids a call may name; a snapshot gets a fresh one. *)
IdsOf(op, n) ==
  CASE op = "weights" -> {<<n>>}
    [] op = "ingest" -> {<<d>> : d \in DocIds}
    [] op = "ingest_many" -> Batches
    [] OTHER -> {<<>>}

(* gate_embedding is the caller's choice for a document. *)
GatingOf(op) == CASE op = "weights" -> {FALSE}
                  [] op \in {"query", "destroy"} -> {TRUE}
                  [] OTHER -> BOOLEAN

Begin(t, op, k) ==
  LET n == Len(calls) + 1
      p == ProcessOf[t]
  IN
  /\ pc[t] = "idle"
  /\ n <= MaxCalls
  /\ Admitted(p, op, k)
  /\ \E ids \in IdsOf(op, n), wanted \in GatingOf(op) :
       calls' = Append(calls,
         [op |-> op, key |-> k, ids |-> ids, thread |-> t, wanted |-> wanted,
          regime |-> MaskOf(p, k), gate |-> Ungated,
          docs |-> {}, outcome |-> "open", commit |-> 0, counted |-> 0])
  /\ current' = [current EXCEPT ![t] = n]
  /\ Goto(t, "admitted")
  /\ UNCHANGED <<store, entries, rows, pending, conn, done, found, commits>>

(* The second read of the map: the mask, applied when the caller asked. *)
TakeMask(t) ==
  /\ pc[t] = "admitted"
  /\ calls' = [calls EXCEPT ![current[t]].gate =
       IF Call(t).wanted THEN MaskOf(ProcessOf[t], Call(t).key) ELSE Ungated]
  /\ Goto(t, "prepared")
  /\ UNCHANGED <<store, entries, rows, pending, conn, current, done, found, commits>>

(* An embedding that does not validate raises before the store is called. *)
Abandon(t) ==
  /\ pc[t] = "admitted"
  /\ Finish(t, "raised")
  /\ UNCHANGED <<store, entries, rows, pending, conn, current, done, found, commits>>

Writes(t) == Call(t).op \notin {"query", "destroy"}

(* The step that makes a call's rows visible, or its deletion effective. *)
Committed(t, outcome) ==
  /\ commits' = commits + 1
  /\ calls' = [calls EXCEPT ![current[t]].commit = commits + 1,
                            ![current[t]].outcome = outcome]

(***************************************************************************)
(* InMemoryVectorStore: one lock per store, so one step per operation.     *)
(***************************************************************************)

(* insert() is a batch of one.  An id twice in the batch, or already in    *)
(* the partition, raises and stores nothing.                               *)
MemoryAccepts(t) ==
  /\ IsInjective(Call(t).ids)
  /\ \A r \in Held(HomeOf(t), Call(t).key) : r.id \notin ToSet(Call(t).ids)

MemoryInsert(t) ==
  /\ pc[t] = "prepared" /\ store = "memory" /\ Writes(t)
  /\ IF MemoryAccepts(t)
       THEN /\ rows' = [rows EXCEPT ![HomeOf(t)] =
                 @ \cup {RowFor(current[t], id) : id \in ToSet(Call(t).ids)}]
            /\ Committed(t, "returned")
            /\ Goto(t, "idle")
       ELSE /\ Finish(t, "raised")
            /\ UNCHANGED <<rows, commits>>
  /\ UNCHANGED <<store, entries, pending, conn, current, done, found>>

MemoryDelete(t) ==
  /\ pc[t] = "prepared" /\ store = "memory" /\ Call(t).op = "destroy"
  /\ rows' = [rows EXCEPT ![HomeOf(t)] = @ \ Held(HomeOf(t), Call(t).key)]
  /\ Committed(t, "open")
  /\ Goto(t, "counting")
  /\ UNCHANGED <<store, entries, pending, conn, current, done, found>>

(***************************************************************************)
(* PgVectorStore: _conn_lock admits one operation of the process at a      *)
(* time; other processes have connections of their own.                    *)
(***************************************************************************)

Acquire(t) ==
  /\ pc[t] = "prepared" /\ store = "postgres"
  /\ conn[ProcessOf[t]] = Nobody
  /\ conn' = [conn EXCEPT ![ProcessOf[t]] = t]
  /\ Goto(t, "holding")
  /\ UNCHANGED <<store, entries, rows, pending, current, done, found, calls, commits>>

Release(t) == conn' = [conn EXCEPT ![ProcessOf[t]] = Nobody]

(* A statement waits for a row another open transaction wrote. *)
LockedByOther(t, id) ==
  \E u \in Threads \ {t} : \E r \in pending[u] : r.id = id

\* Fault: ON CONFLICT (id) DO UPDATE without its WHERE.
FaultConflicting(t, id) == FALSE

(* INSERT .. ON CONFLICT (id) DO UPDATE .. WHERE the partition is the same:*)
(* a row of another partition makes the statement return nothing.          *)
Conflicting(t, id) ==
  \E r \in Upsert(rows[Database], pending[t]) :
     r.id = id /\ r.key # Call(t).key

NextId(t) == Call(t).ids[done[t] + 1]

(* The rows a statement writes, in the thread's transaction. *)
Written(t) == Upsert(pending[t], {RowFor(current[t], NextId(t))})

(* insert(): one statement on an autocommit connection. *)
PgInsert(t) ==
  /\ pc[t] = "holding" /\ Writes(t) /\ Call(t).op # "ingest_many"
  /\ ~LockedByOther(t, NextId(t))
  /\ ~Conflicting(t, NextId(t))
  /\ rows' = [rows EXCEPT ![Database] = Upsert(@, Written(t))]
  /\ \E outcome \in {"returned", "raised"} : Committed(t, outcome)
  /\ Goto(t, "idle")
  /\ Release(t)
  /\ UNCHANGED <<store, entries, pending, current, done, found>>

(* insert_many(): the statements of one transaction ... *)
PgStatement(t) ==
  /\ pc[t] = "holding" /\ Call(t).op = "ingest_many"
  /\ done[t] < Len(Call(t).ids)
  /\ ~LockedByOther(t, NextId(t))
  /\ ~Conflicting(t, NextId(t))
  /\ pending' = [pending EXCEPT ![t] = Written(t)]
  /\ done' = [done EXCEPT ![t] = @ + 1]
  /\ UNCHANGED <<store, entries, rows, conn, pc, current, found, calls, commits>>

(* ... and its commit, whose answer may be lost on the way back. *)
PgCommit(t) ==
  /\ pc[t] = "holding" /\ Call(t).op = "ingest_many"
  /\ done[t] = Len(Call(t).ids)
  /\ rows' = [rows EXCEPT ![Database] = Upsert(@, pending[t])]
  /\ pending' = [pending EXCEPT ![t] = {}]
  /\ done' = [done EXCEPT ![t] = 0]
  /\ \E outcome \in {"returned", "raised"} : Committed(t, outcome)
  /\ Goto(t, "idle")
  /\ Release(t)
  /\ UNCHANGED <<store, entries, current, found>>

(* A conflicting id, a lost connection, or PostgreSQL ending a deadlock:   *)
(* the transaction is rolled back and the call raises.                     *)
PgRollback(t) ==
  /\ pc[t] \in {"holding", "deleting"}
  /\ pending' = [pending EXCEPT ![t] = {}]
  /\ done' = [done EXCEPT ![t] = 0]
  /\ found' = [found EXCEPT ![t] = {}]
  /\ Finish(t, "raised")
  /\ Release(t)
  /\ UNCHANGED <<store, entries, rows, current, commits>>

(* DELETE sees the rows committed when the statement starts ... *)
PgDeleteStarts(t) ==
  /\ pc[t] = "holding" /\ Call(t).op = "destroy"
  /\ found' = [found EXCEPT ![t] = {r.id : r \in Held(Database, Call(t).key)}]
  /\ Goto(t, "deleting")
  /\ UNCHANGED <<store, entries, rows, pending, conn, current, done, calls, commits>>

(* ... waits for those another transaction has locked, and removes them.   *)
PgDeleteEnds(t) ==
  /\ pc[t] = "deleting"
  /\ \A id \in found[t] : ~LockedByOther(t, id)
  /\ rows' = [rows EXCEPT ![Database] =
       {r \in @ : ~(r.key = Call(t).key /\ r.id \in found[t])}]
  /\ Committed(t, "open")
  /\ found' = [found EXCEPT ![t] = {}]
  /\ Goto(t, "counting")
  /\ Release(t)
  /\ UNCHANGED <<store, entries, pending, current, done>>

(***************************************************************************)
(* The two operations that end by reading the store.                       *)
(***************************************************************************)

(* The reading takes the connection lock for itself when there is one. *)
CanRead(t) == store = "postgres" => conn[ProcessOf[t]] = Nobody

\* Fault: destroy() returns whatever the count says.
FaultCountOutcomes(t) == {"returned"}

(* destroy(): a partition that is not empty after the deletion raises, as  *)
(* does a count the database does not answer.                              *)
CountOutcomes(t) ==
  (IF Held(HomeOf(t), Call(t).key) = {} THEN {"returned"} ELSE {"raised"})
    \cup (IF store = "postgres" THEN {"raised"} ELSE {})

Count(t) ==
  /\ pc[t] = "counting"
  /\ CanRead(t)
  /\ \E outcome \in CountOutcomes(t) :
       calls' = [calls EXCEPT ![current[t]].counted = commits,
                              ![current[t]].outcome = outcome]
  /\ Goto(t, "idle")
  /\ UNCHANGED <<store, entries, rows, pending, conn, current, done, found, commits>>

(* The best TopK of the partition.  Scores are abstract, and a row of      *)
(* another dimension or of norm zero is passed over, so any choice may be  *)
(* the best one.  Both stores filter by partition; _snapshot_docs() checks *)
(* that again, and that no id is there twice.                              *)
Ranked(t) == {S \in SUBSET Held(HomeOf(t), Call(t).key) : Cardinality(S) <= TopK}

Sound(S, k) == /\ \A r \in S : r.key = k
               /\ \A r, q \in S : r.id = q.id => r = q

(* query(): the documents of the partition, with the regime and the mask   *)
(* read before; a result that does not check raises.                       *)
Retrieve(t) ==
  /\ pc[t] = IF store = "memory" THEN "prepared" ELSE "holding"
  /\ Call(t).op = "query"
  /\ \E S \in Ranked(t) : Sound(S, Call(t).key) /\
       calls' = [calls EXCEPT ![current[t]].docs = S, ![current[t]].outcome = "returned"]
  /\ Goto(t, "idle")
  /\ IF store = "postgres" THEN Release(t) ELSE UNCHANGED conn
  /\ UNCHANGED <<store, entries, rows, pending, current, done, found, commits>>

(***************************************************************************)

Init ==
  /\ store \in Stores
  /\ entries = [p \in Processes |-> <<>>]
  /\ rows = [h \in Homes |-> {}]
  /\ pending = [t \in Threads |-> {}]
  /\ conn = [p \in Processes |-> Nobody]
  /\ pc = [t \in Threads |-> "idle"]
  /\ current = [t \in Threads |-> 0]
  /\ done = [t \in Threads |-> 0]
  /\ found = [t \in Threads |-> {}]
  /\ calls = <<>>
  /\ commits = 0

Step(t) ==
  \/ \E a \in Registrations : Register(t, a)
  \/ \E op \in Ops, k \in Partitions : Begin(t, op, k)
  \/ TakeMask(t)
  \/ Abandon(t)
  \/ MemoryInsert(t)
  \/ MemoryDelete(t)
  \/ Acquire(t)
  \/ PgInsert(t)
  \/ PgStatement(t)
  \/ PgCommit(t)
  \/ PgRollback(t)
  \/ PgDeleteStarts(t)
  \/ PgDeleteEnds(t)
  \/ Count(t)
  \/ Retrieve(t)

Next == \E t \in Threads : Step(t)

Spec == Init /\ [][Next]_vars

(***************************************************************************)
(* Properties.                                                             *)
(***************************************************************************)

(* Auto-assignment never hands out a regime the map already bound: two     *)
(* partitions of one process share a mask only when the later one named    *)
(* the regime itself, in whatever order explicit, repeated and automatic   *)
(* registrations came.                                                     *)
RegimesApart ==
  \A p \in Processes : \A i, j \in DOMAIN entries[p] :
     i < j /\ entries[p][i].regime = entries[p][j].regime
       => entries[p][j].asked

(* What a call read from the map stays true of it: a stored row went       *)
(* through the mask its writer's process still returns for the partition,  *)
(* no row was written into a partition that is IMMUTABLE there, no weight  *)
(* snapshot into one that is not READ_WRITE; and a query returned the mask *)
(* of the regime it named, over documents of that partition which, when    *)
(* this process gated them, it gated with this mask.                       *)
RowFollowsBinding(r) ==
  LET c == calls[r.call]
      p == ProcessOf[c.thread]
  IN /\ r.gate \in {Ungated, MaskOf(p, r.key)}
     /\ EntryOf(p, r.key).mode
          \in (IF c.op = "weights" THEN {"read_write"} ELSE {"fresh", "read_write"})

AnswerFollowsBinding(c) ==
  c.op = "query" /\ c.outcome = "returned"
    => /\ c.gate = c.regime
       /\ c.gate = MaskOf(ProcessOf[c.thread], c.key)
       /\ \A r \in c.docs :
            /\ r.key = c.key
            /\ ProcessOf[calls[r.call].thread] = ProcessOf[c.thread]
                 => r.gate \in {Ungated, c.gate}

BindingsHold ==
  /\ \A h \in Homes : \A r \in rows[h] : RowFollowsBinding(r)
  /\ \A n \in DOMAIN calls : AnswerFollowsBinding(calls[n])

(* A batch is stored whole or not at all, and nobody else disturbs it: a   *)
(* call that did not commit left no row, and a row of one that did is      *)
(* missing only because the same partition was deleted later or, in        *)
(* PostgreSQL, because a later call on the same partition wrote its id.    *)
Gone(n, id) ==
  \E m \in DOMAIN calls :
     /\ calls[m].commit > calls[n].commit
     /\ calls[m].key = calls[n].key
     /\ \/ calls[m].op = "destroy"
        \/ store = "postgres" /\ id \in ToSet(calls[m].ids)

BatchesAreWhole ==
  \A n \in DOMAIN calls : LET home == HomeOf(calls[n].thread) IN
     IF calls[n].commit = 0
       THEN \A r \in rows[home] : r.call # n
       ELSE \A id \in ToSet(calls[n].ids) : RowFor(n, id) \in rows[home]
                                             \/ Gone(n, id)

(* When destroy() returns, no document committed before its count is left, *)
(* in particular none of a batch that was in flight when the DELETE        *)
(* started and committed behind it.                                        *)
DestroyedIsGone ==
  \A n \in DOMAIN calls :
     calls[n].op = "destroy" /\ calls[n].outcome = "returned"
       => \A r \in Held(HomeOf(calls[n].thread), calls[n].key) :
             calls[r.call].commit > calls[n].counted

=============================================================================
