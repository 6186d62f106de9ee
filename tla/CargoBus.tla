-------------------------------- MODULE CargoBus -------------------------------
(***************************************************************************)
(* Cargo Mode (_cargo_impl.py): a bus docks a signed manifest once per     *)
(* process life, the session it opens loads the signed payload, retrieves, *)
(* and departs with one receipt, which anyone holding the manifest can     *)
(* verify.  The documents go to a vector store (_rag.py, _rag_stores.py)   *)
(* that other sessions use at the same time and that may fail.             *)
(*                                                                         *)
(* Each operation of a session runs under the session's lock.  A load or a *)
(* retrieval is two steps, because the store is called between the checks  *)
(* and the record: time passes there and other sessions move.  dock checks *)
(* before it takes the bus's lock, so it is two steps as well.  A bound    *)
(* partition keeps its regime and mode (PartitionMap.register), so that    *)
(* re-checking the binding never refuses and is left out.                  *)
(***************************************************************************)
EXTENDS Integers, Sequences, FiniteSets

CONSTANTS
  Sessions,      \* dock() calls
  Manifests,     \* manifest ids
  Signed,        \* the signed content of each manifest
  Partitions, Ids,
  Immutable,     \* partitions in IMMUTABLE mode
  None,
  MaxTime, MaxOps, MaxRestarts   \* bounds on the clock, a session, the restarts

Never == -1      \* expires_epoch = None
Kinds == {"load", "retrieve", "load_and_retrieve"}
Conditions == {"ttl_expired", "partition_destroyed", "receipt_acknowledged",
               "items_exhausted"}
ManifestType == [operation : Kinds, partition : Partitions, ids : SUBSET Ids,
                 item_count : Nat, expires : Nat \cup {Never},
                 conditions : SUBSET Conditions, max_reissues : Nat]

ASSUME ConstantsAssumption ==
  /\ Signed \in [Manifests -> ManifestType]
  /\ Immutable \subseteq Partitions
  /\ MaxTime \in Nat /\ MaxOps \in Nat /\ MaxRestarts \in Nat
  /\ None \notin Sessions /\ None \notin Manifests

VARIABLES
  now,        \* time.time(), in whole ticks
  durable,    \* is the adapter's store PgVectorStore, or InMemoryVectorStore?
  docked,     \* DefaultRegimeBus._docked_manifest_ids
  session,    \* LiveDockingSession of each dock() call; a departed one is its receipt
  holder,     \* the session that wrote each document with a signed id, per partition
  wiped,      \* HISTORY: partitions destroyed in this process life
  ingested,   \* HISTORY: payload commits of each manifest in this process life
  restarts    \* the process life: a bounded count of restarts

vars == <<now, durable, docked, session, holder, wiped, ingested, restarts>>
store == <<durable, holder, wiped, ingested>>

Phases == {"new", "docking", "open", "loading", "retrieving", "departed",
           "refused", "lost"}
Operations == [kind : {"load", "unload"}, at : Nat, item_count : Nat]
SessionType == [phase : Phases, manifest : Manifests \cup {None},
                life : Nat,   \* HISTORY: the process life of the session
                docked_at : Nat,
                load : {"pending", "completed"}, operations : Seq(Operations),
                reissues : Nat, departed_at : Nat, met : SUBSET Conditions]
Unused == [phase |-> "new", manifest |-> None, life |-> 0, docked_at |-> 0,
           load |-> "pending", operations |-> <<>>, reissues |-> 0,
           departed_at |-> 0, met |-> {}]

Empty == [p \in Partitions |-> [i \in Ids |-> None]]
Bill(s) == Signed[session[s].manifest]
Expired(bill, at) == bill.expires # Never /\ at >= bill.expires
Set(s, c) == session' = [session EXCEPT ![s] = c]
ToPhase(s, phase) == Set(s, [session[s] EXCEPT !.phase = phase])

--------------------------------------------------------------------------------
(* Docking. *)

\* Everything dock() checks before it takes the lock; scope and tags are abstract.
Admissible(bill) ==
  /\ ~Expired(bill, now)
  /\ bill.conditions \subseteq {"ttl_expired"}
  /\ "ttl_expired" \in bill.conditions => bill.expires # Never

Dock(s, m) ==
  /\ session[s].phase = "new"
  /\ Admissible(Signed[m])
  /\ Set(s, [Unused EXCEPT !.phase = "docking", !.manifest = m, !.life = restarts])
  /\ UNCHANGED <<now, docked, store, restarts>>

\* FAULT: whether a manifest was docked is not asked again under the lock.
FaultUndocked(m) == TRUE
Undocked(m) == m \notin docked

DockAdmits(s) ==
  /\ session[s].phase = "docking"
  /\ Undocked(session[s].manifest)
  /\ docked' = docked \cup {session[s].manifest}
  /\ Set(s, [session[s] EXCEPT !.phase = "open", !.docked_at = now])
  /\ UNCHANGED <<now, store, restarts>>

DockRefuses(s) ==
  /\ session[s].phase = "docking"
  /\ ~Undocked(session[s].manifest)
  /\ ToPhase(s, "refused")
  /\ UNCHANGED <<now, docked, store, restarts>>

--------------------------------------------------------------------------------
(* Work. *)

Loads(bill) == bill.operation \in {"load", "load_and_retrieve"}
Retrieves(bill) == bill.operation \in {"retrieve", "load_and_retrieve"}

\* FAULT: only the expiry and the operation are checked.
FaultMayLoad(s) == ~Expired(Bill(s), now) /\ Loads(Bill(s))
MayLoad(s) == /\ ~Expired(Bill(s), now)
              /\ Loads(Bill(s))
              /\ session[s].load = "pending"

\* load_cargo up to the store call.  The payload is the signed one: any other is
\* refused before the store is reached, as is a partition that is not writable.
Load(s) ==
  /\ session[s].phase = "open"
  /\ MayLoad(s)
  /\ Bill(s).partition \notin Immutable
  /\ Len(session[s].operations) < MaxOps
  /\ ToPhase(s, "loading")
  /\ UNCHANGED <<now, docked, store, restarts>>

Held(s, p) == \E i \in Bill(s).ids : holder[p][i] # None

\* FAULT: a batch is stored whatever is there already.
FaultStorable(s) == TRUE
\* InMemoryVectorStore refuses a batch with an id its partition holds; PgVectorStore
\* replaces those, and refuses an id that another partition holds.
Storable(s) ==
  IF durable THEN \A p \in Partitions \ {Bill(s).partition} : ~Held(s, p)
             ELSE ~Held(s, Bill(s).partition)

\* The all-or-nothing insert_many.
Insert(s) ==
  /\ Storable(s)
  /\ holder' = [holder EXCEPT ![Bill(s).partition] =
                  [i \in Ids |-> IF i \in Bill(s).ids THEN s ELSE @[i]]]
  /\ ingested' = [ingested EXCEPT ![session[s].manifest] = @ + 1]
  /\ UNCHANGED <<durable, wiped>>

Recorded(s, kind, count) ==
  [session[s] EXCEPT
     !.phase = "open",
     !.load = IF kind = "load" THEN "completed" ELSE @,
     !.operations = Append(@, [kind |-> kind, at |-> now, item_count |-> count])]

Loaded(s) ==
  /\ session[s].phase = "loading"
  /\ Insert(s)
  /\ Set(s, Recorded(s, "load", Bill(s).item_count))
  /\ UNCHANGED <<now, docked, restarts>>

\* FAULT: the store writes one document after another and fails on the way.
FaultLoadFails(s) ==
  /\ session[s].phase = "loading"
  /\ Insert(s)
  /\ ToPhase(s, "open")
  /\ UNCHANGED <<now, docked, restarts>>
\* The store refuses or is unreachable: nothing is written and load_cargo raises.
LoadFails(s) ==
  /\ session[s].phase = "loading"
  /\ ToPhase(s, "open")
  /\ UNCHANGED <<now, docked, store, restarts>>

\* The transaction commits but its answer is lost with the connection: load_cargo
\* raises without having recorded the load.
LoadUnacknowledged(s) ==
  /\ durable
  /\ session[s].phase = "loading"
  /\ ingested[session[s].manifest] < MaxOps
  /\ Insert(s)
  /\ ToPhase(s, "open")
  /\ UNCHANGED <<now, docked, restarts>>

\* unload_cargo and unload_vectors differ in what they return, not in the session.
Unload(s) ==
  /\ session[s].phase = "open"
  /\ ~Expired(Bill(s), now)
  /\ Retrieves(Bill(s))
  /\ Len(session[s].operations) < MaxOps
  /\ ToPhase(s, "retrieving")
  /\ UNCHANGED <<now, docked, store, restarts>>

Unloaded(s, count) ==
  /\ session[s].phase = "retrieving"
  /\ Set(s, Recorded(s, "unload", count))
  /\ UNCHANGED <<now, docked, store, restarts>>

UnloadFails(s) ==
  /\ session[s].phase = "retrieving"
  /\ ToPhase(s, "open")
  /\ UNCHANGED <<now, docked, store, restarts>>

MayReissue(s) == session[s].reissues < Bill(s).max_reissues

RecordReissue(s) ==
  /\ session[s].phase = "open"
  /\ ~Expired(Bill(s), now)
  /\ MayReissue(s)
  /\ Set(s, [session[s] EXCEPT !.reissues = @ + 1])
  /\ UNCHANGED <<now, docked, store, restarts>>

Count(s, kind) ==
  Cardinality({i \in DOMAIN session[s].operations : session[s].operations[i].kind = kind})
LoadCounts(s) ==
  {session[s].operations[i].item_count :
     i \in {j \in DOMAIN session[s].operations : session[s].operations[j].kind = "load"}}

\* _require_manifest_obligations, which _receipt_fulfills_manifest repeats.
Obliged(s) ==
  /\ Loads(Bill(s)) => Count(s, "load") = 1 /\ LoadCounts(s) = {Bill(s).item_count}
  /\ Bill(s).operation = "load" => Count(s, "unload") = 0
  /\ Bill(s).operation = "retrieve" => Count(s, "load") = 0

\* FAULT: the condition is judged by the last operation, not by the departure.
FaultMet(s, at) ==
  {c \in Bill(s).conditions :
     \E i \in DOMAIN session[s].operations : Expired(Bill(s), session[s].operations[i].at)}
Met(s, at) == {c \in Bill(s).conditions : c = "ttl_expired" /\ Expired(Bill(s), at)}

MayDepart(s) == session[s].phase = "open" /\ Obliged(s)

Depart(s) ==
  /\ MayDepart(s)
  /\ Set(s, [session[s] EXCEPT !.phase = "departed", !.departed_at = now,
                               !.met = Met(s, now)])
  /\ UNCHANGED <<now, docked, store, restarts>>

--------------------------------------------------------------------------------
(* Around the sessions. *)

\* GatedRAGAdapter.destroy: the count that follows the deletion only raises.
Destroy(p) ==
  /\ p \notin Immutable
  /\ holder' = [holder EXCEPT ![p] = [i \in Ids |-> None]]
  /\ wiped' = wiped \cup {p}
  /\ UNCHANGED <<now, durable, docked, session, ingested, restarts>>

\* EXTERNAL: the process restarts.  The bus forgets what was docked ("process-local
\* replay protection"), live sessions end without a receipt, and documents held in
\* memory are gone.
Restart ==
  /\ restarts < MaxRestarts
  /\ restarts' = restarts + 1
  /\ docked' = {}
  /\ ingested' = [m \in Manifests |-> 0]
  /\ session' = [s \in Sessions |->
                   IF session[s].phase \in {"new", "departed"} THEN session[s]
                   ELSE [session[s] EXCEPT !.phase = "lost"]]
  /\ holder' = IF durable THEN holder ELSE Empty
  /\ wiped' = {}
  /\ UNCHANGED <<now, durable>>

\* EXTERNAL: the clock.
Tick ==
  /\ now < MaxTime
  /\ now' = now + 1
  /\ UNCHANGED <<docked, session, store, restarts>>

Init ==
  /\ now = 0
  /\ durable \in BOOLEAN
  /\ docked = {}
  /\ session = [s \in Sessions |-> Unused]
  /\ holder = Empty
  /\ wiped = {}
  /\ ingested = [m \in Manifests |-> 0]
  /\ restarts = 0

Working(s) ==
  \/ \E m \in Manifests : Dock(s, m)
  \/ DockAdmits(s)
  \/ DockRefuses(s)
  \/ Load(s)
  \/ Loaded(s)
  \/ LoadFails(s)
  \/ LoadUnacknowledged(s)
  \/ Unload(s)
  \/ \E count \in 0..1 : Unloaded(s, count)
  \/ UnloadFails(s)
  \/ RecordReissue(s)
  \/ Depart(s)

Next ==
  \/ \E s \in Sessions : Working(s)
  \/ \E p \in Partitions : Destroy(p)
  \/ Restart
  \/ Tick

Spec == Init /\ [][Next]_vars

--------------------------------------------------------------------------------
(* Properties. *)

Opened(s) == session[s].phase \in {"open", "loading", "retrieving", "departed"}
Current(s) == session[s].life = restarts

\* The types of the variables; a session past its checks names a manifest, and the
\* flag that stops a second load agrees with the operations it has recorded.
TypeOK ==
  /\ now \in Nat
  /\ durable \in BOOLEAN
  /\ docked \subseteq Manifests
  /\ session \in [Sessions -> SessionType]
  /\ holder \in [Partitions -> [Ids -> Sessions \cup {None}]]
  /\ wiped \subseteq Partitions
  /\ ingested \in [Manifests -> Nat]
  /\ restarts \in Nat
  /\ \A s \in Sessions :
       /\ session[s].phase # "new" => session[s].manifest \in Manifests
       /\ session[s].load = "completed" <=>
            \E i \in DOMAIN session[s].operations : session[s].operations[i].kind = "load"

\* However many dock() calls pass the checks together, a manifest opens one session
\* and ends in one receipt in a process life (the lock of dock).
DockedOnce ==
  \A s, u \in Sessions :
    /\ Opened(s) /\ Opened(u)
    /\ session[s].manifest = session[u].manifest /\ session[s].life = session[u].life
    => s = u

\* What _receipt_fulfills_manifest demands of a receipt.
Verifies(s) ==
  LET ops == session[s].operations IN
  /\ session[s].docked_at <= session[s].departed_at
  /\ \A i \in DOMAIN ops : /\ session[s].docked_at <= ops[i].at
                           /\ ops[i].at <= session[s].departed_at
  /\ \A i, j \in DOMAIN ops : i <= j => ops[i].at <= ops[j].at
  /\ session[s].reissues <= Bill(s).max_reissues
  /\ Obliged(s)
  /\ session[s].met = {c \in Bill(s).conditions :
                         /\ c = "ttl_expired" /\ Bill(s).expires # Never
                         /\ session[s].departed_at >= Bill(s).expires}

\* Every receipt a session departs with is one the verifier accepts, whatever the
\* session went through: failed and late operations, reissues, expiry on the way.
ReceiptsVerify == \A s \in Sessions : session[s].phase = "departed" => Verifies(s)

\* A receipt accounts for the store: the documents it claims to have loaded are the
\* session's own, unless the partition was destroyed.  PgVectorStore replaces the
\* documents of an earlier batch and does not promise this.
ReceiptedDocumentsKept ==
  \A s \in Sessions :
    ~durable /\ session[s].phase = "departed" /\ Current(s) /\ Loads(Bill(s)) =>
      \/ Bill(s).partition \in wiped
      \/ \A i \in Bill(s).ids : holder[Bill(s).partition][i] = s

\* What enters the store is accounted for: a departed session has recorded every
\* payload commit made under its manifest in its process life, unless PgVectorStore
\* committed one whose answer was lost.
CommitsAreReceipted ==
  \A s \in Sessions :
    ~durable /\ session[s].phase = "departed" /\ Current(s) =>
      ingested[session[s].manifest] = Count(s, "load")

================================================================================
