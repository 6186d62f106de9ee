----------------------------- MODULE CargoBusProofs ----------------------------
(***************************************************************************)
(* Proofs about CargoBus for any sessions, manifests, partitions, stores    *)
(* and restarts: type correctness; a manifest docks once in a process life; *)
(* every receipt that a session departs with is one the verifier accepts;   *)
(* and receipts and in-memory store account for each other.                 *)
(***************************************************************************)
EXTENDS CargoBus, FiniteSetTheorems, TLAPS

--------------------------------------------------------------------------------
(* What is said of one session record, so that a session that a step leaves    *)
(* alone keeps it.                                                              *)

Live == {"docking", "open", "loading", "retrieving"}
OpenPhases == {"open", "loading", "retrieving", "departed"}

Consistent(c) ==
  /\ c.phase # "new" => c.manifest \in Manifests
  /\ c.load = "completed" <=> \E i \in DOMAIN c.operations : c.operations[i].kind = "load"

\* The session belongs to this life, or to an earlier one; one that is under way
\* belongs to this one.
OfLife(c, life) == c.life <= life /\ (c.phase \in Live => c.life = life)

\* An opened session's manifest is docked for as long as its process lives.
Docks(c, life, manifests) ==
  (c.phase \in OpenPhases /\ c.life = life) => c.manifest \in manifests

\* Operations are recorded in the order of the clock, after docking.
Ordered(c, time) ==
  /\ c.docked_at <= time
  /\ \A i \in DOMAIN c.operations :
       c.docked_at <= c.operations[i].at /\ c.operations[i].at <= time
  /\ \A i, j \in DOMAIN c.operations : i <= j => c.operations[i].at <= c.operations[j].at
Timed(c, time) ==
  /\ c.phase = "docking" => c.operations = <<>>
  /\ c.phase \in OpenPhases => Ordered(c, time)

CountOf(ops, kind) == Cardinality({i \in DOMAIN ops : ops[i].kind = kind})
LoadCountsOf(ops) ==
  {ops[i].item_count : i \in {j \in DOMAIN ops : ops[j].kind = "load"}}
ObligedBy(ops, bill) ==
  /\ Loads(bill) => CountOf(ops, "load") = 1 /\ LoadCountsOf(ops) = {bill.item_count}
  /\ bill.operation = "load" => CountOf(ops, "unload") = 0
  /\ bill.operation = "retrieve" => CountOf(ops, "load") = 0
Accepted(c) ==
  LET bill == Signed[c.manifest] IN
  /\ Ordered(c, c.departed_at)
  /\ c.reissues <= bill.max_reissues
  /\ ObligedBy(c.operations, bill)
  /\ c.met = {d \in bill.conditions : /\ d = "ttl_expired" /\ bill.expires # Never
                                      /\ c.departed_at >= bill.expires}
Receipted(c) == c.phase = "departed" => Accepted(c)
Reissued(c) == c.phase # "new" => c.reissues <= Signed[c.manifest].max_reissues

SessionInv ==
  \A s \in Sessions :
    /\ Consistent(session[s]) /\ OfLife(session[s], restarts)
    /\ Docks(session[s], restarts, docked) /\ Timed(session[s], now)
    /\ Reissued(session[s]) /\ Receipted(session[s])

\* The variables, without what TypeOK says of each session.
Typed ==
  /\ now \in Nat
  /\ durable \in BOOLEAN
  /\ docked \subseteq Manifests
  /\ session \in [Sessions -> SessionType]
  /\ holder \in [Partitions -> [Ids -> Sessions \cup {None}]]
  /\ wiped \subseteq Partitions
  /\ ingested \in [Manifests -> Nat]
  /\ restarts \in Nat

IInv == Typed /\ SessionInv /\ DockedOnce

--------------------------------------------------------------------------------
(* Records. *)

LEMMA SessionFields ==
  ASSUME NEW c \in SessionType
  PROVE  /\ c.phase \in Phases /\ c.manifest \in Manifests \cup {None} /\ c.life \in Nat
         /\ c.docked_at \in Nat /\ c.load \in {"pending", "completed"}
         /\ c.operations \in Seq(Operations) /\ c.reissues \in Nat /\ c.departed_at \in Nat
         /\ c.met \in SUBSET Conditions
  BY DEF SessionType

LEMMA UnusedType == Unused \in SessionType
  BY DEF Unused, SessionType, Phases, Operations

LEMMA BillType ==
  ASSUME NEW m \in Manifests
  PROVE  /\ Signed[m] \in ManifestType /\ Signed[m].item_count \in Nat
         /\ Signed[m].expires \in Nat \cup {Never} /\ Signed[m].conditions \in SUBSET Conditions
         /\ Signed[m].max_reissues \in Nat
  BY ConstantsAssumption DEF ManifestType

\* The record of a session in another phase is alike but for its phase.
WithPhase(c, phase) == [c EXCEPT !.phase = phase]
LEMMA PhaseRecord ==
  ASSUME NEW c \in SessionType, NEW phase \in Phases
  PROVE  /\ WithPhase(c, phase) \in SessionType /\ WithPhase(c, phase).phase = phase
         /\ WithPhase(c, phase).manifest = c.manifest /\ WithPhase(c, phase).life = c.life
         /\ WithPhase(c, phase).docked_at = c.docked_at /\ WithPhase(c, phase).load = c.load
         /\ WithPhase(c, phase).operations = c.operations
         /\ WithPhase(c, phase).reissues = c.reissues
  BY DEF WithPhase, SessionType

DockedAt(c, time) == [c EXCEPT !.phase = "open", !.docked_at = time]
LEMMA DockedRecord ==
  ASSUME NEW c \in SessionType, NEW time \in Nat
  PROVE  /\ DockedAt(c, time) \in SessionType /\ DockedAt(c, time).phase = "open"
         /\ DockedAt(c, time).manifest = c.manifest /\ DockedAt(c, time).life = c.life
         /\ DockedAt(c, time).docked_at = time /\ DockedAt(c, time).load = c.load
         /\ DockedAt(c, time).operations = c.operations
         /\ DockedAt(c, time).reissues = c.reissues
  BY DEF DockedAt, SessionType, Phases

Departed(c, time, met) == [c EXCEPT !.phase = "departed", !.departed_at = time, !.met = met]
LEMMA DepartedRecord ==
  ASSUME NEW c \in SessionType, NEW time \in Nat, NEW met \in SUBSET Conditions
  PROVE  LET d == Departed(c, time, met) IN
         /\ d \in SessionType /\ d.phase = "departed" /\ d.manifest = c.manifest
         /\ d.life = c.life /\ d.docked_at = c.docked_at /\ d.load = c.load
         /\ d.operations = c.operations /\ d.reissues = c.reissues
         /\ d.departed_at = time /\ d.met = met
  BY DEF Departed, SessionType, Phases

Reissue(c) == [c EXCEPT !.reissues = @ + 1]
LEMMA ReissueRecord ==
  ASSUME NEW c \in SessionType
  PROVE  LET d == Reissue(c) IN
         /\ d \in SessionType /\ d.phase = c.phase /\ d.manifest = c.manifest
         /\ d.life = c.life /\ d.docked_at = c.docked_at /\ d.load = c.load
         /\ d.operations = c.operations /\ d.reissues = c.reissues + 1
  BY DEF Reissue, SessionType

Opening(m, life) == [Unused EXCEPT !.phase = "docking", !.manifest = m, !.life = life]
LEMMA OpeningRecord ==
  ASSUME NEW m \in Manifests, NEW life \in Nat
  PROVE  LET d == Opening(m, life) IN
         /\ d \in SessionType /\ d.phase = "docking" /\ d.manifest = m /\ d.life = life
         /\ d.load = "pending" /\ d.operations = <<>> /\ d.reissues = 0
<1>1. Unused.load = "pending" /\ Unused.operations = <<>> /\ Unused.reissues = 0
  BY DEF Unused
<1>2. m \in Manifests \cup {None} /\ "docking" \in Phases
  BY DEF Phases
<1> QED BY <1>1, <1>2, UnusedType DEF Opening, SessionType

\* What an operation adds to the record of its session.
Entry(kind, time, count) == [kind |-> kind, at |-> time, item_count |-> count]
Logged(c, load, entry) ==
  [c EXCEPT !.phase = "open", !.load = load, !.operations = Append(@, entry)]
LEMMA LoggedRecord ==
  ASSUME NEW c \in SessionType, NEW load \in {"pending", "completed"}, NEW entry \in Operations
  PROVE  LET d == Logged(c, load, entry) IN
         /\ d \in SessionType /\ d.phase = "open" /\ d.manifest = c.manifest
         /\ d.life = c.life /\ d.docked_at = c.docked_at /\ d.reissues = c.reissues
         /\ d.load = load /\ d.operations = Append(c.operations, entry)
<1>1. Append(c.operations, entry) \in Seq(Operations)
  BY SessionFields
<1> QED BY <1>1 DEF Logged, SessionType, Phases

LEMMA AppendIndex ==
  ASSUME NEW ops \in Seq(Operations), NEW o
  PROVE  /\ DOMAIN Append(ops, o) = DOMAIN ops \cup {Len(ops) + 1}
         /\ \A i \in DOMAIN ops : Append(ops, o)[i] = ops[i]
         /\ Append(ops, o)[Len(ops) + 1] = o
         /\ \A i \in DOMAIN ops : i < Len(ops) + 1
         /\ Len(ops) + 1 \notin DOMAIN ops
  OBVIOUS

--------------------------------------------------------------------------------
(* One session moves and the others do not.                                    *)

LEMMA OneMoves ==
  ASSUME Typed, SessionInv, NEW s \in Sessions, NEW c \in SessionType, Set(s, c),
         now' = now, restarts' = restarts, docked \subseteq docked',
         Consistent(c), OfLife(c, restarts), Docks(c, restarts, docked'), Timed(c, now),
         Reissued(c), Receipted(c)
  PROVE  session' \in [Sessions -> SessionType] /\ SessionInv'
<1>1. /\ session' \in [Sessions -> SessionType] /\ session'[s] = c
      /\ \A u \in Sessions \ {s} : session'[u] = session[u]
  BY DEF Typed, Set
<1>2. ASSUME NEW u \in Sessions
      PROVE  /\ Consistent(session'[u]) /\ OfLife(session'[u], restarts')
             /\ Docks(session'[u], restarts', docked') /\ Timed(session'[u], now')
             /\ Reissued(session'[u]) /\ Receipted(session'[u])
  <2>1. CASE u = s
    BY <1>1, <2>1
  <2>2. CASE u # s
    <3>1. session'[u] = session[u]
      BY <1>1, <2>2
    <3>2. /\ Consistent(session[u]) /\ OfLife(session[u], restarts)
          /\ Timed(session[u], now) /\ Reissued(session[u]) /\ Receipted(session[u])
      BY DEF SessionInv
    <3>3. Docks(session[u], restarts, docked')
      BY DEF SessionInv, Docks
    <3> QED BY <3>1, <3>2, <3>3
  <2> QED BY <2>1, <2>2
<1> QED BY <1>1, <1>2 DEF SessionInv

\* A session that was not open before, or stays in its manifest, disturbs no other.
LEMMA DockedOnceKept ==
  ASSUME Typed, DockedOnce, NEW s \in Sessions, NEW c, Set(s, c),
         \/ c.phase \notin OpenPhases
         \/ Opened(s) /\ c.manifest = session[s].manifest /\ c.life = session[s].life
  PROVE  DockedOnce'
<1>1. session'[s] = c /\ \A u \in Sessions \ {s} : session'[u] = session[u]
  BY DEF Typed, Set
<1> QED BY <1>1 DEF DockedOnce, Opened, OpenPhases

\* The variables but for the sessions.
Others ==
  /\ now \in Nat /\ durable \in BOOLEAN /\ docked \subseteq Manifests
  /\ holder \in [Partitions -> [Ids -> Sessions \cup {None}]]
  /\ wiped \subseteq Partitions /\ ingested \in [Manifests -> Nat] /\ restarts \in Nat

LEMMA StoreKept ==
  ASSUME Typed, UNCHANGED <<now, store, restarts>>, docked' \subseteq Manifests
  PROVE  Others'
  BY DEF Typed, store, Others

LEMMA InsertType ==
  ASSUME Typed, SessionInv, NEW s \in Sessions, session[s].phase # "new", Insert(s),
         UNCHANGED <<now, docked, restarts>>
  PROVE  Others'
<1>1. session[s].manifest \in Manifests
  BY DEF SessionInv, Consistent
<1>2. Bill(s).partition \in Partitions
  BY <1>1, ConstantsAssumption DEF Bill, ManifestType
<1>3. holder' \in [Partitions -> [Ids -> Sessions \cup {None}]]
  BY <1>2 DEF Insert, Typed
<1>4. ingested' \in [Manifests -> Nat]
  BY <1>1 DEF Insert, Typed
<1> QED BY <1>3, <1>4 DEF Insert, Typed, Others

\* Between operations a session changes its phase alone.
LEMMA PhaseStep ==
  ASSUME IInv, NEW s \in Sessions, NEW phase \in Phases \ {"new", "docking", "departed"},
         session[s].phase \in OpenPhases \/ phase \notin OpenPhases,
         session[s].phase # "new", phase \in Live => session[s].phase \in Live,
         ToPhase(s, phase), UNCHANGED <<now, docked, restarts>>, Others'
  PROVE  IInv'
<1> DEFINE c == WithPhase(session[s], phase)
<1>0. session[s] \in SessionType /\ Set(s, c)
  BY DEF IInv, Typed, ToPhase, WithPhase
<1>1. /\ c \in SessionType /\ c.phase = phase /\ c.manifest = session[s].manifest
      /\ c.life = session[s].life /\ c.docked_at = session[s].docked_at
      /\ c.load = session[s].load /\ c.operations = session[s].operations
      /\ c.reissues = session[s].reissues
  BY <1>0, PhaseRecord
<1>2. /\ Consistent(session[s]) /\ OfLife(session[s], restarts)
      /\ Docks(session[s], restarts, docked) /\ Timed(session[s], now) /\ Reissued(session[s])
  BY DEF IInv, SessionInv
<1> HIDE DEF c
<1>3. Consistent(c)
  BY <1>1, <1>2 DEF Consistent
<1>4. OfLife(c, restarts)
  BY <1>1, <1>2 DEF OfLife
<1>5. Docks(c, restarts, docked')
  BY <1>1, <1>2 DEF Docks
<1>6. Timed(c, now)
  BY <1>1, <1>2 DEF Timed, Ordered
<1>7. Reissued(c) /\ Receipted(c)
  BY <1>1, <1>2 DEF Reissued, Receipted
<1>8. session' \in [Sessions -> SessionType] /\ SessionInv'
  BY <1>0, <1>1, <1>3, <1>4, <1>5, <1>6, <1>7, OneMoves DEF IInv
<1>9. DockedOnce'
  BY <1>0, <1>1, DockedOnceKept DEF IInv, Opened, OpenPhases
<1> QED BY <1>8, <1>9 DEF IInv, Typed, Others

--------------------------------------------------------------------------------
(* The steps.                                                                  *)

LEMMA InitHolds == ASSUME Init PROVE IInv
<1>1. Unused.phase = "new" /\ Unused.life = 0 /\ Unused.load = "pending" /\ Unused.operations = <<>>
  BY DEF Unused
<1>2. session \in [Sessions -> SessionType] /\ \A s \in Sessions : session[s] = Unused
  BY UnusedType DEF Init
<1>3. holder \in [Partitions -> [Ids -> Sessions \cup {None}]]
  BY DEF Init, Empty
<1>4. Typed
  BY <1>2, <1>3 DEF Init, Typed
<1>5. SessionInv
  <2>1. /\ Consistent(Unused) /\ OfLife(Unused, 0) /\ Docks(Unused, 0, {}) /\ Timed(Unused, 0)
        /\ Reissued(Unused) /\ Receipted(Unused)
    BY <1>1 DEF Consistent, OfLife, Docks, Timed, Reissued, Receipted, Live, OpenPhases
  <2> QED BY <1>2, <2>1 DEF SessionInv, Init
<1>6. DockedOnce
  BY <1>1, <1>2 DEF DockedOnce, Opened
<1> QED BY <1>4, <1>5, <1>6 DEF IInv

LEMMA DockStep ==
  ASSUME IInv, NEW s \in Sessions, NEW m \in Manifests, Dock(s, m)
  PROVE  IInv'
<1> DEFINE c == Opening(m, restarts)
<1>1. /\ c \in SessionType /\ c.phase = "docking" /\ c.manifest = m /\ c.life = restarts
      /\ c.load = "pending" /\ c.operations = <<>> /\ c.reissues = 0
  BY OpeningRecord DEF IInv, Typed
<1>2. Set(s, c) /\ UNCHANGED <<now, docked, store, restarts>>
  BY DEF Dock, Opening
<1> HIDE DEF c
<1>3. /\ Consistent(c) /\ OfLife(c, restarts) /\ Docks(c, restarts, docked') /\ Timed(c, now)
      /\ Receipted(c)
  BY <1>1 DEF IInv, Typed, Consistent, OfLife, Docks, Timed, Receipted, Live, OpenPhases
<1>4. Reissued(c)
  BY <1>1, BillType DEF Reissued
<1>5. session' \in [Sessions -> SessionType] /\ SessionInv'
  BY <1>1, <1>2, <1>3, <1>4, OneMoves DEF IInv
<1>6. DockedOnce'
  BY <1>1, <1>2, DockedOnceKept DEF IInv, OpenPhases
<1>7. Others'
  BY <1>2, StoreKept DEF IInv, Typed
<1> QED BY <1>5, <1>6, <1>7 DEF IInv, Typed, Others

\* The lock of dock: no session of this life has opened the manifest.
LEMMA AdmitStep ==
  ASSUME IInv, NEW s \in Sessions, DockAdmits(s)
  PROVE  IInv'
<1> DEFINE c == DockedAt(session[s], now)
<1>0. session[s] \in SessionType /\ now \in Nat /\ restarts \in Nat
  BY DEF IInv, Typed
<1>1. /\ c \in SessionType /\ c.phase = "open" /\ c.manifest = session[s].manifest
      /\ c.life = session[s].life /\ c.docked_at = now /\ c.load = session[s].load
      /\ c.operations = session[s].operations /\ c.reissues = session[s].reissues
  BY <1>0, DockedRecord
<1>2. /\ Set(s, c) /\ UNCHANGED <<now, store, restarts>> /\ session[s].phase = "docking"
      /\ docked' = docked \cup {c.manifest} /\ c.manifest \notin docked
  BY <1>1 DEF DockAdmits, DockedAt, Undocked
<1>3. /\ Consistent(session[s]) /\ OfLife(session[s], restarts)
      /\ Timed(session[s], now) /\ Reissued(session[s])
  BY DEF IInv, SessionInv
<1> HIDE DEF c
<1>4. c.life = restarts /\ c.operations = <<>>
  BY <1>1, <1>2, <1>3 DEF OfLife, Timed, Live
<1>5. c.manifest \in Manifests /\ Consistent(c)
  BY <1>1, <1>2, <1>3 DEF Consistent
<1>6. OfLife(c, restarts) /\ Docks(c, restarts, docked') /\ Receipted(c) /\ Reissued(c)
  BY <1>0, <1>1, <1>2, <1>3, <1>4 DEF OfLife, Docks, Receipted, Reissued, Live
<1>7. Timed(c, now)
  BY <1>0, <1>1, <1>4 DEF Timed, Ordered
<1>8. session' \in [Sessions -> SessionType] /\ SessionInv'
  BY <1>1, <1>2, <1>5, <1>6, <1>7, OneMoves DEF IInv
<1>9. DockedOnce'
  <2>1. session'[s] = c /\ \A u \in Sessions \ {s} : session'[u] = session[u]
    BY <1>2 DEF IInv, Typed, Set
  <2>2. \A u \in Sessions \ {s} : Opened(u) /\ session[u].life = c.life => session[u].manifest # c.manifest
    BY <1>2, <1>4 DEF IInv, SessionInv, Docks, Opened, OpenPhases
  <2> QED BY <2>1, <2>2 DEF DockedOnce, Opened, IInv
<1>10. Others'
  BY <1>2, <1>5, StoreKept DEF IInv, Typed
<1> QED BY <1>8, <1>9, <1>10 DEF IInv, Typed, Others

\* An operation is recorded with the time of its end.
LEMMA RecordStep ==
  ASSUME IInv, NEW s \in Sessions, NEW kind \in {"load", "unload"}, NEW count \in Nat,
         session[s].phase \in {"loading", "retrieving"}, Set(s, Recorded(s, kind, count)),
         UNCHANGED <<now, docked, restarts>>, Others'
  PROVE  IInv'
<1> DEFINE o == Entry(kind, now, count)
           load == IF kind = "load" THEN "completed" ELSE session[s].load
           c == Logged(session[s], load, o)
           ops == session[s].operations
<1>0. session[s] \in SessionType /\ now \in Nat /\ Set(s, c)
  BY DEF IInv, Typed, Recorded, Logged, Entry
<1>l. load \in {"pending", "completed"} /\ o \in Operations
  BY <1>0, SessionFields DEF Operations, Entry
<1>m. /\ kind = "load" => load = "completed"
      /\ kind # "load" => load = session[s].load
  OBVIOUS
<1>5. o.kind = kind /\ o.at = now
  BY DEF Entry
<1> HIDE DEF load, o
<1>1. /\ c \in SessionType /\ c.phase = "open" /\ c.manifest = session[s].manifest
      /\ c.life = session[s].life /\ c.docked_at = session[s].docked_at
      /\ c.reissues = session[s].reissues
      /\ c.load = load /\ c.operations = Append(ops, o)
  BY <1>0, <1>l, LoggedRecord
<1>2. /\ Consistent(session[s]) /\ OfLife(session[s], restarts)
      /\ Docks(session[s], restarts, docked) /\ Timed(session[s], now) /\ Reissued(session[s])
  BY DEF IInv, SessionInv
<1>3. ops \in Seq(Operations) /\ session[s].docked_at \in Nat
  BY <1>0, SessionFields
<1> HIDE DEF c
<1>d. DOMAIN Append(ops, o) = DOMAIN ops \cup {Len(ops) + 1}
  BY <1>3, AppendIndex
<1>4. /\ DOMAIN c.operations = DOMAIN ops \cup {Len(ops) + 1}
      /\ \A i \in DOMAIN ops : c.operations[i] = ops[i]
      /\ c.operations[Len(ops) + 1] = o
      /\ \A i \in DOMAIN ops : i < Len(ops) + 1
      /\ Len(ops) + 1 \notin DOMAIN ops
  BY <1>1, <1>3, AppendIndex
<1> HIDE DEF ops
<1>6. Consistent(c)
  <2>1. c.phase # "new" => c.manifest \in Manifests
    BY <1>1, <1>2 DEF Consistent
  <2>2. (\E i \in DOMAIN c.operations : c.operations[i].kind = "load")
          <=> kind = "load" \/ \E i \in DOMAIN ops : ops[i].kind = "load"
    BY <1>4, <1>5
  <2>3. session[s].load = "completed" <=> \E i \in DOMAIN ops : ops[i].kind = "load"
    BY <1>2 DEF Consistent, ops
  <2>4. c.load = "completed" <=> kind = "load" \/ session[s].load = "completed"
    BY <1>1, <1>m
  <2> QED BY <2>1, <2>2, <2>3, <2>4 DEF Consistent
<1>7. Ordered(c, now)
  <2>1. Ordered(session[s], now)
    BY <1>2 DEF Timed, OpenPhases
  <2>2. /\ session[s].docked_at <= now
        /\ \A i \in DOMAIN ops : session[s].docked_at <= ops[i].at /\ ops[i].at <= now
        /\ \A i, j \in DOMAIN ops : i <= j => ops[i].at <= ops[j].at
    BY <2>1 DEF Ordered, ops
  <2>3. \A i \in DOMAIN c.operations :
          c.docked_at <= c.operations[i].at /\ c.operations[i].at <= now
    BY <1>0, <1>1, <1>4, <1>5, <2>2
  <2>4. ASSUME NEW i \in DOMAIN c.operations, NEW j \in DOMAIN c.operations, i <= j
        PROVE  c.operations[i].at <= c.operations[j].at
    <3>1. CASE j = Len(ops) + 1
      BY <1>4, <1>5, <2>3, <3>1
    <3>2. CASE j \in DOMAIN ops
      <4>1. Len(ops) \in Nat /\ \A k \in DOMAIN ops : k \in Nat
        BY <1>3 DEF ops
      <4>2. i # Len(ops) + 1
        BY <1>4, <2>4, <3>2, <4>1
      <4> QED BY <1>4, <2>2, <2>4, <3>2, <4>2
    <3> QED BY <1>4, <3>1, <3>2
  <2> QED BY <1>1, <2>2, <2>3, <2>4 DEF Ordered
<1>8. OfLife(c, restarts) /\ Docks(c, restarts, docked') /\ Reissued(c) /\ Receipted(c)
  BY <1>1, <1>2 DEF OfLife, Docks, Reissued, Receipted, Live, OpenPhases
<1>9. Timed(c, now)
  BY <1>1, <1>7 DEF Timed
<1>10. session' \in [Sessions -> SessionType] /\ SessionInv'
  BY <1>0, <1>1, <1>6, <1>8, <1>9, OneMoves DEF IInv
<1>11. DockedOnce'
  BY <1>0, <1>1, DockedOnceKept DEF IInv, Opened
<1> QED BY <1>10, <1>11 DEF IInv, Typed, Others

LEMMA ReissueStep ==
  ASSUME IInv, NEW s \in Sessions, RecordReissue(s)
  PROVE  IInv'
<1> DEFINE c == Reissue(session[s])
<1>0. session[s] \in SessionType /\ Set(s, c) /\ UNCHANGED <<now, docked, store, restarts>>
  BY DEF IInv, Typed, RecordReissue, Reissue
<1>1. /\ c \in SessionType /\ c.phase = session[s].phase /\ c.manifest = session[s].manifest
      /\ c.life = session[s].life /\ c.docked_at = session[s].docked_at
      /\ c.load = session[s].load /\ c.operations = session[s].operations
      /\ c.reissues = session[s].reissues + 1
  BY <1>0, ReissueRecord
<1>2. /\ Consistent(session[s]) /\ OfLife(session[s], restarts)
      /\ Docks(session[s], restarts, docked) /\ Timed(session[s], now)
  BY DEF IInv, SessionInv
<1>3. session[s].phase = "open" /\ session[s].reissues < Signed[session[s].manifest].max_reissues
  BY DEF RecordReissue, MayReissue, Bill
<1>4. session[s].reissues \in Nat /\ Signed[session[s].manifest].max_reissues \in Nat
  BY <1>0, <1>2, <1>3, SessionFields, BillType DEF Consistent
<1> HIDE DEF c
<1>5. Reissued(c)
  BY <1>1, <1>3, <1>4 DEF Reissued
<1>6. Consistent(c)
  BY <1>1, <1>2 DEF Consistent
<1>7. OfLife(c, restarts) /\ Docks(c, restarts, docked') /\ Receipted(c)
  BY <1>0, <1>1, <1>2, <1>3 DEF OfLife, Docks, Receipted
<1>8. Timed(c, now)
  BY <1>1, <1>2 DEF Timed, Ordered
<1>9. session' \in [Sessions -> SessionType] /\ SessionInv'
  BY <1>0, <1>1, <1>5, <1>6, <1>7, <1>8, OneMoves DEF IInv
<1>10. DockedOnce'
  BY <1>0, <1>1, <1>3, DockedOnceKept DEF IInv, Opened
<1>11. Others'
  BY <1>0, StoreKept DEF IInv, Typed
<1> QED BY <1>9, <1>10, <1>11 DEF IInv, Typed, Others

\* The obligations of a departing session are those that the verifier repeats.
LEMMA DepartStep ==
  ASSUME IInv, NEW s \in Sessions, Depart(s)
  PROVE  IInv'
<1> DEFINE c == Departed(session[s], now, Met(s, now))
<1>0. /\ session[s] \in SessionType /\ now \in Nat
      /\ Set(s, c) /\ UNCHANGED <<now, docked, store, restarts>>
  BY DEF IInv, Typed, Depart, Departed
<1>a. session[s].phase = "open" /\ Obliged(s)
  BY DEF Depart, MayDepart
<1>2. /\ Consistent(session[s]) /\ OfLife(session[s], restarts)
      /\ Docks(session[s], restarts, docked) /\ Timed(session[s], now) /\ Reissued(session[s])
  BY DEF IInv, SessionInv
<1>b. session[s].manifest \in Manifests
  BY <1>a, <1>2 DEF Consistent
<1>c. Met(s, now) \in SUBSET Conditions
  BY <1>b, BillType DEF Met, Bill
<1>1. /\ c \in SessionType /\ c.phase = "departed" /\ c.manifest = session[s].manifest
      /\ c.life = session[s].life /\ c.docked_at = session[s].docked_at
      /\ c.load = session[s].load /\ c.operations = session[s].operations
      /\ c.reissues = session[s].reissues /\ c.departed_at = now /\ c.met = Met(s, now)
  BY <1>0, <1>c, DepartedRecord
<1>3. ObligedBy(session[s].operations, Signed[session[s].manifest])
  BY <1>a DEF Obliged, ObligedBy, Bill, Count, CountOf, LoadCounts, LoadCountsOf
<1>4. Met(s, now) = {d \in Signed[session[s].manifest].conditions :
                      /\ d = "ttl_expired" /\ Signed[session[s].manifest].expires # Never
                      /\ now >= Signed[session[s].manifest].expires}
  BY DEF Met, Expired, Bill
<1> HIDE DEF c
<1>5. Ordered(c, now)
  BY <1>1, <1>2, <1>a DEF Timed, Ordered, OpenPhases
<1>6. Accepted(c)
  <2>1. c.reissues <= Signed[c.manifest].max_reissues
    BY <1>1, <1>2, <1>a DEF Reissued
  <2>2. ObligedBy(c.operations, Signed[c.manifest])
    BY <1>1, <1>3
  <2>3. c.met = {d \in Signed[c.manifest].conditions :
                   /\ d = "ttl_expired" /\ Signed[c.manifest].expires # Never
                   /\ c.departed_at >= Signed[c.manifest].expires}
    BY <1>1, <1>4
  <2>4. Ordered(c, c.departed_at)
    BY <1>1, <1>5
  <2> QED BY <2>1, <2>2, <2>3, <2>4 DEF Accepted
<1>7. Consistent(c)
  BY <1>1, <1>2, <1>a DEF Consistent
<1>8. OfLife(c, restarts) /\ Docks(c, restarts, docked') /\ Reissued(c) /\ Receipted(c)
  BY <1>0, <1>1, <1>2, <1>6, <1>a DEF OfLife, Docks, Reissued, Receipted, Live, OpenPhases
<1>9. Timed(c, now)
  BY <1>1, <1>5 DEF Timed
<1>10. session' \in [Sessions -> SessionType] /\ SessionInv'
  BY <1>0, <1>1, <1>7, <1>8, <1>9, OneMoves DEF IInv
<1>11. DockedOnce'
  BY <1>0, <1>1, <1>a, DockedOnceKept DEF IInv, Opened
<1>12. Others'
  BY <1>0, StoreKept DEF IInv, Typed
<1> QED BY <1>10, <1>11, <1>12 DEF IInv, Typed, Others

\* A restart ends the life: nothing is open in the next one yet.
LEMMA RestartStep ==
  ASSUME IInv, Restart
  PROVE  IInv'
<1>1. /\ restarts \in Nat /\ restarts' = restarts + 1 /\ docked' = {} /\ now' = now
      /\ session \in [Sessions -> SessionType]
  BY DEF IInv, Typed, Restart
<1>2. ASSUME NEW s \in Sessions
      PROVE  /\ session'[s] \in SessionType
             /\ Consistent(session'[s]) /\ OfLife(session'[s], restarts')
             /\ Docks(session'[s], restarts', docked') /\ Timed(session'[s], now')
             /\ Reissued(session'[s]) /\ Receipted(session'[s])
             /\ session'[s] = session[s] \/ session'[s].phase = "lost"
  <2>0. /\ session[s] \in SessionType
        /\ Consistent(session[s]) /\ OfLife(session[s], restarts) /\ Timed(session[s], now)
        /\ Reissued(session[s]) /\ Receipted(session[s])
    BY DEF IInv, Typed, SessionInv
  <2>1. session[s].life \in Nat /\ session[s].life <= restarts
    BY <2>0, SessionFields DEF OfLife
  <2>2. CASE session[s].phase \in {"new", "departed"}
    <3>1. session'[s] = session[s]
      BY <2>2 DEF Restart
    <3>2. OfLife(session[s], restarts') /\ Docks(session[s], restarts', docked')
      BY <1>1, <2>1, <2>2 DEF OfLife, Docks, Live
    <3> QED BY <1>1, <2>0, <3>1, <3>2
  <2>3. CASE session[s].phase \notin {"new", "departed"}
    <3> DEFINE c == WithPhase(session[s], "lost")
    <3>1. session'[s] = c
      BY <2>3 DEF Restart, WithPhase
    <3>2. /\ c \in SessionType /\ c.phase = "lost" /\ c.manifest = session[s].manifest
          /\ c.life = session[s].life /\ c.load = session[s].load
          /\ c.operations = session[s].operations /\ c.reissues = session[s].reissues
      BY <2>0, PhaseRecord DEF Phases
    <3> HIDE DEF c
    <3>3. Consistent(c) /\ Reissued(c)
      BY <2>0, <2>3, <3>2 DEF Consistent, Reissued
    <3>4. OfLife(c, restarts') /\ Docks(c, restarts', docked')
      BY <1>1, <2>1, <3>2 DEF OfLife, Docks, Live, OpenPhases
    <3>5. Timed(c, now') /\ Receipted(c)
      BY <3>2 DEF Timed, Receipted, OpenPhases
    <3> QED BY <3>1, <3>2, <3>3, <3>4, <3>5
  <2> QED BY <2>2, <2>3
<1>3. SessionInv'
  BY <1>2 DEF SessionInv
<1>4. session' \in [Sessions -> SessionType]
  BY <1>2 DEF Restart
<1>5. DockedOnce'
  BY <1>2 DEF IInv, DockedOnce, Opened
<1>6. Typed'
  BY <1>1, <1>4 DEF IInv, Typed, Restart, Empty
<1> QED BY <1>3, <1>5, <1>6 DEF IInv

LEMMA OtherStep ==
  ASSUME IInv, Tick \/ (\E p \in Partitions : Destroy(p)) \/ UNCHANGED vars
  PROVE  IInv'
<1>1. UNCHANGED <<docked, session, restarts>> /\ now' \in Nat /\ now <= now'
  BY DEF IInv, Typed, Tick, Destroy, vars, store
<1>2. Typed'
  BY <1>1 DEF IInv, Typed, Tick, Destroy, vars, store
<1>3. SessionInv'
  <2>1. ASSUME NEW s \in Sessions, Timed(session[s], now) PROVE Timed(session[s], now')
    <3>1. session[s] \in SessionType /\ now \in Nat
      BY DEF IInv, Typed
    <3>a. session[s].docked_at \in Nat /\ session[s].operations \in Seq(Operations)
      BY <3>1, SessionFields
    <3>b. \A i \in DOMAIN session[s].operations : session[s].operations[i] \in Operations
      BY <3>a
    <3>2. session[s].docked_at \in Nat /\ \A i \in DOMAIN session[s].operations : session[s].operations[i].at \in Nat
      BY <3>a, <3>b DEF Operations
    <3> QED BY <1>1, <2>1, <3>1, <3>2 DEF Timed, Ordered
  <2> QED BY <1>1, <2>1 DEF IInv, SessionInv
<1>4. DockedOnce'
  BY <1>1 DEF IInv, DockedOnce, Opened
<1> QED BY <1>2, <1>3, <1>4 DEF IInv

LEMMA WorkStep ==
  ASSUME IInv, NEW s \in Sessions, Working(s)
  PROVE  IInv'
<1>a. IInv => Typed /\ SessionInv
  BY DEF IInv
<1>1. ASSUME NEW m \in Manifests, Dock(s, m) PROVE IInv'
  BY <1>1, DockStep
<1>2. CASE DockAdmits(s)
  BY <1>2, AdmitStep
<1>3. CASE DockRefuses(s)
  <2>1. Others'
    BY <1>3, StoreKept DEF IInv, Typed, DockRefuses
  <2> QED BY <1>3, <2>1, PhaseStep DEF DockRefuses, Phases, OpenPhases, Live, store
<1>4. CASE Load(s)
  <2>1. Others'
    BY <1>4, StoreKept DEF IInv, Typed, Load
  <2> QED BY <1>4, <2>1, PhaseStep DEF Load, Phases, OpenPhases, Live, store
<1>5. CASE Loaded(s)
  <2>1. session[s].phase = "loading" /\ Insert(s) /\ UNCHANGED <<now, docked, restarts>>
        /\ Set(s, Recorded(s, "load", Bill(s).item_count))
    BY <1>5 DEF Loaded
  <2>2. Others'
    BY <1>a, <2>1, InsertType
  <2>3. Bill(s).item_count \in Nat
    BY <2>1, BillType DEF IInv, SessionInv, Consistent, Bill
  <2> QED BY <2>1, <2>2, <2>3, RecordStep
<1>6. CASE LoadFails(s)
  <2>1. Others'
    BY <1>6, StoreKept DEF IInv, Typed, LoadFails
  <2> QED BY <1>6, <2>1, PhaseStep DEF LoadFails, Phases, OpenPhases, Live, store
<1>7. CASE LoadUnacknowledged(s)
  <2>1. session[s].phase = "loading" /\ Insert(s) /\ UNCHANGED <<now, docked, restarts>>
        /\ ToPhase(s, "open")
    BY <1>7 DEF LoadUnacknowledged
  <2>2. Others'
    BY <1>a, <2>1, InsertType
  <2> QED BY <2>1, <2>2, PhaseStep DEF Phases, OpenPhases, Live
<1>8. CASE Unload(s)
  <2>1. Others'
    BY <1>8, StoreKept DEF IInv, Typed, Unload
  <2> QED BY <1>8, <2>1, PhaseStep DEF Unload, Phases, OpenPhases, Live, store
<1>9. ASSUME NEW count \in 0..1, Unloaded(s, count) PROVE IInv'
  <2>1. Others'
    BY <1>9, StoreKept DEF IInv, Typed, Unloaded
  <2>2. /\ session[s].phase = "retrieving" /\ Set(s, Recorded(s, "unload", count))
        /\ UNCHANGED <<now, docked, restarts>> /\ count \in Nat
    BY <1>9 DEF Unloaded
  <2> QED BY <2>1, <2>2, RecordStep
<1>10. CASE UnloadFails(s)
  <2>1. Others'
    BY <1>10, StoreKept DEF IInv, Typed, UnloadFails
  <2> QED BY <1>10, <2>1, PhaseStep DEF UnloadFails, Phases, OpenPhases, Live, store
<1>11. CASE RecordReissue(s)
  BY <1>11, ReissueStep
<1>12. CASE Depart(s)
  BY <1>12, DepartStep
<1> QED BY <1>1, <1>2, <1>3, <1>4, <1>5, <1>6, <1>7, <1>8, <1>9, <1>10, <1>11, <1>12 DEF Working

--------------------------------------------------------------------------------
(* The theorems.                                                               *)

LEMMA Inductive == Spec => []IInv
<1>1. Init => IInv
  BY InitHolds
<1>2. IInv /\ [Next]_vars => IInv'
  BY WorkStep, RestartStep, OtherStep DEF Next
<1> QED BY <1>1, <1>2, PTL DEF Spec

\* Every variable of the bus keeps its type, a session past its checks names a
\* manifest, and the flag that stops a second load agrees with what was recorded.
THEOREM TypeCorrect == Spec => []TypeOK
<1>1. IInv => TypeOK
  BY DEF IInv, Typed, SessionInv, Consistent, TypeOK
<1> QED BY <1>1, Inductive, PTL

\* A manifest opens one session in a process life, however many dock() calls have
\* passed the checks together.
THEOREM ManifestDockedOnce == Spec => []DockedOnce
<1>1. IInv => DockedOnce
  BY DEF IInv
<1> QED BY <1>1, Inductive, PTL

\* The verifier accepts every receipt that a session departs with.
THEOREM ReceiptsAccepted == Spec => []ReceiptsVerify
<1>1. IInv => ReceiptsVerify
  <2> SUFFICES ASSUME IInv, NEW s \in Sessions, session[s].phase = "departed"
               PROVE  Verifies(s)
    BY DEF ReceiptsVerify
  <2>1. Accepted(session[s])
    BY DEF IInv, SessionInv, Receipted
  <2>2. Obliged(s)
    BY <2>1 DEF Accepted, Obliged, ObligedBy, Bill, Count, CountOf, LoadCounts, LoadCountsOf
  <2>3. session[s].met = {c \in Bill(s).conditions :
                            /\ c = "ttl_expired" /\ Bill(s).expires # Never
                            /\ session[s].departed_at >= Bill(s).expires}
    BY <2>1 DEF Accepted, Bill
  <2> QED BY <2>1, <2>2, <2>3 DEF Verifies, Accepted, Ordered, Bill
<1> QED BY <1>1, Inductive, PTL
--------------------------------------------------------------------------------
(* What the store holds and what the sessions have recorded.                   *)

\* The documents of a signed batch are the session's own, or were destroyed.
Kept(s, bill) ==
  bill.partition \in wiped \/ \A i \in bill.ids : holder[bill.partition][i] = s

\* In memory, a session of this life has committed its payload exactly when its
\* flag says so, and what it committed is still there.
Accounts(s, c) ==
  /\ c.phase \in {"new", "docking", "loading"} => c.load = "pending"
  /\ (~durable /\ c.life = restarts) =>
       /\ c.phase \in OpenPhases =>
            ingested[c.manifest] = IF c.load = "completed" THEN 1 ELSE 0
       /\ c.load = "completed" => Kept(s, Signed[c.manifest])

LedgerInv ==
  /\ \A m \in Manifests \ docked : ingested[m] = 0
  /\ \A s \in Sessions : Accounts(s, session[s])

\* One session moves, and the store does not.
LEMMA LedgerStep ==
  ASSUME IInv, LedgerInv, NEW s \in Sessions, NEW c, Set(s, c),
         UNCHANGED <<store, restarts>>, docked \subseteq docked', Accounts(s, c)
  PROVE  LedgerInv'
<1>1. session'[s] = c /\ \A u \in Sessions \ {s} : session'[u] = session[u]
  BY DEF IInv, Typed, Set
<1>2. ASSUME NEW u \in Sessions PROVE Accounts(u, session'[u])
  BY <1>1 DEF LedgerInv
<1> QED BY <1>2 DEF LedgerInv, Accounts, Kept, store

\* Most operations change neither the flag nor the manifest.
LEMMA QuietStep ==
  ASSUME IInv, LedgerInv, NEW s \in Sessions, NEW c, Set(s, c), UNCHANGED <<docked, store, restarts>>,
         c.manifest = session[s].manifest, c.life = session[s].life, c.load = session[s].load,
         c.phase = "loading" => c.load = "pending", c.phase \notin {"new", "docking"},
         c.phase \in OpenPhases => session[s].phase \in OpenPhases
  PROVE  LedgerInv'
<1>1. Accounts(s, session[s])
  BY DEF LedgerInv
<1>2. Accounts(s, c)
  BY <1>1 DEF Accounts
<1> QED BY <1>2, LedgerStep

LEMMA QuietPhase ==
  ASSUME IInv, LedgerInv, NEW s \in Sessions, NEW phase \in Phases \ {"new", "docking"},
         ToPhase(s, phase), UNCHANGED <<docked, store, restarts>>,
         phase = "loading" => session[s].load = "pending",
         phase \in OpenPhases => session[s].phase \in OpenPhases
  PROVE  LedgerInv'
<1> DEFINE c == WithPhase(session[s], phase)
<1>0. session[s] \in SessionType /\ Set(s, c)
  BY DEF IInv, Typed, ToPhase, WithPhase
<1>1. /\ c.phase = phase /\ c.manifest = session[s].manifest
      /\ c.life = session[s].life /\ c.load = session[s].load
  BY <1>0, PhaseRecord
<1> HIDE DEF c
<1> QED BY <1>0, <1>1, QuietStep

LEMMA DockLedger ==
  ASSUME IInv, LedgerInv, NEW s \in Sessions, NEW m \in Manifests, Dock(s, m)
  PROVE  LedgerInv'
<1> DEFINE c == Opening(m, restarts)
<1>1. c.phase = "docking" /\ c.load = "pending"
  BY OpeningRecord DEF IInv, Typed
<1>2. Set(s, c) /\ UNCHANGED <<docked, store, restarts>>
  BY DEF Dock, Opening
<1> HIDE DEF c
<1>3. Accounts(s, c)
  BY <1>1 DEF Accounts, OpenPhases
<1> QED BY <1>2, <1>3, LedgerStep

\* A manifest that was not docked in this life has nothing in the store.
LEMMA AdmitLedger ==
  ASSUME IInv, LedgerInv, NEW s \in Sessions, DockAdmits(s)
  PROVE  LedgerInv'
<1> DEFINE c == DockedAt(session[s], now)
<1>0. session[s] \in SessionType /\ now \in Nat
  BY DEF IInv, Typed
<1>1. /\ c.phase = "open" /\ c.manifest = session[s].manifest
      /\ c.life = session[s].life /\ c.load = session[s].load
  BY <1>0, DockedRecord
<1>2. /\ Set(s, c) /\ UNCHANGED <<store, restarts>> /\ docked \subseteq docked'
      /\ session[s].phase = "docking" /\ session[s].manifest \notin docked
  BY DEF DockAdmits, DockedAt, Undocked
<1>3. session[s].manifest \in Manifests
  BY <1>2 DEF IInv, SessionInv, Consistent
<1>4. session[s].load = "pending" /\ ingested[session[s].manifest] = 0
  BY <1>2, <1>3 DEF LedgerInv, Accounts
<1> HIDE DEF c
<1>5. Accounts(s, c)
  BY <1>1, <1>4 DEF Accounts
<1> QED BY <1>2, <1>5, LedgerStep

\* A commit to the store in memory takes no document from another session.
LEMMA InsertLedger ==
  ASSUME IInv, LedgerInv, NEW s \in Sessions, Loaded(s), ~durable
  PROVE  LedgerInv'
<1>m. PICK m, p : m = session[s].manifest /\ p = Signed[m].partition
  OBVIOUS
<1>b. Bill(s) = Signed[m] /\ Bill(s).partition = p
  BY <1>m DEF Bill
<1> DEFINE c == Recorded(s, "load", Bill(s).item_count)
<1>1. /\ session[s].phase = "loading" /\ Set(s, c) /\ ~Held(s, p)
      /\ holder' = [holder EXCEPT ![p] = [i \in Ids |-> IF i \in Bill(s).ids THEN s ELSE @[i]]]
      /\ ingested' = [ingested EXCEPT ![m] = @ + 1]
      /\ UNCHANGED <<docked, durable, wiped, restarts>>
  BY <1>m, <1>b DEF Loaded, Insert, Storable
<1>2. /\ session[s] \in SessionType /\ now \in Nat /\ m \in Manifests
      /\ holder \in [Partitions -> [Ids -> Sessions \cup {None}]]
      /\ ingested \in [Manifests -> Nat]
  BY <1>1, <1>m DEF IInv, Typed, SessionInv, Consistent
<1>3. p \in Partitions /\ Bill(s).ids \subseteq Ids /\ Bill(s).item_count \in Nat
  BY <1>2, <1>b, ConstantsAssumption DEF ManifestType
<1>4. c.phase = "open" /\ c.manifest = m /\ c.life = session[s].life /\ c.load = "completed"
  <2> DEFINE o == Entry("load", now, Bill(s).item_count)
  <2>1. o \in Operations
    BY <1>2, <1>3 DEF Operations, Entry
  <2>2. c = Logged(session[s], "completed", o)
    BY DEF Recorded, Logged, Entry
  <2> QED BY <1>2, <1>m, <2>1, <2>2, LoggedRecord
<1> HIDE DEF c
<1>5. session[s].life = restarts /\ m \in docked /\ session[s].load = "pending"
  BY <1>1, <1>m DEF IInv, SessionInv, OfLife, Docks, Live, OpenPhases, LedgerInv, Accounts
<1>6. ingested[m] = 0
  BY <1>1, <1>5, <1>m DEF LedgerInv, Accounts, OpenPhases
<1>7. session'[s] = c /\ \A u \in Sessions \ {s} : session'[u] = session[u]
  BY <1>1 DEF IInv, Typed, Set
<1>8. ingested'[m] = 1 /\ \A n \in Manifests \ {m} : ingested'[n] = ingested[n]
  BY <1>1, <1>2, <1>6
<1>9. /\ \A i \in Signed[m].ids : holder[p][i] = None /\ holder'[p][i] = s
      /\ \A i \in Ids \ Signed[m].ids : holder'[p][i] = holder[p][i]
      /\ \A q \in Partitions \ {p} : holder'[q] = holder[q]
  BY <1>1, <1>2, <1>3, <1>b DEF Held
<1>10. Accounts(s, session[s])'
  <2>1. session'[s].manifest = m /\ session'[s].phase = "open" /\ session'[s].load = "completed"
    BY <1>4, <1>7
  <2>2. \A i \in Signed[m].ids : holder'[Signed[m].partition][i] = s
    BY <1>9, <1>m
  <2> QED BY <1>8, <2>1, <2>2 DEF Accounts, Kept
<1>11. ASSUME NEW u \in Sessions \ {s} PROVE Accounts(u, session[u])'
  <2>1. Accounts(u, session[u])
    BY DEF LedgerInv
  <2>0. session'[u] = session[u]
    BY <1>7
  <2>2. ASSUME session[u].life = restarts, session[u].phase \in OpenPhases
        PROVE  ingested'[session[u].manifest] = ingested[session[u].manifest]
    <3>1. session[u].manifest \in Manifests
      BY <2>2 DEF IInv, SessionInv, Consistent, OpenPhases
    <3>2. session[u].manifest # m
      BY <1>1, <1>5, <1>m, <2>2 DEF IInv, DockedOnce, Opened, OpenPhases
    <3> QED BY <1>8, <3>1, <3>2
  <2>3. PICK bill : bill = Signed[session[u].manifest]
    OBVIOUS
  <2>4. ASSUME session[u].load = "completed", Kept(u, bill) PROVE Kept(u, bill)'
    <3>1. session[u].manifest \in Manifests
      BY <2>1, <2>4 DEF IInv, SessionInv, Consistent, Accounts
    <3>2. bill.partition \in Partitions /\ bill.ids \subseteq Ids
      BY <2>3, <3>1, ConstantsAssumption DEF ManifestType
    <3>3. CASE bill.partition \in wiped
      BY <1>1, <3>3 DEF Kept
    <3>4. CASE bill.partition \notin wiped
      <4>1. \A i \in bill.ids : holder[bill.partition][i] = u
        BY <2>4, <3>4 DEF Kept
      <4>2. u # None
        BY ConstantsAssumption
      <4>3. \A i \in bill.ids : holder'[bill.partition][i] = u
        BY <1>9, <3>2, <4>1, <4>2
      <4> QED BY <4>3 DEF Kept
    <3> QED BY <3>3, <3>4
  <2>5. session[u].load = "completed" /\ Kept(u, Signed[session[u].manifest])
          => Kept(u, Signed[session[u].manifest])'
    BY <2>0, <2>3, <2>4 DEF Kept
  <2> QED BY <1>1, <2>0, <2>1, <2>2, <2>5 DEF Accounts
<1>12. \A n \in Manifests \ docked' : ingested'[n] = 0
  BY <1>1, <1>5, <1>8 DEF LedgerInv
<1>13. \A u \in Sessions : Accounts(u, session[u])'
  BY <1>10, <1>11
<1> QED BY <1>12, <1>13 DEF LedgerInv

\* A durable store makes no promise, but commits only what was docked.
LEMMA DurableLedger ==
  ASSUME IInv, LedgerInv, NEW s \in Sessions, session[s].phase = "loading", Insert(s), durable,
         NEW c, Set(s, c), c.phase = "open", UNCHANGED <<docked, restarts>>
  PROVE  LedgerInv'
<1>1. session[s].manifest \in docked
  BY DEF IInv, SessionInv, OfLife, Docks, Live, OpenPhases
<1>2. \A n \in Manifests \ docked' : ingested'[n] = 0
  BY <1>1 DEF Insert, LedgerInv, IInv, Typed
<1>3. session'[s] = c /\ \A u \in Sessions \ {s} : session'[u] = session[u]
  BY DEF IInv, Typed, Set
<1>4. durable'
  BY DEF Insert
<1>5. ASSUME NEW u \in Sessions PROVE Accounts(u, session[u])'
  BY <1>3, <1>4 DEF LedgerInv, Accounts
<1> QED BY <1>2, <1>5 DEF LedgerInv

LEMMA DestroyLedger ==
  ASSUME IInv, LedgerInv, NEW p \in Partitions, Destroy(p)
  PROVE  LedgerInv'
<1>1. /\ UNCHANGED <<durable, docked, session, ingested, restarts>> /\ wiped' = wiped \cup {p}
      /\ \A q \in Partitions \ {p} : holder'[q] = holder[q]
  BY DEF Destroy, IInv, Typed
<1>2. ASSUME NEW u \in Sessions PROVE Accounts(u, session[u])'
  <2>1. Accounts(u, session[u])
    BY DEF LedgerInv
  <2>2. ASSUME session[u].load = "completed", Kept(u, Signed[session[u].manifest])
        PROVE  Kept(u, Signed[session[u].manifest])'
    <3>1. session[u].manifest \in Manifests
      BY <2>1, <2>2 DEF IInv, SessionInv, Consistent, Accounts
    <3>2. Signed[session[u].manifest].partition \in Partitions
      BY <3>1, ConstantsAssumption DEF ManifestType
    <3> QED BY <1>1, <2>2, <3>2 DEF Kept
  <2> QED BY <1>1, <2>1, <2>2 DEF Accounts
<1> QED BY <1>1, <1>2 DEF LedgerInv

\* Nothing of an earlier life is claimed in the next one.
LEMMA RestartLedger ==
  ASSUME IInv, LedgerInv, Restart
  PROVE  LedgerInv'
<1>1. /\ restarts' = restarts + 1 /\ restarts \in Nat
      /\ \A m \in Manifests : ingested'[m] = 0
  BY DEF Restart, IInv, Typed
<1>2. ASSUME NEW u \in Sessions PROVE Accounts(u, session[u])'
  <2>1. session[u] \in SessionType /\ OfLife(session[u], restarts) /\ Accounts(u, session[u])
    BY DEF IInv, Typed, SessionInv, LedgerInv
  <2>2. session[u].life \in Nat /\ session[u].life # restarts'
    BY <1>1, <2>1, SessionFields DEF OfLife
  <2>3. CASE session[u].phase \in {"new", "departed"}
    <3>1. session'[u] = session[u]
      BY <2>3 DEF Restart
    <3> QED BY <2>1, <2>2, <3>1 DEF Accounts
  <2>4. CASE session[u].phase \notin {"new", "departed"}
    <3> DEFINE c == WithPhase(session[u], "lost")
    <3>1. session'[u] = c
      BY <2>4 DEF Restart, WithPhase
    <3>2. c.phase = "lost" /\ c.life = session[u].life
      BY <2>1, PhaseRecord DEF Phases
    <3> HIDE DEF c
    <3> QED BY <2>2, <3>1, <3>2 DEF Accounts
  <2> QED BY <2>3, <2>4
<1> QED BY <1>1, <1>2 DEF LedgerInv

LEMMA WorkLedger ==
  ASSUME IInv, LedgerInv, NEW s \in Sessions, Working(s)
  PROVE  LedgerInv'
<1>0. session[s] \in SessionType /\ now \in Nat
  BY DEF IInv, Typed
<1>1. ASSUME NEW m \in Manifests, Dock(s, m) PROVE LedgerInv'
  BY <1>1, DockLedger
<1>2. CASE DockAdmits(s)
  BY <1>2, AdmitLedger
<1>3. CASE DockRefuses(s) \/ Load(s) \/ LoadFails(s) \/ Unload(s) \/ UnloadFails(s)
  BY <1>3, QuietPhase
     DEF DockRefuses, Load, MayLoad, LoadFails, Unload, UnloadFails, Phases, OpenPhases
<1>4. CASE Loaded(s)
  <2>1. CASE ~durable
    BY <1>4, <2>1, InsertLedger
  <2>2. CASE durable
    <3> DEFINE c == Recorded(s, "load", Bill(s).item_count)
    <3>1. c.phase = "open"
      BY <1>0 DEF Recorded, SessionType
    <3> HIDE DEF c
    <3>2. session[s].phase = "loading" /\ Insert(s) /\ Set(s, c) /\ UNCHANGED <<docked, restarts>>
      BY <1>4 DEF Loaded, c
    <3> QED BY <2>2, <3>1, <3>2, DurableLedger
  <2> QED BY <2>1, <2>2 DEF IInv, Typed
<1>5. CASE LoadUnacknowledged(s)
  <2>1. [session[s] EXCEPT !.phase = "open"].phase = "open"
    BY <1>0 DEF SessionType
  <2> QED BY <1>5, <2>1, DurableLedger DEF LoadUnacknowledged, ToPhase
<1>6. ASSUME NEW count \in 0..1, Unloaded(s, count) PROVE LedgerInv'
  <2> DEFINE o == Entry("unload", now, count)
             c == Logged(session[s], session[s].load, o)
  <2>1. o \in Operations /\ session[s].load \in {"pending", "completed"}
    BY <1>0, SessionFields DEF Operations, Entry
  <2>2. /\ c.phase = "open" /\ c.manifest = session[s].manifest
        /\ c.life = session[s].life /\ c.load = session[s].load
    BY <1>0, <2>1, LoggedRecord
  <2>3. Set(s, c) /\ session[s].phase = "retrieving" /\ UNCHANGED <<docked, store, restarts>>
    BY <1>6 DEF Unloaded, Recorded, Logged, Entry
  <2> HIDE DEF c
  <2> QED BY <2>2, <2>3, QuietStep DEF OpenPhases
<1>7. CASE RecordReissue(s)
  <2> DEFINE c == Reissue(session[s])
  <2>1. /\ c.phase = session[s].phase /\ c.manifest = session[s].manifest
        /\ c.life = session[s].life /\ c.load = session[s].load
    BY <1>0, ReissueRecord
  <2>2. Set(s, c) /\ session[s].phase = "open" /\ UNCHANGED <<docked, store, restarts>>
    BY <1>7 DEF RecordReissue, Reissue
  <2> HIDE DEF c
  <2> QED BY <2>1, <2>2, QuietStep DEF OpenPhases
<1>8. CASE Depart(s)
  <2> DEFINE c == Departed(session[s], now, Met(s, now))
  <2>1. Set(s, c) /\ session[s].phase = "open" /\ UNCHANGED <<docked, store, restarts>>
    BY <1>8 DEF Depart, MayDepart, Departed
  <2>2. session[s].manifest \in Manifests
    BY <2>1 DEF IInv, SessionInv, Consistent
  <2>3. Met(s, now) \in SUBSET Conditions
    BY <2>2, BillType DEF Met, Bill
  <2>4. /\ c.phase = "departed" /\ c.manifest = session[s].manifest
        /\ c.life = session[s].life /\ c.load = session[s].load
    BY <1>0, <2>3, DepartedRecord
  <2> HIDE DEF c
  <2> QED BY <2>1, <2>4, QuietStep DEF OpenPhases
<1> QED BY <1>1, <1>2, <1>3, <1>4, <1>5, <1>6, <1>7, <1>8 DEF Working

LEMMA LedgerInvariant == Spec => []LedgerInv
<1>1. Init => LedgerInv
  <2>1. Unused.phase = "new" /\ Unused.load = "pending"
    BY DEF Unused
  <2> QED BY <2>1 DEF Init, LedgerInv, Accounts, OpenPhases
<1>2. IInv /\ LedgerInv /\ [Next]_vars => LedgerInv'
  <2>1. ASSUME LedgerInv, Tick \/ UNCHANGED vars PROVE LedgerInv'
    BY <2>1 DEF Tick, vars, store, LedgerInv, Accounts, Kept
  <2> QED BY <2>1, WorkLedger, RestartLedger, DestroyLedger DEF Next
<1> QED BY <1>1, <1>2, Inductive, PTL DEF Spec

\* What the flag says of the operations that are counted.
LEMMA LoadsCounted ==
  ASSUME NEW c \in SessionType, Consistent(c)
  PROVE  CountOf(c.operations, "load") = 0 <=> c.load = "pending"
<1> DEFINE S == {i \in DOMAIN c.operations : c.operations[i].kind = "load"}
<1>1. c.operations \in Seq(Operations) /\ c.load \in {"pending", "completed"}
  BY SessionFields
<1>2. Len(c.operations) \in Nat /\ DOMAIN c.operations = 1..Len(c.operations)
  BY <1>1
<1>3. IsFiniteSet(S)
  <2>0. ASSUME NEW n \in Nat PROVE IsFiniteSet(1..n)
    <3>1. 1 \in Int /\ n \in Int
      OBVIOUS
    <3> QED BY <3>1, FS_Interval
  <2>1. IsFiniteSet(1..Len(c.operations))
    BY <1>2, <2>0
  <2>2. S \subseteq 1..Len(c.operations)
    BY <1>2
  <2> QED BY <2>1, <2>2, FS_Subset
<1>4. Cardinality(S) = 0 <=> S = {}
  BY <1>3, FS_EmptySet
<1>5. S = {} <=> c.load = "pending"
  BY <1>1 DEF Consistent
<1> QED BY <1>4, <1>5 DEF CountOf

\* The documents a receipt accounts for are the session's own, or were destroyed.
THEOREM ReceiptsAccountForDocuments == Spec => []ReceiptedDocumentsKept
<1>1. IInv /\ LedgerInv => ReceiptedDocumentsKept
  <2> SUFFICES ASSUME IInv, LedgerInv, NEW s \in Sessions, ~durable,
                      session[s].phase = "departed", Current(s), Loads(Bill(s))
               PROVE  \/ Bill(s).partition \in wiped
                      \/ \A i \in Bill(s).ids : holder[Bill(s).partition][i] = s
    BY DEF ReceiptedDocumentsKept
  <2>1. session[s] \in SessionType /\ Consistent(session[s]) /\ Accepted(session[s])
    BY DEF IInv, Typed, SessionInv, Receipted
  <2>2. CountOf(session[s].operations, "load") = 1
    BY <2>1 DEF Accepted, ObligedBy, Bill
  <2>3. session[s].load = "completed"
    BY <2>1, <2>2, LoadsCounted, SessionFields
  <2> QED BY <2>3 DEF LedgerInv, Accounts, Current, Kept, Bill
<1> QED BY <1>1, Inductive, LedgerInvariant, PTL

\* A receipt records every payload commit made under its manifest in this life.
THEOREM ReceiptsAccountForCommits == Spec => []CommitsAreReceipted
<1>1. IInv /\ LedgerInv => CommitsAreReceipted
  <2> SUFFICES ASSUME IInv, LedgerInv, NEW s \in Sessions, ~durable,
                      session[s].phase = "departed", Current(s)
               PROVE  ingested[session[s].manifest] = Count(s, "load")
    BY DEF CommitsAreReceipted
  <2>1. /\ session[s] \in SessionType /\ Consistent(session[s]) /\ Accepted(session[s])
        /\ session[s].manifest \in Manifests
    BY DEF IInv, Typed, SessionInv, Receipted, Consistent
  <2>2. Count(s, "load") = CountOf(session[s].operations, "load")
    BY DEF Count, CountOf
  <2>3. ingested[session[s].manifest] = IF session[s].load = "completed" THEN 1 ELSE 0
    BY DEF LedgerInv, Accounts, Current, OpenPhases
  <2>4. Signed[session[s].manifest].operation \in Kinds
    BY <2>1, BillType DEF ManifestType
  <2>5. CASE Loads(Bill(s))
    <3>1. CountOf(session[s].operations, "load") = 1
      BY <2>1, <2>5 DEF Accepted, ObligedBy, Bill
    <3>2. session[s].load = "completed"
      BY <2>1, <3>1, LoadsCounted, SessionFields
    <3> QED BY <2>2, <2>3, <3>1, <3>2
  <2>6. CASE ~Loads(Bill(s))
    <3>1. Signed[session[s].manifest].operation = "retrieve"
      BY <2>4, <2>6 DEF Loads, Kinds, Bill
    <3>2. CountOf(session[s].operations, "load") = 0
      BY <2>1, <3>1 DEF Accepted, ObligedBy
    <3>3. session[s].load = "pending"
      BY <2>1, <3>2, LoadsCounted
    <3> QED BY <2>2, <2>3, <3>2, <3>3
  <2> QED BY <2>5, <2>6
<1> QED BY <1>1, Inductive, LedgerInvariant, PTL
================================================================================
