------------------------- MODULE ConnectionBrokerProofs ------------------------
(* Theorems about ConnectionBroker. *)
EXTENDS ConnectionBroker, TLAPS, FiniteSetTheorems

--------------------------------------------------------------------------------
(* Types. *)

LEMMA CallAt == ASSUME TypeOK, NEW c \in Calls PROVE call[c] \in CallType
  BY DEF TypeOK

\* The records that the actions write into a call.
LEMMA CallUpdates ==
  ASSUME NEW C \in CallType
  PROVE  /\ \A pc \in Phases : [C EXCEPT !.pc = pc] \in CallType
         /\ \A pc \in Phases, k \in Keys, cr \in Credentials :
              [C EXCEPT !.pc = pc, !.key = k, !.credential = cr] \in CallType
         /\ \A pc \in Phases, cr \in Credentials :
              [C EXCEPT !.pc = pc, !.credential = cr] \in CallType
         /\ \A pc \in Phases : [C EXCEPT !.pc = pc, !.event = "dispatch"] \in CallType
  BY DEF CallType

LEMMA IdleType == Idle \in CallType
  BY DEF Idle, CallType, Phases

LEMMA BegunType ==
  ASSUME NEW op \in Ops, NEW s \in Servers, NEW p \in Principals, NEW id \in Ids,
         NEW b \in SUBSET (Places \X Nat)
  PROVE  [Idle EXCEPT !.pc = "begun", !.op = op, !.server = s, !.principal = p,
                      !.id = id, !.before = b] \in CallType
  BY DEF Idle, CallType, Phases

LEMMA PlaceOfCall ==
  ASSUME TypeOK, NEW c \in Calls, call[c].pc # "idle"
  PROVE  At(c) \in Places
  BY ConstantsAssumption DEF TypeOK, Shaped, At, Places

LEMMA CurrentType == ASSUME TypeOK, NEW place \in Places
                     PROVE  Current(place) \subseteq Places \X Nat
  BY DEF TypeOK, Current, Rows, Credentials

LEMMA InitTypeOK == Init => TypeOK
<1> SUFFICES ASSUME Init PROVE TypeOK
  OBVIOUS
<1>1. PICK key \in Keys, policy \in Policies \cup {None} :
        /\ check \in {None, key}
        /\ rows \in [Places -> {None, [key |-> key,
                        credential |-> [serial |-> 0, subjects |-> Principals,
                                        policy |-> policy, expires |-> Never]]}]
  BY DEF Init
<1>2. [key |-> key, credential |-> [serial |-> 0, subjects |-> Principals,
                                    policy |-> policy, expires |-> Never]] \in Rows
  BY DEF Rows, Credentials
<1>3. rows \in [Places -> Rows \cup {None}]
  BY <1>1, <1>2
<1>4. server \in [Servers -> ServerType] /\ \A s \in Servers : ~Up(s)
  BY DEF Init, ServerType, Up
<1>5. call \in [Calls -> CallType] /\ \A c \in Calls : Shaped(c)
  BY IdleType DEF Init, Shaped, Idle, Holding, Writing
<1>6. now \in Nat /\ stores \in Nat /\ rekeys \in Nat /\ voided \subseteq Places \X Nat
  BY DEF Init
<1> QED
  BY <1>1, <1>3, <1>4, <1>5, <1>6 DEF TypeOK

\* A call is the only one its action writes, and the rest keeps its shape.
LEMMA OneCallWritten ==
  ASSUME TypeOK, NEW c \in Calls, NEW w \in CallType,
         call' = [call EXCEPT ![c] = w], UNCHANGED server,
         w.pc # "idle" => /\ w.server \in Servers /\ Up(w.server)
                          /\ w.principal \in Principals /\ w.id \in Ids,
         w.pc \in {"held", "approved", "cleared", "out"} => w.credential \in Credentials,
         w.pc \in {"storing", "orphan"} /\ w.op = "put" =>
            w.credential \in Credentials /\ w.key \in Keys,
         w.pc \in {"idle", "begun", "removing"} => w.credential = None,
         w.pc = "removing" => w.op = "delete"
  PROVE  /\ call' \in [Calls -> CallType]
         /\ \A d \in Calls : Shaped(d)'
         /\ \A s \in Servers : Up(s)' => server'[s].cipher \in Keys /\ server'[s].policy \in Policies
<1>1. call' \in [Calls -> CallType]
  BY DEF TypeOK
<1>2. ASSUME NEW d \in Calls PROVE Shaped(d)'
  <2>1. CASE d = c
    <3>1. call'[d] = w
      BY <2>1 DEF TypeOK
    <3> QED
      BY <3>1 DEF Shaped, Holding, Writing, Up
  <2>2. CASE d # c
    <3>1. call'[d] = call[d] /\ Shaped(d)
      BY <2>2 DEF TypeOK
    <3> QED
      BY <3>1 DEF Shaped, Holding, Writing, Up
  <2> QED
    BY <2>1, <2>2
<1> QED
  BY <1>1, <1>2 DEF TypeOK, Up

\* What a call is after the actions that write it field by field.
LEMMA CallWrites ==
  ASSUME TypeOK, NEW c \in Calls
  PROVE  /\ \A pc \in Phases :
              [call EXCEPT ![c].pc = pc] = [call EXCEPT ![c] = [call[c] EXCEPT !.pc = pc]]
         /\ \A pc \in Phases, k \in Keys, cr \in Credentials :
              [call EXCEPT ![c].pc = pc, ![c].key = k, ![c].credential = cr]
                = [call EXCEPT ![c] = [call[c] EXCEPT !.pc = pc, !.key = k, !.credential = cr]]
         /\ \A pc \in Phases, cr \in Credentials :
              [call EXCEPT ![c].pc = pc, ![c].credential = cr]
                = [call EXCEPT ![c] = [call[c] EXCEPT !.pc = pc, !.credential = cr]]
         /\ \A pc \in Phases :
              [call EXCEPT ![c].pc = pc, ![c].event = "dispatch"]
                = [call EXCEPT ![c] = [call[c] EXCEPT !.pc = pc, !.event = "dispatch"]]
  BY DEF TypeOK

\* The requests' own steps: what becomes of the call that moves.
Wrote(c, w) == w \in CallType /\ call' = [call EXCEPT ![c] = w] /\ UNCHANGED server

LEMMA MovesWrites ==
  ASSUME TypeOK, NEW c \in Calls, NEW pc \in Phases, Moves(c, pc), UNCHANGED server
  PROVE  Wrote(c, [call[c] EXCEPT !.pc = pc])
  BY CallAt, CallUpdates, CallWrites DEF Moves, Wrote

LEMMA EndsWrites ==
  ASSUME NEW c \in Calls, Ends(c), UNCHANGED server
  PROVE  Wrote(c, Idle)
  BY IdleType DEF Ends, Wrote

LEMMA EncryptWrites ==
  ASSUME TypeOK, NEW c \in Calls, NEW subjects \in SUBSET Principals,
         NEW expires \in Lifetimes, Encrypt(c, subjects, expires)
  PROVE  \E cr \in Credentials :
           /\ cr.serial = stores + 1
           /\ Of(c).cipher \in Keys
           /\ Wrote(c, [call[c] EXCEPT !.pc = "storing", !.key = Of(c).cipher, !.credential = cr])
<1> DEFINE cr == [serial |-> stores + 1, subjects |-> subjects,
                  policy |-> Of(c).policy, expires |-> expires]
<1>1. call[c].server \in Servers /\ Up(call[c].server)
  BY DEF Encrypt, TypeOK, Shaped
<1>2. Of(c).cipher \in Keys /\ Of(c).policy \in Policies
  BY <1>1 DEF TypeOK, Of
<1>3. cr \in Credentials
  BY <1>2, ConstantsAssumption DEF Credentials, TypeOK
<1>4. cr.serial = stores + 1
  OBVIOUS
<1>5. call' = [call EXCEPT ![c].pc = "storing", ![c].key = Of(c).cipher, ![c].credential = cr]
  BY DEF Encrypt
<1> HIDE DEF cr
<1>6. "storing" \in Phases
  BY DEF Phases
<1>7. call' = [call EXCEPT ![c] = [call[c] EXCEPT !.pc = "storing", !.key = Of(c).cipher,
                                                  !.credential = cr]]
  BY <1>2, <1>3, <1>5, <1>6, CallWrites
<1>8. [call[c] EXCEPT !.pc = "storing", !.key = Of(c).cipher, !.credential = cr] \in CallType
  BY <1>2, <1>3, <1>6, CallAt, CallUpdates
<1> QED BY <1>2, <1>3, <1>4, <1>7, <1>8 DEF Wrote, Encrypt

LEMMA LookupWrites ==
  ASSUME TypeOK, NEW c \in Calls, Lookup(c)
  PROVE  /\ At(c) \in Places /\ rows[At(c)] \in Rows
         /\ Wrote(c, [call[c] EXCEPT !.pc = "held", !.credential = rows[At(c)].credential])
<1>1. At(c) \in Places
  BY PlaceOfCall DEF Lookup
<1>2. rows[At(c)] \in Rows
  BY <1>1 DEF Lookup, TypeOK
<1>3. rows[At(c)].credential \in Credentials
  BY <1>2 DEF Rows
<1>4. "held" \in Phases
  BY DEF Phases
<1>5. call' = [call EXCEPT ![c] = [call[c] EXCEPT !.pc = "held",
                                                  !.credential = rows[At(c)].credential]]
  BY <1>3, <1>4, CallWrites DEF Lookup
<1>6. [call[c] EXCEPT !.pc = "held", !.credential = rows[At(c)].credential] \in CallType
  BY <1>3, <1>4, CallAt, CallUpdates
<1> QED BY <1>1, <1>2, <1>5, <1>6 DEF Wrote, Lookup

LEMMA AuditWrites ==
  ASSUME TypeOK, NEW c \in Calls, AuditDispatch(c)
  PROVE  Wrote(c, [call[c] EXCEPT !.pc = "cleared", !.event = "dispatch"])
<1>1. "cleared" \in Phases
  BY DEF Phases
<1> QED BY <1>1, CallAt, CallUpdates, CallWrites DEF AuditDispatch, Wrote

LEMMA BeginWrites ==
  ASSUME TypeOK, NEW c \in Calls, NEW s \in Servers, NEW p \in Principals,
         NEW op \in Ops, NEW id \in Ids, Begin(c, s, p, op, id)
  PROVE  Wrote(c, [Idle EXCEPT !.pc = "begun", !.op = op, !.server = s,
                               !.principal = p, !.id = id, !.before = voided])
  BY BegunType DEF Begin, Wrote, TypeOK

\* The calls after one of them became w.
LEMMA WroteType ==
  ASSUME TypeOK, NEW c \in Calls, NEW w, Wrote(c, w),
         w.pc # "idle" => /\ w.server \in Servers /\ Up(w.server)
                          /\ w.principal \in Principals /\ w.id \in Ids,
         w.pc \in {"held", "approved", "cleared", "out"} => w.credential \in Credentials,
         w.pc \in {"storing", "orphan"} /\ w.op = "put" =>
            w.credential \in Credentials /\ w.key \in Keys,
         w.pc \in {"idle", "begun", "removing"} => w.credential = None,
         w.pc = "removing" => w.op = "delete",
         UNCHANGED <<now, check, rekeys>>, stores' \in Nat,
         rows' \in [Places -> Rows \cup {None}], voided' \subseteq Places \X Nat
  PROVE  TypeOK'
<1>1. /\ call' \in [Calls -> CallType]
      /\ \A d \in Calls : Shaped(d)'
      /\ \A s \in Servers : Up(s)' => server'[s].cipher \in Keys /\ server'[s].policy \in Policies
  BY OneCallWritten DEF Wrote
<1> QED BY <1>1 DEF TypeOK, Wrote

LEMMA ServingTypeOK ==
  ASSUME TypeOK, NEW c \in Calls, Serving(c)
  PROVE  TypeOK'
<1> USE DEF history, file
<1>0. call[c] \in CallType /\ Shaped(c)
  BY DEF TypeOK
<1>1. ASSUME NEW subjects \in SUBSET Principals, NEW expires \in Lifetimes,
             Encrypt(c, subjects, expires)
      PROVE  TypeOK'
  <2>1. PICK cr \in Credentials :
          /\ Of(c).cipher \in Keys
          /\ Wrote(c, [call[c] EXCEPT !.pc = "storing", !.key = Of(c).cipher, !.credential = cr])
    BY <1>1, EncryptWrites
  <2> DEFINE w == [call[c] EXCEPT !.pc = "storing", !.key = Of(c).cipher, !.credential = cr]
  <2>2. /\ w.pc = "storing" /\ w.server = call[c].server /\ w.principal = call[c].principal
        /\ w.id = call[c].id /\ w.credential = cr /\ w.key = Of(c).cipher
    BY <1>0 DEF CallType
  <2>3. Wrote(c, w)
    BY <2>1
  <2>4. stores' \in Nat /\ UNCHANGED <<now, check, rekeys, rows, voided>> /\ call[c].pc = "begun"
    BY <1>1 DEF Encrypt, TypeOK
  <2> HIDE DEF w
  <2> QED BY <1>0, <2>1, <2>2, <2>3, <2>4, WroteType DEF Shaped, TypeOK
<1>2. ASSUME NEW pc \in Phases, Moves(c, pc), UNCHANGED <<now, file, server, history>>,
             call[c].pc # "idle",
             pc \in {"held", "approved", "cleared", "out"} => Holding(c),
             pc \in {"storing", "orphan"} /\ call[c].op = "put" => Writing(c),
             pc \in {"idle", "begun", "removing"} => call[c].credential = None,
             pc = "removing" => call[c].op = "delete"
      PROVE  TypeOK'
  <2> DEFINE w == [call[c] EXCEPT !.pc = pc]
  <2>1. Wrote(c, w)
    BY <1>2, MovesWrites
  <2>2. /\ w.pc = pc /\ w.server = call[c].server /\ w.principal = call[c].principal
        /\ w.op = call[c].op
        /\ w.id = call[c].id /\ w.credential = call[c].credential /\ w.key = call[c].key
    BY <1>0 DEF CallType
  <2> HIDE DEF w
  <2> QED BY <1>0, <1>2, <2>1, <2>2, WroteType DEF Shaped, TypeOK
<1>3. ASSUME Ends(c), UNCHANGED <<now, check, server, history>>,
             rows' \in [Places -> Rows \cup {None}], voided' \subseteq Places \X Nat
      PROVE  TypeOK'
  <2>1. Wrote(c, Idle)
    BY <1>3, EndsWrites
  <2>2. Idle.pc = "idle" /\ Idle.credential = None
    BY DEF Idle
  <2> QED BY <1>3, <2>1, <2>2, WroteType DEF TypeOK
<1>4. CASE Store(c)
  <2>1. At(c) \in Places
    BY <1>4, PlaceOfCall DEF Store
  <2>2. [key |-> call[c].key, credential |-> call[c].credential] \in Rows
    BY <1>0, <1>4 DEF Store, Shaped, Writing, Rows
  <2>3. rows' \in [Places -> Rows \cup {None}]
    BY <1>4, <2>1, <2>2 DEF Store, TypeOK
  <2>4. voided' \subseteq Places \X Nat
    BY <1>4, <2>1, CurrentType DEF Store, TypeOK
  <2> QED BY <1>3, <1>4, <2>3, <2>4 DEF Store
<1>5. CASE Removed(c)
  <2>1. At(c) \in Places
    BY <1>5, PlaceOfCall DEF Removed
  <2>2. rows' \in [Places -> Rows \cup {None}]
    BY <1>5, <2>1 DEF Removed, Without, TypeOK
  <2>3. voided' \subseteq Places \X Nat
    BY <1>5, <2>1, CurrentType DEF Removed, TypeOK
  <2> QED BY <1>3, <1>5, <2>2, <2>3 DEF Removed
<1>6. CASE WriteFails(c) \/ Return(c)
  BY <1>3, <1>6 DEF WriteFails, Return, TypeOK
<1>7. CASE Remove(c)
  BY <1>0, <1>2, <1>7 DEF Remove, Phases, Shaped
<1>8. CASE Lookup(c)
  <2> DEFINE w == [call[c] EXCEPT !.pc = "held", !.credential = rows[At(c)].credential]
  <2>1. Wrote(c, w) /\ rows[At(c)] \in Rows
    BY <1>8, LookupWrites
  <2>2. /\ w.pc = "held" /\ w.server = call[c].server /\ w.principal = call[c].principal
        /\ w.id = call[c].id /\ w.credential = rows[At(c)].credential
    BY <1>0 DEF CallType
  <2>3. call[c].pc = "begun" /\ UNCHANGED <<now, check, rekeys, stores, rows, voided>>
    BY <1>8 DEF Lookup
  <2> HIDE DEF w
  <2> QED BY <1>0, <2>1, <2>2, <2>3, WroteType DEF Shaped, TypeOK, Rows
<1>9. CASE AuditDispatch(c)
  <2> DEFINE w == [call[c] EXCEPT !.pc = "cleared", !.event = "dispatch"]
  <2>1. Wrote(c, w)
    BY <1>9, AuditWrites
  <2>2. /\ w.pc = "cleared" /\ w.server = call[c].server /\ w.principal = call[c].principal
        /\ w.id = call[c].id /\ w.credential = call[c].credential
    BY <1>0 DEF CallType
  <2>3. call[c].pc = "approved" /\ UNCHANGED <<now, check, rekeys, stores, rows, voided>>
    BY <1>9 DEF AuditDispatch
  <2> HIDE DEF w
  <2> QED BY <1>0, <2>1, <2>2, <2>3, WroteType DEF Shaped, Holding, TypeOK
<1>10. CASE Approve(c) \/ Send(c)
  BY <1>2, <1>10 DEF Approve, Send, Phases, Holding
<1>11. CASE Cancel(c)
  BY <1>0, <1>2, <1>11 DEF Cancel, Phases, Writing, Shaped
<1> QED BY <1>1, <1>4, <1>5, <1>6, <1>7, <1>8, <1>9, <1>10, <1>11 DEF Serving

LEMMA NextTypeOK == TypeOK /\ [Next]_vars => TypeOK'
<1> USE DEF history, file
<1> SUFFICES ASSUME TypeOK, [Next]_vars PROVE TypeOK'
  OBVIOUS
<1>1. ASSUME NEW c \in Calls, NEW s \in Servers, NEW p \in Principals, NEW op \in Ops,
             NEW id \in Ids, Begin(c, s, p, op, id)
      PROVE  TypeOK'
  <2> DEFINE w == [Idle EXCEPT !.pc = "begun", !.op = op, !.server = s,
                               !.principal = p, !.id = id, !.before = voided]
  <2>1. Wrote(c, w)
    BY <1>1, BeginWrites
  <2>2. w.pc = "begun" /\ w.server = s /\ w.principal = p /\ w.id = id /\ w.credential = None
    BY DEF Idle
  <2>3. Up(s) /\ UNCHANGED <<now, check, rekeys, stores, rows, voided>>
    BY <1>1 DEF Begin
  <2> HIDE DEF w
  <2> QED BY <2>1, <2>2, <2>3, WroteType DEF TypeOK
<1>2. ASSUME NEW c \in Calls, Serving(c) PROVE TypeOK'
  BY <1>2, ServingTypeOK
<1>3. ASSUME NEW s \in Servers, NEW key \in Keys, NEW policy \in Policies,
             Start(s, key, policy)
      PROVE  TypeOK'
  <2>1. server' \in [Servers -> ServerType]
    BY <1>3 DEF Start, TypeOK, ServerType
  <2>2. \A r \in Servers : Up(r)' => server'[r].cipher \in Keys /\ server'[r].policy \in Policies
    BY <1>3 DEF Start, TypeOK, Up
  <2>3. \A r \in Servers : Up(r) => Up(r)'
    BY <1>3 DEF Start, TypeOK, Up
  <2>4. \A d \in Calls : Shaped(d)'
    BY <1>3, <2>3 DEF Start, TypeOK, Shaped, Holding, Writing
  <2> QED BY <1>3, <2>1, <2>2, <2>4 DEF Start, TypeOK
<1>4. ASSUME NEW s \in Servers, Crash(s) PROVE TypeOK'
  <2>1. server' \in [Servers -> ServerType]
    <3>1. [server[s] EXCEPT !.up = "down"] \in ServerType
      BY DEF TypeOK, ServerType
    <3> QED BY <1>4, <3>1 DEF Crash, TypeOK
  <2>2. \A r \in Servers : Up(r)' <=> Up(r) /\ r # s
    BY <1>4 DEF Crash, TypeOK, Up, ServerType
  <2>3. \A r \in Servers \ {s} : server'[r] = server[r]
    BY <1>4 DEF Crash, TypeOK
  <2>4. \A r \in Servers : Up(r)' => server'[r].cipher \in Keys /\ server'[r].policy \in Policies
    BY <2>2, <2>3 DEF TypeOK
  <2>5. call' \in [Calls -> CallType]
    BY <1>4, IdleType DEF Crash, TypeOK
  <2>6. ASSUME NEW d \in Calls PROVE Shaped(d)'
    <3>1. CASE call[d].server = s
      <4>1. call'[d] = Idle
        BY <1>4, <3>1 DEF Crash
      <4> QED BY <4>1 DEF Idle, Shaped, Holding, Writing
    <3>2. CASE call[d].server # s
      <4>1. call'[d] = call[d] /\ Shaped(d)
        BY <1>4, <3>2 DEF Crash, TypeOK
      <4> QED BY <3>2, <4>1, <2>2 DEF Shaped, Holding, Writing
    <3> QED BY <3>1, <3>2
  <2> QED BY <1>4, <2>1, <2>4, <2>5, <2>6 DEF Crash, TypeOK
<1>5. ASSUME NEW old \in Keys, NEW new \in Keys, Rekey(old, new) PROVE TypeOK'
  <2>1. \A R \in Rows : [R EXCEPT !.key = new] \in Rows
    BY DEF Rows
  <2>2. rows' \in [Places -> Rows \cup {None}]
    BY <1>5, <2>1 DEF Rekey, TypeOK
  <2>3. \A d \in Calls : Shaped(d)'
    BY <1>5 DEF Rekey, TypeOK, Shaped, Holding, Writing, Up
  <2> QED BY <1>5, <2>2, <2>3 DEF Rekey, TypeOK, Up
<1>6. CASE Tick
  BY <1>6 DEF Tick, TypeOK, Shaped, Holding, Writing, Up
<1>7. CASE UNCHANGED vars
  BY <1>7 DEF vars, TypeOK, Shaped, Holding, Writing, Up
<1> QED BY <1>1, <1>2, <1>3, <1>4, <1>5, <1>6, <1>7 DEF Next, Operating

\* Every reachable state of the file, the processes and the requests has its type,
\* and a request that runs holds what its phase says in a process that is up.
THEOREM VaultTypeCorrect == Spec => []TypeOK
BY InitTypeOK, NextTypeOK, PTL DEF Spec

--------------------------------------------------------------------------------
(* The steps, each with what it does to the call that takes it, for the invariants *)
(* below: the call's fields after the step in terms of those before it.            *)

WroteFields(c, pc, key, cr, event) ==
  /\ call'[c].pc = pc /\ call'[c].key = key /\ call'[c].credential = cr
  /\ call'[c].event = event
  /\ UNCHANGED <<call[c].op, call[c].server, call[c].principal, call[c].id, call[c].before>>
  /\ \A d \in Calls \ {c} : call'[d] = call[d]
  /\ UNCHANGED server

Kept(c, pc) == WroteFields(c, pc, call[c].key, call[c].credential, call[c].event)
LEMMA WroteOnly ==
  ASSUME TypeOK, NEW c \in Calls, NEW w, Wrote(c, w)
  PROVE  call'[c] = w /\ (\A d \in Calls \ {c} : call'[d] = call[d]) /\ UNCHANGED server
  BY DEF TypeOK, Wrote

Ended(c) == /\ call'[c] = Idle
            /\ \A d \in Calls \ {c} : call'[d] = call[d]
            /\ UNCHANGED server

LEMMA MovesKeeps ==
  ASSUME TypeOK, NEW c \in Calls, NEW pc \in Phases, Moves(c, pc), UNCHANGED server
  PROVE  Kept(c, pc)
<1>1. call[c] \in CallType
  BY CallAt
<1> QED BY <1>1 DEF TypeOK, Moves, Kept, WroteFields, CallType

LEMMA EndsEnds ==
  ASSUME TypeOK, NEW c \in Calls, Ends(c), UNCHANGED server
  PROVE  Ended(c)
  BY DEF TypeOK, Ends, Ended

LEMMA EncryptFields ==
  ASSUME TypeOK, NEW c \in Calls, NEW subjects \in SUBSET Principals,
         NEW expires \in Lifetimes, Encrypt(c, subjects, expires)
  PROVE  \E cr \in Credentials :
           /\ cr.serial = stores + 1
           /\ WroteFields(c, "storing", Of(c).cipher, cr, call[c].event)
<1>1. PICK cr \in Credentials :
        /\ cr.serial = stores + 1
        /\ Wrote(c, [call[c] EXCEPT !.pc = "storing", !.key = Of(c).cipher, !.credential = cr])
  BY EncryptWrites
<1> DEFINE w == [call[c] EXCEPT !.pc = "storing", !.key = Of(c).cipher, !.credential = cr]
<1>2. /\ w.pc = "storing" /\ w.key = Of(c).cipher /\ w.credential = cr /\ w.event = call[c].event
      /\ w.op = call[c].op /\ w.server = call[c].server /\ w.principal = call[c].principal
      /\ w.id = call[c].id /\ w.before = call[c].before
  BY CallAt DEF CallType
<1>3. Wrote(c, w)
  BY <1>1
<1> HIDE DEF w
<1> QED BY <1>3, WroteOnly, <1>1, <1>2 DEF WroteFields

LEMMA LookupFields ==
  ASSUME TypeOK, NEW c \in Calls, Lookup(c)
  PROVE  /\ At(c) \in Places /\ rows[At(c)] \in Rows
         /\ WroteFields(c, "held", call[c].key, rows[At(c)].credential, call[c].event)
<1> DEFINE w == [call[c] EXCEPT !.pc = "held", !.credential = rows[At(c)].credential]
<1>1. /\ w.pc = "held" /\ w.key = call[c].key /\ w.credential = rows[At(c)].credential
      /\ w.event = call[c].event
      /\ w.op = call[c].op /\ w.server = call[c].server /\ w.principal = call[c].principal
      /\ w.id = call[c].id /\ w.before = call[c].before
  BY CallAt DEF CallType
<1>2. Wrote(c, w)
  BY LookupWrites
<1> HIDE DEF w
<1> QED BY <1>2, WroteOnly, <1>1, LookupWrites DEF WroteFields

LEMMA AuditFields ==
  ASSUME TypeOK, NEW c \in Calls, AuditDispatch(c)
  PROVE  WroteFields(c, "cleared", call[c].key, call[c].credential, "dispatch")
<1> DEFINE w == [call[c] EXCEPT !.pc = "cleared", !.event = "dispatch"]
<1>1. /\ w.pc = "cleared" /\ w.key = call[c].key /\ w.credential = call[c].credential
      /\ w.event = "dispatch"
      /\ w.op = call[c].op /\ w.server = call[c].server /\ w.principal = call[c].principal
      /\ w.id = call[c].id /\ w.before = call[c].before
  BY CallAt DEF CallType
<1>2. Wrote(c, w)
  BY AuditWrites
<1> HIDE DEF w
<1> QED BY <1>2, WroteOnly, <1>1 DEF WroteFields

Begun(c, s, p, id) ==
  /\ call'[c].pc = "begun" /\ call'[c].server = s
  /\ call'[c].principal = p /\ call'[c].id = id
  /\ call'[c].credential = None /\ call'[c].event = "none" /\ call'[c].before = voided
  /\ \A d \in Calls \ {c} : call'[d] = call[d]
  /\ UNCHANGED server

LEMMA BeginFields ==
  ASSUME TypeOK, NEW c \in Calls, NEW s \in Servers, NEW p \in Principals,
         NEW op \in Ops, NEW id \in Ids, Begin(c, s, p, op, id)
  PROVE  Begun(c, s, p, id)
<1> DEFINE w == [Idle EXCEPT !.pc = "begun", !.op = op, !.server = s,
                             !.principal = p, !.id = id, !.before = voided]
<1>1. /\ w.pc = "begun" /\ w.server = s /\ w.principal = p /\ w.id = id
      /\ w.credential = None /\ w.event = "none" /\ w.before = voided
  BY DEF Idle
<1>2. Wrote(c, w)
  BY BeginWrites
<1> HIDE DEF w
<1> QED BY <1>1, <1>2, WroteOnly DEF Begun

LEMMA CrashFields ==
  ASSUME TypeOK, NEW s \in Servers, Crash(s)
  PROVE  \A d \in Calls : \/ call'[d] = Idle
                          \/ /\ call'[d] = call[d] /\ call[d].server # s
                             /\ call[d].pc # "idle" => Of(d)' = Of(d)
<1> SUFFICES ASSUME NEW d \in Calls, call[d].server # s
             PROVE  call'[d] = call[d] /\ (call[d].pc # "idle" => Of(d)' = Of(d))
  BY DEF Crash
<1>1. call'[d] = call[d]
  BY DEF Crash
<1>2. call[d].pc # "idle" => call[d].server \in Servers
  BY DEF TypeOK, Shaped
<1> QED BY <1>1, <1>2 DEF Crash, TypeOK, Of

\* Starting a process disturbs no call: those that run are in processes that are up.
LEMMA StartKeeps ==
  ASSUME TypeOK, NEW s \in Servers, NEW key \in Keys, NEW policy \in Policies,
         Start(s, key, policy), NEW d \in Calls, call[d].pc # "idle"
  PROVE  Of(d)' = Of(d)
<1>1. call[d].server \in Servers /\ Up(call[d].server)
  BY DEF TypeOK, Shaped
<1> QED BY <1>1 DEF Start, TypeOK, Of, Up

--------------------------------------------------------------------------------
(* Every stored credential is readable: what a call still has to write is under the *)
(* key of its process, and the transaction that writes it verifies that key.        *)

UnderOwnKey(c) == Writing(c) => call[c].key = Of(c).cipher
Readable == RowsReadable /\ \A c \in Calls : UnderOwnKey(c)

LEMMA InitReadable == Init => Readable
<1> SUFFICES ASSUME Init PROVE Readable
  OBVIOUS
<1>1. RowsReadable
  <2>1. PICK key \in Keys, policy \in Policies \cup {None} :
          /\ check \in {None, key}
          /\ rows \in [Places -> {None, [key |-> key,
                          credential |-> [serial |-> 0, subjects |-> Principals,
                                          policy |-> policy, expires |-> Never]]}]
    BY DEF Init
  <2> QED BY <2>1 DEF RowsReadable
<1>2. \A c \in Calls : UnderOwnKey(c)
  BY DEF Init, Idle, UnderOwnKey, Writing
<1> QED BY <1>1, <1>2 DEF Readable

LEMMA ServingReadable ==
  ASSUME TypeOK, Readable, NEW c \in Calls, Serving(c)
  PROVE  Readable'
<1> USE DEF file
<1>1. ASSUME NEW subjects \in SUBSET Principals, NEW expires \in Lifetimes,
             Encrypt(c, subjects, expires)
      PROVE  Readable'
  <2>1. PICK cr \in Credentials : WroteFields(c, "storing", Of(c).cipher, cr, call[c].event)
    BY <1>1, EncryptFields
  <2>2. Of(c)' = Of(c)
    BY <2>1 DEF WroteFields, Of
  <2>3. \A d \in Calls : UnderOwnKey(d)'
    BY <2>1, <2>2 DEF WroteFields, UnderOwnKey, Writing, Of, Readable
  <2> QED BY <1>1, <2>3 DEF Encrypt, Readable, RowsReadable
<1>2. ASSUME NEW pc \in Phases, Kept(c, pc), UNCHANGED file,
             pc \in {"storing", "orphan"} /\ call[c].op = "put" => Writing(c)
      PROVE  Readable'
  BY <1>2 DEF Kept, WroteFields, Readable, RowsReadable, UnderOwnKey, Writing, Of
<1>3. ASSUME Ended(c) PROVE \A d \in Calls : UnderOwnKey(d)'
  BY <1>3 DEF Ended, Idle, Readable, UnderOwnKey, Writing, Of
<1>4. CASE Store(c)
  <2>1. call[c].key = check /\ At(c) \in Places
    BY <1>4, PlaceOfCall DEF Store, Readable, UnderOwnKey, Writing, Verified, Of
  <2>2. RowsReadable'
    BY <1>4, <2>1 DEF Store, Readable, RowsReadable, TypeOK
  <2> QED BY <1>3, <1>4, <2>2, EndsEnds DEF Store, Readable
<1>5. CASE Removed(c)
  <2>1. RowsReadable'
    BY <1>5 DEF Removed, Without, Readable, RowsReadable, TypeOK
  <2> QED BY <1>3, <1>5, <2>1, EndsEnds DEF Removed, Readable
<1>6. CASE WriteFails(c) \/ Return(c)
  BY <1>3, <1>6, EndsEnds DEF WriteFails, Return, Readable, RowsReadable
<1>7. CASE Remove(c) \/ Approve(c) \/ Send(c)
  BY <1>2, <1>7, MovesKeeps DEF Remove, Approve, Send, Phases
<1>8. CASE Cancel(c)
  <2>1. call[c].op = "put" => Writing(c)
    BY <1>8 DEF Cancel, Writing, TypeOK, Shaped
  <2> QED BY <1>2, <1>8, <2>1, MovesKeeps DEF Cancel, Phases
<1>9. ASSUME NEW cr, NEW event, NEW pc \in {"held", "cleared"}, UNCHANGED file,
             WroteFields(c, pc, call[c].key, cr, event)
      PROVE  Readable'
  <2>1. \A d \in Calls : UnderOwnKey(d)'
    BY <1>9 DEF WroteFields, UnderOwnKey, Writing, Of, Readable
  <2> QED BY <1>9, <2>1 DEF Readable, RowsReadable
<1>10. CASE Lookup(c)
  <2>1. UNCHANGED file
    BY <1>10 DEF Lookup
  <2> QED BY <1>9, <1>10, <2>1, LookupFields
<1>11. CASE AuditDispatch(c)
  <2>1. UNCHANGED file
    BY <1>11 DEF AuditDispatch
  <2> QED BY <1>9, <1>11, <2>1, AuditFields
<1> QED BY <1>1, <1>4, <1>5, <1>6, <1>7, <1>8, <1>10, <1>11 DEF Serving

LEMMA NextReadable == TypeOK /\ Readable /\ [Next]_vars => Readable'
<1> USE DEF file
<1> SUFFICES ASSUME TypeOK, Readable, [Next]_vars PROVE Readable'
  OBVIOUS
<1>1. ASSUME NEW c \in Calls, NEW s \in Servers, NEW p \in Principals, NEW op \in Ops,
             NEW id \in Ids, Begin(c, s, p, op, id)
      PROVE  Readable'
  <2>1. Begun(c, s, p, id)
    BY <1>1, BeginFields
  <2>2. \A d \in Calls : UnderOwnKey(d)'
    BY <2>1 DEF Begun, UnderOwnKey, Writing, Of, Readable
  <2> QED BY <1>1, <2>2 DEF Begin, Readable, RowsReadable
<1>2. ASSUME NEW c \in Calls, Serving(c) PROVE Readable'
  BY <1>2, ServingReadable
<1>3. ASSUME NEW s \in Servers, NEW key \in Keys, NEW policy \in Policies,
             Start(s, key, policy)
      PROVE  Readable'
  <2>1. RowsReadable'
    BY <1>3 DEF Start, Blessed, Readable, RowsReadable
  <2>2. ASSUME NEW d \in Calls PROVE UnderOwnKey(d)'
    <3>1. Writing(d) => Of(d)' = Of(d)
      BY <1>3, StartKeeps DEF Writing
    <3> QED BY <1>3, <3>1 DEF Start, UnderOwnKey, Writing, Readable
  <2> QED BY <2>1, <2>2 DEF Readable
<1>4. ASSUME NEW s \in Servers, Crash(s) PROVE Readable'
  <2>1. ASSUME NEW d \in Calls PROVE UnderOwnKey(d)'
    BY <1>4, CrashFields DEF UnderOwnKey, Writing, Idle, Readable
  <2> QED BY <1>4, <2>1 DEF Crash, Readable, RowsReadable
<1>5. ASSUME NEW old \in Keys, NEW new \in Keys, Rekey(old, new) PROVE Readable'
  <2>1. RowsReadable'
    <3>1. \A R \in Rows : [R EXCEPT !.key = new].key = new
      BY DEF Rows
    <3> QED BY <1>5, <3>1 DEF Rekey, RowsReadable, TypeOK
  <2> QED BY <1>5, <2>1 DEF Rekey, Readable, UnderOwnKey, Writing, Of
<1>6. CASE Tick
  BY <1>6 DEF Tick, Readable, RowsReadable, UnderOwnKey, Writing, Of
<1>7. CASE UNCHANGED vars
  BY <1>7 DEF vars, Readable, RowsReadable, UnderOwnKey, Writing, Of
<1> QED BY <1>1, <1>2, <1>3, <1>4, <1>5, <1>6, <1>7 DEF Next, Operating

\* Whatever rotations run beside whatever processes, and whichever cancelled writes
\* finish late, the key the file vouches for reads every credential in it.
THEOREM StoredCredentialsReadable == Spec => []RowsReadable
<1>1. Init => TypeOK /\ Readable
  BY InitTypeOK, InitReadable
<1>2. TypeOK /\ Readable /\ [Next]_vars => TypeOK' /\ Readable'
  BY NextTypeOK, NextReadable
<1>3. Readable => RowsReadable
  BY DEF Readable
<1> QED BY <1>1, <1>2, <1>3, PTL DEF Spec

--------------------------------------------------------------------------------
(* What leaves was permitted and audited: the checks are made on the very record    *)
(* that is sent, in the process whose configuration they compare it with.           *)

Granted(c) ==
  /\ call[c].pc \in {"approved", "cleared", "out"} =>
       /\ call[c].principal \in call[c].credential.subjects
       /\ call[c].credential.policy = Of(c).policy
  /\ call[c].pc \in {"cleared", "out"} => call[c].event = "dispatch"
AllGranted == \A c \in Calls : Granted(c)

LEMMA ServingGranted ==
  ASSUME TypeOK, AllGranted, NEW c \in Calls, Serving(c)
  PROVE  AllGranted'
<1>1. ASSUME NEW pc, NEW key, NEW cr, NEW event, WroteFields(c, pc, key, cr, event),
             pc \notin {"approved", "cleared", "out"}
      PROVE  AllGranted'
  BY <1>1 DEF WroteFields, AllGranted, Granted, Of
<1>2. CASE Ended(c)
  BY <1>2 DEF Ended, Idle, AllGranted, Granted, Of
<1>3. CASE \E subjects \in SUBSET Principals, expires \in Lifetimes : Encrypt(c, subjects, expires)
  <2>1. PICK cr \in Credentials : WroteFields(c, "storing", Of(c).cipher, cr, call[c].event)
    BY <1>3, EncryptFields
  <2> QED BY <1>1, <2>1
<1>4. CASE Store(c) \/ Removed(c) \/ WriteFails(c) \/ Return(c)
  BY <1>2, <1>4, EndsEnds DEF Store, Removed, WriteFails, Return
<1>5. CASE Remove(c) \/ Cancel(c)
  <2>1. Kept(c, "removing") \/ Kept(c, "orphan")
    BY <1>5, MovesKeeps DEF Remove, Cancel, Phases
  <2> QED BY <1>1, <2>1 DEF Kept
<1>6. CASE Lookup(c)
  BY <1>1, <1>6, LookupFields
<1>7. CASE Approve(c)
  <2>1. Kept(c, "approved") /\ Permitted(c)
    BY <1>7, MovesKeeps DEF Approve, Phases
  <2> QED BY <2>1 DEF Kept, WroteFields, Permitted, AllGranted, Granted, Of
<1>8. CASE AuditDispatch(c)
  <2>1. WroteFields(c, "cleared", call[c].key, call[c].credential, "dispatch")
        /\ call[c].pc = "approved"
    BY <1>8, AuditFields DEF AuditDispatch
  <2> QED BY <2>1 DEF WroteFields, AllGranted, Granted, Of
<1>9. CASE Send(c)
  <2>1. Kept(c, "out") /\ call[c].pc = "cleared"
    BY <1>9, MovesKeeps DEF Send, Phases
  <2> QED BY <2>1 DEF Kept, WroteFields, AllGranted, Granted, Of
<1> QED BY <1>3, <1>4, <1>5, <1>6, <1>7, <1>8, <1>9 DEF Serving

LEMMA NextGranted == TypeOK /\ AllGranted /\ [Next]_vars => AllGranted'
<1> SUFFICES ASSUME TypeOK, AllGranted, [Next]_vars PROVE AllGranted'
  OBVIOUS
<1>1. ASSUME NEW c \in Calls, NEW s \in Servers, NEW p \in Principals, NEW op \in Ops,
             NEW id \in Ids, Begin(c, s, p, op, id)
      PROVE  AllGranted'
  BY <1>1, BeginFields DEF Begun, AllGranted, Granted, Of
<1>2. ASSUME NEW c \in Calls, Serving(c) PROVE AllGranted'
  BY <1>2, ServingGranted
<1>3. ASSUME NEW s \in Servers, NEW key \in Keys, NEW policy \in Policies,
             Start(s, key, policy), NEW d \in Calls
      PROVE  Granted(d)'
  <2>1. call[d].pc # "idle" => Of(d)' = Of(d)
    BY <1>3, StartKeeps
  <2> QED BY <1>3, <2>1 DEF Start, AllGranted, Granted
<1>4. ASSUME NEW s \in Servers, Crash(s), NEW d \in Calls PROVE Granted(d)'
  BY <1>4, CrashFields DEF AllGranted, Granted, Idle
<1>5. CASE (\E old, new \in Keys : Rekey(old, new)) \/ Tick \/ UNCHANGED vars
  <2>1. UNCHANGED <<call, server>>
    BY <1>5 DEF Rekey, Tick, vars
  <2> QED BY <2>1 DEF AllGranted, Granted, Of
<1> QED BY <1>1, <1>2, <1>3, <1>4, <1>5 DEF Next, Operating, AllGranted

\* No request leaves without its audit row, for a subject or towards a configuration
\* its credential was not stored for, however many versions and lives there are.
THEOREM DispatchesGranted == Spec => []DispatchWithinGrant
<1>1. Init => TypeOK /\ AllGranted
  <2>1. Init => AllGranted
    BY DEF Init, Idle, AllGranted, Granted
  <2> QED BY <2>1, InitTypeOK
<1>2. TypeOK /\ AllGranted /\ [Next]_vars => TypeOK' /\ AllGranted'
  BY NextTypeOK, NextGranted
<1>3. AllGranted => DispatchWithinGrant
  BY DEF AllGranted, Granted, DispatchWithinGrant
<1> QED BY <1>1, <1>2, <1>3, PTL DEF Spec

--------------------------------------------------------------------------------
(* Revocation.  Every credential has a serial of its own; one that was deleted or   *)
(* replaced is in no row and in no unfinished write, so no later lookup finds it.   *)

Serial(place) == rows[place].credential.serial
Filled == {place \in Places : rows[place] # None}
Taken(c) == <<At(c), call[c].credential.serial>>

RowsLive == \A place \in Filled : Serial(place) <= stores /\ <<place, Serial(place)>> \notin voided
VoidedOld == \A v \in voided : v[2] <= stores
Fresh(c) ==
  Writing(c) => /\ call[c].credential.serial <= stores
                /\ Taken(c) \notin voided
                /\ \A place \in Filled : Serial(place) # call[c].credential.serial
Apart(c, d) ==
  Writing(c) /\ Writing(d) /\ c # d => call[c].credential.serial # call[d].credential.serial
Unrevoked(c) == /\ call[c].before \subseteq voided
                /\ Holding(c) => Taken(c) \notin call[c].before

Revocation ==
  /\ RowsLive /\ VoidedOld
  /\ \A c \in Calls : Fresh(c) /\ Unrevoked(c)
  /\ \A c, d \in Calls : Apart(c, d)

LEMMA SerialType == ASSUME TypeOK, NEW place \in Filled PROVE Serial(place) \in Nat
  BY DEF TypeOK, Filled, Serial, Rows, Credentials

LEMMA WrittenSerial ==
  ASSUME TypeOK, NEW c \in Calls, Writing(c) PROVE call[c].credential.serial \in Nat
  BY DEF TypeOK, Shaped, Credentials

LEMMA InitRevocation == Init => Revocation
<1> SUFFICES ASSUME Init PROVE Revocation
  OBVIOUS
<1>1. \A place \in Filled : Serial(place) = 0
  <2>1. PICK key \in Keys, policy \in Policies \cup {None} :
          rows \in [Places -> {None, [key |-> key,
                    credential |-> [serial |-> 0, subjects |-> Principals,
                                    policy |-> policy, expires |-> Never]]}]
    BY DEF Init
  <2> QED BY <2>1 DEF Filled, Serial
<1>2. voided = {} /\ stores = 0
  BY DEF Init
<1>3. \A c \in Calls : ~Writing(c) /\ ~Holding(c) /\ call[c].before = {}
  BY DEF Init, Idle, Writing, Holding
<1> QED BY <1>1, <1>2, <1>3 DEF Revocation, RowsLive, VoidedOld, Fresh, Apart, Unrevoked

\* A step that leaves the rows' serials alone, starts no write, and takes into a
\* request only what was not voided before it.
LEMMA QuietStep ==
  ASSUME TypeOK, Revocation, UNCHANGED <<stores, voided>>,
         Filled' = Filled, \A place \in Filled : Serial(place)' = Serial(place),
         \A c \in Calls :
           /\ Writing(c)' => Writing(c) /\ Taken(c)' = Taken(c)
           /\ Unrevoked(c)'
  PROVE  Revocation'
<1>1. RowsLive' /\ VoidedOld'
  BY DEF Revocation, RowsLive, VoidedOld
<1>2. \A c \in Calls : Writing(c)' => call'[c].credential.serial = call[c].credential.serial
  BY DEF Taken
<1>3. \A c \in Calls : Fresh(c)'
  BY <1>2 DEF Revocation, Fresh
<1>4. \A c, d \in Calls : Apart(c, d)'
  BY <1>2 DEF Revocation, Apart
<1> QED BY <1>1, <1>3, <1>4 DEF Revocation

LEMMA EncryptRevocation ==
  ASSUME TypeOK, Revocation, NEW c \in Calls, NEW subjects \in SUBSET Principals,
         NEW expires \in Lifetimes, Encrypt(c, subjects, expires)
  PROVE  Revocation'
<1>1. PICK cr \in Credentials : /\ cr.serial = stores + 1
                               /\ WroteFields(c, "storing", Of(c).cipher, cr, call[c].event)
  BY EncryptFields
<1>2. UNCHANGED <<rows, voided>> /\ stores' = stores + 1 /\ stores \in Nat
  BY DEF Encrypt, TypeOK, file
<1>3. Filled' = Filled /\ \A place \in Filled : Serial(place)' = Serial(place)
  BY <1>2 DEF Filled, Serial
<1>4. \A v \in voided : v[2] \in Nat /\ v[2] <= stores
  BY DEF Revocation, VoidedOld, TypeOK
<1>5. RowsLive' /\ VoidedOld'
  BY <1>2, <1>3, <1>4, SerialType DEF Revocation, RowsLive, VoidedOld
<1>6. /\ call'[c].credential.serial = stores + 1
      /\ \A d \in Calls \ {c} : call'[d] = call[d]
      /\ call'[c].before = call[c].before /\ ~Holding(c)'
  BY <1>1 DEF WroteFields, Holding
<1>7. \A d \in Calls \ {c} : (Writing(d)' <=> Writing(d)) /\ Taken(d)' = Taken(d)
                              /\ (Holding(d)' <=> Holding(d))
  BY <1>6 DEF Writing, Taken, At, Holding
<1>8. \A d \in Calls \ {c} : Fresh(d)' /\ Unrevoked(d)'
  BY <1>2, <1>3, <1>6, <1>7, WrittenSerial DEF Revocation, Fresh, Unrevoked
<1>9. Fresh(c)' /\ Unrevoked(c)'
  <2>1. ASSUME NEW place \in Filled PROVE Serial(place) # stores + 1
    <3>1. Serial(place) \in Nat /\ Serial(place) <= stores
      BY SerialType DEF Revocation, RowsLive
    <3> QED BY <1>2, <3>1
  <2>2. \A place : <<place, stores + 1>> \notin voided
    BY <1>2, <1>4
  <2>3. Taken(c)' \notin voided'
    BY <1>2, <1>6, <2>2 DEF Taken
  <2>4. Fresh(c)'
    BY <1>2, <1>3, <1>6, <2>1, <2>3 DEF Fresh
  <2>5. Unrevoked(c)'
    BY <1>2, <1>6 DEF Revocation, Unrevoked
  <2> QED BY <2>4, <2>5
<1>10. \A d \in Calls \ {c} : Writing(d) => call[d].credential.serial # stores + 1
  BY <1>2, WrittenSerial DEF Revocation, Fresh
<1>11. \A d, e \in Calls : Apart(d, e)'
  BY <1>6, <1>7, <1>10 DEF Revocation, Apart
<1> QED BY <1>5, <1>8, <1>9, <1>11 DEF Revocation

\* A transaction empties or fills one place and voids what was there; the call ends.
LEMMA WriteRevocation ==
  ASSUME TypeOK, Revocation, NEW c \in Calls, At(c) \in Places, Ended(c), UNCHANGED stores,
         voided' = voided \cup Current(At(c)), NEW new,
         rows' = [rows EXCEPT ![At(c)] = new],
         \/ new = None
         \/ /\ new # None /\ Writing(c) /\ new.credential = call[c].credential
  PROVE  Revocation'
<1> PICK p \in Places : p = At(c)
  OBVIOUS
<1>1. rows'[p] = new /\ \A q \in Places \ {p} : rows'[q] = rows[q]
  BY DEF TypeOK
<1>2. Filled' \ {p} = Filled \ {p} /\ \A q \in Filled' \ {p} : Serial(q)' = Serial(q)
  BY <1>1 DEF Filled, Serial
<1>3. Current(p) = IF p \in Filled THEN {<<p, Serial(p)>>} ELSE {}
  BY DEF Current, Filled, Serial
<1>4. p \in Filled' => Writing(c) /\ Serial(p)' = call[c].credential.serial
  BY <1>1 DEF Filled, Serial
<1>5. voided' = voided \cup Current(p) /\ p = At(c)
  OBVIOUS
<1>6. VoidedOld'
  BY <1>3, <1>5 DEF Revocation, VoidedOld, RowsLive
<1>7. RowsLive'
  <2>1. \A q \in Filled' \ {p} : Serial(q)' <= stores' /\ <<q, Serial(q)'>> \notin voided'
    BY <1>2, <1>3, <1>5 DEF Revocation, RowsLive
  <2>2. p \in Filled' => Serial(p)' <= stores' /\ <<p, Serial(p)'>> \notin voided'
    BY <1>3, <1>4, <1>5 DEF Revocation, Fresh, Taken
  <2> QED BY <2>1, <2>2 DEF RowsLive
<1>8. /\ \A d \in Calls \ {c} : /\ (Writing(d)' <=> Writing(d)) /\ (Holding(d)' <=> Holding(d))
                                /\ call'[d] = call[d] /\ Taken(d)' = Taken(d)
      /\ ~Writing(c)' /\ ~Holding(c)' /\ call'[c].before = {}
  BY DEF Ended, Idle, Writing, Holding, Taken, At
<1>9. \A d \in Calls : Unrevoked(d)'
  BY <1>5, <1>8 DEF Revocation, Unrevoked
<1>10. ASSUME NEW d \in Calls \ {c}, Writing(d) PROVE Fresh(d)'
  <2>1. Taken(d) \notin voided'
    BY <1>3, <1>5, <1>10 DEF Revocation, Fresh, Taken
  <2>2. \A q \in Filled' \ {p} : Serial(q)' # call[d].credential.serial
    BY <1>2, <1>10 DEF Revocation, Fresh
  <2>3. p \in Filled' => Serial(p)' # call[d].credential.serial
    BY <1>4, <1>10 DEF Revocation, Apart
  <2> QED BY <1>8, <1>10, <2>1, <2>2, <2>3 DEF Revocation, Fresh
<1>11. \A d, e \in Calls : Apart(d, e)'
  BY <1>8 DEF Revocation, Apart
<1> QED BY <1>6, <1>7, <1>8, <1>9, <1>10, <1>11 DEF Revocation, Fresh

LEMMA ServingRevocation ==
  ASSUME TypeOK, Revocation, NEW c \in Calls, Serving(c)
  PROVE  Revocation'
<1> USE DEF file, history
<1>1. CASE \E subjects \in SUBSET Principals, expires \in Lifetimes : Encrypt(c, subjects, expires)
  BY <1>1, EncryptRevocation
<1>2. CASE Store(c)
  <2> DEFINE new == [key |-> call[c].key, credential |-> call[c].credential]
  <2>1. Writing(c) /\ At(c) \in Places /\ Ended(c)
    BY <1>2, PlaceOfCall, EndsEnds DEF Store, Writing
  <2>2. new \in Rows /\ new.credential = call[c].credential
    BY <2>1 DEF TypeOK, Shaped, Rows
  <2>3. new # None
    BY <2>2, ConstantsAssumption
  <2>4. rows' = [rows EXCEPT ![At(c)] = new] /\ voided' = voided \cup Current(At(c))
        /\ UNCHANGED stores
    BY <1>2 DEF Store
  <2> HIDE DEF new
  <2> QED BY <2>1, <2>2, <2>3, <2>4, WriteRevocation
<1>3. CASE Removed(c)
  <2>1. At(c) \in Places /\ Ended(c)
    BY <1>3, PlaceOfCall, EndsEnds DEF Removed
  <2>2. rows' = [rows EXCEPT ![At(c)] = None] /\ voided' = voided \cup Current(At(c))
        /\ UNCHANGED stores
    BY <1>3 DEF Removed, Without
  <2> QED BY <2>1, <2>2, WriteRevocation
<1>4. ASSUME UNCHANGED <<stores, file>>, Ended(c) PROVE Revocation'
  <2>1. Filled' = Filled /\ \A place \in Filled : Serial(place)' = Serial(place)
    BY <1>4 DEF Filled, Serial
  <2>2. ASSUME NEW d \in Calls
        PROVE  (Writing(d)' => Writing(d) /\ Taken(d)' = Taken(d)) /\ Unrevoked(d)'
    BY <1>4 DEF Ended, Idle, Writing, Taken, At, Unrevoked, Holding, Revocation
  <2> QED BY <1>4, <2>1, <2>2, QuietStep
<1>5. ASSUME NEW pc, NEW event, UNCHANGED <<stores, file>>,
             WroteFields(c, pc, call[c].key, call[c].credential, event),
             pc \in {"storing", "orphan"} /\ call[c].op = "put" => Writing(c),
             pc \in {"held", "approved", "cleared", "out"} => Holding(c)
      PROVE  Revocation'
  <2>1. Filled' = Filled /\ \A place \in Filled : Serial(place)' = Serial(place)
    BY <1>5 DEF Filled, Serial
  <2>2. ASSUME NEW d \in Calls
        PROVE  (Writing(d)' => Writing(d) /\ Taken(d)' = Taken(d)) /\ Unrevoked(d)'
    BY <1>5 DEF WroteFields, Writing, Taken, At, Unrevoked, Holding, Revocation
  <2> QED BY <1>5, <2>1, <2>2, QuietStep
<1>6. CASE WriteFails(c) \/ Return(c)
  BY <1>4, <1>6, EndsEnds DEF WriteFails, Return
<1>7. CASE Remove(c)
  <2>1. Kept(c, "removing") /\ UNCHANGED <<stores, file>>
    BY <1>7, MovesKeeps DEF Remove, Phases
  <2> QED BY <1>5, <2>1 DEF Kept
<1>8. CASE Approve(c) \/ Send(c)
  <2>1. (Kept(c, "approved") \/ Kept(c, "out")) /\ UNCHANGED <<stores, file>> /\ Holding(c)
    BY <1>8, MovesKeeps DEF Approve, Send, Phases, Holding
  <2> QED BY <1>5, <2>1 DEF Kept
<1>9. CASE Cancel(c)
  <2>1. Kept(c, "orphan") /\ UNCHANGED <<stores, file>> /\ (call[c].op = "put" => Writing(c))
    BY <1>9, MovesKeeps DEF Cancel, Phases, Writing, TypeOK, Shaped
  <2> QED BY <1>5, <2>1 DEF Kept
<1>10. CASE AuditDispatch(c)
  <2>1. UNCHANGED <<stores, file>> /\ Holding(c)
    BY <1>10 DEF AuditDispatch, Holding
  <2> QED BY <1>5, <1>10, <2>1, AuditFields
<1>11. CASE Lookup(c)
  <2>1. /\ At(c) \in Places
        /\ WroteFields(c, "held", call[c].key, rows[At(c)].credential, call[c].event)
    BY <1>11, LookupFields
  <2>2. At(c) \in Filled /\ UNCHANGED <<stores, file>>
    BY <1>11, <2>1 DEF Lookup, Filled
  <2>3. <<At(c), Serial(At(c))>> \notin voided
    BY <2>2 DEF Revocation, RowsLive
  <2>4. ASSUME NEW d \in Calls \ {c}
        PROVE  (Writing(d)' => Writing(d) /\ Taken(d)' = Taken(d)) /\ Unrevoked(d)'
    BY <2>1, <2>2 DEF WroteFields, Writing, Taken, At, Unrevoked, Holding, Revocation
  <2>5. ~Writing(c)'
    BY <2>1 DEF WroteFields, Writing
  <2>6. Unrevoked(c)'
    BY <2>1, <2>2, <2>3 DEF WroteFields, Taken, At, Serial, Unrevoked, Revocation
  <2>7. Filled' = Filled /\ \A place \in Filled : Serial(place)' = Serial(place)
    BY <2>2 DEF Filled, Serial
  <2> QED BY <2>2, <2>4, <2>5, <2>6, <2>7, QuietStep
<1> QED BY <1>1, <1>2, <1>3, <1>6, <1>7, <1>8, <1>9, <1>10, <1>11 DEF Serving

LEMMA NextRevocation == TypeOK /\ Revocation /\ [Next]_vars => Revocation'
<1> USE DEF file, history
<1> SUFFICES ASSUME TypeOK, Revocation, [Next]_vars PROVE Revocation'
  OBVIOUS
<1>1. ASSUME UNCHANGED rows
      PROVE  Filled' = Filled /\ \A place \in Filled : Serial(place)' = Serial(place)
  BY <1>1 DEF Filled, Serial
<1>2. ASSUME NEW c \in Calls, NEW s \in Servers, NEW p \in Principals, NEW op \in Ops,
             NEW id \in Ids, Begin(c, s, p, op, id)
      PROVE  Revocation'
  <2>1. Begun(c, s, p, id) /\ UNCHANGED <<stores, rows, voided>>
    BY <1>2, BeginFields DEF Begin
  <2>2. ASSUME NEW d \in Calls
        PROVE  (Writing(d)' => Writing(d) /\ Taken(d)' = Taken(d)) /\ Unrevoked(d)'
    BY <2>1 DEF Begun, Writing, Taken, At, Unrevoked, Holding, Revocation
  <2> QED BY <1>1, <2>1, <2>2, QuietStep
<1>3. ASSUME NEW c \in Calls, Serving(c) PROVE Revocation'
  BY <1>3, ServingRevocation
<1>4. ASSUME UNCHANGED <<call, stores, voided>>, Filled' = Filled,
             \A place \in Filled : Serial(place)' = Serial(place)
      PROVE  Revocation'
  <2>1. ASSUME NEW d \in Calls
        PROVE  (Writing(d)' => Writing(d) /\ Taken(d)' = Taken(d)) /\ Unrevoked(d)'
    BY <1>4 DEF Writing, Taken, At, Unrevoked, Holding, Revocation
  <2> QED BY <1>4, <2>1, QuietStep
<1>5. CASE \E s \in Servers, key \in Keys, policy \in Policies : Start(s, key, policy)
  BY <1>1, <1>4, <1>5 DEF Start
<1>6. ASSUME NEW s \in Servers, Crash(s) PROVE Revocation'
  <2>1. ASSUME NEW d \in Calls
        PROVE  (Writing(d)' => Writing(d) /\ Taken(d)' = Taken(d)) /\ Unrevoked(d)'
    BY <1>6, CrashFields DEF Crash, Writing, Taken, At, Unrevoked, Holding, Revocation, Idle
  <2> QED BY <1>1, <1>6, <2>1, QuietStep DEF Crash
<1>7. ASSUME NEW old \in Keys, NEW new \in Keys, Rekey(old, new) PROVE Revocation'
  <2>1. \A R \in Rows : [R EXCEPT !.key = new].credential = R.credential
                        /\ [R EXCEPT !.key = new] \in Rows
    BY DEF Rows
  <2>2. \A place \in Places :
          /\ rows[place] = None => rows'[place] = None
          /\ rows[place] # None =>
               rows'[place] \in Rows /\ rows'[place].credential = rows[place].credential
    BY <1>7, <2>1 DEF Rekey, TypeOK
  <2>3. Filled' = Filled
    <3>1. \A R \in Rows : R # None
      BY ConstantsAssumption
    <3>2. \A place \in Places : rows'[place] # None <=> rows[place] # None
      BY <2>2, <3>1
    <3> QED BY <3>2 DEF Filled
  <2>4. \A place \in Filled : Serial(place)' = Serial(place)
    BY <2>2 DEF Filled, Serial
  <2> QED BY <1>4, <1>7, <2>3, <2>4 DEF Rekey
<1>8. CASE Tick \/ UNCHANGED vars
  BY <1>1, <1>4, <1>8 DEF Tick, vars
<1> QED BY <1>2, <1>3, <1>5, <1>6, <1>7, <1>8 DEF Next, Operating

\* A credential deleted or replaced before a request began never leaves with it, even
\* when an older write of it finishes late in a worker thread or another process.
THEOREM RevokedNeverSent == Spec => []RevocationStopsLookups
<1>1. Init => TypeOK /\ Revocation
  BY InitTypeOK, InitRevocation
<1>2. TypeOK /\ Revocation /\ [Next]_vars => TypeOK' /\ Revocation'
  BY NextTypeOK, NextRevocation
<1>3. Revocation => RevocationStopsLookups
  BY DEF Revocation, RevocationStopsLookups, Unrevoked, Holding, Taken
<1> QED BY <1>1, <1>2, <1>3, PTL DEF Spec

--------------------------------------------------------------------------------
(* The quota. *)

LEMMA PlacesFinite == IsFiniteSet(Places)
  BY FiniteAssumption, FS_Product DEF Places

LEMMA StoredFinite == ASSUME NEW S \in SUBSET Places
                      PROVE  IsFiniteSet(S) /\ Cardinality(S) \in Nat
  BY PlacesFinite, FS_Subset, FS_CardinalityType

\* A step that empties places or fills one where there is room keeps within the quota.
LEMMA NextQuota == TypeOK /\ QuotaHolds /\ [Next]_vars => QuotaHolds'
<1> USE DEF file, history
<1> SUFFICES ASSUME TypeOK, QuotaHolds, [Next]_vars, NEW tenant \in Tenants
             PROVE  Cardinality(Stored(tenant)') <= Quota
  BY DEF QuotaHolds
<1>1. /\ Stored(tenant) \subseteq Places /\ Stored(tenant)' \subseteq Places
      /\ Cardinality(Stored(tenant)) <= Quota
  BY DEF Stored, QuotaHolds
<1>2. CASE Stored(tenant)' \subseteq Stored(tenant)
  <2>1. Cardinality(Stored(tenant)') <= Cardinality(Stored(tenant))
    BY <1>1, <1>2, StoredFinite, FS_Subset
  <2> QED BY <1>1, <2>1, StoredFinite, ConstantsAssumption
<1>3. ASSUME NEW c \in Calls, Store(c) PROVE Cardinality(Stored(tenant)') <= Quota
  <2>1. PICK p \in Places : p = At(c)
    BY <1>3, PlaceOfCall DEF Store
  <2>2. \A q \in Places \ {p} : rows'[q] = rows[q]
    BY <1>3, <2>1 DEF Store, TypeOK
  <2>3. CASE p[1] # tenant \/ rows[p] # None
    <3>1. Stored(tenant)' \subseteq Stored(tenant)
      BY <2>2, <2>3 DEF Stored
    <3> QED BY <1>2, <3>1
  <2>4. CASE p[1] = tenant /\ rows[p] = None
    <3>1. Cardinality(Stored(tenant)) < Quota
      BY <1>3, <2>1, <2>4 DEF Store, Room
    <3>2. Stored(tenant)' \subseteq Stored(tenant) \cup {p} /\ p \notin Stored(tenant)
      BY <2>2, <2>4 DEF Stored
    <3>3. Cardinality(Stored(tenant) \cup {p}) = Cardinality(Stored(tenant)) + 1
      BY <1>1, <3>2, StoredFinite, FS_AddElement
    <3>4. Stored(tenant) \cup {p} \in SUBSET Places
      BY <1>1
    <3>5. Cardinality(Stored(tenant)') <= Cardinality(Stored(tenant) \cup {p})
      BY <3>2, <3>4, StoredFinite, FS_Subset
    <3>6. Cardinality(Stored(tenant)) \in Nat /\ Cardinality(Stored(tenant)') \in Nat
      BY <1>1, StoredFinite
    <3> QED BY <3>1, <3>3, <3>5, <3>6, ConstantsAssumption
  <2> QED BY <2>3, <2>4
<1>4. ASSUME NEW c \in Calls, Serving(c), ~Store(c) PROVE Stored(tenant)' \subseteq Stored(tenant)
  <2>1. CASE Removed(c)
    <3>1. At(c) \in Places
      BY <2>1, PlaceOfCall DEF Removed
    <3> QED BY <2>1, <3>1 DEF Removed, Without, Stored, TypeOK
  <2>2. ~Removed(c) => UNCHANGED rows
    BY <1>4 DEF Serving, Encrypt, Remove, WriteFails, Lookup, Approve, AuditDispatch, Send,
                Return, Cancel
  <2> QED BY <2>1, <2>2 DEF Stored
<1>5. ASSUME NEW old \in Keys, NEW new \in Keys, Rekey(old, new)
      PROVE  Stored(tenant)' \subseteq Stored(tenant)
  BY <1>5 DEF Rekey, Stored
<1>6. CASE \/ \E c \in Calls, s \in Servers, p \in Principals, op \in Ops, id \in Ids :
                Begin(c, s, p, op, id)
           \/ \E s \in Servers : Operating(s)
           \/ Tick \/ UNCHANGED vars
  <2>1. UNCHANGED rows
    BY <1>6 DEF Begin, Operating, Start, Crash, Tick, vars
  <2> QED BY <1>2, <2>1 DEF Stored
<1> QED BY <1>2, <1>3, <1>4, <1>5, <1>6 DEF Next

\* A tenant never has more connections than its quota: every transaction counts and
\* fills in one step, however many processes add some.
THEOREM QuotaKept == Spec => []QuotaHolds
<1>1. Init => TypeOK /\ QuotaHolds
  <2>1. Init => QuotaHolds
    BY DEF Init, QuotaHolds
  <2> QED BY <2>1, InitTypeOK
<1>2. TypeOK /\ QuotaHolds /\ [Next]_vars => TypeOK' /\ QuotaHolds'
  BY NextTypeOK, NextQuota
<1> QED BY <1>1, <1>2, PTL DEF Spec

================================================================================
