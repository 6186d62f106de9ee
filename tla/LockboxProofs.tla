------------------------------ MODULE LockboxProofs ----------------------------
(***************************************************************************)
(* Proofs about Lockbox for any grants, certificates, endpoints, validity   *)
(* and clock skew: type correctness; what a trusted grant says about the    *)
(* signed lockbox; the binding of an attested model; and how old the        *)
(* revocation answers behind a trusted grant may be.                        *)
(***************************************************************************)
EXTENDS Lockbox, FiniteSetTheorems, SequenceTheorems, TLAPS

--------------------------------------------------------------------------------
(* Records. *)

LEMMA BoxFields == ASSUME NEW b \in Boxes
                   PROVE  /\ b.grants \in SUBSET Grants /\ b.model \in Models \cup {None}
                          /\ b.dropped \in SUBSET Recipients /\ b.auth \in Contents \cup {None}
                          /\ b # None
  BY NoneAssumption DEF Boxes

LEMMA HashType == ASSUME NEW b \in Boxes
                  PROVE  /\ Hash(b) \in Contents /\ Hash(b) # None
                         /\ Hash(b).grants = b.grants /\ Hash(b).model = b.model
<1>1. Hash(b) \in Contents
  BY BoxFields DEF Hash, Contents
<1>2. Hash(b) # None
  BY <1>1, NoneAssumption
<1> QED BY <1>1, <1>2 DEF Hash

LEMMA NoBoxType == NoBox \in Boxes
  BY DEF NoBox, Boxes

LEMMA GrantFields == ASSUME NEW g \in Grants PROVE g.to \in Recipients /\ g.cert \in Certs
  BY LockboxAssumption

LEMMA BoxUpdates ==
  ASSUME NEW b \in Boxes, NEW m \in Models \cup {None}
  PROVE  [b EXCEPT !.model = m] \in Boxes
  BY DEF Boxes

--------------------------------------------------------------------------------
(* Type correctness. *)

LEMMA InitType == ASSUME Init PROVE TypeOK
<1>1. StatusTypeOK
  <2>1. NoCheck \in CheckType
    BY DEF NoCheck, CheckType
  <2>2. served \in [Endpoints -> Answers]
    BY DEF Init, StatusInit, Answers
  <2>3. policy \in Policies
    BY LockboxAssumption DEF Init
  <2> QED BY <2>1, <2>2, <2>3 DEF Init, StatusInit, StatusTypeOK
<1>2. caller \in Callers /\ signer \in Certs
  BY LockboxAssumption DEF Init
<1>3. reader \in ReaderType
  BY NoBoxType DEF Init, ReaderType, Phases
<1>4. file \in FileType
  BY NoBoxType DEF Init, FileType
<1>5. artifact \in [model : Models \cup {None}, att : Attestations \cup {None}]
  BY DEF Init
<1> QED BY <1>1, <1>2, <1>3, <1>4, <1>5 DEF Init, TypeOK

\* An issuer's step leaves the rest alone.
LEMMA EditType ==
  ASSUME TypeOK, UNCHANGED <<statusVars, caller, signer, reader>>,
         desk' \in Boxes \cup {None}, slip' \in Contents \cup {None}, file' \in FileType,
         artifact' \in [model : Models \cup {None}, att : Attestations \cup {None}],
         signed' \in SUBSET Contents, edits' \in Nat
  PROVE  TypeOK'
  BY DEF TypeOK, StatusTypeOK, statusVars

LEMMA EditCounts == ASSUME TypeOK, Edit PROVE edits' \in Nat /\ UNCHANGED <<statusVars, caller, signer, reader>>
  BY DEF TypeOK, Edit

LEMMA ChangeDeskType ==
  ASSUME TypeOK, Edit, NEW b \in Boxes, ChangeDesk(b)
  PROVE  TypeOK'
<1>1. /\ desk' \in Boxes \cup {None} /\ slip' \in Contents \cup {None} /\ file' \in FileType
      /\ artifact' \in [model : Models \cup {None}, att : Attestations \cup {None}]
      /\ signed' \in SUBSET Contents
  BY DEF TypeOK, ChangeDesk
<1> QED BY <1>1, EditCounts, EditType

LEMMA IssuerType == ASSUME TypeOK, IssuerNext PROVE TypeOK'
<1>a. file.box \in Boxes /\ file.state \in {"none", "writing", "torn", "whole"}
  BY DEF TypeOK, FileType
<1>b. artifact.model \in Models \cup {None} /\ artifact.att \in Attestations \cup {None}
  BY DEF TypeOK
<1>c. AtDesk => desk \in Boxes
  BY DEF TypeOK, AtDesk
<1>1. CASE Create
  BY <1>1, NoBoxType, ChangeDeskType DEF Create
<1>2. ASSUME NEW g \in Grants, Seal(g) PROVE TypeOK'
  <2>1. desk \in Boxes
    BY <1>2, <1>c DEF Seal, Unsigned
  <2> DEFINE b == [desk EXCEPT !.grants = @ \cup {g}, !.dropped = @ \ {g.to}]
  <2>2. b \in Boxes
    <3>1. desk.grants \cup {g} \in SUBSET Grants /\ desk.dropped \ {g.to} \in SUBSET Recipients
      BY <2>1, BoxFields
    <3> QED BY <2>1, <3>1 DEF Boxes
  <2>3. Edit /\ ChangeDesk(b)
    BY <1>2 DEF Seal
  <2> HIDE DEF b
  <2> QED BY <2>2, <2>3, ChangeDeskType
<1>3. CASE BindModel
  <2>1. [desk EXCEPT !.model = artifact.model] \in Boxes
    <3>1. desk \in Boxes
      BY <1>3, <1>c DEF BindModel, Unsigned
    <3> QED BY <1>b, <3>1, BoxUpdates
  <2> QED BY <1>3, <2>1, ChangeDeskType DEF BindModel
<1>4. CASE Sign
  <2>1. desk \in Boxes /\ Hash(desk) \in Contents
    BY <1>4, <1>c, HashType DEF Sign
  <2>2. [desk EXCEPT !.auth = Hash(desk)] \in Boxes
    BY <2>1 DEF Boxes
  <2>3. desk' \in Boxes /\ slip' \in Contents \cup {None}
    BY <1>4, <2>1, <2>2 DEF Sign, TypeOK
  <2>4. /\ signed' \in SUBSET Contents /\ file' \in FileType
        /\ artifact' \in [model : Models \cup {None}, att : Attestations \cup {None}]
    BY <1>4, <2>1 DEF Sign, TypeOK
  <2>5. Edit
    BY <1>4 DEF Sign
  <2> QED BY <2>3, <2>4, <2>5, EditCounts, EditType
<1>5. CASE Attach
  <2>1. [desk EXCEPT !.auth = slip] \in Boxes
    BY <1>5, <1>c DEF Attach, TypeOK, Boxes
  <2> QED BY <1>5, <2>1, ChangeDeskType DEF Attach
<1>6. CASE BeginSave
  <2>1. file' \in FileType
    BY <1>6, <1>c DEF BeginSave, FileType
  <2>2. /\ desk' \in Boxes \cup {None} /\ slip' \in Contents \cup {None} /\ signed' \in SUBSET Contents
        /\ artifact' \in [model : Models \cup {None}, att : Attestations \cup {None}]
    BY <1>6 DEF BeginSave, TypeOK
  <2>3. Edit
    BY <1>6 DEF BeginSave
  <2> QED BY <2>1, <2>2, <2>3, EditCounts, EditType
<1>7. CASE EndSave
  <2>1. file' \in FileType
    BY <1>7, <1>a DEF EndSave, FileType, TypeOK
  <2> QED BY <1>7, <2>1, EditType DEF EndSave, TypeOK
<1>8. CASE Crash
  <2>1. file' \in FileType
    BY <1>8, <1>a DEF Crash, FileType, TypeOK
  <2> QED BY <1>8, <2>1, EditType DEF Crash, TypeOK
<1>9. CASE Open
  <2>1. CASE ChangeDesk(file.box)
    BY <1>9, <1>a, <2>1, ChangeDeskType DEF Open
  <2>2. ASSUME NEW grants \in SUBSET file.box.grants, NEW model \in {None, file.box.model},
               ChangeDesk([file.box EXCEPT !.grants = grants, !.model = model, !.auth = None])
        PROVE  TypeOK'
    <3>1. grants \in SUBSET Grants /\ model \in Models \cup {None}
      BY <1>a, BoxFields
    <3>2. [file.box EXCEPT !.grants = grants, !.model = model, !.auth = None] \in Boxes
      BY <1>a, <3>1 DEF Boxes
    <3> QED BY <1>9, <2>2, <3>2, ChangeDeskType DEF Open
  <2> QED BY <1>9, <2>1, <2>2 DEF Open
<1>10. CASE Attest
  <2>1. artifact.model \in Models /\ desk.auth \in Contents
    BY <1>10, <1>b, <1>c, BoxFields DEF Attest, Named
  <2>2. [model |-> artifact.model, box |-> desk.auth] \in Attestations
    BY <2>1 DEF Attestations
  <2>3. artifact' \in [model : Models \cup {None}, att : Attestations \cup {None}]
    BY <1>10, <1>b, <2>2 DEF Attest, TypeOK
  <2>4. /\ desk' \in Boxes \cup {None} /\ slip' \in Contents \cup {None} /\ signed' \in SUBSET Contents
        /\ file' \in FileType
    BY <1>10 DEF Attest, TypeOK
  <2>5. Edit
    BY <1>10 DEF Attest
  <2> QED BY <2>3, <2>4, <2>5, EditCounts, EditType
<1>11. ASSUME NEW revoke \in SUBSET Recipients, NEW add \in SUBSET Grants, Reissue(revoke, add)
       PROVE  TypeOK'
  <2>1. desk \in Boxes
    BY <1>11, <1>c DEF Reissue
  <2>2. /\ {g \in desk.grants : g.to \notin revoke} \cup add \in SUBSET Grants
        /\ desk.model \in Models \cup {None}
        /\ (desk.dropped \cup revoke) \ {g.to : g \in add} \in SUBSET Recipients
    BY <2>1, BoxFields
  <2>3. [grants  |-> {g \in desk.grants : g.to \notin revoke} \cup add,
         model   |-> desk.model,
         dropped |-> (desk.dropped \cup revoke) \ {g.to : g \in add},
         auth    |-> None] \in Boxes
    BY <2>2 DEF Boxes
  <2> QED BY <1>11, <2>3, ChangeDeskType DEF Reissue
<1>12. ASSUME NEW m \in Models, Export(m) PROVE TypeOK'
  <2>1. artifact' \in [model : Models \cup {None}, att : Attestations \cup {None}]
    BY <1>12, <1>b DEF Export
  <2>2. /\ desk' \in Boxes \cup {None} /\ slip' \in Contents \cup {None} /\ signed' \in SUBSET Contents
        /\ file' \in FileType
    BY <1>12 DEF Export, TypeOK
  <2>3. Edit
    BY <1>12 DEF Export
  <2> QED BY <2>1, <2>2, <2>3, EditCounts, EditType
<1> QED BY <1>1, <1>2, <1>3, <1>4, <1>5, <1>6, <1>7, <1>8, <1>9, <1>10, <1>11, <1>12 DEF IssuerNext

LEMMA BegunCheckType ==
  ASSUME StatusTypeOK, NEW c \in Certs, BeginCheck(c) \/ NothingAsked
  PROVE  check' \in CheckType
<1>1. CASE BeginCheck(c)
  BY <1>1 DEF StatusTypeOK, BeginCheck, CheckType
<1>2. CASE NothingAsked
  BY <1>2 DEF NothingAsked, NoCheck, CheckType
<1> QED BY <1>1, <1>2

\* What is asked about the signing certificate, if anything is.
LEMMA SignerAsked ==
  /\ AskAboutSigner => BeginCheck(signer) \/ NothingAsked
  /\ (IF Paths[signer][1] # Anchor(Paths[signer]) THEN BeginCheck(signer) ELSE NothingAsked)
       => BeginCheck(signer) \/ NothingAsked
  BY DEF AskAboutSigner

LEMMA NoCheckType == NoCheck \in CheckType
  BY DEF NoCheck, CheckType

LEMMA VouchedType ==
  ASSUME TypeOK
  PROVE  Vouched \in [Certs -> Nat \cup {None}]
  BY DEF TypeOK, StatusTypeOK, CheckType, ReaderType, Vouched

\* A step of the consumer leaves the rest alone.
LEMMA ReaderStepType ==
  ASSUME TypeOK, ReaderOnly, reader' \in ReaderType, check' \in CheckType
  PROVE  TypeOK'
  BY DEF TypeOK, StatusTypeOK, ReaderOnly, issuer

LEMMA RefuseType == ASSUME TypeOK, ReaderOnly, Refuse PROVE TypeOK'
<1>1. reader' \in ReaderType /\ check' \in CheckType
  BY NoCheckType DEF TypeOK, Refuse, ReaderType, Phases
<1> QED BY <1>1, ReaderStepType

LEMMA ConsumerType == ASSUME TypeOK, ReaderNext PROVE TypeOK'
<1>s. StatusTypeOK /\ reader \in ReaderType /\ signer \in Certs
  BY DEF TypeOK
<1>v. Vouched \in [Certs -> Nat \cup {None}]
  BY VouchedType
<1>1. CASE Load
  <2>1. CASE Refuse
    BY <1>1, <2>1, RefuseType DEF Load
  <2>2. CASE reader' = [reader EXCEPT !.pc = "loading", !.box = file.box] /\ AskAboutSigner
    <3>1. file.box \in Boxes
      BY DEF TypeOK, FileType
    <3>2. reader' \in ReaderType
      BY <2>2, <3>1, <1>s DEF ReaderType, Phases
    <3> QED BY <1>1, <2>2, <3>2, <1>s, SignerAsked, BegunCheckType, ReaderStepType DEF Load
  <2> QED BY <1>1, <2>1, <2>2 DEF Load
<1>2. CASE Loaded
  <2>1. CASE Refuse
    BY <1>2, <2>1, RefuseType DEF Loaded
  <2>2. CASE check' = NoCheck /\ reader' = [reader EXCEPT !.pc = "loaded", !.vouched = Vouched]
    <3>1. reader' \in ReaderType
      BY <2>2, <1>s, <1>v DEF ReaderType, Phases
    <3> QED BY <1>2, <2>2, <3>1, NoCheckType, ReaderStepType DEF Loaded
  <2> QED BY <1>2, <2>1, <2>2 DEF Loaded
<1>3. CASE AuthorityChecked
  <2>1. CASE Refuse
    BY <1>3, <2>1, RefuseType DEF AuthorityChecked
  <2>2. CASE /\ reader.grant \in reader.box.grants /\ reader.grant.cert = reader.cert
             /\ reader' = [reader EXCEPT !.pc = "recipient", !.vouched = Vouched]
             /\ BeginCheck(reader.cert)
    <3>1. reader' \in ReaderType
      BY <2>2, <1>s, <1>v DEF ReaderType, Phases
    <3>2. reader.cert \in Certs
      <4>1. reader.box \in Boxes
        BY <1>s DEF ReaderType
      <4> QED BY <2>2, <4>1, BoxFields, GrantFields
    <3> QED BY <1>3, <2>2, <3>1, <3>2, <1>s, BegunCheckType, ReaderStepType DEF AuthorityChecked
  <2> QED BY <1>3, <2>1, <2>2 DEF AuthorityChecked
<1>4. CASE RecipientChecked
  <2>1. CASE Refuse
    BY <1>4, <2>1, RefuseType DEF RecipientChecked
  <2>2. CASE check' = NoCheck /\ reader' = [reader EXCEPT !.pc = "granted", !.vouched = Vouched]
    <3>1. reader' \in ReaderType
      BY <2>2, <1>s, <1>v DEF ReaderType, Phases
    <3> QED BY <1>4, <2>2, <3>1, NoCheckType, ReaderStepType DEF RecipientChecked
  <2> QED BY <1>4, <2>1, <2>2 DEF RecipientChecked
<1>5. CASE VerifyModel
  <2>1. CASE Refuse
    BY <1>5, <2>1, RefuseType DEF VerifyModel
  <2>2. CASE /\ reader' = [reader EXCEPT !.pc = "attestation", !.model = artifact.model]
             /\ BeginCheck(signer) \/ NothingAsked
    <3>1. artifact.model \in Models \cup {None}
      BY DEF TypeOK
    <3>2. reader' \in ReaderType
      BY <2>2, <3>1, <1>s DEF ReaderType, Phases
    <3> QED BY <1>5, <2>2, <3>2, <1>s, BegunCheckType, ReaderStepType DEF VerifyModel
  <2> QED BY <1>5, <2>1, <2>2, SignerAsked DEF VerifyModel
<1>6. CASE ModelChecked
  <2>1. CASE Refuse
    BY <1>6, <2>1, RefuseType DEF ModelChecked
  <2>2. CASE check' = NoCheck /\ reader' = [reader EXCEPT !.pc = "trusted", !.vouched = Vouched]
    <3>1. reader' \in ReaderType
      BY <2>2, <1>s, <1>v DEF ReaderType, Phases
    <3> QED BY <1>6, <2>2, <3>1, NoCheckType, ReaderStepType DEF ModelChecked
  <2> QED BY <1>6, <2>1, <2>2 DEF ModelChecked
<1>7. ASSUME NEW g \in Grants, NEW c \in Certs, Present(g, c) PROVE TypeOK'
  <2>1. CASE Refuse
    BY <1>7, <2>1, RefuseType DEF Present
  <2>2. CASE /\ reader' = [reader EXCEPT !.pc = "authority", !.grant = g, !.cert = c]
             /\ AskAboutSigner
    <3>1. reader' \in ReaderType
      BY <2>2, <1>s DEF ReaderType, Phases
    <3> QED BY <1>7, <2>2, <3>1, <1>s, SignerAsked, BegunCheckType, ReaderStepType DEF Present
  <2> QED BY <1>7, <2>1, <2>2 DEF Present
<1> QED BY <1>1, <1>2, <1>3, <1>4, <1>5, <1>6, <1>7 DEF ReaderNext

LEMMA StatusStepType ==
  ASSUME TypeOK, StatusNext, UNCHANGED <<caller, signer, issuer, reader>>
  PROVE  TypeOK'
<1>s. StatusTypeOK
  BY DEF TypeOK
<1>1. StatusTypeOK'
  <2>1. ASSUME NEW c \in Certs, NEW reason \in Reasons, Revoke(c, reason) PROVE StatusTypeOK'
    BY <1>s, <2>1 DEF StatusTypeOK, Revoke, Revocations
  <2>2. CASE Tick
    BY <1>s, <2>2 DEF StatusTypeOK, Tick
  <2>3. CASE Exhausted
    BY <1>s, <2>3 DEF StatusTypeOK, Exhausted, CheckType
  <2>4. ASSUME NEW e \in Endpoints, Publish(e) PROVE StatusTypeOK'
    <3> DEFINE answer == [this |-> now, listed |-> {c \in Certs : revoked[c] # None /\ revoked[c].reason \in Covers[e]}]
    <3>1. answer \in Answers
      BY <1>s DEF StatusTypeOK, Answers
    <3>2. served' = [served EXCEPT ![e] = answer] /\ UNCHANGED <<now, revoked, policy, check>>
      BY <2>4 DEF Publish
    <3> HIDE DEF answer
    <3> QED BY <1>s, <3>1, <3>2 DEF StatusTypeOK
  <2>5. ASSUME NEW e \in Endpoints, Answer(e) PROVE StatusTypeOK'
    <3>1. Covers[e] \in SUBSET Reasons
      BY StatusAssumption
    <3> DEFINE covered == (IF check.asked < Len(CrlPoints[check.cert]) THEN check.covered ELSE {}) \cup Covers[e]
               state == IF check.cert \in served[e].listed THEN "bad"
                        ELSE IF Reasons \subseteq covered THEN "good" ELSE "asking"
    <3>2. covered \in SUBSET Reasons /\ check.asked + 1 \in Nat
      BY <1>s, <3>1 DEF StatusTypeOK, CheckType
    <3>3. state \in {"idle", "asking", "good", "bad"}
      OBVIOUS
    <3>4. /\ check' = [check EXCEPT !.asked = check.asked + 1, !.covered = covered, !.state = state]
          /\ UNCHANGED <<now, revoked, served, policy>>
      BY <2>5 DEF Answer
    <3> HIDE DEF covered, state
    <3> QED BY <1>s, <3>2, <3>3, <3>4 DEF StatusTypeOK, CheckType
  <2>6. ASSUME NEW e \in Endpoints, NoAnswer(e) PROVE StatusTypeOK'
    BY <1>s, <2>6 DEF StatusTypeOK, NoAnswer, CheckType
  <2> QED BY <2>1, <2>2, <2>3, <2>4, <2>5, <2>6 DEF StatusNext
<1> QED BY <1>1 DEF TypeOK, issuer

LEMMA NextType == ASSUME TypeOK, [Next]_vars PROVE TypeOK'
<1>1. CASE IssuerNext
  BY <1>1, IssuerType
<1>2. CASE ReaderNext
  BY <1>2, ConsumerType
<1>3. CASE StatusNext /\ UNCHANGED <<caller, signer, issuer, reader>>
  BY <1>3, StatusStepType
<1>4. CASE UNCHANGED vars
  BY <1>4 DEF vars, statusVars, issuer, TypeOK, StatusTypeOK
<1> QED BY <1>1, <1>2, <1>3, <1>4 DEF Next

\* Every variable keeps its type.
THEOREM TypeCorrect == Spec => []TypeOK
<1>1. Init => TypeOK
  BY InitType
<1>2. TypeOK /\ [Next]_vars => TypeOK'
  BY NextType
<1> QED BY <1>1, <1>2, PTL DEF Spec

--------------------------------------------------------------------------------
(* What a trusted grant says about the signed lockbox. *)

Sound(b) ==
  /\ b.auth # None => b.auth \in signed
  /\ \A g \in b.grants : g.to \notin b.dropped

SoundInv ==
  /\ slip # None => slip \in signed
  /\ desk # None => Sound(desk)
  /\ Sound(file.box)
  /\ Sound(reader.box)

ReaderInv ==
  /\ reader.pc \notin {"idle", "refused"} => reader.box.auth # None /\ reader.box.auth = Hash(reader.box)
  /\ (reader.pc = "recipient" \/ Granted) =>
       reader.grant \in reader.box.grants /\ reader.grant.cert = reader.cert

LEMMA SignedGrows == ASSUME TypeOK, [Next]_vars PROVE signed \subseteq signed'
<1>1. CASE IssuerNext
  BY <1>1 DEF IssuerNext, Create, BindModel, Sign, Attach, BeginSave, EndSave, Crash, Open, Attest,
              Seal, Reissue, Export, ChangeDesk
<1>2. CASE ReaderNext
  <2>1. ReaderOnly
    BY <1>2 DEF ReaderNext, Load, Loaded, AuthorityChecked, RecipientChecked, VerifyModel,
                ModelChecked, Present
  <2> QED BY <2>1 DEF ReaderOnly, issuer
<1>3. CASE UNCHANGED issuer
  BY <1>3 DEF issuer
<1> QED BY <1>1, <1>2, <1>3 DEF Next, vars

LEMMA SoundKept == ASSUME NEW b, Sound(b), signed \subseteq signed' PROVE Sound(b)'
  BY DEF Sound

LEMMA SoundNoBox == Sound(NoBox) /\ Sound(NoBox)'
  BY DEF Sound, NoBox

LEMMA SoundInit == ASSUME Init PROVE SoundInv
  BY SoundNoBox DEF Init, SoundInv

\* What a change at the desk has to keep.
LEMMA ChangeSound ==
  ASSUME TypeOK, SoundInv, Edit, NEW b, ChangeDesk(b), Sound(b)
  PROVE  SoundInv'
  BY DEF SoundInv, Sound, Edit, ChangeDesk

LEMMA IssuerSound == ASSUME TypeOK, SoundInv, IssuerNext PROVE SoundInv'
<1>c. AtDesk => desk \in Boxes /\ Sound(desk)
  BY DEF TypeOK, AtDesk, SoundInv
<1>f. file.box \in Boxes /\ Sound(file.box)
  BY DEF TypeOK, FileType, SoundInv
<1>1. CASE Create
  BY <1>1, SoundNoBox, ChangeSound DEF Create
<1>2. ASSUME NEW g \in Grants, Seal(g) PROVE SoundInv'
  <2> DEFINE b == [desk EXCEPT !.grants = @ \cup {g}, !.dropped = @ \ {g.to}]
  <2>1. desk \in Boxes /\ Sound(desk)
    BY <1>2, <1>c DEF Seal, Unsigned
  <2>2. b.auth = desk.auth /\ b.grants = desk.grants \cup {g} /\ b.dropped = desk.dropped \ {g.to}
    BY <2>1 DEF Boxes
  <2>3. Edit /\ ChangeDesk(b)
    BY <1>2 DEF Seal
  <2> HIDE DEF b
  <2>4. Sound(b)
    BY <2>1, <2>2 DEF Sound
  <2> QED BY <2>3, <2>4, ChangeSound
<1>3. CASE BindModel
  <2> DEFINE b == [desk EXCEPT !.model = artifact.model]
  <2>1. desk \in Boxes /\ Sound(desk)
    BY <1>3, <1>c DEF BindModel, Unsigned
  <2>2. b.auth = desk.auth /\ b.grants = desk.grants /\ b.dropped = desk.dropped
    BY <2>1 DEF Boxes
  <2>3. Edit /\ ChangeDesk(b)
    BY <1>3 DEF BindModel
  <2> HIDE DEF b
  <2>4. Sound(b)
    BY <2>1, <2>2 DEF Sound
  <2> QED BY <2>3, <2>4, ChangeSound
<1>4. CASE Sign
  <2>1. desk \in Boxes /\ desk # None /\ Sound(desk)
    BY <1>4, <1>c DEF Sign, AtDesk
  <2>2. signed' = signed \cup {Hash(desk)} /\ UNCHANGED <<file, reader>>
    BY <1>4 DEF Sign, Edit
  <2>3. CASE desk' = [desk EXCEPT !.auth = Hash(desk)] /\ UNCHANGED slip
    <3>1. desk'.auth = Hash(desk) /\ desk'.grants = desk.grants /\ desk'.dropped = desk.dropped
      BY <2>1, <2>3 DEF Boxes
    <3> QED BY <2>1, <2>2, <2>3, <3>1 DEF SoundInv, Sound
  <2>4. CASE slip' = Hash(desk) /\ UNCHANGED desk
    BY <2>1, <2>2, <2>4 DEF SoundInv, Sound
  <2> QED BY <1>4, <2>3, <2>4 DEF Sign
<1>5. CASE Attach
  <2> DEFINE b == [desk EXCEPT !.auth = slip]
  <2>1. desk \in Boxes /\ Sound(desk)
    BY <1>5, <1>c DEF Attach
  <2>2. b.auth = slip /\ b.grants = desk.grants /\ b.dropped = desk.dropped
    BY <2>1 DEF Boxes
  <2>3. Edit /\ ChangeDesk(b)
    BY <1>5 DEF Attach
  <2> HIDE DEF b
  <2>4. Sound(b)
    BY <1>5, <2>1, <2>2 DEF Sound, SoundInv, Attach
  <2> QED BY <2>3, <2>4, ChangeSound
<1>6. CASE BeginSave
  <2>1. /\ file'.box = desk /\ Sound(desk) /\ UNCHANGED <<desk, slip, signed, reader>>
    BY <1>6, <1>c DEF BeginSave, Edit
  <2> QED BY <2>1 DEF SoundInv, Sound
<1>7. CASE EndSave
  <2>1. file'.box = file.box /\ UNCHANGED <<desk, slip, signed, reader>>
    BY <1>7 DEF EndSave, TypeOK, FileType
  <2> QED BY <2>1 DEF SoundInv, Sound
<1>8. CASE Crash
  <2>1. file'.box = file.box /\ desk' = None /\ slip' = None /\ UNCHANGED <<signed, reader>>
    BY <1>8 DEF Crash, TypeOK, FileType
  <2> QED BY <2>1 DEF SoundInv, Sound
<1>9. CASE Open
  <2>1. CASE ChangeDesk(file.box)
    BY <1>9, <1>f, <2>1, ChangeSound DEF Open
  <2>2. ASSUME NEW grants \in SUBSET file.box.grants, NEW model \in {None, file.box.model},
               ChangeDesk([file.box EXCEPT !.grants = grants, !.model = model, !.auth = None])
        PROVE  SoundInv'
    <3> DEFINE b == [file.box EXCEPT !.grants = grants, !.model = model, !.auth = None]
    <3>1. b.auth = None /\ b.grants = grants /\ b.dropped = file.box.dropped
      BY <1>f DEF Boxes
    <3>2. Edit /\ ChangeDesk(b)
      BY <1>9, <2>2 DEF Open
    <3> HIDE DEF b
    <3>3. Sound(b)
      BY <1>f, <3>1 DEF Sound
    <3> QED BY <3>2, <3>3, ChangeSound
  <2> QED BY <1>9, <2>1, <2>2 DEF Open
<1>10. CASE Attest
  <2>1. UNCHANGED <<file, signed, reader>> /\ slip' \in {slip, None} /\ desk' \in {desk, None}
    BY <1>10 DEF Attest, Edit
  <2> QED BY <2>1 DEF SoundInv, Sound
<1>11. ASSUME NEW revoke \in SUBSET Recipients, NEW add \in SUBSET Grants, Reissue(revoke, add)
       PROVE  SoundInv'
  <2> DEFINE b == [grants  |-> {g \in desk.grants : g.to \notin revoke} \cup add,
                   model   |-> desk.model,
                   dropped |-> (desk.dropped \cup revoke) \ {g.to : g \in add},
                   auth    |-> None]
  <2>1. desk \in Boxes /\ Sound(desk)
    BY <1>11, <1>c DEF Reissue
  <2>2. Edit /\ ChangeDesk(b)
    BY <1>11 DEF Reissue
  <2>3. Sound(b)
    BY <2>1 DEF Sound
  <2> HIDE DEF b
  <2> QED BY <2>2, <2>3, ChangeSound
<1>12. ASSUME NEW m \in Models, Export(m) PROVE SoundInv'
  BY <1>12 DEF Export, Edit, SoundInv, Sound
<1> QED BY <1>1, <1>2, <1>3, <1>4, <1>5, <1>6, <1>7, <1>8, <1>9, <1>10, <1>11, <1>12 DEF IssuerNext

\* The fields of the consumer after each kind of step.
LEMMA ReaderUpdates ==
  ASSUME NEW r \in ReaderType, NEW p, NEW x, NEW y
  PROVE  /\ LET n == [r EXCEPT !.pc = p] IN
              n.pc = p /\ n.box = r.box /\ n.grant = r.grant /\ n.cert = r.cert
              /\ n.model = r.model /\ n.vouched = r.vouched
         /\ LET n == [r EXCEPT !.pc = p, !.box = x] IN
              n.pc = p /\ n.box = x /\ n.grant = r.grant /\ n.cert = r.cert
              /\ n.model = r.model /\ n.vouched = r.vouched
         /\ LET n == [r EXCEPT !.pc = p, !.vouched = x] IN
              n.pc = p /\ n.box = r.box /\ n.grant = r.grant /\ n.cert = r.cert
              /\ n.model = r.model /\ n.vouched = x
         /\ LET n == [r EXCEPT !.pc = p, !.grant = x, !.cert = y] IN
              n.pc = p /\ n.box = r.box /\ n.grant = x /\ n.cert = y
              /\ n.model = r.model /\ n.vouched = r.vouched
         /\ LET n == [r EXCEPT !.pc = p, !.model = x] IN
              n.pc = p /\ n.box = r.box /\ n.grant = r.grant /\ n.cert = r.cert
              /\ n.model = x /\ n.vouched = r.vouched
  BY DEF ReaderType

\* A refusal changes the stage only.
LEMMA RefuseFields ==
  ASSUME TypeOK, Refuse
  PROVE  /\ reader'.pc = "refused" /\ reader'.box = reader.box /\ reader'.grant = reader.grant
         /\ reader'.cert = reader.cert /\ reader'.model = reader.model
         /\ reader'.vouched = reader.vouched /\ check' = NoCheck
<1>1. reader \in ReaderType /\ reader' = [reader EXCEPT !.pc = "refused"] /\ check' = NoCheck
  BY DEF TypeOK, Refuse
<1> QED BY <1>1, ReaderUpdates

LEMMA LoadFields ==
  ASSUME TypeOK, Load, ~Refuse
  PROVE  /\ AuthorityHolds(file.box) /\ AskAboutSigner
         /\ reader'.pc = "loading" /\ reader'.box = file.box /\ reader'.grant = reader.grant
         /\ reader'.cert = reader.cert /\ reader'.model = reader.model
         /\ reader'.vouched = reader.vouched
<1>1. /\ reader \in ReaderType /\ reader' = [reader EXCEPT !.pc = "loading", !.box = file.box]
      /\ AuthorityHolds(file.box) /\ AskAboutSigner
  BY DEF TypeOK, Load
<1> QED BY <1>1, ReaderUpdates

\* A stage that ends with a good answer and asks nothing else.
Passes(from, to) ==
  /\ reader.pc = from /\ check.state = "good" /\ check' = NoCheck
  /\ reader'.pc = to /\ reader'.box = reader.box /\ reader'.grant = reader.grant
  /\ reader'.cert = reader.cert /\ reader'.model = reader.model /\ reader'.vouched = Vouched

LEMMA PassFields ==
  ASSUME TypeOK, ~Refuse
  PROVE  /\ Loaded => Passes("loading", "loaded")
         /\ RecipientChecked => Passes("recipient", "granted")
         /\ ModelChecked => Passes("attestation", "trusted")
<1>1. reader \in ReaderType
  BY DEF TypeOK
<1>2. ASSUME Loaded PROVE Passes("loading", "loaded")
  <2>1. /\ reader.pc = "loading" /\ check.state = "good" /\ check' = NoCheck
        /\ reader' = [reader EXCEPT !.pc = "loaded", !.vouched = Vouched]
    BY <1>2 DEF Loaded, Settled
  <2>2. /\ reader'.pc = "loaded" /\ reader'.box = reader.box /\ reader'.grant = reader.grant
        /\ reader'.cert = reader.cert /\ reader'.model = reader.model /\ reader'.vouched = Vouched
    BY <1>1, <2>1, ReaderUpdates
  <2> QED BY <2>1, <2>2 DEF Passes
<1>3. ASSUME RecipientChecked PROVE Passes("recipient", "granted")
  <2>1. /\ reader.pc = "recipient" /\ check.state = "good" /\ check' = NoCheck
        /\ reader' = [reader EXCEPT !.pc = "granted", !.vouched = Vouched]
    BY <1>3 DEF RecipientChecked, Settled
  <2>2. /\ reader'.pc = "granted" /\ reader'.box = reader.box /\ reader'.grant = reader.grant
        /\ reader'.cert = reader.cert /\ reader'.model = reader.model /\ reader'.vouched = Vouched
    BY <1>1, <2>1, ReaderUpdates
  <2> QED BY <2>1, <2>2 DEF Passes
<1>4. ASSUME ModelChecked PROVE Passes("attestation", "trusted")
  <2>1. /\ reader.pc = "attestation" /\ check.state = "good" /\ check' = NoCheck
        /\ reader' = [reader EXCEPT !.pc = "trusted", !.vouched = Vouched]
    BY <1>4 DEF ModelChecked, Settled
  <2>2. /\ reader'.pc = "trusted" /\ reader'.box = reader.box /\ reader'.grant = reader.grant
        /\ reader'.cert = reader.cert /\ reader'.model = reader.model /\ reader'.vouched = Vouched
    BY <1>1, <2>1, ReaderUpdates
  <2> QED BY <2>1, <2>2 DEF Passes
<1> QED BY <1>2, <1>3, <1>4

LEMMA AuthorityFields ==
  ASSUME TypeOK, AuthorityChecked, ~Refuse
  PROVE  /\ reader.pc = "authority" /\ check.state = "good"
         /\ reader.grant \in reader.box.grants /\ reader.grant.cert = reader.cert
         /\ BeginCheck(reader.cert)
         /\ reader'.pc = "recipient" /\ reader'.box = reader.box /\ reader'.grant = reader.grant
         /\ reader'.cert = reader.cert /\ reader'.model = reader.model /\ reader'.vouched = Vouched
<1>1. /\ reader \in ReaderType /\ reader' = [reader EXCEPT !.pc = "recipient", !.vouched = Vouched]
      /\ reader.pc = "authority" /\ check.state = "good" /\ BeginCheck(reader.cert)
      /\ reader.grant \in reader.box.grants /\ reader.grant.cert = reader.cert
  BY DEF TypeOK, AuthorityChecked, Settled
<1> QED BY <1>1, ReaderUpdates

LEMMA PresentFields ==
  ASSUME TypeOK, NEW g, NEW c, Present(g, c), ~Refuse
  PROVE  /\ reader.pc = "loaded" /\ AskAboutSigner
         /\ reader'.pc = "authority" /\ reader'.box = reader.box /\ reader'.grant = g
         /\ reader'.cert = c /\ reader'.model = reader.model /\ reader'.vouched = reader.vouched
<1>1. /\ reader \in ReaderType
      /\ reader' = [reader EXCEPT !.pc = "authority", !.grant = g, !.cert = c]
      /\ reader.pc = "loaded" /\ AskAboutSigner
  BY DEF TypeOK, Present
<1> QED BY <1>1, ReaderUpdates

LEMMA VerifyFields ==
  ASSUME TypeOK, VerifyModel, ~Refuse
  PROVE  /\ reader.pc = "granted" /\ (BeginCheck(signer) \/ NothingAsked)
         /\ artifact.att # None /\ artifact.att.model = artifact.model
         /\ artifact.att.box = reader.box.auth
         /\ reader'.pc = "attestation" /\ reader'.box = reader.box /\ reader'.grant = reader.grant
         /\ reader'.cert = reader.cert /\ reader'.model = artifact.model
         /\ reader'.vouched = reader.vouched
<1>1. /\ reader \in ReaderType
      /\ reader' = [reader EXCEPT !.pc = "attestation", !.model = artifact.model]
      /\ reader.pc = "granted" /\ (BeginCheck(signer) \/ NothingAsked)
      /\ artifact.att # None /\ artifact.att.model = artifact.model
      /\ artifact.att.box = reader.box.auth
  BY SignerAsked DEF TypeOK, VerifyModel
<1> QED BY <1>1, ReaderUpdates

\* The consumer only ever takes its lockbox from the file.
LEMMA ConsumerBox ==
  ASSUME TypeOK, ReaderNext
  PROVE  /\ UNCHANGED <<now, revoked, served, policy, caller, signer, issuer>>
         /\ reader'.box \in {reader.box, file.box}
<1>1. ReaderOnly
  BY DEF ReaderNext, Load, Loaded, AuthorityChecked, RecipientChecked, VerifyModel, ModelChecked, Present
<1>2. reader'.box \in {reader.box, file.box}
  <2>1. CASE Refuse
    BY <2>1, RefuseFields
  <2>2. CASE ~Refuse
    <3>1. CASE Load
      BY <2>2, <3>1, LoadFields
    <3>2. CASE Loaded \/ RecipientChecked \/ ModelChecked
      BY <2>2, <3>2, PassFields DEF Passes
    <3>3. CASE AuthorityChecked
      BY <2>2, <3>3, AuthorityFields
    <3>4. CASE VerifyModel
      BY <2>2, <3>4, VerifyFields
    <3>5. ASSUME NEW g \in Grants, NEW c \in Certs, Present(g, c)
          PROVE  reader'.box \in {reader.box, file.box}
      BY <2>2, <3>5, PresentFields
    <3> QED BY <3>1, <3>2, <3>3, <3>4, <3>5 DEF ReaderNext
  <2> QED BY <2>1, <2>2
<1> QED BY <1>1, <1>2 DEF ReaderOnly

LEMMA NextSound == ASSUME TypeOK, SoundInv, [Next]_vars PROVE SoundInv'
<1>1. CASE IssuerNext
  BY <1>1, IssuerSound
<1>2. CASE ReaderNext
  BY <1>2, ConsumerBox DEF SoundInv, Sound, issuer
<1>3. CASE UNCHANGED <<issuer, reader>>
  BY <1>3 DEF issuer, SoundInv, Sound
<1> QED BY <1>1, <1>2, <1>3 DEF Next, vars

LEMMA NextReader == ASSUME TypeOK, ReaderInv, [Next]_vars PROVE ReaderInv'
<1>1. CASE IssuerNext \/ UNCHANGED <<reader>>
  <2>1. UNCHANGED reader
    BY <1>1 DEF IssuerNext, Create, BindModel, Sign, Attach, BeginSave, EndSave, Crash, Open, Attest,
                Seal, Reissue, Export, Edit
  <2> QED BY <2>1 DEF ReaderInv, Granted, Hash
<1>2. CASE ReaderNext
  <2>1. CASE Refuse
    BY <2>1, RefuseFields DEF ReaderInv, Granted
  <2>2. CASE ~Refuse
    <3>1. CASE Load
      BY <2>2, <3>1, LoadFields DEF ReaderInv, Granted, AuthorityHolds, Hash
    <3>2. CASE Loaded
      BY <2>2, <3>2, PassFields DEF Passes, ReaderInv, Granted, Hash
    <3>3. CASE AuthorityChecked
      BY <2>2, <3>3, AuthorityFields DEF ReaderInv, Granted, Hash
    <3>4. CASE RecipientChecked
      BY <2>2, <3>4, PassFields DEF Passes, ReaderInv, Granted, Hash
    <3>5. CASE VerifyModel
      BY <2>2, <3>5, VerifyFields DEF ReaderInv, Granted, Hash
    <3>6. CASE ModelChecked
      BY <2>2, <3>6, PassFields DEF Passes, ReaderInv, Granted, Hash
    <3>7. ASSUME NEW g \in Grants, NEW c \in Certs, Present(g, c) PROVE ReaderInv'
      BY <2>2, <3>7, PresentFields DEF ReaderInv, Granted, Hash
    <3> QED BY <1>2, <3>1, <3>2, <3>3, <3>4, <3>5, <3>6, <3>7 DEF ReaderNext
  <2> QED BY <2>1, <2>2
<1> QED BY <1>1, <1>2 DEF Next, vars

\* A consumer trusts a grant only if the authority signed the very lockbox it holds,
\* with that grant for its certificate and without what the last reissue dropped.
THEOREM GrantsTrustedAsSigned == Spec => []TrustedAsSigned
<1> DEFINE Inv == TypeOK /\ SoundInv /\ ReaderInv
<1>1. Init => Inv
  <2>1. Init => ReaderInv
    BY DEF Init, ReaderInv, Granted
  <2> QED BY <2>1, InitType, SoundInit
<1>2. Inv /\ [Next]_vars => Inv'
  BY NextType, NextSound, NextReader
<1>3. Inv => TrustedAsSigned
  BY DEF SoundInv, Sound, ReaderInv, TrustedAsSigned, Granted
<1> QED BY <1>1, <1>2, <1>3, PTL DEF Spec

--------------------------------------------------------------------------------
(* The binding of an attested model, for an issuer that attaches at once. *)

Attached(b) == b.auth # None => b.auth = Hash(b)
Bound(att) == att # None => att.model # None /\ att.box.model = att.model

AttestedInv ==
  caller = "prompt" =>
    /\ slip = None
    /\ desk # None => Attached(desk)
    /\ Attached(file.box)
    /\ Bound(artifact.att)
    /\ reader.pc \in {"attestation", "trusted"} =>
         reader.model # None /\ reader.model = reader.box.model

LEMMA AttestedInit == ASSUME Init PROVE AttestedInv
  BY DEF Init, AttestedInv, Attached, NoBox, Bound

LEMMA ChangeAttested ==
  ASSUME TypeOK, AttestedInv, Edit, NEW b, ChangeDesk(b), caller = "prompt" => Attached(b)
  PROVE  AttestedInv'
  BY DEF AttestedInv, Attached, Bound, Hash, Edit, ChangeDesk

\* An unsigned lockbox is attached to nothing.
LEMMA UnsignedAttached == ASSUME NEW b, b.auth = None PROVE Attached(b)
  BY DEF Attached

LEMMA IssuerAttested == ASSUME TypeOK, AttestedInv, IssuerNext PROVE AttestedInv'
<1>c. AtDesk => desk \in Boxes /\ desk # None
  BY DEF TypeOK, AtDesk
<1>f. file.box \in Boxes
  BY DEF TypeOK, FileType
<1>1. CASE Create
  <2>1. Attached(NoBox)
    BY DEF Attached, NoBox
  <2> QED BY <1>1, <2>1, ChangeAttested DEF Create
<1>2. ASSUME NEW g \in Grants, Seal(g) PROVE AttestedInv'
  <2> DEFINE b == [desk EXCEPT !.grants = @ \cup {g}, !.dropped = @ \ {g.to}]
  <2>1. desk \in Boxes /\ desk.auth = None
    BY <1>2, <1>c DEF Seal, Unsigned
  <2>2. b.auth = None
    BY <2>1 DEF Boxes
  <2>3. Edit /\ ChangeDesk(b)
    BY <1>2 DEF Seal
  <2> HIDE DEF b
  <2> QED BY <2>2, <2>3, UnsignedAttached, ChangeAttested
<1>3. CASE BindModel
  <2> DEFINE b == [desk EXCEPT !.model = artifact.model]
  <2>1. desk \in Boxes /\ desk.auth = None
    BY <1>3, <1>c DEF BindModel, Unsigned
  <2>2. b.auth = None
    BY <2>1 DEF Boxes
  <2>3. Edit /\ ChangeDesk(b)
    BY <1>3 DEF BindModel
  <2> HIDE DEF b
  <2> QED BY <2>2, <2>3, UnsignedAttached, ChangeAttested
<1>4. CASE Sign
  <2>1. desk \in Boxes
    BY <1>4, <1>c DEF Sign
  <2>2. UNCHANGED <<file, artifact, reader, caller>>
    BY <1>4 DEF Sign, Edit
  <2>3. CASE caller = "prompt"
    <3>1. desk' = [desk EXCEPT !.auth = Hash(desk)] /\ slip' = slip
      BY <1>4, <2>3 DEF Sign
    <3>2. Attached(desk)'
      <4>1. desk'.auth = Hash(desk) /\ desk'.grants = desk.grants /\ desk'.model = desk.model
        BY <2>1, <3>1 DEF Boxes
      <4> QED BY <4>1 DEF Attached, Hash
    <3> QED BY <2>2, <3>1, <3>2 DEF AttestedInv, Attached, Bound, Hash
  <2>4. CASE caller # "prompt"
    BY <2>2, <2>4 DEF AttestedInv
  <2> QED BY <2>3, <2>4
<1>5. CASE Attach
  <2>1. caller # "prompt"
    BY <1>5 DEF Attach, AttestedInv
  <2>2. Edit /\ ChangeDesk([desk EXCEPT !.auth = slip])
    BY <1>5 DEF Attach
  <2> QED BY <2>1, <2>2, ChangeAttested
<1>6. CASE BeginSave
  <2>1. /\ file'.box = desk /\ desk # None
        /\ UNCHANGED <<desk, slip, artifact, reader, caller>>
    BY <1>6, <1>c DEF BeginSave, Edit
  <2> QED BY <2>1 DEF AttestedInv, Attached, Bound, Hash
<1>7. CASE EndSave
  <2>1. file'.box = file.box /\ UNCHANGED <<desk, slip, artifact, reader, caller>>
    BY <1>7 DEF EndSave, TypeOK, FileType
  <2> QED BY <2>1 DEF AttestedInv, Attached, Bound, Hash
<1>8. CASE Crash
  <2>1. /\ file'.box = file.box /\ desk' = None /\ slip' = None
        /\ UNCHANGED <<artifact, reader, caller>>
    BY <1>8 DEF Crash, TypeOK, FileType
  <2> QED BY <2>1 DEF AttestedInv, Attached, Bound, Hash
<1>9. CASE Open
  <2>1. CASE ChangeDesk(file.box)
    <3>1. Edit /\ (caller = "prompt" => Attached(file.box))
      BY <1>9 DEF Open, AttestedInv
    <3> QED BY <2>1, <3>1, ChangeAttested
  <2>2. ASSUME NEW grants \in SUBSET file.box.grants, NEW model \in {None, file.box.model},
               ChangeDesk([file.box EXCEPT !.grants = grants, !.model = model, !.auth = None])
        PROVE  AttestedInv'
    <3> DEFINE b == [file.box EXCEPT !.grants = grants, !.model = model, !.auth = None]
    <3>1. b.auth = None
      BY <1>f DEF Boxes
    <3>2. Edit /\ ChangeDesk(b)
      BY <1>9, <2>2 DEF Open
    <3> HIDE DEF b
    <3> QED BY <3>1, <3>2, UnsignedAttached, ChangeAttested
  <2> QED BY <1>9, <2>1, <2>2 DEF Open
<1>10. CASE Attest
  <2>1. UNCHANGED <<file, reader, caller>> /\ slip' \in {slip, None} /\ desk' \in {desk, None}
    BY <1>10 DEF Attest, Edit
  <2>2. caller = "prompt" => Bound(artifact'.att)
    <3>1. artifact \in [model : Models \cup {None}, att : Attestations \cup {None}]
      BY DEF TypeOK
    <3>2. CASE artifact' = [artifact EXCEPT !.att = [model |-> artifact.model, box |-> desk.auth]]
      <4>1. artifact'.att.model = artifact.model /\ artifact'.att.box = desk.auth
        BY <3>1, <3>2
      <4>2. caller = "prompt" => desk.auth = Hash(desk)
        BY <1>10 DEF Attest, AtDesk, AttestedInv, Attached
      <4>3. desk.model # None /\ artifact.model = desk.model
        BY <1>10 DEF Attest, Named
      <4> QED BY <4>1, <4>2, <4>3 DEF Hash, Bound
    <3>3. CASE artifact' = [model |-> None, att |-> None]
      BY <3>3 DEF Bound
    <3> QED BY <1>10, <3>2, <3>3 DEF Attest
  <2> QED BY <2>1, <2>2 DEF AttestedInv, Attached, Hash, Bound
<1>11. ASSUME NEW revoke \in SUBSET Recipients, NEW add \in SUBSET Grants, Reissue(revoke, add)
       PROVE  AttestedInv'
  <2> DEFINE b == [grants  |-> {g \in desk.grants : g.to \notin revoke} \cup add,
                   model   |-> desk.model,
                   dropped |-> (desk.dropped \cup revoke) \ {g.to : g \in add},
                   auth    |-> None]
  <2>1. b.auth = None
    OBVIOUS
  <2>2. Edit /\ ChangeDesk(b)
    BY <1>11 DEF Reissue
  <2> HIDE DEF b
  <2> QED BY <2>1, <2>2, UnsignedAttached, ChangeAttested
<1>12. ASSUME NEW m \in Models, Export(m) PROVE AttestedInv'
  <2>1. artifact'.att \in {None, artifact.att} /\ UNCHANGED <<desk, slip, file, reader, caller>>
    BY <1>12 DEF Export, Edit
  <2> QED BY <2>1 DEF AttestedInv, Attached, Hash, Bound
<1> QED BY <1>1, <1>2, <1>3, <1>4, <1>5, <1>6, <1>7, <1>8, <1>9, <1>10, <1>11, <1>12 DEF IssuerNext

LEMMA NextAttested == ASSUME TypeOK, ReaderInv, AttestedInv, [Next]_vars PROVE AttestedInv'
<1>1. CASE IssuerNext
  BY <1>1, IssuerAttested
<1>2. CASE UNCHANGED <<caller, signer, issuer, reader>>
  BY <1>2 DEF issuer, AttestedInv, Attached, Hash, Bound
<1>3. CASE ReaderNext
  <2>1. UNCHANGED <<caller, desk, slip, file, artifact>>
    BY <1>3, ConsumerBox DEF issuer
  <2>2. SUFFICES ASSUME caller = "prompt", reader'.pc \in {"attestation", "trusted"}
                 PROVE  reader'.model # None /\ reader'.model = reader'.box.model
    BY <2>1 DEF AttestedInv, Attached, Hash, Bound
  <2>3. ~Refuse
    BY <2>2, RefuseFields
  <2>4. CASE VerifyModel
    <3>1. /\ artifact.att # None /\ artifact.att.model = artifact.model
          /\ artifact.att.box = reader.box.auth /\ reader.pc = "granted"
          /\ reader'.model = artifact.model /\ reader'.box = reader.box
      BY <2>3, <2>4, VerifyFields
    <3>2. reader.box.auth = Hash(reader.box)
      BY <3>1 DEF ReaderInv
    <3>3. artifact.att.model # None /\ artifact.att.box.model = artifact.att.model
      BY <2>2, <3>1 DEF AttestedInv, Bound
    <3> QED BY <3>1, <3>2, <3>3 DEF Hash
  <2>5. CASE ModelChecked
    <3>1. Passes("attestation", "trusted")
      BY <2>3, <2>5, PassFields
    <3> QED BY <2>2, <3>1 DEF AttestedInv, Passes
  <2>6. CASE Load \/ Loaded \/ AuthorityChecked \/ RecipientChecked
    BY <2>2, <2>3, <2>6, LoadFields, PassFields, AuthorityFields DEF Passes
  <2>7. ASSUME NEW g \in Grants, NEW c \in Certs, Present(g, c) PROVE FALSE
    BY <2>2, <2>3, <2>7, PresentFields
  <2> QED BY <1>3, <2>4, <2>5, <2>6, <2>7 DEF ReaderNext
<1> QED BY <1>1, <1>2, <1>3 DEF Next, vars, statusVars

\* A model that is trusted under a prompt issuer is the one its lockbox names.
THEOREM TrustedModelIsBound == Spec => []AttestedModelIsBound
<1> DEFINE Inv == TypeOK /\ ReaderInv /\ AttestedInv
<1>1. Init => Inv
  <2>1. Init => ReaderInv
    BY DEF Init, ReaderInv, Granted
  <2> QED BY <2>1, InitType, AttestedInit
<1>2. Inv /\ [Next]_vars => Inv'
  BY NextType, NextReader, NextAttested
<1>3. Inv => AttestedModelIsBound
  BY DEF AttestedInv, AttestedModelIsBound
<1> QED BY <1>1, <1>2, <1>3, PTL DEF Spec

--------------------------------------------------------------------------------
(* How old the revocation answers behind a trusted grant may be. *)

ServedInv == /\ \A e \in Endpoints : served[e].this <= now
             /\ ServedBefore

\* What a good check says of its certificate.
Vouches == (check.state = "good" /\ policy = "ENFORCE") =>
             check.start <= now /\ NotStale(check.cert, check.start)

\* The stage of the consumer says whose status is asked.
StageInv ==
  /\ reader.pc \in {"loading", "authority"} => check.cert = IF Questions THEN signer ELSE None
  /\ reader.pc = "attestation" => check.cert \in {signer, None}
  /\ reader.pc = "recipient" => check.cert = reader.cert

VouchedInv ==
  policy = "ENFORCE" =>
    /\ \A c \in Certs : reader.vouched[c] # None =>
         reader.vouched[c] <= now /\ NotStale(c, reader.vouched[c])
    /\ Questions /\ (reader.pc \in {"loaded", "authority", "recipient"} \/ Granted) =>
         reader.vouched[signer] # None
    /\ Granted => reader.cert \in Certs /\ reader.vouched[reader.cert] # None

LEMMA FreshInit == ASSUME Init PROVE ServedInv /\ CoveredFresh /\ GoodCovers /\ StageInv /\ VouchedInv
<1>1. ServedInv
  BY DEF Init, StatusInit, ServedInv, ServedBefore
<1>2. CoveredFresh /\ GoodCovers
  BY DEF Init, StatusInit, CoveredFresh, GoodCovers, NoCheck
<1>3. StageInv /\ VouchedInv
  BY DEF Init, StageInv, VouchedInv, Granted
<1> QED BY <1>1, <1>2, <1>3

\* The clock never steps back and a revocation is never taken back; one that is new
\* is as old as the clock.
RevokedLater ==
  /\ now \in Nat /\ now' \in Nat /\ now <= now'
  /\ \A c \in Certs : revoked'[c] = revoked[c] \/ (revoked[c] = None /\ revoked'[c].at = now)

LEMMA WorldMoves == ASSUME TypeOK, [Next]_vars PROVE RevokedLater
<1>1. CASE UNCHANGED <<now, revoked>>
  BY <1>1 DEF TypeOK, StatusTypeOK, RevokedLater
<1>2. CASE Tick
  BY <1>2 DEF Tick, TypeOK, StatusTypeOK, RevokedLater
<1>3. ASSUME NEW c \in Certs, NEW reason \in Reasons, Revoke(c, reason) PROVE RevokedLater
  BY <1>3 DEF Revoke, TypeOK, StatusTypeOK, RevokedLater
<1>4. CASE IssuerNext
  <2>1. UNCHANGED statusVars
    BY <1>4 DEF IssuerNext, Create, BindModel, Sign, Attach, BeginSave, EndSave, Crash, Open, Attest,
                Seal, Reissue, Export, Edit
  <2> QED BY <1>1, <2>1 DEF statusVars
<1>5. CASE ReaderNext
  BY <1>1, <1>5, ConsumerBox
<1>6. CASE StatusNext
  BY <1>1, <1>2, <1>3, <1>6 DEF StatusNext, Exhausted, Publish, Answer, NoAnswer
<1> QED BY <1>1, <1>4, <1>5, <1>6 DEF Next, vars, statusVars

\* Whatever was not stale stays so.
LEMMA StaysFresh ==
  ASSUME TypeOK, RevokedLater, NEW c \in Certs, NEW t \in Nat, t <= now, NotStale(c, t)
  PROVE  NotStale(c, t)'
<1>1. CASE revoked'[c] = revoked[c]
  BY <1>1 DEF NotStale
<1>2. CASE revoked[c] = None /\ revoked'[c].at = now
  <2>1. Validity \in Nat /\ Skew \in Nat /\ now \in Nat
    BY StatusAssumption DEF RevokedLater
  <2>2. t <= now + Validity + Skew
    BY <2>1
  <2> QED BY <1>2, <2>2 DEF NotStale
<1> QED BY <1>1, <1>2 DEF RevokedLater

LEMMA NextServed == ASSUME TypeOK, ServedInv, [Next]_vars PROVE ServedInv'
<1>w. RevokedLater
  BY WorldMoves
<1>s. /\ served \in [Endpoints -> Answers] /\ revoked \in [Certs -> Revocations \cup {None}]
      /\ now \in Nat
  BY DEF TypeOK, StatusTypeOK
<1>1. CASE UNCHANGED served
  <2>1. \A e \in Endpoints : served[e].this \in Nat /\ served[e].this <= now
    BY <1>s DEF ServedInv, Answers
  <2> QED BY <1>1, <1>w, <2>1 DEF ServedInv, ServedBefore, RevokedLater
<1>2. ASSUME NEW e \in Endpoints, Publish(e) PROVE ServedInv'
  <2> DEFINE listed == {c \in Certs : revoked[c] # None /\ revoked[c].reason \in Covers[e]}
  <2>1. /\ served' = [served EXCEPT ![e] = [this |-> now, listed |-> listed]]
        /\ UNCHANGED <<now, revoked>>
    BY <1>2 DEF Publish
  <2>2. \A f \in Endpoints : served'[f] = IF f = e THEN [this |-> now, listed |-> listed] ELSE served[f]
    BY <1>s, <2>1
  <2>5. \A c \in Certs : (revoked[c] # None /\ revoked[c].reason \in Covers[e]) => c \in listed
    OBVIOUS
  <2> HIDE DEF listed
  <2>6. served'[e].this = now /\ served'[e].listed = listed
    BY <2>2
  <2>7. \A f \in Endpoints : f # e => served'[f] = served[f]
    BY <2>2
  <2>3. \A f \in Endpoints : served'[f].this <= now
    BY <1>s, <2>6, <2>7 DEF ServedInv
  <2>4. ASSUME NEW f \in Endpoints, NEW c \in Certs,
               revoked[c] # None, revoked[c].reason \in Covers[f], c \notin served'[f].listed
        PROVE  served'[f].this <= revoked[c].at
    <3>1. f # e
      BY <2>4, <2>5, <2>6
    <3> QED BY <2>4, <2>7, <3>1 DEF ServedInv, ServedBefore
  <2> QED BY <2>1, <2>3, <2>4 DEF ServedInv, ServedBefore
<1>3. CASE IssuerNext \/ ReaderNext
  <2>1. IssuerNext => UNCHANGED statusVars
    BY DEF IssuerNext, Create, BindModel, Sign, Attach, BeginSave, EndSave, Crash, Open, Attest,
           Seal, Reissue, Export, Edit
  <2> QED BY <1>1, <1>3, <2>1, ConsumerBox DEF statusVars
<1>4. CASE StatusNext
  BY <1>1, <1>2, <1>4 DEF StatusNext, Revoke, Tick, Exhausted, Answer, NoAnswer
<1> QED BY <1>1, <1>3, <1>4 DEF Next, vars, statusVars

\* The fields of a check after it asked once more.
LEMMA CheckUpdates ==
  ASSUME NEW k \in CheckType, NEW a, NEW v, NEW s
  PROVE  /\ LET n == [k EXCEPT !.asked = a] IN
              n.state = k.state /\ n.cert = k.cert /\ n.start = k.start /\ n.covered = k.covered
         /\ LET n == [k EXCEPT !.state = s] IN
              n.state = s /\ n.cert = k.cert /\ n.start = k.start /\ n.covered = k.covered
         /\ LET n == [k EXCEPT !.asked = a, !.covered = v, !.state = s] IN
              n.state = s /\ n.cert = k.cert /\ n.start = k.start /\ n.covered = v
  BY DEF CheckType

LEMMA CheckBegun ==
  ASSUME TypeOK, RevokedLater, UNCHANGED policy,
         check' = NoCheck \/ NothingAsked \/ \E c \in Certs \cup {None} : BeginCheck(c)
  PROVE  CoveredFresh' /\ GoodCovers'
<1>1. CASE check' = NoCheck
  BY <1>1 DEF NoCheck, CoveredFresh, GoodCovers
<1>2. ASSUME NEW c \in Certs \cup {None}, BeginCheck(c) PROVE CoveredFresh' /\ GoodCovers'
  <2>1. /\ check'.start = now /\ check'.covered = {}
        /\ check'.state = IF policy = "SKIP" THEN "good" ELSE "asking"
    BY <1>2 DEF BeginCheck
  <2> QED BY <2>1 DEF CoveredFresh, GoodCovers, RevokedLater
<1>3. CASE NothingAsked
  <2>1. check'.start = 0 /\ check'.covered = {} /\ check'.cert = None
    BY <1>3 DEF NothingAsked, NoCheck
  <2> QED BY <2>1 DEF CoveredFresh, GoodCovers, RevokedLater
<1> QED BY <1>1, <1>2, <1>3

\* A check that stays as it is stays good: revocations are only added.
LEMMA CheckKept ==
  ASSUME TypeOK, CoveredFresh, GoodCovers, RevokedLater, UNCHANGED <<check, policy>>
  PROVE  CoveredFresh' /\ GoodCovers'
<1>1. GoodCovers'
  BY DEF GoodCovers
<1>2. check \in CheckType /\ revoked \in [Certs -> Revocations \cup {None}]
  BY DEF TypeOK, StatusTypeOK
<1>3. SUFFICES ASSUME check.state \in {"asking", "good"}
               PROVE  /\ check.start <= now'
                      /\ \A c \in Certs : (c = check.cert /\ revoked'[c] # None
                                            /\ revoked'[c].reason \in check.covered)
                                           => NotStale(c, check.start)'
  BY <1>1 DEF CoveredFresh, NotStale
<1>4. check.start \in Nat /\ check.start <= now
  BY <1>2, <1>3 DEF CoveredFresh, CheckType
<1>5. ASSUME NEW c \in Certs, c = check.cert, revoked'[c] # None, revoked'[c].reason \in check.covered
      PROVE  NotStale(c, check.start)'
  <2>1. CASE revoked'[c] = revoked[c]
    BY <1>3, <1>4, <1>5, <2>1, StaysFresh DEF CoveredFresh
  <2>2. CASE revoked[c] = None
    BY <1>4, <2>2, StaysFresh DEF NotStale
  <2> QED BY <2>1, <2>2 DEF RevokedLater
<1> QED BY <1>4, <1>5 DEF RevokedLater

LEMMA AnswerFresh ==
  ASSUME TypeOK, ServedInv, CoveredFresh, GoodCovers, NEW e \in Endpoints, Answer(e)
  PROVE  CoveredFresh' /\ GoodCovers'
<1> DEFINE before == IF check.asked < Len(CrlPoints[check.cert]) THEN check.covered ELSE {}
           covered == before \cup Covers[e]
           state == IF check.cert \in served[e].listed THEN "bad"
                    ELSE IF Reasons \subseteq covered THEN "good" ELSE "asking"
<1>1. /\ check \in CheckType /\ revoked \in [Certs -> Revocations \cup {None}]
      /\ served \in [Endpoints -> Answers] /\ now \in Nat
  BY DEF TypeOK, StatusTypeOK
<1>2. /\ check.state = "asking" /\ Fresh(served[e])
      /\ check' = [check EXCEPT !.asked = check.asked + 1, !.covered = covered, !.state = state]
      /\ UNCHANGED <<now, revoked, served, policy>>
  BY DEF Answer, Asks
<1>3. before \subseteq check.covered
  OBVIOUS
<1>4. /\ check'.state = state /\ check'.cert = check.cert /\ check'.start = check.start
      /\ check'.covered = covered
  <2> HIDE DEF covered, state
  <2> QED BY <1>1, <1>2, CheckUpdates
<1>5. check.start \in Nat /\ check.start <= now
  BY <1>1, <1>2 DEF CoveredFresh, CheckType
<1>6. ASSUME NEW c \in Certs, c = check.cert, revoked[c] # None, revoked[c].reason \in covered,
             state # "bad"
      PROVE  NotStale(c, check.start)
  <2>1. CASE revoked[c].reason \in Covers[e]
    <3>1. c \notin served[e].listed
      BY <1>6
    <3>2. served[e].this <= revoked[c].at
      BY <1>6, <2>1, <3>1 DEF ServedInv, ServedBefore
    <3>3. check.start - Skew <= served[e].this + Validity
      BY <1>2 DEF Fresh
    <3>4. revoked[c].at \in Nat /\ served[e].this \in Nat
      BY <1>1, <1>6 DEF Revocations, Answers
    <3>5. Validity \in Nat /\ Skew \in Nat
      BY StatusAssumption
    <3>6. check.start <= revoked[c].at + Validity + Skew
      <4> HIDE DEF before, covered, state
      <4> QED BY <1>5, <3>2, <3>3, <3>4, <3>5
    <3> QED BY <3>6 DEF NotStale
  <2>2. CASE revoked[c].reason \in check.covered
    BY <1>2, <1>6, <2>2 DEF CoveredFresh
  <2> QED BY <1>3, <1>6, <2>1, <2>2
<1>7. state = "good" => Reasons \subseteq covered
  OBVIOUS
<1> HIDE DEF before, covered, state
<1>8. GoodCovers'
  BY <1>4, <1>7 DEF GoodCovers
<1>9. CoveredFresh'
  BY <1>2, <1>4, <1>5, <1>6 DEF CoveredFresh, NotStale
<1> QED BY <1>8, <1>9

LEMMA NextCovered ==
  ASSUME TypeOK, ServedInv, CoveredFresh, GoodCovers, [Next]_vars
  PROVE  CoveredFresh' /\ GoodCovers'
<1>w. RevokedLater
  BY WorldMoves
<1>k. check \in CheckType
  BY DEF TypeOK, StatusTypeOK
<1>1. CASE UNCHANGED <<check, policy>>
  BY <1>1, <1>w, CheckKept
<1>2. CASE IssuerNext
  <2>1. UNCHANGED statusVars
    BY <1>2 DEF IssuerNext, Create, BindModel, Sign, Attach, BeginSave, EndSave, Crash, Open, Attest,
                Seal, Reissue, Export, Edit
  <2> QED BY <1>1, <2>1 DEF statusVars
<1>3. CASE ReaderNext
  <2>1. UNCHANGED policy
    BY <1>3, ConsumerBox
  <2>2. check' = NoCheck \/ NothingAsked \/ \E c \in Certs \cup {None} : BeginCheck(c)
    <3>1. reader \in ReaderType /\ signer \in Certs
      BY DEF TypeOK
    <3>2. reader.cert \in Certs \cup {None}
      BY <3>1 DEF ReaderType
    <3>3. check' = NoCheck \/ NothingAsked \/ BeginCheck(signer) \/ BeginCheck(reader.cert)
      BY <1>3, SignerAsked DEF ReaderNext, Load, Loaded, AuthorityChecked, RecipientChecked, VerifyModel,
                  ModelChecked, Present, Refuse
    <3> QED BY <3>1, <3>2, <3>3
  <2> QED BY <1>w, <2>1, <2>2, CheckBegun
<1>4. ASSUME NEW e \in Endpoints, Answer(e) PROVE CoveredFresh' /\ GoodCovers'
  BY <1>4, AnswerFresh
<1>5. ASSUME NEW e \in Endpoints, NoAnswer(e) PROVE CoveredFresh' /\ GoodCovers'
  <2>1. /\ check.state = "asking" /\ check' = [check EXCEPT !.asked = check.asked + 1]
        /\ UNCHANGED <<now, revoked, policy>>
    BY <1>5 DEF NoAnswer, Asks
  <2>2. /\ check'.state = check.state /\ check'.cert = check.cert /\ check'.start = check.start
        /\ check'.covered = check.covered
    BY <1>k, <2>1, CheckUpdates
  <2> QED BY <2>1, <2>2 DEF CoveredFresh, GoodCovers, NotStale
<1>6. CASE Exhausted
  <2>1. /\ check.state = "asking" /\ UNCHANGED <<now, revoked, policy>>
        /\ check' = [check EXCEPT !.state = IF policy = "WARN" THEN "good" ELSE "bad"]
    BY <1>6 DEF Exhausted
  <2>2. /\ check'.state = (IF policy = "WARN" THEN "good" ELSE "bad") /\ check'.cert = check.cert
        /\ check'.start = check.start /\ check'.covered = check.covered
    BY <1>k, <2>1, CheckUpdates
  <2> QED BY <2>1, <2>2 DEF CoveredFresh, GoodCovers, NotStale
<1>7. CASE StatusNext
  BY <1>1, <1>4, <1>5, <1>6, <1>7 DEF StatusNext, Revoke, Tick, Publish
<1> QED BY <1>1, <1>2, <1>3, <1>7 DEF Next, vars, statusVars

\* What the issuer, the verifier and the lockbox are does not change.
LEMMA SettingStays == ASSUME TypeOK, [Next]_vars PROVE UNCHANGED <<policy, caller, signer>>
<1>1. IssuerNext => UNCHANGED <<policy, caller, signer>>
  BY DEF IssuerNext, Create, BindModel, Sign, Attach, BeginSave, EndSave, Crash, Open, Attest,
         Seal, Reissue, Export, Edit, statusVars
<1>2. StatusNext => UNCHANGED policy
  BY DEF StatusNext, Revoke, Tick, Publish, Answer, NoAnswer, Exhausted
<1> QED BY <1>1, <1>2, ConsumerBox DEF Next, vars, statusVars

LEMMA NextStage == ASSUME TypeOK, StageInv, [Next]_vars PROVE StageInv'
<1>k. check \in CheckType
  BY DEF TypeOK, StatusTypeOK
<1>q. signer' = signer /\ (Questions' <=> Questions)
  BY SettingStays DEF Questions
<1>1. CASE UNCHANGED <<check, reader>>
  BY <1>1, <1>q DEF StageInv
<1>2. CASE IssuerNext
  <2>1. UNCHANGED <<statusVars, reader>>
    BY <1>2 DEF IssuerNext, Create, BindModel, Sign, Attach, BeginSave, EndSave, Crash, Open, Attest,
                Seal, Reissue, Export, Edit
  <2> QED BY <1>1, <2>1 DEF statusVars
<1>3. CASE ReaderNext
  <2>1. CASE Refuse
    BY <2>1, RefuseFields DEF StageInv
  <2>2. CASE ~Refuse
    <3>1. CASE Load
      BY <2>2, <3>1, <1>q, LoadFields DEF StageInv, AskAboutSigner, NothingAsked, NoCheck, BeginCheck
    <3>2. CASE Loaded \/ RecipientChecked \/ ModelChecked
      BY <2>2, <3>2, PassFields DEF Passes, StageInv
    <3>3. CASE AuthorityChecked
      BY <2>2, <3>3, AuthorityFields DEF StageInv, BeginCheck
    <3>4. CASE VerifyModel
      BY <2>2, <3>4, <1>q, VerifyFields DEF StageInv, NothingAsked, NoCheck, BeginCheck
    <3>5. ASSUME NEW g \in Grants, NEW c \in Certs, Present(g, c) PROVE StageInv'
      BY <2>2, <3>5, <1>q, PresentFields
         DEF StageInv, AskAboutSigner, NothingAsked, NoCheck, BeginCheck
    <3> QED BY <1>3, <3>1, <3>2, <3>3, <3>4, <3>5 DEF ReaderNext
  <2> QED BY <2>1, <2>2
<1>4. CASE StatusNext /\ UNCHANGED reader
  <2>1. check'.cert = check.cert
    <3>1. CASE UNCHANGED check
      BY <3>1
    <3>2. ASSUME NEW a, NEW v, NEW s, check' = [check EXCEPT !.asked = a, !.covered = v, !.state = s]
          PROVE  check'.cert = check.cert
      BY <1>k, <3>2, CheckUpdates
    <3>3. ASSUME NEW e \in Endpoints, Answer(e) PROVE check'.cert = check.cert
      BY <3>2, <3>3 DEF Answer
    <3>4. ASSUME NEW e \in Endpoints, NoAnswer(e) PROVE check'.cert = check.cert
      BY <1>k, <3>4, CheckUpdates DEF NoAnswer
    <3>5. CASE Exhausted
      BY <1>k, <3>5, CheckUpdates DEF Exhausted
    <3> QED BY <1>4, <3>1, <3>3, <3>4, <3>5 DEF StatusNext, Revoke, Tick, Publish
  <2> QED BY <1>4, <1>q, <2>1 DEF StageInv
<1> QED BY <1>1, <1>2, <1>3, <1>4 DEF Next, vars, statusVars

\* A good answer under ENFORCE is an answer about every reason.
LEMMA GoodAnswer ==
  ASSUME TypeOK, CoveredFresh, GoodCovers, check.state = "good", policy = "ENFORCE",
         NEW c \in Certs, c = check.cert
  PROVE  check.start \in Nat /\ check.start <= now /\ NotStale(c, check.start)
<1>1. check.start \in Nat /\ check.start <= now /\ Reasons \subseteq check.covered
  BY NoneAssumption DEF TypeOK, StatusTypeOK, CheckType, CoveredFresh, GoodCovers
<1>2. revoked[c] # None => revoked[c].reason \in Reasons
  BY DEF TypeOK, StatusTypeOK, Revocations
<1> QED BY <1>1, <1>2 DEF CoveredFresh, NotStale

\* Recording a good answer about c keeps what is recorded fresh.
LEMMA VouchKeeps ==
  ASSUME TypeOK, CoveredFresh, GoodCovers, VouchedInv, check.state = "good", policy = "ENFORCE",
         NEW c \in Certs, c = check.cert
  PROVE  /\ Vouched[c] # None
         /\ \A d \in Certs : d # c => Vouched[d] = reader.vouched[d]
         /\ \A d \in Certs : Vouched[d] # None => Vouched[d] <= now /\ NotStale(d, Vouched[d])
<1>1. reader.vouched \in [Certs -> Nat \cup {None}]
  BY DEF TypeOK, ReaderType
<1>2. check.start \in Nat /\ check.start <= now /\ NotStale(c, check.start)
  BY GoodAnswer
<1>3. Vouched[c] = check.start /\ \A d \in Certs : d # c => Vouched[d] = reader.vouched[d]
  BY <1>1, NoneAssumption DEF Vouched
<1>4. check.start # None
  BY <1>2, NoneAssumption
<1> QED BY <1>2, <1>3, <1>4 DEF VouchedInv

\* t is not stale for c after the step.
StillFresh(c, t) == revoked'[c] # None => t <= revoked'[c].at + Validity + Skew

\* The three parts of VouchedInv after a step, from the values they then have.
LEMMA VouchedAfter ==
  ASSUME UNCHANGED <<policy, signer>>,
         policy = "ENFORCE" =>
           /\ \A c \in Certs : reader'.vouched[c] # None =>
                reader'.vouched[c] <= now' /\ StillFresh(c, reader'.vouched[c])
           /\ Questions /\ (reader'.pc \in {"loaded", "authority", "recipient"} \/ Granted') =>
                reader'.vouched[signer] # None
           /\ Granted' => reader'.cert \in Certs /\ reader'.vouched[reader'.cert] # None
  PROVE  VouchedInv'
  BY DEF VouchedInv, NotStale, StillFresh, Questions

LEMMA NextVouched ==
  ASSUME TypeOK, ReaderInv, CoveredFresh, GoodCovers, StageInv, VouchedInv, [Next]_vars
  PROVE  VouchedInv'
<1>w. RevokedLater
  BY WorldMoves
<1>r. reader.vouched \in [Certs -> Nat \cup {None}] /\ signer \in Certs
  BY DEF TypeOK, ReaderType
<1>p. UNCHANGED <<policy, signer>>
  BY SettingStays
<1>1. ASSUME policy = "ENFORCE", NEW c \in Certs, reader.vouched[c] # None
      PROVE  reader.vouched[c] <= now' /\ StillFresh(c, reader.vouched[c])
  <2>1. reader.vouched[c] \in Nat /\ reader.vouched[c] <= now /\ NotStale(c, reader.vouched[c])
    BY <1>r, <1>1 DEF VouchedInv
  <2>2. PICK t \in Nat : t = reader.vouched[c]
    BY <2>1
  <2>3. t <= now' /\ t <= now
    BY <1>w, <2>1, <2>2 DEF RevokedLater
  <2>4. NotStale(c, t)'
    BY <1>w, <2>1, <2>2, <2>3, StaysFresh
  <2>5. StillFresh(c, t)
    BY <2>4 DEF NotStale, StillFresh
  <2> QED BY <2>2, <2>3, <2>5
<1>2. CASE UNCHANGED reader
  BY <1>1, <1>2, <1>p, VouchedAfter DEF VouchedInv, Granted
<1>3. CASE IssuerNext
  <2>1. UNCHANGED reader
    BY <1>3 DEF IssuerNext, Create, BindModel, Sign, Attach, BeginSave, EndSave, Crash, Open, Attest,
                Seal, Reissue, Export, Edit
  <2> QED BY <1>2, <2>1
\* A step of the consumer that records nothing.
<1>4. ASSUME reader'.vouched = reader.vouched, reader'.cert = reader.cert \/ ~Granted',
             policy = "ENFORCE" =>
               /\ Questions /\ (reader'.pc \in {"loaded", "authority", "recipient"} \/ Granted') =>
                    reader.vouched[signer] # None
               /\ Granted' => Granted
      PROVE  VouchedInv'
  <2>1. policy = "ENFORCE" => \A c \in Certs : reader'.vouched[c] # None =>
          reader'.vouched[c] <= now' /\ StillFresh(c, reader'.vouched[c])
    BY <1>1, <1>4
  <2>2. policy = "ENFORCE" =>
          (Questions /\ (reader'.pc \in {"loaded", "authority", "recipient"} \/ Granted') =>
             reader'.vouched[signer] # None)
    BY <1>4
  <2>3. policy = "ENFORCE" => (Granted' =>
          reader'.cert \in Certs /\ reader'.vouched[reader'.cert] # None)
    BY <1>4 DEF VouchedInv
  <2> QED BY <1>p, <2>1, <2>2, <2>3, VouchedAfter
\* A step that records a good answer about c.
<1>5. ASSUME NEW c \in Certs, c = check.cert, check.state = "good", reader'.vouched = Vouched,
             reader'.cert = reader.cert, UNCHANGED <<now, revoked>>,
             policy = "ENFORCE" =>
               /\ Questions => c = signer \/ reader.vouched[signer] # None
               /\ Granted' => c = reader.cert \/ Granted
      PROVE  VouchedInv'
  <2>1. policy = "ENFORCE" =>
          /\ Vouched[c] # None
          /\ \A d \in Certs : d # c => Vouched[d] = reader.vouched[d]
          /\ \A d \in Certs : Vouched[d] # None => Vouched[d] <= now /\ NotStale(d, Vouched[d])
    BY <1>5, VouchKeeps
  <2>2. policy = "ENFORCE" => \A d \in Certs : reader'.vouched[d] # None =>
          reader'.vouched[d] <= now' /\ StillFresh(d, reader'.vouched[d])
    BY <1>5, <2>1 DEF NotStale, StillFresh
  <2>3. policy = "ENFORCE" /\ Questions => reader'.vouched[signer] # None
    BY <1>r, <1>5, <2>1
  <2>4. policy = "ENFORCE" => (Granted' =>
          reader'.cert \in Certs /\ reader'.vouched[reader'.cert] # None)
    BY <1>5, <2>1 DEF VouchedInv
  <2> QED BY <1>p, <2>2, <2>3, <2>4, VouchedAfter
<1>6. CASE ReaderNext
  <2>u. UNCHANGED <<now, revoked>>
    BY <1>6, ConsumerBox
  <2>1. CASE Refuse
    BY <1>4, <2>1, RefuseFields DEF Granted
  <2>2. CASE ~Refuse
    <3>1. CASE Load
      BY <1>4, <2>2, <3>1, LoadFields DEF Granted
    <3>2. CASE Loaded
      <4>1. Passes("loading", "loaded")
        BY <2>2, <3>2, PassFields
      <4>2. CASE Questions
        <5>1. check.cert = signer
          BY <4>1, <4>2 DEF Passes, StageInv
        <5> QED BY <1>r, <1>5, <2>u, <4>1, <5>1 DEF Passes, Granted
      <4>3. CASE ~Questions
        <5>1. check.cert = None
          BY <4>1, <4>3 DEF Passes, StageInv
        <5>2. reader'.vouched = reader.vouched
          BY <4>1, <5>1 DEF Passes, Vouched
        <5> QED BY <1>4, <4>1, <4>3, <5>2 DEF Passes, Granted
      <4> QED BY <4>2, <4>3
    <3>3. CASE AuthorityChecked
      <4>1. /\ reader.pc = "authority" /\ check.state = "good" /\ reader'.pc = "recipient"
            /\ reader'.cert = reader.cert /\ reader'.vouched = Vouched
        BY <2>2, <3>3, AuthorityFields
      <4>2. CASE Questions
        <5>1. check.cert = signer
          BY <4>1, <4>2 DEF StageInv
        <5> QED BY <1>r, <1>5, <2>u, <4>1, <5>1 DEF Granted
      <4>3. CASE ~Questions
        <5>1. check.cert = None
          BY <4>1, <4>3 DEF StageInv
        <5>2. reader'.vouched = reader.vouched
          BY <4>1, <5>1 DEF Vouched
        <5> QED BY <1>4, <4>1, <4>3, <5>2 DEF Granted
      <4> QED BY <4>2, <4>3
    <3>4. CASE RecipientChecked
      <4>1. Passes("recipient", "granted")
        BY <2>2, <3>4, PassFields
      <4>2. check.cert = reader.cert /\ reader.cert \in Certs
        <5>1. reader.pc = "recipient" /\ reader.box \in Boxes
          BY <4>1 DEF Passes, TypeOK, ReaderType
        <5>2. reader.grant \in Grants /\ reader.grant.cert = reader.cert
          BY <5>1, BoxFields DEF ReaderInv
        <5> QED BY <5>1, <5>2, GrantFields DEF StageInv
      <4>3. policy = "ENFORCE" /\ Questions => reader.vouched[signer] # None
        BY <4>1 DEF Passes, VouchedInv
      <4> QED BY <1>5, <2>u, <4>1, <4>2, <4>3 DEF Passes
    <3>5. CASE VerifyModel
      <4>1. /\ reader.pc = "granted" /\ reader'.pc = "attestation" /\ reader'.cert = reader.cert
            /\ reader'.vouched = reader.vouched
        BY <2>2, <3>5, VerifyFields
      <4>2. policy = "ENFORCE" /\ Questions => reader.vouched[signer] # None
        BY <4>1 DEF VouchedInv, Granted
      <4> QED BY <1>4, <4>1, <4>2 DEF Granted
    <3>6. CASE ModelChecked
      <4>1. Passes("attestation", "trusted")
        BY <2>2, <3>6, PassFields
      <4>2. check.cert \in {signer, None}
        BY <4>1 DEF Passes, StageInv
      <4>3. Granted
        BY <4>1 DEF Passes, Granted
      <4>4. CASE check.cert = signer
        BY <1>r, <1>5, <2>u, <4>1, <4>3, <4>4 DEF Passes
      <4>5. CASE check.cert = None
        <5>1. reader'.vouched = reader.vouched
          BY <4>1, <4>5 DEF Passes, Vouched
        <5>2. policy = "ENFORCE" /\ Questions => reader.vouched[signer] # None
          BY <4>3 DEF VouchedInv
        <5> QED BY <1>4, <4>1, <4>3, <5>1, <5>2 DEF Passes
      <4> QED BY <4>2, <4>4, <4>5
    <3>7. ASSUME NEW g \in Grants, NEW c \in Certs, Present(g, c) PROVE VouchedInv'
      <4>1. reader.pc = "loaded" /\ reader'.pc = "authority" /\ reader'.vouched = reader.vouched
        BY <2>2, <3>7, PresentFields
      <4>2. policy = "ENFORCE" /\ Questions => reader.vouched[signer] # None
        BY <4>1 DEF VouchedInv
      <4> QED BY <1>4, <4>1, <4>2 DEF Granted
    <3> QED BY <1>6, <3>1, <3>2, <3>3, <3>4, <3>5, <3>6, <3>7 DEF ReaderNext
  <2> QED BY <2>1, <2>2
<1> QED BY <1>2, <1>3, <1>6 DEF Next, vars

\* Under ENFORCE no trusted grant rests on an answer that leaves a revocation of the
\* consumer's certificate, or of a signing certificate that shows a chain, unseen for
\* longer than an answer is valid, whatever the endpoints and their order.  (About a
\* signing certificate without a chain verify_authority asks nothing.)
THEOREM TrustedGrantsAreFresh == Spec => []TrustIsFresh
<1> DEFINE Inv == TypeOK /\ ReaderInv /\ ServedInv /\ CoveredFresh /\ GoodCovers /\ StageInv /\ VouchedInv
<1>1. Init => Inv
  <2>1. Init => ReaderInv
    BY DEF Init, ReaderInv, Granted
  <2> QED BY <2>1, InitType, FreshInit
<1>2. Inv /\ [Next]_vars => Inv'
  BY NextType, NextReader, NextServed, NextCovered, NextStage, NextVouched
<1>3. Inv => TrustIsFresh
  BY DEF TypeOK, VouchedInv, TrustIsFresh, Consulted
<1> QED BY <1>1, <1>2, <1>3, PTL DEF Spec

--------------------------------------------------------------------------------
(* Certificate paths of any length. *)

\* The authorities that count against the limit of the i-th certificate.
Between(path, i) == {j \in 2 .. i - 1 : path[j].subject # path[j].issuer}

LEMMA BetweenIsFinite ==
  ASSUME NEW path, NEW i \in Nat
  PROVE  IsFiniteSet(Between(path, i)) /\ Cardinality(Between(path, i)) \in Nat
<1>1. IsFiniteSet(2 .. i - 1)
  BY FS_Interval
<1>2. Between(path, i) \in SUBSET (2 .. i - 1)
  BY DEF Between
<1> QED BY <1>1, <1>2, FS_Subset, FS_CardinalityType

LEMMA PathAuthorities ==
  ASSUME NEW path \in Seq(Certificates), NEW pinned, NEW signing, NEW time,
         PathHolds(path, pinned, signing, time), NEW i \in 2 .. Len(path)
  PROVE  IsAuthority(path, i)
<1>1. CASE i = Len(path)
  BY <1>1 DEF PathHolds, AnchorHolds
<1>2. CASE i # Len(path)
  <2>1. i - 1 \in 1 .. Len(path) - 1
    BY <1>2
  <2>2. LinkHolds(path, i - 1, time)
    BY <2>1 DEF PathHolds
  <2>3. IsAuthority(path, i - 1 + 1)
    BY <2>2 DEF LinkHolds
  <2>4. i - 1 + 1 = i
    OBVIOUS
  <2> QED BY <2>3, <2>4
<1> QED BY <1>1, <1>2

\* The end of a path, and which of its certificates is which.
LEMMA EndOfPath ==
  ASSUME NEW path \in Seq(Certificates), NEW k \in 1 .. Len(path)
  PROVE  LET end == SubSeq(path, k, Len(path)) IN
         /\ end \in Seq(Certificates) /\ Len(end) = Len(path) - k + 1
         /\ \A i \in 1 .. Len(end) : i + k - 1 \in k .. Len(path) /\ end[i] = path[i + k - 1]
         /\ Anchor(end) = Anchor(path)
<1> DEFINE end == SubSeq(path, k, Len(path))
<1>1. \A i \in k .. Len(path) : path[i] \in Certificates
  OBVIOUS
<1>2. /\ end \in Seq(Certificates) /\ Len(end) = Len(path) - k + 1
      /\ \A i \in 1 .. Len(path) - k + 1 : end[i] = path[k + i - 1]
  BY <1>1, SubSeqProperties
<1> HIDE DEF end
<1>3. ASSUME NEW i \in 1 .. Len(end) PROVE i + k - 1 \in k .. Len(path) /\ end[i] = path[i + k - 1]
  BY <1>2
<1>4. Len(end) \in 1 .. Len(end) /\ Len(end) + k - 1 = Len(path)
  BY <1>2
<1>5. end[Len(end)] = path[Len(path)]
  BY <1>3, <1>4
<1> QED BY <1>2, <1>3, <1>5 DEF Anchor, end

\* Fewer authorities count in the end of a path than in the whole.
LEMMA FewerBetween ==
  ASSUME NEW path \in Seq(Certificates), NEW k \in 1 .. Len(path), NEW end,
         end = SubSeq(path, k, Len(path)), NEW i \in 1 .. Len(end)
  PROVE  Cardinality(Between(end, i)) <= Cardinality(Between(path, i + k - 1))
<1> DEFINE few == Between(end, i)
           many == Between(path, i + k - 1)
           place == [j \in few |-> j + k - 1]
<1>1. /\ Len(end) = Len(path) - k + 1
      /\ \A j \in 1 .. Len(end) : end[j] = path[j + k - 1]
  BY EndOfPath
<1>2. i \in Nat /\ i + k - 1 \in Nat /\ k \in Nat /\ k >= 1 /\ i <= Len(end) /\ Len(end) \in Nat
  BY <1>1
<1>3. ASSUME NEW j \in few PROVE j \in Nat /\ j + k - 1 \in many
  <2>1. j \in 2 .. i - 1 /\ end[j].subject # end[j].issuer
    BY DEF Between
  <2>2. j \in 1 .. Len(end) /\ j + k - 1 \in 2 .. i + k - 1 - 1
    BY <1>2, <2>1
  <2>3. end[j] = path[j + k - 1]
    BY <1>1, <2>2
  <2> QED BY <2>1, <2>2, <2>3 DEF Between
<1>4. IsFiniteSet(many)
  BY <1>2, BetweenIsFinite
<1> HIDE DEF few, many
<1>5. place \in [few -> many]
  BY <1>3
<1>6. ASSUME NEW a \in few, NEW b \in few, place[a] = place[b] PROVE a = b
  <2>1. a \in Nat /\ b \in Nat /\ a + k - 1 = b + k - 1
    BY <1>3, <1>6
  <2> QED BY <1>2, <2>1
<1> HIDE DEF place
<1>7. place \in Injection(few, many)
  BY <1>5, <1>6 DEF Injection, IsInjective
<1>8. Cardinality(few) <= Cardinality(many)
  BY <1>4, <1>7, FS_Injection
<1> QED BY <1>8 DEF few, many

\* Where no authority issued to itself, one with limit n has at most n others between it
\* and the leaf, however long a chain may be: _verify_cert_chain counts them one by one.
THEOREM LimitsBoundPaths ==
  ASSUME NEW path \in Seq(Certificates), NEW pinned, NEW signing, NEW time,
         PathHolds(path, pinned, signing, time),
         NEW i \in 2 .. Len(path), path[i].limit # NoLimit,
         \A j \in 2 .. i - 1 : ~SelfIssued(path[j])
  PROVE  i <= path[i].limit + 2
<1>1. IsAuthority(path, i)
  BY PathAuthorities
<1>2. Cardinality(Between(path, i)) <= path[i].limit
  BY <1>1 DEF IsAuthority, Between
<1>3. Between(path, i) = 2 .. i - 1
  BY DEF Between, SelfIssued
<1>4. Cardinality(2 .. i - 1) = i - 2
  <2>1. Cardinality(2 .. i - 1) = IF 2 > i - 1 THEN 0 ELSE i - 1 - 2 + 1
    BY FS_Interval
  <2> QED BY <2>1
<1>5. path[i] \in Certificates
  OBVIOUS
<1>6. path[i].limit \in Nat
  BY <1>5 DEF Certificates
<1> QED BY <1>2, <1>3, <1>4, <1>6

\* An accepted path is accepted from each of its certificates on, for client
\* authentication: a certificate gains nothing from what was issued below it, neither in
\* signatures nor in constraints, limits or purposes.
THEOREM PathsNest ==
  ASSUME NEW path \in Seq(Certificates), NEW pinned, NEW time,
         PathHolds(path, pinned, FALSE, time), NEW k \in 1 .. Len(path)
  PROVE  PathHolds(SubSeq(path, k, Len(path)), pinned, FALSE, time)
<1> DEFINE end == SubSeq(path, k, Len(path))
<1>1. /\ end \in Seq(Certificates) /\ Len(end) = Len(path) - k + 1
      /\ \A i \in 1 .. Len(end) : i + k - 1 \in k .. Len(path) /\ end[i] = path[i + k - 1]
      /\ Anchor(end) = Anchor(path)
  BY EndOfPath
<1>a. \A i \in 1 .. Len(end) :
        Cardinality(Between(end, i)) <= Cardinality(Between(path, i + k - 1))
  BY FewerBetween
<1> HIDE DEF end
<1>2. Len(path) \in Nat /\ k \in Nat /\ k >= 1 /\ Len(end) \in Nat /\ Len(end) <= Len(path)
  BY <1>1
<1>3. Len(end) <= MaxChain + 1
  BY <1>1, <1>2, LockboxAssumption DEF PathHolds
<1>4. ASSUME NEW i \in DOMAIN end PROVE Supported(end[i])
  <2>1. i \in 1 .. Len(end) /\ end[i] = path[i + k - 1] /\ i + k - 1 \in DOMAIN path
    BY <1>1, <1>2
  <2>2. \A j \in DOMAIN path : Supported(path[j])
    BY DEF PathHolds
  <2> QED BY <2>1, <2>2
<1>5. PathServes(end, FALSE)
  <2>1. PICK purpose \in {"client_auth"} : \A i \in DOMAIN path : purpose \in path[i].purposes
    BY DEF PathHolds, PathServes
  <2>2. \A i \in DOMAIN end : purpose \in end[i].purposes
    BY <1>1, <1>2, <2>1
  <2> QED BY <2>1, <2>2 DEF PathServes
<1>6. ASSUME NEW i \in 2 .. Len(end) PROVE IsAuthority(end, i)
  <2>1. i + k - 1 \in 2 .. Len(path) /\ end[i] = path[i + k - 1]
    BY <1>1, <1>2
  <2>2. PICK at : at = i + k - 1
    OBVIOUS
  <2>3. IsAuthority(path, at)
    BY <2>1, <2>2, PathAuthorities
  <2>4. Cardinality(Between(end, i)) <= Cardinality(Between(path, at))
    BY <1>a, <2>2
  <2>5. path[at].limit # NoLimit => Cardinality(Between(path, at)) <= path[at].limit
    BY <2>3 DEF IsAuthority, Between
  <2>6. Cardinality(Between(end, i)) \in Nat /\ Cardinality(Between(path, at)) \in Nat
    BY <2>1, <2>2, <1>2, BetweenIsFinite
  <2>7. path[at] \in Certificates
    BY <2>1, <2>2
  <2>8. path[at].limit # NoLimit => path[at].limit \in Nat
    BY <2>7 DEF Certificates
  <2>9. end[i].limit # NoLimit => Cardinality(Between(end, i)) <= end[i].limit
    BY <2>1, <2>2, <2>4, <2>5, <2>6, <2>8
  <2> QED BY <2>1, <2>2, <2>3, <2>9 DEF IsAuthority, Between
<1>7. ASSUME NEW i \in 1 .. Len(end) - 1 PROVE LinkHolds(end, i, time)
  <2>1. PICK at : at = i + k - 1
    OBVIOUS
  <2>2. /\ at \in 1 .. Len(path) - 1 /\ at + 1 = i + 1 + k - 1
        /\ i \in 1 .. Len(end) /\ i + 1 \in 2 .. Len(end) /\ i + 1 \in 1 .. Len(end)
    BY <1>1, <1>2, <2>1
  <2>3. end[i] = path[at] /\ end[i + 1] = path[at + 1]
    BY <1>1, <2>1, <2>2
  <2>4. LinkHolds(path, at, time)
    BY <2>2 DEF PathHolds
  <2>5. ASSUME NEW j \in i + 1 .. Len(end) PROVE NamesHold(end[j], end[i])
    <3>1. j \in 1 .. Len(end) /\ j + k - 1 \in at + 1 .. Len(path)
      BY <1>1, <1>2, <2>1, <2>2
    <3>2. NamesHold(path[j + k - 1], path[at])
      BY <2>4, <3>1 DEF LinkHolds
    <3> QED BY <1>1, <2>3, <3>1, <3>2
  <2>6. IsAuthority(end, i + 1)
    BY <1>6, <2>2
  <2> QED BY <2>3, <2>4, <2>5, <2>6 DEF LinkHolds
<1>8. AnchorHolds(end, pinned, time)
  <2>1. IsAuthority(end, Len(end))
    <3>1. CASE Len(end) >= 2
      BY <1>2, <1>6, <3>1
    <3>2. CASE Len(end) = 1
      <4>1. end[1] = path[Len(path)] /\ IsAuthority(path, Len(path))
        <5>1. Len(path) = 1 + k - 1 /\ 1 \in 1 .. Len(end)
          <6>1. Len(end) = Len(path) - k + 1
            BY <1>1
          <6>2. \A n, m \in Nat : 1 = n - m + 1 => n = 1 + m - 1
            OBVIOUS
          <6>3. Len(path) = 1 + k - 1
            BY <1>2, <3>2, <6>1, <6>2
          <6> QED BY <3>2, <6>3
        <5>2. end[1] = path[1 + k - 1]
          BY <1>1, <5>1
        <5>3. IsAuthority(path, Len(path))
          BY DEF PathHolds, AnchorHolds
        <5> QED BY <5>1, <5>2, <5>3
      <4>2. Cardinality(Between(end, 1)) = 0
        <5>1. Between(end, 1) = {}
          BY DEF Between
        <5> QED BY <5>1, FS_EmptySet
      <4>3. end[1] \in Certificates
        BY <1>1, <3>2
      <4>4. end[1].limit # NoLimit => end[1].limit \in Nat
        BY <4>3 DEF Certificates
      <4>5. end[1].limit # NoLimit => Cardinality(Between(end, 1)) <= end[1].limit
        BY <4>2, <4>4
      <4> QED BY <3>2, <4>1, <4>5 DEF IsAuthority, Between
    <3> QED BY <1>1, <1>2, <3>1, <3>2
  <2> QED BY <1>1, <2>1 DEF PathHolds, AnchorHolds
<1>9. PathHolds(end, pinned, FALSE, time)
  BY <1>3, <1>4, <1>5, <1>7, <1>8 DEF PathHolds
<1> QED BY <1>9 DEF end
================================================================================
