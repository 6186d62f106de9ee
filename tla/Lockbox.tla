--------------------------------- MODULE Lockbox -------------------------------
(***************************************************************************)
(* The lockbox of _lockbox.py, from the issuer's desk to a consumer.        *)
(*                                                                         *)
(* The issuer seals grants into a lockbox, binds the model, has it signed,  *)
(* saves it as one YAML file, and attests the model file with the hash of   *)
(* the signed lockbox; a reissue drops and adds grants and starts unsigned. *)
(* A consumer loads the file, checks the provenance of a grant, then the    *)
(* attestation of the model.  Each of these checks ends with revocation     *)
(* checks, so the world moves in the middle of it (CertificateStatus).      *)
(*                                                                         *)
(* sign_lockbox returns the authority, and its caller sets                  *)
(* lockbox.authority: a caller that is "late" does other things first.      *)
(* The hash of a lockbox is its signed content.  Hierarchy, release         *)
(* identity and recipient trust policy are fixed.  A certificate is shown   *)
(* by its name in Certs, and Paths has the path that its holder presents;   *)
(* the revocation of a path is asked about its leaf (every authority of a   *)
(* path is asked about in the same way).                                    *)
(***************************************************************************)
EXTENDS CertificateStatus, CertificatePath

CONSTANTS
  Grants,         \* recipient and certificate of the grants that may be sealed
  Recipients,
  Models,         \* contents of the ONNX file, without metadata
  Paths,          \* the path of each certificate, from itself to its anchor
  Algorithm,      \* the algorithm that the signed lockbox names
  Authorities,    \* trusted_authority_cas: the anchors that a consumer pins
  RecipientRoots, \* trusted_recipient_cas: the anchors that the lockbox pins
  Usages,         \* combinations of policy, caller and signing certificate explored
  MaxEdits        \* bound on the issuer's steps, for each of them

Callers == {"prompt", "late"}

ASSUME LockboxAssumption ==
  /\ Grants \subseteq [to : Recipients, cert : Certs]
  /\ Paths \in [Certs -> Seq(Certificates) \ {<<>>}] /\ MaxChain \in Nat
  /\ Authorities \cup RecipientRoots \subseteq Certificates /\ RecipientRoots # {}
  /\ Usages \subseteq Policies \X Callers \X Certs
  /\ MaxEdits \in [Usages -> Nat]

Contents == [grants : SUBSET Grants, model : Models \cup {None}]
\* dropped is HISTORY: recipients that a reissue dropped and none sealed again.
Boxes == [grants : SUBSET Grants, model : Models \cup {None}, dropped : SUBSET Recipients,
          auth : Contents \cup {None}]
Attestations == [model : Models, box : Contents]

ASSUME NoneAssumption ==
  None \notin Nat \cup Certs \cup Grants \cup Models \cup Contents \cup Boxes \cup Attestations

VARIABLES
  caller,    \* when the issuer's program attaches the authority
  signer,    \* the certificate that signs lockboxes and attestations
  desk,      \* the lockbox in the issuer's program
  slip,      \* an authority that sign_lockbox returned and nobody attached yet
  file,      \* the YAML file: torn when its writer did not end
  artifact,  \* the ONNX file and the attestation in its metadata
  reader,    \* the consumer
  signed,    \* HISTORY: the contents that were signed
  edits      \* bounded count of the issuer's steps

issuer == <<desk, slip, file, artifact, signed, edits>>
vars == <<statusVars, caller, signer, issuer, reader>>

FileType == [state : {"none", "writing", "torn", "whole"}, box : Boxes]
Phases == {"idle", "loading", "loaded", "authority", "recipient", "granted", "attestation",
           "trusted", "refused"}
ReaderType == [pc : Phases, box : Boxes, grant : Grants \cup {None}, cert : Certs \cup {None},
               model : Models \cup {None},
               vouched : [Certs -> Nat \cup {None}]]  \* HISTORY: start of the last good check

NoBox == [grants |-> {}, model |-> None, dropped |-> {}, auth |-> None]
Hash(box) == [grants |-> box.grants, model |-> box.model]

\* What the paths say at this time.
SignerTrusted == SignerHolds(Paths[signer], Algorithm, Authorities, now)
RecipientTrusted(c) == RecipientHolds(Paths[c], RecipientRoots, now)

Init ==
  /\ StatusInit
  /\ \E u \in Usages : policy = u[1] /\ caller = u[2] /\ signer = u[3]
  /\ desk = None /\ slip = None
  /\ file = [state |-> "none", box |-> NoBox]
  /\ artifact \in [model : Models, att : {None}]
  /\ reader = [pc |-> "idle", box |-> NoBox, grant |-> None, cert |-> None, model |-> None,
               vouched |-> [c \in Certs |-> None]]
  /\ signed = {} /\ edits = 0

--------------------------------------------------------------------------------
(* The issuer. *)

Edit ==
  /\ edits < MaxEdits[<<policy, caller, signer>>] /\ edits' = edits + 1
  /\ UNCHANGED <<statusVars, caller, signer, reader>>
AtDesk == desk # None /\ file.state # "writing"
Unsigned == AtDesk /\ desk.auth = None
ChangeDesk(box) == desk' = box /\ UNCHANGED <<slip, file, artifact, signed>>

Create == Edit /\ desk = None /\ ChangeDesk(NoBox)

\* A grant is sealed to a certificate whose path holds, and under the key that is
\* the certificate's or bound to it, until the lockbox is signed.
CanSeal(g) == CanWrap(Paths[g.cert][1]) /\ RecipientTrusted(g.cert)
Seal(g) ==
  /\ Edit /\ Unsigned /\ CanSeal(g)
  /\ ChangeDesk([desk EXCEPT !.grants = @ \cup {g}, !.dropped = @ \ {g.to}])

BindModel ==
  /\ Edit /\ Unsigned /\ artifact.model # None
  /\ ChangeDesk([desk EXCEPT !.model = artifact.model])

\* sign_lockbox: nothing says that a lockbox is signed once.
Sign ==
  /\ Edit /\ AtDesk
  /\ signed' = signed \cup {Hash(desk)}
  /\ IF caller = "prompt"
       THEN desk' = [desk EXCEPT !.auth = Hash(desk)] /\ UNCHANGED slip
       ELSE slip' = Hash(desk) /\ UNCHANGED desk
  /\ UNCHANGED <<file, artifact>>

\* lockbox.authority = ..., whatever happened to the lockbox since.
Attach == Edit /\ AtDesk /\ slip # None /\ ChangeDesk([desk EXCEPT !.auth = slip])

\* A reissue drops recipients, carries the other grants over and seals new ones.
Reissue(revoke, add) ==
  /\ Edit /\ AtDesk
  /\ \A g \in add : CanSeal(g)
  /\ ChangeDesk([grants  |-> {g \in desk.grants : g.to \notin revoke} \cup add,
                 model   |-> desk.model,
                 dropped |-> (desk.dropped \cup revoke) \ {g.to : g \in add},
                 auth    |-> None])

\* open(path, "w") empties the file that the dump then fills.
BeginSave ==
  /\ Edit /\ AtDesk
  /\ file' = [state |-> "writing", box |-> desk]
  /\ UNCHANGED <<desk, slip, artifact, signed>>
EndSave ==
  /\ file.state = "writing"
  /\ file' = [file EXCEPT !.state = "whole"]
  /\ UNCHANGED <<statusVars, caller, signer, reader, desk, slip, artifact, signed, edits>>

\* The program ends; a save that was under way is cut short.
Crash ==
  /\ desk # None
  /\ desk' = None /\ slip' = None
  /\ file' = [file EXCEPT !.state = IF @ = "writing" THEN "torn" ELSE @]
  /\ UNCHANGED <<statusVars, caller, signer, reader, artifact, signed, edits>>

\* load_lockbox by the issuer: a signed lockbox is verified, an unsigned one parsed
\* (require_authority=False).  A torn file may parse: authority comes last in it,
\* then the trust policy, the model hash and the grants.
Open ==
  /\ Edit /\ desk = None
  /\ \/ /\ file.state = "whole" /\ file.box.auth \in {None, Hash(file.box)}
        /\ ChangeDesk(file.box)
     \/ /\ file.state = "torn"
        /\ \E grants \in SUBSET file.box.grants, model \in {None, file.box.model} :
             /\ grants # file.box.grants => model = None
             /\ ChangeDesk([file.box EXCEPT !.grants = grants, !.model = model, !.auth = None])

\* Fault: a lockbox that names no model is taken to admit any.
NamedFault == desk.model # None => artifact.model = desk.model
Named == desk.model # None /\ artifact.model = desk.model

\* attest_model compares the model with the one the lockbox names, and takes the
\* hash of its authority as it is.  onnx.save is cut short by a crash.
Attest ==
  /\ Edit /\ AtDesk /\ desk.auth # None /\ Named
  /\ \/ /\ artifact' = [artifact EXCEPT !.att = [model |-> artifact.model, box |-> desk.auth]]
        /\ UNCHANGED <<desk, slip>>
     \/ artifact' = [model |-> None, att |-> None] /\ desk' = None /\ slip' = None
  /\ UNCHANGED <<file, signed>>

\* EXTERNAL: the model is exported again, with or without its old metadata.
Export(m) ==
  /\ Edit /\ m # artifact.model
  /\ \E att \in {None, artifact.att} : artifact' = [model |-> m, att |-> att]
  /\ UNCHANGED <<desk, slip, file, signed>>

IssuerNext ==
  \/ Create \/ BindModel \/ Sign \/ Attach \/ BeginSave \/ EndSave \/ Crash \/ Open \/ Attest
  \/ \E g \in Grants : Seal(g)
  \/ \E revoke \in SUBSET Recipients, add \in SUBSET Grants :
       Cardinality(add) <= 1 /\ revoke \cup add # {} /\ Reissue(revoke, add)
  \/ \E m \in Models : Export(m)

--------------------------------------------------------------------------------
(* The consumer. *)

ReaderOnly == UNCHANGED <<now, revoked, served, policy, caller, signer, issuer>>

\* The consumer refuses and stops, or goes on with a question about a certificate.
Refuse == reader' = [reader EXCEPT !.pc = "refused"] /\ check' = NoCheck
Settled(pc) == reader.pc = pc /\ check.state \in {"good", "bad"}
Vouched ==
  IF check.cert = None THEN reader.vouched ELSE [reader.vouched EXCEPT ![check.cert] = check.start]

\* verify_authority asks about an authority that shows a chain; a certificate that
\* stands alone is asked about by nobody, under no policy.
Questions == Len(Paths[signer]) > 1
AskAboutSigner == IF Questions THEN BeginCheck(signer) ELSE NothingAsked

\* Fault: the signature is verified over the hash that the authority states.
AuthorityHoldsFault(box) == box.auth # None /\ SignerTrusted

\* verify_authority: the hash is computed again from what the lockbox holds now.
AuthorityHolds(box) == box.auth # None /\ box.auth = Hash(box) /\ SignerTrusted

\* load_lockbox; a torn file is no document, or one without an authority.
Load ==
  LET acceptable == file.state = "whole" /\ AuthorityHolds(file.box) IN
  /\ reader.pc = "idle" /\ file.state # "none"
  /\ \/ /\ acceptable
        /\ reader' = [reader EXCEPT !.pc = "loading", !.box = file.box]
        /\ AskAboutSigner
     \/ ~acceptable /\ Refuse
  /\ ReaderOnly

Loaded ==
  /\ Settled("loading")
  /\ \/ /\ check.state = "good" /\ check' = NoCheck
        /\ reader' = [reader EXCEPT !.pc = "loaded", !.vouched = Vouched]
     \/ check.state = "bad" /\ Refuse
  /\ ReaderOnly

\* verify_grant_provenance of a grant and of the consumer's own certificate begins
\* with the authority, although load_lockbox has just verified it.
Present(g, c) ==
  /\ reader.pc = "loaded"
  /\ \/ /\ AuthorityHolds(reader.box)
        /\ reader' = [reader EXCEPT !.pc = "authority", !.grant = g, !.cert = c]
        /\ AskAboutSigner
     \/ ~AuthorityHolds(reader.box) /\ Refuse
  /\ ReaderOnly

\* Then the grant's membership, and the recipient's certificate.  (A fingerprint
\* that does not match is refused only after the revocation check.)
AuthorityChecked ==
  LET acceptable == check.state = "good" /\ reader.grant \in reader.box.grants
                      /\ RecipientTrusted(reader.cert) /\ reader.grant.cert = reader.cert
  IN
  /\ Settled("authority")
  /\ \/ /\ acceptable
        /\ reader' = [reader EXCEPT !.pc = "recipient", !.vouched = Vouched]
        /\ BeginCheck(reader.cert)
     \/ ~acceptable /\ Refuse
  /\ ReaderOnly

RecipientChecked ==
  /\ Settled("recipient")
  /\ \/ /\ check.state = "good" /\ check' = NoCheck
        /\ reader' = [reader EXCEPT !.pc = "granted", !.vouched = Vouched]
     \/ check.state = "bad" /\ Refuse
  /\ ReaderOnly

\* verify_model_attestation with the hash in the lockbox's authority: the file is
\* read once, and its attestation names its own content and that lockbox.  Nothing is
\* asked about an attester that is its own root.
VerifyModel ==
  LET att == artifact.att
      acceptable == att # None /\ att.model = artifact.model /\ att.box = reader.box.auth
                      /\ AttesterHolds(Paths[signer], Authorities, now)
  IN
  /\ reader.pc = "granted"
  /\ \/ /\ acceptable
        /\ reader' = [reader EXCEPT !.pc = "attestation", !.model = artifact.model]
        /\ IF Paths[signer][1] # Anchor(Paths[signer]) THEN BeginCheck(signer) ELSE NothingAsked
     \/ ~acceptable /\ Refuse
  /\ ReaderOnly

ModelChecked ==
  /\ Settled("attestation")
  /\ \/ /\ check.state = "good" /\ check' = NoCheck
        /\ reader' = [reader EXCEPT !.pc = "trusted", !.vouched = Vouched]
     \/ check.state = "bad" /\ Refuse
  /\ ReaderOnly

ReaderNext ==
  \/ Load \/ Loaded \/ AuthorityChecked \/ RecipientChecked \/ VerifyModel \/ ModelChecked
  \/ \E g \in Grants, c \in Certs : Present(g, c)

--------------------------------------------------------------------------------
Next ==
  \/ IssuerNext
  \/ ReaderNext
  \/ StatusNext /\ UNCHANGED <<caller, signer, issuer, reader>>

Spec == Init /\ [][Next]_vars

--------------------------------------------------------------------------------
(* Properties. *)

TypeOK ==
  /\ StatusTypeOK
  /\ caller \in Callers /\ signer \in Certs
  /\ desk \in Boxes \cup {None}
  /\ slip \in Contents \cup {None}
  /\ file \in FileType
  /\ artifact \in [model : Models \cup {None}, att : Attestations \cup {None}]
  /\ reader \in ReaderType
  /\ signed \in SUBSET Contents
  /\ edits \in Nat

Granted == reader.pc \in {"granted", "attestation", "trusted"}

\* A consumer trusts a grant only if the authority signed exactly the lockbox it
\* holds, with that grant in it, sealed to the certificate the consumer presents;
\* whatever was sealed, reissued, attached late or cut short on the way, and never
\* the grant of a recipient that the reissue the lockbox comes from has dropped.
TrustedAsSigned ==
  Granted =>
    /\ Hash(reader.box) \in signed
    /\ reader.grant \in reader.box.grants
    /\ reader.grant.cert = reader.cert
    /\ reader.grant.to \notin reader.box.dropped

\* With an issuer that attaches the authority at once, a trusted model is the one
\* that the signed lockbox names ("Model artifact must be bound to the lockbox
\* before it is signed").
AttestedModelIsBound ==
  (caller = "prompt" /\ reader.pc = "trusted") =>
    reader.model # None /\ reader.model = reader.box.model

\* Under ENFORCE a consumer trusts a grant only with answers about its own certificate,
\* and about a signing certificate that shows a chain, that leave no revocation older
\* than one answer's validity (and the clock skew) unseen when the check began.
Consulted == {reader.cert} \cup (IF Questions THEN {signer} ELSE {})
TrustIsFresh ==
  (policy = "ENFORCE" /\ Granted) =>
    \A c \in Consulted : reader.vouched[c] # None /\ NotStale(c, reader.vouched[c])
================================================================================
