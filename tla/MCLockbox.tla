------------------------------- MODULE MCLockbox -------------------------------
(* Finite instances of Lockbox for TLC. *)
EXTENDS Lockbox, TLC

CONSTANTS sign, pinned, alice, bob, certA, certB, p, q, r1, r2

TwoGrants == {[to |-> alice, cert |-> certA], [to |-> bob, cert |-> certB]}

\* One endpoint covers one reason, the other all: the signing certificate names the
\* second as its CRL, alice's the first as CRL and the second as responder, others none.
Points == [c \in Certs |-> CASE c = sign -> <<q>> [] c = certA -> <<p>> [] OTHER -> <<>>]
Ocsp == [c \in Certs |-> IF c = certA THEN <<q>> ELSE <<>>]
Covering == [e \in Endpoints |-> IF e = p THEN {r1} ELSE Reasons]

\* A root issues to the signing certificate and to alice, and to a department that
\* issues to bob: a key that signs, to which a wrapping key is bound.  The
\* department's certificate ends first.
LabelSet == {"org", "dept", "www", "root", "sign", "alice", "bob"}
Plain == {"basic_constraints", "key_usage", "extended_key_usage", "subject_alternative_name"}
Key(id) == [id |-> id, kind |-> "ed25519", bits |-> 256]
Issued(subject, parent, id, by) ==
  [subject |-> subject, issuer |-> parent, emails |-> {}, alternatives |-> {}, from |-> 0,
   until |-> MaxTime, key |-> Key(id), signer |-> by, hash |-> "none", ca |-> FALSE,
   limit |-> NoLimit, usage |-> {"digital_signature"}, purposes |-> {"client_auth"},
   permitted |-> {}, excluded |-> {}, extensions |-> Plain, critical |-> {"key_usage"}]
Authority(subject, parent, id, by) ==
  [Issued(subject, parent, id, by) EXCEPT
     !.ca = TRUE, !.usage = {"key_cert_sign"}, !.purposes = Purposes]

Subtree(kind, form, path) == [kind |-> kind, form |-> form, path |-> path]
Root ==
  [Authority(<<"org">>, <<"org">>, "root", "root") EXCEPT
     !.usage = {"key_cert_sign", "digital_signature"}]
Department ==
  [Authority(<<"org", "dept">>, <<"org">>, "dept", "root") EXCEPT
     !.until = 0, !.limit = 0,
     !.permitted = {Subtree("directory", "plain", <<"org", "dept">>),
                    Subtree("mailbox", "plain", <<"org">>)},
     !.excluded = {Subtree("dns", "dotted", <<"org", "www">>)}]
SignerLeaf ==
  [Issued(<<"org", "sign">>, <<"org">>, "sign", "root") EXCEPT !.purposes = {"code_signing"}]
Alice ==
  [Issued(<<"org", "alice">>, <<"org">>, "alice", "root") EXCEPT
     !.key.kind = "x25519", !.usage = {"key_agreement"}]
Bob ==
  [Issued(<<"org", "dept", "bob">>, <<"org", "dept">>, "bob", "dept") EXCEPT
     !.extensions = @ \cup {"x25519_binding"}, !.critical = {"x25519_binding"},
     !.emails = {<<"org", "bob">>},
     !.alternatives = {[kind |-> "dns", path |-> <<"org", "www">>]}]
Issuance == [c \in Certs |-> CASE c = sign -> <<SignerLeaf, Root>>
                              [] c = pinned -> <<Root>>
                              [] c = certA -> <<Alice, Root>>
                              [] OTHER -> <<Bob, Department, Root>>]
Roots == {Root}

\* The paths are as they are meant, and each rule of a path refuses one that breaks
\* it in the leaf, in the department or at the anchor.
BrokenLeaves ==
  {[Bob EXCEPT !.issuer = <<"org">>], [Bob EXCEPT !.signer = "root"], [Bob EXCEPT !.ca = TRUE],
   [Bob EXCEPT !.hash = "other"], [Bob EXCEPT !.from = 1],
   [Bob EXCEPT !.extensions = @ \cup {"policy_mappings"}], [Bob EXCEPT !.critical = {"other"}],
   [Bob EXCEPT !.purposes = {"code_signing"}], [Bob EXCEPT !.subject = <<"org", "bob">>],
   [Bob EXCEPT !.emails = {<<"org", "dept", "bob">>}],
   [Bob EXCEPT !.alternatives = {[kind |-> "dns", path |-> <<"org", "www", "bob">>]}],
   [Bob EXCEPT !.key.kind = "x25519"]}
BrokenDepartments ==
  {[Department EXCEPT !.ca = FALSE], [Department EXCEPT !.usage = {"digital_signature"}],
   [Department EXCEPT !.key.kind = "rsa"], [Department EXCEPT !.purposes = {"code_signing"}],
   [Department EXCEPT !.permitted = {Subtree("mailbox", "dotted", <<"org">>)}],
   [Department EXCEPT !.permitted = {Subtree("mailbox", "address", <<"org", "root">>)}],
   [Department EXCEPT !.excluded = {Subtree("dns", "plain", <<"org">>)}]}
BrokenRoots ==
  {[Root EXCEPT !.limit = 0], [Root EXCEPT !.signer = "dept"], [Root EXCEPT !.from = 1],
   [Root EXCEPT !.excluded = {Subtree("directory", "plain", <<"org">>)}]}

ASSUME PathsAreJudged ==
  LET holds(path) == RecipientHolds(path, {path[Len(path)]}, 0) IN
  /\ SignerHolds(Issuance[sign], "Ed25519", Roots, 0)
  /\ AttesterHolds(Issuance[sign], Roots, 0)
  /\ SignerHolds(<<Root>>, "Ed25519", Roots, 0) /\ AttesterHolds(<<Root>>, Roots, 0)
  /\ ~SignerHolds(<<Root>>, "Ed25519", {}, 0)
  /\ ~SignerHolds(Issuance[sign], "Ed448", Roots, 0)
  /\ ~SignerHolds(Issuance[certA], "Ed25519", Roots, 0)
  /\ \A c \in {certA, certB} : RecipientHolds(Issuance[c], Roots, 0) /\ CanWrap(Issuance[c][1])
  /\ ~RecipientHolds(Issuance[certB], Roots, 1) /\ ~CanWrap(SignerLeaf)
  /\ RecipientHolds(<<Bob>>, {}, 1) /\ ~holds(<<Root>>)
  /\ \A leaf \in BrokenLeaves : ~holds(<<leaf, Department, Root>>)
  /\ \A dept \in BrokenDepartments : ~holds(<<Bob, dept, Root>>)
  /\ \A root \in BrokenRoots : ~holds(<<Bob, Department, root>>)

\* Long issuer histories where no endpoint is asked, one lockbox where they are, signed
\* under a chain or by the root itself.
Explored == {<<"SKIP", "prompt", sign>>, <<"SKIP", "late", sign>>, <<"ENFORCE", "prompt", sign>>,
             <<"WARN", "prompt", pinned>>, <<"ENFORCE", "prompt", pinned>>}
Edits == [u \in Usages |-> IF u[1] = "SKIP" THEN 7 ELSE 4]

\* The contents of the model file are alike, and all properties are invariants.
Symmetry == Permutations(Models)
================================================================================
