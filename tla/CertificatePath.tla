---------------------------- MODULE CertificatePath ----------------------------
(***************************************************************************)
(* Certificate paths (_lockbox.py, _verify_cert_chain, and _x509_names.py). *)
(*                                                                         *)
(* A path is the leaf followed by the chain that its holder presents, the   *)
(* last of which is the trust anchor.  A name is the sequence of its labels *)
(* from the root of its name space: the labels of a host from the right,    *)
(* the RDNs of a directory name from the left, the bits of an address; the  *)
(* local part of a mailbox comes last.  Characters, case and encodings of a *)
(* name are left out, and with them the names that the code refuses to      *)
(* compare.  A signature is the key that made it.                           *)
(***************************************************************************)
EXTENDS Integers, Sequences, FiniteSets

CONSTANTS
  Labels,
  MaxChain   \* _MAX_CERTIFICATE_CHAIN_LENGTH

NoLimit == -1
Unsupported == {"registered_id", "other_name"}
NameKinds == {"dns", "mailbox", "uri", "ip", "directory"} \cup Unsupported
Names == [kind : NameKinds, path : Seq(Labels)]
\* A subtree: ".example.com" is dotted, "user@example.com" an address.
Subtrees == [kind : NameKinds, form : {"plain", "dotted", "address"}, path : Seq(Labels)]

Keys == [id : Labels, kind : {"ed25519", "ed448", "ec", "rsa", "x25519"}, bits : Nat]
Hashes == {"approved", "other", "none"}
KeyUsages == {"digital_signature", "key_agreement", "key_cert_sign", "other"}
Purposes == {"client_auth", "code_signing", "other"}
Extensions == {"basic_constraints", "extended_key_usage", "key_usage", "name_constraints",
               "subject_alternative_name", "x25519_binding", "inhibit_any_policy",
               "policy_constraints", "policy_mappings", "other"}

\* usage and purposes are everything where the certificate has no such extension, or
\* names anyExtendedKeyUsage; hash is the weaker of digest and mask generation.
Certificates ==
  [subject : Seq(Labels), issuer : Seq(Labels), emails : SUBSET Seq(Labels),
   alternatives : SUBSET Names, from : Nat, until : Nat, key : Keys, signer : Labels,
   hash : Hashes, ca : BOOLEAN, limit : Nat \cup {NoLimit}, usage : SUBSET KeyUsages,
   purposes : SUBSET Purposes, permitted : SUBSET Subtrees, excluded : SUBSET Subtrees,
   extensions : SUBSET Extensions, critical : SUBSET Extensions]

--------------------------------------------------------------------------------
(* Signatures. *)

\* A key and a hash that _verify_signature takes for a certificate.
Strong(key, hash) ==
  \/ key.kind \in {"ed25519", "ed448"} /\ hash # "other"
  \/ key.kind = "ec" /\ key.bits >= 256 /\ hash = "approved"
  \/ key.kind = "rsa" /\ key.bits >= 2048 /\ hash = "approved"

SignedBy(cert, key) == cert.signer = key.id /\ Strong(key, cert.hash)

\* A lockbox names the algorithm of its signature, which must be the key's own.
AlgorithmFits(algorithm, key) ==
  \/ algorithm = "Ed25519" /\ key.kind = "ed25519"
  \/ algorithm = "Ed448" /\ key.kind = "ed448"
  \/ algorithm = "ECDSA-SHA256" /\ key.kind = "ec" /\ key.bits >= 256
  \/ algorithm = "RSA-PSS-SHA256" /\ key.kind = "rsa" /\ key.bits >= 2048

--------------------------------------------------------------------------------
(* Name constraints. *)

Below(path, root) == Len(path) > Len(root) /\ SubSeq(path, 1, Len(root)) = root
Host(name) ==
  IF name.kind = "mailbox" THEN SubSeq(name.path, 1, Len(name.path) - 1) ELSE name.path

\* Mailboxes and URIs of a plain rule are at exactly that host; an empty DNS rule
\* has no name within it.
Within(name, rule) ==
  /\ name.kind = rule.kind
  /\ \/ rule.form = "address" /\ name.path = rule.path
     \/ rule.form = "dotted" /\ Below(Host(name), rule.path)
     \/ rule.form = "plain" /\ Host(name) = rule.path
     \/ /\ rule.form = "plain" /\ Below(Host(name), rule.path)
        /\ name.kind \in {"directory", "ip"} \/ (name.kind = "dns" /\ rule.path # <<>>)

NamesOf(cert) ==
  {[kind |-> "directory", path |-> cert.subject]} \cup cert.alternatives
    \cup {[kind |-> "mailbox", path |-> email] : email \in cert.emails}

\* A rule of an unsupported kind refuses the names of that kind, even if it permits.
NamesHold(ca, cert) ==
  \A name \in NamesOf(cert) :
    LET rules(all) == {rule \in all : rule.kind = name.kind} IN
    /\ name.kind \in Unsupported => rules(ca.excluded \cup ca.permitted) = {}
    /\ \A rule \in ca.excluded : ~Within(name, rule)
    /\ rules(ca.permitted) # {} => \E rule \in ca.permitted : Within(name, rule)

--------------------------------------------------------------------------------
(* Paths. *)

Understood == {"basic_constraints", "extended_key_usage", "key_usage", "name_constraints",
               "subject_alternative_name", "x25519_binding"}
PolicyExtensions == {"inhibit_any_policy", "policy_constraints", "policy_mappings"}
Supported(cert) == cert.extensions \cap PolicyExtensions = {} /\ cert.critical \subseteq Understood

\* The authorities between the leaf and the i-th certificate that another one issued
\* are no more than it allows.
IsAuthority(path, i) ==
  LET ca == path[i]
      between == {j \in 2 .. i - 1 : path[j].subject # path[j].issuer}
  IN
  /\ ca.ca /\ "key_cert_sign" \in ca.usage
  /\ ca.limit # NoLimit => Cardinality(between) <= ca.limit

\* One accepted purpose is common to the whole path.
PathServes(path, signing) ==
  /\ signing => "digital_signature" \in path[1].usage
  /\ \E purpose \in IF signing THEN {"client_auth", "code_signing"} ELSE {"client_auth"} :
       \A i \in DOMAIN path : purpose \in path[i].purposes

CurrentAt(cert, time) == cert.from <= time /\ time <= cert.until
SelfIssued(cert) == cert.issuer = cert.subject
Anchor(path) == path[Len(path)]

\* Every authority above a certificate constrains its names.
LinkHolds(path, i, time) ==
  /\ path[i].issuer = path[i + 1].subject /\ SignedBy(path[i], path[i + 1].key)
  /\ IsAuthority(path, i + 1)
  /\ \A j \in i + 1 .. Len(path) : NamesHold(path[j], path[i])
  /\ CurrentAt(path[i], time)

\* The path ends in a self-signed certificate, or in one that the verifier pinned.
AnchorHolds(path, pinned, time) ==
  /\ SelfIssued(Anchor(path)) \/ Anchor(path) \in pinned
  /\ SelfIssued(Anchor(path)) => SignedBy(Anchor(path), Anchor(path).key)
  /\ IsAuthority(path, Len(path)) /\ CurrentAt(Anchor(path), time)

PathHolds(path, pinned, signing, time) ==
  /\ Len(path) <= MaxChain + 1
  /\ \A i \in DOMAIN path : Supported(path[i])
  /\ PathServes(path, signing)
  /\ \A i \in 1 .. Len(path) - 1 : LinkHolds(path, i, time)
  /\ AnchorHolds(path, pinned, time)

--------------------------------------------------------------------------------
(* The three certificates that a lockbox asks about. *)

\* The key that a grant is wrapped under is the certificate's, or bound to it.
CanWrap(cert) == cert.key.kind = "x25519" \/ "x25519_binding" \in cert.extensions

\* A lockbox without recipient authorities takes any certificate that is no authority.
RecipientHolds(path, trusted, time) ==
  /\ CurrentAt(path[1], time) /\ ~path[1].ca
  /\ path[1].key.kind = "x25519" => "key_agreement" \in path[1].usage
  /\ trusted # {} =>
       Len(path) > 1 /\ PathHolds(path, trusted, FALSE, time) /\ Anchor(path) \in trusted

SignerHolds(path, algorithm, trusted, time) ==
  /\ AlgorithmFits(algorithm, path[1].key)
  /\ PathHolds(path, trusted, TRUE, time) /\ Anchor(path) \in trusted

\* An attestation embeds its authority's certificate, which must be self-signed.
AttesterHolds(path, trusted, time) ==
  LET embedded == <<path[1], Anchor(path)>> IN
  /\ path[1].key.kind = "ed25519"
  /\ PathHolds(embedded, {}, TRUE, time) /\ Anchor(path) \in trusted
================================================================================
