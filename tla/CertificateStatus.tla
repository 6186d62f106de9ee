--------------------------- MODULE CertificateStatus ---------------------------
(***************************************************************************)
(* Revocation checking (_lockbox.py, check_certificate_revocation).  A      *)
(* certificate names CRL distribution points, each of which may cover only *)
(* some revocation reasons, and OCSP responders.  The check reads the clock *)
(* once, then asks one endpoint after another through the operator's        *)
(* fetcher.  Between two answers time passes, the authority revokes, and    *)
(* the endpoints publish; an answer is acceptable until its nextUpdate.     *)
(*                                                                         *)
(* Signatures, extensions and scopes of an answer are one outcome: an       *)
(* answer that fails any of them is no answer (NoAnswer).  One thread       *)
(* verifies, so one check is under way at a time.                           *)
(***************************************************************************)
EXTENDS Integers, Sequences, FiniteSets

CONSTANTS
  Certs,          \* certificates whose status may be asked
  Reasons,        \* ReasonFlags without removeFromCRL
  Endpoints,      \* the URLs in certificates
  CrlPoints,      \* the CRL distribution points of a certificate, in its order
  Responders,     \* its OCSP responders, in its order
  Covers,         \* the reasons that the answer of an endpoint covers
  Validity,       \* nextUpdate - thisUpdate of every answer
  Skew,           \* _REVOCATION_CLOCK_SKEW_SECONDS
  None,
  MaxTime, MaxRevoked     \* bounds on the clock and on the certificates revoked

Policies == {"ENFORCE", "WARN", "SKIP"}
Revocations == [reason : Reasons, at : Nat]
Answers == [this : Nat, listed : SUBSET Certs]

ASSUME StatusAssumption ==
  /\ CrlPoints \in [Certs -> Seq(Endpoints)]
  /\ Responders \in [Certs -> Seq(Endpoints)]
  /\ Covers \in [Endpoints -> SUBSET Reasons]
  /\ Validity \in Nat /\ Skew \in Nat /\ MaxTime \in Nat /\ MaxRevoked \in Nat
  /\ None \notin Revocations
\* An OCSP response is for every reason.
ASSUME ResponderAssumption ==
  \A c \in Certs : \A i \in DOMAIN Responders[c] : Covers[Responders[c][i]] = Reasons

VARIABLES
  now,
  revoked,  \* why and since when the authority has revoked a certificate
  served,   \* what each endpoint hands out: thisUpdate and the serials it lists
  policy,   \* the mode of the verifier's RevocationPolicy
  check     \* the check that is under way, or the last one

statusVars == <<now, revoked, served, policy, check>>

CheckType == [state : {"idle", "asking", "good", "bad"}, cert : Certs \cup {None},
              start : Nat, asked : Nat, covered : SUBSET Reasons]
NoCheck == [state |-> "idle", cert |-> None, start |-> 0, asked |-> 0, covered |-> {}]

StatusTypeOK ==
  /\ now \in Nat
  /\ revoked \in [Certs -> Revocations \cup {None}]
  /\ served \in [Endpoints -> Answers]
  /\ policy \in Policies
  /\ check \in CheckType

StatusInit ==
  /\ now = 0
  /\ revoked = [c \in Certs |-> None]
  /\ served = [e \in Endpoints |-> [this |-> 0, listed |-> {}]]
  /\ check = NoCheck

--------------------------------------------------------------------------------
(* The authority, its endpoints and the clock; a SKIP policy asks none of them. *)

\* EXTERNAL: the issuing authority revokes a certificate, once and for one reason.
Revoke(c, reason) ==
  /\ policy # "SKIP" /\ revoked[c] = None
  /\ Cardinality({d \in Certs : revoked[d] # None}) < MaxRevoked
  /\ revoked' = [revoked EXCEPT ![c] = [reason |-> reason, at |-> now]]
  /\ UNCHANGED <<now, served, policy, check>>

\* EXTERNAL: an endpoint publishes what is revoked for a reason it covers.
Publish(e) ==
  LET listed == {c \in Certs : revoked[c] # None /\ revoked[c].reason \in Covers[e]} IN
  /\ policy # "SKIP"
  /\ served' = [served EXCEPT ![e] = [this |-> now, listed |-> listed]]
  /\ UNCHANGED <<now, revoked, policy, check>>

Tick ==
  /\ now < MaxTime
  /\ now' = now + 1
  /\ UNCHANGED <<revoked, served, policy, check>>

--------------------------------------------------------------------------------
(* The check. *)

\* SKIP returns at once; otherwise the clock is read, before any endpoint is asked.
BeginCheck(c) ==
  check' = [state |-> IF policy = "SKIP" THEN "good" ELSE "asking", cert |-> c, start |-> now,
            asked |-> 0, covered |-> {}]
\* The verifier that has no question goes on as if it were answered.
NothingAsked == check' = [NoCheck EXCEPT !.state = "good"]

Asks(e) ==
  LET crls == CrlPoints[check.cert]  ocsps == Responders[check.cert]  i == check.asked + 1 IN
  /\ check.state = "asking"
  /\ \/ i \in DOMAIN crls /\ e = crls[i]
     \/ i - Len(crls) \in DOMAIN ocsps /\ e = ocsps[i - Len(crls)]

\* thisUpdate is not in the future and nextUpdate not in the past, for the clock
\* that the check read when it began.
Fresh(answer) ==
  /\ answer.this <= check.start + Skew
  /\ answer.this + Validity >= check.start - Skew

\* Fault: any CRL that does not list the certificate makes the check good.
AnswerFault(e) ==
  /\ Asks(e) /\ Fresh(served[e])
  /\ check' = [check EXCEPT !.asked = @ + 1, !.covered = @ \cup Covers[e],
                            !.state = IF check.cert \in served[e].listed THEN "bad" ELSE "good"]
  /\ UNCHANGED <<now, revoked, served, policy>>

\* One endpoint answers.  A listed certificate ends the check at once; a CRL adds
\* what it covers, and the check is good when every reason is covered, which one
\* OCSP response does.  Once the CRLs have failed to, what they cover is forgotten.
Answer(e) ==
  LET before == IF check.asked < Len(CrlPoints[check.cert]) THEN check.covered ELSE {}
      covered == before \cup Covers[e]
  IN
  /\ Asks(e) /\ Fresh(served[e])
  /\ check' = [check EXCEPT !.asked = @ + 1, !.covered = covered,
                            !.state = IF check.cert \in served[e].listed THEN "bad"
                                      ELSE IF Reasons \subseteq covered THEN "good"
                                      ELSE "asking"]
  /\ UNCHANGED <<now, revoked, served, policy>>

\* The URL is not allowed, the fetcher fails or times out, the answer is not valid,
\* not fresh, or UNKNOWN: the next endpoint is asked.
NoAnswer(e) ==
  /\ Asks(e)
  /\ check' = [check EXCEPT !.asked = @ + 1]
  /\ UNCHANGED <<now, revoked, served, policy>>

\* Nobody is left to ask.  ENFORCE fails; WARN returns the failures as warnings.
Exhausted ==
  /\ check.state = "asking" /\ \A e \in Endpoints : ~Asks(e)
  /\ check' = [check EXCEPT !.state = IF policy = "WARN" THEN "good" ELSE "bad"]
  /\ UNCHANGED <<now, revoked, served, policy>>

StatusNext ==
  \/ \E c \in Certs, reason \in Reasons : Revoke(c, reason)
  \/ Tick \/ Exhausted
  \/ \E e \in Endpoints : Publish(e) \/ Answer(e) \/ NoAnswer(e)

--------------------------------------------------------------------------------
(* How old an accepted status may be. *)

\* The status of c that a check begun at start accepted is no older than an answer
\* may be.
NotStale(c, start) == revoked[c] # None => start <= revoked[c].at + Validity + Skew

\* An endpoint that does not list a revoked certificate published before it was.
ServedBefore ==
  \A e \in Endpoints, c \in Certs :
    (revoked[c] # None /\ revoked[c].reason \in Covers[e] /\ c \notin served[e].listed)
      => served[e].this <= revoked[c].at

\* What a check has covered so far was not revoked too long ago.
CoveredFresh ==
  check.state \in {"asking", "good"} =>
    /\ check.start <= now
    /\ \A c \in Certs : (c = check.cert /\ revoked[c] # None /\ revoked[c].reason \in check.covered)
                          => NotStale(c, check.start)

\* A good check of a certificate under ENFORCE covers every reason.
GoodCovers ==
  (check.state = "good" /\ policy = "ENFORCE" /\ check.cert # None) => Reasons \subseteq check.covered
================================================================================
