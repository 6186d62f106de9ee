\* An issuer with two recipients and a consumer; revocation under ENFORCE and WARN.
SPECIFICATION Spec
CONSTANTS
  None = None
  sign = sign  pinned = pinned  certA = certA  certB = certB  alice = alice  bob = bob
  p = p  q = q  r1 = r1  r2 = r2
  Certs = {sign, pinned, certA, certB}
  Reasons = {r1, r2}
  Endpoints = {p, q}
  CrlPoints <- Points
  Responders <- Ocsp
  Covers <- Covering
  Validity = 0
  Skew = 0
  MaxTime = 1
  MaxRevoked = 1
  Recipients = {alice, bob}
  Grants <- TwoGrants
  Models = {m1, m2}
  Labels <- LabelSet
  MaxChain = 16
  Paths <- Issuance
  Algorithm = "Ed25519"
  Authorities <- Roots
  RecipientRoots <- Roots
  Usages <- Explored
  MaxEdits <- Edits
SYMMETRY Symmetry
CHECK_DEADLOCK FALSE
INVARIANTS
  TrustedAsSigned
  AttestedModelIsBound
  TrustIsFresh
