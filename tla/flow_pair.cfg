\* Two requests of one client share the replay table; executions race a revocation,
\* process loss and the clock.
SPECIFICATION Spec
CONSTANTS
  Requests = {r1, r2}
  Execs = {x1, x2}
  Proofs <- PairProofs
  r1 = r1
  r2 = r2
  None = None
  Skew = 1
  Window = 1
  TokenLife = 1
  MaxLife = 4
  LockWait = 2
  Capacity = 6
  MaxRequests = 2
  MaxTime = 3
CHECK_DEADLOCK FALSE
INVARIANTS
  ProofAcceptedOnce
  InboxAgrees
  OneEffect
  RevokedNeverActs
  ResultTruthful
PROPERTIES
  ConsumedInTime
  ImplementsOneUse
