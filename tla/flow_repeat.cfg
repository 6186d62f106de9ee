\* A request is checked before the lock, so its repeat may outlive its replay entry.
SPECIFICATION Spec
CONSTANTS
  Requests = {r1, r2}
  Execs = {x1}
  Proofs <- PairProofs
  r1 = r1
  r2 = r2
  None = None
  Skew = 1
  Window = 1
  TokenLife = 1
  MaxLife = 4
  LockWait = 2
  Capacity = 5
  MaxRequests = 2
  MaxTime = 5
CHECK_DEADLOCK FALSE
INVARIANTS
  RequestAcceptedOnce
