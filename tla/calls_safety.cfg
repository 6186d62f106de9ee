\* Two grants, two processes on one ledger file, cancellations, crashes, database
\* faults and a ledger rollback; the limits bite in different places.
SPECIFICATION Spec
CONSTANTS
  Grants = {g1, g2}
  Execs = {e1, e2}
  Owners = {o1, o2}
  Tenants = {t1}
  None = None
  MaxTime = 2
  MaxTtl = 1
  MaxCustody = 1
  MaxRows = 2
  MaxTenantPending = 1
  MaxRestores = 1
  DatabaseFaults = TRUE
SYMMETRY Symmetry
CHECK_DEADLOCK FALSE
INVARIANTS
  OneDispatch
  CustodyAccounted
  ReceiptTruthful
  LimitsHold
PROPERTIES
  DispatchFollowsConsumption
