\* No database faults: consumed calls settle, credentials disappear, and the calls
\* refine the one-use authority.
SPECIFICATION FairSpec
CONSTANTS
  Grants = {g1, g2}
  Execs = {e1, e2}
  Owners = {o1}
  Tenants = {t1}
  None = None
  MaxTime = 2
  MaxTtl = 1
  MaxCustody = 2
  MaxRows = 2
  MaxTenantPending = 1
  MaxRestores = 0
  DatabaseFaults = FALSE

CHECK_DEADLOCK FALSE
PROPERTIES
  ConsumedCallSettles
  CredentialDestroyed
  ImplementsOneUse
