\* Requests of two principals in two broker lives, around a key rotation, a
\* configuration change and the quota.
SPECIFICATION Spec
CONSTANTS
  admin = admin  agent = agent  t = t
  None = None
  Servers = {b1, b2}
  Calls = {c1, c2}
  Principals = {admin, agent}
  Admins = {admin}
  Tenants = {t}
  TenantOf <- OneTenant
  Ids = {i1, i2}
  Keys = {k1, k2}
  Policies = {f1, f2}
  Lifetimes = {1}
  Quota = 1
  MaxTime = 1
  MaxRekeys = 1
  MaxStores = 1
SYMMETRY Symmetry
CHECK_DEADLOCK FALSE
INVARIANTS
  RowsReadable
  RevocationStopsLookups
  DispatchWithinGrant
