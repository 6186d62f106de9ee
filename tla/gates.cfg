\* A careful and careless callers redeem tokens and sub-gates, lose their process
\* and replay; a root, its child and its grandchild are issued, expire and are redeemed.
SPECIFICATION BoundedSpec
CONSTANTS
  t1 = t1  t2 = t2  t3 = t3
  a = a  b = b  k = k  v1 = v1  v2 = v2
  None = None
  Tokens = {t1, t2, t3}
  Scopes = {s}
  Symbols = {a, b}
  Conditions = {k}
  Releases = {v1, v2}
  Contracts <- PresentedContracts
  Offered <- OfferedContracts
  Overrides = {0}
  Careful <- CarefulGates
  MaxTime = 1
  MaxUses = 2
  MaxStarts = 3
CHECK_DEADLOCK FALSE
INVARIANTS
  ConsumedOnce
  RetainedHistoryRestores
  OneUseAcrossLives
  Attenuation
  RedeemedWithinLineage
PROPERTY
  ReplayFinishes
