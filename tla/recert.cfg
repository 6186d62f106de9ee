\* A crash, a HEAD that moves, and executions that overlap or not.
SPECIFICATION Spec
CONSTANTS
  Roots = {r1, r2}
  Executors = {e1, e2}
  Jobs = {"ai-pki-cpu-canary", "public-gate-adaptation-factorial"}
  Plan <- MCPlan
  Collected = {"public-gate-adaptation-factorial"}
  Planned <- MCPlanned
  Outcomes <- MCOutcomes
  Cost <- MCCost
  Requests <- MCRequests
  Modes = {"alone", "together"}
  None = None
  MaxStarts <- MCMaxStarts
  MaxLaunches = 4
  MaxCrashes = 1
  MaxMoves <- MCMaxMoves
SYMMETRY Symmetry
CHECK_DEADLOCK FALSE
INVARIANTS
  PassRestsOnEvidence
  LaunchedOnce
