\* Every experiment, with an optimizer that keeps to its entries and one that does not.
SPECIFICATION Spec
CONSTANTS
  Designs <- AllDesigns
  R = 3
  Steps = 2
  MaxLeaks = 1
  None = None
CHECK_DEADLOCK FALSE
INVARIANTS
  OwnUpdatesOnly
  PassIsSeparated
  StartsFromInitial
