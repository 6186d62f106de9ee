\* Three fractions: the second continuation begins with the state the first has moved.
SPECIFICATION Spec
CONSTANTS
  R = 2
  BaseSteps = 2
  Fractions <- MCFractions
CHECK_DEADLOCK FALSE
INVARIANTS
  ContinuesFromCheckpoint
