\* A first calibration may converge in two of three cycles; a simplex in the plane.
SPECIFICATION RunSpec
CONSTANTS
  MaxMajor = 3
  MaxMinor = 4
  MaxRuns = 2
  Dim = 2
  Values <- FewValues
  MaxIterations = 3
INVARIANTS
  RunTypeInv
  Averaged
  AppliedIfConverged
  GivenUpWithReason
  Ranked
  Affordable
PROPERTIES
  BestKept
  OnlyShrinkWorsens
  Decided
CHECK_DEADLOCK FALSE
