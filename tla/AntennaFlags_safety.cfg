\* Four antennas, of which one outlier is more than two deviations off.
SPECIFICATION Spec
CONSTANTS
  NumAntennas = 4
  Texts <- Lists
  Builds = {"default", "release"}
  Sigma = 2
  MaxStrength = 2
  MaxRuns = 3
INVARIANTS
  TypeInv
  MasksAgree
  Squeezed
  PutBack
CHECK_DEADLOCK FALSE
