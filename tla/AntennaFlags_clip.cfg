\* A dead antenna is also an outlier.
SPECIFICATION Spec
CONSTANTS
  NumAntennas = 4
  Texts <- ShortLists
  Builds = {"default"}
  Sigma = 2
  MaxStrength = 1
  MaxRuns = 1
INVARIANT ClipsRemaining
CHECK_DEADLOCK FALSE
