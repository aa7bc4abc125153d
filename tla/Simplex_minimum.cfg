\* A run with one search; two values are enough.
SPECIFICATION RunSpec
CONSTANTS
  MaxMajor = 3
  MaxMinor = 4
  MaxRuns = 1
  Dim = 2
  Values <- TwoValues
  MaxIterations = 2
INVARIANT MinimumReturned
CHECK_DEADLOCK FALSE
