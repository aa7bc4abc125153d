\* Two threads in radec2itrf() at the same time.
SPECIFICATION Spec
CONSTANTS
  NumPols = 2
  OpenMP = TRUE
  MaxChunks = 1
  Nothing = Nothing
INVARIANT PositionsRight
CHECK_DEADLOCK FALSE
