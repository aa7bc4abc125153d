\* One pipeline; the second packet may find the store full.
SPECIFICATION SystemSpec
CONSTANTS
  Chunkers = {c1}
  Slots = {s1, s2}
  NumRanges = 2
  MaxPackets = 2
  Blank = Blank
  MinInterval = 0
  MaxTime = 0
  Pipelines = {p1}
  NoSlot = NoSlot
  MaxCrashes = 0
INVARIANT SingleIntegration
CHECK_DEADLOCK FALSE
