\* A connection that breaks inside a packet.
SPECIFICATION FairSpec
CONSTANTS
  Chunkers = {c1}
  Slots = {s1, s2}
  NumRanges = 1
  MaxPackets = 2
  Blank = Blank
  MinInterval = 0
  MaxTime = 0
PROPERTY Reconnected
CHECK_DEADLOCK FALSE
