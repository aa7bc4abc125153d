\* Two streams compete for two slots, fewer than the four chunks of their two packets.
SPECIFICATION Spec
CONSTANTS
  Chunkers = {c1, c2}
  Slots = {s1, s2}
  NumRanges = 2
  MaxPackets = 2
  Blank = Blank
  MinInterval = 0
  MaxTime = 0
SYMMETRY Symmetry
INVARIANTS
  TypeInv
  Framed
  RangesInOrder
  SlotOwnership
  AllOrNothing
  NeverHeldUp
CHECK_DEADLOCK FALSE
