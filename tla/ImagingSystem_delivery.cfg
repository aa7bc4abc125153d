\* Two packets of one chunk each, too soon after each other, just in time or
\* late, two slots, and two pipelines of which one may die; with liveness and so
\* without symmetry.
SPECIFICATION FairSystemSpec
CONSTANTS
  Chunkers = {c1}
  Slots = {s1}
  NumRanges = 1
  MaxPackets = 2
  Blank = Blank
  MinInterval = 1
  MaxTime = 2
  Pipelines = {p1, p2}
  NoSlot = NoSlot
  MaxCrashes = 1
INVARIANTS
  SystemTypeInv
  OnePlace
  WholeImages
  WholeSpaced
PROPERTIES
  AtMostOnce
  PacketRead
  QueueDrains
  SettledInTheEnd
CHECK_DEADLOCK FALSE
