\* One baseline is enough: two pictures that differ.
SPECIFICATION Spec
CONSTANTS
  Word = 16
  MaxMergeChannels = 4
  NumAntennas = 2
  Texts <- OneText
  StreamSizes <- OneStream
  NumPackets = 1
  VisSigma = 2
  MaxMagnitude = 1
  Size = 4
  Sub = 4
  Positions <- OnePlace
  Pictures <- OneSource
  MaxBrightness = 1
  Levels = 3
INVARIANT StokesI
CHECK_DEADLOCK FALSE
