\* Three antennas, streams of three and four channels, a grid of four by four.
SPECIFICATION Spec
CONSTANTS
  Word = 16
  MaxMergeChannels = 4
  NumAntennas = 3
  Texts <- AllTexts
  StreamSizes <- Streams
  NumPackets = 2
  VisSigma = 2
  MaxMagnitude = 2
  Size = 4
  Sub = 4
  Positions <- Places
  Pictures <- Sources
  MaxBrightness = 2
  Levels = 3
INVARIANTS
  RangesAsWritten
  RawPlaced
  KeptBelow
  MatrixOwn
  Splatted
  RealImage
  SamePicture
CHECK_DEADLOCK FALSE
