CONSTANTS
  ChunkSize = 3
  CLength = 5
  TailMargin = 5
  TailExtra = 3
  NoiseZC = 0
  ReadSizes <- AlsaRead
  MaxSamples = 16
  MinStep = 2
  MaxStrip = 0
SPECIFICATION Spec
PROPERTIES SilenceEndsSegment OverlapIsBounded
