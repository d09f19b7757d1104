CONSTANTS
  ChunkSize = 2
  CLength = 4
  TailMargin = 4
  TailExtra = 2
  NoiseZC = 0
  ReadSizes <- AnyRead
  MaxSamples = 12
  MinStep = 1
  MaxStrip = 1
SPECIFICATION Spec
INVARIANTS TypeOK CycleIsLastSamples GivenWithoutGap SwapFits
