\* Two head-margin chunks, a trailing silence of three of which two are stored, a
\* buffer of four chunks.
CONSTANTS
  MaxSpeech = 4
  HeadLen = 2
  TailStore = 2
  NcMax = 3
  MaxBatch = 2
  MaxChunks = 7
  CheckReturns <- AnyRequest
SPECIFICATION FairSpec
INVARIANTS TypeOK BufferBounded SliceStable SilenceLosesNothing CleanRestart GivenInOrder
PROPERTIES SegmentReturns EndIsNoticed
CHECK_DEADLOCK FALSE
