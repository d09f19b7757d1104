CONSTANTS
  MaxScore = 3
  StackSize = 3
  NBest = 2
  OutputMax = 1
  MaxHypo = 3
  Widths <- Envelopes
  MaxSeqNum = 2
  Vocab = 2
  LookTrellis = TRUE
  Fallback = FALSE
SPECIFICATION Spec
INVARIANTS StacksAreLists EachNodeOnce GivesTheBest
PROPERTIES StackKeepsTheBest
CHECK_DEADLOCK FALSE
