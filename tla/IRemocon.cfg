CONSTANT MaxCalls = 3
SPECIFICATION FairSpec
INVARIANTS TypeOK OwnReply TrueMeansReceived
PROPERTIES CallReturns
CHECK_DEADLOCK FALSE
