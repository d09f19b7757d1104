CONSTANTS
  Requests <- Control
  MaxFrame = 2
  MaxSent = 1
SPECIFICATION FairSpec
PROPERTIES TerminateTakesEffect PauseTakesEffect Listens
CHECK_DEADLOCK FALSE
