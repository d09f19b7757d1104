CONSTANTS
  Requests <- Anything
  MaxFrame = 2
  MaxSent = 2
SPECIFICATION Spec
INVARIANTS TypeOK OwnSentences DiscardedSilent EndsWhatBegan
