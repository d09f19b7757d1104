CONSTANTS
  Kinds <- AllKinds
  AddedCats <- Known
  Loaded <- OneLoaded
  Procs = {sr}
  MaxWords = 6
  MaxAdds = 3
  MaxExtra = 1
  MaxRequests = 4
SPECIFICATION FairSpec
INVARIANTS TypeOK OwnCategory DecodesTheList LastRequestWins
PROPERTIES DeletionHappens
CHECK_DEADLOCK FALSE
