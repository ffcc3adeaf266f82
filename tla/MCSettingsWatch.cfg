CONSTANTS
  MaxSaves = 3
  MaxCrashes = 1
SPECIFICATION FairSpec
INVARIANTS TypeOK TakenAsRead
PROPERTIES EndsOverAWholeFile ChangeArrives
