SPECIFICATION Spec
CONSTANTS
  c1 = c1
  c2 = c2
  Calls <- MCCalls
  Asks <- MCAsks
  FirstBooks <- MCFirstBooks
  Edits <- MCEdits
  Numbers <- MCNumbers
  MaxEdits = 1
INVARIANTS NothingKnownRefused
PROPERTIES OnlyWhatWasGiven OverWhatWasSeen
CHECK_DEADLOCK FALSE
