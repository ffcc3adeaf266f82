SPECIFICATION ReadSpec
CONSTANTS
  d1 = d1
  d2 = d2
  s1 = s1
  r1 = r1
  Readers <- MCReaders
  Large <- MCLarge
  OnlyAnswered = TRUE
  invoice = invoice
  letter = letter
  Downloads <- MCDownloads
  Starts <- MCStarts
  Names <- MCNames
  Candidates <- MCCandidates
  Content <- MCContent
  Keep = 1
  MaxTime = 2
INVARIANTS AnswerHolds BoundKept ReadsBack
PROPERTIES NothingReplaced
CHECK_DEADLOCK FALSE
