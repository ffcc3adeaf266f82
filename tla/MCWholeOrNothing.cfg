SPECIFICATION ReadSpec
CONSTANTS
  d1 = d1
  d2 = d2
  s1 = s1
  r1 = r1
  Readers <- MCReaders
  Large <- MCLarge
  OnlyAnswered = TRUE
  invoice = invoice
  letter = letter
  Downloads <- MCDownloads
  Starts <- MCStarts
  Names <- MCNames
  Candidates <- MCCandidates
  Content <- MCContent
  Keep = 1
  MaxTime = 2
INVARIANT WholeOrNothing
CHECK_DEADLOCK FALSE
