SPECIFICATION UploadSpec
CONSTANTS
  LoopbackNames = {"localhost"}
  Unquoted <- MCUnquoted
  Backslashed <- MCBackslashed
  WithoutParameters <- MCWithoutParameters
  MaxUpload = 2
  MaxName = 10
  MaxWrites = 1
  Urls <- MCUrls
  Entries <- MCEntries
  Paths <- MCPaths
  Directories <- MCDirectories
  Responses <- MCResponses
INVARIANTS ReachedOnlyWhatIsAllowed SentAsAccepted
CHECK_DEADLOCK FALSE
