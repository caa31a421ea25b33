SPECIFICATION FairSpec
CONSTANTS
  Words <- MCWords
  NumFiles = 2
  Text <- MCText
  Path <- MCPath
  PathFields <- MCFields
  NumReduce = 2
  Hash <- MCHash
  CountWords = TRUE
  Ports <- MCPorts
  Directories <- SecondIsDir
  OldLines <- NoneStale
  MaxCrashes = 0
  PromptStart = TRUE
CHECK_DEADLOCK FALSE
PROPERTIES ProceedsToReduce
