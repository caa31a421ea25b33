SPECIFICATION FairSpec
CONSTANTS
  Words <- MCWords
  NumFiles = 2
  Text <- MCText
  Path <- MCPath
  PathFields <- MCFields
  NumReduce = 3
  Hash <- MCHash
  CountWords = FALSE
  Ports <- MCPorts
  Directories <- FilesOrDir
  OldLines <- Stale
  MaxCrashes = 1
  PromptStart = TRUE
CHECK_DEADLOCK FALSE
PROPERTIES RefinesJob JobCompletes WorkersStop
