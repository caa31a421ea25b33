SPECIFICATION Spec
CONSTANTS
  Words <- MCWords
  NumFiles = 2
  Text <- MCText
  Path <- MCPath
  PathFields <- MCFields
  NumReduce = 2
  Hash <- MCHash
  CountWords = TRUE
  Ports <- MCPorts
  Directories <- FilesOrDir
  OldLines <- Stale
  MaxCrashes = 1
  PromptStart = FALSE
CHECK_DEADLOCK FALSE
INVARIANTS TypeOK ReducersReadFinalFiles
PROPERTIES MasterFailsOnlyWithWorker RefinesJob
