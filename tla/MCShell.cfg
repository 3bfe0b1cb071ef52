CONSTANTS
  Words <- MCWords
  MAXARGS = 3
  Pids = {1, 2, 3, 4, 5, 6, 7}
  Shell = 1
  NOFILE = 6
  NObj = 4
  PIPESIZE = 1
  Files = {"f"}
  FileSize = 2
  Scripts <- MCScripts
  Parsed <- MCParsed
  Meant <- MCMeant
  Commands <- MCCommands
  MaxFails = 1
  None = None
SPECIFICATION FairSpec
INVARIANTS ParsesGrammar OnlyStdio OutputMeant PromptAfterCommand
PROPERTIES LineEnds
CHECK_DEADLOCK FALSE
