SPECIFICATION Spec
CONSTANTS
  Procs <- MCProcs
  NFILE = 6
  NOFILE = 5
  NPIPE = 2
  PIPESIZE = 1
  MAXARGS = 3
  Alphabet = {}
  MaxLine = 0
  RunLines <- MCRunLines
  MaxLines = 2
  MaxCalls = 2
INVARIANTS FilesExact DescriptorsRight PromptRight
PROPERTY CommandsEnd
CHECK_DEADLOCK FALSE
