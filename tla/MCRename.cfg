SPECIFICATION FairSpec
CONSTANTS
  RAT_SIZE = 5
  REGISTER_FILE_SIZE = 5
  Instruction <- MCPair
  ROB_SIZE = 3
  SCHEDULER_SIZE = 2
  DISPATCH_WIDTH = 2
  EXEC_WIDTH = 1
  RETIRE_WIDTH = 2
  SCHEDULING_LATENCY = 1
  EXEC_LATENCY = 1
INVARIANTS
  RegistersConserved
  ReadsLastWrite
  ExecutesAfterWriters
PROPERTIES
  AlwaysRetires
