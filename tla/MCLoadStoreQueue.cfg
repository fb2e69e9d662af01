SPECIFICATION FairSpec
CONSTANTS
  Block = {b1, b2}
  Programs <- MCPrograms
  ROB_SIZE = 3
  LQ_SIZE = 3
  SQ_SIZE = 2
  LQ_WIDTH = 1
  SQ_WIDTH = 1
  EXEC_WIDTH = 2
  RETIRE_WIDTH = 2
  L1D_BANDWIDTH = 1
  EXEC_LATENCY = 1
INVARIANTS
  MemOpsConserved
  DependentsWait
  LoadWaitsForYoungestStore
  StoresFinishBeforeWritten
PROPERTIES
  EverythingRetires
