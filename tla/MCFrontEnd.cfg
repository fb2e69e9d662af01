SPECIFICATION FairSpec
CONSTANTS
  Programs <- MCPrograms
  IFETCH_BUFFER_SIZE = 3
  DECODE_BUFFER_SIZE = 2
  DIB_HIT_BUFFER_SIZE = 2
  DISPATCH_BUFFER_SIZE = 2
  DIB_SIZE = 2
  FETCH_WIDTH = 2
  DECODE_WIDTH = 1
  DIB_INORDER_WIDTH = 2
  L1I_BANDWIDTH = 2
  DECODE_LATENCY = 1
  DIB_HIT_LATENCY = 0
  DISPATCH_LATENCY = 0
  BRANCH_MISPREDICT_PENALTY = 1
INVARIANTS
  ProgramOrder
  StopsBehindMispredict
PROPERTIES
  EverythingDispatched
