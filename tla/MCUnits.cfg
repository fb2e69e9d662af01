SPECIFICATION Spec
CONSTANTS
  Units = {"custom_pref", "spp", "lru_table", "btb", "branch", "replacement", "trace", "simulation", "address", "line_prefetchers", "agent"}
  LINES = 8
  Accesses <- MCAccesses
  Genomes <- MCGenomes
  MSHR_SIZE = 2
  Occupancies = {0, 1}
  ACCURACY_AFTER = 2
  MaxAccesses = 4
  BLOCKS_PER_PAGE = 8
  SppLines <- MCSppLines
  SppSteps <- MCSppSteps
  SppEvicted <- MCSppEvicted
  PageTag <- MCPageTag
  SignatureHash <- MCSignatureHash
  Quotient <- MCQuotient
  Remainder <- MCRemainder
  ST_WAY = 2
  PT_WAY = 2
  MAX_GHR_ENTRY = 2
  SIG_SHIFT = 2
  SIG_BIT = 5
  SIG_DELTA_BIT = 4
  C_SIG_MAX = 3
  FILL_THRESHOLD = 50
  PF_THRESHOLD = 25
  GLOBAL_COUNTER_MAX = 15
  MaxSppOperations = 6
  LruSets = 2
  LruWays = 2
  LruTags = {0, 1, 2, 4, 6}
  LruValues = {"x", "y"}
  MaxLruAccesses = 5
  BtbSets = 2
  BtbWays = 1
  INDIRECT_SIZE = 4
  RAS_SIZE = 2
  CALL_TRACKERS = 8
  BtbProgram <- MCBtbProgram
  CallSize <- MCCallSize
  ExclusiveOr <- MCExclusiveOr
  MaxBranches = 6
  BranchStream <- MCBranchStream
  BIMODAL_PRIME = 3
  GSHARE_HISTORY = 2
  COUNTER_MAX = 3
  WEIGHT_MAX = 1
  NUM_PERCEPTRONS = 2
  PERCEPTRON_HISTORY = 2
  NUM_UPDATE_ENTRIES = 1
  THETA = 2
  history_lengths <- MCHistoryLengths
  WORD_LEN = 2
  WORDS_PER_VALUE = 2
  SPEED = 2
  MaxOutcomes = 6
  MaxOthers = 1
  ReplacementAccesses <- MCReplacementAccesses
  NUM_SET = 8
  NUM_WAY = 2
  maxRRPV = 3
  BRRIP_MAX = 2
  PSEL_MAX = 3
  SHCT_MAX = 1
  SHCT_PRIME = 3
  REPLACEMENT_MSHR = 1
  MaxReplacementSteps = 6
  TraceLengths = {1, 2, 3, 5, 6, 7, 9, 12}
  buffer_size = 4
  refresh_thresh = 1
  MaxHandedOut = 24
  Cpus = {"cpu0", "cpu1"}
  Devices = {"cache"}
  clock_period <- MCPeriod
  Phases <- MCPhases
  TraceSizes <- MCTraceSizes
  IN_QUEUE_SIZE = 2
  RETIRE_WIDTH = 2
  DEADLOCK_CYCLE = 2
  livelock_period = 3
  livelock_instrs = 0
  ADDR_BITS = 8
  BLOCK_BYTES = 2
  AddressValues <- MCAddressValues
  Extents <- MCExtents
  Deltas <- MCDeltas
  Geometries <- MCGeometries
  MaxAddressSteps = 4
  LP_LINES = 12
  LP_PAGE = 4
  LineAccesses <- MCLineAccesses
  TRACKER_SETS = 1
  TRACKER_WAYS = 2
  STRIDE_DEGREE = 3
  REGION_WAYS = 2
  MAX_DISTANCE = 2
  AMPM_DEGREE = 1
  virtual_prefetch = FALSE
  MaxLineAccesses = 5
  AgentGenomes <- MCAgentGenomes
  AgentDefault <- MCAgentDefault
  PrefetcherDefault <- MCPrefetcherDefault
  Unparsable <- MCUnparsable
  NUM_GENERATIONS = 2
  AgentTraces = 2
  MAX_RETRIES = 2
  MaxStarts = 2
  Failed = Failed
INVARIANTS
  AddressesKeepTheirBits
  RegionOfInterest
  ReturnsFollowCalls
  SearchIsRecorded
  TableKeepsRecency
  SppAssertionsHold
  PrefetchesFollowHistory
  HistoriesAgree
  PrefetchesHaveReasons
PROPERTIES
  TraceInOrder
  VictimsAreCold
CHECK_DEADLOCK FALSE
