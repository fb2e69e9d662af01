SPECIFICATION SppSpec
CONSTANTS
  BLOCKS_PER_PAGE = 8
  SppLines <- MCStream
  SppSteps = {1}
  SppEvicted = {}
  PageTag <- MCPageTag
  SignatureHash <- MCSignatureHash
  Quotient <- MCOwnSlot
  Remainder <- MCNoRemainder
  ExclusiveOr <- MCExclusiveOr
  ST_WAY = 2
  PT_WAY = 2
  MAX_GHR_ENTRY = 2
  SIG_SHIFT = 2
  SIG_BIT = 5
  SIG_DELTA_BIT = 4
  C_SIG_MAX = 7
  FILL_THRESHOLD = 50
  PF_THRESHOLD = 25
  GLOBAL_COUNTER_MAX = 7
  MaxSppOperations = 48
INVARIANTS
  GhrFindsVictim
CHECK_DEADLOCK FALSE
