SPECIFICATION FairSpec
CONSTANTS
  VPage <- MCPages
  Levels = 2
  AllPages <- MCAllPages
  TablesPerPage = 2
  Penalty = 1
  MaxRequests = 3
  MSHR_SIZE = 1
  MAX_TAG = 2
  TAG_LATENCY = 1
  RQ_SIZE = 1
  MAX_READ = 2
  MAX_FILL = 1
  HIT_LATENCY = 0
  PSCL_WAYS = 1
INVARIANTS
  NoSharing
  NoLostTranslation
PROPERTIES
  EverythingTranslated
