SPECIFICATION FairSpec
CONSTANTS
  Block = {b1, b2}
  Upper = {u1}
  Set = {1}
  SetIndex <- MCOneSet
  NUM_WAY = 1
  MSHR_SIZE = 1
  PQ_SIZE = 1
  UpperSize <- MCSizes1
  LowerSize <- MCSizes1
  MAX_TAG = 1
  MAX_FILL = 1
  HIT_LATENCY = 1
  FILL_LATENCY = 1
  match_offset_bits = FALSE
  prefetch_as_load = FALSE
  pref_activate_mask = {}
  PolicyMayBypass = TRUE
  RequestKinds <- MCLoadsAndWrites
  PrefetchRequests <- MCNoPrefetches
  MaxPrefetch = 0
  MaxPending = 1
INVARIANTS
  NoForgottenRequest
PROPERTIES
  DirtyLeavesByWriteback
  EventuallyAnswered
