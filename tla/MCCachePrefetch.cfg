SPECIFICATION Spec
CONSTANTS
  Block = {b1, b2}
  Upper = {u1}
  Set = {1}
  SetIndex <- MCOneSet
  NUM_WAY = 1
  MSHR_SIZE = 2
  PQ_SIZE = 1
  UpperSize <- MCSizes1
  LowerSize <- MCSizes1
  MAX_TAG = 1
  MAX_FILL = 1
  HIT_LATENCY = 1
  FILL_LATENCY = 1
  match_offset_bits = TRUE
  prefetch_as_load = FALSE
  pref_activate_mask = {"LOAD"}
  PolicyMayBypass = FALSE
  RequestKinds <- MCLoadsAndWrites
  PrefetchRequests <- MCPrefetches
  MaxPrefetch = 1
  MaxPending = 1
SYMMETRY MCSymmetry
INVARIANTS
  NoForgottenMiss
  OneCopy
  PrefetchAccounting
  TagPipelineBound
