SPECIFICATION Spec
CONSTANTS
  Block = {b1, b2}
  Upper = {u1, u2}
  Set = {1}
  SetIndex <- MCOneSet
  NUM_WAY = 1
  MSHR_SIZE = 2
  PQ_SIZE = 1
  UpperSize <- MCSizes1
  LowerSize <- MCSizes1
  MAX_TAG = 2
  MAX_FILL = 1
  HIT_LATENCY = 1
  FILL_LATENCY = 1
  match_offset_bits = FALSE
  prefetch_as_load = FALSE
  pref_activate_mask = {}
  PolicyMayBypass = TRUE
  RequestKinds <- MCLoadsAndPosts
  PrefetchRequests <- MCNoPrefetches
  MaxPrefetch = 0
  MaxPending = 1
SYMMETRY MCSymmetryU
INVARIANTS
  NoOrphanResponse
PROPERTIES
  AnswersOnce
  AsksOnce
