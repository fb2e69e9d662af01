SPECIFICATION Spec
CONSTANTS
  a = a
  b = b
  c = c
  Block = {a, c}
  Upper = {u1}
  NumBanks = 2
  BankOf <- MCBankOf
  RowOf <- MCRowOf
  GroupOf <- MCGroupOf
  UpperSize <- MCSizes
  RequestKinds <- MCReadsPostsWrites
  RQ_SIZE = 2
  WQ_SIZE = 2
  tRP = 0
  tRCD = 0
  tCAS = 1
  tREF = 3
  tRFC = 1
  DRAM_DBUS_TURN_AROUND_TIME = 1
  DRAM_DBUS_RETURN_TIME = 1
  DRAM_DBUS_BANKGROUP_STALL = 0
INVARIANTS
  BanksMatchQueues
PROPERTIES
  ImplementsMemoryPort
  EventuallyAnswered
  EveryBankRefreshed
