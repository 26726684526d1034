SPECIFICATION SaverSpec
CONSTANTS
  t1 = t1  t2 = t2
  Threads = {t1, t2}
  Namespaces = {"root"}
  ReadNamespaces = {"root"}
  Ids = {1, 2}
  Slots = {1, 2}
  SpecialSlots = {2}
  NoSlot = NoSlot
  None = None
  EmptyBlobBytes = 1
  Ttl = 1  MaxThreads = 1  MaxNamespaces = 1  MaxCheckpoints = 2
  MaxCheckpointBytes = 4  MaxPendingWriteBytes = 4  MaxTotalBytes = 5
  DeltaAnswersUnknown = FALSE
  MaxClock = 1
  Puts <- BudgetPuts
  Batches <- BudgetBatches
INVARIANTS WithinByteBudget
