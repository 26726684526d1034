SPECIFICATION SaverSpec
CONSTANTS
  t1 = t1  t2 = t2  t3 = t3  t4 = t4
  Threads = {t1, t2, t3, t4}
  Namespaces = {"root"}
  ReadNamespaces = {"root"}
  Ids = {1}
  Slots = {1, 2}
  SpecialSlots = {2}
  NoSlot = NoSlot
  None = None
  EmptyBlobBytes = 1
  Ttl = 2  MaxThreads = 3  MaxNamespaces = 1  MaxCheckpoints = 1
  MaxCheckpointBytes = 4  MaxPendingWriteBytes = 4  MaxTotalBytes = 7
  DeltaAnswersUnknown = FALSE
  MaxClock = 3
  Puts <- EvictionPuts
  Batches <- EvictionBatches
SYMMETRY Symmetry
INVARIANTS SaverTypeOK LruIsOrder ThreadLimit RejectsOnlyIfNecessary
PROPERTIES RejectionKeepsThread EvictsLeastRecentlyUsed EvictsNoMoreThanNeeded
