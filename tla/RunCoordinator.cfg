SPECIFICATION CoordSpec
CONSTANTS
  Threads = {t1, t2, t3}
  Requests = {r1, r2}
  MaxRuns = 1
  NoRequest = NoRequest
  NoThread = NoThread
INVARIANTS CoordTypeOK CapacityBound HolderKeepsSlot ReleasedMeansFree
PROPERTIES ImplementsPool
