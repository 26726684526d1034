SPECIFICATION ServerSafeSpec
CONSTANTS
  t1 = t1  g1 = g1
  r1 = r1  r2 = r2 
  a1 = a1  a2 = a2
  Threads = {t1, g1}
  Generated = {g1}
  Requests = {r1, r2}
  Assistants = {a1, a2}
  MaxRuns = 1
  Kinds = {"run", "stream", "stateless", "update", "delete", "create"}
  MayTimeOut = TRUE
  MayDisconnect = TRUE
  MayRestart = FALSE
  SaverErases = FALSE
  Evictions = {"store", "saver"}
  NoRequest = NoRequest
  NoThread = NoThread
  NoAssistant = NoAssistant
  NoCheckpoint = NoCheckpoint
  Unread = Unread
  Absent = Absent
SYMMETRY Symmetry
INVARIANTS BusyMeansStreaming OnlyDroppedWorkOutlivesLease
