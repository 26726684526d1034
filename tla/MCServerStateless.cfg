SPECIFICATION ServerSafeSpec
CONSTANTS
  t1 = t1  g1 = g1
  r1 = r1 
  a1 = a1
  Threads = {t1, g1}
  Generated = {g1}
  Requests = {r1}
  Assistants = {a1}
  MaxRuns = 1
  Kinds = {"stateless"}
  MayTimeOut = FALSE
  MayDisconnect = TRUE
  MayRestart = FALSE
  SaverErases = TRUE
  Evictions = {}
  NoRequest = NoRequest
  NoThread = NoThread
  NoAssistant = NoAssistant
  NoCheckpoint = NoCheckpoint
  Unread = Unread
  Absent = Absent
INVARIANTS StatelessLeavesNothing
