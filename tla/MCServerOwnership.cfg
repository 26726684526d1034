SPECIFICATION ServerSafeSpec
CONSTANTS
  t1 = t1  g1 = g1
  r1 = r1  r2 = r2 
  a1 = a1  a2 = a2
  Threads = {t1, g1}
  Generated = {g1}
  Requests = {r1, r2}
  Assistants = {a1, a2}
  MaxRuns = 2
  Kinds = {"run"}
  MayTimeOut = FALSE
  MayDisconnect = FALSE
  MayRestart = FALSE
  SaverErases = TRUE
  Evictions = {"store"}
  NoRequest = NoRequest
  NoThread = NoThread
  NoAssistant = NoAssistant
  NoCheckpoint = NoCheckpoint
  Unread = Unread
  Absent = Absent
PROPERTIES NoCrossAssistantWrites
