SPECIFICATION ServerSafeSpec
CONSTANTS
  t1 = t1  g1 = g1
  r1 = r1  r2 = r2  r3 = r3
  a1 = a1  a2 = a2
  Threads = {t1, g1}
  Generated = {g1}
  Requests = {r1, r2, r3}
  Assistants = {a1, a2}
  MaxRuns = 2
  Kinds = {"run", "stream", "stateless", "update", "delete", "create", "get"}
  MayTimeOut = FALSE
  MayDisconnect = FALSE
  MayRestart = TRUE
  SaverErases = TRUE
  Evictions = {"saver"}
  NoRequest = NoRequest
  NoThread = NoThread
  NoAssistant = NoAssistant
  NoCheckpoint = NoCheckpoint
  Unread = Unread
  Absent = Absent
SYMMETRY Symmetry
INVARIANTS ServerTypeOK SingleMutator LeaseCoversWork OwnersAgree StatelessLeavesNothing
PROPERTIES NoCrossAssistantWrites DeletionIsComplete
