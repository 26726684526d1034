SPECIFICATION StoreSpec
CONSTANTS
  t1 = t1  t2 = t2  t3 = t3  t4 = t4
  a1 = a1  a2 = a2
  Threads = {t1, t2, t3, t4}
  Assistants = {a1, a2}
  MaxThreads = 3
  Ttl = 2
  NoAssistant = NoAssistant
  Absent = Absent
  NoCall = NoCall
SYMMETRY Symmetry
INVARIANTS CacheWellFormed WritesWhatItFound
PROPERTIES NoNeedlessLoss ImplementsRecords
