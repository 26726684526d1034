SPECIFICATION AppSpec
CONSTANTS
  c1 = c1  c2 = c2  c3 = c3  c4 = c4
  t1 = t1  t2 = t2  p1 = p1  p2 = p2  n1 = n1
  Configs = {c1, c2, c3, c4}
  Savers <- MCSavers
  MaxNested = 2
  MaxBodyBytes = 3
  Sizes = {0, 2, 3}
  Lengths = {2, 4}
  MaxMessages = 3
  ThreadIds = {t1, t2}
  CheckpointIds = {p1, p2}
  Namespaces = {Root, n1}
  Root = Root
  None = None
  Unprintable = Unprintable
  NotSet = NotSet
  NoLength = NoLength
  Garbage = Garbage
SYMMETRY Symmetry
INVARIANTS
  ReplayInOrder LimitIsExact OpenWhileUsed
  ExposesInnermost HandlersFindOpenCheckpointer 
