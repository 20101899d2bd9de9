SPECIFICATION Spec
CONSTANTS
  Tasks = {t1, t2}
  Conversations = {c1}
  NoTask = NoTask
  MaxQueue = 1
  MaxHistory = 2
  MaxPairs = 2
INVARIANT
  DeletedStaysDeleted
