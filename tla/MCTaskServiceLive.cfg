SPECIFICATION Spec
CONSTANTS
  Tasks = {t1, t2}
  Conversations = {c1, c2}
  NoTask = NoTask
  MaxQueue = 1
  MaxHistory = 2
  MaxPairs = 1
PROPERTY
  ImplementsLifecycle
