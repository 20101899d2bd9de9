SPECIFICATION PageSpec
CONSTANTS
  Tasks = {t1, t2}
  Conversations = {c1, c2}
  Conversation = c1
  NoTask = NoTask
  MaxQueue = 1
  MaxHistory = 2
  MaxPairs = 2
INVARIANTS
  LoadsCatchUp
  BusyHasCause
PROPERTY
  ButtonReturns
CHECK_DEADLOCK FALSE
