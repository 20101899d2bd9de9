SPECIFICATION Spec
CONSTANTS
  Tasks = {t1, t2, t3, t4}
  Conversations = {c1}
  NoTask = NoTask
  MaxQueue = 2
  MaxHistory = 3
  MaxPairs = 2
SYMMETRY Symmetry
INVARIANTS
  ServiceInv
  QueueMatchesRecords
  AdmissionBounded
  HistoryExact
  PredecessorsSettled
PROPERTIES
  TerminalIsFinal
  DecisionIsFinal
