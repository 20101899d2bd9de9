SPECIFICATION Spec
CONSTANTS
  Modules = {code}
  Reports = {report, other}
  Tables = {table}
  Figures = {f1, f2}
  MaxPaths = 2
  MaxAttempts = 2
  MaxEarlier = 1
  MaxCalls = 3
  MaxEdits = 1
SYMMETRY Symmetry
INVARIANTS
  PassedFilesHold
  PassedCodeWorks
CHECK_DEADLOCK FALSE
