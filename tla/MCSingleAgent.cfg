SPECIFICATION Spec
CONSTANTS
  Queries = {q1, q2}
  MaxSteps = 4
  MaxToolCalls = 4
  MaxJsonRetries = 1
SYMMETRY Symmetry
INVARIANTS
  LimitsKept
  ErrorsStop
  SearchedOnce
  AnswersRest
CHECK_DEADLOCK FALSE
