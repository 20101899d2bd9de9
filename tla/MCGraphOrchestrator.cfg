SPECIFICATION Spec
CONSTANTS
  Wording <- Wordings
  MaxRounds = 6
  MaxReviewRetries = 2
INVARIANT
  RetriesExhaustBudget
PROPERTY
  ImplementsRounds
CHECK_DEADLOCK FALSE
