SPECIFICATION Spec
CONSTANTS
  Wording <- Wordings
  MaxRounds = 4
  MaxReviewRetries = 1
  MaxTasks = 3
INVARIANTS
  NothingLost
  ReviewedBeforeCompleted
  ClaimsHaveSources
  HonestResult
  WithinLimits
  DependenciesFirst
  InputsGiven
  ResearchInOrder
PROPERTY
  Ends
CHECK_DEADLOCK FALSE
