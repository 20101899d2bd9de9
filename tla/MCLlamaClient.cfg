SPECIFICATION Spec
CONSTANTS
  Calls = {c1, c2, c3}
INVARIANTS
  OneAtATime
  ModelInUse
  LoadedOnce
PROPERTIES
  CallersReturn
  ModelGivenUp
  TurnsCome
CHECK_DEADLOCK FALSE
