SPECIFICATION BSpec
CONSTANTS
  undefined = undefined
  hole = hole
  Undefined = undefined
  Hole = hole
  Elements <- MCElements
  Modulus = 8
  Beyond = 2
  Starts <- MCStarts
  InsertionLimit = 3
  StackSize = 32
  MaxEffects = 1
INVARIANTS
  DirectCallsMatchES5
  FailureLosesNothing
  LoopsMatchES5
  SortMatchesES5
PROPERTIES
  CallsEnd
CHECK_DEADLOCK FALSE
