SPECIFICATION Spec
CONSTANTS
  v1 = v1
  f1 = f1
  undefined = undefined
  Undefined = undefined
  Null = Null
  Absent = Absent
  Empty = Empty
  Callables = {f1}
  Values <- MCValues
  MaxVectorSize = 2
  MinCapacity = 2
  BigShrink = 2
  MaxLength = 3
  Inputs <- MCInputs
  PutValues = {v1}
  Literals <- MCLiterals
  Prototypes <- MCPrototypes
INVARIANTS
  OneHomePerElement
  LengthAboveElements
PROPERTIES
  CallsAreArrayCalls
