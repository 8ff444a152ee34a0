SPECIFICATION RSpec
CONSTANTS
  v1 = v1
  v2 = v2
  NotFound = NotFound
  Passed <- Descriptors
  f1 = f1
  undefined = undefined
  Undefined = undefined
  Null = Null
  Absent = Absent
  Empty = Empty
  Callables = {f1}
  Values <- MCValues
  MaxVectorSize = 2
  MinCapacity = 2
  BigShrink = 3
  MaxLength = 3
  Inputs <- MCInputs
  PutValues = {v1}
  Literals <- MCLiterals
  Prototypes <- MCPrototypes
  StackCapacity = 18
  Header = 1
  FrameCodes <- MCCodes
  MaxArgs = 1
  MaxDepth = 6
  a = a
  b = b
  c = c
  v = v
  w = w
  Cells = {a, b, c}
  HashOf <- MCHash
  WeakValues = {v, w}
  InitialSize = 4
  MaxTable = 8
INVARIANT MergeMatchesES5
