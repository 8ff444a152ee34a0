SPECIFICATION GSpec
CONSTANTS
  g = g
  p = p
  x = x
  v1 = v1
  f1 = f1
  undefined = undefined
  Undefined = undefined
  Null = Null
  Absent = Absent
  NoObject = NoObject
  Empty = Empty
  Callables = {f1}
  Values <- MCValues
  Objects = {g, p}
  Global = g
  Functions = {f1}
  Names = {x}
  Inputs <- MCInputs
  PutValues = {v1}
  Prototypes = {}
  RootMaps <- MCRootMaps
  RootOf <- MCRootOf
  MaxTransition = 0
  MinCapacity = 2
  MaxMaps = 4
INVARIANTS
  OneHome
  GlobalICSound
PROPERTIES
  GlobalConstantsStay
