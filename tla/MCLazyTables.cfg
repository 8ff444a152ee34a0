SPECIFICATION LazySpec
CONSTANTS
  a = a
  b = b
  x = x
  y = y
  v1 = v1
  f1 = f1
  undefined = undefined
  Undefined = undefined
  Null = Null
  Absent = Absent
  NoObject = NoObject
  Empty = Empty
  Callables = {f1}
  Values <- MCValues
  Objects = {a, b}
  Names = {x, y}
  Inputs <- PairInputs
  PutValues = {v1}
  Prototypes = {}
  RootMaps <- PairRootMaps
  RootOf <- PairRootOf
  MaxTransition = 1
  MinCapacity = 2
  MaxMaps = 4
  LoadSites = {}
  StoreSites = {x, y}
  MaxPolyIC = 1
INVARIANTS
  TablesAnswer
  TypeOK
  SlotsMatchMap
  OffsetsAreSlots
  UniqueMapsNotShared
  TransitionsAddOneProperty
SYMMETRY PairSymmetry
