SPECIFICATION ICSpec
CONSTANTS
  a = a
  b = b
  p = p
  q = q
  x = x
  y = y
  v1 = v1
  f1 = f1
  undefined = undefined
  Undefined = undefined
  Null = Null
  Absent = Absent
  NoObject = NoObject
  Empty = Empty
  Callables = {f1}
  Values <- MCValues
  Objects = {a, p, q}
  Names = {x}
  Inputs <- ChainInputs
  PutValues = {v1}
  Prototypes = {q}
  RootMaps <- ChainRootMaps
  RootOf <- ChainRootOf
  MaxTransition = 0
  MinCapacity = 2
  MaxMaps = 4
  LoadSites = {x}
  StoreSites = {}
  MaxPolyIC = 2
INVARIANTS
  LoadICSound
PROPERTIES
  GuardedMapsStable
