SPECIFICATION ICSpec
CONSTANTS
  a = a
  b = b
  p = p
  q = q
  x = x
  y = y
  v1 = v1
  f1 = f1
  undefined = undefined
  Undefined = undefined
  Null = Null
  Absent = Absent
  NoObject = NoObject
  Empty = Empty
  Callables = {f1}
  Values <- MCValues
  Objects = {a, b, p}
  Names = {x}
  Inputs <- SharedInputs
  PutValues = {v1}
  Prototypes = {p, NoObject}
  RootMaps <- SharedRootMaps
  RootOf <- SharedRootOf
  MaxTransition = 0
  MinCapacity = 2
  MaxMaps = 4
  LoadSites = {}
  StoreSites = {x}
  MaxPolyIC = 2
INVARIANTS
  StoreICSound
PROPERTIES
  ImplementsObjects
SYMMETRY SharedSymmetry
