SPECIFICATION SSpec
CONSTANTS
  Names <- MCNames
  Programs <- MCPrograms
INVARIANTS
  NamesResolve
CHECK_DEADLOCK FALSE
