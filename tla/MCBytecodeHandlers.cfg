SPECIFICATION BSpec
CONSTANTS
  Programs <- MCPrograms
  Binaries <- MCBinaries
  MaxAnswers = 4
  MaxTrace = 16
  IteratorCacheMax = 20
  Sources <- MCSources
  Codes <- MCCodes
  Once = 2
  MaxLimit = 2
INVARIANTS
  CompletesAsES5
CHECK_DEADLOCK FALSE
