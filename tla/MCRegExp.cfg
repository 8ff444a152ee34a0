SPECIFICATION RSpec
CONSTANTS
  Lower <- MCLower
  Upper <- MCUpper
  Newline = 8
  Word = {1, 2, 5, 6}
  FilterLimit = 8
  Patterns <- MCPatterns
  Programs <- MCPrograms
  Subjects <- MCSubjects
  Expected <- MCExpected
  MaxFrames = 30
  Searches <- MCSearches
  Texts <- MCTexts
  Matches <- MCMatches
  Limits = {0, 1, 2, 9}
  Templates <- MCTemplates
INVARIANTS
  MatchesES5
  ParserKeepsText
  VisitsEveryMatch
  SplitMatchesES5
  TemplateMatchesES5
PROPERTIES
  CallsReturn
CHECK_DEADLOCK FALSE
