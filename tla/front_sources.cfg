SPECIFICATION FairFrontSpec
CONSTANTS
  WordHalf = 4
  IntHalf = 4
  NULL = NULL
  CARETS = 2
  Codes <- AllCodes
INVARIANTS TypeOK PositionsDelimit NothingUnread ErrorsMarkTheirText ErrorShown
PROPERTIES LexerFinishes FrontFinishes
