SPECIFICATION FrontSpec
CONSTANTS
  WordHalf = 4
  IntHalf = 4
  NULL = NULL
  CARETS = 44
  Codes <- FewCodes
INVARIANTS LineShownAlone
