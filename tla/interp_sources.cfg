SPECIFICATION FairInterpSpec
CONSTANTS
  WordHalf = 2
  IntHalf = 2
  NUM_REGISTERS = 2
  NULL = NULL
  L1 = L1
  L2 = L2
  RegA = RegA
  Text = Text
  Symbols <- Names
  Literals = {Text}
  Strings <- AllStrings
  Letter <- Letters
  Trees = {}
  Sources <- AllSources
  MSG_BUF_LEN = 20
  HEAD_SIZE = 4
  TAIL_SIZE = 2
INVARIANTS TypeOK BranchesLand LabelsInOrder MeansTheSource RunsRunnable OneReport RunsWhatIsMeaningful ListingIsTheSource
PROPERTY InterpFinishes
