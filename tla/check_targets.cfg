SPECIFICATION Spec
CONSTANTS
  WordHalf = 2
  IntHalf = 2
  NUM_REGISTERS = 2
  L1 = L1
  L2 = L2
  Strings = {L1, L2}
  Programs <- FewPrograms
  MSG_BUF_LEN = 40
  HEAD_SIZE = 10
  TAIL_SIZE = 8
  MAX_CHECKED = 3
INVARIANTS TargetsChecked
