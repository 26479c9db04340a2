SPECIFICATION FairSpec
CONSTANTS
  WordHalf = 2
  IntHalf = 2
  NUM_REGISTERS = 2
  Strings = {}
  Programs <- ControlOrForward
  MAX_CALL_STACK = 2
  MAX_STACK = 2
  MAX_MSG = 4
  UNHANDLED_SIZE = 2
  WORD_BYTES = 2
  HEAP_BYTES = 0
  TextSize = 0
  Unknown = Unknown
  Unhandled = Unhandled
  NoText = NoText
  LineBreak = LineBreak
  EscapedNewLine = LineBreak
  NewLine = NewLine
  S1 = S1
INVARIANTS TypeOK ReturnAddresses
PROPERTIES ForwardProgramsHalt ImplementsStackMachine
