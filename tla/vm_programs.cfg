SPECIFICATION FairSpec
CONSTANTS
  WordHalf = 32
  IntHalf = 8
  NUM_REGISTERS = 26
  S1 = S1
  LineBreak = LineBreak
  Strings = {S1, LineBreak}
  EscapedNewLine = LineBreak
  NewLine = NewLine
  Programs <- AllPrograms
  MAX_CALL_STACK = 4
  MAX_STACK = 4
  MAX_MSG = 10
  UNHANDLED_SIZE = 4
  WORD_BYTES = 2
  HEAP_BYTES = 6
  TextSize <- SampleTextSize
  Unknown = Unknown
  Unhandled = Unhandled
  NoText = NoText
INVARIANTS GcdResult RemainderResult FibResult DocumentedEndings MemoryHoldsWords
PROPERTIES SamplesHalt ComparisonEquality ImplementsStackMachine
