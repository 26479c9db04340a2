SPECIFICATION Spec
CONSTANTS
  WordHalf = 32
  IntHalf = 8
  NUM_REGISTERS = 26
  Strings = {S1, LineBreak}
  Programs <- BigDivisor
  MAX_CALL_STACK = 4
  MAX_STACK = 4
  MAX_MSG = 20
  UNHANDLED_SIZE = 4
  WORD_BYTES = 2
  HEAP_BYTES = 0
  TextSize <- SampleTextSize
  Unknown = Unknown
  Unhandled = Unhandled
  NoText = NoText
  LineBreak = LineBreak
  EscapedNewLine = LineBreak
  NewLine = NewLine
  S1 = S1
INVARIANTS DivisionByZeroMeansZero
