SPECIFICATION Spec
CONSTANTS
  WordHalf = 32
  IntHalf = 8
  NUM_REGISTERS = 26
  S1 = S1
  LineBreak = LineBreak
  EscapedNewLine = LineBreak
  NewLine = NewLine
  NULL = NULL
  Strings = {S1, LineBreak, Quote}
  Quote = Quote
  Keyword = Keyword
  End__ = End__
  Plain = Plain
  Reserved = {Keyword}
  EndLabel = End__
  ReturnNumber <- ReturnNumbers
  NoLiteral = {Quote}
  Programs <- GeneratedPrograms
  LabelsOf <- ProgramLabels
  MAX_CALL_STACK = 4
  MAX_STACK = 4
  C_STACK = 6
  MAX_MSG = 20
  UNHANDLED_SIZE = 4
  TextSize <- SampleTextSize
  Unknown = Unknown
  Unhandled = Unhandled
  NoText = NoText
INVARIANT IsAProgram
PROPERTY DoesWhatTheInterpreterDoes
