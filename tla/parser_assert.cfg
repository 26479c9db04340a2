SPECIFICATION Spec
CONSTANTS
  WordHalf = 2
  IntHalf = 2
  NULL = NULL
  Opc = Opc
  Foo = Foo
  Text = Text
  Symbols = {Opc, Foo}
  Literals = {Text}
  Sources <- FewSources
INVARIANTS InstructionExpected
