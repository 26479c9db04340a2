SPECIFICATION FairSpec
CONSTANTS
  WordHalf = 2
  IntHalf = 2
  NULL = NULL
  Opc = Opc
  Foo = Foo
  Text = Text
  Symbols = {Opc, Foo}
  Literals = {Text}
  Sources <- AllSources
INVARIANTS TypeOK NothingLost AcceptsTheLanguage FirstErrorInFirstBadLine
PROPERTY ParserFinishes
