------------------------------ MODULE MCParser ------------------------------
(***************************************************************************)
(* Sources put together from single tokens and from pieces of lines.       *)
(***************************************************************************)
EXTENDS Parser

CONSTANTS Opc, Foo, Text

Sym(s) == [type |-> "SYMBOL", value |-> s]
Imm == [type |-> "INT", value |-> 1]
Str == [type |-> "STRING", value |-> Text]
NewLine == Mark("NEW_LINE")
Colon == Mark("COLON")
Comma == Mark("COMMA")
Open == Mark("BRACKET_OPEN")
Close == Mark("BRACKET_CLOSE")

SingleTokens == {<<t>> : t \in {Sym(Foo), Imm, Str, NewLine, Colon, Comma, Open, Close}}

Pieces ==
  { <<Sym(Opc)>>, <<Sym(Foo), Colon>>, <<NewLine>>, <<NewLine, NewLine>>, <<Comma>>, <<Str>>,
    <<Sym(Opc), Sym(Foo), Comma, Imm, Open, Sym(Foo), Close, NewLine>>,
    <<Open, Sym(Foo), Close>> }

\* At most n of the parts, and the end of the source.
Joined(parts, n) ==
  {FlattenSeq(s) \o <<Mark("EOF")>> : s \in BoundedSeq(parts, n)}

AnyTokens == Joined(SingleTokens, 4)
AnyPieces == Joined(Pieces, 5)
AllSources == AnyTokens \cup AnyPieces
FewSources == Joined(Pieces, 3)
=============================================================================
