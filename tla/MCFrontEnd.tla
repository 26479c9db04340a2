------------------------------ MODULE MCFrontEnd ------------------------------
(***************************************************************************)
(* Short sources of any characters, and longer ones of pieces of text.     *)
(***************************************************************************)
EXTENDS FrontEnd

AnyCode == BoundedSeq({"a", "4", "-", "'", ";", " ", "?", LineFeed, CR, EOF}, 4)

Pieces ==
  { <<"a", "4", "b">>, <<"+", "4">>, <<"1", "4">>, <<"'", "a", ";", "'">>, <<"'">>, <<";">>,
    <<":">>, <<" ">>, <<",">>, <<"[">>, <<"]">>, <<LineFeed>>, <<CR, LineFeed>> }

\* Pieces that are likely to be instructions, labels and operands.
Likely == { <<"a">>, <<" ", "a">>, <<"-", "4">>, <<":">>, <<",">>, <<"[">>, <<"]">>, <<LineFeed>> }

JoinedCode(pieces, n) == {FlattenSeq(s) : s \in BoundedSeq(pieces, n)}

AllCodes == AnyCode \cup JoinedCode(Pieces, 3) \cup JoinedCode(Likely, 4)

\* Errors at the end of a line that is not the last.
FewCodes == JoinedCode({<<"a">>, <<" ", "a", ",">>, <<LineFeed>>}, 4)
=============================================================================
