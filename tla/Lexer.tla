-------------------------------- MODULE Lexer --------------------------------
(***************************************************************************)
(* lexer_next_token, called until it answers the end of the source or an   *)
(* error, as parser_init and the tests do.  One action per branch; a       *)
(* comment and a carriage return are steps of their own because the code   *)
(* calls itself behind them.  Spaces are skipped by each.                  *)
(*                                                                         *)
(* A source is a sequence of characters.  A letter stands for the letters  *)
(* and the underscore, a blank for the space and the tab, "?" for any      *)
(* character no token starts with.  The byte 255 is a char equal to EOF.   *)
(***************************************************************************)
EXTENDS Words, SequencesExt

CONSTANTS
  Codes,  \* the sources
  NULL

Letter == {"a", "b"}
DigitsInOrder == <<"0", "1", "2", "3", "4", "5", "6", "7", "8", "9">>
Digit == ToSet(DigitsInOrder)
Punctuation == [c \in {":", ",", "[", "]"} |->
  CASE c = ":" -> "COLON" [] c = "," -> "COMMA"
    [] c = "[" -> "BRACKET_OPEN" [] c = "]" -> "BRACKET_CLOSE"]
LineFeed == "LF"
CR == "CR"
EOF == "EOF"
Char == Letter \cup Digit \cup DOMAIN Punctuation
          \cup {"-", "+", "'", ";", " ", "?", LineFeed, CR, EOF}

ASSUME CodesAssumption == Codes \subseteq Seq(Char)

VARIABLES
  code,
  offset,
  line_number,
  column,
  tokens,
  error,   \* the position reported, or NULL
  status   \* "lexing", "eof", or the error

vars == <<code, offset, line_number, column, tokens, error, status>>

Init ==
  /\ code \in Codes
  /\ offset = 0
  /\ line_number = 1
  /\ column = 0
  /\ tokens = << >>
  /\ error = NULL
  /\ status = "lexing"

-----------------------------------------------------------------------------
CharAt(o) == IF o < Len(code) THEN code[o + 1] ELSE EOF

\* Where the characters of a set end, from o on.
End(o, chars) ==
  CHOOSE e \in o .. Len(code) :
    /\ e = Len(code) \/ code[e + 1] \notin chars
    /\ \A q \in o .. e - 1 : code[q + 1] \in chars

\* lexer_peek_non_space: where the next token starts, and its column there.
Start == End(offset, {" "})
Column == column + (Start - offset)
Peek(chars) == status = "lexing" /\ CharAt(Start) \in chars

\* The cursor goes on to o, in the same line.
MoveTo(o) ==
  /\ offset' = o
  /\ column' = Column + (o - Start)
  /\ UNCHANGED <<code, line_number>>

Position(first, last) == [line_number |-> line_number, col_start |-> first, col_end |-> last]

\* The text up to o is a token.
Deliver(type, value, o) ==
  /\ tokens' = Append(tokens, [type |-> type, value |-> value,
                               pos |-> Position(Column, Column + (o - Start))])
  /\ MoveTo(o)
  /\ UNCHANGED <<error, status>>

\* The handler is called and NULL returned, with the cursor at o.
ReportError(kind, pos, o) ==
  /\ error' = pos
  /\ status' = kind
  /\ MoveTo(o)
  /\ UNCHANGED tokens

Text(first, last) == SubSeq(code, first + 1, last)
-----------------------------------------------------------------------------
SkipComment ==
  /\ Peek({";"})
  /\ MoveTo(End(Start, Char \ {LineFeed}))
  /\ UNCHANGED <<tokens, error, status>>

\* Mutant of SkipCarriageReturn: the offset is not moved.
SkipNoCarriageReturn ==
  /\ Peek({CR})
  /\ MoveTo(Start)
  /\ UNCHANGED <<tokens, error, status>>

\* The column does not count it.
SkipCarriageReturn ==
  /\ Peek({CR})
  /\ offset' = Start + 1
  /\ column' = Column
  /\ UNCHANGED <<code, line_number, tokens, error, status>>

Number(digits) ==
  FoldLeft(LAMBDA n, c : 10 * n + (CHOOSE d \in 0 .. 9 : DigitsInOrder[d + 1] = c), 0, digits)

\* The integer a literal is, with or without a sign.
Literal(text) ==
  CASE Head(text) = "-" -> -Number(Tail(text))
    [] Head(text) = "+" -> Number(Tail(text))
    [] OTHER -> Number(text)

\* Mutant of Scanned: any integer fits.
ScannedWide(n) == {n}

\* The words sscanf may store for a literal: of one that does not fit 64 bits C
\* says nothing, and libraries keep the low bits or the nearest word.
Scanned(n) ==
  {w \in Word : IF n \in Word THEN w = n
                ELSE w \in {ToWord(n), IF n < 0 THEN MinWord ELSE WordHalf - 1}}

\* Mutant of LexInt: the sign is not pushed back.
LexIntWithoutSign ==
  /\ Peek(Digit \cup {"-", "+"})
  /\ LET first == IF CharAt(Start) \in Digit THEN Start ELSE Start + 1
         last == End(first, Digit)
     IN  /\ last > first
         /\ \E n \in Scanned(Literal(Text(first, last))) : Deliver("INT", n, last)

\* A sign belongs to the literal that follows it at once.
LexInt ==
  /\ Peek(Digit \cup {"-", "+"})
  /\ LET last == End(IF CharAt(Start) \in Digit THEN Start ELSE Start + 1, Digit)
     IN  /\ CharAt(last - 1) \in Digit
         /\ \E n \in Scanned(Literal(Text(Start, last))) : Deliver("INT", n, last)

LoneSign ==
  /\ Peek({"-", "+"})
  /\ CharAt(Start + 1) \notin Digit
  /\ ReportError("unexpected_token", Position(Column, Column + 1), Start + 1)

\* lex_string: where the literal's characters end.
Closing == End(Start + 1, Char \ {"'", LineFeed})

LexString ==
  /\ Peek({"'"})
  /\ CharAt(Closing) = "'"
  /\ Deliver("STRING", Text(Start + 1, Closing), Closing + 1)

\* Mutant of UnclosedString: the position starts behind the opening quote.
UnclosedStringInside ==
  /\ Peek({"'"})
  /\ CharAt(Closing) # "'"
  /\ ReportError("unclosed_string", Position(Column + 1, Column + (Closing - Start) - 1), Closing)

UnclosedString ==
  /\ Peek({"'"})
  /\ CharAt(Closing) # "'"
  /\ ReportError("unclosed_string", Position(Column, Column + (Closing - Start) - 1), Closing)

LexNewLine ==
  /\ Peek({LineFeed})
  /\ tokens' = Append(tokens, [type |-> "NEW_LINE", value |-> NULL,
                               pos |-> Position(Column, Column + 1)])
  /\ offset' = Start + 1
  /\ line_number' = line_number + 1
  /\ column' = 0
  /\ UNCHANGED <<code, error, status>>

LexSingleChar ==
  /\ Peek(DOMAIN Punctuation)
  /\ Deliver(Punctuation[CharAt(Start)], NULL, Start + 1)

\* Mutant of SymbolEnd: a name has no digits.
LettersEnd == End(Start, Letter)

SymbolEnd == End(Start, Letter \cup Digit)

LexSymbol ==
  /\ Peek(Letter)
  /\ Deliver("SYMBOL", Text(Start, SymbolEnd), SymbolEnd)

\* The static token of the end of the source has no position.
LexEof ==
  /\ Peek({EOF})
  /\ tokens' = Append(tokens, [type |-> "EOF", value |-> NULL,
                 pos |-> [line_number |-> 0, col_start |-> 0, col_end |-> 0]])
  /\ status' = "eof"
  /\ MoveTo(Start)
  /\ UNCHANGED error

UnexpectedChar ==
  /\ Peek({"?"})
  /\ ReportError("unexpected_char", Position(Column, Column + 1), Start)

Stopped == status # "lexing" /\ UNCHANGED vars

Next ==
  \/ SkipComment \/ SkipCarriageReturn \/ LexInt \/ LoneSign \/ LexString
  \/ UnclosedString \/ LexNewLine \/ LexSingleChar \/ LexSymbol \/ LexEof
  \/ UnexpectedChar \/ Stopped

Spec == Init /\ [][Next]_vars

\* One thread, which nothing keeps waiting.
FairSpec == Spec /\ WF_vars(Next)
-----------------------------------------------------------------------------
TokenType ==
  {"SYMBOL", "STRING", "INT", "NEW_LINE", "EOF"} \cup {Punctuation[c] : c \in DOMAIN Punctuation}

TypeOK ==
  /\ code \in Seq(Char)
  /\ offset \in 0 .. Len(code)
  /\ line_number \in 1 .. Len(code) + 1
  /\ column \in 0 .. offset
  /\ \A k \in DOMAIN tokens :
       /\ tokens[k].type \in TokenType
       /\ tokens[k].type = "EOF" <=> k = Len(tokens) /\ status = "eof"
       /\ tokens[k].type = "INT" => tokens[k].value \in Word
  /\ status \in {"lexing", "eof", "unexpected_token", "unclosed_string", "unexpected_char"}

(* The line and the column of a character of the source, from its text alone. *)

Before(o) == {q \in 1 .. o : code[q] = LineFeed}
LineOf(o) == 1 + Cardinality(Before(o))
ColumnOf(o) == o - Max({0} \cup Before(o))

\* The characters a position covers.
Covered(pos) ==
  {o \in 0 .. Len(code) - 1 :
     LineOf(o) = pos.line_number /\ ColumnOf(o) \in pos.col_start .. pos.col_end - 1}

\* Up to the position's end its line has no carriage return.
Straight(pos) ==
  \A o \in 0 .. Len(code) - 1 :
    LineOf(o) = pos.line_number /\ ColumnOf(o) \in 0 .. Max({pos.col_start, pos.col_end - 1}) =>
      CharAt(o) # CR

Marked(pos) == Text(Min(Covered(pos)), Max(Covered(pos)) + 1)

WrittenAs(token) ==
  CASE token.type = "SYMBOL" -> {token.value}
    [] token.type = "STRING" -> {<<"'">> \o token.value \o <<"'">>}
    [] token.type = "NEW_LINE" -> {<<LineFeed>>}
    [] OTHER -> {<<c>> : c \in {d \in DOMAIN Punctuation : Punctuation[d] = token.type}}

\* Where a token says it is, its text stands; an integer is the one written
\* there, if it is a word.  Only a carriage return earlier in the line makes
\* columns differ from places.
PositionsDelimit ==
  \A k \in DOMAIN tokens :
    LET t == tokens[k] IN
      t.type # "EOF" /\ Straight(t.pos) =>
        /\ Cardinality(Covered(t.pos)) = t.pos.col_end - t.pos.col_start
        /\ IF t.type = "INT"
           THEN t.value \in Scanned(Literal(Marked(t.pos)))
           ELSE Marked(t.pos) \in WrittenAs(t)

Owners(o) == {k \in DOMAIN tokens : o \in Covered(tokens[k].pos)}

\* What a semicolon that is in no token starts, up to the end of its line.
InComment(o) ==
  /\ CharAt(o) # LineFeed
  /\ \E q \in 0 .. o : CharAt(q) = ";" /\ LineOf(q) = LineOf(o) /\ Owners(q) = {}

\* Every character that was read is in exactly one token, but for blanks and
\* comments, and reading ends nowhere but at the end of the source, at an error
\* or at a byte that is equal to EOF.  A name is never split.
NothingUnread ==
  (\A o \in 0 .. Len(code) - 1 : CharAt(o) # CR) =>
    /\ status = "eof" =>
         /\ CharAt(offset) = EOF
         /\ \A o \in 0 .. offset - 1 :
              /\ Cardinality(Owners(o)) <= 1
              /\ Owners(o) = {} => CharAt(o) = " " \/ InComment(o)
              /\ InComment(o) => Owners(o) = {}
    /\ \A k \in 1 .. Len(tokens) - 1 :
         tokens[k].type = "SYMBOL" /\ tokens[k + 1].type # "EOF"
             /\ tokens[k + 1].pos.col_start = tokens[k].pos.col_end =>
           Marked(tokens[k + 1].pos)[1] \notin Letter \cup Digit

\* The position of an error starts at the character that is wrong, and stays in
\* its line.
ErrorsMarkTheirText ==
  error # NULL /\ Straight(error) =>
    /\ error.col_start <= error.col_end
    /\ \E o \in 0 .. Len(code) - 1 :
         /\ LineOf(o) = error.line_number /\ ColumnOf(o) = error.col_start
         /\ CharAt(o) \in CASE status = "unclosed_string" -> {"'"}
                            [] status = "unexpected_token" -> {"-", "+"}
                            [] OTHER -> {"?"}
    /\ \A o \in Covered(error) : CharAt(o) # LineFeed

\* Every source comes to its end or to an error: what skips text moves on.
LexerFinishes == <>(status # "lexing")
=============================================================================
