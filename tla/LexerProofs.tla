---------------------------- MODULE LexerProofs ----------------------------
(***************************************************************************)
(* Theorems about the lexer, for every source, and about what is printed   *)
(* of the first error that the lexer or the parser reports.                *)
(***************************************************************************)
EXTENDS FrontEnd, DataLemmas, FiniteSetTheorems, SequenceTheorems

\* Skipping characters of a set ends at the first that is not in it, or at the
\* end of the source, and nowhere before the place it starts from.
LEMMA Ends ==
  ASSUME code \in Seq(Char), NEW o \in 0 .. Len(code), NEW chars
  PROVE  /\ End(o, chars) \in o .. Len(code)
         /\ End(o, chars) = Len(code) \/ code[End(o, chars) + 1] \notin chars
         /\ \A q \in o .. End(o, chars) - 1 : code[q + 1] \in chars
<1> DEFINE S == {e \in o .. Len(code) : e = Len(code) \/ code[e + 1] \notin chars}
<1>1. Len(code) \in Nat
  OBVIOUS
<1>2. S \in SUBSET Nat /\ Len(code) \in S
  BY <1>1
<1>3. PICK e \in S : \A m \in S : e <= m
  <2> HIDE DEF S
  <2> QED
    BY <1>2, Least
<1>4. /\ e \in o .. Len(code)
      /\ e = Len(code) \/ code[e + 1] \notin chars
  BY <1>3
<1>5. ASSUME NEW q \in o .. e - 1 PROVE code[q + 1] \in chars
  <2>1. q \notin S
    <3>1. q \in Nat /\ e \in Nat /\ ~(e <= q)
      BY <1>1, <1>4
    <3> QED
      BY <3>1, <1>3
  <2>2. q \in o .. Len(code)
    BY <1>1, <1>4
  <2> QED
    BY <2>1, <2>2
<1> HIDE DEF S
<1> QED
  BY <1>4, <1>5 DEF End

-----------------------------------------------------------------------------
(* Type correctness *)

\* The cursor is in the source, and as a line break is a character of its own,
\* there are no more lines before it than characters.
CursorOK ==
  /\ code \in Seq(Char)
  /\ offset \in 0 .. Len(code)
  /\ line_number \in 1 .. offset + 1
  /\ column \in 0 .. offset

Token ==
  [type : TokenType, value : Word \cup Seq(Char) \cup {NULL},
   pos : [line_number : Nat, col_start : Nat, col_end : Nat]]

\* The end of the source is delivered once, last.
TokensOK ==
  /\ tokens \in Seq(Token)
  /\ \A k \in DOMAIN tokens :
       /\ tokens[k].type = "EOF" <=> k = Len(tokens) /\ status = "eof"
       /\ tokens[k].type = "INT" => tokens[k].value \in Word

StatusOK ==
  status \in {"lexing", "eof", "unexpected_token", "unclosed_string", "unexpected_char"}

IInv == CursorOK /\ TokensOK /\ StatusOK

LEMMA IInvTypes == IInv => TypeOK
<1> SUFFICES ASSUME IInv PROVE TypeOK
  OBVIOUS
<1>1. /\ code \in Seq(Char)
      /\ offset \in 0 .. Len(code)
      /\ line_number \in 1 .. Len(code) + 1
      /\ column \in 0 .. offset
  BY DEF IInv, CursorOK
<1>2. ASSUME NEW k \in DOMAIN tokens PROVE tokens[k].type \in TokenType
  <2>1. tokens[k] \in Token
    BY DEF IInv, TokensOK
  <2> QED
    BY <2>1 DEF Token
<1> QED
  BY <1>1, <1>2 DEF IInv, TokensOK, StatusOK, TypeOK

LEMMA StartInSource ==
  ASSUME CursorOK
  PROVE  Start \in offset .. Len(code)
BY Ends DEF CursorOK, Start

\* Wherever the cursor moves to in its line, its column stays behind its offset.
LEMMA Moves ==
  ASSUME CursorOK, NEW o \in Start .. Len(code), MoveTo(o)
  PROVE  CursorOK'
<1>1. Start \in offset .. Len(code)
  BY StartInSource
<1> QED
  BY <1>1 DEF CursorOK, MoveTo, Column

\* What a token appended while lexing must be.
LEMMA Appended ==
  ASSUME TokensOK, status = "lexing", status' = "lexing", NEW t \in Token, t.type # "EOF",
         t.type = "INT" => t.value \in Word, tokens' = Append(tokens, t)
  PROVE  TokensOK'
<1>1. tokens' \in Seq(Token) /\ Len(tokens') = Len(tokens) + 1
  BY DEF TokensOK
<1>2. ASSUME NEW k \in DOMAIN tokens'
      PROVE  tokens'[k].type # "EOF" /\ (tokens'[k].type = "INT" => tokens'[k].value \in Word)
  <2>1. CASE k = Len(tokens')
    BY <1>1, <2>1 DEF TokensOK
  <2>2. CASE k # Len(tokens')
    <3>1. k \in DOMAIN tokens /\ tokens'[k] = tokens[k]
      BY <1>1, <1>2, <2>2 DEF TokensOK
    <3> QED
      BY <3>1 DEF TokensOK
  <2> QED
    BY <2>1, <2>2
<1> QED
  BY <1>1, <1>2 DEF TokensOK

LEMMA Delivers ==
  ASSUME IInv, status = "lexing", NEW type \in TokenType \ {"EOF"},
         NEW value \in Word \cup Seq(Char) \cup {NULL}, type = "INT" => value \in Word,
         NEW o \in Start .. Len(code), Deliver(type, value, o)
  PROVE  IInv'
<1> DEFINE t == [type |-> type, value |-> value,
                 pos |-> Position(Column, Column + (o - Start))]
<1>1. CursorOK' /\ StatusOK'
  BY Moves DEF IInv, Deliver, StatusOK
<1>2. Start \in offset .. Len(code)
  BY StartInSource DEF IInv
<1>3. Column \in Nat /\ Column + (o - Start) \in Nat /\ line_number \in Nat
  BY <1>2 DEF IInv, CursorOK, Column
<1>4. t \in Token
  BY <1>3 DEF Token, Position
<1>5. tokens' = Append(tokens, t) /\ status' = status
  BY DEF Deliver
<1> HIDE DEF t
<1>6. t.type = type /\ t.value = value
  BY DEF t
<1>7. TokensOK'
  BY <1>4, <1>5, <1>6, Appended DEF IInv
<1> QED
  BY <1>1, <1>7 DEF IInv

\* An error is no token, and the end of the source has not been delivered.
LEMMA Reports ==
  ASSUME IInv, status = "lexing", NEW kind \in {"unexpected_token", "unclosed_string", "unexpected_char"},
         NEW pos, NEW o \in Start .. Len(code), ReportError(kind, pos, o)
  PROVE  IInv'
<1>1. CursorOK' /\ StatusOK'
  BY Moves DEF IInv, ReportError, StatusOK
<1>2. TokensOK'
  BY DEF IInv, TokensOK, ReportError
<1> QED
  BY <1>1, <1>2 DEF IInv

\* Where there is a character, the source is not over.
LEMMA PeekInSource ==
  ASSUME IInv, NEW chars, Peek(chars), EOF \notin chars
  PROVE  /\ Start \in offset .. Len(code) - 1
         /\ CharAt(Start) \in chars
         /\ status = "lexing"
<1>1. Start \in offset .. Len(code)
  BY StartInSource DEF IInv
<1> QED
  BY <1>1 DEF Peek, CharAt, IInv, CursorOK

LEMMA DigitsAreNoEOF == EOF \notin Digit /\ LineFeed \notin Digit
BY DEF Digit, DigitsInOrder, ToSet, EOF, LineFeed

LEMMA InitIInv == Init => IInv
BY CodesAssumption DEF Init, IInv, CursorOK, TokensOK, StatusOK

LEMMA NextIInv == IInv /\ [Next]_vars => IInv'
<1> SUFFICES ASSUME IInv, [Next]_vars PROVE IInv'
  OBVIOUS
<1>0. Start \in offset .. Len(code) /\ Len(code) \in Nat /\ offset \in Nat
  BY StartInSource DEF IInv, CursorOK
<1>1. CASE SkipComment
  <2>1. End(Start, Char \ {LineFeed}) \in Start .. Len(code)
    BY <1>0, Ends DEF IInv, CursorOK
  <2>2. CursorOK'
    BY <1>1, <2>1, Moves DEF IInv, SkipComment
  <2> QED
    BY <1>1, <2>2 DEF IInv, TokensOK, StatusOK, SkipComment
<1>2. CASE SkipCarriageReturn
  <2>1. Start \in offset .. Len(code) - 1
    BY <1>2, PeekInSource DEF SkipCarriageReturn, CR, EOF
  <2>2. CursorOK'
    BY <1>2, <2>1 DEF IInv, CursorOK, SkipCarriageReturn, Column
  <2> QED
    BY <1>2, <2>2 DEF IInv, TokensOK, StatusOK, SkipCarriageReturn
<1>3. CASE LexInt
  <2> DEFINE first == IF CharAt(Start) \in Digit THEN Start ELSE Start + 1
             last == End(first, Digit)
  <2>1. PICK n \in Scanned(Literal(Text(Start, last))) : Deliver("INT", n, last)
    BY <1>3 DEF LexInt
  <2>2. n \in Word /\ status = "lexing"
    BY <1>3, <2>1 DEF Scanned, LexInt, Peek
  <2>3. Start \in offset .. Len(code) - 1
    <3>1. EOF \notin Digit \cup {"-", "+"}
      BY DigitsAreNoEOF DEF EOF
    <3> QED
      BY <1>3, <3>1, PeekInSource DEF LexInt
  <2>4. last \in Start .. Len(code)
    <3>1. first \in Start .. Len(code)
      BY <1>0, <2>3
    <3>2. first \in 0 .. Len(code)
      BY <1>0, <3>1
    <3>3. last \in first .. Len(code)
      BY <3>2, Ends DEF IInv, CursorOK
    <3> QED
      BY <1>0, <3>1, <3>3
  <2> HIDE DEF last
  <2> QED
    BY <2>1, <2>2, <2>4, Delivers DEF TokenType
<1>4. CASE LoneSign
  <2>1. Start \in offset .. Len(code) - 1 /\ status = "lexing"
    BY <1>4, PeekInSource DEF LoneSign, EOF
  <2> QED
    BY <1>0, <1>4, <2>1, Reports DEF LoneSign
<1>5. CASE LexString
  <2>1. Start \in offset .. Len(code) - 1 /\ status = "lexing"
    BY <1>5, PeekInSource DEF LexString, EOF
  <2>2. Closing \in Start + 1 .. Len(code) /\ CharAt(Closing) # EOF
    BY <1>0, <1>5, <2>1, Ends DEF Closing, IInv, CursorOK, LexString, EOF
  <2>3. Closing + 1 \in Start .. Len(code)
    BY <1>0, <2>2 DEF CharAt
  <2>4. Text(Start + 1, Closing) \in Seq(Char)
    BY <1>0, <2>2 DEF Text, IInv, CursorOK
  <2> QED
    BY <1>5, <2>1, <2>3, <2>4, Delivers DEF LexString, TokenType
<1>6. CASE UnclosedString
  <2>1. Start \in offset .. Len(code) - 1 /\ status = "lexing"
    BY <1>6, PeekInSource DEF UnclosedString, EOF
  <2>2. Closing \in Start .. Len(code)
    BY <1>0, <2>1, Ends DEF Closing, IInv, CursorOK
  <2> QED
    BY <1>6, <2>1, <2>2, Reports DEF UnclosedString
<1>7. CASE LexNewLine
  <2>1. Start \in offset .. Len(code) - 1 /\ status = "lexing"
    BY <1>7, PeekInSource DEF LexNewLine, LineFeed, EOF
  <2>2. CursorOK'
    BY <1>7, <2>1 DEF IInv, CursorOK, LexNewLine
  <2>3. Column \in Nat /\ line_number \in Nat
    BY <1>0 DEF IInv, CursorOK, Column
  <2> DEFINE t == [type |-> "NEW_LINE", value |-> NULL, pos |-> Position(Column, Column + 1)]
  <2>4. t \in Token /\ t.type = "NEW_LINE"
    BY <2>3 DEF Token, Position, TokenType
  <2>5. tokens' = Append(tokens, t) /\ status' = status
    BY <1>7 DEF LexNewLine
  <2> HIDE DEF t
  <2>6. TokensOK'
    BY <2>1, <2>4, <2>5, Appended DEF IInv
  <2> QED
    BY <2>2, <2>5, <2>6 DEF IInv, StatusOK
<1>8. CASE LexSingleChar
  <2>1. /\ Start \in offset .. Len(code) - 1 /\ status = "lexing"
        /\ CharAt(Start) \in DOMAIN Punctuation
    BY <1>8, PeekInSource DEF LexSingleChar, EOF, Punctuation
  <2>2. Punctuation[CharAt(Start)] \in TokenType \ {"EOF", "INT"}
    BY <2>1 DEF Punctuation, TokenType
  <2> DEFINE type == Punctuation[CharAt(Start)]
  <2>3. Deliver(type, NULL, Start + 1) /\ Start + 1 \in Start .. Len(code)
    BY <1>0, <1>8, <2>1 DEF LexSingleChar
  <2>4. type # "INT" /\ type \in TokenType \ {"EOF"} /\ status = "lexing"
    BY <2>1, <2>2
  <2> HIDE DEF type
  <2> QED
    BY <2>3, <2>4, Delivers
<1>9. CASE LexSymbol
  <2>1. Start \in offset .. Len(code) - 1 /\ status = "lexing"
    BY <1>9, PeekInSource DEF LexSymbol, Letter, EOF
  <2>2. SymbolEnd \in Start .. Len(code)
    BY <1>0, Ends DEF SymbolEnd, IInv, CursorOK
  <2>3. Text(Start, SymbolEnd) \in Seq(Char)
    BY <1>0, <2>2 DEF Text, IInv, CursorOK
  <2> QED
    BY <1>9, <2>1, <2>2, <2>3, Delivers DEF LexSymbol, TokenType
<1>10. CASE LexEof
  <2>1. CursorOK'
    BY <1>0, <1>10, Moves DEF IInv, LexEof
  <2> DEFINE t == [type |-> "EOF", value |-> NULL,
                   pos |-> [line_number |-> 0, col_start |-> 0, col_end |-> 0]]
  <2>2. t \in Token /\ t.type = "EOF"
    BY DEF Token, TokenType
  <2>3. tokens' = Append(tokens, t) /\ status' = "eof" /\ status = "lexing"
    BY <1>10 DEF LexEof, Peek
  <2> HIDE DEF t
  <2>4. TokensOK'
    BY <2>2, <2>3 DEF IInv, TokensOK
  <2> QED
    BY <2>1, <2>3, <2>4 DEF IInv, StatusOK
<1>11. CASE UnexpectedChar
  BY <1>0, <1>11, Reports DEF UnexpectedChar, Peek
<1>12. CASE Stopped \/ UNCHANGED vars
  BY <1>12 DEF Stopped, vars, IInv, CursorOK, TokensOK, StatusOK
<1> QED
  BY <1>1, <1>2, <1>3, <1>4, <1>5, <1>6, <1>7, <1>8, <1>9, <1>10, <1>11, <1>12 DEF Next

\* The cursor stays in the source and its column behind its offset, an integer
\* token is a word, and the end is delivered once, last: for every source.
THEOREM TypeCorrect == Spec => []TypeOK
BY InitIInv, NextIInv, IInvTypes, PTL DEF Spec

-----------------------------------------------------------------------------
(* Lines and columns *)

LEMMA BeforeFinite ==
  ASSUME NEW o \in Nat
  PROVE  /\ Before(o) \in SUBSET (1 .. o)
         /\ IsFiniteSet(Before(o))
         /\ Cardinality(Before(o)) \in Nat
<1>1. Before(o) \in SUBSET (1 .. o) /\ IsFiniteSet(1 .. o)
  BY FS_Interval DEF Before
<1>2. IsFiniteSet(Before(o))
  BY <1>1, FS_Subset
<1> QED
  BY <1>1, <1>2, FS_CardinalityType

\* The place the line of o starts at.
LineStart(o) == Max({0} \cup Before(o))

LEMMA LineStarts ==
  ASSUME NEW o \in Nat
  PROVE  /\ LineStart(o) \in {0} \cup Before(o)
         /\ \A q \in Before(o) : q <= LineStart(o)
         /\ LineStart(o) \in 0 .. o
<1> DEFINE T == {0} \cup Before(o)
           S == {o - q : q \in T}
<1>1. T \in SUBSET (0 .. o) /\ 0 \in T
  BY BeforeFinite
<1> HIDE DEF T
<1>2. S \in SUBSET Nat /\ S # {}
  <2>1. \A q \in T : o - q \in Nat
    BY <1>1
  <2> QED
    BY <1>1, <2>1
<1>3. PICK l \in S : \A m \in S : l <= m
  <2> HIDE DEF S
  <2> QED
    BY <1>2, Least
<1>4. PICK x \in T : l = o - x
  BY <1>3
<1>5. ASSUME NEW y \in T PROVE x >= y
  <2>1. o - x <= o - y
    BY <1>3, <1>4
  <2> QED
    BY <1>1, <2>1
<1>6. Max(T) \in T /\ \A y \in T : Max(T) >= y
  BY <1>5 DEF Max
<1>7. \A y \in T : y <= Max(T)
  BY <1>1, <1>6
<1>8. LineStart(o) = Max(T)
  BY DEF LineStart, T
<1> QED
  BY <1>1, <1>6, <1>7, <1>8 DEF T

LEMMA Columns ==
  ASSUME NEW o \in Nat
  PROVE  ColumnOf(o) \in 0 .. o /\ ColumnOf(o) = o - LineStart(o) /\ LineOf(o) \in Nat
<1>1. ColumnOf(o) = o - LineStart(o)
  BY DEF ColumnOf, LineStart
<1>2. ColumnOf(o) \in 0 .. o
  BY <1>1, LineStarts
<1>3. LineOf(o) \in Nat
  BY BeforeFinite DEF LineOf
<1> QED
  BY <1>1, <1>2, <1>3

\* Two places of one line, without a line break between them, are as far apart
\* as their columns.
LEMMA SameLine ==
  ASSUME NEW o \in Nat, NEW p \in Nat, o <= p, \A q \in o .. p - 1 : code[q + 1] # LineFeed
  PROVE  LineOf(p) = LineOf(o) /\ ColumnOf(p) = ColumnOf(o) + (p - o)
<1>1. Before(p) = Before(o)
  <2>1. ASSUME NEW q \in Before(p) PROVE q \in Before(o)
    <3>1. q \in 1 .. p /\ code[q] = LineFeed
      BY <2>1 DEF Before
    <3>2. CASE q > o
      <4>1. q - 1 \in o .. p - 1 /\ (q - 1) + 1 = q
        BY <3>1, <3>2
      <4> QED
        BY <3>1, <4>1
    <3>3. CASE q <= o
      BY <3>1, <3>3 DEF Before
    <3> QED
      BY <3>1, <3>2, <3>3
  <2>2. ASSUME NEW q \in Before(o) PROVE q \in Before(p)
    BY <2>2 DEF Before
  <2> QED
    BY <2>1, <2>2
<1>2. LineOf(p) = LineOf(o) /\ LineStart(p) = LineStart(o)
  BY <1>1 DEF LineOf, LineStart
<1> QED
  BY <1>2, Columns, LineStarts

LEMMA NextLine ==
  ASSUME NEW o \in Nat, code[o + 1] = LineFeed
  PROVE  LineOf(o + 1) = LineOf(o) + 1 /\ ColumnOf(o + 1) = 0
<1>1. Before(o + 1) = Before(o) \cup {o + 1} /\ o + 1 \notin Before(o)
  BY DEF Before
<1>2. Cardinality(Before(o + 1)) = Cardinality(Before(o)) + 1
  BY <1>1, BeforeFinite, FS_AddElement
<1>3. LineStart(o + 1) = o + 1
  BY <1>1, LineStarts
<1> QED
  BY <1>2, <1>3, Columns, BeforeFinite DEF LineOf

\* A line has each column once.
LEMMA OnePlace ==
  ASSUME NEW o \in Nat, NEW p \in Nat, LineOf(o) = LineOf(p)
  PROVE  ColumnOf(p) - ColumnOf(o) = p - o
<1>1. SUFFICES ASSUME NEW a \in Nat, NEW b \in Nat, a <= b, LineOf(a) = LineOf(b)
               PROVE  ColumnOf(b) - ColumnOf(a) = b - a
  <2>1. CASE o <= p
    BY <1>1, <2>1
  <2>2. CASE p <= o
    <3>1. ColumnOf(o) - ColumnOf(p) = o - p
      BY <1>1, <2>2
    <3> QED
      BY <3>1, Columns
  <2> QED
    BY <2>1, <2>2
<1>2. Before(a) \in SUBSET Before(b)
  BY <1>1 DEF Before
<1>3. Cardinality(Before(a)) = Cardinality(Before(b))
  BY <1>1, BeforeFinite DEF LineOf
<1>4. Before(a) = Before(b)
  BY <1>2, <1>3, BeforeFinite, FS_Subset
<1>5. LineStart(a) = LineStart(b)
  BY <1>4 DEF LineStart
<1> QED
  BY <1>5, Columns, LineStarts

-----------------------------------------------------------------------------
(* Errors mark their text *)

\* A carriage return before o in the line, at a column up to col.
Returned(o, line, col) ==
  \E q \in 0 .. o - 1 : CharAt(q) = CR /\ LineOf(q) = line /\ ColumnOf(q) <= col

PlacedAt(o, line, col) ==
  /\ LineOf(o) = line
  /\ col <= ColumnOf(o)
  /\ col = ColumnOf(o) \/ Returned(o, line, col)

\* The cursor's line and column are those of its offset, but behind a carriage
\* return in the line, where the column is less.
Placed == PlacedAt(offset, line_number, column)

\* The line of the next token is that of the cursor.
NoBreak(o, p) == \A q \in o .. p - 1 : code[q + 1] # LineFeed

LEMMA PlacedOn ==
  ASSUME NEW o \in Nat, NEW p \in Nat, o <= p, NoBreak(o, p),
         NEW line \in Nat, NEW col \in Nat, PlacedAt(o, line, col)
  PROVE  PlacedAt(p, line, col + (p - o))
<1>1. LineOf(p) = LineOf(o) /\ ColumnOf(p) = ColumnOf(o) + (p - o)
  BY SameLine DEF NoBreak
<1>2. LineOf(p) = line /\ col + (p - o) <= ColumnOf(p)
  <2>1. ColumnOf(o) \in Nat /\ ColumnOf(p) \in Nat
    BY Columns
  <2> QED
    BY <1>1, <2>1 DEF PlacedAt
<1>3. CASE col = ColumnOf(o)
  BY <1>1, <1>2, <1>3 DEF PlacedAt
<1>4. CASE Returned(o, line, col)
  <2>1. PICK q \in 0 .. o - 1 : CharAt(q) = CR /\ LineOf(q) = line /\ ColumnOf(q) <= col
    BY <1>4 DEF Returned
  <2>2. q \in 0 .. p - 1 /\ ColumnOf(q) \in Nat
    BY Columns
  <2>3. ColumnOf(q) <= col + (p - o)
    BY <2>1, <2>2
  <2> QED
    BY <1>2, <2>1, <2>2, <2>3 DEF PlacedAt, Returned
<1> QED
  BY <1>3, <1>4 DEF PlacedAt

\* The same for a step of the cursor.
LEMMA MovesPlaced ==
  ASSUME CursorOK, Placed, NEW o \in offset .. Len(code), NoBreak(offset, o),
         code' = code, offset' = o, line_number' = line_number,
         column' = column + (o - offset)
  PROVE  Placed'
<1>1. PlacedAt(o, line_number, column + (o - offset))
  BY PlacedOn DEF CursorOK, Placed
<1> QED
  BY <1>1 DEF Placed, PlacedAt, Returned, LineOf, ColumnOf, Before, CharAt

LEMMA StartPlaced ==
  ASSUME CursorOK, Placed
  PROVE  /\ NoBreak(offset, Start)
         /\ PlacedAt(Start, line_number, Column)
         /\ Column \in Nat
<1>1. Start \in offset .. Len(code)
  BY StartInSource
<1>2. NoBreak(offset, Start)
  <2>1. \A q \in offset .. Start - 1 : code[q + 1] \in {" "}
    BY Ends DEF CursorOK, Start
  <2> QED
    BY <2>1 DEF NoBreak, LineFeed
<1> QED
  BY <1>1, <1>2, PlacedOn DEF CursorOK, Placed, Column

\* A step that moves the cursor through text without a line break.
LEMMA MovesOn ==
  ASSUME CursorOK, Placed, NEW o \in Start .. Len(code), NoBreak(Start, o), MoveTo(o)
  PROVE  Placed'
<1>1. Start \in offset .. Len(code)
  BY StartInSource
<1>2. NoBreak(offset, o)
  BY <1>1, StartPlaced DEF NoBreak, CursorOK
<1>3. o \in offset .. Len(code) /\ column' = column + (o - offset)
  BY <1>1 DEF MoveTo, Column, CursorOK
<1> QED
  BY <1>2, <1>3, MovesPlaced DEF MoveTo

\* Where a position from the next token on has no carriage return before it, the
\* cursor's line and column are those of the token.
LEMMA StartExact ==
  ASSUME CursorOK, Placed, Start < Len(code), NEW n \in Nat,
         Straight(Position(Column, Column + n))
  PROVE  LineOf(Start) = line_number /\ ColumnOf(Start) = Column
<1> DEFINE pos == Position(Column, Column + n)
<1>1. /\ pos.line_number = line_number
      /\ pos.col_start = Column
      /\ pos.col_end = Column + n
      /\ Straight(pos)
  BY DEF Position
<1> HIDE DEF pos
<1>2. Start \in 0 .. Len(code) - 1 /\ Column \in Nat /\ Len(code) \in Nat
  BY StartInSource, StartPlaced DEF CursorOK
<1>3. PlacedAt(Start, line_number, Column)
  BY StartPlaced
<1>4. ~Returned(Start, line_number, Column)
  <2>1. SUFFICES ASSUME NEW q \in 0 .. Start - 1, CharAt(q) = CR, LineOf(q) = line_number,
                        ColumnOf(q) <= Column
                 PROVE  FALSE
    BY DEF Returned
  <2>2. Column <= Max({Column, Column + n - 1})
    <3>1. \E m \in {Column, Column + n - 1} : \A y \in {Column, Column + n - 1} : m >= y
      BY <1>2
    <3>2. \A y \in {Column, Column + n - 1} : Max({Column, Column + n - 1}) >= y
      BY <3>1 DEF Max
    <3>3. Max({Column, Column + n - 1}) \in {Column, Column + n - 1}
      BY <3>1 DEF Max
    <3> QED
      BY <1>2, <3>2, <3>3
  <2>3. Max({Column, Column + n - 1}) \in Int
    <3>1. \E m \in {Column, Column + n - 1} : \A y \in {Column, Column + n - 1} : m >= y
      BY <1>2
    <3>2. Max({Column, Column + n - 1}) \in {Column, Column + n - 1}
      BY <3>1 DEF Max
    <3> QED
      BY <1>2, <3>2
  <2>4. q \in 0 .. Len(code) - 1 /\ ColumnOf(q) \in Nat
    <3>1. q \in Nat /\ q \in 0 .. Len(code) - 1
      BY <1>2
    <3>2. ColumnOf(q) \in 0 .. q
      BY <3>1, Columns
    <3> QED
      BY <3>1, <3>2
  <2>5. ColumnOf(q) \in 0 .. Max({pos.col_start, pos.col_end - 1})
    BY <1>1, <1>2, <2>1, <2>2, <2>3, <2>4
  <2> QED
    BY <1>1, <2>1, <2>4, <2>5 DEF Straight
<1> QED
  BY <1>3, <1>4 DEF PlacedAt

\* What ErrorsMarkTheirText says of a position, for an error at one of chars.
Marks(pos, chars) ==
  Straight(pos) =>
    /\ pos.col_start <= pos.col_end
    /\ \E o \in 0 .. Len(code) - 1 :
         /\ LineOf(o) = pos.line_number /\ ColumnOf(o) = pos.col_start
         /\ CharAt(o) \in chars
    /\ \A o \in Covered(pos) : CharAt(o) # LineFeed

LEMMA AtStart ==
  ASSUME CursorOK, Placed, Start < Len(code), NEW n \in Nat, NoBreak(Start, Start + n),
         Start + n <= Len(code), NEW chars, CharAt(Start) \in chars
  PROVE  Marks(Position(Column, Column + n), chars)
<1> DEFINE pos == Position(Column, Column + n)
<1>1. /\ pos.line_number = line_number
      /\ pos.col_start = Column
      /\ pos.col_end = Column + n
  BY DEF Position
<1> HIDE DEF pos
<1> SUFFICES ASSUME Straight(pos) PROVE Marks(pos, chars)
  BY DEF Marks, pos
<1>2. Start \in 0 .. Len(code) - 1 /\ Column \in Nat /\ Len(code) \in Nat
  BY StartInSource, StartPlaced DEF CursorOK
<1>5. LineOf(Start) = line_number /\ ColumnOf(Start) = Column
  BY StartExact DEF pos
<1>6. ASSUME NEW o \in Covered(pos) PROVE CharAt(o) # LineFeed
  <2>1. /\ o \in 0 .. Len(code) - 1 /\ LineOf(o) = line_number
        /\ ColumnOf(o) \in Column .. Column + n - 1
    <3>1. /\ o \in 0 .. Len(code) - 1 /\ LineOf(o) = pos.line_number
          /\ ColumnOf(o) \in pos.col_start .. pos.col_end - 1
      BY <1>6 DEF Covered
    <3>2. ColumnOf(o) \in Int
      BY <3>1, Columns
    <3> QED
      BY <1>1, <1>2, <3>1, <3>2
  <2>2. ColumnOf(o) - ColumnOf(Start) = o - Start
    BY <1>2, <1>5, <2>1, OnePlace
  <2>3. o \in Start .. Start + n - 1
    BY <1>2, <1>5, <2>1, <2>2
  <2> QED
    BY <1>2, <2>1, <2>3 DEF NoBreak, CharAt
<1> QED
  BY <1>1, <1>2, <1>5, <1>6 DEF Marks

\* Nothing is reported before the lexer stops.
Silent == status \in {"lexing", "eof"} => error = NULL

\* The position's line is there, and its columns are in the line, or the last is
\* the line break's.
Located(pos) ==
  /\ pos.col_start \in Nat /\ pos.col_end \in Nat
  /\ pos.col_start <= pos.col_end
  /\ \E s \in 0 .. Len(code) :
       /\ LineOf(s) = pos.line_number /\ ColumnOf(s) = 0
       /\ s + pos.col_end <= Len(code)
       /\ NoBreak(s, s + pos.col_end - 1)

ErrorLocated == error # NULL => Located(error)

EInv == IInv /\ Placed /\ Silent /\ ErrorsMarkTheirText /\ ErrorLocated

\* Such is a position of n columns from the next token on, carriage returns or not.
LEMMA LocatedHere ==
  ASSUME CursorOK, Placed, NEW n \in Nat, Start + n <= Len(code), NoBreak(Start, Start + n - 1)
  PROVE  Located(Position(Column, Column + n))
<1> DEFINE s == LineStart(Start)
<1>1. /\ Start \in Nat /\ Len(code) \in Nat /\ Column \in Nat
      /\ LineOf(Start) = line_number /\ Column <= ColumnOf(Start)
  BY StartInSource, StartPlaced DEF CursorOK, PlacedAt
<1>2. /\ s \in 0 .. Start /\ ColumnOf(Start) = Start - s
      /\ \A q \in Before(Start) : q <= s
  BY <1>1, LineStarts, Columns
<1> HIDE DEF s
<1>3. \A q \in s .. Start - 1 : code[q + 1] # LineFeed
  <2> SUFFICES ASSUME NEW q \in s .. Start - 1, code[q + 1] = LineFeed PROVE FALSE
    OBVIOUS
  <2>1. q + 1 \in 1 .. Start
    BY <1>1, <1>2
  <2>2. q + 1 \in Before(Start)
    BY <2>1 DEF Before
  <2> QED
    BY <1>2, <2>2
<1>4. LineOf(s) = line_number /\ ColumnOf(s) = 0
  <2>1. LineOf(Start) = LineOf(s) /\ ColumnOf(Start) = ColumnOf(s) + (Start - s)
    BY <1>1, <1>2, <1>3, SameLine
  <2>2. ColumnOf(s) \in Nat
    BY <1>2, Columns
  <2> QED
    BY <1>1, <1>2, <2>1, <2>2
<1>5. s + (Column + n) <= Start + n
  BY <1>1, <1>2
<1>6. NoBreak(s, s + (Column + n) - 1)
  <2> DEFINE l == s + (Column + n) - 1
             m == Start + n - 1
  <2>1. \A q \in s .. l - 1 : q \in s .. Start - 1 \/ q \in Start .. m - 1
    BY <1>1, <1>2, <1>5
  <2>2. NoBreak(Start, m)
    OBVIOUS
  <2> HIDE DEF l, m
  <2>3. NoBreak(s, l)
    BY <1>3, <2>1, <2>2 DEF NoBreak
  <2> QED
    BY <2>3 DEF l
<1>7. s \in 0 .. Len(code) /\ s + (Column + n) <= Len(code)
  BY <1>1, <1>2, <1>5
<1> DEFINE pos == Position(Column, Column + n)
<1>8. pos.line_number = line_number /\ pos.col_start = Column /\ pos.col_end = Column + n
  BY DEF Position
<1> HIDE DEF pos
<1>9. Located(pos)
  BY <1>1, <1>4, <1>6, <1>7, <1>8 DEF Located
<1> QED
  BY <1>9 DEF pos

LEMMA LocatedStays ==
  ASSUME code' = code, NEW pos, Located(pos)
  PROVE  Located(pos)'
BY DEF Located, LineOf, ColumnOf, Before, NoBreak

\* The characters an error of a kind is at.
CulpritsOf(kind) ==
  CASE kind = "unclosed_string" -> {"'"}
    [] kind = "unexpected_token" -> {"-", "+"}
    [] OTHER -> {"?"}

\* An error that is reported with a position of n columns from the next token on.
LEMMA ReportsText ==
  ASSUME EInv, Start < Len(code), NEW n \in Nat, NoBreak(Start, Start + n),
         Start + n <= Len(code), NEW o \in Start .. Len(code), NoBreak(Start, o),
         NEW kind \in {"unexpected_token", "unclosed_string", "unexpected_char"},
         CharAt(Start) \in CulpritsOf(kind),
         ReportError(kind, Position(Column, Column + n), o)
  PROVE  Placed' /\ Silent' /\ ErrorsMarkTheirText' /\ ErrorLocated'
<1>1. CursorOK /\ Placed
  BY DEF EInv, IInv
<1>2. Placed'
  BY <1>1, MovesOn DEF ReportError
<1>3. Marks(Position(Column, Column + n), CulpritsOf(kind))
  BY <1>1, AtStart
<1>4. code' = code /\ error' = Position(Column, Column + n) /\ status' = kind
  BY DEF ReportError, MoveTo
<1>5. Silent'
  BY <1>4 DEF Silent
<1> DEFINE pos == Position(Column, Column + n)
<1> HIDE DEF pos
<1>6. Marks(pos, CulpritsOf(kind)) /\ error' = pos
  BY <1>3, <1>4 DEF pos
<1>7. ErrorsMarkTheirText'
  BY <1>4, <1>6
  DEF ErrorsMarkTheirText, Marks, Straight, Covered, CharAt, LineOf, ColumnOf, Before, CulpritsOf
<1>8. ErrorLocated'
  <2>1. NoBreak(Start, Start + n - 1)
    BY <1>1, StartInSource DEF NoBreak, CursorOK
  <2>2. Located(pos)
    BY <1>1, <2>1, LocatedHere DEF pos
  <2>3. PICK u : u = pos /\ Located(u)
    BY <2>2
  <2>4. error' = u /\ Located(u)'
    BY <1>4, <1>6, <2>3, LocatedStays
  <2> QED
    BY <2>4 DEF ErrorLocated
<1> QED
  BY <1>2, <1>5, <1>7, <1>8

\* A step that reports nothing.
LEMMA ReportsNothing ==
  ASSUME EInv, code' = code, error' = error, status = "lexing", status' \in {"lexing", "eof"}
  PROVE  Silent' /\ ErrorsMarkTheirText' /\ ErrorLocated'
<1>1. error' = NULL
  BY DEF EInv, Silent
<1> QED
  BY <1>1 DEF Silent, ErrorsMarkTheirText, ErrorLocated

\* A single character that is no line break.
LEMMA OneChar ==
  ASSUME IInv, Start < Len(code), CharAt(Start) # LineFeed
  PROVE  NoBreak(Start, Start + 1) /\ NoBreak(Start, Start) /\ Start + 1 \in Start .. Len(code)
           /\ Start \in Start .. Len(code)
<1>1. Start \in 0 .. Len(code) /\ Len(code) \in Nat
  BY StartInSource DEF IInv, CursorOK
<1> QED
  BY <1>1 DEF NoBreak, CharAt

LEMMA NextPlaced ==
  ASSUME EInv, Next
  PROVE  Placed' /\ Silent' /\ ErrorsMarkTheirText' /\ ErrorLocated'
<1>0. /\ CursorOK /\ Placed /\ IInv
      /\ Start \in offset .. Len(code) /\ Len(code) \in Nat /\ offset \in Nat
  BY StartInSource DEF EInv, IInv, CursorOK
<1>1. CASE SkipComment
  <2>1. /\ End(Start, Char \ {LineFeed}) \in Start .. Len(code)
        /\ NoBreak(Start, End(Start, Char \ {LineFeed}))
    BY <1>0, Ends DEF CursorOK, NoBreak
  <2> QED
    BY <1>0, <1>1, <2>1, MovesOn, ReportsNothing DEF SkipComment, Peek, MoveTo
<1>2. CASE SkipCarriageReturn
  <2>1. Start \in offset .. Len(code) - 1 /\ CharAt(Start) = CR /\ status = "lexing"
    BY <1>0, <1>2, PeekInSource DEF SkipCarriageReturn, CR, EOF
  <2>2. PlacedAt(Start, line_number, Column) /\ Column \in Nat
    BY <1>0, StartPlaced
  <2>3. LineOf(Start + 1) = line_number /\ Column <= ColumnOf(Start + 1)
    <3>1. /\ LineOf(Start + 1) = LineOf(Start)
          /\ ColumnOf(Start + 1) = ColumnOf(Start) + ((Start + 1) - Start)
      BY <1>0, <2>1, SameLine, OneChar, SMTT(30) DEF NoBreak, CR, LineFeed
    <3>2. Start \in Nat /\ ColumnOf(Start) \in Nat
      BY <1>0, Columns
    <3> QED
      BY <1>0, <2>2, <3>1, <3>2 DEF PlacedAt
  <2>4. Returned(Start + 1, line_number, Column)
    <3>1. CASE Column = ColumnOf(Start)
      <4>1. LineOf(Start) = line_number /\ ColumnOf(Start) <= Column
        BY <2>2, <3>1 DEF PlacedAt
      <4>2. Start \in 0 .. (Start + 1) - 1
        BY <1>0
      <4> QED
        BY <2>1, <4>1, <4>2 DEF Returned
    <3>2. CASE Returned(Start, line_number, Column)
      BY <1>0, <3>2 DEF Returned
    <3> QED
      BY <2>2, <3>1, <3>2 DEF PlacedAt
  <2>5. PlacedAt(Start + 1, line_number, Column)
    BY <2>3, <2>4 DEF PlacedAt
  <2>6. /\ code' = code /\ offset' = Start + 1 /\ line_number' = line_number
        /\ column' = Column /\ error' = error /\ status' = status
    BY <1>2 DEF SkipCarriageReturn
  <2>7. Placed'
    BY <2>5, <2>6 DEF Placed, PlacedAt, Returned, LineOf, ColumnOf, Before, CharAt
  <2> QED
    BY <2>1, <2>6, <2>7, ReportsNothing
<1>3. CASE LexInt
  <2> DEFINE first == IF CharAt(Start) \in Digit THEN Start ELSE Start + 1
             last == End(first, Digit)
  <2>1. PICK n \in Scanned(Literal(Text(Start, last))) : Deliver("INT", n, last)
    BY <1>3 DEF LexInt
  <2>2. /\ Start \in offset .. Len(code) - 1 /\ status = "lexing"
        /\ CharAt(Start) \in Digit \cup {"-", "+"}
    BY <1>0, <1>3, DigitsAreNoEOF, PeekInSource DEF LexInt, EOF
  <2>3. first \in Start .. Start + 1 /\ first \in 0 .. Len(code)
    BY <1>0, <2>2
  <2>4. /\ last \in first .. Len(code)
        /\ \A q \in first .. last - 1 : code[q + 1] \in Digit
    <3> HIDE DEF first
    <3> QED
      BY <1>0, <2>3, Ends DEF CursorOK
  <2>5. code[Start + 1] # LineFeed
    BY <1>0, <2>2, DigitsAreNoEOF DEF CharAt, LineFeed
  <2>6. NoBreak(Start, last)
    <3>1. \A q \in Start .. last - 1 : q = Start \/ q \in first .. last - 1
      BY <1>0, <2>3, <2>4
    <3> QED
      BY <2>4, <2>5, <3>1, DigitsAreNoEOF DEF NoBreak
  <2>7. last \in Start .. Len(code)
    BY <1>0, <2>3, <2>4
  <2> HIDE DEF last
  <2> QED
    BY <1>0, <2>1, <2>2, <2>6, <2>7, MovesOn, ReportsNothing DEF Deliver, MoveTo
<1>4. CASE LoneSign
  <2>1. /\ Start < Len(code) /\ status = "lexing" /\ CharAt(Start) \in {"-", "+"}
    BY <1>0, <1>4, PeekInSource DEF LoneSign, EOF
  <2>2. /\ NoBreak(Start, Start + 1) /\ Start + 1 \in Start .. Len(code)
        /\ Start + 1 <= Len(code)
    BY <1>0, <2>1, OneChar DEF LineFeed
  <2>3. CharAt(Start) \in CulpritsOf("unexpected_token")
    BY <2>1 DEF CulpritsOf
  <2> QED
    BY <1>4, <2>1, <2>2, <2>3, ReportsText DEF LoneSign
<1>5. CASE LexString
  <2>1. Start \in offset .. Len(code) - 1 /\ status = "lexing" /\ CharAt(Start) = "'"
    BY <1>0, <1>5, PeekInSource DEF LexString, EOF
  <2>2. /\ Closing \in Start + 1 .. Len(code) /\ CharAt(Closing) = "'"
        /\ \A q \in Start + 1 .. Closing - 1 : code[q + 1] # LineFeed
    BY <1>0, <1>5, <2>1, Ends DEF Closing, CursorOK, LexString
  <2>3. Closing + 1 \in Start .. Len(code) /\ code[Closing + 1] = "'" /\ code[Start + 1] = "'"
    BY <1>0, <2>1, <2>2 DEF CharAt, EOF
  <2>4. NoBreak(Start, Closing + 1)
    <3>1. \A q \in Start .. Closing : q = Start \/ q = Closing \/ q \in Start + 1 .. Closing - 1
      BY <1>0, <2>2
    <3>2. (Closing + 1) - 1 = Closing
      BY <2>2
    <3> QED
      BY <2>2, <2>3, <3>1, <3>2 DEF NoBreak, LineFeed
  <2> QED
    BY <1>0, <1>5, <2>1, <2>3, <2>4, MovesOn, ReportsNothing DEF LexString, Deliver, MoveTo
<1>6. CASE UnclosedString
  <2>1. Start \in offset .. Len(code) - 1 /\ status = "lexing" /\ CharAt(Start) = "'"
    BY <1>0, <1>6, PeekInSource DEF UnclosedString, EOF
  <2>2. /\ Closing \in Start + 1 .. Len(code)
        /\ \A q \in Start + 1 .. Closing - 1 : code[q + 1] # LineFeed
    BY <1>0, <2>1, Ends DEF Closing, CursorOK
  <2>3. code[Start + 1] = "'"
    BY <1>0, <2>1 DEF CharAt
  <2>4. NoBreak(Start, Closing)
    <3>1. \A q \in Start .. Closing - 1 : q = Start \/ q \in Start + 1 .. Closing - 1
      BY <1>0, <2>2
    <3> QED
      BY <2>2, <2>3, <3>1 DEF NoBreak, LineFeed
  <2> DEFINE n == (Closing - Start) - 1
  <2>5. n \in Nat /\ Start + n <= Len(code) /\ NoBreak(Start, Start + n)
    BY <1>0, <2>2, <2>4 DEF NoBreak
  <2>6. Column + (Closing - Start) - 1 = Column + n
    BY <1>0, <2>2, StartPlaced
  <2>7. CharAt(Start) \in CulpritsOf("unclosed_string")
    BY <2>1 DEF CulpritsOf
  <2>8. Closing \in Start .. Len(code) /\ Start < Len(code)
    BY <1>0, <2>1, <2>2
  <2>9. ReportError("unclosed_string", Position(Column, Column + n), Closing)
    BY <1>6, <2>6 DEF UnclosedString
  <2> HIDE DEF n
  <2> QED
    BY <2>4, <2>5, <2>7, <2>8, <2>9, ReportsText
<1>7. CASE LexNewLine
  <2>1. Start \in offset .. Len(code) - 1 /\ status = "lexing" /\ CharAt(Start) = LineFeed
    BY <1>0, <1>7, PeekInSource DEF LexNewLine, LineFeed, EOF
  <2>2. code[Start + 1] = LineFeed
    BY <1>0, <2>1 DEF CharAt
  <2>3. LineOf(Start) = line_number
    BY <1>0, StartPlaced DEF PlacedAt
  <2>4. PlacedAt(Start + 1, line_number + 1, 0)
    BY <1>0, <2>2, <2>3, NextLine DEF PlacedAt
  <2>5. /\ code' = code /\ offset' = Start + 1 /\ line_number' = line_number + 1
        /\ column' = 0 /\ error' = error /\ status' = status
    BY <1>7 DEF LexNewLine
  <2>6. Placed'
    BY <2>4, <2>5 DEF Placed, PlacedAt, Returned, LineOf, ColumnOf, Before, CharAt
  <2> QED
    BY <2>1, <2>5, <2>6, ReportsNothing
<1>8. CASE LexSingleChar
  <2>1. EOF \notin DOMAIN Punctuation /\ LineFeed \notin DOMAIN Punctuation
    BY DEF Punctuation, EOF, LineFeed
  <2>2. Start < Len(code) /\ status = "lexing" /\ CharAt(Start) # LineFeed
    BY <1>0, <1>8, <2>1, PeekInSource DEF LexSingleChar
  <2> QED
    BY <1>0, <1>8, <2>2, OneChar, MovesOn, ReportsNothing DEF LexSingleChar, Deliver, MoveTo
<1>9. CASE LexSymbol
  <2>1. /\ SymbolEnd \in Start .. Len(code)
        /\ \A q \in Start .. SymbolEnd - 1 : code[q + 1] \in Letter \cup Digit
    BY <1>0, Ends DEF SymbolEnd, CursorOK
  <2>2. NoBreak(Start, SymbolEnd)
    BY <2>1, DigitsAreNoEOF DEF NoBreak, Letter, LineFeed
  <2> QED
    BY <1>0, <1>9, <2>1, <2>2, MovesOn, ReportsNothing DEF LexSymbol, Deliver, MoveTo, Peek
<1>10. CASE LexEof
  <2>1. NoBreak(Start, Start) /\ Start \in Start .. Len(code)
    BY <1>0 DEF NoBreak
  <2> QED
    BY <1>0, <1>10, <2>1, MovesOn, ReportsNothing DEF LexEof, MoveTo, Peek
<1>11. CASE UnexpectedChar
  <2>1. Start < Len(code) /\ status = "lexing" /\ CharAt(Start) = "?"
    BY <1>0, <1>11, PeekInSource DEF UnexpectedChar, EOF
  <2>2. /\ NoBreak(Start, Start + 1) /\ Start + 1 <= Len(code)
        /\ NoBreak(Start, Start) /\ Start \in Start .. Len(code)
    BY <1>0, <2>1, OneChar DEF LineFeed
  <2>3. CharAt(Start) \in CulpritsOf("unexpected_char")
    BY <2>1 DEF CulpritsOf
  <2> QED
    BY <1>11, <2>1, <2>2, <2>3, ReportsText DEF UnexpectedChar
<1>12. CASE Stopped
  BY <1>12 DEF Stopped, vars, EInv, Placed, PlacedAt, Returned, Silent, ErrorsMarkTheirText,
               ErrorLocated, Located, NoBreak, Straight, Covered, CharAt, LineOf, ColumnOf, Before
<1> QED
  BY <1>1, <1>2, <1>3, <1>4, <1>5, <1>6, <1>7, <1>8, <1>9, <1>10, <1>11, <1>12 DEF Next

LEMMA InitEInv == Init => EInv
<1> SUFFICES ASSUME Init PROVE EInv
  OBVIOUS
<1>1. offset = 0 /\ line_number = 1 /\ column = 0 /\ error = NULL /\ status = "lexing"
  BY DEF Init
<1>2. Before(0) = {}
  BY DEF Before
<1>3. LineOf(0) = 1
  BY <1>2, FS_EmptySet DEF LineOf
<1>4. ColumnOf(0) = 0
  BY Columns
<1> QED
  BY <1>1, <1>3, <1>4, InitIInv DEF EInv, Placed, PlacedAt, Silent, ErrorsMarkTheirText, ErrorLocated

LEMMA NextEInv == EInv /\ [Next]_vars => EInv'
<1> SUFFICES ASSUME EInv, [Next]_vars PROVE EInv'
  OBVIOUS
<1>1. IInv'
  BY NextIInv DEF EInv
<1>2. CASE Next
  BY <1>1, <1>2, NextPlaced DEF EInv
<1>3. CASE UNCHANGED vars
  BY <1>1, <1>3 DEF vars, EInv, Placed, PlacedAt, Returned, Silent, ErrorsMarkTheirText,
                    ErrorLocated, Located, NoBreak, Straight, Covered, CharAt, LineOf, ColumnOf, Before
<1> QED
  BY <1>2, <1>3

\* The position of an error, which unclosed strings compute back from the cursor,
\* starts at the character that is wrong and stays in its line: for every source.
THEOREM ErrorsMarked == Spec => []ErrorsMarkTheirText
BY InitEInv, NextEInv, PTL DEF Spec, EInv

-----------------------------------------------------------------------------
(* Positions delimit their tokens *)

\* What a token says of the text it was made from.
Reads(t, text) ==
  IF t.type = "INT" THEN t.value \in Scanned(Literal(text)) ELSE text \in WrittenAs(t)

\* The token's position covers the text from a to b, which it was made from.
Spans(t, a, b) ==
  /\ a < b
  /\ Covered(t.pos) = a .. b - 1
  /\ t.pos.col_end - t.pos.col_start = b - a
  /\ Reads(t, Text(a, b))

Delimited(t) ==
  t.type # "EOF" /\ Straight(t.pos) => \E a, b \in 0 .. Len(code) : Spans(t, a, b)

DInv == EInv /\ \A k \in DOMAIN tokens : Delimited(tokens[k])

\* A position from the next token up to e covers the characters in between: no
\* line break is among them, but for the last.
LEMMA CoversText ==
  ASSUME CursorOK, Placed, NEW e \in Start + 1 .. Len(code), NoBreak(Start, e - 1),
         Straight(Position(Column, Column + (e - Start)))
  PROVE  Covered(Position(Column, Column + (e - Start))) = Start .. e - 1
<1> DEFINE pos == Position(Column, Column + (e - Start))
<1>1. /\ Start \in 0 .. Len(code) - 1 /\ Column \in Nat /\ Len(code) \in Nat
      /\ Start \in Nat /\ e \in Nat /\ Start < e /\ e <= Len(code)
  BY StartInSource, StartPlaced DEF CursorOK
<1>2. LineOf(Start) = line_number /\ ColumnOf(Start) = Column
  <2>1. Start < Len(code) /\ e - Start \in Nat
    BY <1>1
  <2> QED
    BY <2>1, StartExact
<1>3. /\ pos.line_number = line_number
      /\ pos.col_start = Column
      /\ pos.col_end = Column + (e - Start)
  BY DEF Position
<1> HIDE DEF pos
<1>4. ASSUME NEW o \in Covered(pos) PROVE o \in Start .. e - 1
  <2>1. /\ o \in 0 .. Len(code) - 1 /\ o \in Nat /\ LineOf(o) = line_number
        /\ ColumnOf(o) \in Column .. Column + (e - Start) - 1
    BY <1>1, <1>3 DEF Covered
  <2>2. ColumnOf(o) - ColumnOf(Start) = o - Start
    BY <1>1, <1>2, <2>1, OnePlace
  <2>3. ColumnOf(o) \in Nat
    BY <2>1, Columns
  <2> QED
    BY <1>1, <1>2, <2>1, <2>2, <2>3
<1>5. ASSUME NEW o \in Start .. e - 1 PROVE o \in Covered(pos)
  <2>1. o \in Nat /\ Start <= o /\ o \in 0 .. Len(code) - 1
    BY <1>1
  <2>2. \A q \in Start .. o - 1 : code[q + 1] # LineFeed
    BY <1>1, <2>1 DEF NoBreak
  <2>3. LineOf(o) = LineOf(Start) /\ ColumnOf(o) = ColumnOf(Start) + (o - Start)
    BY <1>1, <2>1, <2>2, SameLine
  <2>4. ColumnOf(o) \in pos.col_start .. pos.col_end - 1
    <3>1. ColumnOf(o) = Column + (o - Start) /\ o < e
      BY <1>1, <1>2, <2>3
    <3>2. ColumnOf(o) \in Column .. (Column + (e - Start)) - 1
      BY <1>1, <2>1, <3>1
    <3> QED
      BY <1>3, <3>2
  <2>5. LineOf(o) = pos.line_number
    BY <1>2, <1>3, <2>3
  <2> QED
    BY <2>1, <2>4, <2>5 DEF Covered
<1> QED
  BY <1>4, <1>5 DEF pos

\* A token delivered with such a position.
LEMMA DelimitedHere ==
  ASSUME CursorOK, Placed, NEW t, NEW e \in Start + 1 .. Len(code), NoBreak(Start, e - 1),
         t.pos = Position(Column, Column + (e - Start)), Reads(t, Text(Start, e))
  PROVE  Delimited(t)
<1> SUFFICES ASSUME Straight(t.pos)
             PROVE  \E a, b \in 0 .. Len(code) : Spans(t, a, b)
  BY DEF Delimited
<1>1. /\ Start \in 0 .. Len(code) /\ e \in 0 .. Len(code) /\ Column \in Nat
      /\ Start < e /\ Start \in Nat /\ e \in Nat
  BY StartInSource, StartPlaced DEF CursorOK
<1>2. Covered(t.pos) = Start .. e - 1
  <2>1. Straight(Position(Column, Column + (e - Start)))
    OBVIOUS
  <2> QED
    BY <2>1, CoversText
<1>3. t.pos.col_end - t.pos.col_start = e - Start
  BY <1>1 DEF Position
<1>4. Spans(t, Start, e)
  BY <1>1, <1>2, <1>3 DEF Spans
<1> QED
  BY <1>1, <1>4

\* What a position covers does not change.
LEMMA DelimitedStays ==
  ASSUME code' = code, NEW t, Delimited(t)
  PROVE  Delimited(t)'
BY DEF Delimited, Straight, Spans, Covered, Reads, Text, CharAt, LineOf, ColumnOf, Before

\* A step that delivers the text from the next token up to e as the token t.
Adds(t, e) ==
  /\ tokens' = Append(tokens, t)
  /\ offset' = e
  /\ code' = code
  /\ status = "lexing" /\ status' = "lexing"
  /\ t.type # "EOF"
  /\ t.pos = Position(Column, Column + (e - Start))
  /\ NoBreak(Start, e - 1)
  /\ Reads(t, Text(Start, e))
  /\ t.type = "SYMBOL" => column' = t.pos.col_end /\ CharAt(e) \notin Letter \cup Digit

TokenStep == LexInt \/ LexString \/ LexNewLine \/ LexSingleChar \/ LexSymbol

LEMMA TextOfOne ==
  ASSUME CursorOK, NEW o \in 0 .. Len(code) - 1
  PROVE  Text(o, o + 1) = <<code[o + 1]>>
<1>1. /\ Len(code) \in Nat /\ code \in Seq(Char)
      /\ o + 1 \in 1 .. Len(code) /\ o + 1 \in 1 .. Len(code) + 1
  BY DEF CursorOK
<1>2. /\ Len(SubSeq(code, o + 1, o + 1)) = 1
      /\ SubSeq(code, o + 1, o + 1) \in Seq(Char)
      /\ SubSeq(code, o + 1, o + 1)[1] = code[o + 1]
  BY <1>1
<1> DEFINE s == SubSeq(code, o + 1, o + 1)
<1>3. s \in Seq(Char) /\ Len(s) = 1 /\ s[1] = code[o + 1]
  BY <1>2
<1> HIDE DEF s
<1>4. s = <<code[o + 1]>>
  BY <1>3
<1> QED
  BY <1>4 DEF s, Text

\* A text between two characters of which the inner ones are another.
LEMMA TextOfQuoted ==
  ASSUME CursorOK, NEW o \in 0 .. Len(code) - 1, NEW p \in o + 1 .. Len(code) - 1
  PROVE  Text(o, p + 1) = <<code[o + 1]>> \o Text(o + 1, p) \o <<code[p + 1]>>
<1>1. /\ Len(code) \in Nat /\ code \in Seq(Char) /\ o \in Nat /\ p \in Nat
      /\ o < p /\ p < Len(code)
  BY DEF CursorOK
<1> DEFINE s == SubSeq(code, o + 1, p + 1)
           m == SubSeq(code, o + 2, p)
           c == <<code[o + 1]>> \o m \o <<code[p + 1]>>
<1>2. s \in Seq(Char) /\ Len(s) = p - o + 1 /\ \A i \in 1 .. p - o + 1 : s[i] = code[o + i]
  BY <1>1
<1>3. m \in Seq(Char) /\ Len(m) = p - o - 1 /\ \A i \in 1 .. p - o - 1 : m[i] = code[o + 1 + i]
  BY <1>1
<1>4. code[o + 1] \in Char /\ code[p + 1] \in Char
  BY <1>1
<1> HIDE DEF m
<1> DEFINE h == <<code[o + 1]>> \o m
<1>50. /\ h \in Seq(Char) /\ Len(h) = p - o
       /\ \A i \in 1 .. p - o : h[i] = IF i = 1 THEN code[o + 1] ELSE m[i - 1]
  BY <1>1, <1>3, <1>4
<1> HIDE DEF h
<1>51. c = h \o <<code[p + 1]>>
  BY DEF h
<1>5. /\ c \in Seq(Char) /\ Len(c) = p - o + 1
      /\ \A i \in 1 .. p - o + 1 :
           c[i] = IF i = 1 THEN code[o + 1]
                  ELSE IF i = p - o + 1 THEN code[p + 1] ELSE m[i - 1]
  <2> HIDE DEF c
  <2>1. /\ c \in Seq(Char) /\ Len(c) = p - o + 1
        /\ \A i \in 1 .. p - o + 1 : c[i] = IF i = p - o + 1 THEN code[p + 1] ELSE h[i]
    <3> DEFINE q == code[p + 1]
               n == p - o
    <3>1. q \in Char /\ n \in Nat /\ h \in Seq(Char) /\ Len(h) = n /\ c = h \o <<q>>
      BY <1>1, <1>4, <1>50, <1>51
    <3> HIDE DEF q, n
    <3>2. <<q>> \in Seq(Char) /\ Len(<<q>>) = 1 /\ <<q>>[1] = q
      BY <3>1
    <3>3. c \in Seq(Char) /\ Len(c) = n + 1
      BY <3>1, <3>2
    <3>4. \A i \in 1 .. n + 1 : c[i] = IF i = n + 1 THEN q ELSE h[i]
      BY <3>1, <3>2
    <3> QED
      BY <3>3, <3>4 DEF q, n
  <2>2. p - o + 1 # 1
    BY <1>1
  <2> QED
    BY <1>1, <1>50, <2>1, <2>2
<1> HIDE DEF s, c
<1>6. \A i \in 1 .. p - o + 1 : s[i] = c[i]
  <2>1. SUFFICES ASSUME NEW i \in 1 .. p - o + 1 PROVE s[i] = c[i]
    OBVIOUS
  <2>2. CASE i = 1
    BY <1>2, <1>5, <2>2
  <2>3. CASE i = p - o + 1
    <3>1. o + i = p + 1 /\ i # 1
      BY <1>1, <2>3
    <3> QED
      BY <1>2, <1>5, <2>3, <3>1
  <2>4. CASE i # 1 /\ i # p - o + 1
    <3>1. i - 1 \in 1 .. p - o - 1 /\ o + 1 + (i - 1) = o + i
      BY <1>1, <2>4
    <3> QED
      BY <1>2, <1>3, <1>5, <2>4, <3>1
  <2> QED
    BY <2>2, <2>3, <2>4
<1>7. s = c
  BY <1>2, <1>5, <1>6
<1>8. (o + 1) + 1 = o + 2
  BY <1>1
<1> QED
  BY <1>7, <1>8 DEF s, c, m, Text

LEMMA TokenAdded ==
  ASSUME IInv, TokenStep
  PROVE  \E t \in Token, e \in Start + 1 .. Len(code) : Adds(t, e)
<1>0. /\ CursorOK
      /\ Start \in offset .. Len(code) /\ Len(code) \in Nat /\ offset \in Nat
      /\ Column \in Nat /\ line_number \in Nat
  <2>1. CursorOK /\ Start \in offset .. Len(code)
    BY StartInSource DEF IInv
  <2> QED
    BY <2>1 DEF CursorOK, Column
\* What every delivery of a text has in common.
<1>00. ASSUME NEW e \in Start + 1 .. Len(code), NEW type \in TokenType \ {"EOF"},
              NEW value \in Word \cup Seq(Char) \cup {NULL}, Deliver(type, value, e),
              status = "lexing", NoBreak(Start, e - 1),
              type = "SYMBOL" => CharAt(e) \notin Letter \cup Digit,
              \A t \in Token : t.type = type /\ t.value = value => Reads(t, Text(Start, e))
       PROVE  \E t \in Token, p \in Start + 1 .. Len(code) : Adds(t, p)
  <2> DEFINE t == [type |-> type, value |-> value,
                   pos |-> Position(Column, Column + (e - Start))]
  <2>1. Column + (e - Start) \in Nat
    BY <1>0
  <2>2. t \in Token
    BY <1>0, <2>1 DEF Token, Position
  <2>3. /\ tokens' = Append(tokens, t) /\ offset' = e /\ code' = code /\ status' = status
        /\ column' = Column + (e - Start)
    BY <1>00 DEF Deliver, MoveTo
  <2>4. t.type = type /\ t.value = value /\ t.pos = Position(Column, Column + (e - Start))
    OBVIOUS
  <2>5. t.pos.col_end = Column + (e - Start)
    BY DEF Position
  <2> HIDE DEF t
  <2>6. Adds(t, e)
    BY <1>00, <2>2, <2>3, <2>4, <2>5 DEF Adds
  <2> QED
    BY <2>2, <2>6
<1>1. CASE LexInt
  <2> DEFINE first == IF CharAt(Start) \in Digit THEN Start ELSE Start + 1
             last == End(first, Digit)
  <2>1. PICK n \in Scanned(Literal(Text(Start, last))) : Deliver("INT", n, last)
    BY <1>1 DEF LexInt
  <2>2. /\ Start \in offset .. Len(code) - 1 /\ status = "lexing"
        /\ CharAt(Start) \in Digit \cup {"-", "+"}
        /\ CharAt(last - 1) \in Digit
    BY <1>1, DigitsAreNoEOF, PeekInSource DEF LexInt, EOF
  <2>3. first \in Start .. Start + 1 /\ first \in 0 .. Len(code)
    BY <1>0, <2>2
  <2>4. /\ last \in first .. Len(code)
        /\ last = Len(code) \/ code[last + 1] \notin Digit
        /\ \A q \in first .. last - 1 : code[q + 1] \in Digit
    <3> HIDE DEF first
    <3> QED
      BY <1>0, <2>3, Ends DEF CursorOK
  <2>5. code[Start + 1] # LineFeed
    BY <1>0, <2>2, DigitsAreNoEOF DEF CharAt, LineFeed
  <2>6. NoBreak(Start, last - 1)
    <3>1. \A q \in Start .. (last - 1) - 1 : q = Start \/ q \in first .. last - 1
      BY <1>0, <2>3, <2>4
    <3> QED
      BY <2>4, <2>5, <3>1, DigitsAreNoEOF DEF NoBreak
  <2>7. last # Start
    <3>1. SUFFICES ASSUME last = Start PROVE FALSE
      OBVIOUS
    <3>2. first = Start /\ CharAt(Start) \in Digit
      BY <1>0, <2>3, <2>4, <3>1
    <3>3. code[last + 1] \in Digit /\ last # Len(code)
      BY <1>0, <2>2, <3>1, <3>2 DEF CharAt
    <3> QED
      BY <2>4, <3>3
  <2>8. last \in Start + 1 .. Len(code)
    BY <1>0, <2>3, <2>4, <2>7
  <2>9. n \in Word
    BY <2>1 DEF Scanned
  <2> HIDE DEF last
  <2>10. \A t \in Token : t.type = "INT" /\ t.value = n => Reads(t, Text(Start, last))
    BY <2>1 DEF Reads
  <2>11. "INT" \in TokenType \ {"EOF"} /\ n \in Word \cup Seq(Char) \cup {NULL}
    BY <2>9 DEF TokenType
  <2>12. status = "lexing"
    BY <2>2
  <2> QED
    BY <1>00, <2>1, <2>6, <2>8, <2>10, <2>11, <2>12
<1>2. CASE LexString
  <2>1. Start \in offset .. Len(code) - 1 /\ status = "lexing" /\ CharAt(Start) = "'"
    BY <1>2, PeekInSource DEF LexString, EOF
  <2>2. /\ Closing \in Start + 1 .. Len(code) /\ CharAt(Closing) = "'"
        /\ \A q \in Start + 1 .. Closing - 1 : code[q + 1] # LineFeed
    BY <1>0, <1>2, <2>1, Ends DEF Closing, CursorOK, LexString
  <2>3. /\ Closing + 1 \in Start + 1 .. Len(code) /\ Closing \in Start + 1 .. Len(code) - 1
        /\ code[Closing + 1] = "'" /\ code[Start + 1] = "'"
    BY <1>0, <2>1, <2>2 DEF CharAt, EOF
  <2>4. NoBreak(Start, (Closing + 1) - 1)
    <3>1. \A q \in Start .. (Closing + 1) - 1 - 1 : q = Start \/ q \in Start + 1 .. Closing - 1
      BY <1>0, <2>2
    <3> QED
      BY <2>2, <2>3, <3>1 DEF NoBreak, LineFeed
  <2>5. Text(Start + 1, Closing) \in Seq(Char)
    BY <1>0, <2>2 DEF Text, CursorOK
  <2>6. Text(Start, Closing + 1) = <<"'">> \o Text(Start + 1, Closing) \o <<"'">>
    <3>1. Start \in 0 .. Len(code) - 1
      BY <1>0, <2>1
    <3> QED
      BY <1>0, <2>3, <3>1, TextOfQuoted
  <2>7. \A t \in Token : t.type = "STRING" /\ t.value = Text(Start + 1, Closing)
                           => Reads(t, Text(Start, Closing + 1))
    BY <2>6 DEF Reads, WrittenAs
  <2> QED
    BY <1>00, <1>2, <2>1, <2>3, <2>4, <2>5, <2>7 DEF LexString, TokenType
<1>3. CASE LexNewLine
  <2>1. Start \in offset .. Len(code) - 1 /\ status = "lexing" /\ CharAt(Start) = LineFeed
    BY <1>3, PeekInSource DEF LexNewLine, LineFeed, EOF
  <2> DEFINE t == [type |-> "NEW_LINE", value |-> NULL, pos |-> Position(Column, Column + 1)]
  <2>2. t \in Token /\ t.type = "NEW_LINE" /\ t.pos = Position(Column, Column + 1)
    BY <1>0 DEF Token, Position, TokenType
  <2>3. tokens' = Append(tokens, t) /\ offset' = Start + 1 /\ code' = code /\ status' = status
    BY <1>3 DEF LexNewLine
  <2> HIDE DEF t
  <2>4. Start + 1 \in Start + 1 .. Len(code) /\ (Start + 1) - Start = 1
    BY <1>0, <2>1
  <2>5. NoBreak(Start, (Start + 1) - 1)
    BY <1>0 DEF NoBreak
  <2>6. Reads(t, Text(Start, Start + 1))
    <3>1. Start \in 0 .. Len(code) - 1 /\ code[Start + 1] = LineFeed
      BY <1>0, <2>1 DEF CharAt
    <3> QED
      BY <1>0, <2>2, <3>1, TextOfOne DEF Reads, WrittenAs
  <2>7. Adds(t, Start + 1)
    BY <2>1, <2>2, <2>3, <2>4, <2>5, <2>6 DEF Adds
  <2> QED
    BY <2>2, <2>4, <2>7
<1>4. CASE LexSingleChar
  <2>1. /\ Start \in offset .. Len(code) - 1 /\ status = "lexing"
        /\ CharAt(Start) \in DOMAIN Punctuation
    BY <1>4, PeekInSource DEF LexSingleChar, EOF, Punctuation
  <2> DEFINE type == Punctuation[CharAt(Start)]
  <2>2. type \in TokenType \ {"EOF", "INT", "SYMBOL", "STRING", "NEW_LINE"}
    BY <2>1 DEF Punctuation, TokenType
  <2>3. Deliver(type, NULL, Start + 1) /\ Start + 1 \in Start + 1 .. Len(code)
    BY <1>0, <1>4, <2>1 DEF LexSingleChar
  <2>4. NoBreak(Start, (Start + 1) - 1)
    BY <1>0 DEF NoBreak
  <2>5. Text(Start, Start + 1) = <<CharAt(Start)>>
    <3>1. Start \in 0 .. Len(code) - 1 /\ code[Start + 1] = CharAt(Start)
      BY <1>0, <2>1 DEF CharAt
    <3> QED
      BY <1>0, <3>1, TextOfOne
  <2>6. Text(Start, Start + 1) \in {<<c>> : c \in {d \in DOMAIN Punctuation : Punctuation[d] = type}}
    BY <2>1, <2>5
  <2> HIDE DEF type
  <2>7. \A t \in Token : t.type = type /\ t.value = NULL => Reads(t, Text(Start, Start + 1))
    BY <2>2, <2>6 DEF Reads, WrittenAs
  <2> QED
    BY <1>00, <2>1, <2>2, <2>3, <2>4, <2>7
<1>5. CASE LexSymbol
  <2>1. Start \in offset .. Len(code) - 1 /\ status = "lexing" /\ CharAt(Start) \in Letter
    BY <1>5, PeekInSource DEF LexSymbol, Letter, EOF
  <2>2. /\ SymbolEnd \in Start .. Len(code)
        /\ SymbolEnd = Len(code) \/ code[SymbolEnd + 1] \notin Letter \cup Digit
        /\ \A q \in Start .. SymbolEnd - 1 : code[q + 1] \in Letter \cup Digit
    BY <1>0, Ends DEF SymbolEnd, CursorOK
  <2>3. NoBreak(Start, SymbolEnd - 1)
    BY <1>0, <2>2, DigitsAreNoEOF DEF NoBreak, Letter, LineFeed
  <2>4. SymbolEnd # Start
    BY <1>0, <2>1, <2>2 DEF CharAt
  <2>5. SymbolEnd \in Start + 1 .. Len(code)
    BY <1>0, <2>2, <2>4
  <2>6. Text(Start, SymbolEnd) \in Seq(Char)
    BY <1>0, <2>2 DEF Text, CursorOK
  <2>7. \A t \in Token : t.type = "SYMBOL" /\ t.value = Text(Start, SymbolEnd)
                           => Reads(t, Text(Start, SymbolEnd))
    BY DEF Reads, WrittenAs
  <2>8. CharAt(SymbolEnd) \notin Letter \cup Digit
    BY <1>0, <2>2, DigitsAreNoEOF DEF CharAt, Letter, EOF
  <2> QED
    BY <1>00, <1>5, <2>1, <2>3, <2>5, <2>6, <2>7, <2>8 DEF LexSymbol, TokenType
<1> QED
  BY <1>1, <1>2, <1>3, <1>4, <1>5 DEF TokenStep

\* The other steps read no token, or the end of the source.
LEMMA OtherSteps ==
  ASSUME Next, ~TokenStep
  PROVE  /\ code' = code
         /\ \/ tokens' = tokens
            \/ LexEof
BY DEF Next, TokenStep, SkipComment, SkipCarriageReturn, LoneSign, UnclosedString,
       UnexpectedChar, ReportError, Stopped, vars, MoveTo, LexEof

LEMMA NextDelimited ==
  ASSUME DInv, Next
  PROVE  (\A k \in DOMAIN tokens : Delimited(tokens[k]))'
<1>0. CursorOK /\ IInv /\ Placed /\ tokens \in Seq(Token)
  BY DEF DInv, EInv, IInv, TokensOK
<1>1. ASSUME NEW t, Delimited(t) \/ t.type = "EOF", code' = code, tokens' = Append(tokens, t)
      PROVE  (\A k \in DOMAIN tokens : Delimited(tokens[k]))'
  <2> SUFFICES ASSUME NEW k \in DOMAIN tokens' PROVE Delimited(tokens[k])'
    OBVIOUS
  <2>1. tokens'[k] = t \/ (k \in DOMAIN tokens /\ tokens'[k] = tokens[k])
    BY <1>0, <1>1
  <2>2. PICK u : u = tokens'[k] /\ Delimited(u)
    BY <1>1, <2>1 DEF DInv, Delimited
  <2> QED
    BY <1>1, <2>2, DelimitedStays
<1>2. CASE TokenStep
  <2>1. PICK t \in Token, e \in Start + 1 .. Len(code) : Adds(t, e)
    BY <1>0, <1>2, TokenAdded
  <2>2. Delimited(t)
    BY <1>0, <2>1, DelimitedHere DEF Adds
  <2> QED
    BY <1>1, <2>1, <2>2 DEF Adds
<1>3. CASE ~TokenStep /\ tokens' = tokens
  <2>1. code' = code
    BY <1>3, OtherSteps
  <2>2. ASSUME NEW k \in DOMAIN tokens' PROVE Delimited(tokens[k])'
    <3>1. PICK u : u = tokens'[k] /\ Delimited(u)
      BY <1>3, <2>2 DEF DInv
    <3> QED
      BY <2>1, <3>1, DelimitedStays
  <2> QED
    BY <2>2
<1>4. CASE LexEof
  <2> DEFINE t == [type |-> "EOF", value |-> NULL,
                   pos |-> [line_number |-> 0, col_start |-> 0, col_end |-> 0]]
  <2>1. t.type = "EOF" /\ tokens' = Append(tokens, t) /\ code' = code
    BY <1>4 DEF LexEof, MoveTo
  <2> HIDE DEF t
  <2> QED
    BY <1>1, <2>1
<1> QED
  BY <1>2, <1>3, <1>4, OtherSteps

LEMMA InitDInv == Init => DInv
<1> SUFFICES ASSUME Init PROVE DInv
  OBVIOUS
<1>1. tokens = << >>
  BY DEF Init
<1> QED
  BY <1>1, InitEInv DEF DInv

LEMMA NextDInv == DInv /\ [Next]_vars => DInv'
<1> SUFFICES ASSUME DInv, [Next]_vars PROVE DInv'
  OBVIOUS
<1>1. EInv'
  BY NextEInv DEF DInv
<1>2. CASE Next
  BY <1>1, <1>2, NextDelimited DEF DInv
<1>3. CASE UNCHANGED vars
  <2>1. code' = code /\ tokens' = tokens
    BY <1>3 DEF vars
  <2>2. ASSUME NEW k \in DOMAIN tokens' PROVE Delimited(tokens[k])'
    <3>1. PICK u : u = tokens'[k] /\ Delimited(u)
      BY <2>1, <2>2 DEF DInv
    <3> QED
      BY <2>1, <3>1, DelimitedStays
  <2> QED
    BY <1>1, <2>2 DEF DInv
<1> QED
  BY <1>2, <1>3

LEMMA IntervalEnds ==
  ASSUME NEW a \in Int, NEW b \in Int, a < b
  PROVE  Min(a .. b - 1) = a /\ Max(a .. b - 1) = b - 1 /\ Cardinality(a .. b - 1) = b - a
<1> DEFINE I == a .. b - 1
<1>1. a \in I /\ b - 1 \in I /\ \A x \in I : a <= x /\ b - 1 >= x
  OBVIOUS
<1>2. I \in SUBSET Int
  OBVIOUS
<1>3. Cardinality(I) = b - a
  BY FS_Interval
<1> HIDE DEF I
<1>4. Min(I) \in I /\ \A y \in I : Min(I) <= y
  BY <1>1 DEF Min
<1>5. Max(I) \in I /\ \A y \in I : Max(I) >= y
  BY <1>1 DEF Max
<1>6. Min(I) = a
  <2>1. Min(I) \in Int /\ Min(I) <= a /\ a <= Min(I)
    BY <1>1, <1>2, <1>4
  <2> QED
    BY <2>1
<1>7. Max(I) = b - 1
  <2>1. Max(I) \in Int /\ Max(I) >= b - 1 /\ b - 1 >= Max(I)
    BY <1>1, <1>2, <1>5
  <2> QED
    BY <2>1
<1> QED
  BY <1>3, <1>6, <1>7 DEF I

\* What the position of a delimited token covers is the text it was made from.
LEMMA MarkedIsText ==
  ASSUME CursorOK, NEW t, NEW a \in Nat, NEW b \in Nat, Spans(t, a, b)
  PROVE  /\ Cardinality(Covered(t.pos)) = t.pos.col_end - t.pos.col_start
         /\ Marked(t.pos) = Text(a, b)
<1>1. a < b /\ Covered(t.pos) = a .. b - 1 /\ t.pos.col_end - t.pos.col_start = b - a
  BY DEF Spans
<1>2. Min(a .. b - 1) = a /\ Max(a .. b - 1) = b - 1 /\ Cardinality(a .. b - 1) = b - a
  BY <1>1, IntervalEnds
<1>3. (b - 1) + 1 = b
  OBVIOUS
<1> QED
  BY <1>1, <1>2, <1>3 DEF Marked

LEMMA DInvDelimits == DInv => PositionsDelimit
<1> SUFFICES ASSUME DInv, NEW k \in DOMAIN tokens,
                    tokens[k].type # "EOF" /\ Straight(tokens[k].pos)
             PROVE  LET t == tokens[k] IN
                      /\ Cardinality(Covered(t.pos)) = t.pos.col_end - t.pos.col_start
                      /\ IF t.type = "INT"
                         THEN t.value \in Scanned(Literal(Marked(t.pos)))
                         ELSE Marked(t.pos) \in WrittenAs(t)
  BY DEF PositionsDelimit
<1>1. PICK a, b \in 0 .. Len(code) : Spans(tokens[k], a, b)
  BY DEF DInv, Delimited
<1>2. CursorOK /\ a \in Nat /\ b \in Nat
  BY DEF DInv, EInv, IInv, CursorOK
<1>3. /\ Cardinality(Covered(tokens[k].pos)) = tokens[k].pos.col_end - tokens[k].pos.col_start
      /\ Marked(tokens[k].pos) = Text(a, b)
  BY <1>1, <1>2, MarkedIsText
<1>4. Reads(tokens[k], Text(a, b))
  BY <1>1 DEF Spans
<1> QED
  BY <1>3, <1>4 DEF Reads

\* Where a token says it is, its text stands, and the value of an integer is the
\* one written there if it is a word: for every source.
THEOREM PositionsRight == Spec => []PositionsDelimit
BY InitDInv, NextDInv, DInvDelimits, PTL DEF Spec

-----------------------------------------------------------------------------
(* Nothing is left unread *)

\* The two characters that the SMT format gives a meaning of its own, by name.
Blank == " "
Semicolon == ";"

LEMMA Literals == Blank # LineFeed /\ Semicolon # LineFeed /\ Blank # Semicolon /\ Semicolon # EOF
BY Zenon DEF Blank, Semicolon, LineFeed, EOF

NoReturns == \A o \in 0 .. Len(code) - 1 : CharAt(o) # CR

TokensBehind == \A k \in DOMAIN tokens : Covered(tokens[k].pos) \subseteq 0 .. offset - 1

\* One token has the character, or it is blank or in a comment.
ReadAt(o) ==
  /\ \A j, k \in Owners(o) : j = k
  /\ Owners(o) = {} => CharAt(o) = Blank \/ InComment(o)
  /\ InComment(o) => Owners(o) = {}

Read == \A o \in 0 .. offset - 1 : ReadAt(o)

\* A semicolon that is in no token.
OpensComment(q) == CharAt(q) = Semicolon /\ Owners(q) = {}

\* Behind a comment the line is over.
CommentOver ==
  \A q \in 0 .. offset - 1 :
    OpensComment(q) /\ LineOf(q) = LineOf(offset) =>
      offset = Len(code) \/ CharAt(offset) = LineFeed

\* Behind a name the cursor is at its end, in front of no letter or digit, or
\* further on.
NameOver ==
  tokens # << >> /\ tokens[Len(tokens)].type = "SYMBOL" =>
    LET last == tokens[Len(tokens)].pos.col_end
    IN  /\ last <= column
        /\ last = column => CharAt(offset) \notin Letter \cup Digit

Apart(t, u) ==
  t.type = "SYMBOL" /\ u.type # "EOF" /\ u.pos.col_start = t.pos.col_end =>
    Marked(u.pos)[1] \notin Letter \cup Digit

NamesWhole == \A k \in 1 .. Len(tokens) - 1 : Apart(tokens[k], tokens[k + 1])

Clean ==
  /\ NamesWhole
  /\ status \in {"lexing", "eof"} => TokensBehind /\ Read /\ CommentOver
  /\ status = "lexing" => NameOver
  /\ status = "eof" => CharAt(offset) = EOF

RInv == DInv /\ (NoReturns => Clean)

LEMMA LinesGrow ==
  ASSUME NEW o \in Nat, NEW p \in Nat, o <= p
  PROVE  LineOf(o) <= LineOf(p)
<1>1. Before(o) \in SUBSET Before(p)
  BY DEF Before
<1>2. Cardinality(Before(o)) <= Cardinality(Before(p))
  BY <1>1, BeforeFinite, FS_Subset
<1> QED
  BY <1>2, BeforeFinite DEF LineOf

\* Between the cursor and the next token there are blanks.
LEMMA BlanksBefore ==
  ASSUME CursorOK, NEW o \in Nat, offset <= o, o < Start
  PROVE  CharAt(o) = Blank
<1>1. \A q \in offset .. Start - 1 : code[q + 1] = Blank
  <2>1. \A q \in offset .. Start - 1 : code[q + 1] \in {" "}
    BY Ends DEF CursorOK, Start
  <2> QED
    BY <2>1, Zenon DEF Blank
<1>2. Start \in offset .. Len(code) /\ offset \in Nat /\ Len(code) \in Nat
  BY StartInSource DEF CursorOK
<1>3. o \in offset .. Start - 1 /\ o < Len(code)
  BY <1>2
<1>4. code[o + 1] = Blank
  BY <1>1, <1>3
<1> QED
  BY <1>3, <1>4 DEF CharAt

\* The line that a comment is in does not go on behind the cursor.
LEMMA NoCommentGoesOn ==
  ASSUME CursorOK, CommentOver, Start < Len(code), CharAt(Start) # LineFeed,
         NEW q \in Nat, q < offset, OpensComment(q)
  PROVE  LineOf(q) # LineOf(offset)
<1>1. Start \in offset .. Len(code)
  BY StartInSource
<1>2. offset \in Nat /\ Len(code) \in Nat
  BY DEF CursorOK
<1>3. SUFFICES offset # Len(code) /\ CharAt(offset) # LineFeed
  BY <1>2 DEF CommentOver
<1>4. CASE Start = offset
  BY <1>1, <1>2, <1>4
<1>5. CASE Start # offset
  <2>1. offset < Start
    BY <1>1, <1>2, <1>5
  <2>2. CharAt(offset) = Blank
    BY <1>2, <2>1, BlanksBefore
  <2> QED
    BY <1>1, <1>2, <2>1, <2>2, Literals
<1> QED
  BY <1>4, <1>5

\* The owners of a character, behind a step.
LEMMA OwnersThen ==
  ASSUME code' = code, NEW o
  PROVE  Owners(o)' = {k \in DOMAIN tokens' : o \in Covered(tokens'[k].pos)}
BY DEF Owners, Covered, LineOf, ColumnOf, Before

LEMMA OwnersBehind ==
  ASSUME TokensBehind, CursorOK, NEW o \in Nat, o >= offset
  PROVE  Owners(o) = {}
BY DEF TokensBehind, Owners, CursorOK

\* Behind the cursor nothing changes by what is read in front of it.
LEMMA ReadStays ==
  ASSUME code' = code, NEW o \in Nat, ReadAt(o), \A q \in 0 .. o : Owners(q)' = Owners(q)
  PROVE  ReadAt(o)'
<1>1. Owners(o)' = Owners(o)
  OBVIOUS
<1>2. InComment(o)' <=> InComment(o)
  BY DEF InComment, CharAt, LineOf, Before
<1>3. CharAt(o)' = CharAt(o)
  BY DEF CharAt
<1> QED
  BY <1>1, <1>2, <1>3 DEF ReadAt

\* A step that goes on to e through blanks and a text read from the next token on.
LEMMA ReadOn ==
  ASSUME CursorOK, Read, TokensBehind, code' = code, NEW e \in Start .. Len(code), offset' = e,
         \A o \in 0 .. Start - 1 : Owners(o)' = Owners(o),
         \A o \in Start .. e - 1 : ReadAt(o)'
  PROVE  Read'
<1>1. Start \in offset .. Len(code) /\ offset \in Nat /\ Len(code) \in Nat
  BY StartInSource DEF CursorOK
<1> SUFFICES ASSUME NEW o \in 0 .. e - 1 PROVE ReadAt(o)'
  BY DEF Read
<1>2. CASE o < offset
  <2>1. ReadAt(o) /\ o \in Nat
    BY <1>1, <1>2 DEF Read
  <2>2. \A q \in 0 .. o : Owners(q)' = Owners(q)
    BY <1>1, <1>2
  <2> QED
    BY <2>1, <2>2, ReadStays
<1>3. CASE offset <= o /\ o < Start
  <2>1. Owners(o)' = {}
    BY <1>1, <1>3, OwnersBehind
  <2>2. CharAt(o)' = Blank
    <3>1. o \in Nat
      BY <1>1
    <3> QED
      BY <1>3, <3>1, BlanksBefore DEF CharAt
  <2> QED
    BY <2>1, <2>2 DEF ReadAt
<1>4. CASE o \in Start .. e - 1
  BY <1>4
<1> QED
  BY <1>1, <1>2, <1>3, <1>4

LEMMA ApartStays ==
  ASSUME code' = code, NEW t, NEW u, Apart(t, u)
  PROVE  Apart(t, u)'
BY DEF Apart, Marked, Covered, LineOf, ColumnOf, Before, Text

LEMMA LineOfStart ==
  ASSUME CursorOK, Placed
  PROVE  LineOf(Start) = LineOf(offset)
<1>1. Start \in offset .. Len(code) /\ offset \in Nat /\ Len(code) \in Nat
  BY StartInSource DEF CursorOK
<1>2. \A q \in offset .. Start - 1 : code[q + 1] # LineFeed
  BY StartPlaced DEF NoBreak
<1> QED
  BY <1>1, <1>2, SameLine

\* A token that is added has its text to itself.
LEMMA AddsOwner ==
  ASSUME CursorOK, TokensOK, Placed, NoReturns, TokensBehind,
         NEW t \in Token, NEW e \in Start + 1 .. Len(code), Adds(t, e)
  PROVE  /\ Covered(t.pos) = Start .. e - 1
         /\ \A o \in 0 .. Start - 1 : Owners(o)' = Owners(o)
         /\ \A o \in Start .. e - 1 : Owners(o)' = {Len(tokens) + 1}
<1>1. Start \in offset .. Len(code) /\ offset \in Nat /\ Len(code) \in Nat
  BY StartInSource DEF CursorOK
<1>2. Covered(t.pos) = Start .. e - 1
  <2>1. Straight(Position(Column, Column + (e - Start)))
    BY DEF NoReturns, Straight
  <2> QED
    BY <2>1, CoversText DEF Adds
<1>3. ASSUME NEW o \in Nat
      PROVE  Owners(o)' = Owners(o) \cup {k \in {Len(tokens) + 1} : o \in Covered(t.pos)}
  <2>1. /\ DOMAIN tokens' = DOMAIN tokens \cup {Len(tokens) + 1}
        /\ \A k \in DOMAIN tokens : tokens'[k] = tokens[k] /\ k # Len(tokens) + 1
        /\ tokens'[Len(tokens) + 1] = t
    BY DEF Adds, TokensOK
  <2>2. code' = code
    BY DEF Adds
  <2>3. Owners(o)' = {k \in DOMAIN tokens' : o \in Covered(tokens'[k].pos)}
    BY <2>2, OwnersThen
  <2> QED
    BY <2>1, <2>3, Zenon DEF Owners
<1>4. ASSUME NEW o \in 0 .. Start - 1 PROVE Owners(o)' = Owners(o)
  <2>1. o \notin Covered(t.pos) /\ o \in Nat
    BY <1>1, <1>2
  <2> QED
    BY <1>3, <2>1
<1>5. ASSUME NEW o \in Start .. e - 1 PROVE Owners(o)' = {Len(tokens) + 1}
  <2>1. o \in Covered(t.pos) /\ o \in Nat /\ o >= offset
    BY <1>1, <1>2
  <2>2. Owners(o) = {}
    BY <2>1, OwnersBehind
  <2> QED
    BY <1>3, <2>1, <2>2
<1> QED
  BY <1>2, <1>4, <1>5

LEMMA AddsClean ==
  ASSUME CursorOK, TokensOK, Placed, NoReturns, TokensBehind, Read, CommentOver,
         NEW t \in Token, NEW e \in Start + 1 .. Len(code), Adds(t, e)
  PROVE  TokensBehind' /\ Read' /\ CommentOver'
<1>1. Start \in offset .. Len(code) /\ offset \in Nat /\ Len(code) \in Nat
  BY StartInSource DEF CursorOK
<1>2. /\ code' = code /\ offset' = e /\ tokens' = Append(tokens, t)
      /\ NoBreak(Start, e - 1)
  BY DEF Adds
<1>3. /\ Covered(t.pos) = Start .. e - 1
      /\ \A o \in 0 .. Start - 1 : Owners(o)' = Owners(o)
      /\ \A o \in Start .. e - 1 : Owners(o)' = {Len(tokens) + 1}
  BY AddsOwner
<1>4. TokensBehind'
  <2> SUFFICES ASSUME NEW k \in DOMAIN tokens' PROVE Covered(tokens[k].pos)' \subseteq 0 .. e - 1
    BY <1>2 DEF TokensBehind
  <2>1. tokens'[k] = t \/ (k \in DOMAIN tokens /\ tokens'[k] = tokens[k])
    BY <1>2 DEF TokensOK
  <2>2. PICK u : u = tokens'[k] /\ Covered(u.pos) \subseteq 0 .. e - 1
    <3>1. Covered(t.pos) \subseteq 0 .. e - 1
      BY <1>1, <1>3
    <3>2. ASSUME k \in DOMAIN tokens, tokens'[k] = tokens[k]
          PROVE  Covered(tokens[k].pos) \subseteq 0 .. e - 1
      <4>1. Covered(tokens[k].pos) \subseteq 0 .. offset - 1
        BY <3>2 DEF TokensBehind
      <4> QED
        BY <1>1, <4>1
    <3> QED
      BY <2>1, <3>1, <3>2
  <2> QED
    BY <1>2, <2>2 DEF Covered, LineOf, ColumnOf, Before
\* No comment that is open here was not open before.
<1>5. ASSUME NEW q \in Nat, q < e, OpensComment(q)'
      PROVE  q < offset /\ OpensComment(q)
  <2>1. CharAt(q) = Semicolon
    BY <1>2, <1>5 DEF OpensComment, CharAt
  <2>2. Owners(q)' = {}
    BY <1>5 DEF OpensComment
  <2>3. ~(Start <= q)
    <3>1. SUFFICES ASSUME Start <= q PROVE FALSE
      OBVIOUS
    <3>2. q \in Start .. e - 1
      BY <1>1, <1>5, <3>1
    <3>3. Owners(q)' = {Len(tokens) + 1}
      BY <1>3, <3>2
    <3> QED
      BY <2>2, <3>3
  <2>4. ~(offset <= q)
    <3>1. SUFFICES ASSUME offset <= q PROVE FALSE
      OBVIOUS
    <3>2. q < Start
      BY <1>1, <2>3
    <3>3. CharAt(q) = Blank
      BY <3>1, <3>2, BlanksBefore
    <3> QED
      BY <2>1, <3>3, Literals
  <2>5. Owners(q)' = Owners(q)
    BY <1>1, <1>3, <2>3
  <2>6. q < offset
    BY <1>1, <2>4
  <2> QED
    BY <2>1, <2>2, <2>5, <2>6 DEF OpensComment
<1>6. ASSUME CharAt(Start) = LineFeed
      PROVE  e = Start + 1 /\ code[Start + 1] = LineFeed
  <2>1. code[Start + 1] = LineFeed
    BY <1>1, <1>6 DEF CharAt
  <2>2. Start \notin Start .. (e - 1) - 1
    BY <1>2, <2>1 DEF NoBreak
  <2> QED
    BY <1>1, <2>1, <2>2
<1>7. Read'
  <2>1. ASSUME NEW o \in Start .. e - 1 PROVE ~InComment(o)'
    <3>1. SUFFICES ASSUME CharAt(o)' # LineFeed, NEW q \in 0 .. o, OpensComment(q)',
                          LineOf(q)' = LineOf(o)'
                   PROVE  FALSE
      <4>1. InComment(o)' <=> /\ CharAt(o)' # LineFeed
                              /\ \E q \in 0 .. o : OpensComment(q)' /\ LineOf(q)' = LineOf(o)'
        BY <1>2, Zenon DEF InComment, OpensComment, Semicolon
      <4> QED
        BY <3>1, <4>1
    <3>2. q < offset /\ OpensComment(q) /\ q \in Nat
      <4>1. q \in Nat /\ q < e
        BY <1>1
      <4> QED
        BY <1>5, <3>1, <4>1
    <3>3. LineOf(o) = LineOf(Start)
      <4>1. \A p \in Start .. o - 1 : code[p + 1] # LineFeed
        BY <1>1, <1>2 DEF NoBreak
      <4> QED
        BY <1>1, <4>1, SameLine
    <3>4. LineOf(q) = LineOf(offset)
      BY <1>2, <3>1, <3>3, LineOfStart DEF LineOf, Before
    <3>5. CharAt(Start) = LineFeed
      <4>1. Start < Len(code)
        BY <1>1
      <4> QED
        BY <3>2, <3>4, <4>1, NoCommentGoesOn
    <3>6. o = Start
      BY <1>1, <1>6, <3>5
    <3> QED
      BY <1>2, <3>1, <3>5, <3>6 DEF CharAt
  <2>2. \A o \in Start .. e - 1 : ReadAt(o)'
    BY <1>3, <2>1 DEF ReadAt
  <2>3. e \in Start .. Len(code)
    BY <1>1
  <2> QED
    BY <1>2, <1>3, <2>2, <2>3, ReadOn
<1>8. CommentOver'
  <2>1. SUFFICES ASSUME NEW q \in 0 .. e - 1, OpensComment(q)', LineOf(q) = LineOf(e)
                 PROVE  FALSE
    BY <1>2 DEF CommentOver, LineOf, Before
  <2>2. q < offset /\ OpensComment(q) /\ q \in Nat
    <3>1. q \in Nat /\ q < e
      BY <1>1
    <3> QED
      BY <1>5, <2>1, <3>1
  <2>3. LineOf(q) = LineOf(offset) /\ LineOf(Start) = LineOf(offset) /\ LineOf(e) = LineOf(Start)
    <3>1. LineOf(q) <= LineOf(offset) /\ LineOf(Start) <= LineOf(e)
      BY <1>1, <2>2, LinesGrow
    <3>2. LineOf(Start) = LineOf(offset)
      BY LineOfStart
    <3>3. LineOf(q) \in Nat /\ LineOf(offset) \in Nat /\ LineOf(e) \in Nat
      <4>1. e \in Nat
        BY <1>1
      <4> QED
        BY <1>1, <2>2, <4>1, Columns
    <3> QED
      BY <2>1, <3>1, <3>2, <3>3
  <2>4. CharAt(Start) = LineFeed
    <3>1. Start < Len(code)
      BY <1>1
    <3> QED
      BY <2>2, <2>3, <3>1, NoCommentGoesOn
  <2>5. LineOf(Start + 1) = LineOf(Start) + 1 /\ LineOf(Start) \in Nat
    <3>1. Start \in Nat /\ code[Start + 1] = LineFeed
      BY <1>1, <1>6, <2>4
    <3> QED
      BY <3>1, NextLine, Columns
  <2> QED
    BY <1>6, <2>3, <2>4, <2>5
<1> QED
  BY <1>4, <1>7, <1>8

LEMMA SameOwners ==
  ASSUME code' = code, tokens' = tokens, NEW o
  PROVE  Owners(o)' = Owners(o)
BY DEF Owners, Covered, LineOf, ColumnOf, Before

\* What tokens cover stays behind a cursor that moves on.
LEMMA BehindStays ==
  ASSUME CursorOK, TokensBehind, code' = code, tokens' = tokens, offset' \in Nat,
         offset' >= offset
  PROVE  TokensBehind'
<1> SUFFICES ASSUME NEW k \in DOMAIN tokens PROVE Covered(tokens[k].pos)' \subseteq 0 .. offset' - 1
  BY DEF TokensBehind
<1>1. Covered(tokens[k].pos)' = Covered(tokens[k].pos)
  BY DEF Covered, LineOf, ColumnOf, Before
<1>2. offset \in Nat
  BY DEF CursorOK
<1> QED
  BY <1>1, <1>2 DEF TokensBehind

LEMMA CommentClean ==
  ASSUME IInv, Placed, TokensBehind, Read, SkipComment
  PROVE  TokensBehind' /\ Read' /\ CommentOver'
<1> DEFINE e == End(Start, Char \ {LineFeed})
<1>0. /\ offset \in Nat /\ Len(code) \in Nat /\ code \in Seq(Char) /\ CursorOK
  BY DEF IInv, CursorOK
<1>1. PICK s \in Nat : s = Start /\ s >= offset /\ s < Len(code) /\ CharAt(s) = Semicolon
  <2>1. Peek({Semicolon})
    BY Zenon DEF SkipComment, Semicolon
  <2>2. Start \in offset .. Len(code) - 1 /\ CharAt(Start) = Semicolon
    BY <2>1, PeekInSource, Literals
  <2>3. Start \in Nat /\ Start >= offset /\ Start < Len(code)
    BY <1>0, <2>2
  <2> QED
    BY <2>2, <2>3
<1>2. /\ e \in s .. Len(code)
      /\ e = Len(code) \/ code[e + 1] \notin Char \ {LineFeed}
      /\ \A q \in s .. e - 1 : code[q + 1] \in Char \ {LineFeed}
  BY <1>0, <1>1, Ends
<1>3. code' = code /\ tokens' = tokens /\ offset' = e
  BY DEF SkipComment, MoveTo
<1> HIDE DEF e
<1>4. e \in Nat /\ e >= offset
  BY <1>0, <1>1, <1>2
<1>5. \A o \in Nat : Owners(o)' = Owners(o)
  BY <1>3, SameOwners
<1>6. ASSUME NEW o \in s .. e - 1 PROVE ReadAt(o)'
  <2>1. o \in Nat /\ o >= offset /\ o < Len(code)
    BY <1>0, <1>1, <1>2
  <2>2. Owners(o)' = {}
    BY <1>0, <1>5, <2>1, OwnersBehind
  <2>3. Owners(s)' = {}
    <3>1. s \in Nat /\ s >= offset
      BY <1>1
    <3> QED
      BY <1>0, <1>5, <3>1, OwnersBehind
  <2>4. LineOf(o)' = LineOf(s)'
    <3>1. \A q \in s .. o - 1 : code[q + 1] # LineFeed
      BY <1>1, <1>2, <2>1
    <3>2. s <= o /\ s \in Nat
      BY <1>1, <2>1
    <3>3. LineOf(o) = LineOf(s)
      BY <2>1, <3>1, <3>2, SameLine
    <3> QED
      BY <1>3, <3>3 DEF LineOf, Before
  <2>5. CharAt(o)' # LineFeed
    BY <1>2, <1>3, <2>1 DEF CharAt
  <2>6. CharAt(s)' = Semicolon
    BY <1>1, <1>3 DEF CharAt
  <2>7. s \in 0 .. o
    BY <1>1, <2>1
  <2>8. InComment(o)'
    BY <2>3, <2>4, <2>5, <2>6, <2>7, Zenon DEF InComment, Semicolon
  <2> QED
    BY <2>2, <2>8 DEF ReadAt
<1>7. TokensBehind'
  BY <1>0, <1>3, <1>4, BehindStays
<1>8. Read'
  <2>1. \A o \in 0 .. Start - 1 : Owners(o)' = Owners(o)
    BY <1>1, <1>5
  <2>2. \A o \in Start .. e - 1 : ReadAt(o)'
    BY <1>1, <1>6
  <2>3. e \in Start .. Len(code)
    BY <1>1, <1>2
  <2> QED
    BY <1>0, <1>3, <2>1, <2>2, <2>3, ReadOn
<1>9. CommentOver'
  <2>1. e = Len(code) \/ CharAt(e) = LineFeed
    <3>1. CASE e = Len(code)
      BY <3>1
    <3>2. CASE e # Len(code)
      <4>1. e < Len(code)
        BY <1>0, <1>1, <1>2, <3>2
      <4>2. code[e + 1] \in Char
        BY <1>0, <1>4, <4>1
      <4> QED
        BY <1>2, <4>1, <4>2 DEF CharAt
    <3> QED
      BY <3>1, <3>2
  <2> QED
    BY <1>3, <2>1 DEF CommentOver, CharAt
<1> QED
  BY <1>7, <1>8, <1>9

LEMMA EofClean ==
  ASSUME IInv, Placed, TokensBehind, Read, CommentOver, LexEof
  PROVE  TokensBehind' /\ Read' /\ CommentOver'
<1>1. /\ Start \in offset .. Len(code) /\ offset \in Nat /\ Len(code) \in Nat /\ CursorOK
  BY StartInSource DEF IInv, CursorOK
<1> DEFINE t == [type |-> "EOF", value |-> NULL,
                 pos |-> [line_number |-> 0, col_start |-> 0, col_end |-> 0]]
<1>2. code' = code /\ tokens' = Append(tokens, t) /\ offset' = Start
  BY DEF LexEof, MoveTo
<1>3. Covered(t.pos) = {}
  <2>1. t.pos.line_number = 0
    OBVIOUS
  <2>2. \A o \in 0 .. Len(code) - 1 : LineOf(o) # 0
    BY <1>1, BeforeFinite DEF LineOf
  <2> HIDE DEF t
  <2> QED
    BY <2>1, <2>2 DEF Covered
<1> HIDE DEF t
<1>4. /\ DOMAIN tokens' = DOMAIN tokens \cup {Len(tokens) + 1}
      /\ \A k \in DOMAIN tokens : tokens'[k] = tokens[k]
      /\ tokens'[Len(tokens) + 1] = t
  BY <1>2 DEF IInv, TokensOK
<1>5. ASSUME NEW o \in Nat PROVE Owners(o)' = Owners(o)
  <2>1. Owners(o)' = {k \in DOMAIN tokens' : o \in Covered(tokens'[k].pos)}
    BY <1>2, OwnersThen
  <2> QED
    BY <1>3, <1>4, <2>1, Zenon DEF Owners
<1>6. TokensBehind'
  <2> SUFFICES ASSUME NEW k \in DOMAIN tokens', NEW o \in Covered(tokens'[k].pos)
               PROVE  o \in 0 .. Start - 1
    BY <1>2 DEF TokensBehind, Covered, LineOf, ColumnOf, Before
  <2>1. k \in DOMAIN tokens /\ o \in Covered(tokens[k].pos)
    BY <1>3, <1>4
  <2>2. o \in 0 .. offset - 1
    BY <2>1 DEF TokensBehind
  <2> QED
    BY <1>1, <2>2
<1>7. Read'
  <2>1. \A o \in 0 .. Start - 1 : Owners(o)' = Owners(o)
    BY <1>1, <1>5
  <2>2. \A o \in Start .. Start - 1 : ReadAt(o)'
    BY <1>1
  <2>3. Start \in Start .. Len(code)
    BY <1>1
  <2> QED
    BY <1>1, <1>2, <2>1, <2>2, <2>3, ReadOn
<1>8. CommentOver'
  <2>1. SUFFICES ASSUME NEW q \in 0 .. Start - 1, OpensComment(q)', LineOf(q) = LineOf(Start)
                 PROVE  Start = Len(code) \/ CharAt(Start) = LineFeed
    BY <1>2 DEF CommentOver, LineOf, Before, CharAt
  <2>2. q \in Nat /\ q < Start
    BY <1>1
  <2>3. CharAt(q) = Semicolon /\ Owners(q) = {}
    BY <1>2, <1>5, <2>1, <2>2 DEF OpensComment, CharAt
  <2>4. q < offset
    <3>1. SUFFICES ASSUME offset <= q PROVE FALSE
      BY <1>1, <2>2
    <3>2. CharAt(q) = Blank
      BY <1>1, <2>2, <3>1, BlanksBefore
    <3> QED
      BY <2>3, <3>2, Literals
  <2>5. OpensComment(q) /\ LineOf(q) = LineOf(offset)
    BY <1>1, <2>1, <2>3, LineOfStart DEF OpensComment
  <2>6. SUFFICES ASSUME Start < Len(code), CharAt(Start) # LineFeed PROVE FALSE
    BY <1>1
  <2> QED
    BY <1>1, <2>2, <2>4, <2>5, <2>6, NoCommentGoesOn
<1> QED
  BY <1>6, <1>7, <1>8

LEMMA NamesClean ==
  ASSUME CursorOK, TokensOK, Placed, NoReturns, TokensBehind, NameOver, NamesWhole,
         NEW t \in Token, NEW e \in Start + 1 .. Len(code), Adds(t, e)
  PROVE  NamesWhole' /\ NameOver'
<1>1. /\ Start \in offset .. Len(code) /\ offset \in Nat /\ Len(code) \in Nat
      /\ column \in Nat /\ Column = column + (Start - offset)
  BY StartInSource DEF CursorOK, Column
<1>2. /\ code' = code /\ offset' = e /\ tokens' = Append(tokens, t) /\ tokens \in Seq(Token)
      /\ t.pos = Position(Column, Column + (e - Start))
      /\ t.type = "SYMBOL" => column' = t.pos.col_end /\ CharAt(e) \notin Letter \cup Digit
  BY DEF Adds, TokensOK
<1> DEFINE n == Len(tokens)
<1>3. n \in Nat /\ Len(tokens') = n + 1 /\ tokens'[n + 1] = t
      /\ \A k \in 1 .. n : tokens'[k] = tokens[k]
  BY <1>2
<1> HIDE DEF n
<1>4. NameOver'
  <2> SUFFICES ASSUME t.type = "SYMBOL"
               PROVE  t.pos.col_end <= column' /\ CharAt(offset)' \notin Letter \cup Digit
    BY <1>3 DEF NameOver
  <2>1. t.pos.col_end \in Nat
    BY DEF Token
  <2>2. t.pos.col_end <= column'
    BY <1>2, <2>1
  <2>3. CharAt(offset)' \notin Letter \cup Digit
    BY <1>2 DEF CharAt
  <2> QED
    BY <2>2, <2>3
<1>5. ASSUME n # 0 PROVE Apart(tokens[n], t)
  <2> SUFFICES ASSUME tokens[n].type = "SYMBOL", t.pos.col_start = tokens[n].pos.col_end
               PROVE  Marked(t.pos)[1] \notin Letter \cup Digit
    BY DEF Apart
  <2>1. /\ tokens[n].pos.col_end <= column
        /\ tokens[n].pos.col_end = column => CharAt(offset) \notin Letter \cup Digit
    BY <1>3, <1>5 DEF NameOver, n
  <2>2. t.pos.col_start = Column
    BY <1>2 DEF Position
  <2>3. Start = offset /\ CharAt(Start) \notin Letter \cup Digit
    BY <1>1, <2>1, <2>2
  <2>4. Spans(t, Start, e)
    <3>1. Covered(t.pos) = Start .. e - 1
      BY AddsOwner
    <3>2. t.pos.col_end - t.pos.col_start = e - Start
      BY <1>1, <1>2 DEF Position
    <3>3. Reads(t, Text(Start, e)) /\ Start < e
      BY <1>1 DEF Adds
    <3> QED
      BY <3>1, <3>2, <3>3 DEF Spans
  <2>5. Start \in Nat /\ e \in Nat /\ Start < e /\ e <= Len(code) /\ code \in Seq(Char)
    BY <1>1 DEF CursorOK
  <2>6. Marked(t.pos) = Text(Start, e)
    BY <2>4, <2>5, MarkedIsText
  <2>7. Text(Start, e)[1] = code[Start + 1]
    BY <2>5 DEF Text
  <2>8. code[Start + 1] = CharAt(Start)
    BY <2>5, <1>1 DEF CharAt
  <2> QED
    BY <2>3, <2>6, <2>7, <2>8
<1>6. NamesWhole'
  <2> SUFFICES ASSUME NEW k \in 1 .. n PROVE Apart(tokens[k], tokens[k + 1])'
    BY <1>3 DEF NamesWhole
  <2>1. PICK u, v : u = tokens'[k] /\ v = tokens'[k + 1] /\ Apart(u, v)
    <3>1. CASE k = n
      BY <1>3, <1>5, <3>1
    <3>2. CASE k < n
      <4>1. k + 1 \in 1 .. n /\ k \in 1 .. n - 1
        BY <1>3, <3>2
      <4> QED
        BY <1>3, <4>1 DEF NamesWhole, n
    <3> QED
      BY <1>3, <3>1, <3>2
  <2> QED
    BY <1>2, <2>1, ApartStays
<1> QED
  BY <1>4, <1>6

\* A step that reads no token leaves the tokens apart.
LEMMA NamesStay ==
  ASSUME TokensOK, NamesWhole, code' = code,
         \/ tokens' = tokens
         \/ \E t : t.type = "EOF" /\ tokens' = Append(tokens, t)
  PROVE  NamesWhole'
<1> SUFFICES ASSUME NEW k \in 1 .. Len(tokens') - 1 PROVE Apart(tokens[k], tokens[k + 1])'
  BY DEF NamesWhole
<1>1. PICK u, v : u = tokens'[k] /\ v = tokens'[k + 1] /\ Apart(u, v)
  <2>1. CASE tokens' = tokens
    BY <2>1 DEF NamesWhole
  <2>2. ASSUME NEW t, t.type = "EOF", tokens' = Append(tokens, t)
        PROVE  Apart(tokens'[k], tokens'[k + 1])
    <3>1. /\ Len(tokens) \in Nat /\ Len(tokens') = Len(tokens) + 1
          /\ tokens'[Len(tokens) + 1] = t
          /\ \A j \in 1 .. Len(tokens) : tokens'[j] = tokens[j]
      BY <2>2 DEF TokensOK
    <3>2. CASE k = Len(tokens)
      BY <2>2, <3>1, <3>2 DEF Apart
    <3>3. CASE k # Len(tokens)
      <4>1. k \in 1 .. Len(tokens) - 1 /\ k + 1 \in 1 .. Len(tokens) /\ k \in 1 .. Len(tokens)
        BY <3>1, <3>3
      <4> QED
        BY <3>1, <4>1 DEF NamesWhole
    <3> QED
      BY <3>2, <3>3
  <2> QED
    BY <2>1, <2>2
<1> QED
  BY <1>1, ApartStays

LEMMA CommentNames ==
  ASSUME IInv, NameOver, SkipComment
  PROVE  NameOver'
<1>1. tokens' = tokens /\ column' = Column + (End(Start, Char \ {LineFeed}) - Start)
  BY DEF SkipComment, MoveTo
<1>2. Start \in offset .. Len(code) /\ CharAt(Start) = Semicolon /\ EOF # Semicolon
  <2>1. Peek({Semicolon})
    BY Zenon DEF SkipComment, Semicolon
  <2> QED
    BY <2>1, PeekInSource, StartInSource, Literals DEF IInv, Peek
<1>3. /\ offset \in Nat /\ Len(code) \in Nat /\ Start \in Nat /\ code \in Seq(Char)
      /\ column \in Nat /\ Column = column + (Start - offset) /\ Start >= offset
      /\ Start \in 0 .. Len(code)
  BY <1>2 DEF IInv, CursorOK, Column
<1> DEFINE e == End(Start, Char \ {LineFeed})
<1>4. e \in Start .. Len(code) /\ (e = Len(code) \/ code[e + 1] \notin Char \ {LineFeed})
  BY <1>3, Ends
<1> HIDE DEF e
<1>5. e # Start
  <2>1. SUFFICES ASSUME e = Start PROVE FALSE
    OBVIOUS
  <2>2. Start < Len(code) /\ code[Start + 1] = Semicolon
    BY <1>2, <1>3 DEF CharAt
  <2>3. code[Start + 1] \in Char
    BY <1>3, <2>2
  <2> QED
    BY <1>3, <1>4, <2>1, <2>2, <2>3, Literals
<1>6. column' \in Nat /\ column' > column
  BY <1>1, <1>3, <1>4, <1>5 DEF e
<1> SUFFICES ASSUME tokens # << >>, tokens[Len(tokens)].type = "SYMBOL"
             PROVE  /\ tokens[Len(tokens)].pos.col_end <= column'
                    /\ tokens[Len(tokens)].pos.col_end # column'
  BY <1>1 DEF NameOver
<1>7. tokens[Len(tokens)].pos.col_end <= column
  BY DEF NameOver
<1>8. tokens[Len(tokens)].pos.col_end \in Nat
  <2>1. tokens \in Seq(Token)
    BY DEF IInv, TokensOK
  <2>2. tokens[Len(tokens)] \in Token
    BY <2>1
  <2> QED
    BY <2>2 DEF Token
<1> QED
  BY <1>3, <1>6, <1>7, <1>8

LEMMA CleanStays ==
  ASSUME IInv, Clean, UNCHANGED vars
  PROVE  Clean'
<1>1. /\ code' = code /\ tokens' = tokens /\ offset' = offset /\ column' = column
      /\ status' = status
  BY DEF vars
<1>2. NamesWhole'
  BY <1>1, NamesStay DEF Clean, IInv
<1>3. offset \in Nat /\ CursorOK
  BY DEF IInv, CursorOK
<1>4. \A o : Owners(o)' = Owners(o)
  BY <1>1, SameOwners
<1>5. ASSUME TokensBehind, Read, CommentOver PROVE TokensBehind' /\ Read' /\ CommentOver'
  <2>1. TokensBehind'
    BY <1>1, <1>3, <1>5, BehindStays
  <2>2. Read'
    <3> SUFFICES ASSUME NEW o \in 0 .. offset - 1 PROVE ReadAt(o)'
      BY <1>1 DEF Read
    <3>1. ReadAt(o) /\ o \in Nat
      BY <1>3, <1>5 DEF Read
    <3> QED
      BY <1>1, <1>4, <3>1, ReadStays
  <2>3. CommentOver'
    BY <1>1, <1>4, <1>5 DEF CommentOver, OpensComment, CharAt, LineOf, Before
  <2> QED
    BY <2>1, <2>2, <2>3
<1>6. NameOver => NameOver'
  BY <1>1 DEF NameOver, CharAt
<1>7. CharAt(offset)' = CharAt(offset)
  BY <1>1 DEF CharAt
<1> QED
  BY <1>1, <1>2, <1>5, <1>6, <1>7 DEF Clean

LEMMA NextClean ==
  ASSUME RInv, Next, NoReturns
  PROVE  Clean'
<1>0. IInv /\ CursorOK /\ TokensOK /\ Placed /\ Clean /\ NamesWhole
  BY DEF RInv, DInv, EInv, IInv, Clean
<1>1. ASSUME status = "lexing" PROVE TokensBehind /\ Read /\ CommentOver /\ NameOver
  BY <1>0, <1>1 DEF Clean
<1>2. CASE TokenStep
  <2>1. PICK t \in Token, e \in Start + 1 .. Len(code) : Adds(t, e)
    BY <1>0, <1>2, TokenAdded
  <2>2. status = "lexing" /\ status' = "lexing"
    BY <2>1 DEF Adds
  <2>3. TokensBehind' /\ Read' /\ CommentOver'
    BY <1>0, <1>1, <2>1, <2>2, AddsClean
  <2>4. NamesWhole' /\ NameOver'
    BY <1>0, <1>1, <2>1, <2>2, NamesClean
  <2> QED
    BY <2>2, <2>3, <2>4 DEF Clean
<1>3. CASE LexEof
  <2>1. /\ status = "lexing" /\ status' = "eof" /\ code' = code /\ offset' = Start
        /\ CharAt(Start) = EOF
    BY <1>3 DEF LexEof, Peek, MoveTo
  <2>2. TokensBehind' /\ Read' /\ CommentOver'
    BY <1>0, <1>1, <1>3, <2>1, EofClean
  <2>3. CharAt(offset)' = EOF
    BY <2>1 DEF CharAt
  <2> DEFINE t == [type |-> "EOF", value |-> NULL,
                   pos |-> [line_number |-> 0, col_start |-> 0, col_end |-> 0]]
  <2>4. t.type = "EOF" /\ tokens' = Append(tokens, t)
    BY <1>3 DEF LexEof
  <2> HIDE DEF t
  <2>5. NamesWhole'
    BY <1>0, <2>1, <2>4, NamesStay
  <2> QED
    BY <2>1, <2>2, <2>3, <2>5 DEF Clean
<1>4. CASE SkipComment
  <2>1. status = "lexing" /\ status' = "lexing" /\ code' = code /\ tokens' = tokens
    BY <1>4, Zenon DEF SkipComment, Peek, MoveTo
  <2>2. TokensBehind' /\ Read' /\ CommentOver'
    BY <1>0, <1>1, <1>4, <2>1, CommentClean
  <2>3. NameOver'
    BY <1>0, <1>1, <1>4, <2>1, CommentNames
  <2>4. NamesWhole'
    BY <1>0, <2>1, NamesStay
  <2> QED
    BY <2>1, <2>2, <2>3, <2>4 DEF Clean
<1>5. CASE SkipCarriageReturn
  <2>1. Start \in offset .. Len(code) - 1 /\ CharAt(Start) = CR
    BY <1>0, <1>5, PeekInSource DEF SkipCarriageReturn, CR, EOF
  <2>2. Start \in 0 .. Len(code) - 1
    BY <1>0, <2>1 DEF CursorOK
  <2> QED
    BY <2>1, <2>2 DEF NoReturns
<1>6. CASE LoneSign \/ UnclosedString \/ UnexpectedChar
  <2>1. /\ status' \in {"unexpected_token", "unclosed_string", "unexpected_char"}
        /\ code' = code /\ tokens' = tokens
    BY <1>6 DEF LoneSign, UnclosedString, UnexpectedChar, ReportError, MoveTo
  <2>2. NamesWhole'
    BY <1>0, <2>1, NamesStay
  <2> QED
    BY <2>1, <2>2 DEF Clean
<1>7. CASE Stopped
  BY <1>0, <1>7, CleanStays DEF Stopped
<1> QED
  BY <1>2, <1>3, <1>4, <1>5, <1>6, <1>7 DEF Next, TokenStep

LEMMA InitRInv == Init => RInv
<1> SUFFICES ASSUME Init PROVE RInv
  OBVIOUS
<1>1. tokens = << >> /\ offset = 0 /\ status = "lexing"
  BY DEF Init
<1>2. TokensBehind /\ Read /\ CommentOver /\ NameOver /\ NamesWhole
  BY <1>1 DEF TokensBehind, Read, CommentOver, NameOver, NamesWhole
<1> QED
  BY <1>1, <1>2, InitDInv DEF RInv, Clean

LEMMA NextRInv == RInv /\ [Next]_vars => RInv'
<1> SUFFICES ASSUME RInv, [Next]_vars PROVE RInv'
  OBVIOUS
<1>1. DInv'
  BY NextDInv DEF RInv
<1>2. code' = code
  BY OtherSteps, TokenAdded DEF Adds, RInv, DInv, EInv, vars
<1>3. NoReturns' <=> NoReturns
  BY <1>2 DEF NoReturns, CharAt
<1>4. ASSUME NoReturns PROVE Clean'
  <2>1. CASE Next
    BY <1>4, <2>1, NextClean
  <2>2. CASE UNCHANGED vars
    BY <1>4, <2>2, CleanStays DEF RInv, DInv, EInv
  <2> QED
    BY <2>1, <2>2
<1> QED
  BY <1>1, <1>3, <1>4 DEF RInv

LEMMA CleanReads == RInv => NothingUnread
<1> SUFFICES ASSUME RInv, NoReturns
             PROVE  /\ status = "eof" =>
                         /\ CharAt(offset) = EOF
                         /\ \A o \in 0 .. offset - 1 :
                              /\ Cardinality(Owners(o)) <= 1
                              /\ Owners(o) = {} => CharAt(o) = Blank \/ InComment(o)
                              /\ InComment(o) => Owners(o) = {}
                    /\ NamesWhole
  BY Zenon DEF NothingUnread, NoReturns, NamesWhole, Apart, Blank
<1>1. Clean
  BY DEF RInv
<1>2. ASSUME status = "eof", NEW o \in 0 .. offset - 1
      PROVE  /\ Cardinality(Owners(o)) <= 1
             /\ Owners(o) = {} => CharAt(o) = Blank \/ InComment(o)
             /\ InComment(o) => Owners(o) = {}
  <2>1. ReadAt(o)
    BY <1>1, <1>2 DEF Clean, Read
  <2>2. Cardinality(Owners(o)) <= 1
    <3>1. CASE Owners(o) = {}
      BY <3>1, FS_EmptySet
    <3>2. CASE Owners(o) # {}
      <4>1. PICK k : k \in Owners(o)
        BY <3>2
      <4>2. Owners(o) = {k}
        BY <2>1, <4>1 DEF ReadAt
      <4> QED
        BY <4>2, FS_Singleton
    <3> QED
      BY <3>1, <3>2
  <2> QED
    BY <2>1, <2>2 DEF ReadAt
<1> QED
  BY <1>1, <1>2 DEF Clean

\* When the end of the source is delivered, every character that was read is in
\* exactly one token, blank or in a comment, nothing ends reading but the end of
\* the source or a byte equal to EOF, and no name is split: for every source.
THEOREM AllRead == Spec => []NothingUnread
BY InitRInv, NextRInv, CleanReads, PTL DEF Spec

-----------------------------------------------------------------------------
(* The line of an error *)

LineEnds == R!LineEnds(code)

\* The range of the line that ends at e.
RangeOf(e) == [line_start |-> LineStart(e), line_end |-> e]

LEMMA EndsTyped ==
  ASSUME code \in Seq(Char)
  PROVE  /\ Len(code) \in Nat
         /\ LineEnds \subseteq 0 .. Len(code)
         /\ \A e \in LineEnds : e \in Nat /\ (e < Len(code) => code[e + 1] = LineFeed)
         /\ \A o \in 0 .. Len(code) - 1 : code[o + 1] = LineFeed => o \in LineEnds
BY DEF LineEnds, R!LineEnds

\* Each line ends somewhere.
LEMMA SomeEnd ==
  ASSUME code \in Seq(Char), NEW s \in 0 .. Len(code)
  PROVE  \E e \in LineEnds : s <= e /\ NoBreak(s, e)
<1> DEFINE S == {e \in LineEnds : s <= e}
<1>1. Len(code) \in S /\ S \in SUBSET Nat
  BY EndsTyped DEF LineEnds, R!LineEnds
<1>2. PICK e \in S : \A m \in S : e <= m
  BY <1>1, Least
<1>3. NoBreak(s, e)
  <2> SUFFICES ASSUME NEW q \in s .. e - 1, code[q + 1] = LineFeed PROVE FALSE
    BY DEF NoBreak
  <2>1. q \in 0 .. Len(code) - 1 /\ s <= q /\ q < e
    BY <1>1, EndsTyped
  <2>2. q \in S
    BY <2>1, EndsTyped
  <2> QED
    BY <1>1, <1>2, <2>1, <2>2
<1> QED
  BY <1>2, <1>3

\* And nowhere else.
LEMMA OneEnd ==
  ASSUME code \in Seq(Char), NEW d \in LineEnds, NEW e \in LineEnds, LineOf(d) = LineOf(e)
  PROVE  d = e
<1>1. SUFFICES ASSUME NEW a \in LineEnds, NEW b \in LineEnds, a < b, LineOf(a) = LineOf(b)
               PROVE  FALSE
  <2>1. d \in Nat /\ e \in Nat
    BY EndsTyped
  <2> QED
    BY <1>1, <2>1
<1>2. a \in Nat /\ b \in Nat /\ code[a + 1] = LineFeed
  BY <1>1, EndsTyped
<1>3. LineOf(a + 1) = LineOf(a) + 1
  BY <1>2, NextLine
<1>4. LineOf(a + 1) <= LineOf(b)
  BY <1>1, <1>2, LinesGrow
<1>5. LineOf(a) \in Nat /\ LineOf(b) \in Nat
  BY <1>2, Columns
<1> QED
  BY <1>1, <1>3, <1>4, <1>5

\* The line ends before e are the line breaks before e: get_line_range, which
\* counts the ones, finds the lines that line breaks make.
LEMMA EndsBefore ==
  ASSUME code \in Seq(Char), NEW e \in LineEnds
  PROVE  LET before == {o \in LineEnds : o < e} IN
           /\ Cardinality(before) = LineOf(e) - 1
           /\ Max({-1} \cup before) + 1 = LineStart(e)
<1> DEFINE B == {o \in LineEnds : o < e}
           f == [o \in B |-> o + 1]
<1>1. e \in 0 .. Len(code) /\ Len(code) \in Nat
  BY EndsTyped
<1>2. \A o \in B : o \in 0 .. Len(code) - 1 /\ o < e /\ o + 1 \in Before(e)
  <2> SUFFICES ASSUME NEW o \in B
               PROVE  o \in 0 .. Len(code) - 1 /\ o < e /\ o + 1 \in Before(e)
    OBVIOUS
  <2>1. o \in 0 .. Len(code) - 1 /\ o < e /\ code[o + 1] = LineFeed
    BY <1>1, EndsTyped
  <2>2. o + 1 \in 1 .. e
    BY <1>1, <2>1
  <2> QED
    BY <2>1, <2>2 DEF Before
<1>3. \A q \in Before(e) : q \in 1 .. e /\ q - 1 \in B
  <2> SUFFICES ASSUME NEW q \in Before(e) PROVE q \in 1 .. e /\ q - 1 \in B
    OBVIOUS
  <2>1. q \in 1 .. e /\ code[q] = LineFeed
    BY DEF Before
  <2>2. q - 1 \in 0 .. Len(code) - 1 /\ (q - 1) + 1 = q /\ q - 1 < e
    BY <1>1, <2>1
  <2>3. q - 1 \in LineEnds
    BY <2>1, <2>2, EndsTyped
  <2> QED
    BY <2>1, <2>2, <2>3
<1> HIDE DEF B
<1>4. Cardinality(B) = Cardinality(Before(e))
  <2>1. f \in [B -> Before(e)]
    BY <1>2
  <2>2. \A o, p \in B : f[o] = f[p] => o = p
    BY <1>2
  <2>3. f \in Injection(B, Before(e))
    BY <2>1, <2>2 DEF Injection, IsInjective
  <2>4. f \in Surjection(B, Before(e))
    <3>1. \A q \in Before(e) : f[q - 1] = q /\ q - 1 \in B
      BY <1>3
    <3> HIDE DEF f
    <3>2. \A q \in Before(e) : \E o \in B : f[o] = q
      BY <3>1
    <3> QED
      BY <2>1, <3>2 DEF Surjection
  <2> HIDE DEF f
  <2>5. IsFiniteSet(Before(e))
    BY <1>1, BeforeFinite
  <2> QED
    BY <2>3, <2>4, <2>5, FS_Injection
<1>5. Cardinality(B) = LineOf(e) - 1
  BY <1>1, <1>4, BeforeFinite DEF LineOf
<1>6. Max({-1} \cup B) + 1 = LineStart(e)
  <2> DEFINE T == {-1} \cup B
             l == LineStart(e)
  <2>1. l \in {0} \cup Before(e) /\ l \in 0 .. e /\ \A q \in Before(e) : q <= l
    BY <1>1, LineStarts
  <2>2. l - 1 \in T
    BY <1>3, <2>1
  <2>3. \A o \in T : o \in Int /\ l - 1 >= o
    <3>1. \A o \in B : o \in Int /\ o + 1 <= l
      BY <1>2, <2>1
    <3> QED
      BY <2>1, <3>1
  <2> HIDE DEF l, T
  <2>4. Max(T) \in T /\ \A y \in T : Max(T) >= y
    BY <2>2, <2>3 DEF Max
  <2>5. Max(T) >= l - 1 /\ l - 1 >= Max(T) /\ Max(T) \in Int /\ l - 1 \in Int
    BY <2>2, <2>3, <2>4
  <2> QED
    BY <1>1, <2>1, <2>5 DEF l, T
<1> QED
  BY <1>5, <1>6 DEF B

LEMMA RangeOfLine ==
  ASSUME code \in Seq(Char), NEW e \in LineEnds
  PROVE  R!get_line_range(code, LineOf(e)) = {RangeOf(e)}
<1> DEFINE feeds == LineOf(e) - 1
           Records == [line_start : 0 .. Len(code), line_end : LineEnds]
           Fits(r) == LET before == {o \in LineEnds : o < r.line_end}
                      IN  Cardinality(before) = feeds /\ r.line_start = Max({-1} \cup before) + 1
<1>1. R!get_line_range(code, LineOf(e)) = {r \in Records : Fits(r)}
  BY DEF R!get_line_range, R!LineRanges, LineEnds, R!Max, Max, R!Cardinality, Cardinality, R!IsFiniteSet
<1>2. \A d \in LineEnds : d \in Nat /\ LineOf(d) \in Nat /\ LineStart(d) \in 0 .. Len(code)
  <2> SUFFICES ASSUME NEW d \in LineEnds
               PROVE  d \in Nat /\ LineOf(d) \in Nat /\ LineStart(d) \in 0 .. Len(code)
    OBVIOUS
  <2>1. d \in 0 .. Len(code) /\ d \in Nat /\ Len(code) \in Nat
    BY EndsTyped
  <2>2. LineOf(d) \in Nat /\ LineStart(d) \in 0 .. d
    BY <2>1, Columns, LineStarts
  <2> QED
    BY <2>1, <2>2
<1>3. ASSUME NEW r \in Records, Fits(r) PROVE r = RangeOf(e)
  <2>1. r.line_end \in LineEnds /\ r = [line_start |-> r.line_start, line_end |-> r.line_end]
    OBVIOUS
  <2>2. LineOf(r.line_end) - 1 = feeds /\ r.line_start = LineStart(r.line_end)
    BY <1>3, <2>1, EndsBefore
  <2>3. LineOf(r.line_end) = LineOf(e)
    BY <1>2, <2>1, <2>2
  <2>4. r.line_end = e
    BY <2>1, <2>3, OneEnd
  <2> QED
    BY <2>1, <2>2, <2>4 DEF RangeOf
<1>4. RangeOf(e) \in Records /\ Fits(RangeOf(e))
  <2>1. RangeOf(e) \in Records /\ RangeOf(e).line_end = e /\ RangeOf(e).line_start = LineStart(e)
    BY <1>2 DEF RangeOf
  <2> QED
    BY <2>1, EndsBefore
<1> QED
  BY <1>1, <1>3, <1>4

\* The characters of a line, and its line break.
LEMMA LineIs ==
  ASSUME code \in Seq(Char), NEW e \in LineEnds
  PROVE  /\ LineStart(e) \in 0 .. e
         /\ NoBreak(LineStart(e), e)
         /\ \A o \in 0 .. Len(code) - 1 :
              /\ LineOf(o) = LineOf(e) <=> o \in LineStart(e) .. e
              /\ LineOf(o) = LineOf(e) => ColumnOf(o) = o - LineStart(e)
<1> DEFINE s == LineStart(e)
<1>1. /\ e \in 0 .. Len(code) /\ Len(code) \in Nat /\ e \in Nat
      /\ e < Len(code) => code[e + 1] = LineFeed
  BY EndsTyped
<1>2. s \in 0 .. e /\ \A q \in Before(e) : q <= s
  BY <1>1, LineStarts
<1>3. LineOf(e) \in Nat /\ ColumnOf(e) = e - s
  BY <1>1, Columns
<1> HIDE DEF s
<1>4. NoBreak(s, e)
  <2> SUFFICES ASSUME NEW q \in s .. e - 1, code[q + 1] = LineFeed PROVE FALSE
    BY DEF NoBreak
  <2>1. q + 1 \in 1 .. e /\ ~(q + 1 <= s)
    BY <1>1, <1>2
  <2>2. q + 1 \in Before(e)
    BY <2>1 DEF Before
  <2> QED
    BY <1>2, <2>1, <2>2
<1>5. ASSUME NEW o \in 0 .. Len(code) - 1, LineOf(o) = LineOf(e)
      PROVE  o \in s .. e /\ ColumnOf(o) = o - s
  <2>1. o \in Nat /\ ColumnOf(o) \in 0 .. o
    <3>1. o \in Nat
      BY <1>1
    <3> QED
      BY <3>1, Columns
  <2>2. ColumnOf(e) - ColumnOf(o) = e - o
    BY <1>1, <1>5, <2>1, OnePlace
  <2>3. ColumnOf(o) = o - s /\ o >= s
    BY <1>1, <1>2, <1>3, <2>1, <2>2
  <2>4. o <= e
    <3> SUFFICES ASSUME e < o PROVE FALSE
      BY <1>1, <2>1
    <3>1. LineOf(e + 1) = LineOf(e) + 1
      BY <1>1, NextLine
    <3>2. LineOf(e + 1) <= LineOf(o)
      BY <1>1, <2>1, LinesGrow
    <3> QED
      BY <1>3, <1>5, <3>1, <3>2
  <2> QED
    BY <1>1, <1>2, <2>1, <2>3, <2>4
<1>6. ASSUME NEW o \in 0 .. Len(code) - 1, o \in s .. e
      PROVE  LineOf(o) = LineOf(e)
  <2>1. o \in Nat /\ o <= e
    BY <1>1, <1>2, <1>6
  <2>2. \A q \in o .. e - 1 : code[q + 1] # LineFeed
    BY <1>1, <1>2, <1>4, <1>6, <2>1 DEF NoBreak
  <2> QED
    BY <1>1, <2>1, <2>2, SameLine
<1> QED
  BY <1>2, <1>4, <1>5, <1>6 DEF s

LEMMA LineTextIs ==
  ASSUME code \in Seq(Char), NEW e \in LineEnds
  PROVE  LineText(LineOf(e)) = Text(LineStart(e), e)
<1> DEFINE s == LineStart(e)
           inside == {o \in 0 .. Len(code) - 1 : LineOf(o) = LineOf(e) /\ CharAt(o) # LineFeed}
<1>1. /\ e \in 0 .. Len(code) /\ Len(code) \in Nat /\ e \in Nat
      /\ e < Len(code) => code[e + 1] = LineFeed
  BY EndsTyped
<1>2. /\ s \in 0 .. e /\ NoBreak(s, e)
      /\ \A o \in 0 .. Len(code) - 1 : LineOf(o) = LineOf(e) <=> o \in s .. e
  BY LineIs
<1> HIDE DEF s
<1>3. inside = s .. e - 1
  <2>1. ASSUME NEW o \in inside PROVE o \in s .. e - 1
    <3>1. o \in s .. e /\ o < Len(code) /\ code[o + 1] # LineFeed
      BY <1>1, <1>2 DEF CharAt
    <3> QED
      BY <1>1, <1>2, <3>1
  <2>2. ASSUME NEW o \in s .. e - 1 PROVE o \in inside
    <3>1. o \in 0 .. Len(code) - 1 /\ o \in s .. e /\ code[o + 1] # LineFeed
      BY <1>1, <1>2 DEF NoBreak
    <3> QED
      BY <1>1, <1>2, <3>1 DEF CharAt
  <2> HIDE DEF inside
  <2> QED
    BY <2>1, <2>2
<1>4. LineText(LineOf(e)) = IF inside = {} THEN << >> ELSE Text(Min(inside), Max(inside) + 1)
  BY DEF LineText
<1> HIDE DEF inside
<1>5. CASE s = e
  <2>1. s .. e - 1 = {}
    BY <1>1, <1>5
  <2>2. Text(s, e) = << >>
    BY <1>1, <1>2, <1>5, SubSeqEmpty DEF Text
  <2> QED
    BY <1>3, <1>4, <2>1, <2>2 DEF s
<1>6. CASE s # e
  <2>1. Min(s .. e - 1) = s /\ Max(s .. e - 1) = e - 1 /\ s \in s .. e - 1
    BY <1>1, <1>2, <1>6, IntervalEnds
  <2>2. (e - 1) + 1 = e
    BY <1>1
  <2> QED
    BY <1>3, <1>4, <2>1, <2>2 DEF s
<1> QED
  BY <1>5, <1>6

\* What a position in a line covers, its line break included.
LEMMA CoveredInLine ==
  ASSUME code \in Seq(Char), NEW e \in LineEnds, NEW pos, pos.line_number = LineOf(e),
         pos.col_start \in Nat, pos.col_end \in Nat, pos.col_start <= pos.col_end,
         LineStart(e) + pos.col_end <= Len(code), LineStart(e) + pos.col_end <= e + 1
  PROVE  Covered(pos) = LineStart(e) + pos.col_start .. (LineStart(e) + pos.col_end) - 1
<1> DEFINE s == LineStart(e)
           a == pos.col_start
           b == pos.col_end
<1>1. e \in 0 .. Len(code) /\ Len(code) \in Nat /\ e \in Nat
  BY EndsTyped
<1>2. /\ s \in 0 .. e
      /\ \A o \in 0 .. Len(code) - 1 :
           /\ LineOf(o) = LineOf(e) <=> o \in s .. e
           /\ LineOf(o) = LineOf(e) => ColumnOf(o) = o - s
  BY LineIs
<1>3. a \in Nat /\ b \in Nat /\ a <= b /\ s + b <= Len(code) /\ s + b <= e + 1
  OBVIOUS
<1>4. Covered(pos) =
        {o \in 0 .. Len(code) - 1 : LineOf(o) = LineOf(e) /\ ColumnOf(o) \in a .. b - 1}
  BY DEF Covered
<1> HIDE DEF s, a, b
<1>5. ASSUME NEW o \in Covered(pos) PROVE o \in s + a .. (s + b) - 1
  <2>1. o \in 0 .. Len(code) - 1 /\ LineOf(o) = LineOf(e) /\ ColumnOf(o) \in a .. b - 1
    BY <1>4
  <2>2. o - s \in a .. b - 1
    BY <1>2, <2>1
  <2> QED
    BY <1>1, <1>2, <1>3, <2>1, <2>2
<1>6. ASSUME NEW o \in s + a .. (s + b) - 1 PROVE o \in Covered(pos)
  <2>1. o \in 0 .. Len(code) - 1 /\ o \in s .. e /\ o - s \in a .. b - 1
    BY <1>1, <1>2, <1>3
  <2>2. LineOf(o) = LineOf(e) /\ ColumnOf(o) \in a .. b - 1
    BY <1>2, <2>1
  <2> QED
    BY <1>4, <2>1, <2>2
<1>7. Covered(pos) = s + a .. (s + b) - 1
  BY <1>5, <1>6
<1> QED
  BY <1>7 DEF s, a, b

LEMMA TextJoined ==
  ASSUME code \in Seq(Char), NEW a \in 0 .. Len(code), NEW b \in a .. Len(code),
         NEW c \in b .. Len(code)
  PROVE  /\ Text(a, b) \o Text(b, c) = Text(a, c)
         /\ Text(a, b) \in Seq(Char)
         /\ Len(Text(a, b)) = b - a
<1>1. a + 1 \in 1 .. Len(code) + 1 /\ b \in (a + 1) - 1 .. Len(code) /\ Len(code) \in Nat
  OBVIOUS
<1>2. Text(a, b) \o Text(b, c) = Text(a, c)
  BY <1>1, ConcatAdjacentSubSeq DEF Text
<1>3. Text(a, b) \in Seq(Char) /\ Len(Text(a, b)) = b - a
  <2>1. a + 1 \in Int /\ b \in Int /\ \A i \in a + 1 .. b : code[i] \in Char
    BY <1>1
  <2>2. /\ Text(a, b) \in Seq(Char)
        /\ Len(Text(a, b)) = IF a + 1 <= b THEN b - (a + 1) + 1 ELSE 0
    BY <2>1, SubSeqProperties DEF Text
  <2> QED
    BY <1>1, <2>2
<1> QED
  BY <1>2, <1>3

LEMMA PrefixOfText ==
  ASSUME code \in Seq(Char), NEW a \in 0 .. Len(code), NEW b \in a .. Len(code),
         NEW c \in b .. Len(code)
  PROVE  IsPrefix(Text(a, b), Text(a, c))
<1>1. /\ Text(a, b) \in Seq(Char) /\ Text(b, c) \in Seq(Char) /\ Text(a, c) \in Seq(Char)
      /\ Len(Text(a, b)) = b - a /\ Len(Text(b, c)) = c - b /\ Len(Text(a, c)) = c - a
      /\ Text(a, b) \o Text(b, c) = Text(a, c)
  <2>1. b \in 0 .. Len(code) /\ c \in a .. Len(code) /\ c \in c .. Len(code) /\ Len(code) \in Nat
    OBVIOUS
  <2> QED
    BY <2>1, TextJoined
<1> DEFINE p == Text(a, b)
           q == Text(b, c)
           t == Text(a, c)
           n == Len(p)
<1>2. p \in Seq(Char) /\ q \in Seq(Char) /\ t = p \o q /\ n \in Nat /\ n <= Len(t)
  BY <1>1
<1> HIDE DEF p, q, t
<1>3. SubSeq(t, 1, n) = SubSeq(p, 1, n)
  <2>1. CASE n = 0
    BY <1>2, <2>1, SubSeqEmpty
  <2>2. CASE n # 0
    <3>1. 1 \in 1 .. Len(p) /\ n \in 1 .. Len(p)
      BY <1>2, <2>2
    <3> HIDE DEF n
    <3> QED
      BY <1>2, <3>1, SubSeqOfConcat1
  <2> QED
    BY <2>1, <2>2
<1> QED
  BY <1>2, <1>3 DEF IsPrefix, p, t

\* What printf prints with a precision that is in the source, and with none.
LEMMA PrintedIs ==
  ASSUME code \in Seq(Char), NEW o \in 0 .. Len(code), NEW n \in Int, o + n <= Len(code)
  PROVE  R!Printed(code, o, n) = Text(o, IF n < 0 THEN Len(code) ELSE o + n)
<1>1. CASE n < 0
  BY <1>1 DEF R!Printed, Text
<1>2. CASE ~(n < 0)
  <2> DEFINE S == {o + n, Len(code)}
             m == o + n
  <2>1. m \in Int /\ Len(code) \in Int /\ m <= Len(code) /\ S = {m, Len(code)}
    OBVIOUS
  <2> HIDE DEF m, S
  <2>2. \A x \in S : (\A y \in S : x <= y) <=> x = m
    BY <2>1
  <2>3. m \in S
    BY <2>1
  <2>4. R!Min(S) = m
    BY <2>2, <2>3 DEF R!Min
  <2>5. R!Printed(code, o, n) = SubSeq(code, o + 1, R!Min(S))
    BY <1>2 DEF R!Printed, S
  <2>6. Text(o, o + n) = SubSeq(code, o + 1, m)
    BY DEF Text, m
  <2> QED
    BY <1>2, <2>4, <2>5, <2>6
<1> QED
  BY <1>1, <1>2

\* ErrorShown of a position that is not that of the end of the source.
ShownRight(pos, location) ==
  \E l \in location :
    /\ location = {l}
    /\ IsPrefix(LineText(pos.line_number), Shown(l))
    /\ l.indent = 2 + Len(l.before)
    /\ l.carets = Min({Len(l.marked), CARETS})
    /\ l.marked = IF Covered(pos) = {} THEN << >> ELSE Marked(pos)

\* The line a position is in, by where it starts and ends.
LEMMA LocatedLine ==
  ASSUME code \in Seq(Char), NEW pos, Located(pos)
  PROVE  \E e \in LineEnds :
           /\ pos.line_number = LineOf(e) /\ pos.line_number # 0
           /\ LineStart(e) + pos.col_end <= Len(code)
           /\ LineStart(e) + pos.col_end <= e + 1
<1> DEFINE b == pos.col_end
<1>1. PICK s \in 0 .. Len(code) :
        /\ LineOf(s) = pos.line_number /\ ColumnOf(s) = 0
        /\ s + b <= Len(code)
        /\ NoBreak(s, s + b - 1)
  BY DEF Located
<1>2. b \in Nat
  BY DEF Located
<1> HIDE DEF b
<1>3. PICK e \in LineEnds : s <= e /\ NoBreak(s, e)
  BY SomeEnd
<1>4. /\ e \in 0 .. Len(code) /\ Len(code) \in Nat /\ e \in Nat /\ s \in Nat
      /\ e < Len(code) => code[e + 1] = LineFeed
  BY <1>1, EndsTyped
<1>5. LineOf(e) = LineOf(s) /\ ColumnOf(e) = e - s
  <2>1. \A q \in s .. e - 1 : code[q + 1] # LineFeed
    BY <1>3 DEF NoBreak
  <2>2. LineOf(e) = LineOf(s) /\ ColumnOf(e) = ColumnOf(s) + (e - s)
    BY <1>3, <1>4, <2>1, SameLine
  <2> QED
    BY <1>1, <1>4, <2>2
<1>6. LineStart(e) = s
  <2>1. ColumnOf(e) = e - LineStart(e) /\ LineStart(e) \in 0 .. e
    BY <1>4, Columns, LineStarts
  <2> QED
    BY <1>4, <1>5, <2>1
<1>7. s + b <= e + 1
  <2> SUFFICES ASSUME ~(s + b <= e + 1) PROVE FALSE
    OBVIOUS
  <2>1. e \in s .. (s + b - 1) - 1 /\ e < Len(code)
    BY <1>1, <1>2, <1>3, <1>4
  <2> QED
    BY <1>1, <1>4, <2>1 DEF NoBreak
<1>8. LineOf(e) # 0
  BY <1>4, BeforeFinite DEF LineOf
<1> QED
  BY <1>1, <1>5, <1>6, <1>7, <1>8 DEF b

LEMMA MarksInterval ==
  ASSUME NEW pos, NEW m \in Int, NEW n \in Int, m < n, Covered(pos) = m .. n - 1
  PROVE  Covered(pos) # {} /\ Marked(pos) = Text(m, n)
<1>1. (n - 1) + 1 = n /\ m \in m .. n - 1
  OBVIOUS
<1>2. Min(m .. n - 1) = m /\ Max(m .. n - 1) = n - 1
  BY IntervalEnds
<1> QED
  BY <1>1, <1>2 DEF Marked

\* The three parts that are printed of such a line, with what is below them.
LEMMA LocatedShown ==
  ASSUME code \in Seq(Char), NEW pos, Located(pos)
  PROVE  ShownRight(pos, R!print_location(code, pos))
<1>1. PICK e \in LineEnds :
        /\ pos.line_number = LineOf(e) /\ pos.line_number # 0
        /\ LineStart(e) + pos.col_end <= Len(code)
        /\ LineStart(e) + pos.col_end <= e + 1
  BY LocatedLine
<1> DEFINE s == LineStart(e)
           a == pos.col_start
           b == pos.col_end
           last == IF e - s - b < 0 THEN Len(code) ELSE e
           l == [before |-> Text(s, s + a), marked |-> Text(s + a, s + b),
                 after |-> Text(s + b, last), indent |-> 2 + a, carets |-> Min({b - a, CARETS})]
<1>2. /\ a \in Nat /\ b \in Nat /\ a <= b /\ s \in 0 .. e /\ e \in 0 .. Len(code)
      /\ Len(code) \in Nat /\ s + b <= Len(code) /\ s + b <= e + 1
  BY <1>1, EndsTyped, LineIs DEF Located
<1>3. R!print_location(code, pos) = {l}
  <2> DEFINE L(r) ==
        [before |-> R!Printed(code, r.line_start, pos.col_start),
         marked |-> R!Printed(code, r.line_start + pos.col_start, pos.col_end - pos.col_start),
         after |-> R!Printed(code, r.line_start + pos.col_end, R!RestOfLine(r, pos)),
         indent |-> 2 + pos.col_start,
         carets |-> R!Min({pos.col_end - pos.col_start, CARETS})]
  <2>1. R!get_line_range(code, pos.line_number) = {RangeOf(e)}
    BY <1>1, RangeOfLine
  <2>2. R!print_location(code, pos) = {L(r) : r \in {RangeOf(e)}}
    BY <1>1, <2>1 DEF R!print_location
  <2>3. RangeOf(e).line_start = s /\ RangeOf(e).line_end = e
    BY DEF RangeOf
  <2>4. R!RestOfLine(RangeOf(e), pos) = e - s - b
    BY <2>3 DEF R!RestOfLine
  <2>5. R!Min({b - a, CARETS}) = Min({b - a, CARETS})
    BY DEF R!Min, Min
  <2>6. R!Printed(code, s, a) = Text(s, s + a)
    <3> HIDE DEF s, a, b
    <3>1. s \in 0 .. Len(code) /\ a \in Int /\ s + a <= Len(code) /\ ~(a < 0)
      BY <1>2
    <3> QED
      BY <3>1, PrintedIs
  <2>7. R!Printed(code, s + a, b - a) = Text(s + a, s + b)
    <3> HIDE DEF s, a, b
    <3>1. /\ s + a \in 0 .. Len(code) /\ b - a \in Int /\ (s + a) + (b - a) = s + b
          /\ s + b <= Len(code) /\ ~(b - a < 0)
      BY <1>2
    <3> QED
      BY <3>1, PrintedIs
  <2>8. R!Printed(code, s + b, e - s - b) = Text(s + b, last)
    <3> HIDE DEF s, a, b
    <3>1. /\ s + b \in 0 .. Len(code) /\ e - s - b \in Int /\ (s + b) + (e - s - b) = e
          /\ e <= Len(code)
      BY <1>2
    <3> QED
      BY <3>1, PrintedIs
  <2>9. L(RangeOf(e)) = l
    <3>1. L(RangeOf(e)) =
            [before |-> R!Printed(code, s, a), marked |-> R!Printed(code, s + a, b - a),
             after |-> R!Printed(code, s + b, e - s - b), indent |-> 2 + a,
             carets |-> R!Min({b - a, CARETS})]
      BY <2>3, <2>4
    <3> QED
      BY <2>5, <2>6, <2>7, <2>8, <3>1
  <2> HIDE DEF l, L
  <2> QED
    BY <2>2, <2>9
<1>4. Covered(pos) = s + a .. (s + b) - 1
  BY <1>1, <1>2, CoveredInLine
<1>5. LineText(pos.line_number) = Text(s, e)
  BY <1>1, LineTextIs
<1> HIDE DEF s, a, b
<1>6. last \in s + b .. Len(code) /\ last \in e .. Len(code)
  BY <1>2
<1> HIDE DEF last
<1>7. /\ s \in 0 .. Len(code) /\ s + a \in s .. Len(code) /\ s + a \in 0 .. Len(code)
      /\ s + b \in s + a .. Len(code) /\ s + b \in s .. Len(code) /\ e \in s .. Len(code)
  BY <1>2
<1>8. l.before \o l.marked \o l.after = Text(s, last) /\ Len(l.before) = a /\ Len(l.marked) = b - a
  <2>1. Text(s, s + a) \o Text(s + a, s + b) = Text(s, s + b)
    BY <1>7, TextJoined
  <2>2. Text(s, s + b) \o Text(s + b, last) = Text(s, last)
    BY <1>6, <1>7, TextJoined
  <2>3. Len(Text(s, s + a)) = (s + a) - s
    BY <1>7, TextJoined
  <2>4. Len(Text(s + a, s + b)) = (s + b) - (s + a)
    <3>1. s + b \in s + b .. Len(code)
      BY <1>2, <1>7
    <3> QED
      BY <1>7, <3>1, TextJoined
  <2>5. /\ l.before = Text(s, s + a) /\ l.marked = Text(s + a, s + b)
        /\ l.after = Text(s + b, last)
    OBVIOUS
  <2>6. (s + a) - s = a /\ (s + b) - (s + a) = b - a
    BY <1>2
  <2> HIDE DEF l
  <2> QED
    BY <2>1, <2>2, <2>3, <2>4, <2>5, <2>6
<1>9. IsPrefix(Text(s, e), Text(s, last))
  BY <1>6, <1>7, PrefixOfText
<1>10. l.marked = IF Covered(pos) = {} THEN << >> ELSE Marked(pos)
  <2>1. CASE a = b
    <3>1. Text(s + a, s + b) = << >> /\ s + a .. (s + b) - 1 = {}
      BY <1>2, <2>1, SubSeqEmpty DEF Text
    <3> QED
      BY <1>4, <3>1
  <2>2. CASE a # b
    <3>1. s + a \in Int /\ s + b \in Int /\ s + a < s + b
      BY <1>2, <2>2
    <3>2. Covered(pos) # {} /\ Marked(pos) = Text(s + a, s + b)
      BY <1>4, <3>1, MarksInterval
    <3> QED
      BY <3>2
  <2> QED
    BY <2>1, <2>2
<1>11. l.indent = 2 + Len(l.before) /\ l.carets = Min({Len(l.marked), CARETS})
  BY <1>8
<1>12. Shown(l) = Text(s, last)
  BY <1>8 DEF Shown
<1> HIDE DEF l
<1> QED
  BY <1>3, <1>5, <1>9, <1>10, <1>11, <1>12 DEF ShownRight

-----------------------------------------------------------------------------
(* The lexer's positions are in lines *)

TokenLocated(t) == IF t.type = "EOF" THEN t.pos.line_number = 0 ELSE Located(t.pos)

\* All tokens, and a source that has come to its end has one.
TokensLocated ==
  /\ \A k \in DOMAIN tokens : TokenLocated(tokens[k])
  /\ status = "eof" => tokens # << >>

LInv == EInv /\ TokensLocated

LEMMA AppendedLocated ==
  ASSUME LInv, code' = code, NEW t, tokens' = Append(tokens, t), TokenLocated(t)
  PROVE  TokensLocated'
<1>0. tokens \in Seq(Token)
  BY DEF LInv, EInv, IInv, TokensOK
<1>1. ASSUME NEW k \in DOMAIN tokens' PROVE TokenLocated(tokens[k])'
  <2>1. tokens'[k] = t \/ (k \in DOMAIN tokens /\ tokens'[k] = tokens[k])
    BY <1>0
  <2>2. PICK u : u = tokens'[k] /\ TokenLocated(u)
    BY <2>1 DEF LInv, TokensLocated
  <2> QED
    BY <2>2, LocatedStays DEF TokenLocated
<1>2. tokens' # << >>
  BY <1>0
<1> QED
  BY <1>1, <1>2 DEF TokensLocated

LEMMA SameLocated ==
  ASSUME LInv, code' = code, tokens' = tokens, status' = "eof" => status = "eof"
  PROVE  TokensLocated'
<1>1. ASSUME NEW k \in DOMAIN tokens' PROVE TokenLocated(tokens[k])'
  <2>1. PICK u : u = tokens'[k] /\ TokenLocated(u)
    BY <1>1 DEF LInv, TokensLocated
  <2> QED
    BY <2>1, LocatedStays DEF TokenLocated
<1> QED
  BY <1>1 DEF LInv, TokensLocated

LEMMA InitLInv == Init => LInv
<1> SUFFICES ASSUME Init PROVE LInv
  OBVIOUS
<1>1. tokens = << >> /\ status = "lexing"
  BY DEF Init
<1> QED
  BY <1>1, InitEInv DEF LInv, TokensLocated

LEMMA NextLInv == LInv /\ [Next]_vars => LInv'
<1> SUFFICES ASSUME LInv, [Next]_vars PROVE LInv'
  OBVIOUS
<1>0. EInv' /\ CursorOK /\ Placed /\ IInv /\ Len(code) \in Nat
  BY NextEInv DEF LInv, EInv, IInv, CursorOK
<1>1. CASE Next /\ TokenStep
  <2>1. PICK t \in Token, e \in Start + 1 .. Len(code) : Adds(t, e)
    BY <1>0, <1>1, TokenAdded
  <2>2. /\ e - Start \in Nat /\ Start + (e - Start) = e /\ e <= Len(code) /\ Start \in Nat
    BY <1>0, StartInSource DEF CursorOK
  <2> DEFINE n == e - Start
  <2>3. t.pos = Position(Column, Column + n) /\ NoBreak(Start, Start + n - 1)
    BY <2>1, <2>2 DEF Adds
  <2>4. n \in Nat /\ Start + n <= Len(code)
    BY <2>2
  <2> HIDE DEF n
  <2>5. Located(t.pos)
    BY <1>0, <2>3, <2>4, LocatedHere
  <2>6. TokensLocated'
    BY <2>1, <2>5, AppendedLocated DEF Adds, TokenLocated
  <2> QED
    BY <1>0, <2>6 DEF LInv
<1>2. CASE LexEof
  <2> DEFINE t == [type |-> "EOF", value |-> NULL,
                   pos |-> [line_number |-> 0, col_start |-> 0, col_end |-> 0]]
  <2>1. TokenLocated(t) /\ tokens' = Append(tokens, t) /\ code' = code
    BY <1>2 DEF LexEof, MoveTo, TokenLocated
  <2> HIDE DEF t
  <2> QED
    BY <1>0, <2>1, AppendedLocated DEF LInv
<1>3. CASE UNCHANGED vars \/ (Next /\ ~TokenStep /\ ~LexEof)
  <2>1. code' = code /\ tokens' = tokens /\ (status' = "eof" => status = "eof")
    BY <1>3 DEF Next, TokenStep, SkipComment, SkipCarriageReturn, LoneSign, UnclosedString,
                UnexpectedChar, ReportError, Stopped, vars, MoveTo
  <2> QED
    BY <1>0, <2>1, SameLocated DEF LInv
<1> QED
  BY <1>1, <1>2, <1>3

-----------------------------------------------------------------------------
(* The parser reports a token that is there *)

SourceOK ==
  /\ tokens \in Seq(Token) /\ tokens # << >>
  /\ \A k \in DOMAIN tokens : tokens[k].type = "EOF" <=> k = Len(tokens)

ParserCursor == 0 .. Len(tokens)

LEMMA ParserToken ==
  ASSUME SourceOK, NEW c \in ParserCursor
  PROVE  /\ Len(tokens) \in Nat \ {0} /\ DOMAIN tokens = 1 .. Len(tokens) /\ c \in Nat
         /\ P!After(c) \in ParserCursor
         /\ P!TypeAt(c) = "EOF" <=> c >= Len(tokens) - 1
<1>1. Len(tokens) \in Nat /\ DOMAIN tokens = 1 .. Len(tokens) /\ Len(tokens) # 0
  BY EmptySeq, SMTT(30) DEF SourceOK
<1> DEFINE k == IF c >= Len(tokens) THEN Len(tokens) ELSE c + 1
<1>2. k \in DOMAIN tokens /\ (k = Len(tokens) <=> c >= Len(tokens) - 1)
  <2> DEFINE n == Len(tokens)
  <2>1. n \in Nat /\ n # 0 /\ c \in 0 .. n
    BY <1>1 DEF ParserCursor
  <2>2. k = (IF c >= n THEN n ELSE c + 1) /\ DOMAIN tokens = 1 .. n
    BY <1>1
  <2> HIDE DEF n, k
  <2>3. k \in 1 .. n /\ (k = n <=> c >= n - 1)
    BY <2>1, <2>2
  <2> QED
    BY <2>2, <2>3 DEF n
<1>3. P!TypeAt(c) = tokens[k].type
  BY DEF P!TypeAt, P!TokenAt
<1> HIDE DEF k
<1>4. P!TypeAt(c) = "EOF" <=> c >= Len(tokens) - 1
  BY <1>2, <1>3 DEF SourceOK
<1>5. P!After(c) \in ParserCursor /\ c \in Nat
  BY <1>1 DEF P!After, ParserCursor
<1> QED
  BY <1>1, <1>4, <1>5

LEMMA ParserSkips ==
  ASSUME SourceOK, NEW c \in ParserCursor
  PROVE  P!SkipNewLines(c) \in ParserCursor
<1> DEFINE S == {d \in c .. Len(tokens) : P!TypeAt(d) # "NEW_LINE"}
<1>0. Len(tokens) \in Nat \ {0} /\ c \in Nat /\ c <= Len(tokens)
  BY ParserToken DEF ParserCursor
<1>1. Len(tokens) \in S
  <2>1. Len(tokens) \in ParserCursor /\ Len(tokens) \in c .. Len(tokens)
    BY <1>0 DEF ParserCursor
  <2>2. P!TypeAt(Len(tokens)) = "EOF"
    BY <1>0, <2>1, ParserToken
  <2> QED
    BY <2>1, <2>2
<1>2. S \in SUBSET Nat
  BY <1>0
<1>3. PICK d \in S : \A m \in S : d <= m
  BY <1>1, <1>2, Least
<1>4. \A e \in c .. d - 1 : P!TypeAt(e) = "NEW_LINE"
  <2> SUFFICES ASSUME NEW e \in c .. d - 1 PROVE P!TypeAt(e) = "NEW_LINE"
    OBVIOUS
  <2>1. e \in c .. Len(tokens) /\ ~(d <= e)
    BY <1>0, <1>3
  <2> QED
    BY <1>3, <2>1
<1>5. P!SkipNewLines(c) \in c .. Len(tokens)
  BY <1>3, <1>4 DEF P!SkipNewLines
<1> QED
  BY <1>0, <1>5 DEF ParserCursor

LEMMA ParserMovesBack ==
  ASSUME SourceOK, NEW c \in ParserCursor, P!TypeAt(P!SkipNewLines(c)) # "EOF"
  PROVE  P!PushedBack(c) \in ParserCursor
<1> DEFINE d == P!SkipNewLines(c)
<1>1. d \in ParserCursor /\ P!TypeAt(d) # "EOF"
  BY ParserSkips
<1>2. P!PushedBack(c) = P!After(P!After(d)) - 2
  BY DEF P!PushedBack
<1> HIDE DEF d
<1>3. Len(tokens) \in Nat /\ d \in Nat /\ d < Len(tokens) - 1
  BY <1>1, ParserToken DEF ParserCursor
<1>4. P!After(d) = d + 1
  BY <1>3 DEF P!After
<1>5. P!After(d + 1) = d + 2
  BY <1>3 DEF P!After
<1> QED
  BY <1>1, <1>2, <1>3, <1>4, <1>5

InTokens(failure) == failure.place \in DOMAIN tokens

LEMMA ParserErrorPlaced ==
  ASSUME SourceOK, NEW kind, NEW c \in ParserCursor
  PROVE  InTokens(P!Error(kind, c))
<1> DEFINE S == {c + 1, Len(tokens)}
<1>1. S \subseteq 1 .. Len(tokens) + 1 /\ Len(tokens) \in S
      /\ Len(tokens) \in Nat \ {0} /\ c + 1 \in Nat /\ DOMAIN tokens = 1 .. Len(tokens)
  BY ParserToken, SMTT(30) DEF ParserCursor
<1>2. \E m \in S : \A y \in S : m <= y
  BY <1>1
<1>3. P!Error(kind, c).place = P!Min(S)
  BY DEF P!Error
<1> HIDE DEF S
<1>4. P!Min(S) \in S /\ \A y \in S : P!Min(S) <= y
  BY <1>2 DEF P!Min
<1>5. P!Min(S) \in 1 .. Len(tokens)
  <2>1. P!Min(S) \in 1 .. Len(tokens) + 1 /\ P!Min(S) <= Len(tokens)
    BY <1>1, <1>4
  <2> QED
    BY <1>1, <2>1
<1> QED
  BY <1>1, <1>3, <1>5 DEF InTokens

\* What a step of the parser leaves for the handler.
Reported ==
  /\ exits = TRUE
  /\ cur_token \in ParserCursor
  /\ parser_status = "exited" => InTokens(reports[1])

\* The process exits with the first error, or the step is taken.
LEMMA ReportsFirst ==
  ASSUME SourceOK, Reported, tokens' = tokens, NEW errors,
         errors # << >> => InTokens(errors[1]), NEW ACTION step, P!Reporting(errors, step)
  PROVE  Reported' \/ step
<1>1. CASE errors # << >>
  <2>1. reports' = <<errors[1]>> /\ UNCHANGED <<cur_token, exits>>
    BY <1>1 DEF Reported, P!Reporting, P!input
  <2>2. reports'[1] = errors[1]
    BY <2>1
  <2> QED
    BY <1>1, <2>1, <2>2 DEF Reported, InTokens, ParserCursor
<1>2. CASE errors = << >>
  BY <1>2 DEF P!Reporting
<1> QED
  BY <1>1, <1>2

LEMMA FinishStays ==
  ASSUME SourceOK, Reported, parser_status = "parsing", tokens' = tokens,
         NEW node, NEW c \in ParserCursor, P!FinishInstruction(node, c)
  PROVE  Reported'
<1>1. cur_token' \in {c, P!PushedBack(c)} /\ (P!TypeAt(P!SkipNewLines(c)) = "EOF" => cur_token' = c)
  BY DEF P!FinishInstruction
<1>2. cur_token' \in ParserCursor
  BY <1>1, ParserMovesBack
<1>3. exits' = exits /\ parser_status' = parser_status
  BY DEF P!FinishInstruction, P!input
<1> QED
  BY <1>2, <1>3 DEF Reported, ParserCursor

LEMMA TakeStays ==
  ASSUME SourceOK, Reported, parser_status = "parsing", tokens' = tokens, NEW node,
         NEW c \in ParserCursor, NEW errors, errors # << >> => InTokens(errors[1]),
         P!TakeOperand(node, c, errors)
  PROVE  Reported'
<1> DEFINE step == /\ operands' = Append(operands, node)
                   /\ cur_token' = c
                   /\ at' = "separator"
                   /\ UNCHANGED <<P!input, label, opcode, instructions, labels, parser_status>>
<1>1. P!Reporting(errors, step)
  BY DEF P!TakeOperand
<1>2. CASE step
  BY <1>2 DEF Reported, ParserCursor, P!input
<1> HIDE DEF step
<1>3. Reported' \/ step
  BY <1>1, ReportsFirst
<1> QED
  BY <1>2, <1>3

LEMMA CrashStays ==
  ASSUME Reported, tokens' = tokens, NEW how, how # "exited", P!Crash(how)
  PROVE  Reported'
BY DEF Reported, ParserCursor, P!Crash, P!input

LEMMA ParseStays ==
  ASSUME SourceOK, Reported, parser_status = "parsing", tokens' = tokens, P!Next
  PROVE  Reported'
<1> DEFINE c == cur_token
           d == P!SkipNewLines(c)
<1>1. c \in ParserCursor /\ d \in ParserCursor
  BY ParserSkips DEF Reported
<1>2. ASSUME NEW b \in ParserCursor PROVE P!After(b) \in ParserCursor
  BY <1>2, ParserToken
<1>3. CASE P!Parsed
  BY <1>3 DEF P!Parsed, P!input, Reported, ParserCursor
<1>4. CASE P!ParseLabel
  <2> DEFINE body == P!After(P!After(d))
  <2>1. body \in ParserCursor
    BY <1>1, <1>2
  <2>2. CASE P!TypeAt(P!SkipNewLines(body)) = "SYMBOL"
    <3>1. cur_token' = body /\ exits' = exits /\ parser_status' = parser_status
      BY <1>4, <2>2 DEF P!ParseLabel, P!input
    <3> HIDE DEF body
    <3> QED
      BY <2>1, <3>1 DEF Reported, ParserCursor
  <2>3. CASE P!TypeAt(P!SkipNewLines(body)) # "SYMBOL"
    <3> DEFINE errors == <<P!Error("unexpected_after_label", P!SkipNewLines(body))>>
               step == P!Crash("null_dereferenced")
    <3>1. P!Reporting(errors, step)
      BY <1>4, <2>3 DEF P!ParseLabel
    <3>2. errors[1] = P!Error("unexpected_after_label", P!SkipNewLines(body))
      OBVIOUS
    <3> HIDE DEF body
    <3>3. InTokens(errors[1])
      BY <2>1, <3>2, ParserSkips, ParserErrorPlaced
    <3> HIDE DEF errors
    <3>4. Reported' \/ step
      BY <3>1, <3>3, ReportsFirst
    <3> QED
      BY <3>4, CrashStays
  <2> QED
    BY <2>2, <2>3
<1>5. CASE P!TopLevelInstruction
  <2>1. cur_token' = P!PushedBack(c) /\ exits' = exits /\ parser_status' = parser_status
        /\ P!TypeAt(d) # "EOF"
    BY <1>5 DEF P!TopLevelInstruction, P!input
  <2>2. cur_token' \in ParserCursor
    BY <1>1, <2>1, ParserMovesBack
  <2> QED
    BY <2>1, <2>2 DEF Reported, ParserCursor
<1>6. CASE P!UnexpectedAtTopLevel
  <2> DEFINE errors == <<P!Error("unexpected_at_top_level", d)>>
             step == P!Crash("null_dereferenced")
  <2>1. P!Reporting(errors, step)
    BY <1>6 DEF P!UnexpectedAtTopLevel
  <2>2. errors[1] = P!Error("unexpected_at_top_level", d)
    OBVIOUS
  <2> HIDE DEF d
  <2>3. InTokens(errors[1])
    BY <1>1, <2>2, ParserErrorPlaced
  <2> HIDE DEF errors
  <2>4. Reported' \/ step
    BY <2>1, <2>3, ReportsFirst
  <2> QED
    BY <2>4, CrashStays
<1>7. CASE P!ParseInstruction
  <2>1. P!After(d) \in ParserCursor
    BY <1>1, <1>2
  <2>2. CASE P!EndOfLine(P!After(d))
    <3>1. P!FinishInstruction([opcode |-> P!TokenAt(d).value, operands |-> << >>], P!After(d))
      BY <1>7, <2>2 DEF P!ParseInstruction
    <3> QED
      BY <2>1, <3>1, FinishStays
  <2>3. CASE ~P!EndOfLine(P!After(d))
    <3>1. cur_token' = P!After(d) /\ exits' = exits /\ parser_status' = parser_status
      BY <1>7, <2>3 DEF P!ParseInstruction, P!input
    <3> QED
      BY <2>1, <3>1 DEF Reported, ParserCursor
  <2> QED
    BY <2>2, <2>3
<1>8. CASE P!AssertionFails
  <2>1. P!Crash("assertion")
    BY <1>8 DEF P!AssertionFails
  <2> QED
    BY <2>1, CrashStays
<1>9. CASE P!ParseMemAddress
  <2> DEFINE r == IF P!HasOffset THEN P!After(P!After(c)) ELSE P!After(c)
             bad == <<P!Error("invalid_offset", c)>>
             node == [type |-> "MEM_ADDRESS", register |-> P!TokenAt(r).value,
                      offset |-> IF P!HasOffset THEN P!TokenAt(c).value ELSE NULL]
             missing == P!If(P!TypeAt(r) # "SYMBOL", "expected", r)
                          \o P!If(P!TypeAt(P!After(r)) # "BRACKET_CLOSE", "expected", P!After(r))
  <2>1. /\ P!After(c) \in ParserCursor /\ r \in ParserCursor /\ P!After(r) \in ParserCursor
        /\ P!After(P!After(r)) \in ParserCursor
    BY <1>1, <1>2
  <2>2. \/ P!TakeOperand(NULL, P!After(c), bad)
        \/ P!TakeOperand(node, P!After(P!After(r)), missing)
    BY <1>9 DEF P!ParseMemAddress
  <2>3. InTokens(bad[1])
    <3>1. bad[1] = P!Error("invalid_offset", c)
      OBVIOUS
    <3> QED
      BY <1>1, <3>1, ParserErrorPlaced
  <2>4. missing # << >> => InTokens(missing[1])
    <3> HIDE DEF r
    <3>1. missing # << >> =>
            \/ missing[1] = P!Error("expected", r)
            \/ missing[1] = P!Error("expected", P!After(r))
      BY DEF P!If
    <3> QED
      BY <2>1, <3>1, ParserErrorPlaced
  <2> HIDE DEF bad, node, missing, r
  <2>5. CASE P!TakeOperand(NULL, P!After(c), bad)
    BY <2>1, <2>3, <2>5, TakeStays
  <2>6. CASE P!TakeOperand(node, P!After(P!After(r)), missing)
    BY <2>1, <2>4, <2>6, TakeStays
  <2> QED
    BY <2>2, <2>5, <2>6
<1>10. CASE P!ParseSimple
  <2> DEFINE bad == <<P!Error("unexpected_as_operand", c)>>
             node == [type |-> "SIMPLE", token |-> P!TokenAt(c)]
  <2>1. \/ P!TakeOperand(NULL, P!After(c), bad)
        \/ P!TakeOperand(node, P!After(c), << >>)
    BY <1>10 DEF P!ParseSimple
  <2>2. InTokens(bad[1])
    <3>1. bad[1] = P!Error("unexpected_as_operand", c)
      OBVIOUS
    <3> QED
      BY <1>1, <3>1, ParserErrorPlaced
  <2>3. P!After(c) \in ParserCursor
    BY <1>1, <1>2
  <2> HIDE DEF bad, node
  <2>4. CASE P!TakeOperand(NULL, P!After(c), bad)
    BY <2>2, <2>3, <2>4, TakeStays
  <2>5. CASE P!TakeOperand(node, P!After(c), << >>)
    BY <2>3, <2>5, TakeStays
  <2> QED
    BY <2>1, <2>4, <2>5
<1>11. CASE P!ParseSeparator
  <2>1. P!After(c) \in ParserCursor
    BY <1>1, <1>2
  <2>2. CASE P!TypeAt(c) = "COMMA"
    <3>1. cur_token' = P!After(c) /\ exits' = exits /\ parser_status' = parser_status
      BY <1>11, <2>2 DEF P!ParseSeparator, P!input
    <3> QED
      BY <2>1, <3>1 DEF Reported, ParserCursor
  <2>3. CASE P!TypeAt(c) # "COMMA"
    <3> DEFINE errors == P!If(~P!EndOfLine(c), "expected_comma", c)
               node == [opcode |-> opcode, operands |-> operands]
               step == P!FinishInstruction(node, P!After(c))
    <3>1. P!Reporting(errors, step)
      BY <1>11, <2>3 DEF P!ParseSeparator
    <3>2. errors # << >> => errors[1] = P!Error("expected_comma", c)
      BY DEF P!If
    <3>3. errors # << >> => InTokens(errors[1])
      BY <1>1, <3>2, ParserErrorPlaced
    <3> HIDE DEF errors, node
    <3>4. Reported' \/ step
      BY <3>1, <3>3, ReportsFirst
    <3> QED
      BY <2>1, <3>4, FinishStays
  <2> QED
    BY <2>2, <2>3
<1>12. CASE P!Stopped
  BY <1>12 DEF P!Stopped
<1> QED
  BY <1>3, <1>4, <1>5, <1>6, <1>7, <1>8, <1>9, <1>10, <1>11, <1>12 DEF P!Next

-----------------------------------------------------------------------------
(* What is printed *)

\* The handler was given a position in a line, or that of the end of the source,
\* by the parser, and has printed it.
PrintedRight ==
  printed # NULL =>
    /\ printed.location = R!print_location(code, printed.pos)
    /\ \/ Located(printed.pos)
       \/ /\ printed.pos.line_number = 0
          /\ parser_status = "exited"
          /\ tokens[reports[1].place].type = "EOF"

FInv == LInv /\ Reported /\ PrintedRight

LEMMA InitFInv == FrontInit => FInv
<1> SUFFICES ASSUME FrontInit PROVE FInv
  OBVIOUS
<1>1. LInv /\ tokens = << >>
  BY InitLInv DEF FrontInit, Init
<1> QED
  BY <1>1 DEF FrontInit, FInv, Reported, ParserCursor, PrintedRight

\* What is printed stays right while the text and the tokens that are there stay.
LEMMA PrintedStays ==
  ASSUME FInv, code' = code, printed' = printed,
         \/ tokens' = tokens /\ parser_status = "parsing"
         \/ UNCHANGED <<reports, parser_status>> /\ tokens \in Seq(Token)
              /\ (tokens' = tokens \/ \E t : tokens' = Append(tokens, t))
  PROVE  PrintedRight'
<1> SUFFICES ASSUME printed # NULL PROVE PrintedRight'
  BY DEF PrintedRight
<1> DEFINE pos == printed.pos
<1>1. pos' = pos /\ printed.location = R!print_location(code, pos)
      /\ printed'.location = printed.location
  BY DEF FInv, PrintedRight
<1>2. R!print_location(code, pos)' = R!print_location(code, pos)
  BY <1>1
<1>3. CASE Located(pos)
  <2>1. PICK u : u = pos /\ Located(u)
    BY <1>3
  <2>2. Located(u)' /\ pos' = u
    BY <1>1, <2>1, LocatedStays
  <2> QED
    BY <1>1, <1>2, <2>2 DEF PrintedRight
<1>4. CASE /\ pos.line_number = 0 /\ parser_status = "exited"
           /\ tokens[reports[1].place].type = "EOF"
  <2>1. reports' = reports /\ parser_status' = parser_status /\ reports[1].place \in DOMAIN tokens
    BY <1>4 DEF FInv, Reported, InTokens
  <2>2. tokens'[reports[1].place] = tokens[reports[1].place]
    BY <1>4, <2>1
  <2> QED
    BY <1>1, <1>2, <1>4, <2>1, <2>2 DEF PrintedRight
<1> QED
  BY <1>3, <1>4 DEF FInv, PrintedRight

LEMMA NextFInv == FInv /\ [FrontNext]_front_vars => FInv'
<1> SUFFICES ASSUME FInv, [FrontNext]_front_vars PROVE FInv'
  OBVIOUS
<1>0. LInv /\ Reported /\ tokens \in Seq(Token)
  BY DEF FInv, LInv, EInv, IInv, TokensOK
<1>1. CASE Lex
  <2>1. Next /\ UNCHANGED parser_vars /\ printed' = printed
    BY <1>1 DEF Lex
  <2>2. LInv'
    BY <1>0, <2>1, NextLInv
  <2>3. code' = code /\ (tokens' = tokens \/ \E t : tokens' = Append(tokens, t))
    <3>1. CASE TokenStep
      <4>1. IInv
        BY <1>0 DEF LInv, EInv
      <4>2. \E t \in Token, e \in Start + 1 .. Len(code) : Adds(t, e)
        BY <3>1, <4>1, TokenAdded
      <4> QED
        BY <4>2 DEF Adds
    <3>2. CASE ~TokenStep
      BY <2>1, <3>2, OtherSteps DEF LexEof
    <3> QED
      BY <3>1, <3>2
  <2>4. Reported'
    <3>1. UNCHANGED <<exits, cur_token, reports, parser_status>>
      BY <2>1 DEF parser_vars
    <3>2. \A k \in 0 .. Len(tokens) : k \in 0 .. Len(tokens')
      BY <1>0, <2>3
    <3>3. \A k \in DOMAIN tokens : k \in DOMAIN tokens'
      BY <1>0, <2>3
    <3> QED
      BY <1>0, <3>1, <3>2, <3>3 DEF Reported, ParserCursor, InTokens
  <2>5. PrintedRight'
    BY <1>0, <2>1, <2>3, PrintedStays DEF parser_vars
  <2> QED
    BY <2>2, <2>4, <2>5 DEF FInv
<1>2. CASE Parse
  <2>1. /\ status = "eof" /\ parser_status = "parsing" /\ P!Next
        /\ UNCHANGED vars /\ printed' = printed /\ tokens' = tokens /\ code' = code
    BY <1>2 DEF Parse, vars
  <2>2. LInv'
    BY <1>0, <2>1, NextLInv
  <2>3. SourceOK
    BY <1>0, <2>1 DEF SourceOK, LInv, EInv, IInv, TokensOK, TokensLocated
  <2>4. Reported'
    BY <1>0, <2>1, <2>3, ParseStays
  <2>5. PrintedRight'
    BY <2>1, PrintedStays
  <2> QED
    BY <2>2, <2>4, <2>5 DEF FInv
<1>3. CASE LexerError \/ ParserError
  <2>1. PICK pos : /\ pos = IF LexerError THEN error ELSE tokens[reports[1].place].pos
                   /\ printed' = [pos |-> pos, location |-> R!print_location(code, pos)]
    BY <1>3 DEF LexerError, ParserError, Handle
  <2>2. UNCHANGED <<vars, parser_vars>>
    BY <1>3 DEF LexerError, ParserError, Handle
  <2>3. /\ code' = code /\ tokens' = tokens /\ reports' = reports /\ exits' = exits
        /\ parser_status' = parser_status /\ cur_token' = cur_token
    BY <2>2 DEF vars, parser_vars
  <2>4. LInv' /\ Reported'
    BY <1>0, <2>2, <2>3, NextLInv DEF Reported, ParserCursor, InTokens
  <2>5. \/ Located(pos)
        \/ /\ pos.line_number = 0 /\ parser_status = "exited"
           /\ tokens[reports[1].place].type = "EOF"
    <3>1. CASE LexerError
      BY <1>0, <2>1, <3>1 DEF LexerError, LInv, EInv, ErrorLocated
    <3>2. CASE ~LexerError
      <4>1. parser_status = "exited" /\ pos = tokens[reports[1].place].pos
        BY <1>3, <2>1, <3>2 DEF ParserError
      <4>2. reports[1].place \in DOMAIN tokens
        BY <1>0, <4>1 DEF Reported, InTokens
      <4> QED
        BY <1>0, <4>1, <4>2 DEF LInv, TokensLocated, TokenLocated
    <3> QED
      BY <3>1, <3>2
  <2>6. printed'.pos = pos /\ printed'.location = R!print_location(code, pos)
    BY <2>1
  <2>7. Located(pos) => Located(pos)'
    BY <2>3, LocatedStays
  <2> QED
    BY <2>3, <2>4, <2>5, <2>6, <2>7 DEF FInv, PrintedRight
<1>4. CASE FrontStopped \/ UNCHANGED front_vars
  <2>1. UNCHANGED vars /\ UNCHANGED parser_vars /\ printed' = printed
    BY <1>4 DEF FrontStopped, front_vars
  <2>2. LInv'
    BY <1>0, <2>1, NextLInv
  <2>3. UNCHANGED <<exits, cur_token, reports, parser_status, tokens, code>>
    BY <2>1 DEF vars, parser_vars
  <2>4. Reported'
    BY <1>0, <2>3 DEF Reported, ParserCursor, InTokens
  <2>5. PrintedRight'
    BY <1>0, <2>1, <2>3, PrintedStays
  <2> QED
    BY <2>2, <2>4, <2>5 DEF FInv
<1> QED
  BY <1>1, <1>2, <1>3, <1>4 DEF FrontNext

LEMMA FInvShows == FInv => ErrorShown
<1> SUFFICES ASSUME FInv, printed # NULL PROVE ErrorShown
  BY DEF ErrorShown
<1>1. /\ printed.location = R!print_location(code, printed.pos)
      /\ \/ Located(printed.pos)
         \/ printed.pos.line_number = 0 /\ tokens[reports[1].place].type = "EOF"
  BY DEF FInv, PrintedRight
<1>2. code \in Seq(Char)
  BY DEF FInv, LInv, EInv, IInv, CursorOK
<1>3. CASE Located(printed.pos)
  <2>1. PICK u : u = printed.pos /\ Located(u)
    BY <1>3
  <2>2. ShownRight(u, R!print_location(code, u)) /\ u.line_number # 0
    BY <1>2, <2>1, LocatedShown, LocatedLine
  <2> QED
    BY <1>1, <2>1, <2>2 DEF ErrorShown, ShownRight
<1>4. CASE printed.pos.line_number = 0 /\ tokens[reports[1].place].type = "EOF"
  BY <1>1, <1>4 DEF ErrorShown, R!print_location
<1> QED
  BY <1>1, <1>3, <1>4

\* Every error the lexer or the parser reports is shown with its whole line and
\* with carets under the columns its position names, carriage returns or not: for
\* every source and every length of the string the carets are printed from.
THEOREM ErrorsShown == FrontSpec => []ErrorShown
BY InitFInv, NextFInv, FInvShows, PTL DEF FrontSpec
=============================================================================
