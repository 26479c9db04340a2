---------------------------- MODULE ParserProofs ----------------------------
(***************************************************************************)
(* Proofs about parser_parse, for every sequence of tokens.                *)
(***************************************************************************)
EXTENDS Parser, DataLemmas, SequenceTheorems

-----------------------------------------------------------------------------
(* The cursor *)

InSource == tokens \in Sources
Cursor == 0 .. Len(tokens)

LEMMA SourceShape ==
  ASSUME InSource
  PROVE  /\ tokens \in Seq(Token) /\ Len(tokens) \in Nat \ {0} /\ DOMAIN tokens = 1 .. Len(tokens)
         /\ \A k \in DOMAIN tokens : tokens[k] \in Token
         /\ \A k \in DOMAIN tokens : tokens[k].type = "EOF" <=> k = Len(tokens)
<1>1. tokens \in Seq(Token) /\ tokens # << >>
  BY SourcesAssumption DEF InSource
<1>2. \A k \in DOMAIN tokens : tokens[k].type = "EOF" <=> k = Len(tokens)
  BY SourcesAssumption DEF InSource
<1>3. Len(tokens) \in Nat /\ DOMAIN tokens = 1 .. Len(tokens)
  BY <1>1
<1>4. Len(tokens) # 0
  BY <1>1, EmptySeq
<1> QED
  BY <1>1, <1>2, <1>3, <1>4

LEMMA TokenShape ==
  ASSUME InSource, NEW c \in Cursor
  PROVE  /\ TokenAt(c) \in Token
         /\ After(c) \in Cursor
         /\ TypeAt(c) = "EOF" <=> c >= Len(tokens) - 1
         /\ TypeAt(c) # "EOF" => After(c) = c + 1
         /\ TypeAt(c) = "SYMBOL" => TokenAt(c).value \in Symbols
         /\ TypeAt(c) = "INT" => TokenAt(c).value \in Word
<1> DEFINE k == IF c >= Len(tokens) THEN Len(tokens) ELSE c + 1
<1>1. k \in DOMAIN tokens /\ TokenAt(c) = tokens[k]
  BY SourceShape DEF TokenAt, Cursor
<1>2. TokenAt(c) \in Token /\ (TypeAt(c) = "EOF" <=> k = Len(tokens))
  BY <1>1, SourceShape DEF TypeAt
<1>3. TypeAt(c) = "EOF" <=> c >= Len(tokens) - 1
  <2>1. Len(tokens) \in Nat \ {0}
    BY SourceShape
  <2>2. k = Len(tokens) <=> c >= Len(tokens) - 1
    BY <2>1 DEF Cursor
  <2> QED
    BY <1>2, <2>2
<1>4. /\ TypeAt(c) = "SYMBOL" => TokenAt(c).value \in Symbols
      /\ TypeAt(c) = "INT" => TokenAt(c).value \in Word
  BY <1>2 DEF TypeAt, Token, Punctuation
<1>5. After(c) \in Cursor /\ (c < Len(tokens) - 1 => After(c) = c + 1)
  <2>1. Len(tokens) \in Nat
    BY SourceShape
  <2> QED
    BY <2>1 DEF After, Cursor
<1>6. c \in Nat /\ Len(tokens) \in Nat
  BY SourceShape DEF Cursor
<1> QED
  BY <1>2, <1>3, <1>4, <1>5, <1>6

\* Looking ahead finds a token that ends no line, at or behind the cursor.
LEMMA SkipFinds ==
  ASSUME InSource, NEW c \in Cursor
  PROVE  /\ SkipNewLines(c) \in c .. Len(tokens) /\ TypeAt(SkipNewLines(c)) # "NEW_LINE"
         /\ \A e \in c .. SkipNewLines(c) - 1 : TypeAt(e) = "NEW_LINE"
<1> DEFINE S == {d \in c .. Len(tokens) : TypeAt(d) # "NEW_LINE"}
<1>1. Len(tokens) \in S
  <2>1. Len(tokens) \in Nat \ {0}
    BY SourceShape
  <2>2. Len(tokens) \in Cursor /\ Len(tokens) \in c .. Len(tokens)
    BY <2>1 DEF Cursor
  <2>3. TypeAt(Len(tokens)) = "EOF"
    BY <2>1, <2>2, TokenShape
  <2> QED
    BY <2>2, <2>3
<1>2. S \subseteq Nat
  BY SourceShape DEF Cursor
<1>3. \E d \in S : \A m \in S : d <= m
  BY <1>1, <1>2, Least
<1>4. \E d \in c .. Len(tokens) :
        TypeAt(d) # "NEW_LINE" /\ \A e \in c .. d - 1 : TypeAt(e) = "NEW_LINE"
  <2>1. PICK d \in S : \A m \in S : d <= m
    BY <1>3
  <2>2. ASSUME NEW e \in c .. d - 1 PROVE TypeAt(e) = "NEW_LINE"
    <3>1. e \in c .. Len(tokens) /\ ~(d <= e)
      BY <2>1, SourceShape DEF Cursor
    <3> QED
      BY <2>1, <3>1
  <2> QED
    BY <2>1, <2>2
<1> QED
  BY <1>4 DEF SkipNewLines

\* What is pushed back was read ahead, and so is read again.
LEMMA PushedBackIs ==
  ASSUME InSource, NEW c \in Cursor, TypeAt(SkipNewLines(c)) # "EOF"
  PROVE  PushedBack(c) = SkipNewLines(c) /\ PushedBack(c) \in Cursor
<1> DEFINE d == SkipNewLines(c)
<1>1. d \in Cursor
  BY SkipFinds, SourceShape DEF Cursor
<1> HIDE DEF d
<1>2. TypeAt(d) # "EOF"
  BY DEF d
<1>3. Len(tokens) \in Nat
  BY SourceShape
<1>4. After(d) = d + 1 /\ d < Len(tokens) - 1
  BY <1>1, <1>2, <1>3, TokenShape DEF Cursor
<1>5. After(After(d)) = d + 2
  BY <1>1, <1>3, <1>4 DEF After, Cursor
<1> QED
  BY <1>1, <1>5 DEF PushedBack, d, Cursor

-----------------------------------------------------------------------------
(* The inductive invariant *)

IInv == InSource /\ TypeOK

\* What a step may do to the reports: with a handler that exits, nothing.
ReportsGrow ==
  /\ reports' \in Seq(Report)
  /\ reports' = << >> => reports = << >>
  /\ exits => reports' = reports

LEMMA InitIInv == Init => IInv
<1> SUFFICES ASSUME Init PROVE IInv
  OBVIOUS
<1>1. InSource
  BY DEF Init, InSource
<1>2. tokens \in Seq(Token) /\ Len(tokens) \in Nat
  BY <1>1, SourceShape
<1> QED
  BY <1>1, <1>2 DEF Init, IInv, TypeOK, NodesTyped, InSource

\* An error is about a token of the source.
LEMMA ErrorInSource ==
  ASSUME InSource, NEW kind \in ErrorKind, NEW c \in Cursor
  PROVE  Error(kind, c) \in Report
<1>1. Len(tokens) \in Nat \ {0} /\ DOMAIN tokens = 1 .. Len(tokens)
  BY SourceShape
<1>2. Min({c + 1, Len(tokens)}) \in 1 .. Len(tokens)
  <2>1. \E x \in {c + 1, Len(tokens)} : \A y \in {c + 1, Len(tokens)} : x <= y
    BY <1>1 DEF Cursor
  <2>2. Min({c + 1, Len(tokens)}) \in {c + 1, Len(tokens)}
        /\ \A y \in {c + 1, Len(tokens)} : Min({c + 1, Len(tokens)}) <= y
    BY <2>1 DEF Min
  <2> QED
    BY <1>1, <2>2 DEF Cursor
<1> QED
  BY <1>1, <1>2 DEF Error, Report

\* The handler exits.
LEMMA ExitKeeps ==
  ASSUME IInv, NEW e \in Report, reports' = <<e>>, status' = "exited",
         UNCHANGED <<input, cur_token, at, nodes>>
  PROVE  IInv'
BY DEF IInv, InSource, TypeOK, NodesTyped, Report, input, nodes

\* A step that goes on, or stops without an exit.
LEMMA StepKeeps ==
  ASSUME IInv, ReportsGrow, status = "parsing", UNCHANGED input,
         cur_token' \in Cursor,
         at' \in {"top", "instruction", "operand", "separator"},
         status' \in {"parsing", "parsed", "assertion", "null_dereferenced"},
         reports' = << >> => NodesTyped'
  PROVE  IInv'
<1>1. UNCHANGED <<tokens, exits>>
  BY DEF input
<1>2. InSource' /\ (reports \in Seq(Report))'
  BY <1>1 DEF IInv, InSource, ReportsGrow, Report
<1> QED
  BY <1>1, <1>2 DEF IInv, TypeOK, ReportsGrow, Cursor

LEMMA CrashKeeps ==
  ASSUME IInv, ReportsGrow, status = "parsing",
         Crash("assertion") \/ Crash("null_dereferenced")
  PROVE  IInv'
<1>1. UNCHANGED <<input, cur_token, at, label, opcode, operands, instructions, labels>>
  BY DEF Crash, nodes
<1>2. reports' = << >> => NodesTyped'
  BY <1>1 DEF IInv, TypeOK, ReportsGrow, NodesTyped
<1> QED
  BY <1>1, <1>2, StepKeeps DEF IInv, TypeOK, Crash, Cursor

LEMMA FinishKeeps ==
  ASSUME IInv, ReportsGrow, status = "parsing", NEW c \in Cursor, NEW node,
         reports = << >> => node \in InstructionNode,
         FinishInstruction(node, c)
  PROVE  IInv'
<1> DEFINE body == [label[1] EXCEPT !.instructions = Append(@, node)]
           last == TypeAt(SkipNewLines(c)) = "EOF"
<1>1. InSource
  BY DEF IInv
<1>2. cur_token' = c \/ (~last /\ cur_token' = PushedBack(c))
  BY DEF FinishInstruction
<1>3. cur_token' \in Cursor
  BY <1>1, <1>2, PushedBackIs
<1>4. UNCHANGED <<input, status>> /\ at' \in {"top", "instruction"}
      /\ opcode' = NULL /\ operands' = << >>
  BY DEF FinishInstruction
<1>5. ASSUME reports' = << >> PROVE NodesTyped'
  <2>1. NodesTyped /\ node \in InstructionNode
    BY <1>5 DEF IInv, TypeOK, ReportsGrow
  <2>2. CASE label = << >>
    <3>1. instructions' = Append(instructions, node) /\ UNCHANGED <<label, labels>>
      BY <2>2 DEF FinishInstruction
    <3> QED
      BY <1>4, <2>1, <3>1 DEF NodesTyped
  <2>3. CASE label # << >>
    <3>1. label[1] \in OpenLabel
      <4>1. 1 \in DOMAIN label
        BY <2>1, <2>3 DEF NodesTyped
      <4> QED
        BY <2>1, <4>1 DEF NodesTyped
    <3>2. /\ body \in LabelNode
          /\ body \in OpenLabel
      BY <2>1, <3>1, SMTT(30) DEF LabelNode, OpenLabel
    <3>3. /\ UNCHANGED instructions
          /\ \/ labels' = Append(labels, body) /\ label' = << >>
             \/ label' = <<body>> /\ UNCHANGED labels
      BY <2>3 DEF FinishInstruction
    <3> HIDE DEF body
    <3>4. labels \in Seq(LabelNode) /\ instructions \in Seq(InstructionNode)
      BY <2>1 DEF NodesTyped
    <3>5. labels' \in Seq(LabelNode) /\ label' \in Seq(OpenLabel) /\ Len(label') <= 1
      <4>1. CASE labels' = Append(labels, body) /\ label' = << >>
        BY <3>2, <3>4, <4>1
      <4>2. CASE label' = <<body>> /\ UNCHANGED labels
        <5>1. Len(<<body>>) = 1 /\ <<body>> \in Seq(OpenLabel)
          BY <3>2
        <5> QED
          BY <3>4, <4>2, <5>1
      <4> QED
        BY <3>3, <4>1, <4>2
    <3> QED
      BY <1>4, <3>3, <3>4, <3>5 DEF NodesTyped
  <2> QED
    BY <2>2, <2>3
<1> QED
  BY <1>3, <1>4, <1>5, StepKeeps

-----------------------------------------------------------------------------
(* The steps *)

LEMMA QuietGrows == IInv /\ UNCHANGED reports => ReportsGrow
BY DEF IInv, TypeOK, ReportsGrow

LEMMA ReportedGrows ==
  ASSUME IInv, NEW errors \in Seq(Report), ~(exits /\ errors # << >>),
         reports' = reports \o errors
  PROVE  ReportsGrow
<1>1. reports \in Seq(Report)
  BY DEF IInv, TypeOK
<1>2. reports' \in Seq(Report) /\ Len(reports') = Len(reports) + Len(errors)
  BY <1>1
<1>3. reports' = << >> => reports = << >>
  BY <1>1, <1>2
<1>4. exits => reports' = reports
  BY <1>1
<1> QED
  BY <1>2, <1>3, <1>4 DEF ReportsGrow

\* One error at a token, after which nothing but a crash is left.
LEMMA FatalKeeps ==
  ASSUME IInv, status = "parsing", NEW kind \in ErrorKind, NEW c \in Cursor,
         Reporting(<<Error(kind, c)>>, Crash("null_dereferenced"))
  PROVE  IInv'
<1> DEFINE e == Error(kind, c)
<1>1. e \in Report
  BY ErrorInSource DEF IInv
<1>2. Reporting(<<e>>, Crash("null_dereferenced"))
  OBVIOUS
<1> HIDE DEF e
<1>3. <<e>> \in Seq(Report) /\ <<e>> # << >> /\ <<e>>[1] = e
  BY <1>1
<1>4. CASE exits
  BY <1>1, <1>2, <1>3, <1>4, ExitKeeps DEF Reporting
<1>5. CASE ~exits
  BY <1>2, <1>3, <1>5, ReportedGrows, CrashKeeps DEF Reporting
<1> QED
  BY <1>4, <1>5

LEMMA ParseLabelKeeps == IInv /\ ParseLabel => IInv'
<1> SUFFICES ASSUME IInv, ParseLabel PROVE IInv'
  OBVIOUS
<1> DEFINE d == SkipNewLines(cur_token)
           body == After(After(d))
<1>1. InSource /\ cur_token \in Cursor /\ status = "parsing"
  BY DEF IInv, TypeOK, Cursor, ParseLabel, Reading
<1>2. d \in Cursor
  BY <1>1, SkipFinds, SourceShape DEF Cursor
<1>3. body \in Cursor
  BY <1>1, <1>2, TokenShape
<1>4. SkipNewLines(body) \in Cursor
  BY <1>1, <1>3, SkipFinds, SourceShape DEF Cursor
<1>5. CASE TypeAt(SkipNewLines(body)) = "SYMBOL"
  <2>1. TypeAt(d) = "SYMBOL"
    BY DEF ParseLabel, IsLabel
  <2>2. TokenAt(d).value \in Symbols
    BY <1>1, <1>2, <2>1, TokenShape
  <2> DEFINE node == [name |-> TokenAt(d).value, instructions |-> << >>]
  <2>3. node \in OpenLabel
    BY <2>2 DEF OpenLabel
  <2>4. label' = <<node>> /\ cur_token' = body /\ at' = "instruction"
        /\ UNCHANGED <<input, opcode, operands, instructions, labels, reports, status>>
    BY <1>5 DEF ParseLabel
  <2> HIDE DEF node, body, d
  <2>5. ASSUME reports' = << >> PROVE NodesTyped'
    <3>1. <<node>> \in Seq(OpenLabel) /\ Len(<<node>>) = 1
      BY <2>3
    <3> QED
      BY <2>4, <2>5, <3>1 DEF IInv, TypeOK, NodesTyped
  <2> QED
    BY <1>1, <1>3, <2>4, <2>5, QuietGrows, StepKeeps
<1>6. CASE TypeAt(SkipNewLines(body)) # "SYMBOL"
  <2>1. Reporting(<<Error("unexpected_after_label", SkipNewLines(body))>>,
                  Crash("null_dereferenced"))
    BY <1>6 DEF ParseLabel
  <2>2. "unexpected_after_label" \in ErrorKind
    BY DEF ErrorKind
  <2> QED
    BY <1>1, <1>4, <2>1, <2>2, FatalKeeps
<1> QED
  BY <1>5, <1>6

LEMMA TopLevelKeeps == IInv /\ (TopLevelInstruction \/ UnexpectedAtTopLevel) => IInv'
<1> SUFFICES ASSUME IInv, TopLevelInstruction \/ UnexpectedAtTopLevel PROVE IInv'
  OBVIOUS
<1>1. InSource /\ cur_token \in Cursor /\ status = "parsing"
  BY DEF IInv, TypeOK, Cursor, TopLevelInstruction, UnexpectedAtTopLevel, Reading
<1>2. CASE TopLevelInstruction
  <2>1. PushedBack(cur_token) \in Cursor
    BY <1>1, <1>2, PushedBackIs DEF TopLevelInstruction
  <2>2. cur_token' = PushedBack(cur_token) /\ at' = "instruction"
        /\ UNCHANGED <<input, label, opcode, operands, instructions, labels, reports, status>>
    BY <1>2 DEF TopLevelInstruction, nodes
  <2>3. reports' = << >> => NodesTyped'
    BY <2>2 DEF IInv, TypeOK, NodesTyped
  <2> QED
    BY <1>1, <2>1, <2>2, <2>3, QuietGrows, StepKeeps
<1>3. CASE UnexpectedAtTopLevel
  <2>1. SkipNewLines(cur_token) \in Cursor
    BY <1>1, SkipFinds, SourceShape DEF Cursor
  <2>2. "unexpected_at_top_level" \in ErrorKind
    BY DEF ErrorKind
  <2> QED
    BY <1>1, <1>3, <2>1, <2>2, FatalKeeps DEF UnexpectedAtTopLevel
<1> QED
  BY <1>2, <1>3

LEMMA ParseInstructionKeeps == IInv /\ ParseInstruction => IInv'
<1> SUFFICES ASSUME IInv, ParseInstruction PROVE IInv'
  OBVIOUS
<1> DEFINE d == SkipNewLines(cur_token)
           node == [opcode |-> TokenAt(d).value, operands |-> << >>]
<1>1. InSource /\ cur_token \in Cursor /\ status = "parsing"
  BY DEF IInv, TypeOK, Cursor, ParseInstruction, Reading
<1>2. d \in Cursor /\ TypeAt(d) = "SYMBOL"
  BY <1>1, SkipFinds, SourceShape DEF Cursor, ParseInstruction
<1>3. After(d) \in Cursor /\ TokenAt(d).value \in Symbols
  BY <1>1, <1>2, TokenShape
<1>4. ReportsGrow
  BY QuietGrows DEF ParseInstruction
<1>5. CASE EndOfLine(After(d))
  <2>1. node \in InstructionNode
    BY <1>3 DEF InstructionNode
  <2>2. FinishInstruction(node, After(d))
    BY <1>5 DEF ParseInstruction
  <2> HIDE DEF node, d
  <2> QED
    BY <1>1, <1>3, <1>4, <2>1, <2>2, FinishKeeps
<1>6. CASE ~EndOfLine(After(d))
  <2>1. opcode' = TokenAt(d).value /\ cur_token' = After(d) /\ at' = "operand"
        /\ UNCHANGED <<input, label, operands, instructions, labels, reports, status>>
    BY <1>6 DEF ParseInstruction
  <2> HIDE DEF d
  <2>2. reports' = << >> => NodesTyped'
    BY <1>3, <2>1 DEF IInv, TypeOK, NodesTyped
  <2> QED
    BY <1>1, <1>3, <1>4, <2>1, <2>2, StepKeeps
<1> QED
  BY <1>5, <1>6

\* An operand is taken, with the errors it gave rise to: none if it is typed.
LEMMA TakeOperandKeeps ==
  ASSUME IInv, status = "parsing", at = "operand",
         NEW c \in Cursor, NEW errors \in Seq(Report), NEW node,
         errors = << >> => node \in OperandNode,
         TakeOperand(node, c, errors)
  PROVE  IInv'
<1>1. CASE exits /\ errors # << >>
  <2>1. errors[1] \in Report
    BY <1>1
  <2> QED
    BY <1>1, <2>1, ExitKeeps DEF TakeOperand, Reporting
<1>2. CASE ~(exits /\ errors # << >>)
  <2>1. /\ reports' = reports \o errors
        /\ operands' = Append(operands, node) /\ cur_token' = c /\ at' = "separator"
        /\ UNCHANGED <<input, label, opcode, instructions, labels, status>>
    BY <1>2 DEF TakeOperand, Reporting
  <2>2. ReportsGrow
    BY <1>2, <2>1, ReportedGrows
  <2>3. ASSUME reports' = << >> PROVE NodesTyped'
    <3>1. reports \in Seq(Report) /\ reports = << >>
      BY <2>2, <2>3 DEF IInv, TypeOK, ReportsGrow
    <3>2. errors = << >>
      <4>1. << >> \o errors = errors
        BY ConcatEmptySeq
      <4> QED
        BY <2>1, <2>3, <3>1, <4>1
    <3>3. NodesTyped /\ node \in OperandNode
      BY <3>1, <3>2 DEF IInv, TypeOK
    <3> QED
      BY <2>1, <3>3 DEF NodesTyped
  <2> QED
    BY <2>1, <2>2, <2>3, StepKeeps
<1> QED
  BY <1>1, <1>2

LEMMA IfReports ==
  ASSUME InSource, NEW condition \in BOOLEAN, NEW kind \in ErrorKind, NEW c \in Cursor
  PROVE  If(condition, kind, c) \in Seq(Report) /\ (If(condition, kind, c) = << >> => ~condition)
<1> DEFINE e == Error(kind, c)
<1>1. e \in Report
  BY ErrorInSource
<1>2. If(condition, kind, c) = IF condition THEN <<e>> ELSE << >>
  BY DEF If
<1> HIDE DEF e
<1> QED
  BY <1>1, <1>2

LEMMA ParseMemAddressKeeps == IInv /\ ParseMemAddress => IInv'
<1> SUFFICES ASSUME IInv, ParseMemAddress PROVE IInv'
  OBVIOUS
<1> DEFINE r == IF HasOffset THEN After(After(cur_token)) ELSE After(cur_token)
           node == [type |-> "MEM_ADDRESS", register |-> TokenAt(r).value,
                    offset |-> IF HasOffset THEN TokenAt(cur_token).value ELSE NULL]
           noRegister == If(TypeAt(r) # "SYMBOL", "expected", r)
           notClosed == If(TypeAt(After(r)) # "BRACKET_CLOSE", "expected", After(r))
<1>1. InSource /\ cur_token \in Cursor /\ status = "parsing" /\ at = "operand"
  BY DEF IInv, TypeOK, Cursor, ParseMemAddress, Reading
<1>2. After(cur_token) \in Cursor /\ r \in Cursor
  BY <1>1, TokenShape
<1>3. After(r) \in Cursor /\ After(After(r)) \in Cursor
  BY <1>1, <1>2, TokenShape
<1>4. "expected" \in ErrorKind /\ "invalid_offset" \in ErrorKind
  BY DEF ErrorKind
<1>5. CASE HasOffset /\ TypeAt(cur_token) # "INT"
  <2> DEFINE e == Error("invalid_offset", cur_token)
  <2>1. e \in Report
    BY <1>1, <1>4, ErrorInSource
  <2>2. TakeOperand(NULL, After(cur_token), <<e>>)
    BY <1>5 DEF ParseMemAddress
  <2> HIDE DEF e
  <2>3. <<e>> \in Seq(Report) /\ <<e>> # << >>
    BY <2>1
  <2> QED
    BY <1>1, <1>2, <2>2, <2>3, TakeOperandKeeps
<1>6. CASE ~(HasOffset /\ TypeAt(cur_token) # "INT")
  <2>1. /\ noRegister \in Seq(Report) /\ (noRegister = << >> => TypeAt(r) = "SYMBOL")
        /\ notClosed \in Seq(Report)
    <3>1. (TypeAt(r) # "SYMBOL") \in BOOLEAN /\ (TypeAt(After(r)) # "BRACKET_CLOSE") \in BOOLEAN
      OBVIOUS
    <3> QED
      BY <1>1, <1>2, <1>3, <1>4, <3>1, IfReports
  <2>2. TakeOperand(node, After(After(r)), noRegister \o notClosed)
    BY <1>6 DEF ParseMemAddress
  <2>3. ASSUME TypeAt(r) = "SYMBOL" PROVE node \in OperandNode
    <3>1. TokenAt(r).value \in Symbols
      BY <1>1, <1>2, <2>3, TokenShape
    <3>2. HasOffset => TokenAt(cur_token).value \in Word
      BY <1>1, <1>6, TokenShape
    <3> QED
      BY <3>1, <3>2 DEF OperandNode
  <2> HIDE DEF node, noRegister, notClosed, r
  <2>4. /\ noRegister \o notClosed \in Seq(Report)
        /\ noRegister \o notClosed = << >> => noRegister = << >>
    BY <2>1
  <2> QED
    BY <1>1, <1>3, <2>1, <2>2, <2>3, <2>4, TakeOperandKeeps
<1> QED
  BY <1>5, <1>6

LEMMA ParseSimpleKeeps == IInv /\ ParseSimple => IInv'
<1> SUFFICES ASSUME IInv, ParseSimple PROVE IInv'
  OBVIOUS
<1> DEFINE node == [type |-> "SIMPLE", token |-> TokenAt(cur_token)]
           e == Error("unexpected_as_operand", cur_token)
<1>1. InSource /\ cur_token \in Cursor /\ status = "parsing" /\ at = "operand"
  BY DEF IInv, TypeOK, Cursor, ParseSimple, Reading
<1>2. After(cur_token) \in Cursor /\ TokenAt(cur_token) \in Token
  BY <1>1, TokenShape
<1>3. CASE TypeAt(cur_token) \in {"SYMBOL", "STRING", "INT"}
  <2>1. node \in OperandNode
    BY <1>2, <1>3 DEF OperandNode, TypeAt
  <2>2. TakeOperand(node, After(cur_token), << >>)
    BY <1>3 DEF ParseSimple
  <2>3. << >> \in Seq(Report)
    BY EmptySeq
  <2> HIDE DEF node
  <2> QED
    BY <1>1, <1>2, <2>1, <2>2, <2>3, TakeOperandKeeps
<1>4. CASE TypeAt(cur_token) \notin {"SYMBOL", "STRING", "INT"}
  <2>1. e \in Report
    BY <1>1, ErrorInSource DEF ErrorKind
  <2>2. TakeOperand(NULL, After(cur_token), <<e>>)
    BY <1>4 DEF ParseSimple
  <2> HIDE DEF e
  <2>3. <<e>> \in Seq(Report) /\ <<e>> # << >>
    BY <2>1
  <2> QED
    BY <1>1, <1>2, <2>2, <2>3, TakeOperandKeeps
<1> QED
  BY <1>3, <1>4

LEMMA ParseSeparatorKeeps == IInv /\ ParseSeparator => IInv'
<1> SUFFICES ASSUME IInv, ParseSeparator PROVE IInv'
  OBVIOUS
<1> DEFINE node == [opcode |-> opcode, operands |-> operands]
           errors == If(~EndOfLine(cur_token), "expected_comma", cur_token)
<1>1. InSource /\ cur_token \in Cursor /\ status = "parsing" /\ at = "separator"
  BY DEF IInv, TypeOK, Cursor, ParseSeparator, Reading
<1>2. After(cur_token) \in Cursor
  BY <1>1, TokenShape
<1>3. CASE TypeAt(cur_token) = "COMMA"
  <2>1. cur_token' = After(cur_token) /\ at' = "operand"
        /\ UNCHANGED <<input, label, opcode, operands, instructions, labels, reports, status>>
    BY <1>3 DEF ParseSeparator, nodes
  <2>2. reports' = << >> => NodesTyped'
    BY <1>1, <2>1 DEF IInv, TypeOK, NodesTyped
  <2> QED
    BY <1>1, <1>2, <2>1, <2>2, QuietGrows, StepKeeps
<1>4. CASE TypeAt(cur_token) # "COMMA"
  <2>1. errors \in Seq(Report)
    BY <1>1, IfReports DEF ErrorKind, EndOfLine
  <2>2. Reporting(errors, FinishInstruction(node, After(cur_token)))
    BY <1>4 DEF ParseSeparator
  <2>3. reports = << >> => node \in InstructionNode
    BY <1>1 DEF IInv, TypeOK, NodesTyped, InstructionNode
  <2> HIDE DEF errors, node
  <2>4. CASE exits /\ errors # << >>
    <3>1. errors[1] \in Report
      BY <2>1, <2>4
    <3> QED
      BY <2>2, <2>4, <3>1, ExitKeeps DEF Reporting
  <2>5. CASE ~(exits /\ errors # << >>)
    <3>1. reports' = reports \o errors /\ FinishInstruction(node, After(cur_token))
      BY <2>2, <2>5 DEF Reporting
    <3> QED
      BY <1>1, <1>2, <2>1, <2>3, <2>5, <3>1, ReportedGrows, FinishKeeps
  <2> QED
    BY <2>4, <2>5
<1> QED
  BY <1>3, <1>4

LEMMA NextIInv == IInv /\ [Next]_vars => IInv'
<1> SUFFICES ASSUME IInv, [Next]_vars PROVE IInv'
  OBVIOUS
<1>1. CASE Parsed
  <2>1. UNCHANGED <<input, cur_token, at, label, opcode, operands, instructions, labels, reports>>
        /\ status = "parsing" /\ status' = "parsed"
    BY <1>1 DEF Parsed, Reading, nodes
  <2>2. reports' = << >> => NodesTyped'
    BY <2>1 DEF IInv, TypeOK, NodesTyped
  <2> QED
    BY <2>1, <2>2, QuietGrows, StepKeeps DEF IInv, TypeOK, Cursor
<1>2. CASE AssertionFails
  BY <1>2, QuietGrows, CrashKeeps DEF AssertionFails, Reading
<1>3. CASE Stopped \/ UNCHANGED vars
  <2>1. UNCHANGED <<tokens, exits, cur_token, at, label, opcode, operands, instructions, labels,
                    reports, status>>
    BY <1>3 DEF Stopped, vars, input, nodes
  <2> QED
    BY <2>1 DEF IInv, InSource, TypeOK, Report, NodesTyped
<1> QED
  BY <1>1, <1>2, <1>3, ParseLabelKeeps, TopLevelKeeps, ParseInstructionKeeps,
     ParseMemAddressKeeps, ParseSimpleKeeps, ParseSeparatorKeeps DEF Next

LEMMA Invariance == Spec => []IInv
BY InitIInv, NextIInv, PTL DEF Spec

-----------------------------------------------------------------------------
\* For every sequence of tokens: the cursor stays in it although it is moved back
\* blindly, every error is about a token of it, and as long as none was reported
\* the nodes are those program_build expects; no label is without instructions.
THEOREM TypeCorrect == Spec => []TypeOK
<1>1. IInv => TypeOK
  BY DEF IInv
<1> QED
  BY <1>1, Invariance, PTL

-----------------------------------------------------------------------------
(* What has been read, and what has been written *)

\* The tokens of the first c that are in a node.
Read(s, c) == FlattenSeq([k \in 1 .. c |-> Kept(s[k])])

OperandsTokens(ops) ==
  FlattenSeq([k \in DOMAIN ops |->
    (IF k = 1 THEN << >> ELSE <<Mark("COMMA")>>) \o OperandTokens(ops[k])])

BodyTokens(body) == FlattenSeq([k \in DOMAIN body |-> InstructionTokens(body[k])])
LabelsTokens(ls) == FlattenSeq([k \in DOMAIN ls |-> LabelTokens(ls[k])])

\* The label, and the instruction, that are not complete.
OpenTokens(open) == IF open = << >> THEN << >> ELSE LabelTokens(open[1])

StartedTokens(where, opc, ops) ==
  IF where \in {"operand", "separator"}
  THEN (<<[type |-> "SYMBOL", value |-> opc]>> \o OperandsTokens(ops))
         \o (IF where = "operand" /\ ops # << >> THEN <<Mark("COMMA")>> ELSE << >>)
  ELSE << >>

Written ==
  (NodeTokens \o OpenTokens(label)) \o StartedTokens(at, opcode, operands)

\* A label ends at the next one, or at the end of the source.
AtBreak == TypeAt(SkipNewLines(cur_token)) = "EOF" \/ IsLabel(cur_token)

\* Which nodes are under construction.
Construction ==
  /\ at = "top" => label = << >> /\ (labels = << >> \/ AtBreak)
  /\ at # "top" /\ label = << >> => labels = << >>
  /\ at \in {"top", "instruction"} => operands = << >>
  /\ at = "separator" => operands # << >>

\* The cursor is behind the tokens that the nodes were made of, and as long as
\* nothing has been reported those are all it has passed.
NothingLostSoFar ==
  reports = << >> =>
    /\ status = "parsing" => Written = Read(tokens, cur_token) /\ Construction
    /\ status = "parsed" => NodeTokens = Read(tokens, Len(tokens))

-----------------------------------------------------------------------------
(* The tokens of the nodes *)

LEMMA TokenIs ==
  ASSUME NEW t \in Token
  PROVE  /\ t = [type |-> t.type, value |-> t.value]
         /\ t.type \in Punctuation => t = Mark(t.type)
         /\ Kept(t) \in Seq(Token)
<1>1. t = [type |-> t.type, value |-> t.value]
  BY DEF Token
<1>2. t.type \in Punctuation => t.value = NULL
  BY DEF Token, Punctuation
<1>3. <<t>> \in Seq(Token) /\ << >> \in Seq(Token)
  OBVIOUS
<1> QED
  BY <1>1, <1>2, <1>3 DEF Mark, Kept

LEMMA Regroup == \A a, b, c \in Seq(Token) : (a \o b) \o c = a \o (b \o c)
<1> TAKE a, b, c \in Seq(Token)
<1> QED
  BY ConcatAssociative

LEMMA Pair ==
  ASSUME NEW a \in Token, NEW b \in Token
  PROVE  <<a>> \o <<b>> = <<a, b>>
<1> DEFINE one == <<a>> \o <<b>>
           two == <<a, b>>
<1>1. /\ <<a>> \in Seq(Token) /\ Len(<<a>>) = 1 /\ <<a>>[1] = a
      /\ <<b>> \in Seq(Token) /\ Len(<<b>>) = 1 /\ <<b>>[1] = b
      /\ two \in Seq(Token) /\ Len(two) = 2 /\ two[1] = a /\ two[2] = b
  OBVIOUS
<1>2. one \in Seq(Token) /\ Len(one) = 2 /\ one[1] = a /\ one[2] = b
  BY <1>1
<1> HIDE DEF one, two
<1>3. \A k \in 1 .. 2 : one[k] = two[k]
  BY <1>1, <1>2
<1>4. one = two
  BY <1>1, <1>2, <1>3, SeqEqual
<1> QED
  BY <1>4 DEF one, two

LEMMA Triple ==
  ASSUME NEW a \in Token, NEW b \in Token, NEW c \in Token
  PROVE  <<a, b>> \o <<c>> = <<a, b, c>>
<1> DEFINE one == <<a, b>> \o <<c>>
           two == <<a, b, c>>
<1>1. /\ <<a, b>> \in Seq(Token) /\ Len(<<a, b>>) = 2 /\ <<a, b>>[1] = a /\ <<a, b>>[2] = b
      /\ <<c>> \in Seq(Token) /\ Len(<<c>>) = 1 /\ <<c>>[1] = c
      /\ two \in Seq(Token) /\ Len(two) = 3 /\ two[1] = a /\ two[2] = b /\ two[3] = c
  OBVIOUS
<1>2. one \in Seq(Token) /\ Len(one) = 3 /\ one[1] = a /\ one[2] = b /\ one[3] = c
  BY <1>1
<1> HIDE DEF one, two
<1>3. \A k \in 1 .. 3 : one[k] = two[k]
  BY <1>1, <1>2
<1>4. one = two
  BY <1>1, <1>2, <1>3, SeqEqual
<1> QED
  BY <1>4 DEF one, two

LEMMA MarksAreTokens ==
  /\ \A type \in Punctuation : Mark(type) \in Token
  /\ \A s \in Symbols : [type |-> "SYMBOL", value |-> s] \in Token
  /\ \A n \in Word : [type |-> "INT", value |-> n] \in Token
  /\ {"COMMA", "COLON", "BRACKET_OPEN", "BRACKET_CLOSE"} \subseteq Punctuation
BY DEF Mark, Token, Punctuation

LEMMA OperandIsTokens ==
  ASSUME NEW node \in OperandNode
  PROVE  OperandTokens(node) \in Seq(Token)
<1>1. CASE node.type = "SIMPLE"
  <2>1. node.token \in Token
    BY <1>1 DEF OperandNode
  <2>2. <<node.token>> \in Seq(Token)
    BY <2>1
  <2> QED
    BY <1>1, <2>2 DEF OperandTokens
<1>2. CASE node.type # "SIMPLE"
  <2>1. node.register \in Symbols /\ node.offset \in Word \cup {NULL}
    BY <1>2 DEF OperandNode
  <2> DEFINE number == [type |-> "INT", value |-> node.offset]
             name == [type |-> "SYMBOL", value |-> node.register]
  <2>2. (node.offset # NULL => number \in Token) /\ name \in Token
    BY <2>1, MarksAreTokens
  <2>3. Mark("BRACKET_OPEN") \in Token /\ Mark("BRACKET_CLOSE") \in Token
    BY MarksAreTokens
  <2>4. OperandTokens(node) =
          (IF node.offset = NULL THEN << >> ELSE <<number>>)
            \o <<Mark("BRACKET_OPEN"), name, Mark("BRACKET_CLOSE")>>
    BY <1>2 DEF OperandTokens
  <2> HIDE DEF number, name
  <2>5. (IF node.offset = NULL THEN << >> ELSE <<number>>) \in Seq(Token)
    BY <2>2
  <2>6. <<Mark("BRACKET_OPEN"), name, Mark("BRACKET_CLOSE")>> \in Seq(Token)
    BY <2>2, <2>3
  <2> QED
    BY <2>4, <2>5, <2>6
<1> QED
  BY <1>1, <1>2

\* One more member, written behind those that were written before.
LEMMA WriteMore ==
  ASSUME NEW S, NEW written \in Seq(Seq(S)), NEW last \in Seq(S), NEW more,
         more = [k \in 1 .. Len(written) + 1 |-> more[k]],
         \A k \in 1 .. Len(written) : more[k] = written[k],
         more[Len(written) + 1] = last
  PROVE  FlattenSeq(more) = FlattenSeq(written) \o last
<1> DEFINE n == Len(written)
<1>1. n \in Nat
  OBVIOUS
<1>2. /\ Append(written, last) \in Seq(Seq(S)) /\ Len(Append(written, last)) = n + 1
      /\ Append(written, last)[n + 1] = last
      /\ \A k \in 1 .. n : Append(written, last)[k] = written[k]
  OBVIOUS
<1>3. more = Append(written, last)
  <2> DEFINE all == Append(written, last)
  <2> HIDE DEF all
  <2>1. all \in Seq(Seq(S)) /\ Len(all) = n + 1
    BY <1>2 DEF all
  <2>2. all = [k \in 1 .. n + 1 |-> all[k]]
    BY <1>1, <2>1
  <2>3. \A k \in 1 .. n + 1 : more[k] = all[k]
    <3>1. \A k \in 1 .. n + 1 : k # n + 1 => k \in 1 .. n
      BY <1>1
    <3> QED
      BY <1>2, <3>1 DEF all
  <2>4. more = all
    BY <2>2, <2>3
  <2> QED
    BY <2>4 DEF all
<1> QED
  BY <1>3, FlattenAppend

LEMMA OperandsAre ==
  ASSUME NEW ops \in Seq(OperandNode)
  PROVE  /\ OperandsTokens(ops) \in Seq(Token)
         /\ \A node \in OperandNode :
              OperandsTokens(Append(ops, node)) =
                OperandsTokens(ops)
                  \o ((IF ops = << >> THEN << >> ELSE <<Mark("COMMA")>>) \o OperandTokens(node))
<1> DEFINE Piece(o, k) == (IF k = 1 THEN << >> ELSE <<Mark("COMMA")>>) \o OperandTokens(o[k])
           pieces == [k \in DOMAIN ops |-> Piece(ops, k)]
<1>1. \A k, node : node \in OperandNode =>
        (IF k = 1 THEN << >> ELSE <<Mark("COMMA")>>) \o OperandTokens(node) \in Seq(Token)
  <2> SUFFICES ASSUME NEW k, NEW node \in OperandNode
               PROVE  (IF k = 1 THEN << >> ELSE <<Mark("COMMA")>>) \o OperandTokens(node)
                        \in Seq(Token)
    OBVIOUS
  <2>1. Mark("COMMA") \in Token
    BY MarksAreTokens
  <2>2. (IF k = 1 THEN << >> ELSE <<Mark("COMMA")>>) \in Seq(Token)
    BY <2>1
  <2>3. OperandTokens(node) \in Seq(Token)
    BY OperandIsTokens
  <2> QED
    BY <2>2, <2>3
<1>2. pieces \in Seq(Seq(Token))
  <2>1. ASSUME NEW k \in 1 .. Len(ops) PROVE Piece(ops, k) \in Seq(Token)
    <3>1. ops[k] \in OperandNode
      OBVIOUS
    <3> QED
      BY <1>1, <3>1
  <2>2. DOMAIN ops = 1 .. Len(ops) /\ Len(ops) \in Nat
    OBVIOUS
  <2> HIDE DEF Piece
  <2> QED
    BY <2>1, <2>2
<1>3. OperandsTokens(ops) = FlattenSeq(pieces)
  BY DEF OperandsTokens
<1>4. ASSUME NEW node \in OperandNode
      PROVE  OperandsTokens(Append(ops, node)) =
               OperandsTokens(ops)
                 \o ((IF ops = << >> THEN << >> ELSE <<Mark("COMMA")>>) \o OperandTokens(node))
  <2> DEFINE more == [k \in DOMAIN Append(ops, node) |-> Piece(Append(ops, node), k)]
             n == Len(ops)
             last == (IF ops = << >> THEN << >> ELSE <<Mark("COMMA")>>) \o OperandTokens(node)
  <2>1. /\ n \in Nat /\ DOMAIN Append(ops, node) = 1 .. n + 1 /\ DOMAIN ops = 1 .. n
        /\ Append(ops, node)[n + 1] = node /\ \A k \in 1 .. n : Append(ops, node)[k] = ops[k]
        /\ n = 0 <=> ops = << >>
    OBVIOUS
  <2>2. last \in Seq(Token)
    <3>1. ops = << >> \/ ops # << >>
      OBVIOUS
    <3>2. /\ <<Mark("COMMA")>> \o OperandTokens(node) =
               (IF 2 = 1 THEN << >> ELSE <<Mark("COMMA")>>) \o OperandTokens(node)
          /\ << >> \o OperandTokens(node) =
               (IF 1 = 1 THEN << >> ELSE <<Mark("COMMA")>>) \o OperandTokens(node)
      OBVIOUS
    <3> QED
      BY <1>1, <3>1, <3>2
  <2>3. OperandsTokens(Append(ops, node)) = FlattenSeq(more)
    BY DEF OperandsTokens
  <2>4. /\ \A k \in 1 .. n : more[k] = pieces[k]
        /\ more[n + 1] = last
    <3>1. \A k \in 1 .. n : Piece(Append(ops, node), k) = Piece(ops, k) /\ k \in 1 .. n + 1
      BY <2>1
    <3>2. Piece(Append(ops, node), n + 1) = last /\ n + 1 \in 1 .. n + 1
      BY <2>1
    <3> HIDE DEF Piece, last, n
    <3> QED
      BY <2>1, <3>1, <3>2
  <2>5. more = [k \in 1 .. n + 1 |-> more[k]] /\ Len(pieces) = n
    <3> HIDE DEF Piece
    <3> QED
      BY <1>2, <2>1
  <2> HIDE DEF pieces, last, more, Piece
  <2>6. FlattenSeq(more) = FlattenSeq(pieces) \o last
    BY <1>2, <2>2, <2>4, <2>5, WriteMore
  <2> QED
    BY <1>3, <2>3, <2>6 DEF last
<1>5. OperandsTokens(ops) \in Seq(Token)
  <2> HIDE DEF pieces
  <2> QED
    BY <1>2, <1>3, FlattenType
<1> QED
  BY <1>4, <1>5

LEMMA InstructionIsTokens ==
  ASSUME NEW node \in InstructionNode
  PROVE  /\ InstructionTokens(node) =
              <<[type |-> "SYMBOL", value |-> node.opcode]>> \o OperandsTokens(node.operands)
         /\ InstructionTokens(node) \in Seq(Token)
<1> DEFINE name == [type |-> "SYMBOL", value |-> node.opcode]
<1>1. InstructionTokens(node) = <<name>> \o OperandsTokens(node.operands)
  BY DEF InstructionTokens, OperandsTokens
<1>2. node.opcode \in Symbols /\ node.operands \in Seq(OperandNode)
  BY DEF InstructionNode
<1>3. name \in Token
  BY <1>2, MarksAreTokens
<1> HIDE DEF name
<1>4. <<name>> \in Seq(Token) /\ OperandsTokens(node.operands) \in Seq(Token)
  BY <1>2, <1>3, OperandsAre
<1>5. InstructionTokens(node) \in Seq(Token)
  BY <1>1, <1>4
<1> QED
  BY <1>1, <1>5 DEF name

LEMMA BodyAre ==
  ASSUME NEW body \in Seq(InstructionNode)
  PROVE  /\ BodyTokens(body) \in Seq(Token)
         /\ \A node \in InstructionNode :
              BodyTokens(Append(body, node)) = BodyTokens(body) \o InstructionTokens(node)
<1> DEFINE written == [k \in DOMAIN body |-> InstructionTokens(body[k])]
<1>1. written \in Seq(Seq(Token))
  <2>1. ASSUME NEW k \in 1 .. Len(body) PROVE InstructionTokens(body[k]) \in Seq(Token)
    <3>1. body[k] \in InstructionNode
      OBVIOUS
    <3> QED
      BY <3>1, InstructionIsTokens
  <2> QED
    BY <2>1
<1>2. BodyTokens(body) = FlattenSeq(written)
  BY DEF BodyTokens
<1>3. ASSUME NEW node \in InstructionNode
      PROVE  BodyTokens(Append(body, node)) = BodyTokens(body) \o InstructionTokens(node)
  <2> DEFINE more == [k \in DOMAIN Append(body, node) |-> InstructionTokens(Append(body, node)[k])]
             n == Len(body)
  <2>1. /\ n \in Nat /\ DOMAIN Append(body, node) = 1 .. n + 1 /\ Len(written) = n
        /\ Append(body, node)[n + 1] = node
        /\ \A k \in 1 .. n : Append(body, node)[k] = body[k]
    OBVIOUS
  <2>2. InstructionTokens(node) \in Seq(Token)
    BY InstructionIsTokens
  <2>3. \A k \in 1 .. n : more[k] = written[k]
    BY <2>1
  <2>4. more[n + 1] = InstructionTokens(node) /\ more = [k \in 1 .. n + 1 |-> more[k]]
    BY <2>1
  <2>5. BodyTokens(Append(body, node)) = FlattenSeq(more)
    BY DEF BodyTokens
  <2> HIDE DEF written, more
  <2>6. FlattenSeq(more) = FlattenSeq(written) \o InstructionTokens(node)
    BY <1>1, <2>1, <2>2, <2>3, <2>4, WriteMore, ZenonT(60)
  <2> QED
    BY <1>2, <2>5, <2>6
<1>4. BodyTokens(body) \in Seq(Token)
  <2> HIDE DEF written
  <2> QED
    BY <1>1, <1>2, FlattenType
<1> QED
  BY <1>3, <1>4

LEMMA LabelIsTokens ==
  ASSUME NEW node \in OpenLabel
  PROVE  /\ LabelTokens(node) =
              <<[type |-> "SYMBOL", value |-> node.name], Mark("COLON")>>
                \o BodyTokens(node.instructions)
         /\ LabelTokens(node) \in Seq(Token)
<1> DEFINE name == [type |-> "SYMBOL", value |-> node.name]
<1>1. LabelTokens(node) = <<name, Mark("COLON")>> \o BodyTokens(node.instructions)
  BY DEF LabelTokens, BodyTokens
<1>2. node.name \in Symbols /\ node.instructions \in Seq(InstructionNode)
  BY DEF OpenLabel
<1>3. name \in Token /\ Mark("COLON") \in Token
  BY <1>2, MarksAreTokens
<1> HIDE DEF name
<1>4. <<name, Mark("COLON")>> \in Seq(Token) /\ BodyTokens(node.instructions) \in Seq(Token)
  BY <1>2, <1>3, BodyAre
<1>5. LabelTokens(node) \in Seq(Token)
  BY <1>1, <1>4
<1> QED
  BY <1>1, <1>5 DEF name

LEMMA CompleteIsOpen == LabelNode \subseteq OpenLabel
BY DEF LabelNode, OpenLabel

LEMMA LabelsAre ==
  ASSUME NEW ls \in Seq(LabelNode)
  PROVE  /\ LabelsTokens(ls) \in Seq(Token)
         /\ \A node \in LabelNode :
              LabelsTokens(Append(ls, node)) = LabelsTokens(ls) \o LabelTokens(node)
<1> DEFINE written == [k \in DOMAIN ls |-> LabelTokens(ls[k])]
<1>1. written \in Seq(Seq(Token))
  <2>1. ASSUME NEW k \in 1 .. Len(ls) PROVE LabelTokens(ls[k]) \in Seq(Token)
    <3>1. ls[k] \in LabelNode
      OBVIOUS
    <3> QED
      BY <3>1, LabelIsTokens, CompleteIsOpen
  <2> QED
    BY <2>1
<1>2. LabelsTokens(ls) = FlattenSeq(written)
  BY DEF LabelsTokens
<1>3. ASSUME NEW node \in LabelNode
      PROVE  LabelsTokens(Append(ls, node)) = LabelsTokens(ls) \o LabelTokens(node)
  <2> DEFINE more == [k \in DOMAIN Append(ls, node) |-> LabelTokens(Append(ls, node)[k])]
             n == Len(ls)
  <2>1. /\ n \in Nat /\ DOMAIN Append(ls, node) = 1 .. n + 1 /\ Len(written) = n
        /\ Append(ls, node)[n + 1] = node
        /\ \A k \in 1 .. n : Append(ls, node)[k] = ls[k]
    OBVIOUS
  <2>2. LabelTokens(node) \in Seq(Token)
    BY LabelIsTokens, CompleteIsOpen
  <2>3. \A k \in 1 .. n : more[k] = written[k]
    BY <2>1
  <2>4. more[n + 1] = LabelTokens(node) /\ more = [k \in 1 .. n + 1 |-> more[k]]
    BY <2>1
  <2>5. LabelsTokens(Append(ls, node)) = FlattenSeq(more)
    BY DEF LabelsTokens
  <2> HIDE DEF written, more
  <2>6. FlattenSeq(more) = FlattenSeq(written) \o LabelTokens(node)
    BY <1>1, <2>1, <2>2, <2>3, <2>4, WriteMore, ZenonT(60)
  <2> QED
    BY <1>2, <2>5, <2>6
<1>4. LabelsTokens(ls) \in Seq(Token)
  <2> HIDE DEF written
  <2> QED
    BY <1>1, <1>2, FlattenType
<1> QED
  BY <1>3, <1>4
-----------------------------------------------------------------------------
(* The tokens that have been read *)

LEMMA ReadMore ==
  ASSUME InSource, NEW c \in 0 .. Len(tokens) - 1
  PROVE  Read(tokens, c + 1) = Read(tokens, c) \o Kept(tokens[c + 1])
<1> DEFINE written == [k \in 1 .. c |-> Kept(tokens[k])]
           more == [k \in 1 .. c + 1 |-> Kept(tokens[k])]
           last == Kept(tokens[c + 1])
<1>1. c \in Nat /\ Len(tokens) \in Nat /\ \A k \in 1 .. c + 1 : tokens[k] \in Token
  BY SourceShape
<1>2. \A k \in 1 .. c + 1 : Kept(tokens[k]) \in Seq(Token)
  BY <1>1, TokenIs
<1>3. written \in Seq(Seq(Token)) /\ Len(written) = c
  <2>1. \A k \in 1 .. c : Kept(tokens[k]) \in Seq(Token)
    BY <1>1, <1>2
  <2> QED
    BY <1>1, <2>1
<1>4. /\ \A k \in 1 .. c : more[k] = written[k]
      /\ more[c + 1] = last /\ more = [k \in 1 .. c + 1 |-> more[k]]
      /\ last \in Seq(Token)
  BY <1>1, <1>2
<1>5. Read(tokens, c) = FlattenSeq(written) /\ Read(tokens, c + 1) = FlattenSeq(more)
  BY DEF Read
<1> HIDE DEF written, more, last
<1>6. FlattenSeq(more) = FlattenSeq(written) \o last
  BY <1>3, <1>4, WriteMore
<1> QED
  BY <1>5, <1>6 DEF last

LEMMA ReadIsTokens ==
  ASSUME InSource, NEW c \in Cursor
  PROVE  Read(tokens, c) \in Seq(Token)
<1> DEFINE written == [k \in 1 .. c |-> Kept(tokens[k])]
<1>1. c \in Nat /\ \A k \in 1 .. c : tokens[k] \in Token
  BY SourceShape DEF Cursor
<1>2. \A k \in 1 .. c : Kept(tokens[k]) \in Seq(Token)
  BY <1>1, TokenIs
<1>3. written \in Seq(Seq(Token))
  BY <1>1, <1>2
<1> HIDE DEF written
<1>4. FlattenSeq(written) \in Seq(Token)
  BY <1>3, FlattenType
<1> QED
  BY <1>4 DEF Read, written

\* A token is read; at the end, the same one again.
LEMMA ReadAfter ==
  ASSUME InSource, NEW c \in Cursor
  PROVE  /\ EndOfLine(c) => Read(tokens, After(c)) = Read(tokens, c)
         /\ ~EndOfLine(c) => Read(tokens, After(c)) = Read(tokens, c) \o <<TokenAt(c)>>
<1>1. Len(tokens) \in Nat \ {0} /\ c \in Nat
  BY SourceShape DEF Cursor
<1>2. Read(tokens, c) \in Seq(Token)
  BY ReadIsTokens
<1>3. CASE c = Len(tokens)
  <2>1. TypeAt(c) = "EOF"
    BY <1>1, <1>3, TokenShape
  <2>2. After(c) = c
    BY <1>1, <1>3 DEF After
  <2> QED
    BY <2>1, <2>2 DEF EndOfLine
<1>4. CASE c # Len(tokens)
  <2>1. c \in 0 .. Len(tokens) - 1
    BY <1>1, <1>4 DEF Cursor
  <2>2. After(c) = c + 1 /\ TokenAt(c) = tokens[c + 1]
    BY <1>1, <2>1 DEF After, TokenAt
  <2>3. Read(tokens, c + 1) = Read(tokens, c) \o Kept(tokens[c + 1])
    BY <2>1, ReadMore
  <2>4. Kept(tokens[c + 1]) = IF EndOfLine(c) THEN << >> ELSE <<TokenAt(c)>>
    BY <2>2 DEF Kept, EndOfLine, TypeAt
  <2>5. Read(tokens, c) \o << >> = Read(tokens, c)
    BY <1>2, ConcatEmptySeq
  <2> QED
    BY <2>2, <2>3, <2>4, <2>5
<1> QED
  BY <1>3, <1>4

\* Looking past line breaks reads nothing.
LEMMA ReadSkip ==
  ASSUME InSource, NEW c \in Cursor
  PROVE  Read(tokens, SkipNewLines(c)) = Read(tokens, c)
<1> DEFINE d == SkipNewLines(c)
           More == {e \in c .. d : Read(tokens, e) # Read(tokens, c)}
<1>1. c \in Nat /\ d \in c .. Len(tokens) /\ Len(tokens) \in Nat
  BY SkipFinds, SourceShape DEF Cursor
<1>2. \A e \in c .. d - 1 : TypeAt(e) = "NEW_LINE"
  BY SkipFinds
<1> HIDE DEF d
<1>3. ASSUME More # {} PROVE FALSE
  <2>1. More \in SUBSET Nat
    BY <1>1
  <2>2. \A e \in More : e \in c .. d /\ Read(tokens, e) # Read(tokens, c)
    OBVIOUS
  <2>3. \A e \in c .. d : e \notin More => Read(tokens, e) = Read(tokens, c)
    OBVIOUS
  <2> HIDE DEF More
  <2>4. PICK e \in More : \A x \in More : e <= x
    BY <1>3, <2>1, Least
  <2>5. e \in c .. d /\ e # c
    BY <2>2
  <2> DEFINE b == e - 1
  <2>6. b \in c .. d - 1 /\ b \in c .. d /\ b \notin More /\ b + 1 = e /\ b \in Cursor
    BY <1>1, <2>4, <2>5 DEF Cursor
  <2> HIDE DEF b
  <2>7. EndOfLine(b) /\ TypeAt(b) # "EOF"
    BY <1>2, <2>6 DEF EndOfLine
  <2>8. After(b) = b + 1
    BY <2>6, <2>7, TokenShape
  <2>9. Read(tokens, e) = Read(tokens, b)
    BY <2>6, <2>7, <2>8, ReadAfter
  <2> QED
    BY <2>2, <2>3, <2>4, <2>6, <2>9
<1>4. d \in c .. d
  BY <1>1
<1> QED
  BY <1>3, <1>4 DEF d

\* Where a token starts that ends no line, nothing is left to skip.
LEMMA SkipNothing ==
  ASSUME InSource, NEW c \in Cursor, TypeAt(c) # "NEW_LINE"
  PROVE  SkipNewLines(c) = c
<1> DEFINE d == SkipNewLines(c)
<1>1. c \in Nat /\ d \in c .. Len(tokens) /\ Len(tokens) \in Nat
  BY SkipFinds, SourceShape DEF Cursor
<1>2. \A e \in c .. d - 1 : TypeAt(e) = "NEW_LINE"
  BY SkipFinds
<1> HIDE DEF d
<1>3. c \notin c .. d - 1
  BY <1>2
<1>4. c = d
  BY <1>1, <1>3, SMTT(30)
<1> QED
  BY <1>4 DEF d
-----------------------------------------------------------------------------
(* Every token that is read is written *)

LEMMA StaysAtBreak ==
  ASSUME UNCHANGED tokens,
         TypeAt(SkipNewLines(cur_token')) = "EOF" \/ IsLabel(cur_token')
  PROVE  AtBreak'
BY DEF AtBreak, TypeAt, TokenAt, SkipNewLines, IsLabel, After

LEMMA NodeTokensAre ==
  NodeTokens = BodyTokens(instructions) \o LabelsTokens(labels)
BY DEF NodeTokens, BodyTokens, LabelsTokens

LEMMA NodesAreTokens ==
  ASSUME NodesTyped
  PROVE  /\ BodyTokens(instructions) \in Seq(Token)
         /\ LabelsTokens(labels) \in Seq(Token)
         /\ NodeTokens \in Seq(Token)
         /\ OpenTokens(label) \in Seq(Token)
         /\ OperandsTokens(operands) \in Seq(Token)
         /\ label # << >> => label[1] \in OpenLabel
<1>1. BodyTokens(instructions) \in Seq(Token) /\ LabelsTokens(labels) \in Seq(Token)
  BY BodyAre, LabelsAre DEF NodesTyped
<1>2. label # << >> => label[1] \in OpenLabel
  BY DEF NodesTyped
<1>3. OpenTokens(label) \in Seq(Token)
  <2>1. label # << >> => LabelTokens(label[1]) \in Seq(Token)
    BY <1>2, LabelIsTokens
  <2>2. << >> \in Seq(Token)
    OBVIOUS
  <2> QED
    BY <2>1, <2>2 DEF OpenTokens
<1>4. OperandsTokens(operands) \in Seq(Token)
  BY OperandsAre DEF NodesTyped
<1> QED
  BY <1>1, <1>2, <1>3, <1>4, NodeTokensAre

LEMMA LabelGrows ==
  ASSUME NEW open \in OpenLabel, NEW node \in InstructionNode
  PROVE  LET body == [open EXCEPT !.instructions = Append(@, node)]
         IN  /\ body \in OpenLabel /\ body \in LabelNode
             /\ body.name = open.name
             /\ body.instructions = Append(open.instructions, node)
<1> DEFINE body == [open EXCEPT !.instructions = Append(@, node)]
           more == Append(open.instructions, node)
<1>1. open = [name |-> open.name, instructions |-> open.instructions]
      /\ open.name \in Symbols /\ open.instructions \in Seq(InstructionNode)
  BY DEF OpenLabel
<1>2. more \in Seq(InstructionNode) /\ more # << >>
  <2> DEFINE before == open.instructions
  <2>1. before \in Seq(InstructionNode)
    BY <1>1
  <2> HIDE DEF before
  <2>2. Append(before, node) \in Seq(InstructionNode) /\ Append(before, node) # << >>
    BY <2>1, AppendProperties
  <2> QED
    BY <2>2 DEF before
<1>3. body = [name |-> open.name, instructions |-> more]
  BY <1>1, SMTT(30)
<1> HIDE DEF body, more
<1>4. body \in OpenLabel /\ body \in LabelNode
  BY <1>1, <1>2, <1>3 DEF OpenLabel, LabelNode
<1>5. body.name = open.name /\ body.instructions = more
  BY <1>3
<1> QED
  BY <1>4, <1>5 DEF body, more

\* An instruction is complete, and with it perhaps its label.
LEMMA FinishWrites ==
  ASSUME InSource, NodesTyped, NEW node \in InstructionNode, NEW c \in Cursor,
         label = << >> => labels = << >>,
         Read(tokens, c) = (NodeTokens \o OpenTokens(label)) \o InstructionTokens(node),
         FinishInstruction(node, c)
  PROVE  (Written = Read(tokens, cur_token))' /\ Construction'
<1> DEFINE I == BodyTokens(instructions)
           L == LabelsTokens(labels)
           B == OpenTokens(label)
           T == InstructionTokens(node)
<1>1. I \in Seq(Token) /\ L \in Seq(Token) /\ B \in Seq(Token) /\ T \in Seq(Token)
  BY NodesAreTokens, InstructionIsTokens
<1>2. Read(tokens, c) = ((I \o L) \o B) \o T
  BY NodeTokensAre
<1>3. UNCHANGED tokens /\ at' \in {"top", "instruction"} /\ operands' = << >>
  BY DEF FinishInstruction, input
<1>4. Written' = (BodyTokens(instructions') \o LabelsTokens(labels')) \o OpenTokens(label')
  <2>1. Written' = ((BodyTokens(instructions') \o LabelsTokens(labels')) \o OpenTokens(label'))
                      \o StartedTokens(at', opcode', operands')
    BY NodeTokensAre DEF Written, NodeTokens, BodyTokens, LabelsTokens
  <2>2. StartedTokens(at', opcode', operands') = << >>
    BY <1>3 DEF StartedTokens
  <2> QED
    BY <2>1, <2>2
<1>5. CASE label = << >>
  <2>1. instructions' = Append(instructions, node) /\ cur_token' = c /\ at' = "top"
        /\ label' = << >> /\ labels' = << >> /\ labels = << >>
    BY <1>5 DEF FinishInstruction
  <2>2. BodyTokens(instructions') = I \o T
    BY <2>1, BodyAre DEF NodesTyped
  <2>3. L = << >> /\ LabelsTokens(labels') = << >> /\ B = << >> /\ OpenTokens(label') = << >>
    <3>1. LabelsTokens(<< >>) = << >>
      <4>1. [k \in DOMAIN << >> |-> LabelTokens(<< >>[k])] = << >>
        OBVIOUS
      <4> QED
        BY <4>1, FlattenNone DEF LabelsTokens
    <3>2. OpenTokens(<< >>) = << >>
      BY DEF OpenTokens
    <3> QED
      BY <1>5, <2>1, <3>1, <3>2
  <2>4. Read(tokens, c) = I \o T /\ Written' = I \o T
    <3> HIDE DEF I, L, B, T
    <3>1. I \o << >> = I /\ I \o T \in Seq(Token)
      BY <1>1, ConcatEmptySeq
    <3> QED
      BY <1>2, <1>4, <2>2, <2>3, <3>1, ConcatEmptySeq
  <2> QED
    BY <1>3, <2>1, <2>4 DEF Construction
<1>6. CASE label # << >>
  <2> DEFINE open == label[1]
             body == [open EXCEPT !.instructions = Append(@, node)]
             last == TypeAt(SkipNewLines(c)) = "EOF"
  <2>1. open \in OpenLabel
    BY <1>6, NodesAreTokens
  <2>2. /\ cur_token' = IF last THEN c ELSE PushedBack(c)
        /\ IF last \/ IsLabel(c)
           THEN labels' = Append(labels, body) /\ label' = << >> /\ at' = "top"
           ELSE label' = <<body>> /\ at' = "instruction" /\ UNCHANGED labels
        /\ UNCHANGED instructions
    BY <1>6 DEF FinishInstruction
  <2>3. body \in OpenLabel /\ body \in LabelNode
    BY <2>1, LabelGrows
  <2>4. LabelTokens(body) = B \o T
    <3> DEFINE head == <<[type |-> "SYMBOL", value |-> open.name], Mark("COLON")>>
               inner == BodyTokens(open.instructions)
    <3>1. open.name \in Symbols /\ open.instructions \in Seq(InstructionNode)
      BY <2>1 DEF OpenLabel
    <3>2. body.name = open.name /\ body.instructions = Append(open.instructions, node)
      BY <2>1, LabelGrows
    <3>3. LabelTokens(open) = head \o inner
      BY <2>1, LabelIsTokens
    <3>4. LabelTokens(body) = head \o BodyTokens(Append(open.instructions, node))
      BY <2>3, <3>2, LabelIsTokens
    <3>5. BodyTokens(Append(open.instructions, node)) = inner \o T /\ inner \in Seq(Token)
      BY <3>1, BodyAre
    <3>6. head \in Seq(Token)
      <4> DEFINE name == [type |-> "SYMBOL", value |-> open.name]
      <4>1. name \in Token /\ Mark("COLON") \in Token
        BY <3>1, MarksAreTokens
      <4> HIDE DEF name
      <4>2. <<name, Mark("COLON")>> \in Seq(Token)
        BY <4>1
      <4> QED
        BY <4>2 DEF name
    <3>7. B = LabelTokens(open)
      BY <1>6 DEF OpenTokens
    <3> HIDE DEF head, inner, B, T, open, body
    <3>8. head \o (inner \o T) = (head \o inner) \o T
      BY <1>1, <3>5, <3>6, Regroup
    <3> QED
      BY <3>3, <3>4, <3>5, <3>7, <3>8
  <2>5. Read(tokens, cur_token') = Read(tokens, c)
    BY <2>2, PushedBackIs, ReadSkip
  <2>6. B \o T \in Seq(Token) /\ ((I \o L) \o B) \o T = (I \o L) \o (B \o T)
        /\ (I \o L) \o (B \o T) = I \o (L \o (B \o T))
        /\ I \o L \in Seq(Token) /\ L \o (B \o T) \in Seq(Token)
        /\ (I \o (L \o (B \o T))) \in Seq(Token)
    <3> HIDE DEF I, L, B, T
    <3>1. B \o T \in Seq(Token) /\ I \o L \in Seq(Token)
      BY <1>1
    <3>2. L \o (B \o T) \in Seq(Token)
      BY <1>1, <3>1
    <3>3. I \o (L \o (B \o T)) \in Seq(Token)
      BY <1>1, <3>2
    <3>4. ((I \o L) \o B) \o T = (I \o L) \o (B \o T)
      <4> DEFINE IL == I \o L
      <4>1. IL \in Seq(Token)
        BY <3>1
      <4> HIDE DEF IL
      <4>2. (IL \o B) \o T = IL \o (B \o T)
        BY <1>1, <4>1, Regroup
      <4> QED
        BY <4>2 DEF IL
    <3>5. (I \o L) \o (B \o T) = I \o (L \o (B \o T))
      <4> DEFINE BT == B \o T
      <4>1. BT \in Seq(Token)
        BY <3>1
      <4> HIDE DEF BT
      <4>2. (I \o L) \o BT = I \o (L \o BT)
        BY <1>1, <4>1, Regroup
      <4> QED
        BY <4>2 DEF BT
    <3> QED
      BY <3>1, <3>2, <3>3, <3>4, <3>5
  <2>7. CASE last \/ IsLabel(c)
    <3>1. labels' = Append(labels, body) /\ label' = << >> /\ at' = "top"
          /\ UNCHANGED instructions
      BY <2>2, <2>7
    <3>2. LabelsTokens(labels') = L \o (B \o T)
      <4> HIDE DEF body, B, T
      <4> QED
        BY <2>3, <2>4, <3>1, LabelsAre DEF NodesTyped
    <3>3. BodyTokens(instructions') = I /\ OpenTokens(label') = << >>
      BY <3>1 DEF OpenTokens
    <3>4. Written' = Read(tokens, c)
      <4> HIDE DEF I, L, B, T
      <4>1. Written' = (I \o (L \o (B \o T))) \o << >>
        BY <1>4, <3>2, <3>3
      <4>2. (I \o (L \o (B \o T))) \o << >> = I \o (L \o (B \o T))
        BY <2>6, ConcatEmptySeq
      <4> QED
        BY <1>2, <2>6, <4>1, <4>2
    <3>5. AtBreak'
      <4>1. TypeAt(SkipNewLines(cur_token')) = "EOF" \/ IsLabel(cur_token')
        <5>1. CASE last
          BY <2>2, <5>1
        <5>2. CASE ~last
          <6>1. IsLabel(c) /\ cur_token' = SkipNewLines(c)
            BY <2>2, <2>7, <5>2, PushedBackIs
          <6>2. SkipNewLines(SkipNewLines(c)) = SkipNewLines(c)
            <7> DEFINE d == SkipNewLines(c)
            <7>1. d \in Cursor /\ TypeAt(d) # "NEW_LINE"
              BY SkipFinds, SourceShape DEF Cursor
            <7> HIDE DEF d
            <7>2. SkipNewLines(d) = d
              BY <7>1, SkipNothing
            <7> QED
              BY <7>2 DEF d
          <6>3. IsLabel(SkipNewLines(c))
            BY <6>1, <6>2 DEF IsLabel
          <6> QED
            BY <6>1, <6>3
        <5> QED
          BY <5>1, <5>2
      <4> QED
        BY <1>3, <4>1, StaysAtBreak
    <3>6. Construction'
      BY <1>3, <3>1, <3>5 DEF Construction
    <3> QED
      BY <1>3, <2>5, <3>4, <3>6
  <2>8. CASE ~(last \/ IsLabel(c))
    <3>1. label' = <<body>> /\ at' = "instruction" /\ UNCHANGED <<labels, instructions>>
      BY <2>2, <2>8
    <3>2. OpenTokens(label') = LabelTokens(body) /\ label' # << >>
      <4> HIDE DEF body
      <4> QED
        BY <3>1 DEF OpenTokens
    <3>3. Written' = (I \o L) \o (B \o T)
      BY <1>4, <2>4, <3>1, <3>2
    <3>4. Construction'
      BY <1>3, <3>1, <3>2 DEF Construction
    <3> QED
      BY <1>2, <1>3, <2>5, <2>6, <3>3, <3>4
  <2> QED
    BY <2>7, <2>8
<1> QED
  BY <1>5, <1>6

\* As long as nothing is reported, no handler has been called.
LEMMA NothingReported ==
  ASSUME IInv, NEW errors \in Seq(Report), NEW step,
         Reporting(errors, step), reports' = << >>
  PROVE  reports = << >> /\ errors = << >> /\ step
<1>1. reports \in Seq(Report)
  BY DEF IInv, TypeOK
<1>2. ~(exits /\ errors # << >>)
  <2>1. <<errors[1]>> # << >>
    OBVIOUS
  <2> QED
    BY <2>1 DEF Reporting
<1>3. step /\ reports \o errors = << >>
  BY <1>2 DEF Reporting
<1>4. Len(reports \o errors) = Len(reports) + Len(errors)
      /\ Len(reports) \in Nat /\ Len(errors) \in Nat
  BY <1>1
<1>5. Len(reports) = 0 /\ Len(errors) = 0
  BY <1>3, <1>4
<1> QED
  BY <1>1, <1>3, <1>5, EmptySeq

\* What has been written is not changed by a step that leaves the nodes alone.
LEMMA WrittenStays ==
  ASSUME UNCHANGED <<label, opcode, operands, instructions, labels>>
  PROVE  Written' = (NodeTokens \o OpenTokens(label)) \o StartedTokens(at', opcode, operands)
BY DEF Written, NodeTokens, OpenTokens, StartedTokens, OperandsTokens

LEMMA ParseLabelWrites ==
  ASSUME IInv, NothingLostSoFar, ParseLabel, reports' = << >>
  PROVE  NothingLostSoFar'
<1> DEFINE d == SkipNewLines(cur_token)
           body == After(After(d))
<1>1. InSource /\ cur_token \in Cursor /\ status = "parsing" /\ at = "top"
  BY DEF IInv, TypeOK, Cursor, ParseLabel, Reading
<1>2. d \in Cursor /\ TypeAt(d) = "SYMBOL" /\ TypeAt(After(d)) = "COLON" /\ After(d) \in Cursor
  <2>1. d \in Cursor
    BY <1>1, SkipFinds, SourceShape DEF Cursor
  <2>2. TypeAt(d) = "SYMBOL" /\ TypeAt(After(d)) = "COLON"
    BY DEF ParseLabel, IsLabel
  <2> QED
    BY <1>1, <2>1, <2>2, TokenShape
<1>3. body \in Cursor
  BY <1>1, <1>2, TokenShape
<1>4. CASE TypeAt(SkipNewLines(body)) # "SYMBOL"
  <2> DEFINE e == Error("unexpected_after_label", SkipNewLines(body))
  <2>1. e \in Report
    <3>1. SkipNewLines(body) \in Cursor
      BY <1>1, <1>3, SkipFinds, SourceShape DEF Cursor
    <3> QED
      BY <1>1, <3>1, ErrorInSource DEF ErrorKind
  <2>2. Reporting(<<e>>, Crash("null_dereferenced"))
    BY <1>4 DEF ParseLabel
  <2> HIDE DEF e
  <2>3. <<e>> \in Seq(Report) /\ <<e>> # << >>
    BY <2>1
  <2> QED
    BY <2>2, <2>3, NothingReported
<1>5. CASE TypeAt(SkipNewLines(body)) = "SYMBOL"
  <2> DEFINE name == TokenAt(d).value
             open == [name |-> name, instructions |-> << >>]
             head == [type |-> "SYMBOL", value |-> name]
  <2>1. label' = <<open>> /\ cur_token' = body /\ at' = "instruction"
        /\ UNCHANGED <<tokens, exits, opcode, operands, instructions, labels, reports, status>>
    BY <1>5 DEF ParseLabel, input
  <2>2. reports = << >> /\ NodesTyped /\ Written = Read(tokens, cur_token) /\ Construction
    BY <1>1, <2>1 DEF NothingLostSoFar, IInv, TypeOK
  <2>3. label = << >> /\ operands = << >>
    BY <1>1, <2>2 DEF Construction
  <2>4. name \in Symbols /\ TokenAt(d) \in Token /\ TokenAt(After(d)) \in Token
    BY <1>1, <1>2, TokenShape
  <2>5. TokenAt(d) = head /\ TokenAt(After(d)) = Mark("COLON")
    BY <1>2, <2>4, TokenIs, MarksAreTokens DEF TypeAt
  <2>6. open \in OpenLabel /\ open.name = name /\ open.instructions = << >>
    BY <2>4 DEF OpenLabel
  <2>7. LabelTokens(open) = <<head, Mark("COLON")>>
    <3> HIDE DEF open
    <3>1. LabelTokens(open) = <<head, Mark("COLON")>> \o BodyTokens(<< >>)
      BY <2>6, LabelIsTokens
    <3>2. BodyTokens(<< >>) = << >>
      <4>1. [k \in DOMAIN << >> |-> InstructionTokens(<< >>[k])] = << >>
        OBVIOUS
      <4> QED
        BY <4>1, FlattenNone DEF BodyTokens
    <3>3. <<head, Mark("COLON")>> \in Seq(Token)
      BY <2>4, MarksAreTokens
    <3> QED
      BY <3>1, <3>2, <3>3, ConcatEmptySeq
  <2>8. Read(tokens, body) = (Read(tokens, cur_token) \o <<head>>) \o <<Mark("COLON")>>
    <3>1. ~EndOfLine(d) /\ ~EndOfLine(After(d))
      BY <1>2 DEF EndOfLine
    <3>2. Read(tokens, After(d)) = Read(tokens, d) \o <<head>>
      BY <1>1, <1>2, <2>5, <3>1, ReadAfter
    <3>3. Read(tokens, body) = Read(tokens, After(d)) \o <<Mark("COLON")>>
      BY <1>1, <1>2, <2>5, <3>1, ReadAfter
    <3>4. Read(tokens, d) = Read(tokens, cur_token)
      BY <1>1, ReadSkip
    <3> QED
      BY <3>2, <3>3, <3>4
  <2>9. NodeTokens \in Seq(Token) /\ Read(tokens, cur_token) = NodeTokens
    <3>1. NodeTokens \in Seq(Token)
      BY <2>2, NodesAreTokens
    <3>2. Written = (NodeTokens \o << >>) \o << >>
      BY <1>1, <2>3 DEF Written, OpenTokens, StartedTokens
    <3> HIDE DEF NodeTokens
    <3> QED
      BY <2>2, <3>1, <3>2, ConcatEmptySeq
  <2>10. Written' = NodeTokens \o <<head, Mark("COLON")>>
    <3>1. Written' = (NodeTokens \o OpenTokens(label')) \o << >>
      BY <2>1 DEF Written, NodeTokens, StartedTokens
    <3>2. OpenTokens(label') = <<head, Mark("COLON")>>
      <4> HIDE DEF open
      <4> QED
        BY <2>1, <2>7 DEF OpenTokens
    <3>3. <<head, Mark("COLON")>> \in Seq(Token)
      BY <2>4, MarksAreTokens
    <3>4. NodeTokens \o <<head, Mark("COLON")>> \in Seq(Token)
      BY <2>9, <3>3
    <3> QED
      BY <3>1, <3>2, <3>4, ConcatEmptySeq
  <2>11. (NodeTokens \o <<head>>) \o <<Mark("COLON")>> = NodeTokens \o <<head, Mark("COLON")>>
    <3> DEFINE colon == Mark("COLON")
    <3>1. head \in Token /\ colon \in Token
      BY <2>4, MarksAreTokens
    <3> HIDE DEF head, colon, NodeTokens
    <3>2. /\ <<head>> \in Seq(Token) /\ <<colon>> \in Seq(Token)
          /\ <<head>> \o <<colon>> = <<head, colon>>
      BY <3>1, Pair
    <3>3. (NodeTokens \o <<head>>) \o <<colon>> = NodeTokens \o (<<head>> \o <<colon>>)
      BY <2>9, <3>2, Regroup
    <3> QED
      BY <3>2, <3>3 DEF colon
  <2>12. Written' = Read(tokens', cur_token')
    BY <2>1, <2>8, <2>9, <2>10, <2>11
  <2>13. Construction'
    <3>1. label' # << >>
      BY <2>1
    <3> QED
      BY <2>1, <2>3, <3>1 DEF Construction
  <2> QED
    BY <1>1, <2>1, <2>12, <2>13 DEF NothingLostSoFar
<1> QED
  BY <1>4, <1>5

LEMMA TopLevelWrites ==
  ASSUME IInv, NothingLostSoFar, TopLevelInstruction \/ UnexpectedAtTopLevel, reports' = << >>
  PROVE  NothingLostSoFar'
<1> DEFINE d == SkipNewLines(cur_token)
<1>1. InSource /\ cur_token \in Cursor /\ status = "parsing" /\ at = "top"
  BY DEF IInv, TypeOK, Cursor, TopLevelInstruction, UnexpectedAtTopLevel, Reading
<1>2. CASE UnexpectedAtTopLevel
  <2> DEFINE e == Error("unexpected_at_top_level", d)
  <2>1. e \in Report
    <3>1. d \in Cursor
      BY <1>1, SkipFinds, SourceShape DEF Cursor
    <3> QED
      BY <1>1, <3>1, ErrorInSource DEF ErrorKind
  <2>2. Reporting(<<e>>, Crash("null_dereferenced"))
    BY <1>2 DEF UnexpectedAtTopLevel
  <2> HIDE DEF e
  <2>3. <<e>> \in Seq(Report) /\ <<e>> # << >>
    BY <2>1
  <2> QED
    BY <2>2, <2>3, NothingReported
<1>3. CASE TopLevelInstruction
  <2>1. /\ TypeAt(d) = "SYMBOL" /\ ~IsLabel(cur_token)
        /\ cur_token' = PushedBack(cur_token) /\ at' = "instruction"
        /\ UNCHANGED <<tokens, label, opcode, operands, instructions, labels, reports, status>>
    BY <1>3 DEF TopLevelInstruction, nodes, input
  <2>2. reports = << >> /\ Written = Read(tokens, cur_token) /\ Construction
    BY <1>1, <2>1 DEF NothingLostSoFar
  <2>3. Read(tokens, cur_token') = Read(tokens, cur_token)
    BY <1>1, <2>1, PushedBackIs, ReadSkip
  <2>4. Written' = Written
    <3>1. Written' = (NodeTokens \o OpenTokens(label)) \o StartedTokens(at', opcode, operands)
      BY <2>1, WrittenStays
    <3>2. StartedTokens(at', opcode, operands) = StartedTokens(at, opcode, operands)
      BY <1>1, <2>1 DEF StartedTokens
    <3> QED
      BY <3>1, <3>2 DEF Written
  <2>5. label = << >> /\ labels = << >> /\ operands = << >>
    BY <1>1, <2>1, <2>2 DEF Construction, AtBreak
  <2>6. Construction'
    BY <2>1, <2>5 DEF Construction
  <2> QED
    BY <1>1, <2>1, <2>2, <2>3, <2>4, <2>6 DEF NothingLostSoFar
<1> QED
  BY <1>2, <1>3

\* Concatenation by another name, for the provers to compute with its laws alone.
Cat(a, b) == a \o b

LEMMA CatLaws ==
  /\ << >> \in Seq(Token)
  /\ \A a \in Seq(Token) : Cat(a, << >>) = a
  /\ \A a, b \in Seq(Token) : Cat(a, b) \in Seq(Token)
  /\ \A a, b, c \in Seq(Token) : Cat(Cat(a, b), c) = Cat(a, Cat(b, c))
<1>1. << >> \in Seq(Token)
  OBVIOUS
<1>2. ASSUME NEW a \in Seq(Token) PROVE Cat(a, << >>) = a
  BY ConcatEmptySeq DEF Cat
<1>3. ASSUME NEW a \in Seq(Token), NEW b \in Seq(Token) PROVE Cat(a, b) \in Seq(Token)
  BY DEF Cat
<1>4. ASSUME NEW a \in Seq(Token), NEW b \in Seq(Token), NEW c \in Seq(Token)
      PROVE  Cat(Cat(a, b), c) = Cat(a, Cat(b, c))
  BY ConcatAssociative DEF Cat
<1> QED
  BY <1>1, <1>2, <1>3, <1>4, Zenon

LEMMA RegroupAll ==
  \A a, b, c, d, e \in Seq(Token) :
    a \o ((b \o (c \o (d \o e))) \o << >>) = (a \o ((b \o c) \o d)) \o e
<1> TAKE a, b, c, d, e \in Seq(Token)
<1> DEFINE rest == Cat(b, Cat(c, Cat(d, e)))
<1>1. rest = Cat(Cat(Cat(b, c), d), e) /\ rest \in Seq(Token)
  BY CatLaws
<1>2. Cat(a, Cat(Cat(Cat(b, c), d), e)) = Cat(Cat(a, Cat(Cat(b, c), d)), e)
  BY CatLaws
<1>3. Cat(a, Cat(rest, << >>)) = Cat(Cat(a, Cat(Cat(b, c), d)), e)
  BY <1>1, <1>2, CatLaws
<1> QED
  BY <1>3, Zenon DEF Cat

LEMMA ParseInstructionWrites ==
  ASSUME IInv, NothingLostSoFar, ParseInstruction, reports' = << >>
  PROVE  NothingLostSoFar'
<1> DEFINE d == SkipNewLines(cur_token)
           name == TokenAt(d).value
           head == [type |-> "SYMBOL", value |-> name]
           node == [opcode |-> name, operands |-> << >>]
<1>1. InSource /\ cur_token \in Cursor /\ status = "parsing" /\ at = "instruction"
  BY DEF IInv, TypeOK, Cursor, ParseInstruction, Reading
<1>2. reports = << >> /\ NodesTyped /\ Written = Read(tokens, cur_token) /\ Construction
      /\ UNCHANGED reports
  BY <1>1 DEF ParseInstruction, NothingLostSoFar, IInv, TypeOK
<1>3. operands = << >> /\ (label = << >> => labels = << >>)
  BY <1>1, <1>2 DEF Construction
<1>4. d \in Cursor /\ TypeAt(d) = "SYMBOL"
  BY <1>1, SkipFinds, SourceShape DEF Cursor, ParseInstruction
<1>5. After(d) \in Cursor /\ name \in Symbols /\ TokenAt(d) \in Token
  BY <1>1, <1>4, TokenShape
<1>6. TokenAt(d) = head /\ <<head>> \in Seq(Token)
  <2>1. TokenAt(d) = head
    BY <1>4, <1>5, TokenIs DEF TypeAt
  <2>2. head \in Token
    BY <1>5, <2>1
  <2> HIDE DEF head
  <2> QED
    BY <2>1, <2>2
<1>7. Read(tokens, After(d)) = Read(tokens, cur_token) \o <<head>>
  <2>1. ~EndOfLine(d)
    BY <1>4 DEF EndOfLine
  <2> QED
    BY <1>1, <1>4, <1>6, <2>1, ReadAfter, ReadSkip
<1>8. Read(tokens, cur_token) = NodeTokens \o OpenTokens(label)
      /\ NodeTokens \o OpenTokens(label) \in Seq(Token)
  <2>1. NodeTokens \o OpenTokens(label) \in Seq(Token)
    BY <1>2, NodesAreTokens
  <2>2. Written = (NodeTokens \o OpenTokens(label)) \o << >>
    BY <1>1 DEF Written, StartedTokens
  <2> DEFINE w == NodeTokens \o OpenTokens(label)
  <2> HIDE DEF w
  <2>3. w \o << >> = w
    BY <2>1, ConcatEmptySeq DEF w
  <2> QED
    BY <1>2, <2>1, <2>2, <2>3 DEF w
<1>9. OperandsTokens(<< >>) = << >>
  <2>1. [k \in DOMAIN << >> |->
          (IF k = 1 THEN << >> ELSE <<Mark("COMMA")>>) \o OperandTokens(<< >>[k])] = << >>
    OBVIOUS
  <2> QED
    BY <2>1, FlattenNone DEF OperandsTokens
<1>10. <<head>> \o << >> = <<head>>
  BY <1>6, ConcatEmptySeq
<1>11. CASE EndOfLine(After(d))
  <2>1. node \in InstructionNode
    BY <1>5 DEF InstructionNode
  <2>2. FinishInstruction(node, After(d))
    BY <1>11 DEF ParseInstruction
  <2>3. InstructionTokens(node) = <<head>>
    <3>1. node.opcode = name /\ node.operands = << >>
      OBVIOUS
    <3> HIDE DEF node
    <3> QED
      BY <1>9, <1>10, <2>1, <3>1, InstructionIsTokens
  <2> HIDE DEF node, head, d
  <2>4. (Written = Read(tokens, cur_token))' /\ Construction'
    BY <1>1, <1>2, <1>3, <1>5, <1>7, <1>8, <2>1, <2>2, <2>3, FinishWrites
  <2>5. status' = "parsing"
    BY <1>1, <2>2 DEF FinishInstruction
  <2> QED
    BY <2>4, <2>5 DEF NothingLostSoFar
<1>12. CASE ~EndOfLine(After(d))
  <2>1. opcode' = name /\ cur_token' = After(d) /\ at' = "operand"
        /\ UNCHANGED <<tokens, label, operands, instructions, labels, status>>
    BY <1>12 DEF ParseInstruction, input
  <2>2. Written' = (NodeTokens \o OpenTokens(label)) \o StartedTokens(at', opcode', operands')
    BY <2>1 DEF Written, NodeTokens, OpenTokens
  <2>3. StartedTokens(at', opcode', operands') = <<head>>
    <3>1. StartedTokens(at', opcode', operands') = (<<head>> \o OperandsTokens(<< >>)) \o << >>
      BY <1>3, <2>1 DEF StartedTokens
    <3> HIDE DEF head
    <3> QED
      BY <1>9, <1>10, <3>1
  <2>4. Written' = Read(tokens', cur_token')
    BY <1>7, <1>8, <2>1, <2>2, <2>3
  <2>5. Construction'
    BY <1>3, <2>1 DEF Construction
  <2> QED
    BY <1>1, <2>1, <2>4, <2>5 DEF NothingLostSoFar
<1> QED
  BY <1>11, <1>12

\* What an operand was made of is what was read of it.
LEMMA TakeOperandWrites ==
  ASSUME IInv, NothingLostSoFar, status = "parsing", at = "operand",
         NEW c \in Cursor, NEW node, NEW errors \in Seq(Report),
         TakeOperand(node, c, errors), reports' = << >>,
         errors = << >> =>
           node \in OperandNode /\ Read(tokens, c) = Read(tokens, cur_token) \o OperandTokens(node)
  PROVE  NothingLostSoFar'
<1> DEFINE step == /\ operands' = Append(operands, node)
                   /\ cur_token' = c
                   /\ at' = "separator"
                   /\ UNCHANGED <<input, label, opcode, instructions, labels, status>>
           head == <<[type |-> "SYMBOL", value |-> opcode]>>
           O == OperandsTokens(operands)
           comma == IF operands # << >> THEN <<Mark("COMMA")>> ELSE << >>
           new == OperandTokens(node)
           N == NodeTokens \o OpenTokens(label)
<1>1. Reporting(errors, step)
  BY DEF TakeOperand
<1>2. reports = << >> /\ errors = << >> /\ step
  <2> HIDE DEF step
  <2> QED
    BY <1>1, NothingReported
<1>3. NodesTyped /\ Written = Read(tokens, cur_token) /\ Construction
  BY <1>2 DEF NothingLostSoFar, IInv, TypeOK
<1>4. node \in OperandNode /\ operands \in Seq(OperandNode) /\ opcode \in Symbols
  BY <1>2, <1>3 DEF NodesTyped
<1>5. head \in Seq(Token) /\ O \in Seq(Token) /\ comma \in Seq(Token) /\ new \in Seq(Token)
      /\ N \in Seq(Token)
  <2> DEFINE name == [type |-> "SYMBOL", value |-> opcode]
  <2>1. name \in Token /\ Mark("COMMA") \in Token
    BY <1>4, MarksAreTokens
  <2> HIDE DEF name
  <2>2. <<name>> \in Seq(Token) /\ comma \in Seq(Token)
    BY <2>1
  <2>3. N \in Seq(Token)
    BY <1>3, NodesAreTokens
  <2> QED
    BY <1>4, <2>2, <2>3, OperandsAre, OperandIsTokens DEF name
<1>6. Written = N \o ((head \o O) \o comma)
  BY DEF Written, StartedTokens
<1>7. Written' = N \o ((head \o OperandsTokens(operands')) \o << >>)
  <2>1. at' = "separator" /\ UNCHANGED <<label, opcode, instructions, labels>>
    BY <1>2
  <2>2. Written' = N \o StartedTokens(at', opcode, operands')
    BY <2>1 DEF Written, NodeTokens, OpenTokens
  <2>3. StartedTokens(at', opcode, operands') = (head \o OperandsTokens(operands')) \o << >>
    BY <2>1 DEF StartedTokens
  <2> QED
    BY <2>2, <2>3
<1>8. OperandsTokens(operands') = O \o (comma \o new)
  <2>1. operands' = Append(operands, node)
    BY <1>2
  <2>2. (IF operands = << >> THEN << >> ELSE <<Mark("COMMA")>>) = comma
    OBVIOUS
  <2> HIDE DEF comma, new
  <2>3. OperandsTokens(Append(operands, node)) =
          O \o ((IF operands = << >> THEN << >> ELSE <<Mark("COMMA")>>) \o OperandTokens(node))
    BY <1>4, OperandsAre
  <2> QED
    BY <2>1, <2>2, <2>3 DEF new
<1>9. Read(tokens, c) = Read(tokens, cur_token) \o new
  BY <1>2
<1>10. Written' = Read(tokens, c)
  <2> HIDE DEF head, O, comma, new, N
  <2>1. N \o ((head \o (O \o (comma \o new))) \o << >>) = (N \o ((head \o O) \o comma)) \o new
    <3>1. \A x, y, z \in Seq(Token) :
            N \o ((head \o (x \o (y \o z))) \o << >>) = (N \o ((head \o x) \o y)) \o z
      BY <1>5, RegroupAll
    <3>2. \A z \in Seq(Token) :
            N \o ((head \o (O \o (comma \o z))) \o << >>) = (N \o ((head \o O) \o comma)) \o z
      BY <1>5, <3>1
    <3> QED
      BY <1>5, <3>2
  <2> QED
    BY <1>3, <1>6, <1>7, <1>8, <1>9, <2>1
<1>11. Construction'
  <2>1. operands' # << >>
    BY <1>2, <1>4, AppendProperties
  <2>2. at' = "separator" /\ UNCHANGED <<label, labels>>
    BY <1>2
  <2> QED
    BY <1>3, <2>1, <2>2 DEF Construction
<1> QED
  BY <1>2, <1>10, <1>11 DEF NothingLostSoFar, input

LEMMA AddressIsTokens ==
  ASSUME NEW register, NEW offset
  PROVE  OperandTokens([type |-> "MEM_ADDRESS", register |-> register, offset |-> offset]) =
           (IF offset = NULL THEN << >> ELSE <<[type |-> "INT", value |-> offset]>>)
             \o <<Mark("BRACKET_OPEN"), [type |-> "SYMBOL", value |-> register],
                  Mark("BRACKET_CLOSE")>>
<1> DEFINE node == [type |-> "MEM_ADDRESS", register |-> register, offset |-> offset]
<1>1. node.type # "SIMPLE" /\ node.register = register /\ node.offset = offset
  OBVIOUS
<1> HIDE DEF node
<1>2. OperandTokens(node) =
        (IF offset = NULL THEN << >> ELSE <<[type |-> "INT", value |-> offset]>>)
          \o <<Mark("BRACKET_OPEN"), [type |-> "SYMBOL", value |-> register],
               Mark("BRACKET_CLOSE")>>
  BY <1>1 DEF OperandTokens
<1> QED
  BY <1>2 DEF node

\* An address is read from its bracket, b, on.
LEMMA BracketsRead ==
  ASSUME InSource, NEW b \in Cursor, TypeAt(b) = "BRACKET_OPEN",
         TypeAt(After(b)) = "SYMBOL", TypeAt(After(After(b))) = "BRACKET_CLOSE"
  PROVE  Read(tokens, After(After(After(b)))) =
           Read(tokens, b)
             \o <<Mark("BRACKET_OPEN"), [type |-> "SYMBOL", value |-> TokenAt(After(b)).value],
                  Mark("BRACKET_CLOSE")>>
<1> DEFINE open == Mark("BRACKET_OPEN")
           name == [type |-> "SYMBOL", value |-> TokenAt(After(b)).value]
           close == Mark("BRACKET_CLOSE")
           r == After(b)
           s == After(r)
<1>1. r \in Cursor /\ TokenAt(b) \in Token
  BY TokenShape
<1>2. s \in Cursor /\ TokenAt(r) \in Token
  BY <1>1, TokenShape
<1>3. TokenAt(s) \in Token
  BY <1>2, TokenShape
<1>4. TokenAt(b) = open /\ TokenAt(r) = name /\ TokenAt(s) = close
  BY <1>1, <1>2, <1>3, TokenIs, MarksAreTokens DEF TypeAt
<1>5. open \in Token /\ name \in Token /\ close \in Token /\ Read(tokens, b) \in Seq(Token)
  BY <1>1, <1>2, <1>3, <1>4, ReadIsTokens
<1>6. ~EndOfLine(b) /\ ~EndOfLine(r) /\ ~EndOfLine(s)
  BY DEF EndOfLine
<1> HIDE DEF open, name, close, r, s
<1>7. Read(tokens, After(b)) = Read(tokens, b) \o <<open>>
  BY <1>4, <1>6, ReadAfter
<1>8. Read(tokens, After(r)) = Read(tokens, r) \o <<name>>
  BY <1>1, <1>4, <1>6, ReadAfter
<1>9. Read(tokens, After(s)) = Read(tokens, s) \o <<close>>
  BY <1>2, <1>4, <1>6, ReadAfter
<1>10. Read(tokens, After(s)) = ((Read(tokens, b) \o <<open>>) \o <<name>>) \o <<close>>
  BY <1>7, <1>8, <1>9 DEF r, s
<1>11. <<open>> \in Seq(Token) /\ <<name>> \in Seq(Token) /\ <<close>> \in Seq(Token)
       /\ <<open, name>> \in Seq(Token)
  BY <1>5
<1>12. (Read(tokens, b) \o <<open>>) \o <<name>> = Read(tokens, b) \o <<open, name>>
  <2>1. (Read(tokens, b) \o <<open>>) \o <<name>> = Read(tokens, b) \o (<<open>> \o <<name>>)
    BY <1>5, <1>11, Regroup
  <2>2. <<open>> \o <<name>> = <<open, name>>
    BY <1>5, Pair
  <2> QED
    BY <2>1, <2>2
<1>13. (Read(tokens, b) \o <<open, name>>) \o <<close>> = Read(tokens, b) \o <<open, name, close>>
  <2> DEFINE two == <<open, name>>
  <2>1. two \in Seq(Token)
    BY <1>11
  <2>2. two \o <<close>> = <<open, name, close>>
    BY <1>5, Triple
  <2> HIDE DEF two
  <2>3. (Read(tokens, b) \o two) \o <<close>> = Read(tokens, b) \o (two \o <<close>>)
    BY <1>5, <1>11, <2>1, Regroup
  <2> QED
    BY <2>2, <2>3 DEF two
<1> QED
  BY <1>10, <1>12, <1>13 DEF open, name, close, r, s

LEMMA ParseMemAddressWrites ==
  ASSUME IInv, NothingLostSoFar, ParseMemAddress, reports' = << >>
  PROVE  NothingLostSoFar'
<1> DEFINE r == IF HasOffset THEN After(After(cur_token)) ELSE After(cur_token)
           b == IF HasOffset THEN After(cur_token) ELSE cur_token
           offset == IF HasOffset THEN TokenAt(cur_token).value ELSE NULL
           register == TokenAt(r).value
           node == [type |-> "MEM_ADDRESS", register |-> register, offset |-> offset]
           noRegister == If(TypeAt(r) # "SYMBOL", "expected", r)
           notClosed == If(TypeAt(After(r)) # "BRACKET_CLOSE", "expected", After(r))
<1>1. InSource /\ cur_token \in Cursor /\ status = "parsing" /\ at = "operand"
  BY DEF IInv, TypeOK, Cursor, ParseMemAddress, Reading
<1>2. After(cur_token) \in Cursor /\ b \in Cursor /\ r = After(b) /\ r \in Cursor
  BY <1>1, TokenShape
<1>3. After(r) \in Cursor /\ After(After(r)) \in Cursor
  BY <1>1, <1>2, TokenShape
<1>4. "expected" \in ErrorKind /\ "invalid_offset" \in ErrorKind
  BY DEF ErrorKind
<1>5. CASE HasOffset /\ TypeAt(cur_token) # "INT"
  <2> DEFINE e == Error("invalid_offset", cur_token)
  <2>1. e \in Report
    BY <1>1, <1>4, ErrorInSource
  <2>2. TakeOperand(NULL, After(cur_token), <<e>>)
    BY <1>5 DEF ParseMemAddress
  <2> HIDE DEF e
  <2>3. <<e>> \in Seq(Report) /\ <<e>> # << >>
    BY <2>1
  <2> QED
    BY <2>2, <2>3, NothingReported DEF TakeOperand
<1>6. CASE ~(HasOffset /\ TypeAt(cur_token) # "INT")
  <2>1. /\ noRegister \in Seq(Report) /\ (noRegister = << >> => TypeAt(r) = "SYMBOL")
        /\ notClosed \in Seq(Report) /\ (notClosed = << >> => TypeAt(After(r)) = "BRACKET_CLOSE")
    <3>1. (TypeAt(r) # "SYMBOL") \in BOOLEAN /\ (TypeAt(After(r)) # "BRACKET_CLOSE") \in BOOLEAN
      OBVIOUS
    <3> QED
      BY <1>1, <1>2, <1>3, <1>4, <3>1, IfReports
  <2>2. TakeOperand(node, After(After(r)), noRegister \o notClosed)
    BY <1>6 DEF ParseMemAddress
  <2>3. TypeAt(b) = "BRACKET_OPEN"
    BY DEF ParseMemAddress, InBrackets, HasOffset
  <2>4. HasOffset => TokenAt(cur_token) = [type |-> "INT", value |-> offset] /\ offset \in Word
    <3>1. TokenAt(cur_token) \in Token
      BY <1>1, TokenShape
    <3> QED
      BY <1>1, <1>6, <3>1, TokenShape, TokenIs DEF TypeAt
  <2>5. ASSUME TypeAt(r) = "SYMBOL", TypeAt(After(r)) = "BRACKET_CLOSE"
        PROVE  /\ node \in OperandNode
               /\ Read(tokens, After(After(r))) = Read(tokens, cur_token) \o OperandTokens(node)
    <3> DEFINE number == IF offset = NULL THEN << >> ELSE <<[type |-> "INT", value |-> offset]>>
               name == [type |-> "SYMBOL", value |-> register]
               rest == <<Mark("BRACKET_OPEN"), name, Mark("BRACKET_CLOSE")>>
    <3>1. register \in Symbols /\ name \in Token
      BY <1>1, <1>2, <2>5, TokenShape, MarksAreTokens
    <3>2. (HasOffset => offset # NULL) /\ (~HasOffset => offset = NULL)
      BY <2>4, SyntaxAssumption
    <3>3. node \in OperandNode
      <4>1. offset \in Word \cup {NULL}
        BY <2>4
      <4> QED
        BY <3>1, <4>1 DEF OperandNode
    <3>4. OperandTokens(node) = number \o rest
      <4> HIDE DEF register, offset
      <4> QED
        BY AddressIsTokens
    <3>5. Read(tokens, After(After(r))) = Read(tokens, b) \o rest
      <4> HIDE DEF r, b
      <4> QED
        BY <1>1, <1>2, <2>3, <2>5, BracketsRead
    <3>6. rest \in Seq(Token) /\ number \in Seq(Token) /\ Read(tokens, cur_token) \in Seq(Token)
      <4>1. Mark("BRACKET_OPEN") \in Token /\ Mark("BRACKET_CLOSE") \in Token
        BY MarksAreTokens
      <4> DEFINE int == [type |-> "INT", value |-> offset]
      <4>2. HasOffset => int \in Token
        BY <2>4, MarksAreTokens
      <4>3. Read(tokens, cur_token) \in Seq(Token)
        BY <1>1, ReadIsTokens
      <4> HIDE DEF name, int, offset
      <4>4. rest \in Seq(Token)
        BY <3>1, <4>1
      <4>5. number = IF HasOffset THEN <<int>> ELSE << >>
        BY <3>2 DEF int
      <4>6. number \in Seq(Token)
        <5> HIDE DEF number
        <5> QED
          BY <4>2, <4>5
      <4> QED
        BY <4>3, <4>4, <4>6
    <3>7. Read(tokens, b) = Read(tokens, cur_token) \o number
      <4>1. CASE HasOffset
        <5>1. ~EndOfLine(cur_token)
          BY <1>6, <4>1 DEF EndOfLine
        <5>2. Read(tokens, After(cur_token)) = Read(tokens, cur_token) \o <<TokenAt(cur_token)>>
          BY <1>1, <5>1, ReadAfter
        <5> QED
          BY <2>4, <3>2, <4>1, <5>2
      <4>2. CASE ~HasOffset
        <5>1. number = << >> /\ b = cur_token
          BY <3>2, <4>2
        <5> HIDE DEF number, b
        <5> QED
          BY <3>6, <5>1, ConcatEmptySeq
      <4> QED
        BY <4>1, <4>2
    <3> HIDE DEF number, rest, node, r, b
    <3>8. (Read(tokens, cur_token) \o number) \o rest = Read(tokens, cur_token) \o (number \o rest)
      BY <3>6, Regroup
    <3> QED
      BY <3>3, <3>4, <3>5, <3>7, <3>8
  <2> DEFINE errors == noRegister \o notClosed
  <2> HIDE DEF node, noRegister, notClosed, r
  <2>6. /\ errors \in Seq(Report)
        /\ errors = << >> => noRegister = << >> /\ notClosed = << >>
    BY <2>1
  <2>7. errors = << >> =>
          node \in OperandNode
            /\ Read(tokens, After(After(r))) = Read(tokens, cur_token) \o OperandTokens(node)
    BY <2>1, <2>5, <2>6
  <2> HIDE DEF errors
  <2>8. TakeOperand(node, After(After(r)), errors)
    BY <2>2 DEF errors
  <2> QED
    BY <1>1, <1>3, <2>6, <2>7, <2>8, TakeOperandWrites
<1> QED
  BY <1>5, <1>6

LEMMA ParseSimpleWrites ==
  ASSUME IInv, NothingLostSoFar, ParseSimple, reports' = << >>
  PROVE  NothingLostSoFar'
<1> DEFINE node == [type |-> "SIMPLE", token |-> TokenAt(cur_token)]
           e == Error("unexpected_as_operand", cur_token)
<1>1. InSource /\ cur_token \in Cursor /\ status = "parsing" /\ at = "operand"
  BY DEF IInv, TypeOK, Cursor, ParseSimple, Reading
<1>2. After(cur_token) \in Cursor /\ TokenAt(cur_token) \in Token
  BY <1>1, TokenShape
<1>3. CASE TypeAt(cur_token) \in {"SYMBOL", "STRING", "INT"}
  <2>1. node \in OperandNode
    BY <1>2, <1>3 DEF OperandNode, TypeAt
  <2>2. TakeOperand(node, After(cur_token), << >>)
    BY <1>3 DEF ParseSimple
  <2>3. << >> \in Seq(Report)
    BY EmptySeq
  <2>4. OperandTokens(node) = <<TokenAt(cur_token)>>
    BY DEF OperandTokens
  <2>5. Read(tokens, After(cur_token)) = Read(tokens, cur_token) \o <<TokenAt(cur_token)>>
    <3>1. ~EndOfLine(cur_token)
      BY <1>3 DEF EndOfLine
    <3> QED
      BY <1>1, <3>1, ReadAfter
  <2> HIDE DEF node
  <2> QED
    BY <1>1, <1>2, <2>1, <2>2, <2>3, <2>4, <2>5, TakeOperandWrites
<1>4. CASE TypeAt(cur_token) \notin {"SYMBOL", "STRING", "INT"}
  <2>1. e \in Report
    BY <1>1, ErrorInSource DEF ErrorKind
  <2>2. TakeOperand(NULL, After(cur_token), <<e>>)
    BY <1>4 DEF ParseSimple
  <2> HIDE DEF e
  <2>3. <<e>> \in Seq(Report) /\ <<e>> # << >>
    BY <2>1
  <2> QED
    BY <2>2, <2>3, NothingReported DEF TakeOperand
<1> QED
  BY <1>3, <1>4

LEMMA ParseSeparatorWrites ==
  ASSUME IInv, NothingLostSoFar, ParseSeparator, reports' = << >>
  PROVE  NothingLostSoFar'
<1> DEFINE node == [opcode |-> opcode, operands |-> operands]
           head == <<[type |-> "SYMBOL", value |-> opcode]>>
           O == OperandsTokens(operands)
           N == NodeTokens \o OpenTokens(label)
           comma == Mark("COMMA")
           errors == If(~EndOfLine(cur_token), "expected_comma", cur_token)
<1>1. InSource /\ cur_token \in Cursor /\ status = "parsing" /\ at = "separator"
  BY DEF IInv, TypeOK, Cursor, ParseSeparator, Reading
<1>2. After(cur_token) \in Cursor /\ TokenAt(cur_token) \in Token
  BY <1>1, TokenShape
<1>3. ASSUME reports = << >>
      PROVE  /\ NodesTyped /\ Written = Read(tokens, cur_token) /\ Construction
             /\ operands # << >> /\ (label = << >> => labels = << >>)
             /\ N \in Seq(Token) /\ head \o O \in Seq(Token) /\ node \in InstructionNode
             /\ InstructionTokens(node) = head \o O
             /\ Written = N \o (head \o O)
  <2>1. NodesTyped /\ Written = Read(tokens, cur_token) /\ Construction
    BY <1>1, <1>3 DEF NothingLostSoFar, IInv, TypeOK
  <2>2. operands # << >> /\ (label = << >> => labels = << >>)
    BY <1>1, <2>1 DEF Construction
  <2>3. N \in Seq(Token)
    BY <2>1, NodesAreTokens
  <2>4. node \in InstructionNode
    BY <1>1, <2>1 DEF NodesTyped, InstructionNode
  <2>5. InstructionTokens(node) = head \o O /\ head \o O \in Seq(Token)
    BY <2>4, InstructionIsTokens
  <2>6. Written = N \o ((head \o O) \o << >>)
    BY <1>1 DEF Written, StartedTokens
  <2>7. (head \o O) \o << >> = head \o O
    <3> DEFINE w == head \o O
    <3>1. w \in Seq(Token)
      BY <2>5
    <3> HIDE DEF w
    <3>2. w \o << >> = w
      BY <3>1, ConcatEmptySeq
    <3> QED
      BY <3>2 DEF w
  <2> QED
    BY <2>1, <2>2, <2>3, <2>4, <2>5, <2>6, <2>7
<1>4. CASE TypeAt(cur_token) = "COMMA"
  <2>1. cur_token' = After(cur_token) /\ at' = "operand"
        /\ UNCHANGED <<tokens, label, opcode, operands, instructions, labels, reports, status>>
    BY <1>4 DEF ParseSeparator, nodes, input
  <2>2. reports = << >>
    BY <2>1
  <2>3. TokenAt(cur_token) = comma
    BY <1>2, <1>4, TokenIs, MarksAreTokens DEF TypeAt
  <2>4. Read(tokens, After(cur_token)) = (N \o (head \o O)) \o <<comma>>
    <3>1. ~EndOfLine(cur_token)
      BY <1>4 DEF EndOfLine
    <3>2. Read(tokens, After(cur_token)) = Read(tokens, cur_token) \o <<comma>>
      BY <1>1, <2>3, <3>1, ReadAfter
    <3> QED
      BY <1>3, <2>2, <3>2
  <2>5. Written' = N \o ((head \o O) \o <<comma>>)
    <3>1. Written' = N \o StartedTokens(at', opcode, operands)
      BY <2>1, WrittenStays
    <3>2. StartedTokens(at', opcode, operands) = (head \o O) \o <<comma>>
      BY <1>3, <2>1, <2>2 DEF StartedTokens
    <3> QED
      BY <3>1, <3>2
  <2>6. (N \o (head \o O)) \o <<comma>> = N \o ((head \o O) \o <<comma>>)
    <3> DEFINE w == head \o O
    <3>1. w \in Seq(Token) /\ N \in Seq(Token) /\ comma \in Token
      BY <1>3, <2>2, MarksAreTokens
    <3> HIDE DEF w, N, comma
    <3>2. <<comma>> \in Seq(Token)
      BY <3>1
    <3>3. (N \o w) \o <<comma>> = N \o (w \o <<comma>>)
      BY <3>1, <3>2, Regroup
    <3> QED
      BY <3>3 DEF w
  <2>7. Construction'
    BY <1>3, <2>1, <2>2 DEF Construction
  <2> HIDE DEF N, head, O, comma
  <2> QED
    BY <1>1, <2>1, <2>4, <2>5, <2>6, <2>7 DEF NothingLostSoFar
<1>5. CASE TypeAt(cur_token) # "COMMA"
  <2>1. errors \in Seq(Report) /\ (errors = << >> => EndOfLine(cur_token))
    BY <1>1, IfReports DEF ErrorKind, EndOfLine
  <2> DEFINE step == FinishInstruction(node, After(cur_token))
  <2>2. Reporting(errors, step)
    BY <1>5 DEF ParseSeparator
  <2> HIDE DEF errors, step
  <2>3. reports = << >> /\ errors = << >> /\ step
    BY <2>1, <2>2, NothingReported
  <2>4. EndOfLine(cur_token)
    BY <2>1, <2>3
  <2>5. Read(tokens, After(cur_token)) = N \o InstructionTokens(node)
    <3>1. Read(tokens, After(cur_token)) = Read(tokens, cur_token)
      BY <1>1, <2>4, ReadAfter
    <3> QED
      BY <1>3, <2>3, <3>1
  <2>6. FinishInstruction(node, After(cur_token))
    BY <2>3 DEF step
  <2>7. NodesTyped /\ node \in InstructionNode /\ (label = << >> => labels = << >>)
    BY <1>3, <2>3
  <2> HIDE DEF node
  <2>8. (Written = Read(tokens, cur_token))' /\ Construction'
    BY <1>1, <1>2, <2>5, <2>6, <2>7, FinishWrites
  <2>9. status' = "parsing"
    BY <1>1, <2>6 DEF FinishInstruction
  <2> QED
    BY <2>8, <2>9 DEF NothingLostSoFar
<1> QED
  BY <1>4, <1>5

\* The parser is done where nothing but line breaks is left.
LEMMA ParsedWrites ==
  ASSUME IInv, NothingLostSoFar, Parsed, reports' = << >>
  PROVE  NothingLostSoFar'
<1> DEFINE d == SkipNewLines(cur_token)
<1>1. InSource /\ cur_token \in Cursor /\ status = "parsing" /\ at = "top" /\ status' = "parsed"
      /\ UNCHANGED <<tokens, label, opcode, operands, instructions, labels, reports>>
  BY DEF IInv, TypeOK, Cursor, Parsed, Reading, input, nodes
<1>2. NodesTyped /\ Written = Read(tokens, cur_token) /\ label = << >>
  BY <1>1 DEF NothingLostSoFar, Construction, IInv, TypeOK
<1>3. d \in Cursor /\ TypeAt(d) = "EOF" /\ Len(tokens) \in Nat
  BY <1>1, SkipFinds, SourceShape DEF Cursor, Parsed
<1>4. After(d) = Len(tokens)
  <2>1. d >= Len(tokens) - 1
    BY <1>1, <1>3, TokenShape
  <2> QED
    BY <1>3, <2>1 DEF After, Cursor
<1>5. Read(tokens, Len(tokens)) = Read(tokens, cur_token)
  <2>1. EndOfLine(d)
    BY <1>3 DEF EndOfLine
  <2> HIDE DEF d
  <2>2. Read(tokens, After(d)) = Read(tokens, d)
    BY <1>1, <1>3, <2>1, ReadAfter
  <2>3. Read(tokens, d) = Read(tokens, cur_token)
    BY <1>1, ReadSkip DEF d
  <2> QED
    BY <1>4, <2>2, <2>3
<1>6. Written = NodeTokens
  <2>1. Written = (NodeTokens \o << >>) \o << >>
    BY <1>1, <1>2 DEF Written, OpenTokens, StartedTokens
  <2>2. NodeTokens \in Seq(Token)
    BY <1>2, NodesAreTokens
  <2> HIDE DEF NodeTokens
  <2> QED
    BY <2>1, <2>2, ConcatEmptySeq
<1>7. NodeTokens' = Read(tokens', Len(tokens'))
  <2>1. NodeTokens' = NodeTokens
    BY <1>1 DEF NodeTokens
  <2> QED
    BY <1>1, <1>2, <1>5, <1>6, <2>1
<1> QED
  BY <1>1, <1>7 DEF NothingLostSoFar

LEMMA NextWrites == IInv /\ NothingLostSoFar /\ [Next]_vars => NothingLostSoFar'
<1> SUFFICES ASSUME IInv, NothingLostSoFar, [Next]_vars, reports' = << >>
             PROVE  NothingLostSoFar'
  BY DEF NothingLostSoFar
<1>1. CASE AssertionFails
  <2>1. status' = "assertion"
    BY <1>1 DEF AssertionFails, Crash
  <2> QED
    BY <2>1 DEF NothingLostSoFar
<1>2. CASE Stopped \/ UNCHANGED vars
  <2>1. UNCHANGED <<tokens, exits, cur_token, at, label, opcode, operands, instructions, labels,
                    reports, status>>
    BY <1>2 DEF Stopped, vars, input, nodes
  <2>2. Written' = Written /\ NodeTokens' = NodeTokens
    BY <2>1, WrittenStays DEF Written, NodeTokens
  <2>3. Construction => Construction'
    <3>1. AtBreak => AtBreak'
      BY <2>1, StaysAtBreak DEF AtBreak
    <3> QED
      BY <2>1, <3>1 DEF Construction
  <2> QED
    BY <2>1, <2>2, <2>3 DEF NothingLostSoFar
<1> QED
  BY <1>1, <1>2, ParsedWrites, ParseLabelWrites, TopLevelWrites, ParseInstructionWrites,
     ParseMemAddressWrites, ParseSimpleWrites, ParseSeparatorWrites DEF Next

LEMMA InitWrites == Init => NothingLostSoFar
<1> SUFFICES ASSUME Init PROVE NothingLostSoFar
  OBVIOUS
<1>1. NodeTokens = << >>
  <2>1. [k \in DOMAIN << >> |-> InstructionTokens(<< >>[k])] = << >>
        /\ [k \in DOMAIN << >> |-> LabelTokens(<< >>[k])] = << >>
    OBVIOUS
  <2>2. BodyTokens(<< >>) = << >> /\ LabelsTokens(<< >>) = << >>
    BY <2>1, FlattenNone DEF BodyTokens, LabelsTokens
  <2>3. << >> \o << >> = << >>
    OBVIOUS
  <2> QED
    BY <2>2, <2>3, NodeTokensAre DEF Init
<1>2. Written = << >>
  <2>1. (<< >> \o << >>) \o << >> = << >>
    OBVIOUS
  <2> QED
    BY <1>1, <2>1 DEF Init, Written, OpenTokens, StartedTokens
<1>3. Read(tokens, 0) = << >>
  <2>1. [k \in 1 .. 0 |-> Kept(tokens[k])] = << >>
    OBVIOUS
  <2> QED
    BY <2>1, FlattenNone DEF Read
<1> QED
  BY <1>2, <1>3 DEF Init, NothingLostSoFar, Construction

\* The nodes of every source that is parsed without a report are its tokens, none
\* lost, repeated or moved by the cursor that goes ahead and back.
THEOREM AllWritten == Spec => []NothingLost
<1>1. IInv /\ NothingLostSoFar => NothingLost
  <2> SUFFICES ASSUME IInv, NothingLostSoFar, status = "parsed", reports = << >>
               PROVE  NodeTokens = FlattenSeq([k \in DOMAIN tokens |-> Kept(tokens[k])])
    BY DEF NothingLost
  <2>1. NodeTokens = Read(tokens, Len(tokens))
    BY DEF NothingLostSoFar
  <2>2. DOMAIN tokens = 1 .. Len(tokens)
    BY SourceShape DEF IInv
  <2> QED
    BY <2>1, <2>2 DEF Read
<1> QED
  BY <1>1, InitWrites, NextWrites, Invariance, PTL DEF Spec
-----------------------------------------------------------------------------
(* How far the lines of a source have been read *)

\* The place of the token at a cursor, and of the one that looking ahead finds.
PlaceOf(s, c) == IF c >= Len(s) THEN Len(s) ELSE c + 1
Ahead == PlaceOf(tokens, SkipNewLines(cur_token))

FitBefore(s, k) == \A j \in Heads(s) : j < k => Fits(s, j)

\* At the head of a line that may have a label.
AtLine(s, k) == k \in Heads(s) /\ FitBefore(s, k) /\ ~BehindLone(s, k)

\* In the line of h an instruction is expected at p: behind its label, or at its
\* start, if it has no label or may have none.
Entered(s, h, p) ==
  /\ h \in Starts(s) /\ FitBefore(s, h)
  /\ \/ p = h /\ (HasLabel(s, h) => BehindLone(s, h))
     \/ p = h + 2 /\ HasLabel(s, h) /\ ~Lone(s, h) /\ ~BehindLone(s, h)

\* The operands up to c, which is the opcode or a comma, are right.
OperandsTo(s, h, p, c) ==
  /\ Entered(s, h, p) /\ s[p].type = "SYMBOL"
  /\ p <= c /\ c < LineEnd(s, h) /\ p + 1 < LineEnd(s, h)
  /\ c = p \/ s[c].type = "COMMA"
  /\ OperandsBetweenCuts(s, p, c)

\* Behind c there is an operand that ends at d, and no longer one.
OperandAt(s, h, c, d) ==
  /\ c < d /\ d < LineEnd(s, h)
  /\ Types(s, c + 1, d) \in OperandTypes
  /\ \A m \in d + 1 .. LineEnd(s, h) - 1 : Types(s, c + 1, m) \notin OperandTypes

\* What is known where the next token is read, at the cursor c or at k ahead.
LinesRead(s, where, k, c) ==
  /\ where = "top" => AtLine(s, k)
  /\ where = "instruction" => \E h \in Starts(s) : Entered(s, h, k)
  /\ where = "operand" => \E h, p \in DOMAIN s : OperandsTo(s, h, p, c)
  /\ where = "separator" =>
       \E h, p, b \in DOMAIN s : OperandsTo(s, h, p, b) /\ OperandAt(s, h, b, c)

\* A place in the first line that does not fit.
Blamed(s, place) ==
  \E k \in Heads(s) : ~Fits(s, k) /\ FitBefore(s, k) /\ place \in k .. LineEnd(s, k)

\* Until an error is reported, all that has been read fits; the first error that
\* is reported is in the first line that does not.
AcceptedSoFar ==
  /\ reports = << >> /\ status = "parsing" => LinesRead(tokens, at, Ahead, cur_token)
  /\ reports = << >> /\ status = "parsed" => Grammatical(tokens)
  /\ status = "assertion" => ~Grammatical(tokens)
  /\ status \in {"exited", "null_dereferenced"} => reports # << >>
  /\ reports # << >> => Blamed(tokens, reports[1].place)

-----------------------------------------------------------------------------
(* Lines and places *)

LEMMA Size == ASSUME InSource PROVE Len(tokens) \in Nat \ {0} /\ DOMAIN tokens = 1 .. Len(tokens)
BY SourceShape

LEMMA EndsAre ==
  ASSUME InSource
  PROVE  /\ \A k \in Ends(tokens) : k \in 1 .. Len(tokens) /\ k \in Nat /\ 1 <= k /\ k <= Len(tokens)
         /\ Len(tokens) \in Ends(tokens)
         /\ \A k \in 1 .. Len(tokens) :
              k \in Ends(tokens) <=> tokens[k].type \in {"NEW_LINE", "EOF"}
         /\ \A k \in 1 .. Len(tokens) : tokens[k].type = "EOF" <=> k = Len(tokens)
<1>1. Len(tokens) \in Nat \ {0} /\ DOMAIN tokens = 1 .. Len(tokens)
  BY Size, SMTT(30)
<1>2. \A k \in 1 .. Len(tokens) : tokens[k].type = "EOF" <=> k = Len(tokens)
  BY <1>1, SourceShape
<1>3. \A k \in 1 .. Len(tokens) : k \in Ends(tokens) <=> tokens[k].type \in {"NEW_LINE", "EOF"}
  BY <1>1 DEF Ends
<1>4. \A k \in Ends(tokens) : k \in 1 .. Len(tokens)
  BY <1>1 DEF Ends
<1>5. \A k \in 1 .. Len(tokens) : k \in Nat /\ 1 <= k /\ k <= Len(tokens)
  BY <1>1
<1>6. Len(tokens) \in 1 .. Len(tokens)
  BY <1>1
<1>7. Len(tokens) \in Ends(tokens)
  BY <1>2, <1>3, <1>6
<1> QED
  BY <1>2, <1>3, <1>4, <1>5, <1>7

LEMMA StartsAre ==
  ASSUME InSource
  PROVE  /\ \A k \in Starts(tokens) : /\ k \in 1 .. Len(tokens) /\ k \in Nat /\ 1 <= k /\ k <= Len(tokens)
                                      /\ k \notin Ends(tokens) /\ (k = 1 \/ k - 1 \in Ends(tokens))
         /\ \A k \in 1 .. Len(tokens) :
              k \notin Ends(tokens) /\ (k = 1 \/ k - 1 \in Ends(tokens)) => k \in Starts(tokens)
<1>1. Len(tokens) \in Nat \ {0} /\ DOMAIN tokens = 1 .. Len(tokens)
  BY Size
<1>2. \A k \in 1 .. Len(tokens) : k \in Nat /\ 1 <= k /\ k <= Len(tokens)
  BY <1>1
<1> QED
  BY <1>1, <1>2 DEF Starts

LEMMA HeadsAre ==
  ASSUME InSource, NEW k \in Heads(tokens)
  PROVE  /\ k \in 1 .. Len(tokens) /\ k \in Nat /\ 1 <= k /\ k <= Len(tokens)
         /\ k # Len(tokens) => k \in Starts(tokens)
<1>1. CASE k \in Starts(tokens)
  BY <1>1, StartsAre
<1>2. CASE k = Len(tokens)
  BY <1>2, Size
<1> QED
  BY <1>1, <1>2 DEF Heads

LEMMA LineEndIs ==
  ASSUME InSource, NEW k \in 1 .. Len(tokens)
  PROVE  LET e == LineEnd(tokens, k)
         IN  /\ e \in Ends(tokens) /\ e \in Nat /\ k <= e /\ e <= Len(tokens)
             /\ \A f \in Ends(tokens) : k <= f => e <= f
<1> DEFINE S == {e \in Ends(tokens) : k <= e}
<1>1. Len(tokens) \in Nat /\ Len(tokens) \in Ends(tokens)
      /\ \A e \in Ends(tokens) : e \in Nat /\ e <= Len(tokens)
  BY Size, EndsAre
<1>0. k \in Nat /\ k <= Len(tokens)
  BY <1>1
<1>2. Len(tokens) \in S /\ S \in SUBSET Nat
  BY <1>1, <1>0
<1>3. PICK e \in S : \A m \in S : e <= m
  <2> HIDE DEF S
  <2> QED
    BY <1>2, Least
<1>4. e \in Ends(tokens) /\ k <= e /\ \A f \in Ends(tokens) : k <= f => e <= f
  BY <1>3
<1>5. /\ LineEnd(tokens, k) \in Ends(tokens) /\ k <= LineEnd(tokens, k)
      /\ \A f \in Ends(tokens) : k <= f => LineEnd(tokens, k) <= f
  BY <1>4 DEF LineEnd
<1> QED
  BY <1>1, <1>5, SMTT(30)

\* The end of a line is the first end behind a place in it.
LEMMA LineEndAt ==
  ASSUME InSource, NEW k \in 1 .. Len(tokens), NEW e \in Ends(tokens), k <= e,
         \A f \in k .. e - 1 : f \notin Ends(tokens)
  PROVE  LineEnd(tokens, k) = e
<1>1. /\ LineEnd(tokens, k) \in Ends(tokens) /\ LineEnd(tokens, k) \in Nat
      /\ k <= LineEnd(tokens, k) /\ LineEnd(tokens, k) <= e
  BY LineEndIs
<1>2. e \in Nat /\ k \in Nat
  <2>1. e \in Nat /\ Len(tokens) \in Nat
    BY Size, EndsAre
  <2> QED
    BY <2>1, SMTT(30)
<1>3. LineEnd(tokens, k) \notin k .. e - 1
  BY <1>1
<1> QED
  BY <1>1, <1>2, <1>3

\* A line starts behind the end of any earlier one.
LEMMA StartsApart ==
  ASSUME InSource, NEW h \in Starts(tokens), NEW j \in Heads(tokens), h < j
  PROVE  LineEnd(tokens, h) <= j /\ (j \in Starts(tokens) => LineEnd(tokens, h) < j)
<1>1. h \in 1 .. Len(tokens) /\ Len(tokens) \in Nat /\ h \in Nat
  BY Size, StartsAre
<1>2. CASE j \in Starts(tokens)
  <2>1. j \in Nat /\ (j = 1 \/ j - 1 \in Ends(tokens))
    BY <1>2, Size, StartsAre
  <2>2. j - 1 \in Ends(tokens) /\ h <= j - 1
    BY <1>1, <2>1
  <2>3. LineEnd(tokens, h) <= j - 1 /\ LineEnd(tokens, h) \in Nat
    BY <1>1, <2>2, LineEndIs
  <2> QED
    BY <2>1, <2>3
<1>3. CASE j = Len(tokens)
  <2>1. LineEnd(tokens, h) <= j
    BY <1>1, <1>3, LineEndIs
  <2>2. j \notin Starts(tokens)
    BY <1>3, EndsAre, StartsAre
  <2> QED
    BY <2>1, <2>2
<1> QED
  BY <1>2, <1>3 DEF Heads

\* The token at a cursor.
LEMMA PlaceIs ==
  ASSUME InSource, NEW c \in Cursor
  PROVE  LET k == PlaceOf(tokens, c)
         IN  /\ k \in 1 .. Len(tokens) /\ TokenAt(c) = tokens[k] /\ TypeAt(c) = tokens[k].type
             /\ EndOfLine(c) <=> k \in Ends(tokens)
             /\ c < Len(tokens) => k = c + 1
             /\ TypeAt(c) # "EOF" => k = c + 1 /\ After(c) = k /\ k < Len(tokens)
             /\ TypeAt(c) = "EOF" <=> k = Len(tokens)
<1> DEFINE k == PlaceOf(tokens, c)
<1>1. c \in 0 .. Len(tokens) /\ Len(tokens) \in Nat \ {0}
  BY Size DEF Cursor
<1>2. k \in 1 .. Len(tokens) /\ (c < Len(tokens) => k = c + 1)
  BY <1>1 DEF PlaceOf
<1>3. TokenAt(c) = tokens[k]
  BY DEF PlaceOf, TokenAt
<1>4. TypeAt(c) = tokens[k].type
  BY <1>3 DEF TypeAt
<1> HIDE DEF k
<1>5. EndOfLine(c) <=> k \in Ends(tokens)
  BY <1>2, <1>4, EndsAre DEF EndOfLine
<1>6. TypeAt(c) = "EOF" <=> k = Len(tokens)
  BY <1>2, <1>4, EndsAre
<1>7. TypeAt(c) # "EOF" => c < Len(tokens) - 1 /\ After(c) = c + 1
  BY <1>1, TokenShape
<1>8. TypeAt(c) # "EOF" => k = c + 1 /\ After(c) = k /\ k < Len(tokens)
  BY <1>1, <1>2, <1>7
<1> QED
  BY <1>2, <1>3, <1>4, <1>5, <1>6, <1>8 DEF k

\* What looking ahead finds.
LEMMA AheadIs ==
  ASSUME InSource, NEW c \in Cursor
  PROVE  LET k == PlaceOf(tokens, SkipNewLines(c))
         IN  /\ SkipNewLines(c) \in Cursor
             /\ k \in PlaceOf(tokens, c) .. Len(tokens)
             /\ k \in Ends(tokens) => k = Len(tokens)
             /\ \A f \in PlaceOf(tokens, c) .. k - 1 : f \in Ends(tokens)
<1> DEFINE d == SkipNewLines(c)
           k == PlaceOf(tokens, d)
           b == PlaceOf(tokens, c)
<1>1. /\ d \in c .. Len(tokens) /\ TypeAt(d) # "NEW_LINE"
      /\ \A e \in c .. d - 1 : TypeAt(e) = "NEW_LINE"
  BY SkipFinds
<1>2. c \in 0 .. Len(tokens) /\ Len(tokens) \in Nat \ {0} /\ d \in Cursor
  BY <1>1, Size DEF Cursor
<1> HIDE DEF d
<1>3. /\ k \in 1 .. Len(tokens) /\ b \in 1 .. Len(tokens) /\ b <= k
      /\ d < Len(tokens) => k = d + 1
      /\ c < Len(tokens) => b = c + 1
      /\ d >= Len(tokens) => k = Len(tokens)
  BY <1>1, <1>2 DEF PlaceOf
<1>4. k \in Ends(tokens) => k = Len(tokens)
  <2>1. TypeAt(d) = tokens[k].type
    BY <1>2, PlaceIs
  <2> HIDE DEF k
  <2> QED
    BY <1>1, <1>3, <2>1, EndsAre
<1>5. ASSUME NEW f \in b .. k - 1 PROVE f \in Ends(tokens)
  <2> DEFINE e == f - 1
  <2>1. f \in 1 .. Len(tokens) /\ f = e + 1 /\ e \in c .. d - 1 /\ e \in Cursor /\ e < Len(tokens)
    BY <1>1, <1>2, <1>3 DEF Cursor
  <2> HIDE DEF e, k, b
  <2>2. PlaceOf(tokens, e) = f /\ TypeAt(e) = tokens[PlaceOf(tokens, e)].type
    BY <2>1, PlaceIs
  <2>3. TypeAt(e) = "NEW_LINE"
    BY <1>1, <2>1
  <2> QED
    BY <2>1, <2>2, <2>3, EndsAre
<1> QED
  BY <1>2, <1>3, <1>4, <1>5 DEF d

-----------------------------------------------------------------------------
(* Operands between commas *)

\* What the types of an operand say of its tokens.
IsOperand(s, x, y) ==
  \/ y = x /\ s[x].type \in {"SYMBOL", "STRING", "INT"}
  \/ /\ y = x + 2 /\ s[x].type = "BRACKET_OPEN"
     /\ s[x + 1].type = "SYMBOL" /\ s[x + 2].type = "BRACKET_CLOSE"
  \/ /\ y = x + 3 /\ s[x].type = "INT" /\ s[x + 1].type = "BRACKET_OPEN"
     /\ s[x + 2].type = "SYMBOL" /\ s[x + 3].type = "BRACKET_CLOSE"

LEMMA OperandIs ==
  ASSUME NEW s, NEW x \in Nat, NEW y \in Nat, x <= y + 1
  PROVE  Types(s, x, y) \in OperandTypes <=> IsOperand(s, x, y)
<1> DEFINE n == y - x + 1
           f == [i \in 1 .. n |-> s[x + i - 1].type]
<1>1. n \in Nat /\ Types(s, x, y) = f
  BY DEF Types
<1>2. \A i \in 1 .. n : f[i] = s[x + i - 1].type
  OBVIOUS
<1> DEFINE S == {s[x + i - 1].type : i \in 1 .. n}
<1>3. f \in Seq(S) /\ Len(f) = n
  <2>1. f \in [1 .. n -> S]
    OBVIOUS
  <2> HIDE DEF f, S, n
  <2> QED
    BY <1>1, <2>1
<1>0. \A i \in 1 .. n : f[i] \in S
  BY <1>2
<1> HIDE DEF S, f
<1>4. ASSUME NEW a PROVE f = <<a>> <=> y = x /\ s[x].type = a
  <2>1. f = <<a>> => n = 1 /\ f[1] = a
    BY <1>3
  <2>2. ASSUME n = 1, f[1] = a PROVE f = <<a>>
    <3>1. <<a>> \in Seq(S) /\ Len(<<a>>) = 1
      BY <1>0, <2>2
    <3>2. \A i \in 1 .. 1 : f[i] = <<a>>[i]
      BY <2>2
    <3> QED
      BY <1>3, <2>2, <3>1, <3>2, SeqEqual
  <2>3. n = 1 <=> y = x
    OBVIOUS
  <2>4. n = 1 => f[1] = s[x].type
    BY <1>2
  <2> QED
    BY <2>1, <2>2, <2>3, <2>4
<1>5. ASSUME NEW a, NEW b, NEW c
      PROVE f = <<a, b, c>> <=>
              y = x + 2 /\ s[x].type = a /\ s[x + 1].type = b /\ s[x + 2].type = c
  <2>1. f = <<a, b, c>> => n = 3 /\ f[1] = a /\ f[2] = b /\ f[3] = c
    BY <1>3
  <2>2. ASSUME n = 3, f[1] = a, f[2] = b, f[3] = c PROVE f = <<a, b, c>>
    <3>1. <<a, b, c>> \in Seq(S) /\ Len(<<a, b, c>>) = 3
      BY <1>0, <2>2
    <3>2. \A i \in 1 .. 3 : f[i] = <<a, b, c>>[i]
      BY <2>2
    <3> QED
      BY <1>3, <2>2, <3>1, <3>2, SeqEqual
  <2>3. n = 3 <=> y = x + 2
    OBVIOUS
  <2>4. n = 3 => f[1] = s[x].type /\ f[2] = s[x + 1].type /\ f[3] = s[x + 2].type
    BY <1>2
  <2> QED
    BY <2>1, <2>2, <2>3, <2>4
<1>6. ASSUME NEW a, NEW b, NEW c, NEW d
      PROVE f = <<a, b, c, d>> <=>
              y = x + 3 /\ s[x].type = a /\ s[x + 1].type = b /\ s[x + 2].type = c /\ s[x + 3].type = d
  <2>1. f = <<a, b, c, d>> => n = 4 /\ f[1] = a /\ f[2] = b /\ f[3] = c /\ f[4] = d
    BY <1>3
  <2>2. ASSUME n = 4, f[1] = a, f[2] = b, f[3] = c, f[4] = d PROVE f = <<a, b, c, d>>
    <3>1. <<a, b, c, d>> \in Seq(S) /\ Len(<<a, b, c, d>>) = 4
      BY <1>0, <2>2
    <3>2. \A i \in 1 .. 4 : f[i] = <<a, b, c, d>>[i]
      BY <2>2
    <3> QED
      BY <1>3, <2>2, <3>1, <3>2, SeqEqual
  <2>3. n = 4 <=> y = x + 3
    OBVIOUS
  <2>4. n = 4 => f[1] = s[x].type /\ f[2] = s[x + 1].type /\ f[3] = s[x + 2].type
                   /\ f[4] = s[x + 3].type
    BY <1>2
  <2> QED
    BY <2>1, <2>2, <2>3, <2>4
<1> HIDE DEF n
<1>7. f \in OperandTypes <=> IsOperand(s, x, y)
  <2>1. f \in OperandTypes <=>
          \/ f = <<"SYMBOL">> \/ f = <<"STRING">> \/ f = <<"INT">>
          \/ f = <<"BRACKET_OPEN", "SYMBOL", "BRACKET_CLOSE">>
          \/ f = <<"INT", "BRACKET_OPEN", "SYMBOL", "BRACKET_CLOSE">>
    BY DEF OperandTypes
  <2>2. /\ f = <<"SYMBOL">> <=> y = x /\ s[x].type = "SYMBOL"
        /\ f = <<"STRING">> <=> y = x /\ s[x].type = "STRING"
        /\ f = <<"INT">> <=> y = x /\ s[x].type = "INT"
    BY <1>4
  <2>3. f = <<"BRACKET_OPEN", "SYMBOL", "BRACKET_CLOSE">> <=>
          /\ y = x + 2 /\ s[x].type = "BRACKET_OPEN"
          /\ s[x + 1].type = "SYMBOL" /\ s[x + 2].type = "BRACKET_CLOSE"
    BY <1>5
  <2>4. f = <<"INT", "BRACKET_OPEN", "SYMBOL", "BRACKET_CLOSE">> <=>
          /\ y = x + 3 /\ s[x].type = "INT" /\ s[x + 1].type = "BRACKET_OPEN"
          /\ s[x + 2].type = "SYMBOL" /\ s[x + 3].type = "BRACKET_CLOSE"
    BY <1>6
  <2> QED
    BY <2>1, <2>2, <2>3, <2>4 DEF IsOperand
<1> QED
  BY <1>1, <1>7

\* An instruction has an operand behind its opcode and behind each comma, up to
\* the next comma or the end.
LEMMA OperandBehind ==
  ASSUME NEW s, NEW p \in Nat, NEW e \in Nat, NEW c \in Nat, p <= c, c < e, p + 1 < e,
         c = p \/ s[c].type = "COMMA", IsInstruction(s, p, e)
  PROVE  \E f \in c + 1 .. e : (f = e \/ s[f].type = "COMMA") /\ IsOperand(s, c + 1, f - 1)
<1> DEFINE cuts == Cuts(s, p, e)
           S == {f \in cuts : c < f}
<1>1. cuts = {p, e} \cup {k \in p .. e : s[k].type = "COMMA"}
  BY DEF Cuts
<1>2. /\ \A k \in cuts : k \in p .. e /\ (k = p \/ k = e \/ s[k].type = "COMMA")
      /\ c \in cuts /\ e \in cuts
  BY <1>1
<1> HIDE DEF cuts
<1>3. e \in S /\ S \in SUBSET Nat /\ \A f \in S : f \in cuts /\ c < f
  BY <1>2
<1>4. \A f \in cuts : c < f => f \in S
  OBVIOUS
<1> HIDE DEF S
<1>5. PICK f \in S : \A m \in S : f <= m
  BY <1>3, Least
<1>6. f \in cuts /\ f \in c + 1 .. e /\ (f = e \/ s[f].type = "COMMA")
  BY <1>2, <1>3, <1>5
<1>7. cuts \cap (c + 1 .. f - 1) = {}
  <2> SUFFICES ASSUME NEW m \in cuts, m \in c + 1 .. f - 1 PROVE FALSE
    OBVIOUS
  <2>1. c < m /\ ~(f <= m)
    BY <1>6
  <2> QED
    BY <1>4, <1>5, <2>1
<1>8. OperandsBetweenCuts(s, p, e)
  BY DEF IsInstruction
<1>9. Types(s, c + 1, f - 1) \in OperandTypes
  BY <1>2, <1>6, <1>7, <1>8 DEF OperandsBetweenCuts, cuts
<1>10. c + 1 \in Nat /\ f - 1 \in Nat /\ c + 1 <= f - 1 + 1
  BY <1>6
<1> QED
  BY <1>6, <1>9, <1>10, OperandIs

\* No operand holds a comma.
LEMMA NoCommaInOperand ==
  ASSUME NEW s, NEW b \in Nat, NEW d \in Nat, IsOperand(s, b + 1, d)
  PROVE  \A k \in b + 1 .. d : s[k].type # "COMMA"
BY DEF IsOperand

\* A further operand.
LEMMA OneMoreOperand ==
  ASSUME NEW s, NEW p \in Nat, NEW b \in Nat, NEW d \in Nat, p <= b, b <= d,
         b = p \/ s[b].type = "COMMA",
         OperandsBetweenCuts(s, p, b), Types(s, b + 1, d) \in OperandTypes
  PROVE  OperandsBetweenCuts(s, p, d + 1)
<1>1. IsOperand(s, b + 1, d)
  BY OperandIs
<1>2. \A k \in b + 1 .. d : s[k].type # "COMMA"
  BY <1>1, NoCommaInOperand
<1> DEFINE old == Cuts(s, p, b)
           new == Cuts(s, p, d + 1)
<1>3. old = {p, b} \cup {k \in p .. b : s[k].type = "COMMA"}
      /\ new = {p, d + 1} \cup {k \in p .. d + 1 : s[k].type = "COMMA"}
  BY DEF Cuts
<1>4. /\ \A k \in old : k \in new /\ k \in Nat /\ k <= b
      /\ \A k \in new : k \in Nat /\ (k \in old \/ k = d + 1)
      /\ b \in old
  BY <1>2, <1>3
<1> HIDE DEF old, new
<1> SUFFICES ASSUME NEW k \in new, NEW l \in new, k < l, new \cap (k + 1 .. l - 1) = {}
             PROVE  Types(s, k + 1, l - 1) \in OperandTypes
  BY DEF OperandsBetweenCuts, new
<1>5. k \in old /\ k \in Nat
  BY <1>4
<1>6. CASE l \in old
  <2>1. old \cap (k + 1 .. l - 1) = {}
    BY <1>4
  <2> QED
    BY <1>5, <1>6, <2>1 DEF OperandsBetweenCuts, old
<1>7. CASE l = d + 1
  <2>1. b \notin k + 1 .. l - 1
    BY <1>4
  <2>2. k = b /\ l - 1 = d
    BY <1>4, <1>5, <1>7, <2>1
  <2> QED
    BY <2>2
<1> QED
  BY <1>4, <1>6, <1>7

-----------------------------------------------------------------------------
(* Lines that fit *)

LEMMA EnteredIs ==
  ASSUME InSource, NEW h, NEW p, Entered(tokens, h, p)
  PROVE  /\ h \in 1 .. Len(tokens) /\ h \in Starts(tokens)
         /\ h \in Nat /\ p \in Nat /\ LineEnd(tokens, h) \in Nat /\ LineEnd(tokens, h) \in Ends(tokens)
         /\ h <= p /\ p < LineEnd(tokens, h) /\ LineEnd(tokens, h) <= Len(tokens)
         /\ \A f \in h .. LineEnd(tokens, h) - 1 : f \notin Ends(tokens)
<1> DEFINE e == LineEnd(tokens, h)
<1>1. h \in Starts(tokens) /\ h \in 1 .. Len(tokens) /\ h \in Nat /\ h \notin Ends(tokens)
  BY StartsAre DEF Entered
<1>2. /\ e \in Ends(tokens) /\ e \in Nat /\ h <= e /\ e <= Len(tokens)
      /\ \A f \in Ends(tokens) : h <= f => e <= f
  BY <1>1, LineEndIs
<1>3. Len(tokens) \in Nat
  BY Size
<1> HIDE DEF e
<1>4. ASSUME NEW f \in h .. e - 1 PROVE f \notin Ends(tokens)
  <2>1. h <= f /\ ~(e <= f)
    BY <1>1, <1>2
  <2> QED
    BY <1>2, <2>1
<1>5. h < e
  BY <1>1, <1>2
<1>6. CASE p = h
  BY <1>1, <1>2, <1>4, <1>5, <1>6 DEF e
<1>7. CASE p = h + 2 /\ HasLabel(tokens, h) /\ ~Lone(tokens, h)
  <2>1. tokens[h + 1].type = "COLON" /\ h + 2 \notin Ends(tokens)
    BY <1>7 DEF HasLabel, Lone
  <2>2. h + 1 \in 1 .. Len(tokens)
    BY <1>1, <1>2, <1>3, <1>5
  <2>3. h + 1 \notin Ends(tokens)
    BY <2>1, <2>2, EndsAre
  <2>4. e # h /\ e # h + 1 /\ e # h + 2
    BY <1>1, <1>2, <2>1, <2>3
  <2> QED
    BY <1>1, <1>2, <1>4, <1>7, <2>4 DEF e
<1> QED
  BY <1>6, <1>7 DEF Entered

LEMMA EnteredFits ==
  ASSUME InSource, NEW h, NEW p, Entered(tokens, h, p)
  PROVE  Fits(tokens, h) <=> IsInstruction(tokens, p, LineEnd(tokens, h))
<1> DEFINE e == LineEnd(tokens, h)
<1>1. /\ h \in 1 .. Len(tokens) /\ h \in Starts(tokens) /\ h \in Nat /\ e \in Nat
      /\ e \in Ends(tokens) /\ p < e /\ e <= Len(tokens)
  BY EnteredIs
<1>2. CASE p = h /\ ~HasLabel(tokens, h)
  <2>1. ~Lone(tokens, h)
    BY <1>2 DEF Lone
  <2> QED
    BY <1>1, <1>2, <2>1 DEF Fits
<1>3. CASE p = h /\ HasLabel(tokens, h) /\ BehindLone(tokens, h)
  <2>1. ~Fits(tokens, h)
    BY <1>3 DEF Fits
  <2>2. tokens[h + 1].type = "COLON" /\ h + 1 \in 1 .. Len(tokens)
    BY <1>1, <1>3, Size DEF HasLabel
  <2>3. h + 1 # e
    BY <1>1, <2>2, EndsAre
  <2>4. ASSUME IsInstruction(tokens, h, e) PROVE FALSE
    <3> HIDE DEF e
    <3>1. h <= h /\ h < e /\ h + 1 < e
      BY <1>1, <1>3, <2>3
    <3>2. PICK f \in h + 1 .. e :
            (f = e \/ tokens[f].type = "COMMA") /\ IsOperand(tokens, h + 1, f - 1)
      BY <1>1, <2>4, <3>1, OperandBehind
    <3>3. f - 1 >= h + 1
      BY <1>1, <2>2, <2>3, <3>2
    <3> QED
      BY <1>1, <2>2, <3>2, <3>3 DEF IsOperand
  <2> QED
    BY <1>3, <2>1, <2>4
<1>4. CASE p = h + 2 /\ HasLabel(tokens, h) /\ ~Lone(tokens, h) /\ ~BehindLone(tokens, h)
  BY <1>1, <1>4 DEF Fits
<1> QED
  BY <1>2, <1>3, <1>4 DEF Entered

LEMMA BlameHere ==
  ASSUME InSource, NEW h, NEW p, Entered(tokens, h, p),
         ~IsInstruction(tokens, p, LineEnd(tokens, h)),
         NEW place \in h .. LineEnd(tokens, h)
  PROVE  Blamed(tokens, place)
<1>1. h \in Heads(tokens) /\ FitBefore(tokens, h)
  BY DEF Entered, Heads
<1>2. ~Fits(tokens, h)
  BY EnteredFits
<1> QED
  BY <1>1, <1>2 DEF Blamed

LEMMA BlamedNot ==
  ASSUME NEW place, Blamed(tokens, place)
  PROVE  ~Grammatical(tokens)
BY DEF Blamed, Grammatical

\* From the end of a line, looking ahead finds the next one or the end.
LEMMA NextHead ==
  ASSUME InSource, NEW c \in Cursor,
         c = 0 \/ c \in Ends(tokens) \/ PlaceOf(tokens, c) \in Ends(tokens)
  PROVE  LET k == PlaceOf(tokens, SkipNewLines(c))
         IN  /\ k \in Nat /\ k \in 1 .. Len(tokens) /\ k \in Heads(tokens)
             /\ k \in Starts(tokens) \/ k = Len(tokens)
             /\ PlaceOf(tokens, c) <= k
             /\ \A f \in PlaceOf(tokens, c) .. k - 1 : f \notin Starts(tokens)
<1> DEFINE b == PlaceOf(tokens, c)
           k == PlaceOf(tokens, SkipNewLines(c))
<1>1. /\ k \in b .. Len(tokens)
      /\ k \in Ends(tokens) => k = Len(tokens)
      /\ \A f \in b .. k - 1 : f \in Ends(tokens)
  BY AheadIs
<1>2. b \in 1 .. Len(tokens) /\ (c < Len(tokens) => b = c + 1) /\ (c >= Len(tokens) => b = Len(tokens))
  BY PlaceIs, SMTT(30) DEF PlaceOf
<1>3. Len(tokens) \in Nat \ {0} /\ c \in 0 .. Len(tokens) /\ Len(tokens) \in Ends(tokens)
  BY Size, EndsAre DEF Cursor
<1> HIDE DEF b, k
<1>4. k \in Nat /\ k \in 1 .. Len(tokens) /\ b <= k
  BY <1>1, <1>2, <1>3
<1>5. ASSUME k # Len(tokens) PROVE k \in Starts(tokens)
  <2>1. k \notin Ends(tokens)
    BY <1>1, <1>5
  <2>2. CASE k = b
    <3>1. c < Len(tokens) /\ k = c + 1
      BY <1>2, <1>3, <1>5, <2>2
    <3>2. c = 0 \/ c \in Ends(tokens)
      BY <2>1, <2>2 DEF b
    <3>3. k = 1 \/ k - 1 \in Ends(tokens)
      BY <1>3, <3>1, <3>2
    <3> QED
      BY <1>4, <2>1, <3>3, StartsAre
  <2>3. CASE k # b
    <3>1. k - 1 \in b .. k - 1
      BY <1>2, <1>4, <2>3
    <3>2. k - 1 \in Ends(tokens)
      BY <1>1, <3>1
    <3> QED
      BY <1>4, <2>1, <3>2, StartsAre
  <2> QED
    BY <2>2, <2>3
<1>6. \A f \in b .. k - 1 : f \notin Starts(tokens)
  BY <1>1, StartsAre
<1> QED
  BY <1>4, <1>5, <1>6 DEF b, k, Heads

\* Behind an instruction a line may have a label.
LEMMA BehindInstruction ==
  ASSUME InSource, NEW h, NEW p, Entered(tokens, h, p),
         IsInstruction(tokens, p, LineEnd(tokens, h)),
         NEW k \in Heads(tokens), k \in Nat, LineEnd(tokens, h) <= k,
         \A f \in LineEnd(tokens, h) .. k - 1 : f \notin Starts(tokens)
  PROVE  AtLine(tokens, k)
<1> DEFINE e == LineEnd(tokens, h)
<1>1. /\ h \in Starts(tokens) /\ h \in Nat /\ e \in Nat /\ h < e /\ FitBefore(tokens, h)
  BY EnteredIs DEF Entered
<1>2. Fits(tokens, h)
  BY EnteredFits
<1>3. \A j \in Heads(tokens) : j \in Nat /\ j <= Len(tokens)
  BY HeadsAre
<1>4. ASSUME NEW j \in Heads(tokens), j < k PROVE j <= h
  <2>1. j \in Starts(tokens) /\ j \in Nat
    <3>1. k <= Len(tokens) /\ Len(tokens) \in Nat /\ j \in Nat
      BY <1>3, Size
    <3> QED
      BY <1>4, <3>1, HeadsAre
  <2>2. ~(h < j)
    <3> SUFFICES ASSUME h < j PROVE FALSE
      OBVIOUS
    <3>1. e < j
      BY <1>1, <1>4, <2>1, StartsApart
    <3>2. j \in e .. k - 1
      BY <1>1, <1>4, <2>1, <3>1
    <3> QED
      BY <2>1, <3>2
  <2> QED
    BY <1>1, <2>1, <2>2
<1>5. FitBefore(tokens, k)
  <2> SUFFICES ASSUME NEW j \in Heads(tokens), j < k PROVE Fits(tokens, j)
    BY DEF FitBefore
  <2>1. j <= h /\ j \in Nat
    BY <1>3, <1>4
  <2>2. j = h \/ j < h
    BY <1>1, <2>1
  <2> QED
    BY <1>1, <1>2, <2>2 DEF FitBefore
<1>6. ASSUME BehindLone(tokens, k) PROVE FALSE
  <2>1. PICK j \in Starts(tokens) :
          j < k /\ Lone(tokens, j) /\ Starts(tokens) \cap (j + 1 .. k - 1) = {}
    BY <1>6 DEF BehindLone
  <2>2. j \in Heads(tokens) /\ j \in Nat /\ j <= h
    BY <1>3, <1>4, <2>1 DEF Heads
  <2>3. h \notin j + 1 .. k - 1
    BY <1>1, <2>1
  <2>4. j = h
    BY <1>1, <2>2, <2>3
  <2>5. Lone(tokens, h) /\ HasLabel(tokens, h)
    BY <2>1, <2>4 DEF Lone
  <2>6. p = h /\ BehindLone(tokens, h)
    BY <2>5 DEF Entered
  <2> QED
    BY <1>2, <2>5, <2>6 DEF Fits
<1> QED
  BY <1>5, <1>6 DEF AtLine

\* Behind a label that has its line for itself.
LEMMA BehindLabel ==
  ASSUME InSource, NEW h \in Starts(tokens), AtLine(tokens, h), Lone(tokens, h),
         NEW k \in Heads(tokens), k \in Nat, h + 2 <= k,
         \A f \in h + 2 .. k - 1 : f \notin Starts(tokens)
  PROVE  FitBefore(tokens, k) /\ BehindLone(tokens, k)
<1>1. h \in Nat /\ h \in 1 .. Len(tokens) /\ h \notin Ends(tokens) /\ Len(tokens) \in Nat
  BY StartsAre, Size
<1>2. h + 1 \in 1 .. Len(tokens)
  <2>1. h # Len(tokens)
    BY <1>1, EndsAre
  <2> QED
    BY <1>1, <2>1
<1>3. h + 1 \notin Starts(tokens)
  <2>1. h + 1 # 1 /\ h + 1 - 1 = h
    BY <1>1
  <2> QED
    BY <1>1, <2>1, StartsAre
<1>4. Starts(tokens) \cap (h + 1 .. k - 1) = {}
  <2> SUFFICES ASSUME NEW f \in Starts(tokens), f \in h + 1 .. k - 1 PROVE FALSE
    OBVIOUS
  <2>1. f # h + 1
    BY <1>3
  <2>2. f \in h + 2 .. k - 1
    BY <1>1, <2>1
  <2> QED
    BY <2>2
<1>5. BehindLone(tokens, k)
  BY <1>1, <1>4 DEF BehindLone
<1>6. Fits(tokens, h)
  BY DEF Fits, AtLine
<1>7. ASSUME NEW j \in Heads(tokens), j < k PROVE Fits(tokens, j)
  <2>1. j \in Nat /\ k <= Len(tokens)
    BY <1>1, StartsAre DEF Heads
  <2>2. j \in Starts(tokens)
    BY <1>1, <1>7, <2>1 DEF Heads
  <2>3. j \notin h + 1 .. k - 1
    BY <1>4, <2>2
  <2>4. j = h \/ j < h
    BY <1>1, <1>7, <2>1, <2>3
  <2> QED
    BY <1>6, <2>4 DEF AtLine, FitBefore
<1> QED
  BY <1>5, <1>7 DEF FitBefore

-----------------------------------------------------------------------------
(* Lines are accepted one by one, up to the first that does not fit *)

LEMMA AheadNext ==
  ASSUME UNCHANGED tokens, NEW c, cur_token' = c
  PROVE  Ahead' = PlaceOf(tokens, SkipNewLines(c))
BY DEF Ahead, SkipNewLines, TypeAt, TokenAt

LEMMA SkipTwice ==
  ASSUME InSource, NEW c \in Cursor
  PROVE  SkipNewLines(SkipNewLines(c)) = SkipNewLines(c)
<1>1. SkipNewLines(c) \in Cursor /\ TypeAt(SkipNewLines(c)) # "NEW_LINE"
  BY SkipFinds, AheadIs
<1> QED
  BY <1>1, SkipNothing

LEMMA LabelThere ==
  ASSUME InSource, NEW c \in Cursor
  PROVE  LET k == PlaceOf(tokens, SkipNewLines(c))
         IN  IsLabel(c) <=> k # Len(tokens) /\ HasLabel(tokens, k)
<1> DEFINE d == SkipNewLines(c)
           k == PlaceOf(tokens, d)
<1>1. d \in Cursor
  BY AheadIs
<1>2. IsLabel(c) <=> TypeAt(d) = "SYMBOL" /\ TypeAt(After(d)) = "COLON"
  BY DEF IsLabel
<1> HIDE DEF d
<1>3. /\ k \in 1 .. Len(tokens) /\ TypeAt(d) = tokens[k].type
      /\ TypeAt(d) # "EOF" => After(d) = k /\ k < Len(tokens)
      /\ TypeAt(d) = "EOF" <=> k = Len(tokens)
  BY <1>1, PlaceIs
<1> HIDE DEF k
<1>4. Len(tokens) \in Nat
  BY Size
<1>5. ASSUME k # Len(tokens) PROVE TypeAt(After(d)) = tokens[k + 1].type
  <2>1. After(d) = k /\ k \in Cursor /\ k < Len(tokens)
    BY <1>3, <1>4, <1>5 DEF Cursor
  <2> QED
    BY <2>1, PlaceIs
<1>6. IsLabel(c) <=> k # Len(tokens) /\ HasLabel(tokens, k)
  BY <1>2, <1>3, <1>5 DEF HasLabel
<1> QED
  BY <1>6 DEF k, d

\* A step that reports nothing.
LEMMA GoesOn ==
  ASSUME IInv, AcceptedSoFar, status = "parsing", UNCHANGED <<tokens, reports, status>>,
         reports = << >> => LinesRead(tokens, at', Ahead', cur_token')
  PROVE  AcceptedSoFar'
BY DEF AcceptedSoFar

\* A step that reports.
LEMMA ReportAccepts ==
  ASSUME IInv, AcceptedSoFar, status = "parsing", UNCHANGED tokens,
         NEW errors \in Seq(Report), errors # << >>, NEW step, Reporting(errors, step),
         status' \in {"parsing", "exited", "null_dereferenced"},
         reports = << >> => Blamed(tokens, errors[1].place)
  PROVE  AcceptedSoFar'
<1>1. reports \in Seq(Report) /\ (exits => reports = << >>)
  BY DEF IInv, TypeOK
<1>2. Len(errors) \in Nat /\ Len(errors) # 0 /\ 1 \in DOMAIN errors
  BY EmptySeq
<1>3. reports' # << >> /\ (reports = << >> => reports'[1] = errors[1])
      /\ (reports # << >> => reports'[1] = reports[1])
  <2>1. CASE exits
    <3>1. reports' = <<errors[1]>> /\ reports = << >>
      BY <1>1, <2>1 DEF Reporting
    <3> QED
      BY <3>1
  <2>2. CASE ~exits
    <3>1. reports' = reports \o errors
      BY <2>2 DEF Reporting
    <3>2. Len(reports') = Len(reports) + Len(errors) /\ Len(reports) \in Nat
      BY <1>1, <3>1
    <3>3. reports = << >> => reports' = errors
      BY <3>1, ConcatEmptySeq
    <3>4. ASSUME reports # << >> PROVE reports'[1] = reports[1]
      <4>1. 1 \in 1 .. Len(reports)
        BY <1>1, <3>4, EmptySeq
      <4> QED
        BY <1>1, <3>1, <4>1
    <3>5. reports' # << >>
      BY <1>2, <3>2
    <3> QED
      BY <3>3, <3>4, <3>5
  <2> QED
    BY <2>1, <2>2
<1>4. Blamed(tokens, reports'[1].place)
  BY <1>3 DEF AcceptedSoFar
<1> QED
  BY <1>3, <1>4 DEF AcceptedSoFar

LEMMA FinishAccepts ==
  ASSUME IInv, status = "parsing", NEW h, NEW p, Entered(tokens, h, p),
         IsInstruction(tokens, p, LineEnd(tokens, h)),
         NEW c \in Cursor,
         c = LineEnd(tokens, h) \/ PlaceOf(tokens, c) = LineEnd(tokens, h),
         NEW node, FinishInstruction(node, c)
  PROVE  LinesRead(tokens, at', Ahead', cur_token')
<1> DEFINE e == LineEnd(tokens, h)
           k == PlaceOf(tokens, SkipNewLines(c))
           last == TypeAt(SkipNewLines(c)) = "EOF"
<1>1. InSource /\ UNCHANGED tokens
  BY DEF IInv, FinishInstruction, input
<1>2. e \in Nat /\ e \in Ends(tokens) /\ e <= Len(tokens) /\ Len(tokens) \in Nat
  BY <1>1, EnteredIs, Size
<1>3. /\ k \in Nat /\ k \in Heads(tokens) /\ (k \in Starts(tokens) \/ k = Len(tokens))
      /\ PlaceOf(tokens, c) <= k
      /\ \A f \in PlaceOf(tokens, c) .. k - 1 : f \notin Starts(tokens)
  BY <1>1, <1>2, NextHead
<1>4. e <= k /\ \A f \in e .. k - 1 : f \notin Starts(tokens)
  <2>1. CASE PlaceOf(tokens, c) = e
    BY <1>3, <2>1
  <2>2. CASE c = e
    <3>1. PlaceOf(tokens, c) = e + 1 \/ (PlaceOf(tokens, c) = Len(tokens) /\ e = Len(tokens))
      BY <1>2, <2>2 DEF PlaceOf
    <3>2. e \notin Starts(tokens)
      BY <1>1, <1>2, StartsAre
    <3> HIDE DEF k, e
    <3> QED
      BY <1>2, <1>3, <3>1, <3>2
  <2> QED
    BY <2>1, <2>2
<1>5. AtLine(tokens, k)
  BY <1>1, <1>3, <1>4, BehindInstruction
<1>6. last <=> k = Len(tokens)
  BY <1>1, AheadIs, PlaceIs
<1>7. IsLabel(c) <=> k # Len(tokens) /\ HasLabel(tokens, k)
  BY <1>1, LabelThere
<1>8. Ahead' = k
  <2>1. CASE cur_token' = c
    BY <1>1, <2>1, AheadNext
  <2>2. CASE ~last /\ cur_token' = PushedBack(c)
    <3>1. cur_token' = SkipNewLines(c)
      BY <1>1, <2>2, PushedBackIs
    <3>2. Ahead' = PlaceOf(tokens, SkipNewLines(SkipNewLines(c)))
      BY <1>1, <3>1, AheadNext
    <3> QED
      BY <1>1, <3>2, SkipTwice
  <2> QED
    BY <2>1, <2>2 DEF FinishInstruction
<1>9. at' = "top" \/ (at' = "instruction" /\ ~last /\ ~IsLabel(c))
  BY DEF FinishInstruction
<1> HIDE DEF k, last
<1>10. CASE at' = "top"
  BY <1>5, <1>8, <1>10 DEF LinesRead
<1>11. CASE at' = "instruction" /\ ~last /\ ~IsLabel(c)
  <2>1. k \in Starts(tokens) /\ ~HasLabel(tokens, k)
    BY <1>3, <1>6, <1>7, <1>11
  <2>2. Entered(tokens, k, k)
    BY <1>5, <2>1 DEF Entered, AtLine
  <2> QED
    BY <1>8, <1>11, <2>1, <2>2 DEF LinesRead
<1> QED
  BY <1>9, <1>10, <1>11

\* An error is reported at the place of its token.
LEMMA ErrorPlace ==
  ASSUME InSource, NEW kind \in ErrorKind, NEW c \in Cursor
  PROVE  /\ <<Error(kind, c)>> \in Seq(Report) /\ <<Error(kind, c)>> # << >>
         /\ Error(kind, c).place = PlaceOf(tokens, c)
<1>1. Error(kind, c) \in Report
  BY ErrorInSource
<1>2. Len(tokens) \in Nat /\ c \in 0 .. Len(tokens)
  BY Size DEF Cursor
<1>3. Min({c + 1, Len(tokens)}) = PlaceOf(tokens, c)
  <2> DEFINE S == {c + 1, Len(tokens)}
             k == PlaceOf(tokens, c)
  <2>1. k \in S /\ \A y \in S : k <= y
    BY <1>2 DEF PlaceOf
  <2>2. S \in SUBSET Nat
    BY <1>2
  <2>3. Min(S) \in S /\ \A y \in S : Min(S) <= y
    <3> HIDE DEF S
    <3> QED
      BY <2>1 DEF Min
  <2> HIDE DEF S, k
  <2>4. Min(S) = k
    <3>1. Min(S) <= k /\ k <= Min(S)
      BY <2>1, <2>3
    <3>2. Min(S) \in Nat /\ k \in Nat
      BY <2>1, <2>2, <2>3
    <3> QED
      BY <3>1, <3>2
  <2> QED
    BY <2>4 DEF S, k
<1> QED
  BY <1>1, <1>3 DEF Error

LEMMA ParseLabelAccepts == IInv /\ AcceptedSoFar /\ ParseLabel => AcceptedSoFar'
<1> SUFFICES ASSUME IInv, AcceptedSoFar, ParseLabel PROVE AcceptedSoFar'
  OBVIOUS
<1> DEFINE d == SkipNewLines(cur_token)
           body == After(After(d))
           h == Ahead
           next == SkipNewLines(body)
           k == PlaceOf(tokens, next)
<1>1. InSource /\ cur_token \in Cursor /\ status = "parsing" /\ at = "top" /\ IsLabel(cur_token)
  BY DEF IInv, TypeOK, Cursor, ParseLabel, Reading
<1>2. h # Len(tokens) /\ HasLabel(tokens, h) /\ h = PlaceOf(tokens, d)
  BY <1>1, LabelThere DEF Ahead
<1>3. d \in Cursor /\ (TypeAt(d) = "EOF" <=> h = Len(tokens)) /\ h \in 1 .. Len(tokens)
      /\ (TypeAt(d) # "EOF" => After(d) = h /\ h < Len(tokens))
  BY <1>1, <1>2, AheadIs, PlaceIs
<1>4. Len(tokens) \in Nat
  BY <1>1, Size
<1> HIDE DEF h
<1>5. body = h + 1 /\ body \in Cursor
  <2>1. After(d) = h /\ h < Len(tokens) /\ body = After(h)
    BY <1>2, <1>3
  <2> QED
    BY <1>3, <1>4, <2>1 DEF After, Cursor
<1> HIDE DEF body
<1>6. tokens[h + 1].type = "COLON" /\ h + 1 \in 1 .. Len(tokens) /\ h + 1 # Len(tokens)
  <2>1. tokens[h + 1].type = "COLON"
    BY <1>2 DEF HasLabel
  <2>2. h + 1 \in 1 .. Len(tokens)
    BY <1>2, <1>3, <1>4
  <2> QED
    BY <1>1, <2>1, <2>2, EndsAre
<1>7. PlaceOf(tokens, body) = h + 2 /\ h + 2 \in 1 .. Len(tokens)
  BY <1>3, <1>4, <1>5, <1>6 DEF PlaceOf
<1>8. /\ next \in Cursor /\ k \in h + 2 .. Len(tokens)
      /\ k \in Ends(tokens) => k = Len(tokens)
      /\ \A f \in h + 2 .. k - 1 : f \in Ends(tokens)
  BY <1>1, <1>5, <1>7, AheadIs
<1>9. TypeAt(next) = tokens[k].type
  BY <1>1, <1>8, PlaceIs
<1> HIDE DEF next, k
\* The next line, or the rest of this one.
<1>10. ASSUME reports = << >>
       PROVE  \/ k = h + 2 /\ Entered(tokens, h, k)
              \/ k \in Heads(tokens) /\ k \in Nat /\ FitBefore(tokens, k) /\ BehindLone(tokens, k)
  <2>1. AtLine(tokens, h)
    BY <1>1, <1>10 DEF AcceptedSoFar, LinesRead, h
  <2>2. h \in Starts(tokens)
    BY <1>2, <2>1 DEF AtLine, Heads
  <2>3. CASE h + 2 \notin Ends(tokens)
    <3>1. k = h + 2
      BY <1>3, <1>4, <1>8, <2>3
    <3>2. ~Lone(tokens, h)
      BY <2>3 DEF Lone
    <3> QED
      BY <1>2, <2>1, <2>2, <3>1, <3>2 DEF Entered, AtLine
  <2>4. CASE h + 2 \in Ends(tokens)
    <3>1. Lone(tokens, h)
      BY <1>2, <2>4 DEF Lone
    <3>2. k \in Nat /\ h + 2 <= k /\ k \in 1 .. Len(tokens)
      BY <1>3, <1>4, <1>8
    <3>3. k \in Heads(tokens)
      <4>1. CASE k = Len(tokens)
        BY <4>1 DEF Heads
      <4>2. CASE k # Len(tokens)
        <5>1. k \notin Ends(tokens)
          BY <1>8, <4>2
        <5>2. k - 1 \in h + 2 .. k - 1
          BY <1>3, <1>4, <2>4, <3>2, <5>1
        <5>3. k - 1 \in Ends(tokens)
          BY <1>8, <5>2
        <5> QED
          BY <1>1, <3>2, <5>1, <5>3, StartsAre DEF Heads
      <4> QED
        BY <4>1, <4>2
    <3>4. \A f \in h + 2 .. k - 1 : f \notin Starts(tokens)
      BY <1>1, <1>8, StartsAre
    <3> QED
      BY <1>1, <2>1, <2>2, <3>1, <3>2, <3>3, <3>4, BehindLabel
  <2> QED
    BY <2>3, <2>4
<1>11. CASE TypeAt(next) = "SYMBOL"
  <2>1. UNCHANGED <<tokens, reports, status>> /\ cur_token' = body /\ at' = "instruction"
    BY <1>11 DEF ParseLabel, input, next, body
  <2>2. Ahead' = k
    BY <2>1, AheadNext DEF k, next
  <2>3. ASSUME reports = << >> PROVE LinesRead(tokens, at', Ahead', cur_token')
    <3>1. \E x \in Starts(tokens) : Entered(tokens, x, k)
      <4>1. CASE Entered(tokens, h, k)
        BY <4>1 DEF Entered
      <4>2. CASE k \in Heads(tokens) /\ FitBefore(tokens, k) /\ BehindLone(tokens, k)
        <5>1. k \in Starts(tokens)
          <6>1. k # Len(tokens)
            BY <1>1, <1>4, <1>8, <1>9, <1>11, EndsAre
          <6> QED
            BY <4>2, <6>1 DEF Heads
        <5> QED
          BY <4>2, <5>1 DEF Entered
      <4> QED
        BY <1>10, <2>3, <4>1, <4>2
    <3> QED
      BY <2>1, <2>2, <3>1 DEF LinesRead
  <2> QED
    BY <1>1, <2>1, <2>3, GoesOn
<1>12. CASE TypeAt(next) # "SYMBOL"
  <2> DEFINE errors == <<Error("unexpected_after_label", next)>>
  <2>1. Reporting(errors, Crash("null_dereferenced"))
    BY <1>12 DEF ParseLabel, next, body
  <2>2. UNCHANGED tokens /\ status' \in {"exited", "null_dereferenced"}
    BY <2>1 DEF Reporting, Crash, input
  <2>3. errors \in Seq(Report) /\ errors # << >> /\ errors[1].place = k
    BY <1>1, <1>8, ErrorPlace DEF ErrorKind, k
  <2>4. ASSUME reports = << >> PROVE Blamed(tokens, k)
    <3>1. CASE Entered(tokens, h, k)
      <4>1. ~IsInstruction(tokens, k, LineEnd(tokens, h))
        BY <1>9, <1>12 DEF IsInstruction
      <4>2. k \in h .. LineEnd(tokens, h)
        BY <1>1, <3>1, EnteredIs
      <4> QED
        BY <1>1, <3>1, <4>1, <4>2, BlameHere
    <3>2. CASE k \in Heads(tokens) /\ k \in Nat /\ FitBefore(tokens, k) /\ BehindLone(tokens, k)
      <4>1. k \in 1 .. Len(tokens)
        BY <1>1, <3>2, HeadsAre
      <4>2. LineEnd(tokens, k) \in Nat /\ k <= LineEnd(tokens, k)
        BY <1>1, <4>1, LineEndIs
      <4>3. ~Fits(tokens, k)
        <5>1. CASE k \notin Starts(tokens) \/ HasLabel(tokens, k)
          BY <3>2, <5>1 DEF Fits
        <5>2. CASE k \in Starts(tokens) /\ ~HasLabel(tokens, k)
          BY <1>9, <1>12, <5>2 DEF Fits, IsInstruction, Lone
        <5> QED
          BY <5>1, <5>2
      <4>4. k \in k .. LineEnd(tokens, k)
        BY <3>2, <4>2
      <4> QED
        BY <3>2, <4>3, <4>4 DEF Blamed
    <3> QED
      BY <1>10, <2>4, <3>1, <3>2
  <2> HIDE DEF errors
  <2> QED
    BY <1>1, <2>1, <2>2, <2>3, <2>4, ReportAccepts
<1> QED
  BY <1>11, <1>12

LEMMA TopLevelAccepts ==
  IInv /\ AcceptedSoFar /\ (TopLevelInstruction \/ UnexpectedAtTopLevel) => AcceptedSoFar'
<1> SUFFICES ASSUME IInv, AcceptedSoFar, TopLevelInstruction \/ UnexpectedAtTopLevel
             PROVE  AcceptedSoFar'
  OBVIOUS
<1> DEFINE d == SkipNewLines(cur_token)
           k == Ahead
<1>1. InSource /\ cur_token \in Cursor /\ status = "parsing" /\ at = "top"
  BY DEF IInv, TypeOK, Cursor, TopLevelInstruction, UnexpectedAtTopLevel, Reading
<1>2. /\ d \in Cursor /\ k \in 1 .. Len(tokens) /\ TypeAt(d) = tokens[k].type
      /\ TypeAt(d) = "EOF" <=> k = Len(tokens)
  BY <1>1, AheadIs, PlaceIs DEF Ahead
<1>3. IsLabel(cur_token) <=> k # Len(tokens) /\ HasLabel(tokens, k)
  BY <1>1, LabelThere DEF Ahead
<1>4. TypeAt(d) # "EOF" /\ ~HasLabel(tokens, k)
  <2>1. CASE TopLevelInstruction
    BY <1>2, <1>3, <2>1 DEF TopLevelInstruction
  <2>2. CASE UnexpectedAtTopLevel
    BY <1>2, <2>2 DEF UnexpectedAtTopLevel, HasLabel
  <2> QED
    BY <2>1, <2>2
<1> HIDE DEF k
<1>5. ASSUME reports = << >> PROVE k \in Starts(tokens) /\ Entered(tokens, k, k)
  <2>1. AtLine(tokens, k)
    BY <1>1, <1>5 DEF AcceptedSoFar, LinesRead, k
  <2>2. k \in Starts(tokens)
    BY <1>2, <1>4, <2>1 DEF AtLine, Heads
  <2> QED
    BY <1>4, <2>1, <2>2 DEF Entered, AtLine
<1>6. CASE TopLevelInstruction
  <2>1. UNCHANGED <<tokens, reports, status>> /\ cur_token' = PushedBack(cur_token)
        /\ at' = "instruction"
    BY <1>6 DEF TopLevelInstruction, input
  <2>2. cur_token' = d
    BY <1>1, <1>4, <2>1, PushedBackIs
  <2>3. Ahead' = k
    BY <1>1, <2>1, <2>2, AheadNext, SkipTwice DEF k, Ahead
  <2>4. reports = << >> => LinesRead(tokens, at', Ahead', cur_token')
    BY <1>5, <2>1, <2>3 DEF LinesRead
  <2> QED
    BY <1>1, <2>1, <2>4, GoesOn
<1>7. CASE UnexpectedAtTopLevel
  <2> DEFINE errors == <<Error("unexpected_at_top_level", d)>>
  <2>1. Reporting(errors, Crash("null_dereferenced")) /\ TypeAt(d) # "SYMBOL"
    BY <1>7 DEF UnexpectedAtTopLevel
  <2>2. UNCHANGED tokens /\ status' \in {"exited", "null_dereferenced"}
    BY <2>1 DEF Reporting, Crash, input
  <2>3. errors \in Seq(Report) /\ errors # << >> /\ errors[1].place = k
    BY <1>1, <1>2, ErrorPlace DEF ErrorKind, k, Ahead
  <2>4. ASSUME reports = << >> PROVE Blamed(tokens, k)
    <3>1. ~IsInstruction(tokens, k, LineEnd(tokens, k))
      BY <1>2, <2>1 DEF IsInstruction
    <3>2. k \in k .. LineEnd(tokens, k)
      BY <1>1, <1>5, <2>4, EnteredIs
    <3> QED
      BY <1>1, <1>5, <2>4, <3>1, <3>2, BlameHere
  <2> HIDE DEF errors
  <2> QED
    BY <1>1, <2>1, <2>2, <2>3, <2>4, ReportAccepts
<1> QED
  BY <1>6, <1>7

LEMMA ParsedAccepts == IInv /\ AcceptedSoFar /\ Parsed => AcceptedSoFar'
<1> SUFFICES ASSUME IInv, AcceptedSoFar, Parsed PROVE AcceptedSoFar'
  OBVIOUS
<1>1. InSource /\ cur_token \in Cursor /\ status = "parsing" /\ at = "top" /\ status' = "parsed"
      /\ UNCHANGED <<tokens, reports>>
  BY DEF IInv, TypeOK, Cursor, Parsed, Reading, input
<1>2. Ahead = Len(tokens)
  BY <1>1, AheadIs, PlaceIs DEF Ahead, Parsed
<1>3. ASSUME reports = << >> PROVE Grammatical(tokens)
  <2>1. AtLine(tokens, Len(tokens))
    BY <1>1, <1>2, <1>3 DEF AcceptedSoFar, LinesRead
  <2>2. Fits(tokens, Len(tokens))
    <3>1. Len(tokens) \notin Starts(tokens)
      BY <1>1, EndsAre, StartsAre
    <3> QED
      BY <2>1, <3>1 DEF Fits, AtLine
  <2>3. ASSUME NEW k \in Heads(tokens) PROVE Fits(tokens, k)
    <3>1. k = Len(tokens) \/ k < Len(tokens)
      BY <1>1, HeadsAre, Size
    <3> QED
      BY <2>1, <2>2, <3>1 DEF AtLine, FitBefore
  <2> QED
    BY <2>3 DEF Grammatical
<1> QED
  BY <1>1, <1>3 DEF AcceptedSoFar

LEMMA ParseInstructionAccepts ==
  IInv /\ AcceptedSoFar /\ (ParseInstruction \/ AssertionFails) => AcceptedSoFar'
<1> SUFFICES ASSUME IInv, AcceptedSoFar, ParseInstruction \/ AssertionFails PROVE AcceptedSoFar'
  OBVIOUS
<1> DEFINE d == SkipNewLines(cur_token)
           p == Ahead
<1>1. InSource /\ cur_token \in Cursor /\ status = "parsing" /\ at = "instruction"
      /\ UNCHANGED <<tokens, reports>>
  BY DEF IInv, TypeOK, Cursor, ParseInstruction, AssertionFails, Reading, input,
         FinishInstruction, Crash
<1>2. /\ d \in Cursor /\ p \in 1 .. Len(tokens) /\ TypeAt(d) = tokens[p].type
      /\ TypeAt(d) # "EOF" => After(d) = p /\ p < Len(tokens)
  BY <1>1, AheadIs, PlaceIs DEF Ahead
<1> HIDE DEF p, d
<1>3. CASE AssertionFails
  <2>1. TypeAt(d) # "SYMBOL" /\ status' = "assertion"
    BY <1>3 DEF AssertionFails, Crash, d
  <2>2. ~Grammatical(tokens)
    <3>1. CASE reports = << >>
      <4>1. PICK h \in Starts(tokens) : Entered(tokens, h, p)
        BY <1>1, <3>1 DEF AcceptedSoFar, LinesRead, p
      <4>2. ~IsInstruction(tokens, p, LineEnd(tokens, h))
        BY <1>2, <2>1 DEF IsInstruction
      <4>3. h \in h .. LineEnd(tokens, h)
        BY <1>1, <4>1, EnteredIs
      <4> QED
        BY <1>1, <4>1, <4>2, <4>3, BlameHere, BlamedNot
    <3>2. CASE reports # << >>
      BY <3>2, BlamedNot DEF AcceptedSoFar
    <3> QED
      BY <3>1, <3>2
  <2> QED
    BY <1>1, <2>1, <2>2 DEF AcceptedSoFar
<1>4. CASE ParseInstruction
  <2>1. TypeAt(d) = "SYMBOL" /\ tokens[p].type = "SYMBOL" /\ After(d) = p /\ p \in Cursor
        /\ p < Len(tokens) /\ PlaceOf(tokens, p) = p + 1 /\ p \in Nat
    <3>1. TypeAt(d) = "SYMBOL" /\ tokens[p].type = "SYMBOL" /\ After(d) = p /\ p < Len(tokens)
      BY <1>2, <1>4 DEF ParseInstruction, d
    <3> QED
      BY <1>1, <1>2, <3>1, Size DEF Cursor, PlaceOf
  <2>2. EndOfLine(p) <=> p + 1 \in Ends(tokens)
    BY <1>1, <2>1, PlaceIs
  <2>3. ASSUME reports = << >> PROVE LinesRead(tokens, at', Ahead', cur_token')
    <3>1. PICK h \in Starts(tokens) : Entered(tokens, h, p)
      BY <1>1, <2>3 DEF AcceptedSoFar, LinesRead, p
    <3> DEFINE e == LineEnd(tokens, h)
    <3>2. /\ h \in 1 .. Len(tokens) /\ h \in Nat /\ e \in Nat /\ e \in Ends(tokens)
          /\ h <= p /\ p < e /\ e <= Len(tokens)
          /\ \A f \in h .. e - 1 : f \notin Ends(tokens)
      BY <1>1, <3>1, EnteredIs
    <3> HIDE DEF e
    <3>3. p + 1 \in Ends(tokens) <=> p + 1 = e
      BY <2>1, <3>2
    <3>4. CASE EndOfLine(p)
      <4> DEFINE node == [opcode |-> TokenAt(d).value, operands |-> << >>]
      <4>1. FinishInstruction(node, p)
        BY <1>4, <2>1, <3>4 DEF ParseInstruction, d
      <4>2. IsInstruction(tokens, p, e)
        BY <2>1, <2>2, <3>2, <3>3, <3>4 DEF IsInstruction
      <4> HIDE DEF node
      <4> QED
        BY <1>1, <2>1, <2>2, <3>1, <3>3, <3>4, <4>1, <4>2, FinishAccepts DEF e
    <3>5. CASE ~EndOfLine(p)
      <4>1. cur_token' = p /\ at' = "operand"
        BY <1>4, <2>1, <3>5 DEF ParseInstruction, d
      <4>2. p + 1 < e
        BY <2>1, <2>2, <3>2, <3>3, <3>5
      <4>3. OperandsBetweenCuts(tokens, p, p)
        <5>1. Cuts(tokens, p, p) = {p}
          BY <2>1 DEF Cuts
        <5> QED
          BY <2>1, <5>1 DEF OperandsBetweenCuts
      <4>4. OperandsTo(tokens, h, p, p)
        BY <2>1, <3>1, <3>2, <4>2, <4>3 DEF OperandsTo, e
      <4>5. h \in DOMAIN tokens /\ p \in DOMAIN tokens
        BY <1>1, <1>2, <3>2, Size
      <4> QED
        BY <4>1, <4>4, <4>5 DEF LinesRead
    <3> QED
      BY <3>4, <3>5
  <2>4. UNCHANGED status
    BY <1>4 DEF ParseInstruction, FinishInstruction
  <2> QED
    BY <1>1, <2>3, <2>4, GoesOn
<1> QED
  BY <1>3, <1>4

LEMMA OperandPlaces ==
  ASSUME InSource, NEW h, NEW p, NEW c, OperandsTo(tokens, h, p, c), c \in Cursor
  PROVE  LET e == LineEnd(tokens, h)
         IN  /\ Entered(tokens, h, p) /\ h \in Nat /\ p \in Nat /\ c \in Nat /\ e \in Nat
             /\ Len(tokens) \in Nat /\ h <= p /\ p <= c /\ c < e /\ e <= Len(tokens) /\ p + 1 < e
             /\ PlaceOf(tokens, c) = c + 1 /\ c + 1 \in 1 .. Len(tokens) /\ e \in Ends(tokens)
             /\ tokens[e].type \in {"NEW_LINE", "EOF"}
<1> DEFINE e == LineEnd(tokens, h)
<1>1. Entered(tokens, h, p) /\ p <= c /\ c < e /\ p + 1 < e
  BY DEF OperandsTo
<1>2. h \in Nat /\ p \in Nat /\ e \in Nat /\ e \in Ends(tokens) /\ h <= p /\ e <= Len(tokens)
  BY <1>1, EnteredIs
<1>3. c \in Nat /\ Len(tokens) \in Nat
  BY Size DEF Cursor
<1>4. tokens[e].type \in {"NEW_LINE", "EOF"}
  BY <1>2, EndsAre
<1> HIDE DEF e
<1>5. PlaceOf(tokens, c) = c + 1 /\ c + 1 \in 1 .. Len(tokens)
  BY <1>1, <1>2, <1>3 DEF PlaceOf
<1> QED
  BY <1>1, <1>2, <1>3, <1>4, <1>5 DEF e

\* What can be no operand makes the line one that does not fit.
LEMMA OperandRefuted ==
  ASSUME InSource, NEW h, NEW p, NEW c \in Cursor, OperandsTo(tokens, h, p, c),
         \A f \in c + 1 .. LineEnd(tokens, h) :
           f = LineEnd(tokens, h) \/ tokens[f].type = "COMMA" => ~IsOperand(tokens, c + 1, f - 1),
         NEW place \in c .. LineEnd(tokens, h)
  PROVE  Blamed(tokens, place)
<1> DEFINE e == LineEnd(tokens, h)
<1>1. /\ Entered(tokens, h, p) /\ h \in Nat /\ p \in Nat /\ c \in Nat /\ e \in Nat
      /\ h <= p /\ p <= c /\ c < e /\ p + 1 < e
  BY OperandPlaces
<1>2. c = p \/ tokens[c].type = "COMMA"
  BY DEF OperandsTo
<1>3. ~IsInstruction(tokens, p, e)
  <2> SUFFICES ASSUME IsInstruction(tokens, p, e) PROVE FALSE
    OBVIOUS
  <2> HIDE DEF e
  <2>1. \E f \in c + 1 .. e : (f = e \/ tokens[f].type = "COMMA") /\ IsOperand(tokens, c + 1, f - 1)
    BY <1>1, <1>2, OperandBehind
  <2> QED
    BY <2>1 DEF e
<1>4. place \in h .. e
  BY <1>1
<1> QED
  BY <1>1, <1>3, <1>4, BlameHere

LEMMA OperandTaken ==
  ASSUME InSource, NEW h, NEW p, NEW c \in Cursor, OperandsTo(tokens, h, p, c),
         NEW d \in Nat, IsOperand(tokens, c + 1, d),
         \A m \in d + 1 .. LineEnd(tokens, h) - 1 : ~IsOperand(tokens, c + 1, m)
  PROVE  OperandAt(tokens, h, c, d)
<1> DEFINE e == LineEnd(tokens, h)
<1>1. c \in Nat /\ e \in Nat /\ c < e /\ tokens[e].type \in {"NEW_LINE", "EOF"}
  BY OperandPlaces
<1> HIDE DEF e
<1>2. c < d
  BY <1>1 DEF IsOperand
<1>3. d < e
  <2>1. \A k \in c + 1 .. d : tokens[k].type \notin {"NEW_LINE", "EOF"}
    BY <1>1 DEF IsOperand
  <2>2. e \notin c + 1 .. d
    BY <1>1, <2>1
  <2> QED
    BY <1>1, <2>2
<1>4. Types(tokens, c + 1, d) \in OperandTypes
  BY <1>1, <1>2, OperandIs
<1>5. ASSUME NEW m \in d + 1 .. e - 1 PROVE Types(tokens, c + 1, m) \notin OperandTypes
  <2>1. m \in Nat /\ c + 1 \in Nat /\ c + 1 <= m + 1
    BY <1>1, <1>2
  <2>2. ~IsOperand(tokens, c + 1, m)
    BY <1>5 DEF e
  <2> QED
    BY <2>1, <2>2, OperandIs
<1> QED
  BY <1>2, <1>3, <1>4, <1>5 DEF OperandAt, e

\* The token at a cursor and the one behind it.
LEMMA TwoAhead ==
  ASSUME InSource, NEW c \in Cursor, c < Len(tokens)
  PROVE  /\ TypeAt(c) = tokens[c + 1].type /\ PlaceOf(tokens, c) = c + 1
         /\ TypeAt(c) # "EOF" =>
              /\ After(c) = c + 1 /\ c + 1 \in Cursor /\ c + 1 < Len(tokens)
              /\ TypeAt(After(c)) = tokens[c + 2].type /\ PlaceOf(tokens, After(c)) = c + 2
         /\ TypeAt(c) = "EOF" => TypeAt(After(c)) = "EOF"
<1>1. c \in Nat /\ Len(tokens) \in Nat
  BY Size DEF Cursor
<1>2. TypeAt(c) = tokens[c + 1].type /\ PlaceOf(tokens, c) = c + 1
      /\ (TypeAt(c) = "EOF" <=> c + 1 = Len(tokens))
      /\ (TypeAt(c) # "EOF" => After(c) = c + 1 /\ c + 1 < Len(tokens))
  BY PlaceIs
<1>3. ASSUME TypeAt(c) # "EOF" PROVE /\ c + 1 \in Cursor
                                     /\ TypeAt(c + 1) = tokens[c + 2].type
                                     /\ PlaceOf(tokens, c + 1) = c + 2
  <2>1. c + 1 \in Cursor /\ c + 1 < Len(tokens) /\ c + 1 + 1 = c + 2
    BY <1>1, <1>2, <1>3 DEF Cursor
  <2> QED
    BY <2>1, PlaceIs
<1>4. ASSUME TypeAt(c) = "EOF" PROVE TypeAt(After(c)) = "EOF"
  <2>1. After(c) = Len(tokens) /\ Len(tokens) \in Cursor /\ PlaceOf(tokens, Len(tokens)) = Len(tokens)
    BY <1>1, <1>2, <1>4 DEF After, Cursor, PlaceOf
  <2> QED
    BY <2>1, PlaceIs
<1> QED
  BY <1>2, <1>3, <1>4

\* What an operand is, or what is reported instead.
LEMMA TakeAccepts ==
  ASSUME IInv, AcceptedSoFar, status = "parsing", NEW node, NEW d, NEW errors \in Seq(Report),
         TakeOperand(node, d, errors),
         ASSUME reports = << >>, NEW h \in DOMAIN tokens, NEW p \in DOMAIN tokens,
                OperandsTo(tokens, h, p, cur_token)
         PROVE  IF errors = << >> THEN OperandAt(tokens, h, cur_token, d)
                ELSE Blamed(tokens, errors[1].place),
         at = "operand"
  PROVE  AcceptedSoFar'
<1>1. UNCHANGED tokens /\ status' \in {"parsing", "exited"}
  BY DEF TakeOperand, Reporting, input
<1>2. reports = << >> =>
        \E h, p \in DOMAIN tokens : OperandsTo(tokens, h, p, cur_token)
  BY DEF AcceptedSoFar, LinesRead
<1>3. CASE errors # << >>
  <2> DEFINE step == /\ operands' = Append(operands, node) /\ cur_token' = d /\ at' = "separator"
                     /\ UNCHANGED <<input, label, opcode, instructions, labels, status>>
  <2>1. Reporting(errors, step)
    BY DEF TakeOperand
  <2>2. reports = << >> => Blamed(tokens, errors[1].place)
    BY <1>2, <1>3
  <2> HIDE DEF step
  <2> QED
    BY <1>1, <1>3, <2>1, <2>2, ReportAccepts
<1>4. CASE errors = << >>
  <2>1. reports' = reports \o << >> /\ cur_token' = d /\ at' = "separator" /\ UNCHANGED status
    BY <1>4 DEF TakeOperand, Reporting
  <2>2. reports' = reports
    BY <2>1, ConcatEmptySeq DEF IInv, TypeOK
  <2>3. reports = << >> => LinesRead(tokens, at', Ahead', cur_token')
    <3> SUFFICES ASSUME reports = << >>
                 PROVE  \E h, p, b \in DOMAIN tokens :
                          OperandsTo(tokens, h, p, b) /\ OperandAt(tokens, h, b, d)
      BY <2>1 DEF LinesRead
    <3>1. PICK h \in DOMAIN tokens, p \in DOMAIN tokens : OperandsTo(tokens, h, p, cur_token)
      BY <1>2
    <3>2. OperandAt(tokens, h, cur_token, d)
      BY <1>4, <3>1
    <3>3. cur_token \in DOMAIN tokens
      <4>1. InSource /\ cur_token \in Cursor
        BY DEF IInv, TypeOK, Cursor
      <4>2. p <= cur_token /\ cur_token \in Nat /\ cur_token < Len(tokens) /\ Len(tokens) \in Nat
        <5>1. LineEnd(tokens, h) <= Len(tokens) /\ LineEnd(tokens, h) \in Nat
              /\ cur_token < LineEnd(tokens, h) /\ Len(tokens) \in Nat
              /\ p <= cur_token /\ cur_token \in Nat
          BY <3>1, <4>1, OperandPlaces
        <5> QED
          BY <5>1
      <4>3. DOMAIN tokens = 1 .. Len(tokens)
        BY <4>1, Size
      <4> QED
        BY <4>2, <4>3
    <3> QED
      BY <3>1, <3>2, <3>3
  <2> QED
    BY <1>1, <2>1, <2>2, <2>3, GoesOn
<1> QED
  BY <1>3, <1>4

LEMMA ParseSimpleAccepts == IInv /\ AcceptedSoFar /\ ParseSimple => AcceptedSoFar'
<1> SUFFICES ASSUME IInv, AcceptedSoFar, ParseSimple PROVE AcceptedSoFar'
  OBVIOUS
<1> DEFINE c == cur_token
           node == [type |-> "SIMPLE", token |-> TokenAt(c)]
           error == <<Error("unexpected_as_operand", c)>>
<1>1. InSource /\ c \in Cursor /\ status = "parsing" /\ at = "operand"
      /\ TypeAt(c) # "BRACKET_OPEN" /\ TypeAt(After(c)) # "BRACKET_OPEN"
  BY DEF IInv, TypeOK, Cursor, ParseSimple, Reading, InBrackets
<1>2. /\ error \in Seq(Report) /\ error # << >> /\ error[1].place = PlaceOf(tokens, c)
  BY <1>1, ErrorPlace DEF ErrorKind
<1> HIDE DEF error
<1>3. CASE TypeAt(c) \in {"SYMBOL", "STRING", "INT"}
  <2>1. TakeOperand(node, After(c), << >>)
    BY <1>3 DEF ParseSimple
  <2>2. ASSUME NEW h, NEW p, OperandsTo(tokens, h, p, c)
        PROVE  OperandAt(tokens, h, c, After(c))
    <3> DEFINE e == LineEnd(tokens, h)
    <3>1. c \in Nat /\ e \in Nat /\ Len(tokens) \in Nat /\ c < e /\ e <= Len(tokens)
      BY <1>1, <2>2, OperandPlaces
    <3>2. /\ tokens[c + 1].type = TypeAt(c) /\ After(c) = c + 1 /\ c + 1 < Len(tokens)
          /\ tokens[c + 2].type # "BRACKET_OPEN"
      BY <1>1, <1>3, <3>1, TwoAhead
    <3>3. IsOperand(tokens, c + 1, c + 1)
      BY <1>3, <3>2 DEF IsOperand
    <3> HIDE DEF e
    <3>4. ASSUME NEW m \in c + 1 + 1 .. e - 1 PROVE ~IsOperand(tokens, c + 1, m)
      <4>1. m # c + 1 /\ c + 1 + 1 = c + 2
        BY <3>1
      <4> QED
        BY <1>3, <3>2, <4>1 DEF IsOperand
    <3> QED
      BY <1>1, <2>2, <3>1, <3>2, <3>3, <3>4, OperandTaken DEF e
  <2>3. << >> \in Seq(Report)
    OBVIOUS
  <2> HIDE DEF node, c
  <2> QED
    BY <1>1, <2>1, <2>2, <2>3, TakeAccepts DEF c
<1>4. CASE TypeAt(c) \notin {"SYMBOL", "STRING", "INT"}
  <2>1. TakeOperand(NULL, After(c), error)
    BY <1>4 DEF ParseSimple, error
  <2>2. ASSUME NEW h, NEW p, OperandsTo(tokens, h, p, c)
        PROVE  Blamed(tokens, error[1].place)
    <3> DEFINE e == LineEnd(tokens, h)
    <3>1. c \in Nat /\ e \in Nat /\ Len(tokens) \in Nat /\ c < e /\ e <= Len(tokens)
      BY <1>1, <2>2, OperandPlaces
    <3>2. tokens[c + 1].type = TypeAt(c) /\ error[1].place = c + 1
      BY <1>1, <1>2, <3>1, TwoAhead
    <3>3. \A f : ~IsOperand(tokens, c + 1, f)
      BY <1>1, <1>4, <3>2 DEF IsOperand
    <3>4. c + 1 \in c .. e
      BY <3>1
    <3> QED
      BY <1>1, <2>2, <3>2, <3>3, <3>4, OperandRefuted
  <2> HIDE DEF c
  <2> QED
    BY <1>1, <1>2, <2>1, <2>2, TakeAccepts DEF c
<1> QED
  BY <1>3, <1>4

\* What stands between brackets, from the place where the register is expected.
LEMMA BracketsAre ==
  ASSUME InSource, NEW h, NEW p, NEW c \in Cursor, OperandsTo(tokens, h, p, c),
         TypeAt(c) = "BRACKET_OPEN" \/ (TypeAt(c) = "INT" /\ TypeAt(After(c)) = "BRACKET_OPEN"),
         NEW r, r = IF TypeAt(c) # "BRACKET_OPEN" THEN After(After(c)) ELSE After(c)
  PROVE  LET e == LineEnd(tokens, h)
         IN  /\ r \in Nat /\ r \in Cursor /\ c < r /\ r < e /\ TypeAt(r) = tokens[r + 1].type
             /\ PlaceOf(tokens, r) = r + 1
             /\ IF TypeAt(r) # "SYMBOL"
                THEN \A f \in c + 1 .. e : (f = e \/ tokens[f].type = "COMMA") => ~IsOperand(tokens, c + 1, f - 1)
                ELSE /\ PlaceOf(tokens, After(r)) = r + 2 /\ r + 1 < e
                     /\ IF TypeAt(After(r)) # "BRACKET_CLOSE"
                        THEN \A f \in c + 1 .. e : (f = e \/ tokens[f].type = "COMMA") =>
                               ~IsOperand(tokens, c + 1, f - 1)
                        ELSE /\ IsOperand(tokens, c + 1, r + 2) /\ After(After(r)) = r + 2
                             /\ \A m \in r + 3 .. e - 1 : ~IsOperand(tokens, c + 1, m)
<1> DEFINE e == LineEnd(tokens, h)
<1>1. /\ c \in Nat /\ e \in Nat /\ Len(tokens) \in Nat /\ c < e /\ e <= Len(tokens)
      /\ tokens[e].type \in {"NEW_LINE", "EOF"}
  BY OperandPlaces
<1> HIDE DEF e
<1>2. tokens[c + 1].type = TypeAt(c) /\ After(c) = c + 1 /\ c + 1 < Len(tokens) /\ c + 1 \in Cursor
      /\ TypeAt(After(c)) = tokens[c + 2].type
  BY <1>1, TwoAhead
<1>3. CASE TypeAt(c) = "BRACKET_OPEN"
  <2>1. r = c + 1 /\ TypeAt(r) = tokens[r + 1].type /\ PlaceOf(tokens, r) = r + 1
        /\ r \in Nat /\ r \in Cursor /\ c < r /\ r < e
    <3>1. e # c + 1
      BY <1>1, <1>2, <1>3
    <3>2. r = c + 1 /\ c + 1 + 1 = c + 2
      BY <1>1, <1>2, <1>3
    <3>3. r \in Nat /\ c < r /\ r < e
      BY <1>1, <3>1, <3>2
    <3> QED
      BY <1>2, <3>2, <3>3, TwoAhead
  <2>2. CASE TypeAt(r) # "SYMBOL"
    <3>1. \A f : ~IsOperand(tokens, c + 1, f)
      BY <1>1, <1>2, <1>3, <2>1, <2>2 DEF IsOperand
    <3> QED
      BY <2>1, <2>2, <3>1 DEF e
  <2>3. CASE TypeAt(r) = "SYMBOL"
    <3>1. /\ PlaceOf(tokens, After(r)) = r + 2 /\ r + 1 < Len(tokens) /\ After(r) = r + 1
          /\ TypeAt(After(r)) = tokens[r + 2].type /\ r + 1 \in Cursor
      BY <1>1, <1>2, <2>1, <2>3, TwoAhead
    <3>2. r + 1 < e
      <4>1. e # r + 1
        BY <1>1, <2>1, <2>3
      <4> QED
        BY <1>1, <2>1, <4>1
    <3>3. CASE TypeAt(After(r)) # "BRACKET_CLOSE"
      <4>1. \A f : ~IsOperand(tokens, c + 1, f)
        BY <1>1, <1>2, <1>3, <2>1, <3>1, <3>3 DEF IsOperand
      <4> QED
        BY <2>1, <2>3, <3>1, <3>2, <3>3, <4>1 DEF e
    <3>4. CASE TypeAt(After(r)) = "BRACKET_CLOSE"
      <4>1. IsOperand(tokens, c + 1, r + 2)
        BY <1>1, <1>2, <1>3, <2>1, <2>3, <3>1, <3>4 DEF IsOperand
      <4>2. \A m \in r + 3 .. e - 1 : ~IsOperand(tokens, c + 1, m)
        BY <1>1, <1>2, <1>3, <2>1 DEF IsOperand
      <4>3. After(After(r)) = r + 2
        <5>1. After(r + 1) = r + 1 + 1
          BY <1>1, <3>1, <3>4, TwoAhead
        <5> QED
          BY <2>1, <3>1, <5>1
      <4> QED
        BY <2>1, <2>3, <3>1, <3>2, <3>4, <4>1, <4>2, <4>3 DEF e
    <3> QED
      BY <3>3, <3>4
  <2> QED
    BY <2>2, <2>3
<1>4. CASE TypeAt(c) = "INT" /\ TypeAt(After(c)) = "BRACKET_OPEN"
  <2>0. /\ TypeAt(c + 1) = tokens[c + 2].type /\ After(c + 1) = c + 2 /\ c + 2 < Len(tokens)
        /\ c + 2 \in Cursor
    <3>1. TypeAt(c + 1) = "BRACKET_OPEN" /\ c + 1 + 1 = c + 2
      BY <1>1, <1>2, <1>4
    <3> QED
      BY <1>2, <3>1, TwoAhead
  <2>1. r = c + 2 /\ TypeAt(r) = tokens[r + 1].type /\ PlaceOf(tokens, r) = r + 1
        /\ r \in Nat /\ r \in Cursor /\ c < r /\ r < e
    <3>1. e # c + 1 /\ e # c + 2
      BY <1>1, <1>2, <1>4
    <3>2. r = c + 2
      BY <1>2, <1>4, <2>0
    <3>3. r \in Nat /\ c < r /\ r < e
      BY <1>1, <3>1, <3>2
    <3> QED
      BY <2>0, <3>2, <3>3, TwoAhead
  <2>2. CASE TypeAt(r) # "SYMBOL"
    <3>1. \A f \in c + 1 .. e : (f = e \/ tokens[f].type = "COMMA") => ~IsOperand(tokens, c + 1, f - 1)
      <4> SUFFICES ASSUME NEW f \in c + 1 .. e, f = e \/ tokens[f].type = "COMMA",
                          IsOperand(tokens, c + 1, f - 1)
                   PROVE  FALSE
        OBVIOUS
      <4>1. f # c + 2
        BY <1>1, <1>2, <1>4
      <4>2. f - 1 # c + 1
        BY <1>1, <4>1
      <4>3. tokens[c + 1 + 2].type # "SYMBOL"
        BY <1>1, <2>1, <2>2
      <4> QED
        BY <1>1, <1>2, <1>4, <4>2, <4>3 DEF IsOperand
    <3> QED
      BY <2>1, <2>2, <3>1 DEF e
  <2>3. CASE TypeAt(r) = "SYMBOL"
    <3>1. /\ PlaceOf(tokens, After(r)) = r + 2 /\ r + 1 < Len(tokens) /\ After(r) = r + 1
          /\ TypeAt(After(r)) = tokens[r + 2].type /\ r + 1 \in Cursor
      BY <2>0, <2>1, <2>3, TwoAhead
    <3>2. r + 1 < e
      <4>1. e # r + 1
        BY <1>1, <2>1, <2>3
      <4> QED
        BY <1>1, <2>1, <4>1
    <3>3. CASE TypeAt(After(r)) # "BRACKET_CLOSE"
      <4>1. \A f \in c + 1 .. e : (f = e \/ tokens[f].type = "COMMA") => ~IsOperand(tokens, c + 1, f - 1)
        <5> SUFFICES ASSUME NEW f \in c + 1 .. e, f = e \/ tokens[f].type = "COMMA",
                            IsOperand(tokens, c + 1, f - 1)
                     PROVE  FALSE
          OBVIOUS
        <5>1. f # c + 2
          BY <1>1, <1>2, <1>4
        <5>2. f - 1 # c + 1
          BY <1>1, <5>1
        <5> QED
          BY <1>1, <1>2, <1>4, <2>1, <3>1, <3>3, <5>2 DEF IsOperand
      <4> QED
        BY <2>1, <2>3, <3>1, <3>2, <3>3, <4>1 DEF e
    <3>4. CASE TypeAt(After(r)) = "BRACKET_CLOSE"
      <4>1. IsOperand(tokens, c + 1, r + 2)
        <5>1. r + 2 = c + 1 + 3 /\ c + 1 + 1 = c + 2 /\ c + 1 + 2 = r + 1 /\ c + 1 + 3 = r + 2
          BY <1>1, <2>1
        <5>2. /\ tokens[c + 1].type = "INT" /\ tokens[c + 2].type = "BRACKET_OPEN"
              /\ tokens[r + 1].type = "SYMBOL" /\ tokens[r + 2].type = "BRACKET_CLOSE"
          BY <1>2, <1>4, <2>1, <2>3, <3>1, <3>4
        <5> QED
          BY <5>1, <5>2 DEF IsOperand
      <4>2. \A m \in r + 3 .. e - 1 : ~IsOperand(tokens, c + 1, m)
        BY <1>1, <1>2, <1>4, <2>1 DEF IsOperand
      <4>3. After(After(r)) = r + 2
        <5>1. After(r + 1) = r + 1 + 1
          BY <3>1, <3>4, TwoAhead
        <5> QED
          BY <2>1, <3>1, <5>1
      <4> QED
        BY <2>1, <2>3, <3>1, <3>2, <3>4, <4>1, <4>2, <4>3 DEF e
    <3> QED
      BY <3>3, <3>4
  <2> QED
    BY <2>2, <2>3
<1> QED
  BY <1>3, <1>4

LEMMA ParseMemAddressAccepts == IInv /\ AcceptedSoFar /\ ParseMemAddress => AcceptedSoFar'
<1> SUFFICES ASSUME IInv, AcceptedSoFar, ParseMemAddress PROVE AcceptedSoFar'
  OBVIOUS
<1> DEFINE c == cur_token
           r == IF HasOffset THEN After(After(c)) ELSE After(c)
           node == [type |-> "MEM_ADDRESS", register |-> TokenAt(r).value,
                    offset |-> IF HasOffset THEN TokenAt(c).value ELSE NULL]
           noRegister == If(TypeAt(r) # "SYMBOL", "expected", r)
           notClosed == If(TypeAt(After(r)) # "BRACKET_CLOSE", "expected", After(r))
<1>1. InSource /\ c \in Cursor /\ status = "parsing" /\ at = "operand"
      /\ (TypeAt(c) = "BRACKET_OPEN" \/ TypeAt(After(c)) = "BRACKET_OPEN")
      /\ (HasOffset <=> TypeAt(c) # "BRACKET_OPEN")
  BY DEF IInv, TypeOK, Cursor, ParseMemAddress, Reading, InBrackets, HasOffset
<1>2. CASE HasOffset /\ TypeAt(c) # "INT"
  <2> DEFINE error == <<Error("invalid_offset", c)>>
  <2>1. TakeOperand(NULL, After(c), error)
    BY <1>2 DEF ParseMemAddress
  <2>2. error \in Seq(Report) /\ error # << >> /\ error[1].place = PlaceOf(tokens, c)
    BY <1>1, ErrorPlace DEF ErrorKind
  <2> HIDE DEF error
  <2>3. ASSUME NEW h, NEW p, OperandsTo(tokens, h, p, c)
        PROVE  Blamed(tokens, error[1].place)
    <3> DEFINE e == LineEnd(tokens, h)
    <3>1. c \in Nat /\ e \in Nat /\ Len(tokens) \in Nat /\ c < e /\ e <= Len(tokens)
          /\ tokens[e].type \in {"NEW_LINE", "EOF"}
      BY <1>1, <2>3, OperandPlaces
    <3>2. TypeAt(c) # "EOF"
      BY <1>1, <1>2, <3>1, TwoAhead
    <3>3. /\ tokens[c + 1].type = TypeAt(c) /\ error[1].place = c + 1
          /\ tokens[c + 2].type = "BRACKET_OPEN"
      BY <1>1, <1>2, <2>2, <3>1, <3>2, TwoAhead
    <3> HIDE DEF e
    <3>4. \A f \in c + 1 .. e : (f = e \/ tokens[f].type = "COMMA") => ~IsOperand(tokens, c + 1, f - 1)
      <4> SUFFICES ASSUME NEW f \in c + 1 .. e, f = e \/ tokens[f].type = "COMMA",
                          IsOperand(tokens, c + 1, f - 1)
                   PROVE  FALSE
        OBVIOUS
      <4>1. f # c + 2
        BY <3>1, <3>3
      <4>2. f - 1 # c + 1
        BY <3>1, <4>1
      <4> QED
        BY <1>1, <1>2, <3>1, <3>3, <4>2 DEF IsOperand
    <3>5. c + 1 \in c .. e
      BY <3>1
    <3> QED
      BY <1>1, <2>3, <3>3, <3>4, <3>5, OperandRefuted DEF e
  <2> HIDE DEF c
  <2> QED
    BY <1>1, <2>1, <2>2, <2>3, TakeAccepts DEF c
<1>3. CASE ~(HasOffset /\ TypeAt(c) # "INT")
  <2>1. TakeOperand(node, After(After(r)), noRegister \o notClosed)
    BY <1>3 DEF ParseMemAddress
  <2>2. /\ TypeAt(c) = "BRACKET_OPEN" \/ (TypeAt(c) = "INT" /\ TypeAt(After(c)) = "BRACKET_OPEN")
        /\ r = IF TypeAt(c) # "BRACKET_OPEN" THEN After(After(c)) ELSE After(c)
    BY <1>1, <1>3
  <2> HIDE DEF node, r
  <2>3. r \in Cursor /\ After(r) \in Cursor
    <3>1. After(c) \in Cursor
      BY <1>1, TokenShape
    <3>2. r \in Cursor
      BY <1>1, <2>2, <3>1, TokenShape
    <3> QED
      BY <1>1, <3>2, TokenShape
  <2>4. "expected" \in ErrorKind
    BY DEF ErrorKind
  <2>5. noRegister = IF TypeAt(r) # "SYMBOL" THEN <<Error("expected", r)>> ELSE << >>
    BY DEF If
  <2>6. notClosed = IF TypeAt(After(r)) # "BRACKET_CLOSE" THEN <<Error("expected", After(r))>>
                    ELSE << >>
    BY DEF If
  <2>7. noRegister \in Seq(Report) /\ notClosed \in Seq(Report)
    BY <1>1, <2>3, <2>4, IfReports
  <2> DEFINE e1 == Error("expected", r)
             e2 == Error("expected", After(r))
  <2>8. e1.place = PlaceOf(tokens, r) /\ e2.place = PlaceOf(tokens, After(r))
    BY <1>1, <2>3, <2>4, ErrorPlace
  <2> HIDE DEF e1, e2
  <2>9. noRegister = (IF TypeAt(r) # "SYMBOL" THEN <<e1>> ELSE << >>)
        /\ notClosed = IF TypeAt(After(r)) # "BRACKET_CLOSE" THEN <<e2>> ELSE << >>
    BY <2>5, <2>6 DEF e1, e2
  <2> HIDE DEF noRegister, notClosed
  <2> DEFINE errors == noRegister \o notClosed
  <2>10. errors \in Seq(Report)
    BY <2>7
  <2>11. /\ TypeAt(r) # "SYMBOL" => errors # << >> /\ errors[1] = e1
         /\ TypeAt(r) = "SYMBOL" => errors = notClosed
    <3>1. ASSUME TypeAt(r) # "SYMBOL" PROVE errors # << >> /\ errors[1] = e1
      <4>1. noRegister = <<e1>> /\ Len(noRegister) = 1 /\ noRegister[1] = e1
        BY <2>9, <3>1
      <4>2. Len(errors) = Len(noRegister) + Len(notClosed) /\ Len(notClosed) \in Nat
        BY <2>7
      <4>3. errors[1] = noRegister[1]
        BY <2>7, <4>1
      <4>4. Len(errors) # 0
        BY <4>1, <4>2
      <4> QED
        BY <4>1, <4>3, <4>4
    <3>2. ASSUME TypeAt(r) = "SYMBOL" PROVE errors = notClosed
      BY <2>7, <2>9, <3>2, ConcatEmptySeq
    <3> QED
      BY <3>1, <3>2
  <2>12. <<e2>>[1] = e2 /\ <<e2>> # << >>
    OBVIOUS
  <2> HIDE DEF errors
  <2>13. ASSUME NEW h, NEW p, OperandsTo(tokens, h, p, c)
         PROVE  IF errors = << >> THEN OperandAt(tokens, h, c, After(After(r)))
                ELSE Blamed(tokens, errors[1].place)
    <3> DEFINE e == LineEnd(tokens, h)
    <3>1. c \in Nat /\ e \in Nat /\ c < e
      BY <1>1, <2>13, OperandPlaces
    <3>2. /\ r \in Nat /\ r \in Cursor /\ c < r /\ r < e /\ TypeAt(r) = tokens[r + 1].type
          /\ PlaceOf(tokens, r) = r + 1
          /\ IF TypeAt(r) # "SYMBOL"
             THEN \A f \in c + 1 .. e : (f = e \/ tokens[f].type = "COMMA") => ~IsOperand(tokens, c + 1, f - 1)
             ELSE /\ PlaceOf(tokens, After(r)) = r + 2 /\ r + 1 < e
                  /\ IF TypeAt(After(r)) # "BRACKET_CLOSE"
                     THEN \A f \in c + 1 .. e : (f = e \/ tokens[f].type = "COMMA") =>
                            ~IsOperand(tokens, c + 1, f - 1)
                     ELSE /\ IsOperand(tokens, c + 1, r + 2) /\ After(After(r)) = r + 2
                          /\ \A m \in r + 3 .. e - 1 : ~IsOperand(tokens, c + 1, m)
      BY <1>1, <2>2, <2>13, BracketsAre
    <3> HIDE DEF e
    <3>3. CASE TypeAt(r) # "SYMBOL"
      <4>1. r + 1 \in c .. e
        BY <3>1, <3>2
      <4>2. errors # << >> /\ errors[1].place = r + 1
        BY <2>8, <2>11, <3>2, <3>3
      <4>3. Blamed(tokens, r + 1)
        BY <1>1, <2>13, <3>2, <3>3, <4>1, OperandRefuted DEF e
      <4> QED
        BY <4>2, <4>3
    <3>4. CASE TypeAt(r) = "SYMBOL" /\ TypeAt(After(r)) # "BRACKET_CLOSE"
      <4>1. r + 2 \in c .. e
        BY <3>1, <3>2, <3>4
      <4>2. errors # << >> /\ errors[1].place = r + 2
        BY <2>8, <2>9, <2>11, <2>12, <3>2, <3>4
      <4>3. Blamed(tokens, r + 2)
        BY <1>1, <2>13, <3>2, <3>4, <4>1, OperandRefuted DEF e
      <4> QED
        BY <4>2, <4>3
    <3>5. CASE TypeAt(r) = "SYMBOL" /\ TypeAt(After(r)) = "BRACKET_CLOSE"
      <4>1. errors = << >>
        BY <2>9, <2>11, <3>5
      <4>2. r + 2 \in Nat /\ r + 2 + 1 = r + 3
        BY <3>2
      <4>3. OperandAt(tokens, h, c, r + 2)
        BY <1>1, <2>13, <3>2, <3>5, <4>2, OperandTaken DEF e
      <4> QED
        BY <3>2, <3>5, <4>1, <4>3
    <3> QED
      BY <3>3, <3>4, <3>5
  <2>14. TakeOperand(node, After(After(r)), errors)
    BY <2>1 DEF errors
  <2> HIDE DEF c
  <2> QED
    BY <1>1, <2>10, <2>13, <2>14, TakeAccepts DEF c
<1> QED
  BY <1>2, <1>3

LEMMA ParseSeparatorAccepts == IInv /\ AcceptedSoFar /\ ParseSeparator => AcceptedSoFar'
<1> SUFFICES ASSUME IInv, AcceptedSoFar, ParseSeparator PROVE AcceptedSoFar'
  OBVIOUS
<1> DEFINE c == cur_token
           node == [opcode |-> opcode, operands |-> operands]
           error == <<Error("expected_comma", c)>>
           step == FinishInstruction(node, After(c))
           found == \E h, p, b \in DOMAIN tokens :
                      OperandsTo(tokens, h, p, b) /\ OperandAt(tokens, h, b, c)
<1>1. InSource /\ c \in Cursor /\ status = "parsing" /\ at = "separator"
  BY DEF IInv, TypeOK, Cursor, ParseSeparator, Reading
<1>2. reports = << >> => found
  BY <1>1 DEF AcceptedSoFar, LinesRead
<1>3. ASSUME NEW h \in DOMAIN tokens, NEW p \in DOMAIN tokens, NEW b \in DOMAIN tokens,
             OperandsTo(tokens, h, p, b), OperandAt(tokens, h, b, c)
      PROVE  /\ LET e == LineEnd(tokens, h)
                IN  /\ Entered(tokens, h, p) /\ h \in Nat /\ p \in Nat /\ b \in Nat /\ c \in Nat
                    /\ e \in Nat /\ Len(tokens) \in Nat /\ h <= p /\ p <= b /\ b < c /\ c < e
                    /\ e <= Len(tokens) /\ p + 1 < e /\ e \in Ends(tokens)
                    /\ b = p \/ tokens[b].type = "COMMA"
                    /\ tokens[p].type = "SYMBOL" /\ OperandsBetweenCuts(tokens, p, b)
                    /\ OperandsBetweenCuts(tokens, p, c + 1)
                    /\ IsOperand(tokens, b + 1, c)
                    /\ \A m \in c + 1 .. e - 1 : ~IsOperand(tokens, b + 1, m)
                    /\ c < Len(tokens) /\ PlaceOf(tokens, c) = c + 1
                    /\ EndOfLine(c) <=> c + 1 = e
  <2> DEFINE e == LineEnd(tokens, h)
  <2>1. b \in Cursor
    BY <1>1, Size DEF Cursor
  <2>2. /\ Entered(tokens, h, p) /\ h \in Nat /\ p \in Nat /\ b \in Nat /\ e \in Nat
        /\ Len(tokens) \in Nat /\ h <= p /\ p <= b /\ e <= Len(tokens) /\ p + 1 < e
        /\ e \in Ends(tokens)
    BY <1>1, <1>3, <2>1, OperandPlaces
  <2>3. /\ b = p \/ tokens[b].type = "COMMA"
        /\ tokens[p].type = "SYMBOL" /\ OperandsBetweenCuts(tokens, p, b)
    BY <1>3 DEF OperandsTo
  <2>4. /\ b < c /\ c < e /\ Types(tokens, b + 1, c) \in OperandTypes
        /\ \A m \in c + 1 .. e - 1 : Types(tokens, b + 1, m) \notin OperandTypes
    BY <1>3 DEF OperandAt
  <2>5. c \in Nat /\ c < Len(tokens) /\ PlaceOf(tokens, c) = c + 1
        /\ (EndOfLine(c) <=> c + 1 \in Ends(tokens))
    <3>1. c \in Nat /\ c < Len(tokens)
      BY <1>1, <2>2, <2>4 DEF Cursor
    <3> QED
      BY <1>1, <3>1, PlaceIs
  <2>6. \A f \in h .. e - 1 : f \notin Ends(tokens)
    BY <1>1, <2>2, EnteredIs
  <2> HIDE DEF e
  <2>7. c + 1 \in Ends(tokens) <=> c + 1 = e
    BY <2>2, <2>4, <2>5, <2>6
  <2>8. IsOperand(tokens, b + 1, c)
    BY <2>2, <2>4, <2>5, OperandIs
  <2>9. ASSUME NEW m \in c + 1 .. e - 1 PROVE ~IsOperand(tokens, b + 1, m)
    <3>1. m \in Nat /\ b + 1 \in Nat /\ b + 1 <= m + 1
      BY <2>2, <2>4, <2>5
    <3> QED
      BY <2>4, <3>1, OperandIs
  <2>10. OperandsBetweenCuts(tokens, p, c + 1)
    BY <2>2, <2>3, <2>4, <2>5, OneMoreOperand
  <2> QED
    BY <2>2, <2>3, <2>4, <2>5, <2>7, <2>8, <2>9, <2>10 DEF e
<1>4. CASE TypeAt(c) = "COMMA"
  <2>1. UNCHANGED <<tokens, reports, status>> /\ cur_token' = After(c) /\ at' = "operand"
    BY <1>4 DEF ParseSeparator, input
  <2>2. ASSUME reports = << >>
        PROVE  \E h, p \in DOMAIN tokens : OperandsTo(tokens, h, p, After(c))
    <3>1. PICK h \in DOMAIN tokens, p \in DOMAIN tokens, b \in DOMAIN tokens :
            OperandsTo(tokens, h, p, b) /\ OperandAt(tokens, h, b, c)
      BY <1>2, <2>2
    <3> DEFINE e == LineEnd(tokens, h)
    <3>2. /\ Entered(tokens, h, p) /\ p \in Nat /\ b \in Nat /\ c \in Nat /\ e \in Nat
          /\ p <= b /\ b < c /\ c < e /\ p + 1 < e /\ tokens[p].type = "SYMBOL"
          /\ OperandsBetweenCuts(tokens, p, c + 1) /\ c < Len(tokens)
          /\ EndOfLine(c) <=> c + 1 = e
      BY <1>3, <3>1
    <3> HIDE DEF e
    <3>3. After(c) = c + 1 /\ tokens[c + 1].type = "COMMA" /\ ~EndOfLine(c)
      BY <1>1, <1>4, <3>2, TwoAhead DEF EndOfLine
    <3>4. p <= c + 1 /\ c + 1 < e
      BY <3>2, <3>3
    <3>5. OperandsTo(tokens, h, p, c + 1)
      BY <3>2, <3>3, <3>4 DEF OperandsTo, e
    <3> QED
      BY <3>3, <3>5
  <2>3. reports = << >> => LinesRead(tokens, at', Ahead', cur_token')
    BY <2>1, <2>2 DEF LinesRead
  <2> HIDE DEF c
  <2> QED
    BY <1>1, <2>1, <2>3, GoesOn
<1>5. CASE TypeAt(c) # "COMMA" /\ EndOfLine(c)
  <2>1. reports' = reports \o << >> /\ step
    BY <1>5 DEF ParseSeparator, Reporting, If
  <2>2. reports' = reports
    BY <2>1, ConcatEmptySeq DEF IInv, TypeOK
  <2>3. UNCHANGED <<tokens, status>>
    BY <2>1 DEF FinishInstruction, input
  <2> HIDE DEF node
  <2>4. ASSUME reports = << >> PROVE LinesRead(tokens, at', Ahead', cur_token')
    <3>1. PICK h \in DOMAIN tokens, p \in DOMAIN tokens, b \in DOMAIN tokens :
            OperandsTo(tokens, h, p, b) /\ OperandAt(tokens, h, b, c)
      BY <1>2, <2>4
    <3> DEFINE e == LineEnd(tokens, h)
    <3>2. /\ Entered(tokens, h, p) /\ c \in Nat /\ e \in Nat /\ tokens[p].type = "SYMBOL"
          /\ OperandsBetweenCuts(tokens, p, c + 1) /\ c < Len(tokens) /\ c + 1 = e
          /\ Len(tokens) \in Nat
      BY <1>3, <1>5, <3>1
    <3> HIDE DEF e
    <3>3. After(c) = e
      BY <3>2 DEF After
    <3>4. IsInstruction(tokens, p, e)
      BY <3>2 DEF IsInstruction
    <3>5. After(c) \in Cursor
      BY <1>1, TokenShape
    <3> HIDE DEF c
    <3> QED
      BY <1>1, <2>1, <3>2, <3>3, <3>4, <3>5, FinishAccepts DEF e
  <2> HIDE DEF c, step
  <2> QED
    BY <1>1, <2>2, <2>3, <2>4, GoesOn
<1>6. CASE TypeAt(c) # "COMMA" /\ ~EndOfLine(c)
  <2>1. Reporting(error, step)
    BY <1>6 DEF ParseSeparator, If
  <2>2. error \in Seq(Report) /\ error # << >> /\ error[1].place = PlaceOf(tokens, c)
    BY <1>1, ErrorPlace DEF ErrorKind
  <2> HIDE DEF error
  <2>3. UNCHANGED tokens /\ status' \in {"parsing", "exited"}
    BY <1>1, <2>1 DEF Reporting, FinishInstruction, input
  <2>4. ASSUME reports = << >> PROVE Blamed(tokens, error[1].place)
    <3>1. PICK h \in DOMAIN tokens, p \in DOMAIN tokens, b \in DOMAIN tokens :
            OperandsTo(tokens, h, p, b) /\ OperandAt(tokens, h, b, c)
      BY <1>2, <2>4
    <3> DEFINE e == LineEnd(tokens, h)
    <3>2. /\ Entered(tokens, h, p) /\ h \in Nat /\ p \in Nat /\ b \in Nat /\ c \in Nat
          /\ e \in Nat /\ Len(tokens) \in Nat /\ h <= p /\ p <= b /\ b < c /\ c < e
          /\ IsOperand(tokens, b + 1, c)
          /\ \A m \in c + 1 .. e - 1 : ~IsOperand(tokens, b + 1, m)
          /\ c < Len(tokens) /\ PlaceOf(tokens, c) = c + 1 /\ c + 1 # e
      BY <1>3, <1>6, <3>1
    <3>3. tokens[c + 1].type # "COMMA"
      BY <1>1, <1>6, <3>2, TwoAhead
    <3> HIDE DEF e
    <3>4. ASSUME NEW f \in b + 1 .. e, f = e \/ tokens[f].type = "COMMA"
          PROVE  ~IsOperand(tokens, b + 1, f - 1)
      <4>1. \A k \in b + 1 .. c : tokens[k].type # "COMMA"
        BY <3>2, NoCommaInOperand
      <4>2. f \notin b + 1 .. c
        BY <3>2, <3>4, <4>1
      <4>3. f # c + 1
        BY <3>2, <3>3, <3>4
      <4>4. f - 1 \in c + 1 .. e - 1
        BY <3>2, <4>2, <4>3
      <4> QED
        BY <3>2, <4>4
    <3>5. c + 1 \in b .. e /\ b \in Cursor
      BY <1>1, <3>2 DEF Cursor
    <3>6. Blamed(tokens, c + 1)
      BY <1>1, <3>1, <3>4, <3>5, OperandRefuted DEF e
    <3> QED
      BY <2>2, <3>2, <3>6
  <2> HIDE DEF c, step
  <2> QED
    BY <1>1, <2>1, <2>2, <2>3, <2>4, ReportAccepts
<1> QED
  BY <1>4, <1>5, <1>6

LEMMA NextAccepts == IInv /\ AcceptedSoFar /\ [Next]_vars => AcceptedSoFar'
<1> SUFFICES ASSUME IInv, AcceptedSoFar, [Next]_vars PROVE AcceptedSoFar'
  OBVIOUS
<1>1. CASE Stopped \/ UNCHANGED vars
  <2>1. UNCHANGED <<tokens, cur_token, at, reports, status>>
    BY <1>1 DEF Stopped, vars, input
  <2>2. Ahead' = Ahead
    BY <2>1, AheadNext DEF Ahead
  <2> QED
    BY <2>1, <2>2 DEF AcceptedSoFar
<1> QED
  BY <1>1, ParsedAccepts, ParseLabelAccepts, TopLevelAccepts, ParseInstructionAccepts,
     ParseMemAddressAccepts, ParseSimpleAccepts, ParseSeparatorAccepts DEF Next

LEMMA InitAccepts == Init => AcceptedSoFar
<1> SUFFICES ASSUME Init PROVE AcceptedSoFar
  OBVIOUS
<1>1. InSource /\ cur_token = 0 /\ at = "top" /\ reports = << >> /\ status = "parsing"
  BY DEF Init, InSource
<1>2. 0 \in Cursor /\ PlaceOf(tokens, 0) = 1 /\ Len(tokens) \in Nat
  BY <1>1, Size DEF Cursor, PlaceOf
<1>3. /\ Ahead \in Nat /\ Ahead \in 1 .. Len(tokens) /\ Ahead \in Heads(tokens)
      /\ \A f \in 1 .. Ahead - 1 : f \notin Starts(tokens)
  BY <1>1, <1>2, NextHead DEF Ahead
<1>4. ASSUME NEW j \in Heads(tokens) PROVE ~(j < Ahead)
  <2> SUFFICES ASSUME j < Ahead PROVE FALSE
    OBVIOUS
  <2>1. j \in Nat /\ 1 <= j /\ j # Len(tokens)
    BY <1>1, <1>2, <1>3, HeadsAre
  <2>2. j \in 1 .. Ahead - 1 /\ j \in Starts(tokens)
    BY <1>1, <1>3, <2>1, HeadsAre
  <2> QED
    BY <1>3, <2>2
<1>5. AtLine(tokens, Ahead)
  BY <1>3, <1>4 DEF AtLine, FitBefore, BehindLone, Heads
<1> QED
  BY <1>1, <1>5 DEF AcceptedSoFar, LinesRead

LEMMA AcceptedIsGrammatical == IInv /\ AcceptedSoFar => AcceptsTheLanguage
<1> SUFFICES ASSUME IInv, AcceptedSoFar, status # "parsing"
             PROVE  status = "parsed" /\ reports = << >> <=> Grammatical(tokens)
  BY DEF AcceptsTheLanguage
<1>1. reports # << >> => ~Grammatical(tokens)
  BY BlamedNot DEF AcceptedSoFar
<1>2. status \in {"parsed", "exited", "assertion", "null_dereferenced"}
  BY DEF IInv, TypeOK
<1> QED
  BY <1>1, <1>2 DEF AcceptedSoFar

\* parser_parse gets to the end without a report for exactly the sources all of
\* whose lines fit, for every source and either handler.
THEOREM LanguageAccepted == Spec => []AcceptsTheLanguage
BY AcceptedIsGrammatical, InitAccepts, NextAccepts, Invariance, PTL DEF Spec

\* The first report is about a token of the first line that does not fit, for
\* every source and either handler.
THEOREM FirstErrorPlaced == Spec => []FirstErrorInFirstBadLine
<1>1. AcceptedSoFar => FirstErrorInFirstBadLine
  BY DEF AcceptedSoFar, FirstErrorInFirstBadLine, Blamed, FitBefore
<1> QED
  BY <1>1, InitAccepts, NextAccepts, Invariance, PTL DEF Spec
=============================================================================
