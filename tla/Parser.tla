------------------------------- MODULE Parser -------------------------------
(***************************************************************************)
(* parser_parse over the tokens of one source text.  The recursive descent *)
(* is flattened: at says which function reads next, and label, opcode and  *)
(* operands are the nodes under construction on its stack.  Looking ahead  *)
(* moves the cursor and moves it back, as the code does.                   *)
(*                                                                         *)
(* The default handler exits at the first error.  One that returns, as the *)
(* handlers of the tests do, makes the function that called it go on: with *)
(* a NULL operand, an operand made of the wrong tokens, or a shorter list  *)
(* of operands; only parser_parse dereferences the NULL it is answered.    *)
(***************************************************************************)
EXTENDS Syntax, SequencesExt

CONSTANT Sources  \* token sequences, as lexer_next_token delivers them

ASSUME SourcesAssumption ==
  \A s \in Sources :
    /\ s \in Seq(Token) /\ s # << >>
    /\ \A k \in DOMAIN s : s[k].type = "EOF" <=> k = Len(s)

VARIABLES
  tokens,
  exits,         \* the error handler does not return
  cur_token,
  at,            \* "top", "instruction", "operand" or "separator"
  label,         \* the label whose body is read, as a sequence of at most one node
  opcode,
  operands,
  instructions,  \* the nodes parser_parse has collected
  labels,
  reports,       \* what the handler was given: the error, and the place of its token
  status         \* "parsing", "parsed", "exited", "assertion" or "null_dereferenced"

nodes == <<label, opcode, operands, instructions, labels>>
input == <<tokens, exits>>
vars == <<input, cur_token, at, nodes, reports, status>>

Init ==
  /\ tokens \in Sources
  /\ exits \in BOOLEAN
  /\ cur_token = 0
  /\ at = "top"
  /\ label = << >>
  /\ opcode = NULL
  /\ operands = << >>
  /\ instructions = << >>
  /\ labels = << >>
  /\ reports = << >>
  /\ status = "parsing"

-----------------------------------------------------------------------------
(* The cursor.  Past the last token, EOF is delivered again and again. *)

TokenAt(c) == tokens[IF c >= Len(tokens) THEN Len(tokens) ELSE c + 1]
After(c) == IF c >= Len(tokens) THEN c ELSE c + 1

TypeAt(c) == TokenAt(c).type

SkipNewLines(c) ==
  CHOOSE d \in c .. Len(tokens) :
    TypeAt(d) # "NEW_LINE" /\ \A e \in c .. d - 1 : TypeAt(e) = "NEW_LINE"

\* Mutants of PushedBack: one token too many, one too few.
PushedBackTooFar(c) == After(After(SkipNewLines(c))) - 3
PushedBackByOne(c) == After(After(SkipNewLines(c))) - 1

\* is_next_tokens_a_label: what it answers, and where it leaves the cursor.
IsLabel(c) ==
  LET d == SkipNewLines(c) IN TypeAt(d) = "SYMBOL" /\ TypeAt(After(d)) = "COLON"

PushedBack(c) == After(After(SkipNewLines(c))) - 2

\* Mutant of EndOfLine: the end of the source is not the end of a line.
NewLineOnly(c) == TypeAt(c) = "NEW_LINE"

EndOfLine(c) == TypeAt(c) \in {"NEW_LINE", "EOF"}

-----------------------------------------------------------------------------
Reading(what) == status = "parsing" /\ at = what

\* Mutant of Error: the token behind the one that was read.
ErrorBehind(kind, c) == [kind |-> kind, place |-> Min({c + 2, Len(tokens)})]

\* An error at the token at cursor c.
Error(kind, c) == [kind |-> kind, place |-> Min({c + 1, Len(tokens)})]
If(condition, kind, c) == IF condition THEN <<Error(kind, c)>> ELSE << >>

\* Mutant of Reporting: the parser does not go on where it reported an error.
ReportingAgain(errors, step) ==
  IF errors # << >> THEN UNCHANGED vars ELSE step /\ UNCHANGED reports

\* The errors are reported, and what the code does when the handler returns.
Reporting(errors, step) ==
  IF exits /\ errors # << >>
  THEN /\ reports' = <<errors[1]>>
       /\ status' = "exited"
       /\ UNCHANGED <<input, cur_token, at, nodes>>
  ELSE reports' = reports \o errors /\ step

Crash(how) == status' = how /\ UNCHANGED <<input, cur_token, at, nodes>>

\* The instruction that ends before cursor c goes to its label, or to the top
\* level; a label ends at the end of the source and before the next label.
FinishInstruction(node, c) ==
  /\ opcode' = NULL /\ operands' = << >>
  /\ IF label = << >>
     THEN /\ instructions' = Append(instructions, node)
          /\ cur_token' = c
          /\ at' = "top"
          /\ UNCHANGED <<label, labels>>
     ELSE LET body == [label[1] EXCEPT !.instructions = Append(@, node)]
              last == TypeAt(SkipNewLines(c)) = "EOF"
          IN  /\ cur_token' = IF last THEN c ELSE PushedBack(c)
              /\ IF last \/ IsLabel(c)
                 THEN labels' = Append(labels, body) /\ label' = << >> /\ at' = "top"
                 ELSE label' = <<body>> /\ at' = "instruction" /\ UNCHANGED labels
              /\ UNCHANGED instructions
  /\ UNCHANGED <<input, status>>

Parsed ==
  /\ Reading("top")
  /\ TypeAt(SkipNewLines(cur_token)) = "EOF"
  /\ status' = "parsed"
  /\ UNCHANGED <<input, cur_token, at, nodes, reports>>

ParseLabel ==
  /\ Reading("top")
  /\ IsLabel(cur_token)
  /\ LET d == SkipNewLines(cur_token)
         body == After(After(d))
     IN  IF TypeAt(SkipNewLines(body)) = "SYMBOL"
         THEN /\ label' = <<[name |-> TokenAt(d).value, instructions |-> << >>]>>
              /\ cur_token' = body
              /\ at' = "instruction"
              /\ UNCHANGED <<input, opcode, operands, instructions, labels, reports, status>>
         ELSE Reporting(<<Error("unexpected_after_label", SkipNewLines(body))>>,
                        Crash("null_dereferenced"))

TopLevelInstruction ==
  /\ Reading("top")
  /\ ~IsLabel(cur_token)
  /\ TypeAt(SkipNewLines(cur_token)) = "SYMBOL"
  /\ cur_token' = PushedBack(cur_token)
  /\ at' = "instruction"
  /\ UNCHANGED <<input, nodes, reports, status>>

\* parser_parse_top_level answers NULL, which parser_parse dereferences.
UnexpectedAtTopLevel ==
  /\ Reading("top")
  /\ TypeAt(SkipNewLines(cur_token)) \notin {"SYMBOL", "EOF"}
  /\ Reporting(<<Error("unexpected_at_top_level", SkipNewLines(cur_token))>>,
               Crash("null_dereferenced"))

\* parser_parse_instruction
ParseInstruction ==
  /\ Reading("instruction")
  /\ LET d == SkipNewLines(cur_token)
     IN  /\ TypeAt(d) = "SYMBOL"
         /\ IF EndOfLine(After(d))
            THEN FinishInstruction([opcode |-> TokenAt(d).value, operands |-> << >>], After(d))
            ELSE /\ opcode' = TokenAt(d).value
                 /\ cur_token' = After(d)
                 /\ at' = "operand"
                 /\ UNCHANGED <<input, label, operands, instructions, labels, status>>
  /\ UNCHANGED reports

\* assert(opcode->type == TT_SYMBOL)
AssertionFails ==
  /\ Reading("instruction")
  /\ TypeAt(SkipNewLines(cur_token)) # "SYMBOL"
  /\ Crash("assertion")
  /\ UNCHANGED reports

\* parse_operand, for the operand whose first token is at the cursor.
InBrackets == "BRACKET_OPEN" \in {TypeAt(cur_token), TypeAt(After(cur_token))}
HasOffset == TypeAt(cur_token) # "BRACKET_OPEN"

\* The operand, or NULL, that ends before cursor c.
TakeOperand(node, c, errors) ==
  Reporting(errors,
    /\ operands' = Append(operands, node)
    /\ cur_token' = c
    /\ at' = "separator"
    /\ UNCHANGED <<input, label, opcode, instructions, labels, status>>)

\* parser_expect_token goes on with the token it did not expect.
ParseMemAddress ==
  /\ Reading("operand")
  /\ InBrackets
  /\ LET r == IF HasOffset THEN After(After(cur_token)) ELSE After(cur_token)
     IN  IF HasOffset /\ TypeAt(cur_token) # "INT"
         THEN TakeOperand(NULL, After(cur_token), <<Error("invalid_offset", cur_token)>>)
         ELSE TakeOperand([type |-> "MEM_ADDRESS", register |-> TokenAt(r).value,
                           offset |-> IF HasOffset THEN TokenAt(cur_token).value ELSE NULL],
                          After(After(r)),
                          If(TypeAt(r) # "SYMBOL", "expected", r)
                            \o If(TypeAt(After(r)) # "BRACKET_CLOSE", "expected", After(r)))

ParseSimple ==
  /\ Reading("operand")
  /\ ~InBrackets
  /\ IF TypeAt(cur_token) \in {"SYMBOL", "STRING", "INT"}
     THEN TakeOperand([type |-> "SIMPLE", token |-> TokenAt(cur_token)], After(cur_token), << >>)
     ELSE TakeOperand(NULL, After(cur_token), <<Error("unexpected_as_operand", cur_token)>>)

\* parse_operands, between two operands and after the last.
ParseSeparator ==
  /\ Reading("separator")
  /\ IF TypeAt(cur_token) = "COMMA"
     THEN /\ cur_token' = After(cur_token)
          /\ at' = "operand"
          /\ UNCHANGED <<input, nodes, reports, status>>
     ELSE Reporting(If(~EndOfLine(cur_token), "expected_comma", cur_token),
            FinishInstruction([opcode |-> opcode, operands |-> operands], After(cur_token)))

Stopped == status # "parsing" /\ UNCHANGED vars

Next ==
  \/ Parsed \/ ParseLabel \/ TopLevelInstruction \/ UnexpectedAtTopLevel
  \/ ParseInstruction \/ AssertionFails \/ ParseMemAddress \/ ParseSimple
  \/ ParseSeparator \/ Stopped

Spec == Init /\ [][Next]_vars

\* One thread, which nothing keeps waiting.
FairSpec == Spec /\ WF_vars(Next)
-----------------------------------------------------------------------------
ErrorKind ==
  { "unexpected_after_label", "unexpected_at_top_level", "invalid_offset", "expected",
    "unexpected_as_operand", "expected_comma" }

Report == [kind : ErrorKind, place : DOMAIN tokens]

\* A label whose body may still be empty.
OpenLabel == [name : Symbols, instructions : Seq(InstructionNode)]

\* The nodes are what later stages rely on.
NodesTyped ==
  /\ label \in Seq(OpenLabel)
  /\ Len(label) <= 1
  /\ at \in {"operand", "separator"} => opcode \in Symbols
  /\ operands \in Seq(OperandNode)
  /\ instructions \in Seq(InstructionNode)
  /\ labels \in Seq(LabelNode)

TypeOK ==
  /\ tokens \in Seq(Token)
  /\ exits \in BOOLEAN
  /\ cur_token \in 0 .. Len(tokens)
  /\ at \in {"top", "instruction", "operand", "separator"}
  /\ status \in {"parsing", "parsed", "exited", "assertion", "null_dereferenced"}
  /\ reports \in Seq(Report)
  /\ exits /\ status # "exited" => reports = << >>
  /\ exits => Len(reports) <= 1
  /\ reports = << >> => NodesTyped

(* What the nodes were made from, written back as tokens. *)

OperandTokens(node) ==
  IF node.type = "SIMPLE" THEN <<node.token>>
  ELSE (IF node.offset = NULL THEN << >> ELSE <<[type |-> "INT", value |-> node.offset]>>)
         \o <<Mark("BRACKET_OPEN"), [type |-> "SYMBOL", value |-> node.register],
              Mark("BRACKET_CLOSE")>>

InstructionTokens(node) ==
  <<[type |-> "SYMBOL", value |-> node.opcode]>>
    \o FlattenSeq([k \in DOMAIN node.operands |->
         (IF k = 1 THEN << >> ELSE <<Mark("COMMA")>>) \o OperandTokens(node.operands[k])])

LabelTokens(node) ==
  <<[type |-> "SYMBOL", value |-> node.name], Mark("COLON")>>
    \o FlattenSeq([k \in DOMAIN node.instructions |-> InstructionTokens(node.instructions[k])])

NodeTokens ==
  FlattenSeq([k \in DOMAIN instructions |-> InstructionTokens(instructions[k])])
    \o FlattenSeq([k \in DOMAIN labels |-> LabelTokens(labels[k])])

\* Line breaks and the end of the source are in no node.
Kept(token) == IF token.type \in {"NEW_LINE", "EOF"} THEN << >> ELSE <<token>>

\* Nothing of the source is lost, repeated or put in another order by the
\* cursor that is moved ahead and back: the nodes of a parsed source, the
\* instructions before the first label and then the labels, are its tokens.
NothingLost ==
  status = "parsed" /\ reports = << >> =>
    NodeTokens = FlattenSeq([k \in DOMAIN tokens |-> Kept(tokens[k])])

(* The sources the parser is meant to accept, line by line. *)

\* Where lines end, and where those that have a token start.
Ends(s) == {k \in DOMAIN s : s[k].type \in {"NEW_LINE", "EOF"}}
Starts(s) == {k \in DOMAIN s \ Ends(s) : k = 1 \/ k - 1 \in Ends(s)}

LineEnd(s, k) == CHOOSE e \in Ends(s) : k <= e /\ \A f \in Ends(s) : k <= f => e <= f

Types(s, first, last) == [n \in 1 .. last - first + 1 |-> s[first + n - 1].type]

OperandTypes ==
  { <<"SYMBOL">>, <<"STRING">>, <<"INT">>, <<"BRACKET_OPEN", "SYMBOL", "BRACKET_CLOSE">>,
    <<"INT", "BRACKET_OPEN", "SYMBOL", "BRACKET_CLOSE">> }

\* What operands stand between: the opcode, commas and the end of the line.
Cuts(s, first, end) == {first, end} \cup {k \in first .. end : s[k].type = "COMMA"}

OperandsBetweenCuts(s, first, end) ==
  LET cuts == Cuts(s, first, end)
  IN  \A k, l \in cuts :
        k < l /\ cuts \cap (k + 1 .. l - 1) = {} => Types(s, k + 1, l - 1) \in OperandTypes

\* An opcode, and operands with commas between them, up to the end of the line.
IsInstruction(s, first, end) ==
  /\ s[first].type = "SYMBOL"
  /\ end > first + 1 => OperandsBetweenCuts(s, first, end)

\* A line that starts with a label, and one that has nothing else.
HasLabel(s, k) == s[k].type = "SYMBOL" /\ s[k + 1].type = "COLON"
Lone(s, k) == HasLabel(s, k) /\ k + 2 \in Ends(s)

\* The last line before k that has a token has a label and nothing else.
BehindLone(s, k) ==
  \E j \in Starts(s) : j < k /\ Lone(s, j) /\ Starts(s) \cap (j + 1 .. k - 1) = {}

\* The line that starts at k can stand where it does: it is an instruction, a
\* label and an instruction, or a label; behind a label without an instruction
\* there is a line, and it has no label.
Fits(s, k) ==
  /\ k \in Starts(s) /\ ~Lone(s, k) =>
       IsInstruction(s, IF HasLabel(s, k) THEN k + 2 ELSE k, LineEnd(s, k))
  /\ BehindLone(s, k) => k \in Starts(s) /\ ~HasLabel(s, k)

\* The lines, and the end of the source.
Heads(s) == Starts(s) \cup {Len(s)}

Grammatical(s) == \A k \in Heads(s) : Fits(s, k)

\* The parser accepts exactly those sources, wherever their line breaks are:
\* with a handler that returns it does not get to the end of any other without
\* a report.
AcceptsTheLanguage ==
  status # "parsing" => (status = "parsed" /\ reports = << >> <=> Grammatical(tokens))

\* The first error reported is about a token of the first line that is wrong:
\* the lines before it could begin a source, and with it they cannot.
FirstErrorInFirstBadLine ==
  reports # << >> =>
    \E k \in Heads(tokens) :
      /\ ~Fits(tokens, k)
      /\ \A j \in Heads(tokens) : j < k => Fits(tokens, j)
      /\ reports[1].place \in k .. LineEnd(tokens, k)

\* Every source is parsed or refused: looking ahead never makes the parser run
\* in a circle, at the end of the source neither.
ParserFinishes == <>(status # "parsing")

\* parser_parse_instruction is only called where an instruction starts, as its
\* assertion says.
InstructionExpected == exits => status # "assertion"
=============================================================================
