------------------------------ MODULE FrontEnd ------------------------------
(***************************************************************************)
(* parser_init and parser_parse on a source text: the lexer reads all of   *)
(* it before the parser looks at the first token, both report to the       *)
(* default error handler, and the handler prints the place and exits.      *)
(***************************************************************************)
EXTENDS Lexer

CONSTANT CARETS

VARIABLES
  exits,    \* TRUE: the handler is the default one
  cur_token, at, label, opcode, operands, instructions, labels, reports,
  parser_status,
  printed   \* what print_location printed, when an error was reported

parser_vars == <<exits, cur_token, at, label, opcode, operands, instructions, labels, reports,
                 parser_status>>
front_vars == <<vars, parser_vars, printed>>

\* The parser reads the lexer's tokens where they are.
P == INSTANCE Parser WITH
  Symbols <- {}, Literals <- {}, Sources <- {}, status <- parser_status

R == INSTANCE ErrorReport

FrontInit ==
  /\ Init
  /\ exits = TRUE
  /\ cur_token = 0 /\ at = "top" /\ label = << >> /\ opcode = NULL /\ operands = << >>
  /\ instructions = << >> /\ labels = << >> /\ reports = << >>
  /\ parser_status = "parsing"
  /\ printed = NULL

-----------------------------------------------------------------------------
Lex == status = "lexing" /\ Next /\ UNCHANGED <<parser_vars, printed>>

Parse ==
  /\ status = "eof" /\ parser_status = "parsing"
  /\ P!Next
  /\ UNCHANGED <<vars, printed>>

\* default_error_handler_fn, called with the lexer's or the parser's position.
Handle(pos) ==
  /\ printed = NULL
  /\ printed' = [pos |-> pos, location |-> R!print_location(code, pos)]
  /\ UNCHANGED <<vars, parser_vars>>

LexerError == error # NULL /\ Handle(error)

ParserError == parser_status = "exited" /\ Handle(tokens[reports[1].place].pos)

\* The tree is there, the process has exited, or an assertion has failed.
FrontDone == printed # NULL \/ parser_status \in {"parsed", "assertion"}

FrontStopped == FrontDone /\ UNCHANGED front_vars

FrontNext == Lex \/ Parse \/ LexerError \/ ParserError \/ FrontStopped

FrontSpec == FrontInit /\ [][FrontNext]_front_vars

\* One thread, which nothing keeps waiting.
FairFrontSpec == FrontSpec /\ WF_front_vars(FrontNext)
-----------------------------------------------------------------------------
\* The characters of a line.
LineText(n) ==
  LET inside == {o \in 0 .. Len(code) - 1 : LineOf(o) = n /\ CharAt(o) # LineFeed}
  IN  IF inside = {} THEN << >> ELSE Text(Min(inside), Max(inside) + 1)

Shown(l) == l.before \o l.marked \o l.after

\* An error is shown with the whole line its message names, and with carets
\* under the text its position covers: the token the parser did not expect, or
\* what the lexer could not read.  Only an error at the end of the source, which
\* has no position, is shown without a line.
ErrorShown ==
  printed # NULL =>
    IF printed.pos.line_number = 0
    THEN printed.location = {} /\ tokens[reports[1].place].type = "EOF"
    ELSE \E l \in printed.location :
           /\ printed.location = {l}
           /\ IsPrefix(LineText(printed.pos.line_number), Shown(l))
           /\ l.indent = 2 + Len(l.before)
           /\ l.carets = Min({Len(l.marked), CARETS})
           /\ l.marked = IF Covered(printed.pos) = {} THEN << >> ELSE Marked(printed.pos)

\* The location printed is that one line and no more, but for the line break
\* when the error is about it.
LineShownAlone ==
  printed # NULL =>
    \A l \in printed.location :
      LET line == LineText(printed.pos.line_number)
      IN  Shown(l) \in {line, Append(line, LineFeed)}

\* Every text becomes a tree or ends with an error that is shown.
FrontFinishes == <>FrontDone
=============================================================================
