------------------------------- MODULE Interp -------------------------------
(***************************************************************************)
(* interp: parser_parse, program_build, program_check and program_run, one *)
(* after the other, on the tokens of one source.  They share the tree, the *)
(* program and the default error handler, which exits the process.  What   *)
(* program_run does with the program it is handed is module Vm.            *)
(***************************************************************************)
EXTENDS ProgramBuild

CONSTANTS
  Sources,
  MSG_BUF_LEN, HEAD_SIZE, TAIL_SIZE

\* The lexer delivers EOF at the end of the source, and only there.
ASSUME InterpAssumption ==
  \A s \in Sources :
    /\ s \in Seq(Token) /\ s # << >>
    /\ \A k \in DOMAIN s : s[k].type = "EOF" <=> k = Len(s)

VARIABLES
  stage,  \* "parse", "build", "check" or "run": the function that is called
  tokens, exits, cur_token, at, label, opcode, operands,
  parsed_instructions, parsed_labels, parser_reports, parser_status,
  i, pending, heads, check_reports, check_phase

parser_vars == <<tokens, exits, cur_token, at, label, opcode, operands, parsed_instructions,
                 parsed_labels, parser_reports, parser_status>>
check_vars == <<i, pending, heads, check_reports, check_phase>>
interp_vars == <<stage, vars, parser_vars, check_vars>>

P == INSTANCE Parser WITH
  instructions <- parsed_instructions, labels <- parsed_labels,
  reports <- parser_reports, status <- parser_status

\* The program: the instructions, and the names of the labels.
Checked ==
  [instructions |-> instructions,
   labels |-> [l \in DOMAIN resolved_labels |-> resolved_labels[l].name]]

C == INSTANCE ProgramCheck WITH
  Programs <- {}, MAX_CHECKED <- 0,
  prog <- Checked, checked <- Len(instructions), phase <- check_phase, reports <- check_reports

\* A tree without nodes stands for the one that is not made yet.
NoTree == [instructions |-> << >>, labels |-> << >>]

InterpInit ==
  /\ stage = "parse"
  /\ P!Init /\ exits = TRUE
  /\ top_node = NoTree
  /\ instructions = << >> /\ resolved_labels = << >>
  /\ converted = 0 /\ resolved = 0 /\ phase = "convert"
  /\ i = 0 /\ pending = {} /\ heads = << >> /\ check_reports = << >> /\ check_phase = "labels"

-----------------------------------------------------------------------------
Parse ==
  /\ stage = "parse"
  /\ P!Next
  /\ UNCHANGED <<stage, vars, check_vars>>

\* top_level_node* n = parser_parse(&p)
ParseReturns ==
  /\ stage = "parse"
  /\ parser_status = "parsed"
  /\ stage' = "build"
  /\ top_node' = [instructions |-> parsed_instructions, labels |-> parsed_labels]
  /\ UNCHANGED <<instructions, resolved_labels, converted, resolved, phase, parser_vars, check_vars>>

Build ==
  /\ stage = "build"
  /\ Next
  /\ UNCHANGED <<stage, parser_vars, check_vars>>

\* Mutant of BuildReturns: the program is run without a check.
BuildReturnsToRun ==
  /\ stage = "build"
  /\ phase = "built"
  /\ stage' = "run"
  /\ UNCHANGED <<vars, parser_vars, check_vars>>

BuildReturns ==
  /\ stage = "build"
  /\ phase = "built"
  /\ stage' = "check"
  /\ UNCHANGED <<vars, parser_vars, check_vars>>

Check ==
  /\ stage = "check"
  /\ UNCHANGED <<stage, vars, parser_vars>>
  /\ C!Next

\* The program is handed to program_run.
CheckReturns ==
  /\ stage = "check"
  /\ check_phase = "done"
  /\ stage' = "run"
  /\ UNCHANGED <<vars, parser_vars, check_vars>>

\* The process has exited or an assertion has failed.
Aborted ==
  \/ parser_status \in {"exited", "assertion", "null_dereferenced"}
  \/ phase = "assertion"
  \/ check_phase \in {"exited", "undefined"}

InterpDone == stage = "run" \/ Aborted

InterpStopped == InterpDone /\ UNCHANGED interp_vars

InterpNext ==
  \/ Parse \/ ParseReturns \/ Build \/ BuildReturns \/ Check \/ CheckReturns \/ InterpStopped

InterpSpec == InterpInit /\ [][InterpNext]_interp_vars

\* One thread, which nothing keeps waiting.
FairInterpSpec == InterpSpec /\ WF_interp_vars(InterpNext)
-----------------------------------------------------------------------------
\* program_run is only handed programs it can execute without looking: each
\* instruction has the operands its case reads, every branch goes to an
\* instruction, and a name is one label.  Of arithmetic that is the operand that
\* is read; its target may be anything, and is a wild access in Vm if it is
\* neither a register nor an address.  This is all that Vm assumes.
RunsRunnable ==
  stage = "run" =>
    /\ InstructionsAccepted(instructions)
    /\ \A k \in DOMAIN instructions : Runnable(instructions[k])
    /\ BranchesInRange(instructions)
    /\ \A l, m \in DOMAIN resolved_labels :
         resolved_labels[l].name = resolved_labels[m].name => l = m

\* Whoever is called reports the first error there is, and nobody is called
\* after an error: there is one report at most, and none when the program runs.
OneReport ==
  /\ Len(parser_reports) + Len(check_reports) <= (IF Aborted THEN 1 ELSE 0)
  /\ parser_reports # << >> => stage = "parse" /\ instructions = << >>

(* The sources that are meant to run, in the terms of who writes them. *)

Kind(opc, node) ==
  IF node.type = "MEM_ADDRESS" THEN "memory"
  ELSE IF node.token.type = "INT" THEN "integer"
  ELSE IF node.token.type = "STRING" THEN "string"
  ELSE IF opc \in BranchOpcode THEN "label"
  ELSE "register"

IsRegister(name) == Letter[name] # INVALID_REGISTER_INDEX

KindsOf(n) == [k \in DOMAIN n.operands |-> Kind(n.opcode, n.operands[k])]

\* Every register that is named is one.
RegistersAre(n) ==
  \A k \in DOMAIN n.operands :
    /\ KindsOf(n)[k] = "memory" => IsRegister(n.operands[k].register)
    /\ KindsOf(n)[k] = "register" => IsRegister(n.operands[k].token.value)

ValueKind == {"register", "integer", "memory"}

\* The operands an opcode needs; those of arithmetic are stated by tests.c: a
\* register or an address to write to.
Meaningful(n, names) ==
  LET kinds == KindsOf(n)
  IN  /\ RegistersAre(n)
      /\ \/ n.opcode \in Unchecked
         \/ n.opcode \in NoOperand /\ kinds = << >>
         \/ n.opcode \in OneRegister /\ kinds = <<"register">>
         \/ n.opcode = "malloc" /\ kinds = <<"register", "register">>
         \/ n.opcode \in BranchOpcode /\ kinds = <<"label">> /\ n.operands[1].token.value \in names
         \/ n.opcode = "cmp" /\ Len(kinds) = 2 /\ ToSet(kinds) \subseteq {"register", "integer"}
         \/ /\ n.opcode \in Arithmetic /\ Len(kinds) = 2
            /\ kinds[1] \in {"register", "memory"} /\ kinds[2] \in ValueKind

\* "mov 5, a": arithmetic right but for its target.
WrongTarget(n) ==
  LET kinds == KindsOf(n)
  IN  /\ RegistersAre(n) /\ n.opcode \in Arithmetic /\ Len(kinds) = 2
      /\ kinds[1] \notin {"register", "memory"} /\ kinds[2] \in ValueKind

\* Every program runs, and nothing else does, with one exception: a source has
\* the lines the language asks for, every instruction has the operands its
\* opcode needs, and every name a branch uses is the name of one label.  The
\* exception is the target of arithmetic: where that is all that is wrong, the
\* source runs, although tests.c:645 has an error for it (check_targets).
RunsWhatIsMeaningful ==
  InterpDone =>
    (stage = "run" <=>
       /\ P!Grammatical(tokens)
       /\ LET names == [l \in DOMAIN parsed_labels |-> parsed_labels[l].name]
              lines == ToSet(parsed_instructions)
                         \cup UNION {ToSet(parsed_labels[l].instructions) : l \in DOMAIN parsed_labels}
          IN  /\ IsInjective(names)
              /\ \A n \in lines : Meaningful(n, ToSet(names)) \/ WrongTarget(n))

\* Every source is run or refused.
InterpFinishes == <>InterpDone
=============================================================================
