---------------------------- MODULE InterpProofs ----------------------------
(***************************************************************************)
(* Proofs about interp, for every sequence of tokens.  The invariants of   *)
(* parser_parse, program_build and program_check are those of their own    *)
(* modules; here they are carried from one call to the next.               *)
(***************************************************************************)
EXTENDS Interp, ProgramBuildProofs

PP == INSTANCE ParserProofs WITH
  instructions <- parsed_instructions, labels <- parsed_labels,
  reports <- parser_reports, status <- parser_status

CP == INSTANCE ProgramCheckProofs WITH
  Programs <- {}, MAX_CHECKED <- 0,
  prog <- Checked, checked <- Len(instructions), phase <- check_phase, reports <- check_reports

-----------------------------------------------------------------------------
(* The modules' definitions are the same wherever they are read from *)

LEMMA SameSyntax ==
  PP!Token = Token /\ PP!InstructionNode = InstructionNode /\ PP!LabelNode = LabelNode
BY DEF PP!Token, Token, PP!Punctuation, Punctuation, PP!Word, Word, PP!OperandNode, OperandNode,
       PP!InstructionNode, InstructionNode, PP!LabelNode, LabelNode

LEMMA SameProgram ==
  /\ CP!Instruction = Instruction
  /\ \A insn : CP!OperandErrors(insn) = OperandErrors(insn)
  /\ \A insn : CP!Runnable(insn) <=> Runnable(insn)
BY SMTT(30) DEF CP!Word, Word, CP!Operand, Operand, CP!Opcode, Opcode, CP!ValidOpcode, ValidOpcode,
       CP!RegIndex, RegIndex, CP!Instruction, Instruction, CP!Runnable, Runnable,
       CP!OperandErrors, OperandErrors, CP!InvalidOperands, InvalidOperands, CP!InvalidRegister,
       InvalidRegister, CP!FirstInvalid, FirstInvalid, CP!WrongNumber, WrongNumber, CP!Required,
       Required, CP!Undefined, Undefined, CP!WrongTypes, WrongTypes, CP!Arithmetic, Arithmetic,
       CP!OneRegister, OneRegister, CP!BranchOpcode, BranchOpcode, CP!Conditional, Conditional,
       CP!NoOperand, NoOperand, CP!Unchecked, Unchecked, CP!OperandType, OperandType,
       CP!INVALID_REGISTER_INDEX, INVALID_REGISTER_INDEX

LEMMA ParserStep == P!Next <=> PP!Next
BY DEF P!Min, PP!Min, P!TokenAt, PP!TokenAt, P!After, PP!After, P!TypeAt, PP!TypeAt,
       P!SkipNewLines, PP!SkipNewLines, P!IsLabel, PP!IsLabel, P!PushedBack, PP!PushedBack,
       P!EndOfLine, PP!EndOfLine, P!Reading, PP!Reading, P!Error, PP!Error, P!If, PP!If,
       P!Reporting, PP!Reporting, P!Crash, PP!Crash, P!FinishInstruction, PP!FinishInstruction,
       P!Parsed, PP!Parsed, P!ParseLabel, PP!ParseLabel, P!TopLevelInstruction,
       PP!TopLevelInstruction, P!UnexpectedAtTopLevel, PP!UnexpectedAtTopLevel,
       P!ParseInstruction, PP!ParseInstruction, P!AssertionFails, PP!AssertionFails,
       P!InBrackets, PP!InBrackets, P!HasOffset, PP!HasOffset, P!TakeOperand, PP!TakeOperand,
       P!ParseMemAddress, PP!ParseMemAddress, P!ParseSimple, PP!ParseSimple, P!ParseSeparator,
       PP!ParseSeparator, P!Stopped, PP!Stopped, P!Next, PP!Next, P!nodes, PP!nodes, P!input,
       PP!input, P!vars, PP!vars

LEMMA CheckStep == C!Next <=> CP!Next
BY DEF C!Report, CP!Report, C!Error, CP!Error, C!Duplicated, CP!Duplicated, C!FirstDuplicate,
       CP!FirstDuplicate, C!CheckLabels, CP!CheckLabels, C!InvalidOpcode, CP!InvalidOpcode,
       C!CheckOperands, CP!CheckOperands, C!First, CP!First, C!InStaticBuffer,
       CP!InStaticBuffer, C!ReportOperand, CP!ReportOperand, C!Fits, CP!Fits,
       C!RequireOperandTypes, CP!RequireOperandTypes, C!MsgBufOverflow, CP!MsgBufOverflow,
       C!Finish, CP!Finish, C!CheckAnother, CP!CheckAnother, C!Stopped, CP!Stopped, C!Next,
       CP!Next, C!vars, CP!vars, C!OperandErrors, CP!OperandErrors, C!InvalidOperands,
       CP!InvalidOperands, C!InvalidRegister, CP!InvalidRegister, C!FirstInvalid,
       CP!FirstInvalid, C!WrongNumber, CP!WrongNumber, C!Required, CP!Required, C!Undefined,
       CP!Undefined, C!WrongTypes, CP!WrongTypes, C!Arithmetic, CP!Arithmetic, C!OneRegister,
       CP!OneRegister, C!BranchOpcode, CP!BranchOpcode, C!Conditional, CP!Conditional,
       C!NoOperand, CP!NoOperand, C!Unchecked, CP!Unchecked, C!OperandType, CP!OperandType,
       C!INVALID_REGISTER_INDEX, CP!INVALID_REGISTER_INDEX

LEMMA ParserAssumptions ==
  PP!WordsAssumption /\ PP!SyntaxAssumption /\ PP!SourcesAssumption
BY WordsAssumption, SyntaxAssumption, InterpAssumption, SameSyntax
DEF PP!WordsAssumption, PP!SyntaxAssumption, PP!SourcesAssumption, PP!Word, Word

LEMMA CheckAssumptions ==
  CP!WordsAssumption /\ CP!ProgramAssumption /\ CP!CheckAssumption
BY WordsAssumption, ProgramAssumption
DEF CP!WordsAssumption, CP!ProgramAssumption, CP!CheckAssumption

LEMMA ParserKeeps == PP!IInv /\ [P!Next]_parser_vars => PP!IInv'
<1>1. UNCHANGED parser_vars => UNCHANGED PP!vars
  BY DEF parser_vars, PP!vars, PP!input, PP!nodes
<1> QED
  BY <1>1, PP!NextIInv, ParserAssumptions, ParserStep

LEMMA CheckKeeps ==
  CP!IInv /\ (C!Next \/ UNCHANGED <<check_vars, exits, instructions, resolved_labels>>) => CP!IInv'
<1>1. UNCHANGED <<check_vars, exits, instructions, resolved_labels>> => UNCHANGED CP!vars
  BY DEF check_vars, Checked, CP!vars
<1> QED
  BY <1>1, CP!NextIInv, CheckAssumptions, CheckStep

-----------------------------------------------------------------------------
(* The inductive invariant *)

\* What a call has not touched before it is made, and has left when it is over.
InterpInv ==
  /\ exits = TRUE
  /\ stage \in {"parse", "build", "check", "run"}
  /\ PP!IInv
  /\ IInv
  /\ stage = "parse" =>
       top_node = NoTree /\ instructions = << >> /\ resolved_labels = << >>
         /\ converted = 0 /\ resolved = 0 /\ phase = "convert"
  /\ stage # "parse" => parser_status = "parsed"
  /\ stage \in {"parse", "build"} =>
       i = 0 /\ pending = {} /\ check_reports = << >> /\ check_phase = "labels"
  /\ stage \in {"check", "run"} => CP!IInv
  /\ stage = "run" => check_phase = "done"

LEMMA NoTreeTyped == NoTree \in TopLevelNode
BY DEF NoTree, TopLevelNode

\* program_build may be called with any tree.
LEMMA BuildStarts ==
  ASSUME top_node \in TopLevelNode, instructions = << >>, resolved_labels = << >>,
         converted = 0, resolved = 0, phase = "convert"
  PROVE  IInv
<1>1. top_node.instructions \in Seq(InstructionNode) /\ Len(top_node.labels) \in Nat
  BY DEF TopLevelNode
<1>2. Progress
  BY <1>1 DEF Progress, Body
<1> QED
  BY <1>2 DEF IInv, TypeOK, LabelsStart, LabelsInOrder, BranchesInRange

LEMMA InitInterpInv == InterpInit => InterpInv
<1> SUFFICES ASSUME InterpInit PROVE InterpInv
  OBVIOUS
<1>1. PP!Init
  BY DEF InterpInit, P!Init, PP!Init
<1>2. PP!IInv
  BY <1>1, PP!InitIInv, ParserAssumptions
<1>3. IInv
  BY NoTreeTyped, BuildStarts DEF InterpInit
<1> QED
  BY <1>2, <1>3 DEF InterpInit, InterpInv

LEMMA ParseKeeps == InterpInv /\ Parse => InterpInv'
<1> SUFFICES ASSUME InterpInv, Parse PROVE InterpInv'
  OBVIOUS
<1>1. stage = "parse" /\ P!Next /\ UNCHANGED <<stage, vars, check_vars>>
  BY DEF Parse
<1>2. PP!IInv'
  BY <1>1, ParserKeeps DEF InterpInv
<1>3. IInv'
  BY <1>1, NextIInv, SMTT(30) DEF InterpInv
<1>4. exits' = exits
  BY <1>1, ParserStep
  DEF PP!Next, PP!Parsed, PP!ParseLabel, PP!TopLevelInstruction, PP!UnexpectedAtTopLevel,
      PP!ParseInstruction, PP!AssertionFails, PP!ParseMemAddress, PP!ParseSimple,
      PP!ParseSeparator, PP!Stopped, PP!Reporting, PP!Crash, PP!TakeOperand,
      PP!FinishInstruction, PP!vars, PP!input
<1> QED
  BY <1>1, <1>2, <1>3, <1>4 DEF InterpInv, vars, check_vars

\* Nothing is reported of a source that is parsed, so its nodes are typed.
LEMMA ParseReturnsKeeps == InterpInv /\ ParseReturns => InterpInv'
<1> SUFFICES ASSUME InterpInv, ParseReturns PROVE InterpInv'
  OBVIOUS
<1>1. /\ stage = "parse" /\ stage' = "build" /\ parser_status = "parsed"
      /\ top_node' = [instructions |-> parsed_instructions, labels |-> parsed_labels]
      /\ UNCHANGED <<instructions, resolved_labels, converted, resolved, phase>>
      /\ UNCHANGED parser_vars /\ UNCHANGED check_vars
  BY DEF ParseReturns
<1>2. PP!IInv'
  BY <1>1, ParserKeeps DEF InterpInv
<1>3. PP!NodesTyped
  BY <1>1 DEF InterpInv, PP!IInv, PP!TypeOK
<1>4. (top_node \in TopLevelNode)'
  BY <1>1, <1>3, SameSyntax DEF PP!NodesTyped, TopLevelNode
<1>5. IInv'
  <2>1. /\ instructions' = << >> /\ resolved_labels' = << >>
        /\ converted' = 0 /\ resolved' = 0 /\ phase' = "convert"
    BY <1>1 DEF InterpInv
  <2>2. (top_node.instructions)' \in Seq(InstructionNode) /\ Len(top_node'.labels) \in Nat
    BY <1>4 DEF TopLevelNode
  <2>3. Progress'
    BY <2>1, <2>2 DEF Progress, Body
  <2> QED
    BY <1>4, <2>1, <2>3 DEF IInv, TypeOK, LabelsStart, LabelsInOrder, BranchesInRange
<1> QED
  BY <1>1, <1>2, <1>5 DEF InterpInv, parser_vars, check_vars

LEMMA BuildKeeps == InterpInv /\ Build => InterpInv'
<1> SUFFICES ASSUME InterpInv, Build PROVE InterpInv'
  OBVIOUS
<1>1. stage = "build" /\ Next /\ UNCHANGED stage /\ UNCHANGED parser_vars
      /\ UNCHANGED check_vars
  BY DEF Build
<1>2. PP!IInv'
  BY <1>1, ParserKeeps DEF InterpInv
<1>3. IInv'
  BY <1>1, NextIInv DEF InterpInv
<1> QED
  BY <1>1, <1>2, <1>3 DEF InterpInv, parser_vars, check_vars

\* program_check is called with a program of its types.
LEMMA BuildReturnsKeeps == InterpInv /\ BuildReturns => InterpInv'
<1> SUFFICES ASSUME InterpInv, BuildReturns PROVE InterpInv'
  OBVIOUS
<1>1. stage = "build" /\ stage' = "check" /\ UNCHANGED vars /\ UNCHANGED parser_vars
      /\ UNCHANGED check_vars
  BY DEF BuildReturns
<1>2. PP!IInv'
  BY <1>1, ParserKeeps DEF InterpInv
<1>3. IInv'
  BY <1>1, NextIInv DEF InterpInv
<1>4. CP!IInv'
  <2>1. /\ i' = 0 /\ pending' = {} /\ check_reports' = << >> /\ check_phase' = "labels"
        /\ exits' = TRUE
    BY <1>1 DEF InterpInv, parser_vars, check_vars
  <2>2. instructions' \in Seq(CP!Instruction) /\ Len(instructions') \in Nat
    BY <1>3, SameProgram DEF IInv, TypeOK
  <2>3. [l \in DOMAIN resolved_labels' |-> resolved_labels'[l].name] \in Seq(Strings)
    <3>1. resolved_labels' \in Seq(ResolvedLabel)
      BY <1>3 DEF IInv, TypeOK
    <3>2. Symbols \subseteq Strings
      BY BuildAssumption
    <3>3. \A r \in ResolvedLabel : r.name \in Strings
      BY <3>2 DEF ResolvedLabel
    <3>4. \A l \in DOMAIN resolved_labels' : resolved_labels'[l] \in ResolvedLabel
      BY <3>1
    <3> QED
      BY <3>1, <3>3, <3>4
  <2>4. Checked' \in [instructions : Seq(CP!Instruction), labels : Seq(Strings)]
        /\ Checked'.instructions = instructions'
    BY <2>2, <2>3 DEF Checked
  <2>5. << >> \in Seq({})
    OBVIOUS
  <2> QED
    BY <2>1, <2>2, <2>4, <2>5
    DEF CP!IInv, CP!TypeOK, CP!IsSequence, CP!SilentSoFar, CP!FirstDefectReported
<1> QED
  BY <1>1, <1>2, <1>3, <1>4 DEF InterpInv, parser_vars, check_vars

LEMMA CheckStepKeeps == InterpInv /\ (Check \/ CheckReturns) => InterpInv'
<1> SUFFICES ASSUME InterpInv, Check \/ CheckReturns PROVE InterpInv'
  OBVIOUS
<1>1. /\ stage = "check" /\ stage' \in {"check", "run"}
      /\ UNCHANGED vars /\ UNCHANGED parser_vars
      /\ C!Next \/ UNCHANGED <<check_vars, exits, instructions, resolved_labels>>
      /\ stage' = "run" => check_phase' = "done"
  BY DEF Check, CheckReturns, parser_vars, check_vars, vars
<1>2. PP!IInv'
  BY <1>1, ParserKeeps DEF InterpInv
<1>3. IInv'
  BY <1>1, NextIInv DEF InterpInv
<1>4. CP!IInv'
  BY <1>1, CheckKeeps DEF InterpInv
<1> QED
  BY <1>1, <1>2, <1>3, <1>4 DEF InterpInv, parser_vars

LEMMA NextInterpInv == InterpInv /\ [InterpNext]_interp_vars => InterpInv'
<1> SUFFICES ASSUME InterpInv, [InterpNext]_interp_vars PROVE InterpInv'
  OBVIOUS
<1>1. CASE InterpStopped \/ UNCHANGED interp_vars
  <2>1. UNCHANGED stage /\ UNCHANGED vars /\ UNCHANGED parser_vars /\ UNCHANGED check_vars
    BY <1>1 DEF InterpStopped, interp_vars
  <2>2. PP!IInv'
    BY <2>1, ParserKeeps DEF InterpInv
  <2>3. IInv'
    BY <2>1, NextIInv DEF InterpInv
  <2>4. CP!IInv => CP!IInv'
    BY <2>1, CheckKeeps DEF parser_vars, vars
  <2> QED
    BY <2>1, <2>2, <2>3, <2>4 DEF InterpInv, vars, parser_vars, check_vars
<1> QED
  BY <1>1, ParseKeeps, ParseReturnsKeeps, BuildKeeps, BuildReturnsKeeps, CheckStepKeeps
  DEF InterpNext

LEMMA InterpInvariance == InterpSpec => []InterpInv
BY InitInterpInv, NextInterpInv, PTL DEF InterpSpec

-----------------------------------------------------------------------------
\* Whatever the source, program_run is only called with a program it can execute
\* without looking at operands, registers or branches: what Vm assumes of every
\* program holds of every program interp runs.  Vm assumes nothing of the target
\* of arithmetic, which may be no place to write to.
THEOREM ProgramsRunnable == InterpSpec => []RunsRunnable
<1>1. ASSUME InterpInv PROVE RunsRunnable
  <2> SUFFICES ASSUME stage = "run"
               PROVE  /\ InstructionsAccepted(instructions)
                      /\ \A k \in DOMAIN instructions : Runnable(instructions[k])
                      /\ BranchesInRange(instructions)
                      /\ \A l, m \in DOMAIN resolved_labels :
                           resolved_labels[l].name = resolved_labels[m].name => l = m
    BY DEF RunsRunnable
  <2>1. CP!IInv /\ check_phase = "done" /\ check_reports = << >>
    BY <1>1 DEF InterpInv, CP!IInv
  <2>2. CP!SilentMeansRunnable /\ CP!SilentMeansAccepted
    BY <2>1, CP!SilentRunnable, CP!SilentAccepts, CheckAssumptions
  <2>3. Checked.instructions = instructions /\ DOMAIN Checked.labels = DOMAIN resolved_labels
        /\ \A l \in DOMAIN resolved_labels : Checked.labels[l] = resolved_labels[l].name
    BY DEF Checked
  <2>4. \A k \in DOMAIN instructions : Runnable(instructions[k])
    BY <2>1, <2>2, <2>3, SameProgram DEF CP!SilentMeansRunnable, CP!Insns
  <2>5. InstructionsAccepted(instructions)
    BY <2>1, <2>2, <2>3, SameProgram
    DEF CP!SilentMeansAccepted, CP!Insns, CP!InstructionsAccepted, InstructionsAccepted
  <2>6. ASSUME NEW l \in DOMAIN resolved_labels, NEW m \in DOMAIN resolved_labels,
               resolved_labels[l].name = resolved_labels[m].name
        PROVE  l = m
    <3>1. DOMAIN resolved_labels = 1 .. Len(resolved_labels) /\ Len(resolved_labels) \in Nat
      BY <1>1 DEF InterpInv, IInv, TypeOK
    <3>2. CP!Duplicated = {}
      BY <2>1, <2>2 DEF CP!SilentMeansRunnable
    <3>3. ~(l < m) /\ ~(m < l)
      BY <2>3, <2>6, <3>1, <3>2 DEF CP!Duplicated
    <3> QED
      BY <3>1, <3>3
  <2>7. BranchesInRange(instructions)
    BY <1>1 DEF InterpInv, IInv
  <2> QED
    BY <2>4, <2>5, <2>6, <2>7
<1> QED
  BY <1>1, InterpInvariance, PTL

\* Whatever the source, at most one error is reported, and then nothing is run.
THEOREM OneReportOnly == InterpSpec => []OneReport
<1>1. ASSUME InterpInv PROVE OneReport
  <2>1. /\ parser_reports \in Seq(PP!Report)
        /\ Len(parser_reports) <= 1
        /\ parser_status # "exited" => parser_reports = << >>
    BY <1>1 DEF InterpInv, PP!IInv, PP!TypeOK
  <2>2. CASE stage \in {"parse", "build"}
    <3>1. Len(check_reports) = 0
      BY <1>1, <2>2 DEF InterpInv
    <3>2. parser_status # "exited" => Len(parser_reports) = 0
      BY <2>1
    <3>3. Len(parser_reports) \in Nat
      BY <2>1
    <3>4. parser_status = "exited" => Aborted
      BY DEF Aborted
    <3>5. parser_reports # << >> => stage = "parse" /\ instructions = << >>
      BY <1>1, <2>1, <2>2 DEF InterpInv
    <3> QED
      BY <2>1, <3>1, <3>2, <3>3, <3>4, <3>5 DEF OneReport
  <2>3. CASE stage \in {"check", "run"}
    <3>1. parser_reports = << >>
      BY <1>1, <2>1, <2>3 DEF InterpInv
    <3>2. check_phase # "exited" => check_reports = << >>
      BY <1>1, <2>3 DEF InterpInv, CP!IInv
    <3>3. check_phase = "exited" => Len(check_reports) = 1 /\ Aborted
      BY <1>1, <2>3 DEF InterpInv, CP!IInv, CP!FirstDefectReported, Aborted
    <3>4. CASE check_phase = "exited"
      <4>1. Len(parser_reports) + Len(check_reports) = 1
        BY <3>1, <3>3, <3>4
      <4> QED
        BY <3>1, <3>3, <3>4, <4>1 DEF OneReport
    <3>5. CASE check_phase # "exited"
      <4>1. Len(parser_reports) + Len(check_reports) = 0
        BY <3>1, <3>2, <3>5
      <4> QED
        BY <3>1, <4>1 DEF OneReport
    <3> QED
      BY <3>4, <3>5
  <2>4. stage \in {"parse", "build", "check", "run"}
    BY <1>1 DEF InterpInv
  <2> QED
    BY <2>2, <2>3, <2>4
<1> QED
  BY <1>1, InterpInvariance, PTL
-----------------------------------------------------------------------------
(* What is accepted is what is meaningful *)

Kinds == {"memory", "integer", "string", "label", "register"}

\* What conversion and resolution make of the jth operand, by its kind.
StandsFor(op, opc, node, j, names) ==
  LET kind == Kind(opc, node)
  IN  /\ kind = "memory" => op.type = "MEM_ADDRESS" /\ op.arg = Letter[node.register]
      /\ kind = "integer" => op.type = "INT"
      /\ kind = "string" => op.type = "STR"
      /\ kind = "register" => op.type = "REG" /\ op.arg = Letter[node.token.value]
      /\ kind = "label" =>
           op.type = IF j = 1 /\ node.token.value \in names THEN "BRANCH" ELSE "UNRESOLVED_BRANCH"

\* insn is made of n, in a program with labels of these names.
MadeOf(insn, n, names) ==
  /\ insn.opcode = get_opcode(n.opcode)
  /\ insn.operands \in Seq(Operand) /\ Len(insn.operands) = Len(n.operands)
  /\ \A j \in DOMAIN n.operands :
       StandsFor(insn.operands[j], n.opcode, n.operands[j], j, names)

LEMMA KindIs ==
  ASSUME NEW opc, NEW node
  PROVE  /\ Kind(opc, node) \in Kinds
         /\ Kind(opc, node) = "label" <=>
              /\ opc \in BranchOpcode
              /\ node.type # "MEM_ADDRESS" /\ node.token.type \notin {"INT", "STRING"}
         /\ Kind(opc, node) = "register" => opc \notin BranchOpcode
BY DEF Kind, Kinds

LEMMA KindsTyped ==
  ASSUME NEW n \in InstructionNode
  PROVE  /\ KindsOf(n) \in Seq(Kinds)
         /\ Len(KindsOf(n)) = Len(n.operands) /\ DOMAIN KindsOf(n) = DOMAIN n.operands
         /\ DOMAIN n.operands = 1 .. Len(n.operands) /\ Len(n.operands) \in Nat
         /\ \A k \in DOMAIN n.operands : KindsOf(n)[k] \in Kinds
<1>1. n.operands \in Seq(OperandNode)
  BY DEF InstructionNode
<1>2. DOMAIN n.operands = 1 .. Len(n.operands) /\ Len(n.operands) \in Nat
  BY <1>1
<1>3. \A k \in DOMAIN n.operands : KindsOf(n)[k] \in Kinds
  BY KindIs DEF KindsOf
<1>4. KindsOf(n) \in [1 .. Len(n.operands) -> Kinds]
  BY <1>2, KindIs DEF KindsOf
<1> QED
  BY <1>2, <1>3, <1>4

\* The types of the operands, by their kinds.
LEMMA TypeByKind ==
  ASSUME NEW n \in InstructionNode, NEW insn, NEW names, MadeOf(insn, n, names),
         NEW j \in DOMAIN n.operands
  PROVE  LET type == insn.operands[j].type
             kind == KindsOf(n)[j]
         IN  /\ type \in OperandType
             /\ kind = "register" <=> type = "REG"
             /\ kind = "integer" <=> type = "INT"
             /\ kind = "memory" <=> type = "MEM_ADDRESS"
             /\ kind = "label" <=> type \in {"BRANCH", "UNRESOLVED_BRANCH"}
             /\ kind = "label" /\ j = 1 =>
                  (type = "BRANCH" <=> n.operands[j].token.value \in names)
<1>1. StandsFor(insn.operands[j], n.opcode, n.operands[j], j, names)
  BY DEF MadeOf
<1>2. KindsOf(n)[j] = Kind(n.opcode, n.operands[j]) /\ KindsOf(n)[j] \in Kinds
  BY KindIs DEF KindsOf
<1> QED
  BY <1>1, <1>2 DEF StandsFor, Kinds, OperandType

\* Invalid registers are names that are no registers.
LEMMA InvalidByKind ==
  ASSUME NEW n \in InstructionNode, NEW insn, NEW names, MadeOf(insn, n, names)
  PROVE  InvalidOperands(insn) = {} <=> RegistersAre(n)
<1>1. DOMAIN insn.operands = DOMAIN n.operands
  BY KindsTyped DEF MadeOf
<1>2. ASSUME NEW k \in DOMAIN n.operands
      PROVE  InvalidRegister(insn.operands[k]) <=>
               ~ /\ KindsOf(n)[k] = "memory" => IsRegister(n.operands[k].register)
                 /\ KindsOf(n)[k] = "register" => IsRegister(n.operands[k].token.value)
  <2>1. StandsFor(insn.operands[k], n.opcode, n.operands[k], k, names)
        /\ KindsOf(n)[k] = Kind(n.opcode, n.operands[k])
    BY DEF MadeOf, KindsOf
  <2>2. /\ KindsOf(n)[k] = "register" <=> insn.operands[k].type = "REG"
        /\ KindsOf(n)[k] = "memory" <=> insn.operands[k].type = "MEM_ADDRESS"
    BY TypeByKind
  <2> QED
    BY <2>1, <2>2 DEF StandsFor, InvalidRegister, IsRegister
<1> QED
  BY <1>1, <1>2 DEF InvalidOperands, RegistersAre

LEMMA NoErrors ==
  ASSUME NEW insn
  PROVE  OperandErrors(insn) = {} <=>
           /\ InvalidOperands(insn) = {}
           /\ \/ insn.opcode \in Unchecked
              \/ ~WrongNumber(insn) /\ ~Undefined(insn) /\ WrongTypes(insn) = {}
BY DEF OperandErrors

\* How many operands an opcode has, and of which types.
LEMMA RequiredIs ==
  /\ \A opc \in Arithmetic : Required(opc) = << OperandType, {"REG", "INT", "MEM_ADDRESS"} >>
  /\ \A opc \in OneRegister : Required(opc) = << {"REG"} >>
  /\ \A opc \in BranchOpcode : Required(opc) = << {"BRANCH"} >>
  /\ \A opc \in NoOperand : Required(opc) = << >>
  /\ Required("cmp") = << {"REG", "INT"}, {"REG", "INT"} >>
  /\ Required("malloc") = << {"REG"}, {"REG"} >>
BY DEF Required, Arithmetic, OneRegister, BranchOpcode, Conditional, NoOperand

LEMMA OpcodeGroups ==
  /\ ValidOpcode = Unchecked \cup NoOperand \cup OneRegister \cup BranchOpcode \cup Arithmetic
                     \cup {"cmp", "malloc"}
  /\ Unchecked \cap (NoOperand \cup OneRegister \cup BranchOpcode \cup Arithmetic \cup {"cmp", "malloc"}) = {}
  /\ NoOperand \cap (OneRegister \cup BranchOpcode \cup Arithmetic \cup {"cmp", "malloc"}) = {}
  /\ OneRegister \cap (BranchOpcode \cup Arithmetic \cup {"cmp", "malloc"}) = {}
  /\ BranchOpcode \cap (Arithmetic \cup {"cmp", "malloc"}) = {}
  /\ Arithmetic \cap {"cmp", "malloc"} = {}
  /\ "<invalid>" \notin ValidOpcode
BY DEF ValidOpcode, Unchecked, NoOperand, OneRegister, BranchOpcode, Conditional, Arithmetic

\* The opcodes that are checked: what the check asks of the operands.
Fitting(insn) == ~WrongNumber(insn) /\ ~Undefined(insn) /\ WrongTypes(insn) = {}

LEMMA NothingFits ==
  ASSUME NEW n \in InstructionNode, NEW insn, NEW names, MadeOf(insn, n, names),
         insn.opcode = n.opcode, n.opcode \in NoOperand
  PROVE  Fitting(insn) <=> KindsOf(n) = << >>
<1>1. Required(insn.opcode) = << >> /\ Len(Required(insn.opcode)) = 0 /\ ~Undefined(insn)
  BY RequiredIs, OpcodeGroups DEF Undefined
<1>2. KindsOf(n) = << >> <=> Len(insn.operands) = 0
  BY KindsTyped, EmptySeq DEF MadeOf
<1>3. Len(insn.operands) = 0 => WrongTypes(insn) = {}
  BY DEF WrongTypes, MadeOf
<1> QED
  BY <1>1, <1>2, <1>3 DEF Fitting, WrongNumber

\* The only operand, or the only two.
LEMMA OneKind ==
  ASSUME NEW n \in InstructionNode, NEW kind
  PROVE  KindsOf(n) = <<kind>> <=> Len(n.operands) = 1 /\ KindsOf(n)[1] = kind
<1>1. KindsOf(n) \in Seq(Kinds) /\ Len(KindsOf(n)) = Len(n.operands)
  BY KindsTyped
<1>2. KindsOf(n) = <<kind>> => Len(KindsOf(n)) = 1 /\ KindsOf(n)[1] = kind
  OBVIOUS
<1>3. ASSUME Len(KindsOf(n)) = 1, KindsOf(n)[1] = kind PROVE KindsOf(n) = <<kind>>
  <2>1. kind \in Kinds /\ <<kind>> \in Seq(Kinds) /\ Len(<<kind>>) = 1
    BY <1>1, <1>3
  <2> QED
    BY <1>1, <1>3, <2>1, SeqEqual
<1> QED
  BY <1>1, <1>2, <1>3

LEMMA TwoKinds ==
  ASSUME NEW n \in InstructionNode, NEW kind, NEW other
  PROVE  KindsOf(n) = <<kind, other>> <=>
           Len(n.operands) = 2 /\ KindsOf(n)[1] = kind /\ KindsOf(n)[2] = other
<1>1. KindsOf(n) \in Seq(Kinds) /\ Len(KindsOf(n)) = Len(n.operands)
  BY KindsTyped
<1>2. KindsOf(n) = <<kind, other>> =>
        Len(KindsOf(n)) = 2 /\ KindsOf(n)[1] = kind /\ KindsOf(n)[2] = other
  OBVIOUS
<1>3. ASSUME Len(KindsOf(n)) = 2, KindsOf(n)[1] = kind, KindsOf(n)[2] = other
      PROVE  KindsOf(n) = <<kind, other>>
  <2>1. kind \in Kinds /\ other \in Kinds
    <3>1. 1 \in DOMAIN n.operands /\ 2 \in DOMAIN n.operands
      BY <1>1, <1>3, KindsTyped
    <3> QED
      BY <1>3, <3>1, KindsTyped
  <2>2. <<kind, other>> \in Seq(Kinds) /\ Len(<<kind, other>>) = 2
        /\ <<kind, other>>[1] = kind /\ <<kind, other>>[2] = other
    BY <2>1
  <2>3. \A k \in 1 .. 2 : KindsOf(n)[k] = <<kind, other>>[k]
    BY <1>3, <2>2
  <2> QED
    BY <1>1, <1>3, <2>2, <2>3, SeqEqual
<1> QED
  BY <1>1, <1>2, <1>3

LEMMA OneFits ==
  ASSUME NEW n \in InstructionNode, NEW insn, NEW names, MadeOf(insn, n, names),
         insn.opcode = n.opcode, n.opcode \in OneRegister
  PROVE  Fitting(insn) <=> KindsOf(n) = <<"register">>
<1>1. Required(insn.opcode) = << {"REG"} >> /\ ~Undefined(insn)
  BY RequiredIs, OpcodeGroups DEF Undefined
<1>2. Len(Required(insn.opcode)) = 1 /\ Required(insn.opcode)[1] = {"REG"}
  BY <1>1
<1>3. Len(insn.operands) = Len(n.operands) /\ DOMAIN insn.operands = DOMAIN n.operands
      /\ DOMAIN n.operands = 1 .. Len(n.operands)
  BY KindsTyped DEF MadeOf
<1>4. ASSUME Len(n.operands) = 1
      PROVE  WrongTypes(insn) = {} <=> KindsOf(n)[1] = "register"
  <2>1. DOMAIN insn.operands = {1} /\ 1 \in DOMAIN n.operands
    BY <1>3, <1>4
  <2>2. WrongTypes(insn) = {} <=> insn.operands[1].type = "REG"
    BY <1>2, <2>1 DEF WrongTypes
  <2> QED
    BY <2>1, <2>2, TypeByKind
<1> QED
  BY <1>1, <1>2, <1>3, <1>4, OneKind DEF Fitting, WrongNumber

LEMMA BranchFits ==
  ASSUME NEW n \in InstructionNode, NEW insn, NEW names, MadeOf(insn, n, names),
         insn.opcode = n.opcode, n.opcode \in BranchOpcode
  PROVE  Fitting(insn) <=> KindsOf(n) = <<"label">> /\ n.operands[1].token.value \in names
<1>1. Required(insn.opcode) = << {"BRANCH"} >>
      /\ (Undefined(insn) <=> insn.operands[1].type = "UNRESOLVED_BRANCH")
  BY RequiredIs DEF Undefined
<1>2. Len(Required(insn.opcode)) = 1 /\ Required(insn.opcode)[1] = {"BRANCH"}
  BY <1>1
<1>3. Len(insn.operands) = Len(n.operands) /\ DOMAIN insn.operands = DOMAIN n.operands
      /\ DOMAIN n.operands = 1 .. Len(n.operands)
  BY KindsTyped DEF MadeOf
<1>4. ASSUME Len(n.operands) = 1
      PROVE  ~Undefined(insn) /\ WrongTypes(insn) = {} <=>
               KindsOf(n)[1] = "label" /\ n.operands[1].token.value \in names
  <2>1. DOMAIN insn.operands = {1} /\ 1 \in DOMAIN n.operands
    BY <1>3, <1>4
  <2>2. WrongTypes(insn) = {} <=> insn.operands[1].type = "BRANCH"
    BY <1>2, <2>1 DEF WrongTypes
  <2> QED
    BY <1>1, <2>1, <2>2, TypeByKind
<1> QED
  BY <1>2, <1>3, <1>4, OneKind DEF Fitting, WrongNumber

\* Opcodes of two operands, the types of which are looked at one by one.
LEMMA TwoFit ==
  ASSUME NEW n \in InstructionNode, NEW insn, NEW names, MadeOf(insn, n, names),
         NEW S, NEW T, Required(insn.opcode) = <<S, T>>, insn.opcode \notin BranchOpcode
  PROVE  Fitting(insn) <=>
           /\ Len(n.operands) = 2
           /\ insn.operands[1].type \in S /\ insn.operands[2].type \in T
<1>1. Len(Required(insn.opcode)) = 2 /\ Required(insn.opcode)[1] = S
      /\ Required(insn.opcode)[2] = T /\ ~Undefined(insn)
  BY DEF Undefined
<1>2. Len(insn.operands) = Len(n.operands) /\ DOMAIN insn.operands = DOMAIN n.operands
      /\ DOMAIN n.operands = 1 .. Len(n.operands)
  BY KindsTyped DEF MadeOf
<1>3. ASSUME Len(n.operands) = 2
      PROVE  WrongTypes(insn) = {} <=> insn.operands[1].type \in S /\ insn.operands[2].type \in T
  <2>1. DOMAIN insn.operands = {1, 2}
    BY <1>2, <1>3
  <2> QED
    BY <1>1, <2>1 DEF WrongTypes
<1> QED
  BY <1>1, <1>2, <1>3 DEF Fitting, WrongNumber

LEMMA CmpFits ==
  ASSUME NEW n \in InstructionNode, NEW insn, NEW names, MadeOf(insn, n, names),
         insn.opcode = n.opcode, n.opcode = "cmp"
  PROVE  Fitting(insn) <=>
           Len(KindsOf(n)) = 2 /\ ToSet(KindsOf(n)) \subseteq {"register", "integer"}
<1>1. Fitting(insn) <=>
           /\ Len(n.operands) = 2
           /\ insn.operands[1].type \in {"REG", "INT"} /\ insn.operands[2].type \in {"REG", "INT"}
  BY TwoFit, RequiredIs, OpcodeGroups
<1>2. Len(KindsOf(n)) = Len(n.operands) /\ DOMAIN KindsOf(n) = 1 .. Len(n.operands)
      /\ DOMAIN KindsOf(n) = DOMAIN n.operands
  BY KindsTyped
<1>3. ASSUME Len(n.operands) = 2
      PROVE  ToSet(KindsOf(n)) \subseteq {"register", "integer"} <=>
               insn.operands[1].type \in {"REG", "INT"} /\ insn.operands[2].type \in {"REG", "INT"}
  <2>1. DOMAIN KindsOf(n) = {1, 2} /\ 1 \in DOMAIN n.operands /\ 2 \in DOMAIN n.operands
    BY <1>2, <1>3
  <2>2. ToSet(KindsOf(n)) = {KindsOf(n)[1], KindsOf(n)[2]}
    BY <2>1 DEF ToSet
  <2>3. /\ KindsOf(n)[1] \in {"register", "integer"} <=> insn.operands[1].type \in {"REG", "INT"}
        /\ KindsOf(n)[2] \in {"register", "integer"} <=> insn.operands[2].type \in {"REG", "INT"}
    BY <2>1, TypeByKind
  <2> QED
    BY <2>2, <2>3
<1> QED
  BY <1>1, <1>2, <1>3

LEMMA MallocFits ==
  ASSUME NEW n \in InstructionNode, NEW insn, NEW names, MadeOf(insn, n, names),
         insn.opcode = n.opcode, n.opcode = "malloc"
  PROVE  Fitting(insn) <=> KindsOf(n) = <<"register", "register">>
<1>1. Fitting(insn) <=>
           /\ Len(n.operands) = 2
           /\ insn.operands[1].type \in {"REG"} /\ insn.operands[2].type \in {"REG"}
  BY TwoFit, RequiredIs, OpcodeGroups
<1>2. ASSUME Len(n.operands) = 2
      PROVE  /\ KindsOf(n)[1] = "register" <=> insn.operands[1].type = "REG"
             /\ KindsOf(n)[2] = "register" <=> insn.operands[2].type = "REG"
  <2>1. 1 \in DOMAIN n.operands /\ 2 \in DOMAIN n.operands
    BY <1>2, KindsTyped
  <2> QED
    BY <2>1, TypeByKind
<1> QED
  BY <1>1, <1>2, TwoKinds

LEMMA ArithmeticFits ==
  ASSUME NEW n \in InstructionNode, NEW insn, NEW names, MadeOf(insn, n, names),
         insn.opcode = n.opcode, n.opcode \in Arithmetic
  PROVE  Fitting(insn) <=>
           Len(KindsOf(n)) = 2 /\ KindsOf(n)[2] \in {"register", "integer", "memory"}
<1>1. Fitting(insn) <=>
           /\ Len(n.operands) = 2
           /\ insn.operands[1].type \in OperandType
           /\ insn.operands[2].type \in {"REG", "INT", "MEM_ADDRESS"}
  BY TwoFit, RequiredIs, OpcodeGroups
<1>2. Len(KindsOf(n)) = Len(n.operands)
  BY KindsTyped
<1>3. ASSUME Len(n.operands) = 2
      PROVE  /\ insn.operands[1].type \in OperandType
             /\ KindsOf(n)[2] \in {"register", "integer", "memory"} <=>
                  insn.operands[2].type \in {"REG", "INT", "MEM_ADDRESS"}
  <2>1. 1 \in DOMAIN n.operands /\ 2 \in DOMAIN n.operands
    BY <1>3, KindsTyped
  <2> QED
    BY <2>1, TypeByKind
<1> QED
  BY <1>1, <1>2, <1>3

Passes(n, names) == Meaningful(n, names) \/ WrongTarget(n)

\* check_operands finds nothing wrong with exactly the instructions that mean
\* something, or would but for the target of arithmetic.
LEMMA AcceptedMeans ==
  ASSUME NEW n \in InstructionNode, NEW insn, NEW names, MadeOf(insn, n, names)
  PROVE  insn.opcode # "<invalid>" /\ OperandErrors(insn) = {} <=> Passes(n, names)
<1>1. Passes(n, names) <=>
        /\ RegistersAre(n)
        /\ \/ n.opcode \in Unchecked
           \/ n.opcode \in NoOperand /\ KindsOf(n) = << >>
           \/ n.opcode \in OneRegister /\ KindsOf(n) = <<"register">>
           \/ n.opcode = "malloc" /\ KindsOf(n) = <<"register", "register">>
           \/ n.opcode \in BranchOpcode /\ KindsOf(n) = <<"label">>
                /\ n.operands[1].token.value \in names
           \/ n.opcode = "cmp" /\ Len(KindsOf(n)) = 2
                /\ ToSet(KindsOf(n)) \subseteq {"register", "integer"}
           \/ n.opcode \in Arithmetic /\ Len(KindsOf(n)) = 2
                /\ KindsOf(n)[2] \in {"register", "integer", "memory"}
  BY DEF Passes, Meaningful, WrongTarget, ValueKind
<1>2. OperandErrors(insn) = {} <=>
        RegistersAre(n) /\ (insn.opcode \in Unchecked \/ Fitting(insn))
  BY NoErrors, InvalidByKind DEF Fitting
<1>3. CASE n.opcode \notin ValidOpcode
  <2>1. insn.opcode = "<invalid>"
    BY <1>3 DEF MadeOf, get_opcode
  <2> QED
    BY <1>1, <1>3, <2>1, OpcodeGroups
<1>4. CASE n.opcode \in ValidOpcode
  <2>1. insn.opcode = n.opcode /\ insn.opcode # "<invalid>"
    BY <1>4, OpcodeGroups DEF MadeOf, get_opcode
  <2>2. CASE n.opcode \in Unchecked
    BY <1>1, <1>2, <2>1, <2>2
  <2>3. CASE n.opcode \in NoOperand
    BY <1>1, <1>2, <2>1, <2>3, NothingFits, OpcodeGroups
  <2>4. CASE n.opcode \in OneRegister
    BY <1>1, <1>2, <2>1, <2>4, OneFits, OpcodeGroups
  <2>5. CASE n.opcode \in BranchOpcode
    BY <1>1, <1>2, <2>1, <2>5, BranchFits, OpcodeGroups
  <2>6. CASE n.opcode \in Arithmetic
    BY <1>1, <1>2, <2>1, <2>6, ArithmeticFits, OpcodeGroups
  <2>7. CASE n.opcode = "cmp"
    BY <1>1, <1>2, <2>1, <2>7, CmpFits, OpcodeGroups
  <2>8. CASE n.opcode = "malloc"
    BY <1>1, <1>2, <2>1, <2>8, MallocFits, OpcodeGroups
  <2> QED
    BY <1>4, <2>2, <2>3, <2>4, <2>5, <2>6, <2>7, <2>8, OpcodeGroups
<1> QED
  BY <1>3, <1>4

-----------------------------------------------------------------------------
(* The built program and its source *)

LabelNames(t) == {t.labels[l].name : l \in DOMAIN t.labels}

\* An operand is told by its kind before branches are resolved.
LEMMA ConvertedByKind ==
  ASSUME NEW opc \in Symbols, NEW node \in OperandNode
  PROVE  LET op == convert_operand(get_opcode(opc), node)
             kind == Kind(opc, node)
         IN  /\ kind = "memory" => op.type = "MEM_ADDRESS" /\ op.arg = Letter[node.register]
             /\ kind = "integer" => op.type = "INT"
             /\ kind = "string" => op.type = "STR"
             /\ kind = "register" => op.type = "REG" /\ op.arg = Letter[node.token.value]
             /\ kind = "label" =>
                  /\ op.type = "UNRESOLVED_BRANCH" /\ op.arg = node.token.value
             /\ kind # "label" => op.type # "UNRESOLVED_BRANCH"
<1>1. get_opcode(opc) \in BranchOpcode <=> opc \in BranchOpcode
  BY DEF get_opcode, ValidOpcode, BranchOpcode, Conditional
<1>2. CASE node.type = "MEM_ADDRESS"
  BY <1>2 DEF Kind, convert_operand
<1>3. CASE node.type # "MEM_ADDRESS" /\ node.token.type = "INT"
  BY <1>3 DEF Kind, convert_operand
<1>4. CASE node.type # "MEM_ADDRESS" /\ node.token.type = "STRING"
  BY <1>4 DEF Kind, convert_operand
<1>5. CASE node.type # "MEM_ADDRESS" /\ node.token.type \notin {"INT", "STRING"} /\ opc \in BranchOpcode
  BY <1>1, <1>5 DEF Kind, convert_operand
<1>6. CASE node.type # "MEM_ADDRESS" /\ node.token.type \notin {"INT", "STRING"} /\ opc \notin BranchOpcode
  BY <1>1, <1>6 DEF Kind, convert_operand
<1> QED
  BY <1>2, <1>3, <1>4, <1>5, <1>6

\* The labels of the program are those of the tree, in order.
LEMMA LabelsOfTree ==
  ASSUME IInv, SInv, phase = "built"
  PROVE  /\ DOMAIN resolved_labels = DOMAIN top_node.labels
         /\ \A l \in DOMAIN top_node.labels : resolved_labels[l].name = top_node.labels[l].name
         /\ \A name : Named(name) # {} <=> name \in LabelNames(top_node)
<1>1. /\ top_node \in TopLevelNode /\ resolved_labels \in Seq(ResolvedLabel)
      /\ Len(resolved_labels) = Len(top_node.labels)
  BY BuiltProgram
<1>2. top_node.labels \in Seq(LabelNode)
  BY <1>1 DEF TopLevelNode
<1>3. DOMAIN resolved_labels = DOMAIN top_node.labels
  BY <1>1, <1>2
<1>4. \A l \in DOMAIN top_node.labels : resolved_labels[l].name = top_node.labels[l].name
  BY <1>3 DEF SInv, LabelsAtStart
<1> QED
  BY <1>3, <1>4 DEF Named, LabelNames

\* Every instruction is made of the source's at its place.
LEMMA BuiltOf ==
  ASSUME IInv, SInv, phase = "built", NEW k \in DOMAIN Source(top_node)
  PROVE  /\ Source(top_node)[k].node \in InstructionNode
         /\ MadeOf(instructions[k], Source(top_node)[k].node, LabelNames(top_node))
<1> DEFINE insn == instructions[k]
           n == Source(top_node)[k].node
           plain == SourceInsn(top_node, k)
           names == LabelNames(top_node)
<1>1. /\ top_node \in TopLevelNode /\ resolved_labels \in Seq(ResolvedLabel)
      /\ k \in DOMAIN instructions /\ insn = Resolve(plain)
  BY BuiltProgram
<1>2. /\ n \in InstructionNode /\ plain \in Instruction /\ plain = convert_instruction_node(n)
  BY <1>1, SourceLineType DEF SourceInsn
<1>3. insn \in Instruction
  BY <1>1 DEF IInv, TypeOK
<1> HIDE DEF insn, n, plain, names
<1>4. /\ plain.opcode = get_opcode(n.opcode) /\ Len(plain.operands) = Len(n.operands)
      /\ DOMAIN plain.operands = DOMAIN n.operands
      /\ \A j \in DOMAIN n.operands :
           /\ n.operands[j] \in OperandNode
           /\ plain.operands[j] = convert_operand(get_opcode(n.opcode), n.operands[j])
  BY <1>2, ConvertShape
<1> DEFINE op == plain.operands[1]
           found == plain.operands # << >> /\ op.type = "UNRESOLVED_BRANCH" /\ Named(op.arg) # {}
<1>5. /\ insn.opcode = plain.opcode /\ Len(insn.operands) = Len(plain.operands)
      /\ \A j \in DOMAIN plain.operands :
           IF found /\ j = 1 THEN insn.operands[j].type = "BRANCH"
           ELSE insn.operands[j] = plain.operands[j]
  <2> DEFINE branch == [type |-> "BRANCH",
                        arg |-> resolved_labels[Target(op.arg)].instruction_index,
                        extra |-> op.extra]
  <2>1. /\ insn.opcode = plain.opcode /\ Len(insn.operands) = Len(plain.operands)
        /\ \A j \in DOMAIN plain.operands :
             insn.operands[j] = IF found /\ j = 1 THEN branch ELSE plain.operands[j]
    BY <1>1, <1>2, ResolveShape
  <2>2. branch.type = "BRANCH"
    OBVIOUS
  <2> HIDE DEF branch, found
  <2> QED
    BY <2>1, <2>2
<1>6. n.opcode \in Symbols /\ insn.operands \in Seq(Operand)
  BY <1>2, <1>3 DEF InstructionNode, Instruction
<1>7. ASSUME NEW j \in DOMAIN n.operands
      PROVE  StandsFor(insn.operands[j], n.opcode, n.operands[j], j, names)
  <2> DEFINE node == n.operands[j]
             kind == Kind(n.opcode, node)
             old == plain.operands[j]
             new == insn.operands[j]
  <2>1. /\ kind = "memory" => old.type = "MEM_ADDRESS" /\ old.arg = Letter[node.register]
        /\ kind = "integer" => old.type = "INT"
        /\ kind = "string" => old.type = "STR"
        /\ kind = "register" => old.type = "REG" /\ old.arg = Letter[node.token.value]
        /\ kind = "label" => old.type = "UNRESOLVED_BRANCH" /\ old.arg = node.token.value
        /\ kind # "label" => old.type # "UNRESOLVED_BRANCH"
    BY <1>4, <1>6, ConvertedByKind
  <2>2. IF found /\ j = 1 THEN new.type = "BRANCH" ELSE new = old
    BY <1>4, <1>5
  <2>3. j = 1 => (found <=> kind = "label" /\ node.token.value \in names)
    <3>1. Named(old.arg) # {} <=> old.arg \in names
      BY LabelsOfTree DEF names
    <3>2. plain.operands # << >>
      BY <1>4
    <3> QED
      BY <2>1, <3>1, <3>2
  <2> HIDE DEF found, old, new, kind, node
  <2>4. CASE found /\ j = 1
    <3>1. kind = "label" /\ node.token.value \in names /\ new.type = "BRANCH"
      BY <2>2, <2>3, <2>4
    <3> QED
      BY <2>4, <3>1 DEF StandsFor, kind, node, new
  <2>5. CASE ~(found /\ j = 1)
    <3>1. new = old /\ ~(j = 1 /\ kind = "label" /\ node.token.value \in names)
      BY <2>2, <2>3, <2>5
    <3> QED
      BY <2>1, <3>1 DEF StandsFor, kind, node, new
  <2> QED
    BY <2>4, <2>5
<1> QED
  BY <1>2, <1>4, <1>5, <1>6, <1>7 DEF MadeOf, n, insn, names

\* The lines of a tree.
LinesOf(t) ==
  ToSet(t.instructions) \cup UNION {ToSet(t.labels[l].instructions) : l \in DOMAIN t.labels}

LEMMA LinesAre ==
  ASSUME NEW t \in TopLevelNode
  PROVE  LinesOf(t) = {Source(t)[k].node : k \in DOMAIN Source(t)}
<1>1. /\ t.labels \in Seq(LabelNode) /\ DOMAIN t.labels = 1 .. Len(t.labels) /\ Len(t.labels) \in Nat
  BY DEF TopLevelNode
<1>2. \A b \in Bodies(t) : BodyIn(t, b) \in Seq(InstructionNode)
        /\ DOMAIN BodyIn(t, b) = 1 .. Len(BodyIn(t, b))
  BY BlockType
<1>3. LinesOf(t) = UNION {ToSet(BodyIn(t, b)) : b \in Bodies(t)}
  <2>1. ToSet(t.instructions) = ToSet(BodyIn(t, 0)) /\ 0 \in Bodies(t)
    BY <1>1 DEF BodyIn, Bodies
  <2>2. \A l \in DOMAIN t.labels : ToSet(t.labels[l].instructions) = ToSet(BodyIn(t, l)) /\ l \in Bodies(t)
    BY <1>1 DEF BodyIn, Bodies
  <2>3. \A b \in Bodies(t) : b = 0 \/ b \in DOMAIN t.labels
    BY <1>1 DEF Bodies
  <2> QED
    BY <2>1, <2>2, <2>3 DEF LinesOf
<1>4. ASSUME NEW n \in LinesOf(t) PROVE \E k \in DOMAIN Source(t) : n = Source(t)[k].node
  <2>1. PICK b \in Bodies(t) : n \in ToSet(BodyIn(t, b))
    BY <1>3, <1>4
  <2>2. PICK m \in 1 .. Len(BodyIn(t, b)) : n = BodyIn(t, b)[m]
    BY <1>2, <2>1 DEF ToSet
  <2>3. /\ Start(t, b) + m \in DOMAIN Source(t)
        /\ Source(t)[Start(t, b) + m] = [node |-> BodyIn(t, b)[m], entry |-> NameIn(t, b, m)]
    BY SourceAt
  <2> QED
    BY <2>2, <2>3
<1>5. ASSUME NEW k \in DOMAIN Source(t) PROVE Source(t)[k].node \in LinesOf(t)
  <2>1. PICK b \in Bodies(t) : \E m \in 1 .. Len(BodyIn(t, b)) : k = Start(t, b) + m
    BY SourceWhere
  <2>2. PICK m \in 1 .. Len(BodyIn(t, b)) : k = Start(t, b) + m
    BY <2>1
  <2>3. Source(t)[k].node = BodyIn(t, b)[m]
    <3>1. Source(t)[Start(t, b) + m] = [node |-> BodyIn(t, b)[m], entry |-> NameIn(t, b, m)]
      BY SourceAt
    <3> QED
      BY <2>2, <3>1
  <2>4. BodyIn(t, b)[m] \in ToSet(BodyIn(t, b))
    BY <1>2 DEF ToSet
  <2> QED
    BY <1>3, <2>3, <2>4
<1> QED
  BY <1>4, <1>5

-----------------------------------------------------------------------------
(* What is run is meaningful *)

LEMMA SameGrammar == P!Grammatical(tokens) <=> PP!Grammatical(tokens)
BY DEF P!Grammatical, PP!Grammatical, P!Heads, PP!Heads, P!Fits, PP!Fits, P!BehindLone,
       PP!BehindLone, P!Lone, PP!Lone, P!HasLabel, PP!HasLabel, P!IsInstruction,
       PP!IsInstruction, P!OperandsBetweenCuts, PP!OperandsBetweenCuts, P!Cuts, PP!Cuts,
       P!OperandTypes, PP!OperandTypes, P!Types, PP!Types, P!LineEnd, PP!LineEnd, P!Starts,
       PP!Starts, P!Ends, PP!Ends

Tree == [instructions |-> parsed_instructions, labels |-> parsed_labels]

\* What each call leaves for the next one.
MeaningInv ==
  /\ PP!AcceptedSoFar
  /\ stage # "parse" => SInv /\ top_node = Tree
  /\ stage \in {"check", "run"} => phase = "built" /\ CP!Complete /\ CP!StoppedForADefect

LEMMA InitMeaning == InterpInit => MeaningInv
<1> SUFFICES ASSUME InterpInit PROVE MeaningInv
  OBVIOUS
<1>1. PP!Init
  BY DEF InterpInit, P!Init, PP!Init
<1>2. PP!AcceptedSoFar
  BY <1>1, PP!InitAccepts, ParserAssumptions
<1> QED
  BY <1>2 DEF InterpInit, MeaningInv

LEMMA ParserAccepts ==
  PP!IInv /\ PP!AcceptedSoFar /\ [P!Next]_parser_vars => PP!AcceptedSoFar'
<1>1. UNCHANGED parser_vars => UNCHANGED PP!vars
  BY DEF parser_vars, PP!vars, PP!input, PP!nodes
<1> QED
  BY <1>1, PP!NextAccepts, ParserAssumptions, ParserStep

LEMMA CheckCompletes ==
  /\ CP!IInv /\ CP!Complete /\ CP!StoppedForADefect
  /\ C!Next \/ UNCHANGED <<check_vars, exits, instructions, resolved_labels>>
  => CP!Complete' /\ CP!StoppedForADefect'
<1>1. UNCHANGED <<check_vars, exits, instructions, resolved_labels>> => UNCHANGED CP!vars
  BY DEF check_vars, Checked, CP!vars
<1> QED
  BY <1>1, CP!NextCInv, CP!NextStopped, CheckAssumptions, CheckStep DEF CP!CInv

LEMMA ParseMeans == InterpInv /\ MeaningInv /\ Parse => MeaningInv'
<1> SUFFICES ASSUME InterpInv, MeaningInv, Parse PROVE MeaningInv'
  OBVIOUS
<1>1. stage = "parse" /\ stage' = "parse" /\ P!Next
  BY DEF Parse
<1>2. PP!AcceptedSoFar'
  BY <1>1, ParserAccepts DEF InterpInv, MeaningInv
<1> QED
  BY <1>1, <1>2 DEF MeaningInv

LEMMA ParseReturnsMeans == InterpInv /\ MeaningInv /\ ParseReturns => MeaningInv'
<1> SUFFICES ASSUME InterpInv, MeaningInv, ParseReturns PROVE MeaningInv'
  OBVIOUS
<1>1. /\ stage = "parse" /\ stage' = "build" /\ top_node' = Tree
      /\ UNCHANGED <<instructions, resolved_labels, converted, resolved, phase>>
      /\ UNCHANGED parser_vars
  BY DEF ParseReturns, Tree
<1>2. PP!AcceptedSoFar'
  BY <1>1, ParserAccepts DEF InterpInv, MeaningInv
<1>3. /\ instructions' = << >> /\ resolved_labels' = << >>
      /\ converted' = 0 /\ resolved' = 0 /\ phase' = "convert"
  BY <1>1 DEF InterpInv
<1>4. top_node' \in TopLevelNode
  BY ParseReturnsKeeps DEF InterpInv, IInv, TypeOK
<1>5. Start(top_node', 0) = 0
  BY <1>4, StartStep
<1>6. SInv'
  BY <1>3, <1>5 DEF SInv, LaidOut, LabelsAtStart, Phases, InstructionsMean
<1>7. Tree' = Tree
  BY <1>1 DEF Tree, parser_vars
<1> QED
  BY <1>1, <1>2, <1>6, <1>7 DEF MeaningInv

LEMMA BuildMeans == InterpInv /\ MeaningInv /\ (Build \/ BuildReturns) => MeaningInv'
<1> SUFFICES ASSUME InterpInv, MeaningInv, Build \/ BuildReturns PROVE MeaningInv'
  OBVIOUS
<1>1. /\ stage = "build" /\ [Next]_vars /\ UNCHANGED parser_vars
      /\ stage' \in {"build", "check"}
      /\ stage' = "check" => phase' = "built" /\ check_phase' = "labels"
  BY DEF Build, BuildReturns, vars, InterpInv, check_vars
<1>2. PP!AcceptedSoFar'
  BY <1>1, ParserAccepts DEF InterpInv, MeaningInv
<1>3. SInv'
  BY <1>1, NextSInv DEF InterpInv, MeaningInv
<1>4. top_node' = top_node
  BY <1>1 DEF Next, ConvertInstruction, RegisterLabel, AllConverted, ResolveBranch, Finish,
              Stopped, vars
<1>5. Tree' = Tree
  BY <1>1 DEF Tree, parser_vars
<1>6. check_phase' = "labels" => CP!Complete' /\ CP!StoppedForADefect'
  BY DEF CP!Complete, CP!StoppedForADefect
<1> QED
  BY <1>1, <1>2, <1>3, <1>4, <1>5, <1>6 DEF MeaningInv

LEMMA CheckMeans == InterpInv /\ MeaningInv /\ (Check \/ CheckReturns) => MeaningInv'
<1> SUFFICES ASSUME InterpInv, MeaningInv, Check \/ CheckReturns PROVE MeaningInv'
  OBVIOUS
<1>1. /\ stage = "check" /\ stage' \in {"check", "run"}
      /\ UNCHANGED vars /\ UNCHANGED parser_vars
      /\ C!Next \/ UNCHANGED <<check_vars, exits, instructions, resolved_labels>>
  BY DEF Check, CheckReturns, parser_vars, check_vars, vars
<1>2. PP!AcceptedSoFar'
  BY <1>1, ParserAccepts DEF InterpInv, MeaningInv
<1>3. SInv'
  BY <1>1, NextSInv DEF InterpInv, MeaningInv
<1>4. top_node' = top_node /\ phase' = phase /\ Tree' = Tree
  BY <1>1 DEF vars, parser_vars, Tree
<1>5. CP!Complete' /\ CP!StoppedForADefect'
  BY <1>1, CheckCompletes DEF InterpInv, MeaningInv
<1> QED
  BY <1>1, <1>2, <1>3, <1>4, <1>5 DEF MeaningInv

LEMMA NextMeaning == InterpInv /\ MeaningInv /\ [InterpNext]_interp_vars => MeaningInv'
<1> SUFFICES ASSUME InterpInv, MeaningInv, [InterpNext]_interp_vars PROVE MeaningInv'
  OBVIOUS
<1>1. CASE InterpStopped \/ UNCHANGED interp_vars
  <2>1. /\ UNCHANGED stage /\ UNCHANGED vars /\ UNCHANGED parser_vars /\ UNCHANGED check_vars
    BY <1>1 DEF InterpStopped, interp_vars
  <2>2. PP!AcceptedSoFar'
    BY <2>1, ParserAccepts DEF InterpInv, MeaningInv
  <2>3. stage # "parse" => SInv'
    BY <2>1, NextSInv DEF InterpInv, MeaningInv
  <2>4. top_node' = top_node /\ phase' = phase /\ Tree' = Tree
    BY <2>1 DEF vars, parser_vars, Tree
  <2>5. stage \in {"check", "run"} => CP!Complete' /\ CP!StoppedForADefect'
    <3>1. UNCHANGED <<check_vars, exits, instructions, resolved_labels>>
      BY <2>1 DEF parser_vars, vars
    <3> QED
      BY <3>1, CheckCompletes DEF InterpInv, MeaningInv
  <2> QED
    BY <2>1, <2>2, <2>3, <2>4, <2>5 DEF MeaningInv
<1> QED
  BY <1>1, ParseMeans, ParseReturnsMeans, BuildMeans, CheckMeans DEF InterpNext

\* The names of the labels are distinct, and every line passes.
LinesMean ==
  LET names == [l \in DOMAIN parsed_labels |-> parsed_labels[l].name]
      lines == ToSet(parsed_instructions)
                 \cup UNION {ToSet(parsed_labels[l].instructions) : l \in DOMAIN parsed_labels}
  IN  IsInjective(names) /\ \A n \in lines : Passes(n, ToSet(names))

\* That is what program_check finds out about the built program.
LEMMA CheckIsMeaning ==
  ASSUME IInv, SInv, phase = "built", top_node = Tree
  PROVE  LinesMean <=>
           /\ CP!Duplicated = {}
           /\ \A k \in DOMAIN CP!Insns : ~CP!Defective(k)
<1> DEFINE names == [l \in DOMAIN parsed_labels |-> parsed_labels[l].name]
<1>1. /\ top_node \in TopLevelNode /\ top_node.labels = parsed_labels
      /\ top_node.instructions = parsed_instructions
      /\ DOMAIN instructions = DOMAIN Source(top_node)
      /\ parsed_labels \in Seq(LabelNode) /\ DOMAIN parsed_labels = 1 .. Len(parsed_labels)
      /\ Len(parsed_labels) \in Nat
  BY BuiltProgram DEF Tree, TopLevelNode
<1>2. ToSet(names) = LabelNames(top_node)
  BY <1>1 DEF ToSet, LabelNames
<1>3. LinesMean <=> IsInjective(names) /\ \A n \in LinesOf(top_node) : Passes(n, LabelNames(top_node))
  BY <1>1, <1>2 DEF LinesMean, LinesOf
<1>4. IsInjective(names) <=> CP!Duplicated = {}
  <2>1. /\ DOMAIN Checked.labels = DOMAIN parsed_labels
        /\ \A l \in DOMAIN parsed_labels : Checked.labels[l] = parsed_labels[l].name
    BY <1>1, LabelsOfTree DEF Checked
  <2>2. CP!Duplicated =
          {b \in DOMAIN parsed_labels : \E a \in 1 .. b - 1 : Checked.labels[a] = Checked.labels[b]}
    BY <2>1 DEF CP!Duplicated
  <2>3. ASSUME CP!Duplicated = {}, NEW a \in DOMAIN parsed_labels, NEW b \in DOMAIN parsed_labels,
               parsed_labels[a].name = parsed_labels[b].name
        PROVE  a = b
    <3>1. Checked.labels[a] = Checked.labels[b] /\ a \in Nat /\ b \in Nat /\ 1 <= a /\ 1 <= b
      BY <1>1, <2>1, <2>3
    <3>2. a \notin 1 .. b - 1 /\ b \notin 1 .. a - 1
      BY <2>2, <2>3, <3>1
    <3> QED
      BY <3>1, <3>2
  <2>4. ASSUME NEW b \in CP!Duplicated
        PROVE  \E a, c \in DOMAIN parsed_labels : parsed_labels[a].name = parsed_labels[c].name /\ a # c
    <3>1. PICK a \in 1 .. b - 1 : Checked.labels[a] = Checked.labels[b]
      BY <2>2
    <3>2. b \in DOMAIN parsed_labels /\ a \in DOMAIN parsed_labels /\ a # b
      BY <1>1, <2>2
    <3> QED
      BY <2>1, <3>1, <3>2
  <2>5. IsInjective(names) <=>
          \A a, b \in DOMAIN parsed_labels : parsed_labels[a].name = parsed_labels[b].name => a = b
    BY DEF IsInjective
  <2> QED
    BY <2>3, <2>4, <2>5
<1>5. ASSUME NEW k \in DOMAIN Source(top_node)
      PROVE  ~CP!Defective(k) <=> Passes(Source(top_node)[k].node, LabelNames(top_node))
  <2>1. instructions[k].opcode # "<invalid>" /\ OperandErrors(instructions[k]) = {} <=>
          Passes(Source(top_node)[k].node, LabelNames(top_node))
    BY BuiltOf, AcceptedMeans
  <2>2. CP!Insns = instructions /\ CP!OperandErrors(instructions[k]) = OperandErrors(instructions[k])
    BY SameProgram DEF CP!Insns, Checked
  <2> QED
    BY <2>1, <2>2 DEF CP!Defective
<1>6. CP!Insns = instructions
  BY DEF CP!Insns, Checked
<1> QED
  BY <1>1, <1>3, <1>4, <1>5, <1>6, LinesAre

\* A source is run if and only if it is a program, the target of arithmetic
\* apart: whatever the source, interp runs each one that is, and refuses each
\* that is not unless a target of arithmetic is all that is wrong with it.
THEOREM MeaningfulRun == InterpSpec => []RunsWhatIsMeaningful
<1>1. ASSUME InterpInv, MeaningInv PROVE RunsWhatIsMeaningful
  <2> SUFFICES ASSUME InterpDone
               PROVE  stage = "run" <=> PP!Grammatical(tokens) /\ LinesMean
    BY SameGrammar DEF RunsWhatIsMeaningful, LinesMean, Passes
  <2>1. PP!AcceptsTheLanguage
    BY <1>1, PP!AcceptedIsGrammatical, ParserAssumptions DEF InterpInv, MeaningInv
  <2>2. parser_status # "exited" => parser_reports = << >>
    BY <1>1 DEF InterpInv, PP!IInv, PP!TypeOK
  <2>3. CASE stage = "parse"
    <3>1. parser_status \in {"exited", "assertion", "null_dereferenced"}
      BY <1>1, <2>3 DEF InterpDone, Aborted, InterpInv
    <3> QED
      BY <2>1, <2>3, <3>1 DEF PP!AcceptsTheLanguage
  <2>4. CASE stage # "parse"
    <3>1. parser_status = "parsed" /\ SInv /\ IInv /\ phase # "assertion" /\ top_node = Tree
      BY <1>1, <2>4 DEF InterpInv, MeaningInv, SInv, Phases
    <3>2. PP!Grammatical(tokens)
      BY <2>1, <2>2, <3>1 DEF PP!AcceptsTheLanguage
    <3>3. CASE stage = "build"
      BY <1>1, <3>1, <3>3 DEF InterpDone, Aborted, InterpInv
    <3>4. CASE stage \in {"check", "run"}
      <4>1. /\ CP!IInv /\ CP!StoppedForADefect /\ phase = "built" /\ exits
            /\ stage = "run" => check_phase = "done"
        BY <1>1, <3>4 DEF InterpInv, MeaningInv
      <4>2. stage = "check" => check_phase \in {"exited", "undefined"}
        BY <3>1 DEF InterpDone, Aborted
      <4>3. LinesMean <=> CP!Duplicated = {} /\ \A k \in DOMAIN CP!Insns : ~CP!Defective(k)
        BY <3>1, <4>1, CheckIsMeaning
      <4>4. check_phase = "done" => CP!Duplicated = {} /\ \A k \in DOMAIN CP!Insns : ~CP!Defective(k)
        BY <4>1 DEF CP!IInv, CP!FirstDefectReported
      <4>5. check_phase \in {"exited", "undefined"} =>
              CP!Duplicated # {} \/ \E k \in DOMAIN CP!Insns : CP!Defective(k)
        BY <4>1 DEF CP!StoppedForADefect
      <4> QED
        BY <3>2, <3>4, <4>1, <4>2, <4>3, <4>4, <4>5
    <3> QED
      BY <1>1, <2>4, <3>3, <3>4 DEF InterpInv
  <2> QED
    BY <2>3, <2>4
<1> QED
  BY <1>1, InitMeaning, NextMeaning, InterpInvariance, PTL DEF InterpSpec
=============================================================================
