------------------------------ MODULE Program ------------------------------
(***************************************************************************)
(* The program that program_build makes, program_check judges and          *)
(* program_run executes: opcodes, operands, instructions, and what         *)
(* check_operands has to say of one instruction.                           *)
(*                                                                         *)
(* An operand's union (reg_index, int_value, branch_index, str) is the one *)
(* field arg.  Source positions and the wording of messages are left out.  *)
(* A string is a member of the set Strings: its characters do not matter.  *)
(***************************************************************************)
EXTENDS Words, Sequences

CONSTANTS
  NUM_REGISTERS,  \* 26 in the code: the registers a to z
  Strings         \* string literals and label names

ASSUME ProgramAssumption == NUM_REGISTERS \in Nat \ {0}

INVALID_REGISTER_INDEX == -1

RegIndex == 0 .. NUM_REGISTERS - 1

Arithmetic   == {"mov", "add", "sub", "mul", "div"}
OneRegister  == {"inc", "dec", "push", "pop", "mfree"}
Conditional  == {"jne", "je", "jge", "jg", "jle", "jl"}
BranchOpcode == Conditional \cup {"jmp", "call"}
NoOperand    == {"ret", "end"}
Unchecked    == {"msg", "print"}

ValidOpcode ==
  Arithmetic \cup OneRegister \cup BranchOpcode \cup NoOperand
    \cup Unchecked \cup {"cmp", "malloc"}

Opcode == ValidOpcode \cup {"<invalid>"}

OperandType ==
  {"REG", "INT", "BRANCH", "UNRESOLVED_BRANCH", "STR", "MEM_ADDRESS"}

Operand ==
  [type : {"REG", "MEM_ADDRESS"}, arg : RegIndex \cup {INVALID_REGISTER_INDEX}, extra : Word]
    \cup [type : {"INT"}, arg : Word, extra : Word]
    \cup [type : {"BRANCH"}, arg : Nat, extra : Word]
    \cup [type : {"UNRESOLVED_BRANCH", "STR"}, arg : Strings, extra : Word]

Instruction == [opcode : Opcode, operands : Seq(Operand)]

-----------------------------------------------------------------------------
(* check_operands *)

\* Mutant of InvalidRegister: the register of a memory address is not looked at.
InvalidPlainRegister(op) == op.type = "REG" /\ op.arg = INVALID_REGISTER_INDEX

InvalidRegister(op) ==
  op.type \in {"REG", "MEM_ADDRESS"} /\ op.arg = INVALID_REGISTER_INDEX

\* The types each operand may have; its length is the number of operands.
\* The first operand of an arithmetic instruction is not looked at.
Required(opcode) ==
  CASE opcode \in Arithmetic   -> << OperandType, {"REG", "INT", "MEM_ADDRESS"} >>
    [] opcode \in OneRegister  -> << {"REG"} >>
    [] opcode \in BranchOpcode -> << {"BRANCH"} >>
    [] opcode \in NoOperand    -> << >>
    [] opcode = "cmp"          -> << {"REG", "INT"}, {"REG", "INT"} >>
    [] opcode = "malloc"       -> << {"REG"}, {"REG"} >>

InvalidOperands(insn) == {k \in DOMAIN insn.operands : InvalidRegister(insn.operands[k])}

FirstInvalid(insn) ==
  CHOOSE k \in InvalidOperands(insn) : \A j \in InvalidOperands(insn) : k <= j

WrongNumber(insn) == Len(insn.operands) # Len(Required(insn.opcode))

Undefined(insn) ==
  insn.opcode \in BranchOpcode /\ insn.operands[1].type = "UNRESOLVED_BRANCH"

WrongTypes(insn) ==
  {k \in DOMAIN insn.operands : insn.operands[k].type \notin Required(insn.opcode)[k]}

\* The errors reported for one instruction, by kind and operand position, when
\* the handler returns.  An invalid register, a wrong number of operands and an
\* undefined label end the check of the instruction; operand types do not.
OperandErrors(insn) ==
  IF InvalidOperands(insn) # {} THEN
    {[kind |-> "invalid_register", operand |-> FirstInvalid(insn)]}
  ELSE IF insn.opcode \in Unchecked THEN {}
  ELSE IF WrongNumber(insn) THEN {[kind |-> "incorrect_number_of_operands", operand |-> 0]}
  ELSE IF Undefined(insn) THEN {[kind |-> "label_not_defined", operand |-> 1]}
  ELSE {[kind |-> "operand_type", operand |-> k] : k \in WrongTypes(insn)}

\* No error is reported for any of the instructions.
InstructionsAccepted(insns) ==
  \A i \in DOMAIN insns :
    insns[i].opcode # "<invalid>" /\ OperandErrors(insns[i]) = {}

\* What program_run relies on without looking: an opcode it has a case for, an
\* operand of the right kind wherever it reads one, registers it can index and a
\* program counter to jump to.  Of the first operand of arithmetic nothing is
\* asked, as nothing checks it: if it is neither a register nor an address,
\* program_run writes through it all the same (Vm's WildAccess).
Runnable(insn) ==
  LET ops == insn.operands
  IN  /\ insn.opcode \in ValidOpcode
      /\ \A k \in DOMAIN ops : ops[k].type \in {"REG", "MEM_ADDRESS"} => ops[k].arg \in RegIndex
      /\ insn.opcode \in Arithmetic =>
           Len(ops) = 2 /\ ops[2].type \in {"REG", "INT", "MEM_ADDRESS"}
      /\ insn.opcode \in OneRegister => Len(ops) = 1 /\ ops[1].type = "REG"
      /\ insn.opcode \in BranchOpcode => Len(ops) = 1 /\ ops[1].type = "BRANCH"
      /\ insn.opcode = "cmp" =>
           Len(ops) = 2 /\ ops[1].type \in {"REG", "INT"} /\ ops[2].type \in {"REG", "INT"}
      /\ insn.opcode = "malloc" =>
           Len(ops) = 2 /\ ops[1].type = "REG" /\ ops[2].type = "REG"

\* program_build resolves a branch to the index of an instruction.
BranchesInRange(insns) ==
  \A i \in DOMAIN insns : \A k \in DOMAIN insns[i].operands :
    LET op == insns[i].operands[k]
    IN  op.type = "BRANCH" => op.arg \in 0 .. Len(insns) - 1

\* Mutant of program_get_label_by_index: the index is taken for that of the next instruction.
LabelOfTheNext(labels, insn_index, none) ==
  LET here == {l \in DOMAIN labels : labels[l].instruction_index = insn_index + 1}
  IN  IF here = {} THEN none ELSE labels[CHOOSE l \in here : \A m \in here : l <= m].name

\* The first of the resolved labels at an index, or none.
program_get_label_by_index(labels, insn_index, none) ==
  LET here == {l \in DOMAIN labels : labels[l].instruction_index = insn_index}
  IN  IF here = {} THEN none ELSE labels[CHOOSE l \in here : \A m \in here : l <= m].name
=============================================================================
