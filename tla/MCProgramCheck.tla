--------------------------- MODULE MCProgramCheck ---------------------------
(***************************************************************************)
(* Programs with every kind of defect check_operands tells apart.          *)
(***************************************************************************)
EXTENDS ProgramCheck

CONSTANTS L1, L2  \* strings

Reg(r) == [type |-> "REG", arg |-> r, extra |-> 0]
Mem(r) == [type |-> "MEM_ADDRESS", arg |-> r, extra |-> 1]
Imm    == [type |-> "INT", arg |-> 0, extra |-> 0]
To     == [type |-> "BRANCH", arg |-> 0, extra |-> 0]
Str    == [type |-> "STR", arg |-> L1, extra |-> 0]
Nowhere == [type |-> "UNRESOLVED_BRANCH", arg |-> L1, extra |-> 0]

I(opcode, ops) == [opcode |-> opcode, operands |-> ops]

Good ==
  { I("mov", <<Mem(0), Reg(0)>>), I("cmp", <<Reg(0), Imm>>), I("jmp", <<To>>),
    I("ret", << >>), I("malloc", <<Reg(0), Reg(0)>>), I("msg", <<Str, Mem(0)>>) }

Bad ==
  { I("<invalid>", <<Reg(0)>>), I("mov", <<Reg(0), Mem(-1)>>), I("add", <<Reg(0), Str>>),
    I("sub", <<Imm, Reg(0)>>), I("mul", <<Reg(0)>>), I("inc", <<Imm>>), I("inc", << >>),
    I("je", <<Nowhere>>), I("call", <<Imm>>), I("end", <<Imm>>), I("cmp", <<Mem(0), Str>>),
    I("cmp", <<Str, Reg(-1)>>), I("malloc", <<Imm, Mem(0)>>), I("print", <<Reg(-1)>>) }

Labels == {<< >>, <<L1, L2>>, <<L2, L1, L1, L2>>}

ProgramsOver(insns, n, labels) ==
  {[instructions |-> s, labels |-> l] : s \in BoundedSeq(insns, n), l \in labels}

\* Errors whose messages share the static buffer, and one that ends the check.
Buffered == {insn \in Bad : insn.opcode \in {"<invalid>", "add", "cmp"}}

\* All pairs of instructions, and three of the defective ones.
AllPrograms == ProgramsOver(Good \cup Bad, 2, Labels) \cup ProgramsOver(Buffered, 3, {<< >>})
FewPrograms == ProgramsOver(Good \cup Bad, 1, {<< >>, <<L1, L1>>})
=============================================================================
