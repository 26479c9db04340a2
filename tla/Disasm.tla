------------------------------- MODULE Disasm -------------------------------
(***************************************************************************)
(* disasm: lists the instructions of a program, each behind its index and  *)
(* the label that stands there.  What is printed for an operand is its     *)
(* parts, in their order.                                                  *)
(***************************************************************************)
EXTENDS ProgramBuild

LabelAt(index) == program_get_label_by_index(resolved_labels, index, NULL)

\* The listing of main.c has no case for an address; xxdisasm of interp.h does.
disasm_operand(op, addresses) ==
  CASE op.type = "BRANCH"            -> <<op.arg, LabelAt(op.arg)>>
    [] op.type = "UNRESOLVED_BRANCH" -> <<"<unknown label", op.arg>>
    [] op.type = "MEM_ADDRESS"       ->
         IF addresses THEN <<op.extra, op.arg>> ELSE <<"<unhandled op type", op.type>>
    [] OTHER                         -> <<op.arg>>

\* ident is set at the first label and kept.
Indented(insn_index) == \E n \in 0 .. insn_index : LabelAt(n) # NULL

\* The lines of one instruction.
disasm_single_insn(insn_index, addresses) ==
  LET in == instructions[insn_index + 1]
  IN  [label    |-> LabelAt(insn_index),
       indented |-> Indented(insn_index),
       opcode   |-> in.opcode,
       operands |-> [j \in DOMAIN in.operands |-> disasm_operand(in.operands[j], addresses)]]

disasm(addresses) == [k \in DOMAIN instructions |-> disasm_single_insn(k - 1, addresses)]

-----------------------------------------------------------------------------
\* What the source has for an operand: a number or a string, a register, a
\* register and an offset, or the name of a label.
Written(opc, node) ==
  IF node.type = "MEM_ADDRESS" THEN Letter[node.register]
  ELSE IF node.token.type = "SYMBOL" /\ opc \notin BranchOpcode THEN Letter[node.token.value]
  ELSE node.token.value

\* The listing of a built program reads as its source: each label stands above
\* the instruction it stands above in the source, the instructions behind the
\* first label are indented, and each operand ends with what the source has for
\* it, an address in the listing that has a case for it.  For a branch that is the name the source uses, which program_build has
\* replaced by an index: the index finds this name again and never no name, so
\* that the assertion of a label behind a branch holds.
ListingIsTheSource ==
  phase = "built" =>
    LET source == SourceOrder
    IN  \A addresses \in BOOLEAN :
          LET listing == disasm(addresses)
          IN  /\ DOMAIN listing = DOMAIN source
              /\ \A k \in DOMAIN source :
                   LET node == source[k].node
                   IN  /\ listing[k].label = source[k].entry
                       /\ listing[k].indented <=> k > Len(top_node.instructions)
                       /\ \A j \in DOMAIN node.operands :
                            addresses \/ node.operands[j].type = "SIMPLE" =>
                              Last(listing[k].operands[j]) = Written(node.opcode, node.operands[j])
=============================================================================
