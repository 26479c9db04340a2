------------------------------ MODULE MCInterp ------------------------------
(***************************************************************************)
(* The sources of trees of up to two top-level instructions and up to      *)
(* three labels, and some of them with a token missing.                    *)
(***************************************************************************)
EXTENDS Interp, Disasm

CONSTANTS L1, L2, RegA, Text

Simple(type, value) == [type |-> "SIMPLE", token |-> [type |-> type, value |-> value]]
Mem(offset) == [type |-> "MEM_ADDRESS", register |-> RegA, offset |-> offset]
N(opc, ops) == [opcode |-> opc, operands |-> ops]

Names == ValidOpcode \cup {L1, L2, RegA}
AllStrings == Names \cup {Text}
Letters == [s \in Names |-> IF s = RegA THEN 0 ELSE INVALID_REGISTER_INDEX]

Jump == {N("jmp", <<Simple("SYMBOL", L1)>>), N("call", <<Simple("SYMBOL", L2)>>)}
A == Simple("SYMBOL", RegA)
Good == {N("ret", << >>), N("mov", <<Mem(1), A>>), N("cmp", <<A, Simple("INT", 1)>>), N("inc", <<A>>)}
Bad ==
  { N(L1, << >>), N("msg", <<Mem(NULL), Simple("STRING", Text), Simple("INT", -1)>>),
    N("je", <<Simple("INT", 1), Simple("SYMBOL", L1)>>), N("inc", <<Simple("SYMBOL", L2)>>),
    N("add", <<A, [Mem(NULL) EXCEPT !.register = L1]>>), N("mov", <<Simple("INT", 1), A>>) }
Other == Good \cup Bad

Bodies(insns, first, last) == UNION {[1 .. n -> insns] : n \in first .. last}

TreesOf(top, bodies, n) ==
  {[instructions |-> t, labels |-> l] :
     t \in top, l \in BoundedSeq([name : {L1, L2}, instructions : bodies], n)}

BranchTrees == TreesOf(Bodies(Jump, 0, 2), Bodies(Jump, 1, 2), 2)
ManyLabels  == TreesOf(Bodies(Jump, 0, 1), Bodies(Jump, 1, 1), 3)
MixedTrees  == TreesOf(Bodies(Jump \cup Other, 0, 2), Bodies(Other, 1, 1), 1)
FewTrees    == TreesOf(Bodies(Jump \cup Other, 0, 1), Bodies(Good, 1, 1), 1)

\* The source of a tree, one instruction in a line.
OperandSource(node) ==
  IF node.type = "SIMPLE" THEN <<node.token>>
  ELSE (IF node.offset = NULL THEN << >> ELSE <<[type |-> "INT", value |-> node.offset]>>)
         \o <<Mark("BRACKET_OPEN"), [type |-> "SYMBOL", value |-> node.register],
              Mark("BRACKET_CLOSE")>>

Line(node) ==
  <<[type |-> "SYMBOL", value |-> node.opcode]>>
    \o FlattenSeq([k \in DOMAIN node.operands |->
         (IF k = 1 THEN << >> ELSE <<Mark("COMMA")>>) \o OperandSource(node.operands[k])])
    \o <<Mark("NEW_LINE")>>

LinesOf(insns) == FlattenSeq([k \in DOMAIN insns |-> Line(insns[k])])

SourceOf(tree) ==
  LinesOf(tree.instructions)
    \o FlattenSeq([l \in DOMAIN tree.labels |->
         <<[type |-> "SYMBOL", value |-> tree.labels[l].name], Mark("COLON")>>
           \o LinesOf(tree.labels[l].instructions)])
    \o <<Mark("EOF")>>

AllSources ==
  {SourceOf(t) : t \in BranchTrees \cup ManyLabels \cup MixedTrees}
    \cup UNION {{RemoveAt(s, k) : k \in 1 .. Len(s) - 1} : s \in {SourceOf(t) : t \in FewTrees}}
=============================================================================
