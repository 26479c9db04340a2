---------------------------- MODULE ProgramBuild ----------------------------
(***************************************************************************)
(* program_build: lays the instructions of the top level and of the labels *)
(* out in one array, registers each label at the index its body starts at, *)
(* and resolves branches to the first label of their name.                 *)
(***************************************************************************)
EXTENDS Program, Syntax, SequencesExt

CONSTANTS
  Trees,   \* the top-level nodes a parser can have made
  Letter   \* the register a name denotes: one letter from a to z, by its place

ASSUME BuildAssumption ==
  /\ Trees \subseteq TopLevelNode
  /\ Letter \in [Symbols -> RegIndex \cup {INVALID_REGISTER_INDEX}]
  /\ Symbols \cup Literals \subseteq Strings

VARIABLES
  top_node,
  instructions,     \* those converted so far: cur_instruction is their number
  resolved_labels,
  converted,        \* how many instructions of the latest registered label are converted
  resolved,         \* how many instructions the last loop has looked at
  phase             \* "convert", "resolve", "built" or "assertion"

vars == <<top_node, instructions, resolved_labels, converted, resolved, phase>>

Init ==
  /\ top_node \in Trees
  /\ instructions = << >>
  /\ resolved_labels = << >>
  /\ converted = 0
  /\ resolved = 0
  /\ phase = "convert"

-----------------------------------------------------------------------------
\* Mutant of get_opcode: any name is an opcode.
get_opcode_unchecked(name) == name

\* The names in opcode_names after the first, "<invalid>".
get_opcode(name) == IF name \in ValidOpcode THEN name ELSE "<invalid>"

\* A register or a label is told by the opcode it stands with.  The extra of an
\* operand that is no memory address is never set; 0 stands for what is there.
convert_operand(opc, node) ==
  IF node.type = "MEM_ADDRESS" THEN
    [type |-> "MEM_ADDRESS", arg |-> Letter[node.register],
     extra |-> IF node.offset = NULL THEN 0 ELSE node.offset]
  ELSE IF node.token.type = "INT" THEN [type |-> "INT", arg |-> node.token.value, extra |-> 0]
  ELSE IF node.token.type = "STRING" THEN [type |-> "STR", arg |-> node.token.value, extra |-> 0]
  ELSE IF opc \in BranchOpcode THEN
    [type |-> "UNRESOLVED_BRANCH", arg |-> node.token.value, extra |-> 0]
  ELSE [type |-> "REG", arg |-> Letter[node.token.value], extra |-> 0]

convert_instruction_node(n) ==
  LET opc == get_opcode(n.opcode)
  IN  [opcode |-> opc,
       operands |-> [k \in DOMAIN n.operands |-> convert_operand(opc, n.operands[k])]]

count_instructions(n) ==
  LET total[l \in 0 .. Len(n.labels)] ==
        IF l = 0 THEN Len(n.instructions) ELSE total[l - 1] + Len(n.labels[l].instructions)
  IN  total[Len(n.labels)]

-----------------------------------------------------------------------------
\* The instructions of the latest registered label; before any, of the top level.
Body ==
  IF resolved_labels = << >> THEN top_node.instructions
  ELSE top_node.labels[Len(resolved_labels)].instructions

ConvertInstruction ==
  /\ phase = "convert"
  /\ converted < Len(Body)
  /\ instructions' = Append(instructions, convert_instruction_node(Body[converted + 1]))
  /\ converted' = converted + 1
  /\ UNCHANGED <<top_node, resolved_labels, resolved, phase>>

\* Mutants of Entry: the index after the next instruction, or that of the first label.
EntryLate(l) == [name |-> top_node.labels[l].name, instruction_index |-> Len(instructions) + 1]
EntrySame(l) ==
  [name |-> top_node.labels[l].name, instruction_index |-> Len(top_node.instructions)]

\* The resolved label of the lth label node.
Entry(l) == [name |-> top_node.labels[l].name, instruction_index |-> Len(instructions)]

RegisterLabel ==
  /\ phase = "convert"
  /\ converted = Len(Body)
  /\ Len(resolved_labels) < Len(top_node.labels)
  /\ resolved_labels' = Append(resolved_labels, Entry(Len(resolved_labels) + 1))
  /\ converted' = 0
  /\ UNCHANGED <<top_node, instructions, resolved, phase>>

\* assert(cur_instruction == total_instructions)
AllConverted ==
  /\ phase = "convert"
  /\ converted = Len(Body)
  /\ Len(resolved_labels) = Len(top_node.labels)
  /\ phase' = IF Len(instructions) = count_instructions(top_node) THEN "resolve" ELSE "assertion"
  /\ UNCHANGED <<top_node, instructions, resolved_labels, converted, resolved>>

\* The labels a branch could mean.
Named(name) == {l \in DOMAIN resolved_labels : resolved_labels[l].name = name}

\* Mutant of Target: the search goes on after a match.
LastTarget(name) == CHOOSE l \in Named(name) : \A m \in Named(name) : m <= l

Target(name) == CHOOSE l \in Named(name) : \A m \in Named(name) : l <= m

\* Only a first operand is resolved; an undefined label is left to program_check.
Resolve(insn) ==
  LET op == insn.operands[1]
  IN  IF insn.operands = << >> \/ op.type # "UNRESOLVED_BRANCH" \/ Named(op.arg) = {} THEN insn
      ELSE [insn EXCEPT !.operands[1] =
             [type |-> "BRANCH", arg |-> resolved_labels[Target(op.arg)].instruction_index,
              extra |-> op.extra]]

ResolveBranch ==
  /\ phase = "resolve"
  /\ resolved < Len(instructions)
  /\ instructions' = [instructions EXCEPT ![resolved + 1] = Resolve(@)]
  /\ resolved' = resolved + 1
  /\ UNCHANGED <<top_node, resolved_labels, converted, phase>>

Finish ==
  /\ phase = "resolve"
  /\ resolved = Len(instructions)
  /\ phase' = "built"
  /\ UNCHANGED <<top_node, instructions, resolved_labels, converted, resolved>>

Stopped == phase \in {"built", "assertion"} /\ UNCHANGED vars

Next ==
  \/ ConvertInstruction \/ RegisterLabel \/ AllConverted
  \/ ResolveBranch \/ Finish \/ Stopped

Spec == Init /\ [][Next]_vars
-----------------------------------------------------------------------------
ResolvedLabel == [name : Symbols, instruction_index : Nat]

TypeOK ==
  /\ top_node \in TopLevelNode
  /\ instructions \in Seq(Instruction)
  /\ resolved_labels \in Seq(ResolvedLabel)
  /\ converted \in Nat
  /\ resolved \in 0 .. Len(instructions)
  /\ phase \in {"convert", "resolve", "built", "assertion"}

\* A program that is built branches to its own instructions only, which is what
\* program_run relies on when it sets pc without looking.
BranchesLand == phase = "built" => BranchesInRange(instructions)

\* No two labels stand for the same instruction, and the labels are in the order
\* of their instructions: an index names at most one label.
LabelsInOrder ==
  \A l, m \in DOMAIN resolved_labels :
    l < m => resolved_labels[l].instruction_index < resolved_labels[m].instruction_index

\* The instructions of a tree in the order of the source, each with the name
\* of the label it is the first instruction of, or NULL.
FirstOf(l, k) == IF l > 0 /\ k = 1 THEN top_node.labels[l].name ELSE NULL

BodyOf(l) == IF l = 0 THEN top_node.instructions ELSE top_node.labels[l].instructions

SourceOrder ==
  FlattenSeq([b \in 1 .. Len(top_node.labels) + 1 |->
    [k \in DOMAIN BodyOf(b - 1) |-> [node |-> BodyOf(b - 1)[k], entry |-> FirstOf(b - 1, k)]]])

\* The built program is its source: instruction by instruction the same opcodes
\* in the same order, and where the source names a label, a branch to the first
\* place where that label stands; a name that is no label stays unresolved.
MeansTheSource ==
  phase \in {"built", "assertion"} =>
    LET source == SourceOrder
    IN  /\ phase = "built" /\ Len(instructions) = Len(source)
        /\ \A k \in DOMAIN source :
             LET insn == instructions[k]
                 node == source[k].node
             IN  /\ insn.opcode = get_opcode(node.opcode)
                 /\ Len(insn.operands) = Len(node.operands)
                 /\ insn.opcode \in BranchOpcode /\ insn.operands # << >>
                      /\ node.operands[1].type = "SIMPLE" /\ node.operands[1].token.type = "SYMBOL" =>
                    LET name == node.operands[1].token.value
                        places == {j \in DOMAIN source : source[j].entry = name}
                    IN  IF places = {} THEN insn.operands[1].type = "UNRESOLVED_BRANCH"
                        ELSE /\ insn.operands[1].type = "BRANCH"
                             /\ insn.operands[1].arg + 1 \in places
                             /\ \A j \in places : insn.operands[1].arg + 1 <= j
=============================================================================
