------------------------- MODULE ProgramBuildProofs -------------------------
(***************************************************************************)
(* Proofs about program_build, for every tree a parser can make.           *)
(***************************************************************************)
EXTENDS Disasm, DataLemmas, SequenceTheorems

-----------------------------------------------------------------------------
(* Conversion and resolution *)

LEMMA ConvertedOperand ==
  ASSUME NEW opc \in Opcode, NEW node \in OperandNode
  PROVE  /\ convert_operand(opc, node) \in Operand
         /\ convert_operand(opc, node).type # "BRANCH"
<1> DEFINE op == convert_operand(opc, node)
<1>1. 0 \in Word
  BY WordsAssumption DEF Word
<1>2. CASE node.type = "MEM_ADDRESS"
  <2>1. node.register \in Symbols /\ node.offset \in Word \cup {NULL}
    BY <1>2 DEF OperandNode
  <2> QED
    BY <1>1, <1>2, <2>1, BuildAssumption, SyntaxAssumption DEF convert_operand, Operand
<1>3. CASE node.type # "MEM_ADDRESS"
  <2>1. node.token \in Token /\ node.token.type \in {"SYMBOL", "STRING", "INT"}
    BY <1>3 DEF OperandNode
  <2>2. /\ node.token.type = "SYMBOL" => node.token.value \in Symbols
        /\ node.token.type = "STRING" => node.token.value \in Literals
        /\ node.token.type = "INT" => node.token.value \in Word
    BY <2>1 DEF Token, Punctuation
  <2> QED
    BY <1>1, <1>3, <2>1, <2>2, BuildAssumption, SyntaxAssumption DEF convert_operand, Operand
<1> QED
  BY <1>2, <1>3

LEMMA ConvertedInstruction ==
  ASSUME NEW n \in InstructionNode
  PROVE  /\ convert_instruction_node(n) \in Instruction
         /\ \A k \in DOMAIN convert_instruction_node(n).operands :
              convert_instruction_node(n).operands[k].type # "BRANCH"
<1>1. get_opcode(n.opcode) \in Opcode
  BY DEF get_opcode, Opcode
<1>2. n.operands \in Seq(OperandNode) /\ DOMAIN n.operands = 1 .. Len(n.operands)
  BY DEF InstructionNode
<1> DEFINE opc == get_opcode(n.opcode)
           ops == [k \in DOMAIN n.operands |-> convert_operand(opc, n.operands[k])]
<1>3. \A k \in DOMAIN n.operands : ops[k] \in Operand /\ ops[k].type # "BRANCH"
  BY <1>1, <1>2, ConvertedOperand
<1>4. ops \in Seq(Operand)
  <2>1. Len(n.operands) \in Nat
    BY <1>2
  <2>2. ops \in [DOMAIN n.operands -> Operand]
    BY <1>3
  <2> HIDE DEF ops
  <2> QED
    BY <1>2, <2>1, <2>2, SeqDef
<1> QED
  BY <1>1, <1>3, <1>4 DEF convert_instruction_node, Instruction

-----------------------------------------------------------------------------
(* The inductive invariant *)

Progress ==
  /\ Len(resolved_labels) <= Len(top_node.labels)
  /\ converted <= Len(Body)

\* A label starts at an instruction that is there, or that comes next.
LabelsStart ==
  \A l \in DOMAIN resolved_labels :
    \/ resolved_labels[l].instruction_index < Len(instructions)
    \/ /\ phase = "convert" /\ converted = 0 /\ l = Len(resolved_labels)
       /\ resolved_labels[l].instruction_index = Len(instructions)

IInv == TypeOK /\ Progress /\ LabelsStart /\ LabelsInOrder /\ BranchesInRange(instructions)

LEMMA InitIInv == Init => IInv
<1> SUFFICES ASSUME Init PROVE IInv
  OBVIOUS
<1>1. top_node \in TopLevelNode
  BY BuildAssumption DEF Init
<1>2. top_node.labels \in Seq(LabelNode) /\ top_node.instructions \in Seq(InstructionNode)
  BY <1>1 DEF TopLevelNode
<1>3. TypeOK
  BY <1>1 DEF Init, TypeOK
<1>4. Progress
  BY <1>2 DEF Init, Progress, Body
<1> QED
  BY <1>3, <1>4 DEF Init, IInv, LabelsStart, LabelsInOrder, BranchesInRange

\* The body being converted; a label's is not empty.
LEMMA BodyType ==
  ASSUME TypeOK, Progress
  PROVE  /\ Body \in Seq(InstructionNode)
         /\ resolved_labels # << >> => Len(Body) > 0
<1>1. top_node.labels \in Seq(LabelNode) /\ top_node.instructions \in Seq(InstructionNode)
  BY DEF TypeOK, TopLevelNode
<1>2. CASE resolved_labels = << >>
  BY <1>1, <1>2 DEF Body
<1>3. CASE resolved_labels # << >>
  <2>1. Len(resolved_labels) \in DOMAIN top_node.labels
    BY <1>1, <1>3 DEF TypeOK, Progress
  <2>2. top_node.labels[Len(resolved_labels)] \in LabelNode
    BY <1>1, <2>1
  <2> QED
    BY <1>3, <2>2 DEF Body, LabelNode
<1> QED
  BY <1>2, <1>3

\* Once the latest body is converted, every label stands at an instruction.
LEMMA BodyConverted ==
  ASSUME IInv, converted = Len(Body)
  PROVE  \A l \in DOMAIN resolved_labels :
           resolved_labels[l].instruction_index < Len(instructions)
<1>1. resolved_labels \in Seq(ResolvedLabel)
  BY DEF IInv, TypeOK
<1>2. resolved_labels # << >> => converted > 0
  BY BodyType DEF IInv
<1> QED
  BY <1>1, <1>2 DEF IInv, LabelsStart

LEMMA ConvertKeeps == IInv /\ ConvertInstruction => IInv'
<1> SUFFICES ASSUME IInv, ConvertInstruction PROVE IInv'
  OBVIOUS
<1>1. Body \in Seq(InstructionNode) /\ converted + 1 \in DOMAIN Body
  BY BodyType DEF IInv, TypeOK, ConvertInstruction
<1> DEFINE insn == convert_instruction_node(Body[converted + 1])
<1>2. insn \in Instruction /\ \A k \in DOMAIN insn.operands : insn.operands[k].type # "BRANCH"
  <2>1. Body[converted + 1] \in InstructionNode
    BY <1>1
  <2> QED
    BY <2>1, ConvertedInstruction
<1>3. /\ instructions \in Seq(Instruction) /\ instructions' = Append(instructions, insn)
      /\ converted' = converted + 1
      /\ UNCHANGED <<top_node, resolved_labels, resolved, phase>>
  BY DEF IInv, TypeOK, ConvertInstruction
<1> HIDE DEF insn
<1>4. /\ instructions' \in Seq(Instruction)
      /\ Len(instructions') = Len(instructions) + 1
      /\ \A i \in DOMAIN instructions' :
           instructions'[i] = IF i = Len(instructions) + 1 THEN insn ELSE instructions[i]
  BY <1>2, <1>3
<1>5. TypeOK'
  BY <1>3, <1>4 DEF IInv, TypeOK
<1>6. Progress'
  BY <1>1, <1>3 DEF IInv, Progress, Body
<1>7. LabelsStart' /\ LabelsInOrder'
  <2>1. ASSUME NEW l \in DOMAIN resolved_labels
        PROVE  resolved_labels[l].instruction_index < Len(instructions) + 1
    <3>1. resolved_labels[l] \in ResolvedLabel
      BY DEF IInv, TypeOK
    <3>2. Len(instructions) \in Nat
      BY <1>3
    <3> QED
      BY <3>1, <3>2 DEF IInv, LabelsStart, ResolvedLabel
  <2> QED
    BY <1>3, <1>4, <2>1 DEF IInv, LabelsStart, LabelsInOrder
<1>8. BranchesInRange(instructions')
  <2> SUFFICES ASSUME NEW i \in DOMAIN instructions',
                      NEW k \in DOMAIN instructions'[i].operands,
                      instructions'[i].operands[k].type = "BRANCH"
               PROVE  instructions'[i].operands[k].arg \in 0 .. Len(instructions') - 1
    BY DEF BranchesInRange
  <2>1. i \in DOMAIN instructions /\ instructions'[i] = instructions[i]
    BY <1>2, <1>3, <1>4
  <2> QED
    BY <1>3, <1>4, <2>1 DEF IInv, BranchesInRange
<1> QED
  BY <1>3, <1>5, <1>6, <1>7, <1>8 DEF IInv

LEMMA RegisterKeeps == IInv /\ RegisterLabel => IInv'
<1> SUFFICES ASSUME IInv, RegisterLabel PROVE IInv'
  OBVIOUS
<1> DEFINE n == Len(resolved_labels) + 1
           entry == Entry(n)
<1>1. top_node.labels \in Seq(LabelNode) /\ n \in DOMAIN top_node.labels
  BY DEF IInv, TypeOK, TopLevelNode, RegisterLabel
<1>2. top_node.labels[n] \in LabelNode
  BY <1>1
<1>3. entry \in ResolvedLabel
  BY <1>2 DEF LabelNode, IInv, TypeOK, ResolvedLabel, Entry
<1>4. /\ resolved_labels \in Seq(ResolvedLabel)
      /\ resolved_labels' = Append(resolved_labels, entry)
      /\ converted' = 0 /\ phase = "convert"
      /\ UNCHANGED <<top_node, instructions, resolved, phase>>
  BY DEF IInv, TypeOK, RegisterLabel
<1> HIDE DEF entry
<1>5. /\ resolved_labels' \in Seq(ResolvedLabel)
      /\ Len(resolved_labels') = n /\ resolved_labels' # << >>
      /\ \A l \in DOMAIN resolved_labels' :
           resolved_labels'[l] = IF l = n THEN entry ELSE resolved_labels[l]
  BY <1>3, <1>4
<1>6. entry.instruction_index = Len(instructions)
  BY DEF entry, Entry
<1>7. \A l \in DOMAIN resolved_labels :
        resolved_labels[l].instruction_index < Len(instructions)
  BY BodyConverted DEF RegisterLabel
<1>8. TypeOK'
  BY <1>4, <1>5 DEF IInv, TypeOK
<1>9. Progress'
  <2>1. Body' = top_node.labels[n].instructions
    BY <1>4, <1>5 DEF Body
  <2> QED
    BY <1>1, <1>2, <1>4, <1>5, <2>1 DEF Progress, LabelNode
<1>10. LabelsStart' /\ LabelsInOrder'
  BY <1>4, <1>5, <1>6, <1>7 DEF LabelsStart, LabelsInOrder, IInv
<1> QED
  BY <1>4, <1>8, <1>9, <1>10 DEF IInv

LEMMA AllConvertedKeeps == IInv /\ AllConverted => IInv'
<1> SUFFICES ASSUME IInv, AllConverted PROVE IInv'
  OBVIOUS
<1>1. \A l \in DOMAIN resolved_labels :
        resolved_labels[l].instruction_index < Len(instructions)
  BY BodyConverted DEF AllConverted
<1> QED
  BY <1>1 DEF IInv, AllConverted, TypeOK, Progress, Body, LabelsStart, LabelsInOrder

\* Resolving an instruction keeps its type, and points it into the program.
LEMMA ResolveLands ==
  ASSUME resolved_labels \in Seq(ResolvedLabel),
         NEW n \in Nat,
         \A l \in DOMAIN resolved_labels : resolved_labels[l].instruction_index < n,
         NEW insn \in Instruction,
         \A k \in DOMAIN insn.operands :
           insn.operands[k].type = "BRANCH" => insn.operands[k].arg \in 0 .. n - 1
  PROVE  /\ Resolve(insn) \in Instruction
         /\ \A k \in DOMAIN Resolve(insn).operands :
              Resolve(insn).operands[k].type = "BRANCH" =>
                Resolve(insn).operands[k].arg \in 0 .. n - 1
<1> DEFINE op == insn.operands[1]
<1>1. CASE insn.operands = << >> \/ op.type # "UNRESOLVED_BRANCH" \/ Named(op.arg) = {}
  BY <1>1 DEF Resolve
<1>2. CASE ~(insn.operands = << >> \/ op.type # "UNRESOLVED_BRANCH" \/ Named(op.arg) = {})
  <2> DEFINE target == Target(op.arg)
             index == resolved_labels[target].instruction_index
             branch == [type |-> "BRANCH", arg |-> index, extra |-> op.extra]
  <2>1. insn.operands \in Seq(Operand) /\ 1 \in DOMAIN insn.operands
    BY <1>2 DEF Instruction
  <2>2. op \in Operand
    BY <2>1
  <2>3. op.extra \in Word
    BY <2>2 DEF Operand
  <2>4. Named(op.arg) \subseteq DOMAIN resolved_labels /\ DOMAIN resolved_labels \subseteq Nat
    BY DEF Named
  <2>5. \E l \in Named(op.arg) : \A m \in Named(op.arg) : l <= m
    BY <1>2, <2>4, Least
  <2>6. target \in Named(op.arg)
    BY <2>5 DEF Target
  <2>7. index \in 0 .. n - 1
    <3> HIDE DEF target
    <3>1. resolved_labels[target] \in ResolvedLabel
      BY <2>4, <2>6
    <3> QED
      BY <2>4, <2>6, <3>1 DEF ResolvedLabel
  <2>8. branch \in Operand
    BY <2>3, <2>7 DEF Operand
  <2>9. Resolve(insn) = [insn EXCEPT !.operands[1] = branch]
    BY <1>2 DEF Resolve
  <2> HIDE DEF index
  <2>10. /\ Resolve(insn).opcode = insn.opcode
         /\ Resolve(insn).operands = [insn.operands EXCEPT ![1] = branch]
         /\ Resolve(insn) = [opcode |-> insn.opcode, operands |-> Resolve(insn).operands]
    BY <2>9 DEF Instruction
  <2> DEFINE ops == Resolve(insn).operands
  <2>11. /\ ops \in Seq(Operand) /\ DOMAIN ops = DOMAIN insn.operands
         /\ \A k \in DOMAIN ops : ops[k] = IF k = 1 THEN branch ELSE insn.operands[k]
    BY <2>1, <2>8, <2>10
  <2>12. Resolve(insn) \in Instruction
    BY <2>10, <2>11 DEF Instruction
  <2> QED
    BY <2>7, <2>11, <2>12
<1> QED
  BY <1>1, <1>2

LEMMA ResolveKeeps == IInv /\ ResolveBranch => IInv'
<1> SUFFICES ASSUME IInv, ResolveBranch PROVE IInv'
  OBVIOUS
<1> DEFINE r == resolved + 1
           insn == Resolve(instructions[r])
<1>1. /\ instructions \in Seq(Instruction) /\ r \in DOMAIN instructions
      /\ resolved_labels \in Seq(ResolvedLabel)
  BY DEF IInv, TypeOK, ResolveBranch
<1>2. \A l \in DOMAIN resolved_labels :
        resolved_labels[l].instruction_index < Len(instructions)
  BY DEF IInv, LabelsStart, ResolveBranch
<1>3. /\ instructions[r] \in Instruction
      /\ \A k \in DOMAIN instructions[r].operands :
           instructions[r].operands[k].type = "BRANCH" =>
             instructions[r].operands[k].arg \in 0 .. Len(instructions) - 1
  BY <1>1 DEF IInv, BranchesInRange
<1>4. /\ insn \in Instruction
      /\ \A k \in DOMAIN insn.operands :
           insn.operands[k].type = "BRANCH" =>
             insn.operands[k].arg \in 0 .. Len(instructions) - 1
  <2>1. Len(instructions) \in Nat
    BY <1>1
  <2> QED
    BY <1>1, <1>2, <1>3, <2>1, ResolveLands
<1>5. /\ instructions' = [instructions EXCEPT ![r] = insn]
      /\ resolved' = r
      /\ UNCHANGED <<top_node, resolved_labels, converted, phase>>
  BY DEF ResolveBranch
<1> HIDE DEF insn
<1>6. /\ instructions' \in Seq(Instruction) /\ Len(instructions') = Len(instructions)
      /\ DOMAIN instructions' = DOMAIN instructions
      /\ \A i \in DOMAIN instructions' :
           instructions'[i] = IF i = r THEN insn ELSE instructions[i]
  BY <1>1, <1>4, <1>5
<1>7. TypeOK'
  BY <1>1, <1>5, <1>6 DEF IInv, TypeOK
<1>8. Progress' /\ LabelsStart' /\ LabelsInOrder'
  BY <1>5, <1>6 DEF IInv, Progress, Body, LabelsStart, LabelsInOrder
<1>9. BranchesInRange(instructions')
  <2> SUFFICES ASSUME NEW i \in DOMAIN instructions',
                      NEW k \in DOMAIN instructions'[i].operands,
                      instructions'[i].operands[k].type = "BRANCH"
               PROVE  instructions'[i].operands[k].arg \in 0 .. Len(instructions') - 1
    BY DEF BranchesInRange
  <2>1. CASE i = r
    BY <1>4, <1>6, <2>1
  <2>2. CASE i # r
    BY <1>6, <2>2 DEF IInv, BranchesInRange
  <2> QED
    BY <2>1, <2>2
<1> QED
  BY <1>7, <1>8, <1>9 DEF IInv

LEMMA NextIInv == IInv /\ [Next]_vars => IInv'
<1> SUFFICES ASSUME IInv, [Next]_vars PROVE IInv'
  OBVIOUS
<1>1. CASE ConvertInstruction
  BY <1>1, ConvertKeeps
<1>2. CASE RegisterLabel
  BY <1>2, RegisterKeeps
<1>3. CASE AllConverted
  BY <1>3, AllConvertedKeeps
<1>4. CASE ResolveBranch
  BY <1>4, ResolveKeeps
<1>5. CASE Finish
  BY <1>5 DEF IInv, Finish, TypeOK, Progress, Body, LabelsStart, LabelsInOrder
<1>6. CASE Stopped \/ UNCHANGED vars
  BY <1>6 DEF IInv, Stopped, vars, TypeOK, Progress, Body, LabelsStart, LabelsInOrder
<1> QED
  BY <1>1, <1>2, <1>3, <1>4, <1>5, <1>6 DEF Next

LEMMA Invariance == Spec => []IInv
BY InitIInv, NextIInv, PTL DEF Spec

-----------------------------------------------------------------------------
\* program_build only ever stores instructions and labels of their types: no
\* branch index is negative, no opcode is unknown to the later stages.
THEOREM TypeCorrect == Spec => []TypeOK
<1>1. IInv => TypeOK
  BY DEF IInv
<1> QED
  BY <1>1, Invariance, PTL

\* Every branch of a built program goes to an instruction of the program: half
\* of what Vm assumes of the programs it runs.
THEOREM BuiltBranchesLand == Spec => []BranchesLand
<1>1. IInv => BranchesLand
  BY DEF IInv, BranchesLand
<1> QED
  BY <1>1, Invariance, PTL

\* An instruction index names at most one label, whatever labels share a name.
THEOREM BuiltLabelsInOrder == Spec => []LabelsInOrder
<1>1. IInv => LabelsInOrder
  BY DEF IInv
<1> QED
  BY <1>1, Invariance, PTL

-----------------------------------------------------------------------------
(* The source: the bodies of a tree, one behind the other *)

BodyIn(t, b) == IF b = 0 THEN t.instructions ELSE t.labels[b].instructions
NameIn(t, b, k) == IF b > 0 /\ k = 1 THEN t.labels[b].name ELSE NULL
Block(t, b) ==
  [k \in DOMAIN BodyIn(t, b) |-> [node |-> BodyIn(t, b)[k], entry |-> NameIn(t, b, k)]]

\* What stands before body b, and where body b starts.
Before(t, b) == FlattenSeq([c \in 1 .. b |-> Block(t, c - 1)])
Start(t, b) == Len(Before(t, b))

Bodies(t) == 0 .. Len(t.labels)
Source(t) == Before(t, Len(t.labels) + 1)

SourceLine == [node : InstructionNode, entry : Symbols \cup {NULL}]

LEMMA SourceIsSourceOrder == SourceOrder = Source(top_node)
BY DEF SourceOrder, Source, Before, Block, BodyOf, FirstOf, BodyIn, NameIn

LEMMA BlockType ==
  ASSUME NEW t \in TopLevelNode, NEW b \in Bodies(t)
  PROVE  /\ BodyIn(t, b) \in Seq(InstructionNode)
         /\ Block(t, b) \in Seq(SourceLine)
         /\ Len(Block(t, b)) = Len(BodyIn(t, b))
         /\ b > 0 => Len(BodyIn(t, b)) > 0 /\ t.labels[b].name \in Symbols
         /\ Len(t.labels) \in Nat
<1>1. /\ t.labels \in Seq(LabelNode) /\ Len(t.labels) \in Nat
      /\ t.instructions \in Seq(InstructionNode)
  BY DEF TopLevelNode
<1>2. b > 0 => t.labels[b] \in LabelNode
  BY <1>1 DEF Bodies
<1>3. b > 0 => /\ t.labels[b].name \in Symbols
               /\ t.labels[b].instructions \in Seq(InstructionNode)
               /\ Len(t.labels[b].instructions) > 0
  BY <1>2 DEF LabelNode
<1>4. BodyIn(t, b) \in Seq(InstructionNode) /\ (b > 0 => Len(BodyIn(t, b)) > 0)
  BY <1>1, <1>3 DEF BodyIn, Bodies
<1> DEFINE body == BodyIn(t, b)
<1>5. Block(t, b) = [k \in 1 .. Len(body) |-> [node |-> body[k], entry |-> NameIn(t, b, k)]]
  BY <1>4 DEF Block
<1>6. \A k \in 1 .. Len(body) :
        /\ body[k] \in InstructionNode
        /\ NameIn(t, b, k) \in Symbols \cup {NULL}
  BY <1>3, <1>4 DEF NameIn
<1> HIDE DEF body
<1>7. \A k \in 1 .. Len(body) : [node |-> body[k], entry |-> NameIn(t, b, k)] \in SourceLine
  BY <1>6 DEF SourceLine
<1>8. Len(body) \in Nat
  BY <1>4 DEF body
<1>9. Block(t, b) \in [1 .. Len(body) -> SourceLine]
  BY <1>5, <1>7
<1>10. Block(t, b) \in Seq(SourceLine) /\ Len(Block(t, b)) = Len(body)
  BY <1>8, <1>9, SeqDef
<1> QED
  BY <1>1, <1>3, <1>4, <1>10 DEF body

LEMMA BeforeStep ==
  ASSUME NEW t \in TopLevelNode
  PROVE  /\ Before(t, 0) = << >>
         /\ \A b \in 0 .. Len(t.labels) + 1 : Before(t, b) \in Seq(SourceLine)
         /\ \A b \in Bodies(t) : Before(t, b + 1) = Before(t, b) \o Block(t, b)
<1> DEFINE Parts(b) == [c \in 1 .. b |-> Block(t, c - 1)]
<1>1. Len(t.labels) \in Nat
  BY DEF TopLevelNode
<1>2. ASSUME NEW b \in 0 .. Len(t.labels) + 1
      PROVE  Parts(b) \in Seq(Seq(SourceLine)) /\ Len(Parts(b)) = b
  <2>1. \A c \in 1 .. b : c - 1 \in Bodies(t)
    BY <1>1 DEF Bodies
  <2>2. \A c \in 1 .. b : Block(t, c - 1) \in Seq(SourceLine)
    BY <2>1, BlockType
  <2> QED
    BY <1>1, <2>2
<1>3. ASSUME NEW b \in Bodies(t)
      PROVE  Parts(b + 1) = Append(Parts(b), Block(t, b))
  <2>1. b \in 0 .. Len(t.labels) + 1 /\ b + 1 \in 0 .. Len(t.labels) + 1
    BY <1>1 DEF Bodies
  <2>2. Parts(b) \in Seq(Seq(SourceLine)) /\ Len(Parts(b)) = b
    BY <1>2, <2>1
  <2>3. DOMAIN Append(Parts(b), Block(t, b)) = 1 .. b + 1
    BY <2>1, <2>2
  <2>4. ASSUME NEW c \in 1 .. b + 1
        PROVE  Append(Parts(b), Block(t, b))[c] = Block(t, c - 1)
    BY <2>1, <2>2
  <2>5. Parts(b + 1) \in Seq(Seq(SourceLine)) /\ Len(Parts(b + 1)) = b + 1
    BY <1>2, <2>1
  <2>6. \A c \in 1 .. b + 1 : Parts(b + 1)[c] = Block(t, c - 1)
    OBVIOUS
  <2>7. Block(t, b) \in Seq(SourceLine)
    BY BlockType
  <2> HIDE DEF Parts
  <2>8. Append(Parts(b), Block(t, b)) \in Seq(Seq(SourceLine))
    BY <2>2, <2>7
  <2> DEFINE p == Parts(b + 1)
             q == Append(Parts(b), Block(t, b))
  <2>9. /\ p \in Seq(Seq(SourceLine)) /\ q \in Seq(Seq(SourceLine)) /\ Len(p) = Len(q)
        /\ \A c \in 1 .. Len(p) : p[c] = q[c]
    BY <2>2, <2>4, <2>5, <2>6, <2>8
  <2> HIDE DEF p, q
  <2>10. p = q
    BY <2>9, SeqEqual
  <2> QED
    BY <2>10 DEF p, q
<1>4. \A b : Before(t, b) = FlattenSeq(Parts(b))
  BY DEF Before
<1> HIDE DEF Parts
<1>5. \A b \in 0 .. Len(t.labels) + 1 : Before(t, b) \in Seq(SourceLine)
  BY <1>2, <1>4, FlattenType
<1>6. ASSUME NEW b \in Bodies(t)
      PROVE  Before(t, b + 1) = Before(t, b) \o Block(t, b)
  <2>1. b \in 0 .. Len(t.labels) + 1
    BY <1>1 DEF Bodies
  <2>2. Parts(b) \in Seq(Seq(SourceLine)) /\ Block(t, b) \in Seq(SourceLine)
    BY <1>2, <2>1, BlockType
  <2>3. FlattenSeq(Append(Parts(b), Block(t, b))) = FlattenSeq(Parts(b)) \o Block(t, b)
    BY <2>2, FlattenAppend
  <2> QED
    BY <1>3, <1>4, <2>3
<1>7. Before(t, 0) = << >>
  <2>1. 0 \in 0 .. Len(t.labels) + 1
    BY <1>1
  <2>2. Parts(0) \in Seq(Seq(SourceLine)) /\ Len(Parts(0)) = 0
    BY <1>2, <2>1
  <2>3. Parts(0) = << >>
    BY <2>2
  <2> QED
    BY <1>4, <2>3, FlattenNone
<1> QED
  BY <1>5, <1>6, <1>7

LEMMA StartStep ==
  ASSUME NEW t \in TopLevelNode
  PROVE  /\ Start(t, 0) = 0
         /\ \A b \in 0 .. Len(t.labels) + 1 : Start(t, b) \in Nat
         /\ \A b \in Bodies(t) :
              /\ Start(t, b + 1) = Start(t, b) + Len(BodyIn(t, b))
              /\ \A k \in 1 .. Start(t, b) : Before(t, b + 1)[k] = Before(t, b)[k]
              /\ \A m \in 1 .. Len(BodyIn(t, b)) :
                   Before(t, b + 1)[Start(t, b) + m] =
                     [node |-> BodyIn(t, b)[m], entry |-> NameIn(t, b, m)]
<1>1. Start(t, 0) = 0 /\ \A b \in 0 .. Len(t.labels) + 1 : Start(t, b) \in Nat
  BY BeforeStep DEF Start
<1>2. ASSUME NEW b \in Bodies(t)
      PROVE  /\ Start(t, b + 1) = Start(t, b) + Len(BodyIn(t, b))
             /\ \A k \in 1 .. Start(t, b) : Before(t, b + 1)[k] = Before(t, b)[k]
             /\ \A m \in 1 .. Len(BodyIn(t, b)) :
                  Before(t, b + 1)[Start(t, b) + m] =
                    [node |-> BodyIn(t, b)[m], entry |-> NameIn(t, b, m)]
  <2>1. b \in 0 .. Len(t.labels) + 1
    BY BlockType DEF Bodies
  <2>2. /\ Before(t, b) \in Seq(SourceLine) /\ Block(t, b) \in Seq(SourceLine)
        /\ Before(t, b + 1) = Before(t, b) \o Block(t, b)
        /\ Len(Block(t, b)) = Len(BodyIn(t, b)) /\ BodyIn(t, b) \in Seq(InstructionNode)
    BY <2>1, BlockType, BeforeStep
  <2>3. \A m \in 1 .. Len(BodyIn(t, b)) :
          Block(t, b)[m] = [node |-> BodyIn(t, b)[m], entry |-> NameIn(t, b, m)]
    BY <2>2 DEF Block
  <2> DEFINE p == Before(t, b)
             q == Block(t, b)
  <2>4. /\ p \in Seq(SourceLine) /\ q \in Seq(SourceLine) /\ Before(t, b + 1) = p \o q
        /\ Len(q) = Len(BodyIn(t, b)) /\ Start(t, b) = Len(p) /\ Start(t, b + 1) = Len(p \o q)
        /\ Len(BodyIn(t, b)) \in Nat
    BY <2>2 DEF Start
  <2>5. \A m \in 1 .. Len(q) : q[m] = [node |-> BodyIn(t, b)[m], entry |-> NameIn(t, b, m)]
    BY <2>3, <2>4
  <2> HIDE DEF p, q
  <2>6. /\ Len(p \o q) = Len(p) + Len(q)
        /\ \A k \in 1 .. Len(p) : (p \o q)[k] = p[k]
        /\ \A m \in 1 .. Len(q) : (p \o q)[Len(p) + m] = q[m]
    BY <2>4, SMTT(30)
  <2> QED
    BY <2>4, <2>5, <2>6 DEF p
<1> QED
  BY <1>1, <1>2

\* What has been laid out stays where it is.
LEMMA BeforeGrows ==
  ASSUME NEW t \in TopLevelNode, NEW b \in 0 .. Len(t.labels) + 1
  PROVE  \A c \in b .. Len(t.labels) + 1 :
           /\ Start(t, b) <= Start(t, c)
           /\ \A k \in 1 .. Start(t, b) : Before(t, c)[k] = Before(t, b)[k]
<1> DEFINE Kept(c) == /\ Start(t, b) <= Start(t, c)
                      /\ \A k \in 1 .. Start(t, b) : Before(t, c)[k] = Before(t, b)[k]
           Changed == {c \in b .. Len(t.labels) + 1 : ~Kept(c)}
<1>1. Len(t.labels) \in Nat
  BY DEF TopLevelNode
<1>2. ASSUME Changed # {} PROVE FALSE
  <2>1. Changed \in SUBSET Nat
    BY <1>1
  <2>2. PICK c \in Changed : \A d \in Changed : c <= d
    <3> HIDE DEF Changed
    <3> QED
      BY <1>2, <2>1, Least
  <2>3. c \in b .. Len(t.labels) + 1 /\ ~Kept(c)
    OBVIOUS
  <2>4. c # b
    BY <2>3, StartStep
  <2>5. c - 1 \in b .. Len(t.labels) + 1 /\ c - 1 \in Bodies(t) /\ ~(c <= c - 1) /\ (c - 1) + 1 = c
    BY <1>1, <2>3, <2>4 DEF Bodies
  <2>6. Kept(c - 1)
    BY <2>2, <2>5
  <2> HIDE DEF Changed
  <2> DEFINE d == c - 1
  <2>7. d + 1 = c /\ d \in Bodies(t) /\ Kept(d)
    BY <2>5, <2>6
  <2>8. /\ Start(t, c) = Start(t, d) + Len(BodyIn(t, d))
        /\ \A k \in 1 .. Start(t, d) : Before(t, c)[k] = Before(t, d)[k]
    <3> HIDE DEF d, Kept
    <3>1. /\ Start(t, d + 1) = Start(t, d) + Len(BodyIn(t, d))
          /\ \A k \in 1 .. Start(t, d) : Before(t, d + 1)[k] = Before(t, d)[k]
      BY <2>7, StartStep
    <3> QED
      BY <2>7, <3>1
  <2> HIDE DEF d
  <2>9. Len(BodyIn(t, d)) \in Nat
    BY <2>7, BlockType
  <2>10. Start(t, b) \in Nat /\ Start(t, d) \in Nat
    BY <1>1, <2>7, StartStep DEF Bodies
  <2>11. Kept(c)
    BY <2>7, <2>8, <2>9, <2>10
  <2> QED
    BY <2>3, <2>11
<1> QED
  BY <1>2

\* Each body stands in the source as it is.
LEMMA SourceAt ==
  ASSUME NEW t \in TopLevelNode, NEW b \in Bodies(t), NEW m \in 1 .. Len(BodyIn(t, b))
  PROVE  /\ Start(t, b) + m \in DOMAIN Source(t)
         /\ Source(t)[Start(t, b) + m] =
              [node |-> BodyIn(t, b)[m], entry |-> NameIn(t, b, m)]
<1>1. Len(t.labels) \in Nat /\ BodyIn(t, b) \in Seq(InstructionNode)
  BY BlockType
<1>2. b + 1 \in 0 .. Len(t.labels) + 1 /\ b \in 0 .. Len(t.labels) + 1 /\ Len(t.labels) + 1 \in b + 1 .. Len(t.labels) + 1
  BY <1>1 DEF Bodies
<1> DEFINE last == Len(t.labels) + 1
<1>3. /\ Start(t, b + 1) <= Start(t, last)
      /\ \A k \in 1 .. Start(t, b + 1) : Source(t)[k] = Before(t, b + 1)[k]
  BY <1>2, BeforeGrows DEF Source
<1>4. /\ Start(t, b) \in Nat /\ Start(t, last) \in Nat /\ Source(t) \in Seq(SourceLine)
      /\ Len(Source(t)) = Start(t, last)
  BY <1>1, <1>2, StartStep, BeforeStep DEF Source, Start
<1>5. /\ Start(t, b + 1) = Start(t, b) + Len(BodyIn(t, b))
      /\ Before(t, b + 1)[Start(t, b) + m] = [node |-> BodyIn(t, b)[m], entry |-> NameIn(t, b, m)]
  BY StartStep
<1> HIDE DEF last
<1>6. Start(t, b) + m \in 1 .. Start(t, b + 1) /\ Start(t, b) + m \in 1 .. Start(t, last)
  BY <1>1, <1>3, <1>4, <1>5
<1> QED
  BY <1>3, <1>4, <1>5, <1>6

\* There is nothing else in the source.
LEMMA SourceWhere ==
  ASSUME NEW t \in TopLevelNode, NEW k \in DOMAIN Source(t)
  PROVE  \E b \in Bodies(t) : \E m \in 1 .. Len(BodyIn(t, b)) : k = Start(t, b) + m
<1> DEFINE last == Len(t.labels) + 1
           Behind == {c \in 0 .. last : k <= Start(t, c)}
<1>1. Len(t.labels) \in Nat /\ last \in 0 .. last
  BY DEF TopLevelNode
<1>2. Source(t) \in Seq(SourceLine) /\ Len(Source(t)) = Start(t, last)
  BY <1>1, BeforeStep DEF Source, Start
<1>3. last \in Behind /\ k \in Nat \ {0}
  BY <1>1, <1>2
<1>4. Behind \in SUBSET Nat /\ Behind # {}
  BY <1>1, <1>3
<1>5. PICK c \in Behind : \A d \in Behind : c <= d
  <2> HIDE DEF Behind
  <2> QED
    BY <1>4, Least
<1>6. c # 0
  BY <1>3, StartStep
<1> DEFINE b == c - 1
<1>7. b \in Bodies(t) /\ b \in 0 .. last /\ b \notin Behind /\ b + 1 = c
  BY <1>1, <1>5, <1>6 DEF Bodies
<1>8. Start(t, b) < k /\ k <= Start(t, b + 1)
  <2>1. ~(k <= Start(t, b))
    BY <1>7
  <2>2. Start(t, b) \in Nat /\ k \in Nat
    BY <1>3, <1>7, StartStep
  <2> QED
    BY <1>5, <1>7, <2>1, <2>2
<1> HIDE DEF b, Behind
<1>9. /\ Start(t, b) \in Nat /\ Start(t, b + 1) = Start(t, b) + Len(BodyIn(t, b))
      /\ Len(BodyIn(t, b)) \in Nat
  BY <1>7, StartStep, BlockType
<1>10. k - Start(t, b) \in 1 .. Len(BodyIn(t, b)) /\ k = Start(t, b) + (k - Start(t, b))
  BY <1>3, <1>8, <1>9
<1> QED
  BY <1>7, <1>10

\* A label's body is not empty, so no two labels start at the same place.
LEMMA StartsRise ==
  ASSUME NEW t \in TopLevelNode, NEW b \in Bodies(t), NEW c \in Bodies(t), 0 < b, b < c
  PROVE  Start(t, b) < Start(t, c)
<1>1. /\ Len(t.labels) \in Nat /\ Len(BodyIn(t, b)) \in Nat /\ Len(BodyIn(t, b)) > 0
  BY BlockType
<1>2. b + 1 \in 0 .. Len(t.labels) + 1 /\ c \in b + 1 .. Len(t.labels) + 1
  BY <1>1 DEF Bodies
<1>3. Start(t, b + 1) <= Start(t, c)
  BY <1>2, BeforeGrows
<1>4. /\ Start(t, b + 1) = Start(t, b) + Len(BodyIn(t, b))
      /\ Start(t, b) \in Nat /\ Start(t, c) \in Nat
  BY <1>1, <1>2, StartStep DEF Bodies
<1> QED
  BY <1>1, <1>3, <1>4

\* The loop over the labels counts the instructions of the source.
LEMMA Counted ==
  ASSUME NEW t \in TopLevelNode
  PROVE  count_instructions(t) = Start(t, Len(t.labels) + 1)
<1> DEFINE N == Len(t.labels)
           Sum(f, l) == IF l = 0 THEN Len(t.instructions)
                        ELSE f[l - 1] + Len(t.labels[l].instructions)
           Totals(f) == f = [l \in 0 .. N |-> Sum(f, l)]
           total == CHOOSE f : Totals(f)
           start == [l \in 0 .. N |-> Start(t, l + 1)]
<1>1. N \in Nat
  BY DEF TopLevelNode
<1>2. count_instructions(t) = total[N]
  BY DEF count_instructions
<1>3. ASSUME NEW l \in 0 .. N
      PROVE  Start(t, l + 1) = Sum(start, l)
  <2>1. l \in Bodies(t) /\ Start(t, l + 1) = Start(t, l) + Len(BodyIn(t, l))
    BY <1>1, StartStep DEF Bodies
  <2>2. CASE l = 0
    <3>1. Len(t.instructions) \in Nat
      BY DEF TopLevelNode
    <3> QED
      BY <2>1, <2>2, <3>1, StartStep DEF BodyIn
  <2>3. CASE l # 0
    <3>1. l - 1 \in 0 .. N /\ l - 1 + 1 = l
      BY <1>1, <2>3
    <3>2. start[l - 1] = Start(t, l)
      BY <3>1
    <3> HIDE DEF start
    <3> QED
      BY <2>1, <2>3, <3>2 DEF BodyIn
  <2> QED
    BY <2>2, <2>3
<1>4. Totals(start)
  <2>1. \A l \in 0 .. N : start[l] = Start(t, l + 1)
    OBVIOUS
  <2>2. start = [l \in 0 .. N |-> start[l]]
    OBVIOUS
  <2> HIDE DEF start, Sum
  <2> QED
    BY <1>3, <2>1, <2>2
<1>5. Totals(total)
  <2> HIDE DEF Totals
  <2> QED
    BY <1>4
<1> HIDE DEF total
<1> DEFINE Differ == {l \in 0 .. N : total[l] # start[l]}
<1>6. ASSUME Differ # {} PROVE FALSE
  <2>1. Differ \in SUBSET Nat
    BY <1>1
  <2>2. PICK l \in Differ : \A m \in Differ : l <= m
    <3> HIDE DEF Differ
    <3> QED
      BY <1>6, <2>1, Least
  <2>3. l \in 0 .. N /\ total[l] # start[l]
    OBVIOUS
  <2>4. total[l] = Sum(total, l) /\ start[l] = Sum(start, l)
    BY <1>4, <1>5, <2>3
  <2>5. ASSUME l # 0 PROVE total[l - 1] = start[l - 1]
    <3>1. l - 1 \in 0 .. N /\ ~(l <= l - 1)
      BY <1>1, <2>3, <2>5
    <3>2. l - 1 \notin Differ
      BY <2>2, <3>1
    <3> QED
      BY <3>1, <3>2
  <2> HIDE DEF start, Differ
  <2> QED
    BY <2>3, <2>4, <2>5
<1>7. N \in 0 .. N /\ total[N] = start[N]
  BY <1>1, <1>6
<1> QED
  BY <1>2, <1>7

-----------------------------------------------------------------------------
(* What program_build has made of the source so far *)

SourceInsn(t, k) == convert_instruction_node(Source(t)[k].node)

LaidOut == Len(instructions) = Start(top_node, Len(resolved_labels)) + converted

LabelsAtStart ==
  \A b \in DOMAIN resolved_labels :
    /\ resolved_labels[b].name = top_node.labels[b].name
    /\ resolved_labels[b].instruction_index = Start(top_node, b)

Phases ==
  /\ phase # "assertion"
  /\ phase = "convert" => resolved = 0
  /\ phase # "convert" => Len(resolved_labels) = Len(top_node.labels) /\ converted = Len(Body)
  /\ phase = "built" => resolved = Len(instructions)

InstructionsMean ==
  \A k \in DOMAIN instructions :
    instructions[k] = IF k <= resolved THEN Resolve(SourceInsn(top_node, k))
                      ELSE SourceInsn(top_node, k)

SInv == LaidOut /\ LabelsAtStart /\ Phases /\ InstructionsMean

LEMMA BodyNow ==
  ASSUME IInv
  PROVE  /\ Body = BodyIn(top_node, Len(resolved_labels))
         /\ Len(resolved_labels) \in Bodies(top_node)
         /\ DOMAIN resolved_labels \subseteq Bodies(top_node)
         /\ \A b \in DOMAIN resolved_labels : b > 0
         /\ top_node \in TopLevelNode
         /\ Len(top_node.labels) \in Nat
<1>1. /\ top_node \in TopLevelNode /\ Len(top_node.labels) \in Nat
      /\ resolved_labels \in Seq(ResolvedLabel) /\ Len(resolved_labels) <= Len(top_node.labels)
  BY DEF IInv, TypeOK, Progress, TopLevelNode
<1>2. Body = BodyIn(top_node, Len(resolved_labels))
  BY <1>1, EmptySeq DEF Body, BodyIn
<1> QED
  BY <1>1, <1>2 DEF Bodies

\* When a body is converted, the next one starts behind it.
LEMMA BodyDone ==
  ASSUME IInv, LaidOut, converted = Len(Body)
  PROVE  /\ Len(instructions) = Start(top_node, Len(resolved_labels) + 1)
         /\ Len(resolved_labels) = Len(top_node.labels) =>
              /\ Len(instructions) = count_instructions(top_node)
              /\ Len(instructions) = Len(Source(top_node))
<1>1. Len(instructions) = Start(top_node, Len(resolved_labels) + 1)
  BY BodyNow, StartStep DEF LaidOut
<1> QED
  BY <1>1, BodyNow, Counted DEF Source, Start

LEMMA InitSInv == Init => SInv
<1> SUFFICES ASSUME Init PROVE SInv
  OBVIOUS
<1>1. top_node \in TopLevelNode
  BY BuildAssumption DEF Init
<1>2. Start(top_node, 0) = 0
  BY <1>1, StartStep
<1> QED
  BY <1>2 DEF Init, SInv, LaidOut, LabelsAtStart, Phases, InstructionsMean

LEMMA ConvertMeans == IInv /\ SInv /\ ConvertInstruction => SInv'
<1> SUFFICES ASSUME IInv, SInv, ConvertInstruction PROVE SInv'
  OBVIOUS
<1> DEFINE t == top_node
           L == Len(resolved_labels)
           insn == convert_instruction_node(Body[converted + 1])
<1>1. /\ L \in Bodies(t) /\ Body = BodyIn(t, L) /\ t \in TopLevelNode
      /\ Body \in Seq(InstructionNode)
  BY BodyNow, BodyType DEF IInv
<1>2. /\ converted \in Nat /\ converted + 1 \in 1 .. Len(BodyIn(t, L))
      /\ instructions \in Seq(Instruction)
  BY <1>1 DEF IInv, TypeOK, ConvertInstruction
<1>3. /\ instructions' = Append(instructions, insn) /\ converted' = converted + 1
      /\ phase = "convert" /\ resolved = 0
      /\ UNCHANGED <<top_node, resolved_labels, resolved, phase>>
  BY DEF ConvertInstruction, SInv, Phases
<1>4. Start(t, L) \in Nat
  <2>1. L \in 0 .. Len(t.labels) + 1
    BY BodyNow DEF Bodies
  <2> QED
    BY <1>1, <2>1, StartStep
<1>5. Source(t)[Start(t, L) + (converted + 1)].node = Body[converted + 1]
  <2> DEFINE m == converted + 1
  <2>1. m \in 1 .. Len(BodyIn(t, L))
    BY <1>2
  <2> HIDE DEF m
  <2>2. Source(t)[Start(t, L) + m] = [node |-> BodyIn(t, L)[m], entry |-> NameIn(t, L, m)]
    BY <1>1, <2>1, SourceAt
  <2> QED
    BY <1>1, <2>2 DEF m
<1>6. Len(instructions) + 1 = Start(t, L) + (converted + 1)
  BY <1>2, <1>4 DEF SInv, LaidOut
<1>7. insn = SourceInsn(t, Len(instructions) + 1)
  BY <1>5, <1>6 DEF SourceInsn
<1>8. insn \in Instruction
  BY <1>1, <1>2, ConvertedInstruction
<1> HIDE DEF insn
<1>9. LaidOut'
  BY <1>2, <1>3, <1>6, <1>8 DEF LaidOut
<1>10. LabelsAtStart'
  BY <1>3 DEF SInv, LabelsAtStart
<1>11. Phases'
  BY <1>3 DEF Phases
<1>12. InstructionsMean'
  <2>1. ASSUME NEW k \in DOMAIN instructions'
        PROVE  ~(k <= resolved) /\ instructions'[k] = SourceInsn(t, k)
    <3>1. k \in 1 .. Len(instructions) + 1
      BY <1>2, <1>3, <1>8
    <3>2. CASE k = Len(instructions) + 1
      BY <1>2, <1>3, <1>7, <1>8, <3>2
    <3>3. CASE k # Len(instructions) + 1
      <4>1. k \in DOMAIN instructions /\ instructions'[k] = instructions[k] /\ ~(k <= resolved)
        BY <1>2, <1>3, <1>8, <3>1, <3>3
      <4> QED
        BY <4>1 DEF SInv, InstructionsMean
    <3> QED
      BY <1>3, <3>1, <3>2, <3>3
  <2> QED
    BY <1>3, <2>1 DEF InstructionsMean
<1> QED
  BY <1>9, <1>10, <1>11, <1>12 DEF SInv

LEMMA RegisterMeans == IInv /\ SInv /\ RegisterLabel => SInv'
<1> SUFFICES ASSUME IInv, SInv, RegisterLabel PROVE SInv'
  OBVIOUS
<1> DEFINE n == Len(resolved_labels) + 1
           entry == Entry(n)
<1>1. /\ resolved_labels \in Seq(ResolvedLabel) /\ top_node \in TopLevelNode
      /\ n \in DOMAIN top_node.labels /\ n \in Nat /\ n \in 0 .. Len(top_node.labels) + 1
  BY DEF IInv, TypeOK, TopLevelNode, RegisterLabel
<1>2. top_node.labels[n] \in LabelNode
  BY <1>1 DEF TopLevelNode
<1>3. entry \in ResolvedLabel
  BY <1>2 DEF LabelNode, IInv, TypeOK, ResolvedLabel, Entry
<1>4. Len(instructions) = Start(top_node, n)
  BY BodyDone DEF SInv, RegisterLabel
<1>5. entry.name = top_node.labels[n].name /\ entry.instruction_index = Start(top_node, n)
  BY <1>4 DEF Entry
<1>6. /\ resolved_labels' = Append(resolved_labels, entry)
      /\ converted' = 0 /\ phase = "convert"
      /\ UNCHANGED <<top_node, instructions, resolved, phase>>
  BY DEF RegisterLabel
<1> HIDE DEF entry
<1>7. /\ Len(resolved_labels') = n /\ DOMAIN resolved_labels' = 1 .. n
      /\ \A l \in 1 .. n : resolved_labels'[l] = IF l = n THEN entry ELSE resolved_labels[l]
      /\ DOMAIN resolved_labels = 1 .. n - 1
  BY <1>1, <1>3, <1>6
<1>8. LaidOut'
  <2>1. Start(top_node, n) \in Nat
    BY <1>1, StartStep
  <2> QED
    BY <1>4, <1>6, <1>7, <2>1 DEF LaidOut
<1>9. LabelsAtStart'
  <2>1. \A l \in 1 .. n : l # n => l \in DOMAIN resolved_labels
    BY <1>1, <1>7
  <2> QED
    BY <1>5, <1>6, <1>7, <2>1 DEF SInv, LabelsAtStart
<1>10. Phases'
  BY <1>6 DEF SInv, Phases
<1>11. InstructionsMean'
  <2>1. resolved = 0 /\ \A k \in DOMAIN instructions : ~(k <= resolved)
    BY <1>6 DEF SInv, Phases, IInv, TypeOK
  <2> QED
    BY <1>6, <2>1 DEF SInv, InstructionsMean
<1> QED
  BY <1>8, <1>9, <1>10, <1>11 DEF SInv

\* Resolve depends on the resolved labels alone.
LEMMA ResolveStays ==
  ASSUME UNCHANGED resolved_labels
  PROVE  \A insn : Resolve(insn)' = Resolve(insn)
BY DEF Resolve, Target, Named

LEMMA AllConvertedMeans == IInv /\ SInv /\ AllConverted => SInv'
<1> SUFFICES ASSUME IInv, SInv, AllConverted PROVE SInv'
  OBVIOUS
<1>1. Len(instructions) = count_instructions(top_node)
  BY BodyDone DEF SInv, AllConverted
<1>2. /\ phase' = "resolve" /\ phase = "convert"
      /\ UNCHANGED <<top_node, instructions, resolved_labels, converted, resolved>>
  BY <1>1 DEF AllConverted
<1>3. Phases'
  BY <1>2 DEF SInv, Phases, AllConverted, Body
<1>4. InstructionsMean'
  BY <1>2, ResolveStays DEF SInv, InstructionsMean
<1> QED
  BY <1>2, <1>3, <1>4 DEF SInv, LaidOut, LabelsAtStart

LEMMA ResolveMeans == IInv /\ SInv /\ ResolveBranch => SInv'
<1> SUFFICES ASSUME IInv, SInv, ResolveBranch PROVE SInv'
  OBVIOUS
<1> DEFINE r == resolved + 1
<1>1. /\ instructions \in Seq(Instruction) /\ r \in DOMAIN instructions /\ resolved \in Nat
      /\ phase = "resolve"
      /\ instructions' = [instructions EXCEPT ![r] = Resolve(@)] /\ resolved' = r
      /\ UNCHANGED <<top_node, resolved_labels, converted, phase>>
  BY DEF IInv, TypeOK, ResolveBranch
<1>2. /\ DOMAIN instructions' = DOMAIN instructions /\ Len(instructions') = Len(instructions)
      /\ \A k \in DOMAIN instructions :
           instructions'[k] = IF k = r THEN Resolve(instructions[k]) ELSE instructions[k]
  BY <1>1
<1>3. InstructionsMean'
  <2>1. ASSUME NEW k \in DOMAIN instructions
        PROVE  instructions'[k] = IF k <= r THEN Resolve(SourceInsn(top_node, k))
                                  ELSE SourceInsn(top_node, k)
    <3>1. instructions[k] = IF k <= resolved THEN Resolve(SourceInsn(top_node, k))
                            ELSE SourceInsn(top_node, k)
      BY DEF SInv, InstructionsMean
    <3>2. k \in Nat /\ (k <= r <=> k <= resolved \/ k = r) /\ (k = r => ~(k <= resolved))
      BY <1>1
    <3> QED
      BY <1>2, <3>1, <3>2
  <2> QED
    BY <1>1, <1>2, <2>1, ResolveStays DEF InstructionsMean
<1>4. Phases'
  BY <1>1, <1>2 DEF SInv, Phases, Body
<1> QED
  BY <1>1, <1>2, <1>3, <1>4 DEF SInv, LaidOut, LabelsAtStart

LEMMA NextSInv == IInv /\ SInv /\ [Next]_vars => SInv'
<1> SUFFICES ASSUME IInv, SInv, [Next]_vars PROVE SInv'
  OBVIOUS
<1>1. CASE ConvertInstruction
  BY <1>1, ConvertMeans
<1>2. CASE RegisterLabel
  BY <1>2, RegisterMeans
<1>3. CASE AllConverted
  BY <1>3, AllConvertedMeans
<1>4. CASE ResolveBranch
  BY <1>4, ResolveMeans
<1>5. CASE Finish \/ Stopped \/ UNCHANGED vars
  <2>1. /\ UNCHANGED <<top_node, instructions, resolved_labels, converted, resolved>>
        /\ phase' # phase => phase = "resolve" /\ phase' = "built" /\ resolved = Len(instructions)
    BY <1>5 DEF Finish, Stopped, vars
  <2>2. Phases'
    BY <2>1 DEF SInv, Phases, Body
  <2>3. InstructionsMean'
    BY <2>1, ResolveStays DEF SInv, InstructionsMean
  <2> QED
    BY <2>1, <2>2, <2>3 DEF SInv, LaidOut, LabelsAtStart
<1> QED
  BY <1>1, <1>2, <1>3, <1>4, <1>5 DEF Next

LEMMA SourceInvariance == Spec => [](IInv /\ SInv)
<1>1. Init => IInv /\ SInv
  BY InitIInv, InitSInv
<1>2. IInv /\ SInv /\ [Next]_vars => (IInv /\ SInv)'
  BY NextIInv, NextSInv
<1> QED
  BY <1>1, <1>2, PTL DEF Spec

\* What resolving does to an instruction: at most its first operand becomes the
\* index of the first label of its name.
LEMMA ResolveShape ==
  ASSUME NEW insn \in Instruction, resolved_labels \in Seq(ResolvedLabel)
  PROVE  LET op == insn.operands[1]
             found == insn.operands # << >> /\ op.type = "UNRESOLVED_BRANCH" /\ Named(op.arg) # {}
         IN  /\ ~found => Resolve(insn) = insn
             /\ Resolve(insn).opcode = insn.opcode
             /\ DOMAIN Resolve(insn).operands = DOMAIN insn.operands
             /\ Len(Resolve(insn).operands) = Len(insn.operands)
             /\ \A k \in DOMAIN insn.operands :
                  Resolve(insn).operands[k] =
                    IF found /\ k = 1
                    THEN [type |-> "BRANCH",
                          arg |-> resolved_labels[Target(op.arg)].instruction_index,
                          extra |-> op.extra]
                    ELSE insn.operands[k]
             /\ found => /\ Target(op.arg) \in Named(op.arg)
                         /\ \A m \in Named(op.arg) : Target(op.arg) <= m
<1> DEFINE op == insn.operands[1]
           found == insn.operands # << >> /\ op.type = "UNRESOLVED_BRANCH" /\ Named(op.arg) # {}
           branch == [type |-> "BRANCH",
                      arg |-> resolved_labels[Target(op.arg)].instruction_index,
                      extra |-> op.extra]
<1>1. ~found => Resolve(insn) = insn
  BY DEF Resolve
<1>2. ASSUME found
      PROVE  /\ Resolve(insn).opcode = insn.opcode
             /\ Resolve(insn).operands = [insn.operands EXCEPT ![1] = branch]
  BY <1>2 DEF Resolve, Instruction
<1>3. insn.operands \in Seq(Operand)
  BY DEF Instruction
<1>4. ASSUME found
      PROVE  /\ Target(op.arg) \in Named(op.arg)
             /\ \A m \in Named(op.arg) : Target(op.arg) <= m
  <2>1. Named(op.arg) \in SUBSET Nat /\ Named(op.arg) # {}
    BY <1>4 DEF Named
  <2>2. \E l \in Named(op.arg) : \A m \in Named(op.arg) : l <= m
    BY <2>1, Least
  <2> QED
    BY <2>2 DEF Target
<1> HIDE DEF branch, found
<1>5. CASE found
  <2>1. /\ DOMAIN Resolve(insn).operands = DOMAIN insn.operands
        /\ Len(Resolve(insn).operands) = Len(insn.operands)
        /\ \A k \in DOMAIN insn.operands :
             Resolve(insn).operands[k] = IF k = 1 THEN branch ELSE insn.operands[k]
    BY <1>2, <1>3, <1>5
  <2> QED
    BY <1>2, <1>4, <1>5, <2>1 DEF found, branch
<1>6. CASE ~found
  BY <1>1, <1>6 DEF found
<1> QED
  BY <1>5, <1>6

\* What conversion makes of an instruction.
LEMMA ConvertShape ==
  ASSUME NEW n \in InstructionNode
  PROVE  LET insn == convert_instruction_node(n)
         IN  /\ insn.opcode = get_opcode(n.opcode)
             /\ insn.opcode \in BranchOpcode <=> n.opcode \in BranchOpcode
             /\ Len(insn.operands) = Len(n.operands)
             /\ DOMAIN insn.operands = DOMAIN n.operands
             /\ \A k \in DOMAIN n.operands :
                  /\ n.operands[k] \in OperandNode
                  /\ insn.operands[k] = convert_operand(get_opcode(n.opcode), n.operands[k])
<1>1. n.operands \in Seq(OperandNode) /\ DOMAIN n.operands = 1 .. Len(n.operands) /\ Len(n.operands) \in Nat
  BY DEF InstructionNode
<1>2. get_opcode(n.opcode) \in BranchOpcode <=> n.opcode \in BranchOpcode
  BY DEF get_opcode, BranchOpcode, ValidOpcode, Conditional
<1> QED
  BY <1>1, <1>2 DEF convert_instruction_node

\* Where the source names a label: there, in the order of the labels.
LEMMA Places ==
  ASSUME IInv, SInv, Len(resolved_labels) = Len(top_node.labels), NEW name \in Symbols
  PROVE  LET places == {j \in DOMAIN Source(top_node) : Source(top_node)[j].entry = name}
         IN  /\ \A j \in places : \E b \in Named(name) : j = Start(top_node, b) + 1
             /\ \A b \in Named(name) : Start(top_node, b) + 1 \in places
<1> DEFINE t == top_node
<1>1. /\ t \in TopLevelNode /\ DOMAIN resolved_labels = 1 .. Len(t.labels)
      /\ Len(t.labels) \in Nat
  <2>1. resolved_labels \in Seq(ResolvedLabel)
    BY DEF IInv, TypeOK
  <2> QED
    BY <2>1, BodyNow
<1>2. ASSUME NEW j \in DOMAIN Source(t), Source(t)[j].entry = name
      PROVE  \E b \in Named(name) : j = Start(t, b) + 1
  <2>7. PICK b \in Bodies(t) : \E m \in 1 .. Len(BodyIn(t, b)) : j = Start(t, b) + m
    BY <1>1, SourceWhere
  <2>1. PICK m \in 1 .. Len(BodyIn(t, b)) : j = Start(t, b) + m
    BY <2>7
  <2>2. Source(t)[j].entry = NameIn(t, b, m)
    <3>1. Source(t)[Start(t, b) + m] = [node |-> BodyIn(t, b)[m], entry |-> NameIn(t, b, m)]
      BY <1>1, SourceAt
    <3> QED
      BY <2>1, <3>1
  <2>3. NULL \notin Symbols
    BY SyntaxAssumption
  <2>4. b > 0 /\ m = 1 /\ t.labels[b].name = name
    BY <1>2, <2>2, <2>3 DEF NameIn
  <2>5. b \in DOMAIN resolved_labels
    BY <1>1, <2>4 DEF Bodies
  <2>6. b \in Named(name)
    BY <2>4, <2>5 DEF Named, SInv, LabelsAtStart
  <2> QED
    BY <2>1, <2>4, <2>6
<1>3. ASSUME NEW b \in Named(name)
      PROVE  /\ Start(t, b) + 1 \in DOMAIN Source(t)
             /\ Source(t)[Start(t, b) + 1].entry = name
  <2>1. b \in DOMAIN resolved_labels /\ t.labels[b].name = name
    BY DEF Named, SInv, LabelsAtStart
  <2>2. b \in Bodies(t) /\ b > 0
    BY <1>1, <2>1 DEF Bodies
  <2>3. 1 \in 1 .. Len(BodyIn(t, b))
    BY <1>1, <2>2, BlockType
  <2>4. /\ Start(t, b) + 1 \in DOMAIN Source(t)
        /\ Source(t)[Start(t, b) + 1] = [node |-> BodyIn(t, b)[1], entry |-> NameIn(t, b, 1)]
    BY <1>1, <2>2, <2>3, SourceAt
  <2> QED
    BY <2>1, <2>2, <2>4 DEF NameIn
<1> QED
  BY <1>2, <1>3

LEMMA SourceLineType ==
  ASSUME NEW t \in TopLevelNode, NEW k \in DOMAIN Source(t)
  PROVE  Source(t)[k].node \in InstructionNode /\ SourceInsn(t, k) \in Instruction
<1>1. Len(t.labels) + 1 \in 0 .. Len(t.labels) + 1
  BY DEF TopLevelNode
<1>2. Source(t) \in Seq(SourceLine)
  BY <1>1, BeforeStep DEF Source
<1>3. Source(t)[k] \in SourceLine
  BY <1>2
<1> QED
  BY <1>3, ConvertedInstruction DEF SourceLine, SourceInsn

LEMMA BuiltProgram ==
  ASSUME IInv, SInv, phase = "built"
  PROVE  /\ top_node \in TopLevelNode
         /\ resolved_labels \in Seq(ResolvedLabel)
         /\ Len(resolved_labels) = Len(top_node.labels)
         /\ Len(instructions) = Len(Source(top_node))
         /\ DOMAIN instructions = DOMAIN Source(top_node)
         /\ \A k \in DOMAIN instructions :
              instructions[k] = Resolve(SourceInsn(top_node, k))
<1>1. /\ top_node \in TopLevelNode /\ resolved_labels \in Seq(ResolvedLabel)
      /\ instructions \in Seq(Instruction)
      /\ Len(resolved_labels) = Len(top_node.labels) /\ converted = Len(Body)
      /\ resolved = Len(instructions)
  BY DEF IInv, TypeOK, SInv, Phases
<1>2. Len(instructions) = Len(Source(top_node))
  BY <1>1, BodyDone DEF SInv
<1>3. Len(top_node.labels) + 1 \in 0 .. Len(top_node.labels) + 1
  BY <1>1 DEF TopLevelNode
<1>4. Source(top_node) \in Seq(SourceLine)
  BY <1>1, <1>3, BeforeStep DEF Source
<1>5. DOMAIN instructions = DOMAIN Source(top_node)
  BY <1>1, <1>2, <1>4
<1>6. \A k \in DOMAIN instructions : k <= resolved
  BY <1>1, SMTT(30)
<1> QED
  BY <1>1, <1>2, <1>5, <1>6 DEF SInv, InstructionsMean

\* A branch to a name that is a label.
LEMMA BranchMeans ==
  ASSUME IInv, SInv, phase = "built", NEW k \in DOMAIN Source(top_node)
  PROVE  LET insn == instructions[k]
             node == Source(top_node)[k].node
             name == node.operands[1].token.value
             places == {j \in DOMAIN Source(top_node) : Source(top_node)[j].entry = name}
         IN  /\ insn.opcode = get_opcode(node.opcode)
             /\ Len(insn.operands) = Len(node.operands)
             /\ insn.opcode \in BranchOpcode /\ insn.operands # << >>
                   /\ node.operands[1].type = "SIMPLE" /\ node.operands[1].token.type = "SYMBOL" =>
                  IF places = {} THEN insn.operands[1].type = "UNRESOLVED_BRANCH"
                  ELSE /\ insn.operands[1].type = "BRANCH"
                       /\ insn.operands[1].arg + 1 \in places
                       /\ \A j \in places : insn.operands[1].arg + 1 <= j
<1> DEFINE t == top_node
           insn == instructions[k]
           node == Source(t)[k].node
           plain == SourceInsn(t, k)
           op == plain.operands[1]
           name == node.operands[1].token.value
           places == {j \in DOMAIN Source(t) : Source(t)[j].entry = name}
<1>1. /\ t \in TopLevelNode /\ resolved_labels \in Seq(ResolvedLabel)
      /\ Len(resolved_labels) = Len(t.labels) /\ insn = Resolve(plain)
  BY BuiltProgram
<1>2. node \in InstructionNode /\ plain \in Instruction /\ plain = convert_instruction_node(node)
  BY <1>1, SourceLineType DEF SourceInsn
<1> HIDE DEF insn, node, plain
<1>3. /\ plain.opcode = get_opcode(node.opcode) /\ Len(plain.operands) = Len(node.operands)
      /\ DOMAIN plain.operands = DOMAIN node.operands
      /\ \A j \in DOMAIN node.operands :
           /\ node.operands[j] \in OperandNode
           /\ plain.operands[j] = convert_operand(get_opcode(node.opcode), node.operands[j])
  BY <1>2, ConvertShape
<1>4. insn.opcode = plain.opcode /\ Len(insn.operands) = Len(plain.operands)
  BY <1>1, <1>2, ResolveShape
<1>5. ASSUME insn.opcode \in BranchOpcode, insn.operands # << >>,
             node.operands[1].type = "SIMPLE", node.operands[1].token.type = "SYMBOL"
      PROVE  IF places = {} THEN insn.operands[1].type = "UNRESOLVED_BRANCH"
             ELSE /\ insn.operands[1].type = "BRANCH"
                  /\ insn.operands[1].arg + 1 \in places
                  /\ \A j \in places : insn.operands[1].arg + 1 <= j
  <2>1. /\ plain.operands \in Seq(Operand) /\ plain.operands # << >> /\ 1 \in DOMAIN plain.operands
    <3>1. plain.operands \in Seq(Operand)
      BY <1>2 DEF Instruction
    <3>2. plain.operands = << >> => Resolve(plain) = plain
      BY DEF Resolve
    <3>3. plain.operands # << >>
      BY <1>1, <1>5, <3>2
    <3> QED
      BY <3>1, <3>3
  <2>2. name \in Symbols
    BY <1>3, <1>5, <2>1 DEF OperandNode, Token, Punctuation
  <2>3. op = [type |-> "UNRESOLVED_BRANCH", arg |-> name, extra |-> 0]
    BY <1>3, <1>4, <1>5, <2>1 DEF convert_operand
  <2>4. op.type = "UNRESOLVED_BRANCH" /\ op.arg = name
    BY <2>3
  <2>5. /\ \A j \in places : \E b \in Named(name) : j = Start(t, b) + 1
        /\ \A b \in Named(name) : Start(t, b) + 1 \in places
    BY <1>1, <2>2, Places
  <2> HIDE DEF op, name, places
  <2>6. CASE Named(name) = {}
    <3>1. insn = plain
      BY <1>1, <2>4, <2>6 DEF Resolve, op
    <3> QED
      BY <2>4, <2>5, <2>6, <3>1 DEF op
  <2>7. CASE Named(name) # {}
    <3> DEFINE b == Target(name)
    <3>1. /\ insn.operands[1].type = "BRANCH"
          /\ insn.operands[1].arg = resolved_labels[b].instruction_index
          /\ b \in Named(name) /\ \A m \in Named(name) : b <= m
      <4>1. /\ op = plain.operands[1]
            /\ plain.operands # << >> /\ op.type = "UNRESOLVED_BRANCH" /\ Named(op.arg) # {}
        BY <2>1, <2>4, <2>7 DEF op
      <4>2. /\ Resolve(plain).operands[1] =
                 [type |-> "BRANCH",
                  arg |-> resolved_labels[Target(op.arg)].instruction_index,
                  extra |-> op.extra]
            /\ Target(op.arg) \in Named(op.arg)
            /\ \A m \in Named(op.arg) : Target(op.arg) <= m
        BY <1>1, <1>2, <2>1, <4>1, ResolveShape
      <4> QED
        BY <1>1, <2>4, <4>2
    <3> HIDE DEF b
    <3>2. \A m \in Named(name) : m \in DOMAIN resolved_labels /\ m \in Bodies(t) /\ m > 0 /\ m \in Nat
      BY BodyNow DEF Named, Bodies
    <3>3. insn.operands[1].arg = Start(t, b)
      BY <3>1, <3>2 DEF SInv, LabelsAtStart
    <3>4. insn.operands[1].arg + 1 \in places
      BY <2>5, <3>1, <3>3
    <3>5. ASSUME NEW j \in places PROVE insn.operands[1].arg + 1 <= j
      <4>1. PICK m \in Named(name) : j = Start(t, m) + 1
        BY <2>5
      <4>2. b <= m /\ b \in Bodies(t) /\ m \in Bodies(t) /\ b > 0 /\ b \in Nat /\ m \in Nat
        BY <3>1, <3>2
      <4>3. Start(t, b) \in Nat /\ Start(t, m) \in Nat
        <5>1. Len(t.labels) \in Nat
          BY BodyNow
        <5>2. b \in 0 .. Len(t.labels) + 1 /\ m \in 0 .. Len(t.labels) + 1
          BY <4>2, <5>1 DEF Bodies
        <5> QED
          BY <1>1, <5>2, StartStep
      <4>4. b = m \/ Start(t, b) < Start(t, m)
        BY <1>1, <4>2, StartsRise
      <4> QED
        BY <3>3, <4>1, <4>3, <4>4
    <3> QED
      BY <3>1, <3>4, <3>5
  <2> QED
    BY <2>6, <2>7
<1> QED
  BY <1>3, <1>4, <1>5 DEF insn, node

\* The built program is its source, instruction by instruction, and a branch
\* goes to the first place where its label stands.
THEOREM BuiltMeansTheSource == Spec => []MeansTheSource
<1>1. IInv /\ SInv => MeansTheSource
  <2> SUFFICES ASSUME IInv, SInv PROVE MeansTheSource
    BY SMTT(30)
  <2>1. CASE phase = "built"
    <3>1. Len(instructions) = Len(Source(top_node))
      BY <2>1, BuiltProgram
    <3>2. \A k \in DOMAIN Source(top_node) :
             LET insn == instructions[k]
                 node == Source(top_node)[k].node
             IN  /\ insn.opcode = get_opcode(node.opcode)
                 /\ Len(insn.operands) = Len(node.operands)
                 /\ insn.opcode \in BranchOpcode /\ insn.operands # << >>
                      /\ node.operands[1].type = "SIMPLE" /\ node.operands[1].token.type = "SYMBOL" =>
                    LET name == node.operands[1].token.value
                        places == {j \in DOMAIN Source(top_node) : Source(top_node)[j].entry = name}
                    IN  IF places = {} THEN insn.operands[1].type = "UNRESOLVED_BRANCH"
                        ELSE /\ insn.operands[1].type = "BRANCH"
                             /\ insn.operands[1].arg + 1 \in places
                             /\ \A j \in places : insn.operands[1].arg + 1 <= j
      BY <2>1, BranchMeans
    <3> QED
      BY <2>1, <3>1, <3>2, SourceIsSourceOrder, ZenonT(60) DEF MeansTheSource
  <2>2. CASE phase # "built"
    BY <2>2 DEF MeansTheSource, SInv, Phases
  <2> QED
    BY <2>1, <2>2
<1> QED
  BY <1>1, SourceInvariance, PTL

\* What gen_c relies on when it writes a goto: a branch goes to where a label
\* stands, and a label stands before an instruction.
BranchesToLabels ==
  phase = "built" =>
    /\ \A l \in DOMAIN resolved_labels :
         resolved_labels[l].instruction_index \in 0 .. Len(instructions) - 1
    /\ \A i \in DOMAIN instructions : \A k \in DOMAIN instructions[i].operands :
         LET op == instructions[i].operands[k]
         IN  op.type = "BRANCH" =>
               \E l \in DOMAIN resolved_labels : resolved_labels[l].instruction_index = op.arg

\* Every label of a built program stands before one of its instructions, and
\* every branch goes to an instruction that has a label: what GenC assumes of the
\* programs it translates.  That no two labels stand before the same instruction
\* is BuiltLabelsInOrder.
THEOREM BuiltBranchesToLabels == Spec => []BranchesToLabels
<1>1. ASSUME IInv, SInv, phase = "built", NEW i \in DOMAIN instructions,
             NEW k \in DOMAIN instructions[i].operands,
             instructions[i].operands[k].type = "BRANCH"
      PROVE  \E l \in DOMAIN resolved_labels :
               resolved_labels[l].instruction_index = instructions[i].operands[k].arg
  <2> DEFINE plain == SourceInsn(top_node, i)
             op == plain.operands[1]
  <2>1. /\ top_node \in TopLevelNode /\ i \in DOMAIN Source(top_node)
        /\ resolved_labels \in Seq(ResolvedLabel) /\ instructions[i] = Resolve(plain)
    BY <1>1, BuiltProgram
  <2>2. /\ plain \in Instruction
        /\ \A j \in DOMAIN plain.operands : plain.operands[j].type # "BRANCH"
    BY <2>1, SourceLineType, ConvertedInstruction DEF SourceInsn
  <2> HIDE DEF plain
  <2> DEFINE found == /\ plain.operands # << >> /\ op.type = "UNRESOLVED_BRANCH"
                      /\ Named(op.arg) # {}
             branch == [type |-> "BRANCH",
                        arg |-> resolved_labels[Target(op.arg)].instruction_index,
                        extra |-> op.extra]
  <2>5. /\ DOMAIN Resolve(plain).operands = DOMAIN plain.operands
        /\ \A j \in DOMAIN plain.operands :
             Resolve(plain).operands[j] = IF found /\ j = 1 THEN branch ELSE plain.operands[j]
        /\ found => Target(op.arg) \in Named(op.arg)
    BY <1>1, <2>1, <2>2, ResolveShape
  <2> HIDE DEF found, op
  <2>3. /\ k \in DOMAIN plain.operands
        /\ instructions[i].operands[k] # plain.operands[k] =>
             /\ instructions[i].operands[k].arg = resolved_labels[Target(op.arg)].instruction_index
             /\ Target(op.arg) \in Named(op.arg)
    BY <1>1, <2>1, <2>5
  <2>4. Named(op.arg) \subseteq DOMAIN resolved_labels
    BY DEF Named
  <2> QED
    BY <1>1, <2>2, <2>3, <2>4
<1>2. ASSUME IInv, SInv, phase = "built", NEW l \in DOMAIN resolved_labels
      PROVE  resolved_labels[l].instruction_index \in 0 .. Len(instructions) - 1
  <2>1. /\ resolved_labels[l].instruction_index \in Nat
        /\ Len(instructions) \in Nat
    <3>1. resolved_labels \in Seq(ResolvedLabel) /\ instructions \in Seq(Instruction)
      BY <1>2 DEF IInv, TypeOK
    <3>2. resolved_labels[l] \in ResolvedLabel
      BY <1>2, <3>1
    <3> QED
      BY <3>1, <3>2 DEF ResolvedLabel
  <2>2. resolved_labels[l].instruction_index < Len(instructions)
    BY <1>2 DEF IInv, LabelsStart
  <2> QED
    BY <2>1, <2>2
<1>3. IInv /\ SInv => BranchesToLabels
  BY <1>1, <1>2 DEF BranchesToLabels
<1> QED
  BY <1>3, SourceInvariance, PTL

-----------------------------------------------------------------------------
(* The listing *)

\* The label found at an index is the one the source has there.
LEMMA LabelAtPlace ==
  ASSUME IInv, SInv, phase = "built", NEW k \in DOMAIN Source(top_node)
  PROVE  LabelAt(k - 1) = Source(top_node)[k].entry
<1> DEFINE t == top_node
           here == {l \in DOMAIN resolved_labels : resolved_labels[l].instruction_index = k - 1}
<1>1. /\ t \in TopLevelNode /\ resolved_labels \in Seq(ResolvedLabel)
      /\ Len(resolved_labels) = Len(t.labels) /\ k \in Nat
      /\ DOMAIN resolved_labels = 1 .. Len(t.labels) /\ Len(t.labels) \in Nat
  <2>1. /\ t \in TopLevelNode /\ resolved_labels \in Seq(ResolvedLabel)
        /\ Len(resolved_labels) = Len(t.labels)
    BY BuiltProgram
  <2>2. Len(t.labels) + 1 \in 0 .. Len(t.labels) + 1
    BY <2>1 DEF TopLevelNode
  <2>3. Source(t) \in Seq(SourceLine)
    BY <2>1, <2>2, BeforeStep DEF Source
  <2> QED
    BY <2>1, <2>3
<1>2. ASSUME NEW l \in here
      PROVE  Source(t)[k].entry = resolved_labels[l].name
  <2>1. /\ l \in Bodies(t) /\ l > 0 /\ resolved_labels[l].name = t.labels[l].name
        /\ Start(t, l) = k - 1
    BY <1>1 DEF Bodies, SInv, LabelsAtStart
  <2>2. 1 \in 1 .. Len(BodyIn(t, l)) /\ Start(t, l) + 1 = k
    <3>1. 1 \in 1 .. Len(BodyIn(t, l))
      BY <1>1, <2>1, BlockType
    <3>2. Start(t, l) + 1 = k
      BY <1>1, <2>1
    <3> QED
      BY <3>1, <3>2
  <2>3. Source(t)[Start(t, l) + 1] = [node |-> BodyIn(t, l)[1], entry |-> NameIn(t, l, 1)]
    BY <1>1, <2>1, <2>2, SourceAt
  <2> QED
    BY <2>1, <2>2, <2>3 DEF NameIn
<1>3. LabelAt(k - 1) =
        IF here = {} THEN NULL
        ELSE resolved_labels[CHOOSE l \in here : \A m \in here : l <= m].name
  BY DEF LabelAt, program_get_label_by_index
<1>4. CASE here # {}
  <2>1. here \in SUBSET Nat
    BY <1>1
  <2> HIDE DEF here
  <2>2. \E l \in here : \A m \in here : l <= m
    BY <1>4, <2>1, Least
  <2>3. (CHOOSE l \in here : \A m \in here : l <= m) \in here
    BY <2>2
  <2> QED
    BY <1>2, <1>3, <1>4, <2>3
<1>5. CASE here = {}
  <2>1. PICK b \in Bodies(t) : \E m \in 1 .. Len(BodyIn(t, b)) : k = Start(t, b) + m
    BY <1>1, SourceWhere
  <2>2. PICK m \in 1 .. Len(BodyIn(t, b)) : k = Start(t, b) + m
    BY <2>1
  <2>3. Source(t)[Start(t, b) + m] = [node |-> BodyIn(t, b)[m], entry |-> NameIn(t, b, m)]
    BY <1>1, SourceAt
  <2>4. ~(b > 0 /\ m = 1)
    <3> SUFFICES ASSUME b > 0, m = 1 PROVE FALSE
      OBVIOUS
    <3>1. b \in DOMAIN resolved_labels /\ b \in 0 .. Len(t.labels) + 1
      BY <1>1 DEF Bodies
    <3>2. Start(t, b) \in Nat
      BY <1>1, <3>1, StartStep
    <3>3. resolved_labels[b].instruction_index = k - 1
      BY <2>2, <3>1, <3>2 DEF SInv, LabelsAtStart
    <3> QED
      BY <1>5, <3>1, <3>3
  <2>5. Source(t)[k].entry = NULL
    BY <2>2, <2>3, <2>4 DEF NameIn
  <2> QED
    BY <1>3, <1>5, <2>5
<1> QED
  BY <1>4, <1>5

\* The source of the top level is in front of the first label's.
LEMMA FirstLabel ==
  ASSUME IInv, SInv, phase = "built", NEW k \in DOMAIN Source(top_node)
  PROVE  Indented(k - 1) <=> k > Len(top_node.instructions)
<1> DEFINE t == top_node
           first == Len(t.instructions)
<1>1. /\ t \in TopLevelNode /\ Len(t.labels) \in Nat /\ first \in Nat
      /\ Source(t) \in Seq(SourceLine) /\ k \in 1 .. Len(Source(t))
  <2>1. t \in TopLevelNode /\ Len(t.labels) \in Nat /\ first \in Nat
    BY BuiltProgram DEF TopLevelNode
  <2>2. Len(t.labels) + 1 \in 0 .. Len(t.labels) + 1
    BY <2>1
  <2>3. Source(t) \in Seq(SourceLine)
    BY <2>1, <2>2, BeforeStep DEF Source
  <2> QED
    BY <2>1, <2>3
<1>2. Start(t, 1) = first
  <2>1. 0 \in Bodies(t)
    BY <1>1 DEF Bodies
  <2>2. Start(t, 0 + 1) = Start(t, 0) + Len(BodyIn(t, 0)) /\ Start(t, 0) = 0 /\ 0 + 1 = 1
    BY <1>1, <2>1, StartStep
  <2> QED
    BY <1>1, <2>2 DEF BodyIn
<1>3. NULL \notin Symbols
  BY SyntaxAssumption
<1>4. ASSUME k > first PROVE Indented(k - 1)
  <2>1. PICK b \in Bodies(t) : \E m \in 1 .. Len(BodyIn(t, b)) : k = Start(t, b) + m
    BY <1>1, SourceWhere
  <2>2. b # 0
    <3> SUFFICES ASSUME b = 0 PROVE FALSE
      OBVIOUS
    <3>1. Start(t, b) = 0 /\ BodyIn(t, b) = t.instructions
      BY <1>1, StartStep DEF BodyIn
    <3> QED
      BY <1>1, <1>4, <2>1, <3>1
  <2>3. 1 \in Bodies(t) /\ 1 > 0
    BY <1>1, <2>2 DEF Bodies
  <2>4. 1 \in 1 .. Len(BodyIn(t, 1)) /\ t.labels[1].name \in Symbols
    BY <1>1, <2>3, BlockType
  <2>5. /\ Start(t, 1) + 1 \in DOMAIN Source(t)
        /\ Source(t)[Start(t, 1) + 1] = [node |-> BodyIn(t, 1)[1], entry |-> NameIn(t, 1, 1)]
    BY <1>1, <2>3, <2>4, SourceAt
  <2>6. Source(t)[first + 1].entry \in Symbols /\ first + 1 \in DOMAIN Source(t)
    BY <1>2, <2>4, <2>5 DEF NameIn
  <2>7. LabelAt(first + 1 - 1) = Source(t)[first + 1].entry
    BY <2>6, LabelAtPlace
  <2>8. LabelAt(first) # NULL /\ first \in 0 .. k - 1
    <3>1. first + 1 - 1 = first
      BY <1>1
    <3>2. LabelAt(first) # NULL
      BY <1>3, <2>6, <2>7, <3>1, Zenon
    <3> QED
      BY <1>1, <1>4, <3>2
  <2> QED
    BY <2>8 DEF Indented
<1>5. ASSUME NEW n \in 0 .. k - 1, LabelAt(n) # NULL PROVE k > first
  <2> DEFINE j == n + 1
  <2>1. j \in DOMAIN Source(t) /\ j - 1 = n /\ j <= k
    BY <1>1
  <2> HIDE DEF j
  <2>2. Source(t)[j].entry # NULL
    BY <1>5, <2>1, LabelAtPlace
  <2>3. PICK b \in Bodies(t) : \E m \in 1 .. Len(BodyIn(t, b)) : j = Start(t, b) + m
    BY <1>1, <2>1, SourceWhere
  <2>4. PICK m \in 1 .. Len(BodyIn(t, b)) : j = Start(t, b) + m
    BY <2>3
  <2>5. Source(t)[Start(t, b) + m] = [node |-> BodyIn(t, b)[m], entry |-> NameIn(t, b, m)]
    BY <1>1, SourceAt
  <2>6. b > 0
    BY <2>2, <2>4, <2>5 DEF NameIn
  <2>7. 1 \in 0 .. Len(t.labels) + 1 /\ b \in 1 .. Len(t.labels) + 1 /\ b \in 0 .. Len(t.labels) + 1
    BY <1>1, <2>6 DEF Bodies
  <2>8. Start(t, 1) <= Start(t, b) /\ Start(t, b) \in Nat
    BY <1>1, <2>7, BeforeGrows, StartStep
  <2> QED
    BY <1>1, <1>2, <2>1, <2>4, <2>8
<1> QED
  BY <1>4, <1>5 DEF Indented

LEMMA LastOfFew == (\A a : Last(<<a>>) = a) /\ (\A a, b : Last(<<a, b>>) = b)
BY DEF Last

\* What is listed for an operand that is not resolved.
LEMMA ListedOperand ==
  ASSUME NEW opcode_name \in Symbols, NEW node \in OperandNode, NEW addresses \in BOOLEAN,
         addresses \/ node.type = "SIMPLE"
  PROVE  Last(disasm_operand(convert_operand(get_opcode(opcode_name), node), addresses)) =
           Written(opcode_name, node)
<1> DEFINE opc == get_opcode(opcode_name)
           op == convert_operand(opc, node)
<1>1. opc \in BranchOpcode <=> opcode_name \in BranchOpcode
  BY DEF get_opcode, BranchOpcode, ValidOpcode, Conditional
<1> HIDE DEF opc
<1>2. CASE node.type = "MEM_ADDRESS"
  <2>1. op.type = "MEM_ADDRESS" /\ op.arg = Letter[node.register] /\ addresses
    BY <1>2 DEF convert_operand
  <2>2. disasm_operand(op, addresses) = <<op.extra, op.arg>>
    BY <2>1 DEF disasm_operand
  <2>3. Last(disasm_operand(op, addresses)) = op.arg
    BY <2>2, LastOfFew
  <2>4. Written(opcode_name, node) = Letter[node.register]
    BY <1>2 DEF Written
  <2> QED
    BY <2>1, <2>3, <2>4 DEF opc
<1>3. CASE node.type # "MEM_ADDRESS"
  <2>1. node.token.type \in {"SYMBOL", "STRING", "INT"}
    BY <1>3 DEF OperandNode
  <2>2. CASE node.token.type = "SYMBOL" /\ opc \in BranchOpcode
    <3>1. op.type = "UNRESOLVED_BRANCH" /\ op.arg = node.token.value
      BY <1>3, <2>2 DEF convert_operand
    <3>2. PICK text : disasm_operand(op, addresses) = <<text, op.arg>>
      BY <3>1 DEF disasm_operand
    <3>3. Last(disasm_operand(op, addresses)) = op.arg
      BY <3>2, LastOfFew
    <3>4. Written(opcode_name, node) = node.token.value
      BY <1>1, <1>3, <2>2 DEF Written
    <3> QED
      BY <3>1, <3>3, <3>4 DEF opc
  <2>3. CASE ~(node.token.type = "SYMBOL" /\ opc \in BranchOpcode)
    <3>1. /\ op.type \in {"INT", "STR", "REG"}
          /\ op.arg = IF node.token.type = "SYMBOL" THEN Letter[node.token.value] ELSE node.token.value
      BY <1>3, <2>1, <2>3 DEF convert_operand
    <3>2. disasm_operand(op, addresses) = <<op.arg>>
      BY <3>1 DEF disasm_operand
    <3>3. Last(disasm_operand(op, addresses)) = op.arg
      BY <3>2, LastOfFew
    <3>4. Written(opcode_name, node) =
            IF node.token.type = "SYMBOL" THEN Letter[node.token.value] ELSE node.token.value
      BY <1>1, <1>3, <2>3 DEF Written
    <3> QED
      BY <3>1, <3>3, <3>4 DEF opc
  <2> QED
    BY <2>2, <2>3
<1> QED
  BY <1>2, <1>3

\* What is listed for an operand of the built program.
LEMMA ListedBuiltOperand ==
  ASSUME IInv, SInv, phase = "built", NEW k \in DOMAIN Source(top_node),
         NEW j \in DOMAIN Source(top_node)[k].node.operands, NEW addresses \in BOOLEAN,
         addresses \/ Source(top_node)[k].node.operands[j].type = "SIMPLE"
  PROVE  /\ j \in DOMAIN instructions[k].operands
         /\ Last(disasm_operand(instructions[k].operands[j], addresses)) =
              Written(Source(top_node)[k].node.opcode, Source(top_node)[k].node.operands[j])
<1> DEFINE t == top_node
           insn == instructions[k]
           node == Source(t)[k].node
           plain == SourceInsn(t, k)
           op == plain.operands[1]
           found == plain.operands # << >> /\ op.type = "UNRESOLVED_BRANCH" /\ Named(op.arg) # {}
           b == Target(op.arg)
<1>1. /\ t \in TopLevelNode /\ resolved_labels \in Seq(ResolvedLabel)
      /\ Len(resolved_labels) = Len(t.labels) /\ insn = Resolve(plain)
  BY BuiltProgram
<1>2. /\ node \in InstructionNode /\ node.opcode \in Symbols /\ plain \in Instruction
      /\ plain = convert_instruction_node(node)
  BY <1>1, SourceLineType DEF SourceInsn, InstructionNode
<1>3. /\ j \in DOMAIN node.operands
      /\ addresses \/ node.operands[j].type = "SIMPLE"
  OBVIOUS
<1> HIDE DEF insn, node, plain, op, b
<1>4. /\ DOMAIN plain.operands = DOMAIN node.operands
      /\ node.operands[j] \in OperandNode
      /\ plain.operands[j] = convert_operand(get_opcode(node.opcode), node.operands[j])
  BY <1>2, <1>3, ConvertShape
<1>5. /\ j \in DOMAIN insn.operands
      /\ insn.operands[j] =
           IF found /\ j = 1
           THEN [type |-> "BRANCH", arg |-> resolved_labels[b].instruction_index, extra |-> op.extra]
           ELSE plain.operands[j]
      /\ found => b \in Named(op.arg)
  BY <1>1, <1>2, <1>3, <1>4, ResolveShape DEF op, b
<1>6. Last(disasm_operand(plain.operands[j], addresses)) = Written(node.opcode, node.operands[j])
  BY <1>2, <1>3, <1>4, ListedOperand
<1>7. CASE found /\ j = 1
  <2> DEFINE resolved_op == insn.operands[j]
             index == resolved_labels[b].instruction_index
  <2>1. resolved_op.type = "BRANCH" /\ resolved_op.arg = index
    BY <1>5, <1>7
  <2>2. /\ plain.operands[j].type = "UNRESOLVED_BRANCH"
        /\ plain.operands[j].arg = op.arg
    BY <1>7 DEF op
  <2>3. /\ node.operands[j].type # "MEM_ADDRESS" /\ node.operands[j].token.type = "SYMBOL"
        /\ get_opcode(node.opcode) \in BranchOpcode
        /\ op.arg = node.operands[j].token.value
    BY <1>4, <2>2 DEF convert_operand, OperandNode
  <2>4. node.opcode \in BranchOpcode
    BY <2>3 DEF get_opcode, BranchOpcode, ValidOpcode, Conditional
  <2>5. Written(node.opcode, node.operands[j]) = op.arg
    BY <2>3, <2>4 DEF Written
  <2>6. op.arg \in Symbols
    BY <1>4, <2>3 DEF OperandNode, Token, Punctuation
  <2>7. b \in Named(op.arg) /\ b \in DOMAIN resolved_labels /\ index = Start(t, b)
    BY <1>5, <1>7 DEF Named, SInv, LabelsAtStart
  <2>8. Start(t, b) + 1 \in DOMAIN Source(t) /\ Source(t)[Start(t, b) + 1].entry = op.arg
    BY <1>1, <2>6, <2>7, Places
  <2>9. b \in 0 .. Len(t.labels) + 1
    BY <2>7, BodyNow DEF Bodies
  <2>10. Start(t, b) \in Nat
    BY <1>1, <2>9, StartStep
  <2>11. PICK place \in DOMAIN Source(t) :
            place = Start(t, b) + 1 /\ Source(t)[place].entry = op.arg
    BY <2>8
  <2>12. place - 1 = index
    BY <2>7, <2>10, <2>11
  <2>16. LabelAt(place - 1) = op.arg
    BY <2>11, LabelAtPlace
  <2>13. LabelAt(index) = op.arg
    BY <2>12, <2>16
  <2> HIDE DEF resolved_op, index
  <2>14. disasm_operand(resolved_op, addresses) = <<resolved_op.arg, LabelAt(resolved_op.arg)>>
    BY <2>1 DEF disasm_operand
  <2>15. Last(disasm_operand(resolved_op, addresses)) = op.arg
    BY <2>1, <2>13, <2>14, LastOfFew
  <2> QED
    BY <1>5, <2>5, <2>15 DEF resolved_op, insn, node
<1>8. CASE ~(found /\ j = 1)
  BY <1>5, <1>6, <1>8 DEF insn, node
<1> QED
  BY <1>7, <1>8

\* The listing of a built program has the labels of its source where they stand
\* there, and for every operand what the source has: an index that has taken
\* the place of a name is listed with that name again.
THEOREM ListingHolds == Spec => []ListingIsTheSource
<1>1. IInv /\ SInv => ListingIsTheSource
  <2> SUFFICES ASSUME IInv, SInv, phase = "built", NEW addresses \in BOOLEAN
               PROVE  LET listing == disasm(addresses)
                      IN  /\ DOMAIN listing = DOMAIN Source(top_node)
                          /\ \A k \in DOMAIN Source(top_node) :
                               LET node == Source(top_node)[k].node
                               IN  /\ listing[k].label = Source(top_node)[k].entry
                                   /\ listing[k].indented <=> k > Len(top_node.instructions)
                                   /\ \A j \in DOMAIN node.operands :
                                        addresses \/ node.operands[j].type = "SIMPLE" =>
                                          Last(listing[k].operands[j]) =
                                            Written(node.opcode, node.operands[j])
    BY SourceIsSourceOrder DEF ListingIsTheSource
  <2> DEFINE listing == disasm(addresses)
  <2>1. DOMAIN instructions = DOMAIN Source(top_node)
    BY BuiltProgram
  <2>2. listing = [k \in DOMAIN instructions |-> disasm_single_insn(k - 1, addresses)]
    BY DEF disasm
  <2> HIDE DEF listing
  <2>3. ASSUME NEW k \in DOMAIN Source(top_node)
        PROVE  /\ listing[k].label = Source(top_node)[k].entry
               /\ listing[k].indented <=> k > Len(top_node.instructions)
               /\ \A j \in DOMAIN Source(top_node)[k].node.operands :
                    addresses \/ Source(top_node)[k].node.operands[j].type = "SIMPLE" =>
                      Last(listing[k].operands[j]) =
                        Written(Source(top_node)[k].node.opcode, Source(top_node)[k].node.operands[j])
    <3>1. listing[k] = disasm_single_insn(k - 1, addresses)
      BY <2>1, <2>2
    <3>2. k \in Nat /\ k - 1 + 1 = k
      BY <2>1 DEF IInv, TypeOK
    <3>3. /\ listing[k].label = LabelAt(k - 1)
          /\ listing[k].indented = Indented(k - 1)
          /\ listing[k].operands =
               [j \in DOMAIN instructions[k].operands |->
                 disasm_operand(instructions[k].operands[j], addresses)]
      BY <3>1, <3>2 DEF disasm_single_insn
    <3>4. /\ listing[k].label = Source(top_node)[k].entry
          /\ listing[k].indented <=> k > Len(top_node.instructions)
      BY <3>3, LabelAtPlace, FirstLabel
    <3>5. ASSUME NEW j \in DOMAIN Source(top_node)[k].node.operands,
                 addresses \/ Source(top_node)[k].node.operands[j].type = "SIMPLE"
          PROVE  Last(listing[k].operands[j]) =
                   Written(Source(top_node)[k].node.opcode, Source(top_node)[k].node.operands[j])
      <4>1. /\ j \in DOMAIN instructions[k].operands
            /\ Last(disasm_operand(instructions[k].operands[j], addresses)) =
                 Written(Source(top_node)[k].node.opcode, Source(top_node)[k].node.operands[j])
        BY <3>5, ListedBuiltOperand
      <4>2. listing[k].operands[j] = disasm_operand(instructions[k].operands[j], addresses)
        BY <3>3, <4>1
      <4> QED
        BY <4>1, <4>2
    <3> QED
      BY <3>4, <3>5
  <2>4. DOMAIN listing = DOMAIN Source(top_node)
    BY <2>1, <2>2
  <2> QED
    BY <2>3, <2>4 DEF listing
<1> QED
  BY <1>1, SourceInvariance, PTL
=============================================================================
