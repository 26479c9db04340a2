----------------------------- MODULE GenCProofs -----------------------------
(***************************************************************************)
(* Proofs about gen_c and the C programs it writes.                        *)
(***************************************************************************)
EXTENDS GenC, DataLemmas, FiniteSetTheorems, SequenceTheorems

-----------------------------------------------------------------------------
(* What is written *)

\* The line of the nth instruction, with a return label's number.
Written(n, ret) ==
  LET insn == prog[n]
  IN  [label |-> LabelAt(n - 1),
       code  |-> [opcode |-> insn.opcode,
                  values |-> [k \in DOMAIN insn.operands |-> Emitted(insn, k)],
                  goto   |-> IF insn.opcode \in BranchOpcode
                             THEN LabelAt(insn.operands[1].arg) ELSE NULL,
                  ret    |-> ret]]

IsWritten(n) == lines[n] = Written(n, lines[n].code.ret)

WrittenLines == {Written(n, ret) : n \in DOMAIN prog, ret \in Nat}

\* The lines are those of the first instructions, and the calls among them are
\* numbered from 0.
LinesOK ==
  /\ prog \in Programs /\ resolved_labels = LabelsOf[prog]
  /\ lines \in Seq(WrittenLines) /\ Len(lines) <= Len(prog)
  /\ \A n \in DOMAIN lines : IsWritten(n) /\ ~NoFormat(prog[n])
  /\ ret_label_counter \in Nat /\ ret_label_counter = Cardinality(Calls)
  /\ \A n \in DOMAIN lines : lines[n].code.ret \in Nat
  /\ \A n \in Calls : lines[n].code.ret < ret_label_counter
  /\ \A m, n \in Calls : lines[m].code.ret = lines[n].code.ret => m = n
  /\ \A k \in 0 .. ret_label_counter - 1 : \E n \in Calls : lines[n].code.ret = k
  /\ lines # << >> => declared = UsedRegisters
  /\ status \notin {"generating", "assertion"} => Len(lines) = Len(prog)

GInv == LinesOK /\ IsAProgram

LEMMA ProgramFacts ==
  ASSUME LinesOK
  PROVE  /\ prog \in Seq(Instruction) /\ Len(prog) \in Nat /\ DOMAIN prog = 1 .. Len(prog)
         /\ \A n \in DOMAIN prog : prog[n] \in Instruction /\ Runnable(prog[n])
         /\ BranchesInRange(prog)
BY ProgramsAssumption DEF LinesOK

\* The label of an instruction is one of those that stand there.
LEMMA LabelNames ==
  ASSUME LinesOK, NEW i
  PROVE  IF \E l \in DOMAIN resolved_labels : resolved_labels[l].instruction_index = i
         THEN \E l \in DOMAIN resolved_labels :
                /\ resolved_labels[l].instruction_index = i
                /\ LabelAt(i) = resolved_labels[l].name
         ELSE LabelAt(i) = NULL
<1> DEFINE here == {l \in DOMAIN resolved_labels : resolved_labels[l].instruction_index = i}
<1>1. LabelAt(i) = IF here = {} THEN NULL
                   ELSE resolved_labels[CHOOSE l \in here : \A m \in here : l <= m].name
  BY DEF LabelAt, program_get_label_by_index
<1>2. here \in SUBSET Nat
  BY ProgramsAssumption DEF LinesOK
<1>3. CASE here = {}
  BY <1>1, <1>3
<1>4. CASE here # {}
  <2>1. \E l \in here : \A m \in here : l <= m
    <3> HIDE DEF here
    <3> QED
      BY <1>2, <1>4, Least
  <2>2. (CHOOSE l \in here : \A m \in here : l <= m) \in here
    BY <2>1
  <2> DEFINE first == CHOOSE l \in here : \A m \in here : l <= m
  <2> HIDE DEF first
  <2>3. first \in here /\ LabelAt(i) = resolved_labels[first].name
    BY <1>1, <1>4, <2>2 DEF first
  <2> QED
    BY <2>3
<1> QED
  BY <1>3, <1>4

LEMMA LabelsApart ==
  ASSUME LinesOK, NEW i, NEW j, LabelAt(i) = LabelAt(j), LabelAt(i) # NULL
  PROVE  i = j
<1>1. PICK l \in DOMAIN resolved_labels : resolved_labels[l].instruction_index = i
                                          /\ LabelAt(i) = resolved_labels[l].name
  BY LabelNames
<1>2. LabelAt(j) # NULL
  OBVIOUS
<1>3. PICK m \in DOMAIN resolved_labels : resolved_labels[m].instruction_index = j
                                          /\ LabelAt(j) = resolved_labels[m].name
  BY <1>2, LabelNames
<1>4. resolved_labels[l].name = resolved_labels[m].name
  BY <1>1, <1>3
<1>5. l = m
  BY <1>4, ProgramsAssumption DEF LinesOK
<1> QED
  BY <1>1, <1>3, <1>5

\* Where a branch goes there is a label.
LEMMA BranchLabels ==
  ASSUME LinesOK, NEW n \in DOMAIN prog, prog[n].opcode \in BranchOpcode
  PROVE  LET target == prog[n].operands[1].arg
         IN  target \in 0 .. Len(prog) - 1 /\ LabelAt(target) # NULL
<1> DEFINE op == prog[n].operands[1]
<1>1. 1 \in DOMAIN prog[n].operands /\ op.type = "BRANCH"
  <2>1. prog[n] \in Instruction /\ Runnable(prog[n])
    BY ProgramFacts
  <2>2. prog[n].operands \in Seq(Operand)
    BY <2>1 DEF Instruction
  <2> QED
    BY <2>1, <2>2 DEF Runnable
<1>2. op.arg \in 0 .. Len(prog) - 1
  BY <1>1, ProgramFacts DEF BranchesInRange
<1>3. PICK l \in DOMAIN resolved_labels : resolved_labels[l].instruction_index = op.arg
  BY <1>1, ProgramsAssumption DEF LinesOK
<1>4. PICK m \in DOMAIN resolved_labels : LabelAt(op.arg) = resolved_labels[m].name
  BY <1>3, LabelNames
<1>5. LabelAt(op.arg) # NULL
  BY <1>4, ProgramsAssumption DEF LinesOK
<1> QED
  BY <1>2, <1>5

-----------------------------------------------------------------------------
(* The text is a C program *)

LEMMA LineFacts ==
  ASSUME LinesOK, NEW n \in DOMAIN lines
  PROVE  /\ n \in DOMAIN prog /\ n \in Nat /\ n - 1 \in Nat
         /\ lines[n].label = LabelAt(n - 1)
         /\ lines[n].code.opcode = prog[n].opcode
         /\ lines[n].code.values = [k \in DOMAIN prog[n].operands |-> Emitted(prog[n], k)]
         /\ prog[n].opcode \in BranchOpcode =>
              lines[n].code.goto = LabelAt(prog[n].operands[1].arg)
BY ProgramFacts DEF LinesOK, IsWritten, Written

\* The lines behind which a label stands.
LEMMA LineOfLabel ==
  ASSUME LinesOK, NEW n \in DOMAIN lines, LabelAt(n - 1) # NULL
  PROVE  LinesOf(LabelAt(n - 1)) = {n}
<1>1. ASSUME NEW m \in DOMAIN lines, lines[m].label = LabelAt(n - 1) PROVE m = n
  <2>1. m \in Nat /\ n \in Nat /\ LabelAt(m - 1) = LabelAt(n - 1)
    BY <1>1, LineFacts
  <2>2. m - 1 = n - 1
    BY <2>1, LabelsApart
  <2> QED
    BY <2>1, <2>2
<1> QED
  BY <1>1, LineFacts DEF LinesOf

LEMMA LineOfCall ==
  ASSUME LinesOK, NEW n \in Calls
  PROVE  CallsOf(lines[n].code.ret) = {n}
BY DEF LinesOK, CallsOf

\* A label has its line.
LEMMA LabelWritten ==
  ASSUME LinesOK, NEW l \in DOMAIN resolved_labels
  PROVE  LET place == resolved_labels[l].instruction_index
         IN  /\ place + 1 \in DOMAIN prog /\ (place + 1) - 1 = place
             /\ LabelAt(place) = resolved_labels[l].name
             /\ resolved_labels[l].name # NULL
<1> DEFINE place == resolved_labels[l].instruction_index
<1>1. place \in 0 .. Len(prog) - 1 /\ resolved_labels[l].name # NULL
  BY ProgramsAssumption DEF LinesOK
<1>2. PICK m \in DOMAIN resolved_labels : resolved_labels[m].instruction_index = place
                                          /\ LabelAt(place) = resolved_labels[m].name
  BY LabelNames
<1>3. m = l
  BY <1>2, ProgramsAssumption DEF LinesOK
<1> QED
  BY <1>1, <1>2, <1>3, ProgramFacts

\* The return labels of a whole program are those up to the number of its calls.
LEMMA TakenNames ==
  ASSUME LinesOK, Len(lines) = Len(prog), NEW name
  PROVE  Taken(name) <=> \/ name \in Reserved \cup {EndLabel}
                         \/ name \in DOMAIN ReturnNumber /\ ReturnNumber[name] < NumberOfCalls
<1>1. Calls = {n \in DOMAIN prog : prog[n].opcode = "call"}
  <2>1. DOMAIN lines = DOMAIN prog
    BY ProgramFacts DEF LinesOK
  <2> QED
    BY <2>1, LineFacts DEF Calls
<1>2. ret_label_counter = NumberOfCalls
  BY <1>1 DEF LinesOK, NumberOfCalls
<1>3. ASSUME NEW k \in Nat PROVE CallsOf(k) # {} <=> k < ret_label_counter
  <2>1. k < ret_label_counter => k \in 0 .. ret_label_counter - 1
    BY DEF LinesOK
  <2> QED
    BY <2>1 DEF LinesOK, CallsOf
<1>4. name \in DOMAIN ReturnNumber => ReturnNumber[name] \in Nat
  BY GenCAssumption
<1> QED
  BY <1>2, <1>3, <1>4 DEF Taken

LEMMA FreeNames ==
  ASSUME LinesOK, Len(lines) = Len(prog)
  PROVE  LabelsAreFree <=> \A l \in DOMAIN resolved_labels : ~Taken(resolved_labels[l].name)
<1>1. NumberOfCalls \in Nat
  <2>1. IsFiniteSet(DOMAIN prog)
    BY ProgramFacts, FS_Interval
  <2>2. IsFiniteSet({n \in DOMAIN prog : prog[n].opcode = "call"})
    BY <2>1, FS_Subset
  <2> QED
    BY <2>2, FS_CardinalityType DEF NumberOfCalls
<1>2. \A name \in DOMAIN ReturnNumber :
        ReturnNumber[name] >= NumberOfCalls <=> ~(ReturnNumber[name] < NumberOfCalls)
  BY <1>1, GenCAssumption
<1> QED
  BY <1>2, TakenNames DEF LabelsAreFree

\* The operands of a message, and what is written of them.
LEMMA MessageValues ==
  ASSUME LinesOK, NEW n \in DOMAIN lines, prog[n].opcode \in Unchecked
  PROVE  /\ prog[n].operands # << >> <=> lines[n].code.values # << >>
         /\ DOMAIN lines[n].code.values = DOMAIN prog[n].operands
         /\ \A k \in DOMAIN prog[n].operands :
              LET op == prog[n].operands[k]
                  value == lines[n].code.values[k]
              IN  /\ op.type \in {"STR", "INT", "REG"}
                  /\ value.is = "string" <=> op.type = "STR"
                  /\ op.type = "STR" => value.value = op.arg
<1>1. /\ n \in DOMAIN prog /\ prog[n].operands \in Seq(Operand)
      /\ lines[n].code.values = [k \in DOMAIN prog[n].operands |-> Emitted(prog[n], k)]
  BY LineFacts, ProgramFacts DEF Instruction
<1>2. prog[n].opcode \notin Arithmetic \cup OneRegister
  BY DEF Unchecked, Arithmetic, OneRegister
<1>3. ~NoFormat(prog[n])
  BY DEF LinesOK
<1>4. prog[n].operands # << >> <=> DOMAIN prog[n].operands # {}
  BY <1>1
<1>5. lines[n].code.values # << >> <=> DOMAIN lines[n].code.values # {}
  BY <1>1
<1>6. ASSUME NEW k \in DOMAIN prog[n].operands
      PROVE  LET op == prog[n].operands[k]
                 value == lines[n].code.values[k]
             IN  /\ op.type \in {"STR", "INT", "REG"}
                 /\ value.is = "string" <=> op.type = "STR"
                 /\ op.type = "STR" => value.value = op.arg
  BY <1>1, <1>2, <1>3 DEF NoFormat, Emitted
<1> QED
  BY <1>1, <1>4, <1>5, <1>6

\* What the compiler asks of a message.
SaidInC(n) ==
  /\ lines[n].code.values # << >>
  /\ \A k \in DOMAIN lines[n].code.values :
       lines[n].code.values[k].is = "string" => lines[n].code.values[k].value \notin NoLiteral

LEMMA SayableLine ==
  ASSUME LinesOK, NEW n \in DOMAIN lines
  PROVE  Sayable(prog[n]) <=> (prog[n].opcode \in Unchecked => SaidInC(n))
BY MessageValues DEF Sayable, SaidInC

LEMMA CompilesHasC ==
  ASSUME LinesOK, Len(lines) = Len(prog), Compiles
  PROVE  HasC
<1>1. DOMAIN lines = DOMAIN prog
  BY ProgramFacts DEF LinesOK
<1>2. ASSUME NEW l \in DOMAIN resolved_labels PROVE ~Taken(resolved_labels[l].name)
  <2> DEFINE n == resolved_labels[l].instruction_index + 1
  <2>1. n \in DOMAIN lines /\ LabelAt(n - 1) = resolved_labels[l].name
        /\ resolved_labels[l].name # NULL
    BY <1>1, LabelWritten
  <2>2. lines[n].label = resolved_labels[l].name
    BY <2>1, LineFacts
  <2> QED
    BY <2>1, <2>2 DEF Compiles
<1>3. ASSUME NEW n \in DOMAIN prog PROVE Sayable(prog[n])
  <2>1. prog[n].opcode \in Unchecked => SaidInC(n)
    BY <1>1, LineFacts DEF Compiles, SaidInC
  <2> QED
    BY <1>1, <2>1, SayableLine
<1> QED
  BY <1>2, <1>3, FreeNames DEF HasC

\* What is not compiled has no C, or a target that is no register.
LEMMA LinesCompile ==
  ASSUME LinesOK, Len(lines) = Len(prog), HasC,
         \A n \in DOMAIN prog : TargetIsRegister(prog[n])
  PROVE  Compiles
<1>1. DOMAIN lines = DOMAIN prog
  BY ProgramFacts DEF LinesOK
<1> SUFFICES ASSUME NEW n \in DOMAIN lines
             PROVE  LET code == lines[n].code
                    IN  /\ lines[n].label # NULL =>
                             Cardinality(LinesOf(lines[n].label)) = 1 /\ ~Taken(lines[n].label)
                        /\ n \in Calls => Cardinality(CallsOf(code.ret)) = 1
                        /\ code.opcode \in BranchOpcode =>
                             LinesOf(code.goto) # {} /\ code.goto # NULL
                        /\ \A k \in DOMAIN code.values :
                             code.values[k].is = "register" => code.values[k].value \in declared
                        /\ code.opcode \in Unchecked => SaidInC(n)
  BY DEF Compiles, SaidInC
<1>2. ASSUME lines[n].label # NULL
      PROVE  Cardinality(LinesOf(lines[n].label)) = 1 /\ ~Taken(lines[n].label)
  <2>1. LabelAt(n - 1) # NULL /\ lines[n].label = LabelAt(n - 1)
    BY <1>2, LineFacts
  <2>2. PICK l \in DOMAIN resolved_labels : LabelAt(n - 1) = resolved_labels[l].name
    BY <2>1, LabelNames
  <2> QED
    BY <2>1, <2>2, LineOfLabel, FS_Singleton, FreeNames DEF HasC
<1>3. n \in Calls => Cardinality(CallsOf(lines[n].code.ret)) = 1
  BY LineOfCall, FS_Singleton
<1>4. ASSUME lines[n].code.opcode \in BranchOpcode
      PROVE  LinesOf(lines[n].code.goto) # {} /\ lines[n].code.goto # NULL
  <2> DEFINE target == prog[n].operands[1].arg
  <2>1. lines[n].code.goto = LabelAt(target) /\ target \in 0 .. Len(prog) - 1
        /\ LabelAt(target) # NULL
    BY <1>4, LineFacts, BranchLabels
  <2>2. target + 1 \in DOMAIN lines /\ (target + 1) - 1 = target
    BY <1>1, <2>1, ProgramFacts
  <2> QED
    BY <2>1, <2>2, LineOfLabel
<1>5. ASSUME NEW k \in DOMAIN lines[n].code.values, lines[n].code.values[k].is = "register"
      PROVE  lines[n].code.values[k].value \in declared
  <2> DEFINE op == prog[n].operands[k]
  <2>1. k \in DOMAIN prog[n].operands /\ lines[n].code.values[k] = Emitted(prog[n], k)
    BY LineFacts
  <2>2. prog[n] \in Instruction /\ Runnable(prog[n]) /\ n \in DOMAIN prog
    BY LineFacts, ProgramFacts
  <2>3. prog[n].operands \in Seq(Operand)
    BY <2>2 DEF Instruction
  <2>4. op.type = "REG"
    <3>1. prog[n].opcode \in OneRegister /\ k = 1 => op.type = "REG"
      BY <2>2, <2>3 DEF Runnable
    <3>2. prog[n].opcode \in Arithmetic /\ k = 1 => op.type = "REG"
      BY <2>2 DEF TargetIsRegister
    <3> QED
      BY <1>5, <2>1, <3>1, <3>2 DEF Emitted
  <2>5. lines[n].code.values[k].value = op.arg
    BY <2>1, <2>4 DEF Emitted
  <2>6. op \in ToSet(prog[n].operands)
    BY <2>1 DEF ToSet
  <2>7. op.arg \in UsedRegisters
    BY <2>2, <2>4, <2>6 DEF UsedRegisters
  <2>8. declared = UsedRegisters
    BY DEF LinesOK
  <2> QED
    BY <2>5, <2>7, <2>8
<1>6. lines[n].code.opcode \in Unchecked => SaidInC(n)
  BY <1>1, LineFacts, SayableLine DEF HasC
<1> QED
  BY <1>2, <1>3, <1>4, <1>5, <1>6

-----------------------------------------------------------------------------
(* The lines are kept *)

\* The steps of the C program leave its text alone.
Running ==
  \/ Compute \/ Divide \/ Compare \/ Goto \/ CallSub \/ Return
  \/ PushValue \/ PopValue \/ Message \/ EmptyLine \/ Finish

LEMMA RunningKeepsText ==
  ASSUME Running
  PROVE  /\ UNCHANGED <<prog, resolved_labels, written>>
         /\ status = "running" /\ status' \in {"running", "trap", "undefined", "ended"}
<1>1. CASE Compute
  BY <1>1 DEF Compute, Executing, Assign, Then
<1>2. CASE Divide
  BY <1>2 DEF Divide, Executing, Assign, Then, End
<1>3. CASE Compare \/ Message \/ EmptyLine \/ Goto
  BY <1>3 DEF Compare, Message, EmptyLine, Goto, Executing, Then
<1>4. CASE CallSub \/ Return
  BY <1>4 DEF CallSub, Return, Executing, End
<1>5. CASE PushValue \/ PopValue
  BY <1>5 DEF PushValue, PopValue, Executing, End, Then
<1>6. CASE Finish
  BY <1>6 DEF Finish, End
<1> QED
  BY <1>1, <1>2, <1>3, <1>4, <1>5, <1>6 DEF Running

LEMMA SameText ==
  ASSUME LinesOK, UNCHANGED <<prog, resolved_labels, written>>,
         status' \notin {"generating", "assertion"} => Len(lines) = Len(prog)
  PROVE  LinesOK'
<1>1. /\ WrittenLines' = WrittenLines /\ Calls' = Calls /\ UsedRegisters' = UsedRegisters
      /\ \A n : IsWritten(n)' <=> IsWritten(n)
  BY DEF written, WrittenLines, IsWritten, Written, LabelAt, Calls, UsedRegisters
<1> QED
  BY <1>1 DEF LinesOK, written

\* A line is written if there is a format for it.
LEMMA GenInstructionWrites ==
  ASSUME LinesOK, GenInstruction, status' # "assertion"
  PROVE  LinesOK' /\ status' = "generating"
<1> DEFINE n == Len(lines) + 1
           line == Written(n, ret_label_counter)
<1>1. lines \in Seq(WrittenLines) /\ Len(lines) \in Nat /\ DOMAIN lines = 1 .. Len(lines)
  BY DEF LinesOK
<1>2. n \in DOMAIN prog /\ Len(prog) \in Nat /\ n <= Len(prog)
  BY <1>1, ProgramFacts DEF GenInstruction
<1>3. ~NoFormat(prog[n])
  BY DEF GenInstruction
<1>4. /\ declared' = UsedRegisters
      /\ lines' = Append(lines, [label |-> LabelAt(Len(lines)), code |-> gen_instruction(prog[n])])
      /\ ret_label_counter' = ret_label_counter + (IF prog[n].opcode = "call" THEN 1 ELSE 0)
      /\ UNCHANGED <<prog, resolved_labels, status>> /\ status = "generating"
  BY <1>3 DEF GenInstruction
<1>5. (n - 1) = Len(lines)
  BY <1>1
<1>6. lines' = Append(lines, line)
  BY <1>4, <1>5 DEF Written, gen_instruction
<1>7. ret_label_counter \in Nat /\ line \in WrittenLines
  BY <1>2 DEF LinesOK, WrittenLines
<1>8. line.code.ret = ret_label_counter /\ line.code.opcode = prog[n].opcode
  BY DEF Written
<1> HIDE DEF line, n
<1>9. /\ lines' \in Seq(WrittenLines) /\ Len(lines') = Len(lines) + 1
      /\ \A m \in DOMAIN lines : lines'[m] = lines[m]
      /\ lines'[n] = line
      /\ DOMAIN lines' = DOMAIN lines \cup {n}
  BY <1>1, <1>6, <1>7 DEF n
<1>10. WrittenLines' = WrittenLines /\ UsedRegisters' = UsedRegisters
       /\ \A m, ret : Written(m, ret)' = Written(m, ret)
  BY <1>4 DEF WrittenLines, Written, LabelAt, UsedRegisters
<1>11. n \notin DOMAIN lines
  BY <1>1 DEF n
<1>12. \A m \in DOMAIN lines' : lines'[m] = Written(m, lines'[m].code.ret)
  BY <1>8, <1>9, <1>11 DEF LinesOK, IsWritten, line
<1>13. \A m \in DOMAIN lines' : lines'[m].code.ret \in Nat
  BY <1>7, <1>8, <1>9 DEF LinesOK
<1>14. Calls' = Calls \cup (IF prog[n].opcode = "call" THEN {n} ELSE {})
  BY <1>8, <1>9, <1>11 DEF Calls
<1>15. /\ ret_label_counter' \in Nat /\ ret_label_counter' >= ret_label_counter
       /\ prog[n].opcode = "call" => ret_label_counter' = ret_label_counter + 1
  BY <1>4, <1>7
<1>16. \A m \in Calls' : lines'[m].code.ret < ret_label_counter'
  <2>1. ASSUME NEW m \in Calls PROVE lines'[m].code.ret < ret_label_counter'
    <3>1. /\ lines[m].code.ret \in Nat /\ lines[m].code.ret < ret_label_counter
          /\ lines'[m].code.ret = lines[m].code.ret
      BY <1>9 DEF LinesOK, Calls
    <3> QED
      BY <1>7, <1>15, <3>1
  <2>2. prog[n].opcode = "call" => lines'[n].code.ret < ret_label_counter'
    <3>1. lines'[n].code.ret = ret_label_counter
      BY <1>8, <1>9
    <3> QED
      BY <1>7, <1>15, <3>1
  <2> QED
    BY <1>14, <2>1, <2>2
<1>17. \A l, m \in Calls' : lines'[l].code.ret = lines'[m].code.ret => l = m
  <2>1. ASSUME NEW m \in Calls PROVE lines'[m].code.ret = lines[m].code.ret
                                     /\ lines[m].code.ret # ret_label_counter
    BY <1>7, <1>9 DEF LinesOK, Calls
  <2>2. \A l, m \in Calls : lines'[l].code.ret = lines'[m].code.ret => l = m
    BY <2>1 DEF LinesOK
  <2>3. lines'[n].code.ret = ret_label_counter
    BY <1>8, <1>9
  <2> QED
    BY <1>14, <2>1, <2>2, <2>3
<1>18. Len(lines') <= Len(prog)
  BY <1>1, <1>2, <1>9 DEF n
<1>19. /\ prog' = prog /\ resolved_labels' = resolved_labels
       /\ prog \in Programs /\ resolved_labels = LabelsOf[prog]
  BY <1>4 DEF LinesOK
<1>20. \A m \in DOMAIN lines' : IsWritten(m)' /\ ~NoFormat(prog'[m])
  <2>1. \A m \in DOMAIN lines' : IsWritten(m)'
    BY <1>4, <1>12, ZenonT(60) DEF IsWritten, Written, LabelAt
  <2>2. \A m \in DOMAIN lines' : ~NoFormat(prog[m])
    BY <1>3, <1>9 DEF LinesOK
  <2> QED
    BY <1>4, <2>1, <2>2
<1>21. declared' = UsedRegisters' /\ status' = "generating"
  BY <1>4, <1>10
<1>22. ret_label_counter' = Cardinality(Calls')
  <2>1. n \notin Calls /\ Calls \subseteq DOMAIN lines
    BY <1>11 DEF Calls
  <2>2. IsFiniteSet(Calls)
    <3>1. DOMAIN lines = 1 .. Len(lines) /\ Len(lines) \in Int /\ 1 \in Int
      BY DEF LinesOK
    <3>2. IsFiniteSet(1 .. Len(lines))
      BY <3>1, FS_Interval
    <3> QED
      BY <2>1, <3>1, <3>2, FS_Subset
  <2>3. Cardinality(Calls \cup {n}) = Cardinality(Calls) + 1
    BY <2>1, <2>2, FS_AddElement
  <2>4. ret_label_counter = Cardinality(Calls)
    BY DEF LinesOK
  <2>5. CASE prog[n].opcode = "call"
    BY <1>14, <1>15, <2>3, <2>4, <2>5
  <2>6. CASE prog[n].opcode # "call"
    BY <1>4, <1>7, <1>14, <2>4, <2>6
  <2> QED
    BY <2>5, <2>6
<1>23. ASSUME NEW k \in 0 .. ret_label_counter' - 1
       PROVE  \E m \in Calls' : lines'[m].code.ret = k
  <2>1. CASE k < ret_label_counter
    <3>1. k \in 0 .. ret_label_counter - 1
      BY <1>7, <1>15, <2>1
    <3>2. PICK m \in Calls : lines[m].code.ret = k
      BY <3>1 DEF LinesOK
    <3> QED
      BY <1>9, <1>14, <3>2 DEF Calls
  <2>2. CASE ~(k < ret_label_counter)
    <3>1. prog[n].opcode = "call" /\ k = ret_label_counter
      BY <1>4, <1>7, <2>2
    <3> QED
      BY <1>8, <1>9, <1>14, <3>1
  <2> QED
    BY <2>1, <2>2
<1> QED
  BY <1>9, <1>10, <1>13, <1>15, <1>16, <1>17, <1>18, <1>19, <1>20, <1>21, <1>22, <1>23 DEF LinesOK

LEMMA InitLines == Init => GInv
<1> SUFFICES ASSUME Init PROVE GInv
  OBVIOUS
<1>1. lines = << >> /\ DOMAIN lines = {} /\ Calls = {} /\ ret_label_counter = 0
  BY DEF Init, Calls
<1>2. ret_label_counter = Cardinality(Calls)
  BY <1>1, FS_EmptySet
<1>3. prog \in Programs /\ resolved_labels = LabelsOf[prog] /\ prog \in Seq(Instruction)
  BY ProgramsAssumption DEF Init
<1>4. LinesOK
  BY <1>1, <1>2, <1>3 DEF Init, LinesOK
<1> QED
  BY <1>4 DEF Init, GInv, IsAProgram

\* gen_c gives up at a message it has no format for.
LEMMA GivesUp ==
  ASSUME LinesOK, GenInstruction, status' = "assertion"
  PROVE  ~HasC /\ UNCHANGED <<prog, resolved_labels, written>>
<1> DEFINE n == Len(lines) + 1
<1>1. n \in DOMAIN prog
  BY ProgramFacts DEF LinesOK, GenInstruction
<1>2. NoFormat(prog[n]) /\ UNCHANGED <<prog, resolved_labels, written>>
  BY DEF GenInstruction
<1>3. ~Sayable(prog[n])
  BY <1>2 DEF NoFormat, Sayable
<1> QED
  BY <1>1, <1>2, <1>3 DEF HasC

\* Whether a program has C does not change.
LEMMA SameHasC ==
  ASSUME UNCHANGED <<prog, resolved_labels>>
  PROVE  (HasC' <=> HasC) /\ \A n : TargetIsRegister(prog[n])' <=> TargetIsRegister(prog[n])
BY DEF HasC, LabelsAreFree, NumberOfCalls, Sayable, TargetIsRegister

LEMMA NextLines == GInv /\ [Next]_vars => GInv'
<1> SUFFICES ASSUME GInv, [Next]_vars PROVE GInv'
  OBVIOUS
<1> USE DEF GInv
<1>1. CASE GenInstruction
  <2>1. CASE status' = "assertion"
    <3>1. ~HasC' /\ LinesOK'
      BY <1>1, <2>1, GivesUp, SameText, SameHasC
    <3> QED
      BY <2>1, <3>1 DEF IsAProgram
  <2>2. CASE status' # "assertion"
    BY <1>1, <2>2, GenInstructionWrites DEF IsAProgram
  <2> QED
    BY <2>1, <2>2
<1>2. CASE Generated
  BY <1>2, SameText DEF Generated, IsAProgram
<1>3. CASE Compile
  <2>1. Len(lines) = Len(prog)
    BY <1>3 DEF Compile, LinesOK
  <2>2. LinesOK' /\ (HasC' <=> HasC)
    BY <1>3, <2>1, SameText, SameHasC DEF Compile
  <2>3. CASE Compiles
    <3>1. HasC /\ status' = "running"
      BY <1>3, <2>1, <2>3, CompilesHasC DEF Compile
    <3> QED
      BY <2>2, <3>1 DEF IsAProgram
  <2>4. CASE ~Compiles
    <3>1. ~(HasC /\ \A n \in DOMAIN prog : TargetIsRegister(prog[n])) /\ status' = "refused"
      BY <1>3, <2>1, <2>4, LinesCompile DEF Compile
    <3>2. UNCHANGED prog /\ \A n : TargetIsRegister(prog[n])' <=> TargetIsRegister(prog[n])
      BY <1>3, SameHasC DEF Compile
    <3> QED
      BY <2>2, <3>1, <3>2 DEF IsAProgram, TargetIsRegister
  <2> QED
    BY <2>3, <2>4
<1>4. CASE Running
  <2>1. UNCHANGED <<prog, resolved_labels, written>> /\ status = "running"
        /\ status' \in {"running", "trap", "undefined", "ended"}
    BY <1>4, RunningKeepsText
  <2>2. LinesOK' /\ HasC'
    BY <2>1, SameText, SameHasC DEF LinesOK, IsAProgram
  <2> QED
    BY <2>1, <2>2 DEF IsAProgram
<1>5. CASE UNCHANGED vars
  <2>1. UNCHANGED <<prog, resolved_labels, written, status>>
    BY <1>5 DEF vars
  <2>2. LinesOK' /\ (HasC' <=> HasC)
    BY <2>1, SameText, SameHasC DEF LinesOK
  <2> QED
    BY <2>1, <2>2 DEF IsAProgram, TargetIsRegister
<1> QED
  BY <1>1, <1>2, <1>3, <1>4, <1>5 DEF Next, Running, Halted

\* Whatever program gen_c is given, the text it writes is a C program if the
\* program can be said in C: every goto has its one label, every call its own
\* return label, no name is used for two things, and every register that is used
\* is declared.  And what is compiled and runs had free names and messages that
\* can be said.
THEOREM Translated == Spec => []IsAProgram
<1>1. Init => GInv
  BY InitLines
<1>2. GInv /\ [Next]_vars => GInv'
  BY NextLines
<1>3. GInv => IsAProgram
  BY DEF GInv
<1> QED
  BY <1>1, <1>2, <1>3, PTL DEF Spec

-----------------------------------------------------------------------------
(* Running the C program *)

AtInsn == prog[at + 1]

\* What C and the interpreter do alike: a target is a register; a divisor and a
\* value that is printed are values of an int, and so is the difference of two
\* literals; the message fits and holds no line break; nothing is pushed beyond
\* the interpreter's stack; and nothing is done with memory but to free no block.
Agrees ==
  Executing(ValidOpcode) =>
    /\ TargetIsRegister(AtInsn)
    /\ Line.opcode \in Arithmetic => AtInsn.operands[2].type # "MEM_ADDRESS"
    /\ Line.opcode = "div" => ToInt(V1) = V1
    /\ Line.opcode = "cmp" /\ IntLiterals => ToInt(V0 - V1) = ToWord(V0 - V1)
    /\ Line.opcode = "push" => sp < MAX_STACK
    /\ Line.opcode \in Unchecked => \A k \in DOMAIN Line.values :
         Line.values[k].is # "string" => ToInt(Value(Line.values[k])) = Value(Line.values[k])
    /\ Line.opcode = "msg" =>
         /\ Interpreter!MsgFits
         /\ \A k \in DOMAIN Line.values : Line.values[k] # [is |-> "string", value |-> EscapedNewLine]
    /\ Line.opcode = "mfree" => V0 = 0
    /\ Line.opcode # "malloc"

\* Until the C program runs its state is the first; a return address that is
\* used is that of a call, and the stack is no higher than the interpreter's.
RunOK ==
  /\ at \in 0 .. Len(prog)
  /\ r \in [RegIndex -> Word]
  /\ cs \in [0 .. MAX_CALL_STACK - 1 -> Nat \cup {NULL}]
  /\ csp \in 0 .. MAX_CALL_STACK
  /\ \A k \in 0 .. csp - 1 : \E n \in Calls : cs[k] = lines[n].code.ret
  /\ stack \in [0 .. C_STACK - 1 -> Word]
  /\ sp \in 0 .. MAX_STACK
  /\ status \in {"generating", "compiling", "assertion", "refused"} =>
       csp = 0 /\ cs = [k \in 0 .. MAX_CALL_STACK - 1 |-> NULL]

RInv == GInv /\ RunOK

\* Both modules take registers, words and opcodes from Program.
LEMMA SameDefinitions ==
  /\ Interpreter!RegIndex = RegIndex
  /\ Interpreter!Word = Word
  /\ Interpreter!MinWord = MinWord
  /\ Interpreter!Arithmetic = Arithmetic
  /\ \A n : Interpreter!ToWord(n) = ToWord(n)
  /\ \A n : Interpreter!ToInt(n) = ToInt(n)
  /\ \A a, b : Interpreter!TruncDiv(a, b) = TruncDiv(a, b)
BY DEF Interpreter!RegIndex, RegIndex, Interpreter!Word, Word, Interpreter!MinWord, MinWord,
       Interpreter!Arithmetic, Arithmetic, Interpreter!ToWord, ToWord, Interpreter!Wrap, Wrap,
       Interpreter!ToInt, ToInt, Interpreter!TruncDiv, TruncDiv, Interpreter!Abs, Abs

LEMMA InitInterpreter == Init => Interpreter!Init
<1> SUFFICES ASSUME Init PROVE Interpreter!Init
  OBVIOUS
<1>1. [x \in Interpreter!Addr |-> Unknown] = << >>
  BY DEF Interpreter!Addr
<1>2. InterpStatus = "running"
  BY DEF Init, InterpStatus
<1>3. [k \in 0 .. MAX_CALL_STACK - 1 |-> IF cs[k] = NULL THEN 0 ELSE ReturnPlace(cs[k])]
        = [k \in 0 .. MAX_CALL_STACK - 1 |-> 0]
  BY DEF Init
<1>4. [k \in 0 .. MAX_STACK - 1 |-> stack[k]] = [k \in 0 .. MAX_STACK - 1 |-> 0]
  BY GenCAssumption, TextsAssumption DEF Init
<1> QED
  BY <1>1, <1>2, <1>3, <1>4, SameDefinitions DEF Init, Interpreter!Init

LEMMA InitRun == Init => RInv
<1> SUFFICES ASSUME Init PROVE RInv
  OBVIOUS
<1>1. GInv
  BY InitLines
<1>2. 0 \in Word
  BY WordsAssumption DEF Word
<1>3. Len(prog) \in Nat
  BY <1>1, ProgramFacts DEF GInv
<1> QED
  BY <1>1, <1>2, <1>3, GenCAssumption, TextsAssumption DEF Init, RInv, RunOK

\* The line that is executed is that of the interpreter's instruction.
LEMMA Here ==
  ASSUME RInv, NEW opcodes, Executing(opcodes)
  PROVE  /\ AtInsn = Interpreter!In /\ AtInsn \in Instruction /\ Runnable(AtInsn)
         /\ at \in Nat /\ at + 1 \in DOMAIN prog /\ at < Len(prog) /\ at + 1 \in DOMAIN lines
         /\ Len(lines) = Len(prog)
         /\ Line.opcode = AtInsn.opcode /\ AtInsn.opcode \in opcodes
         /\ Line.values = [k \in DOMAIN AtInsn.operands |-> Emitted(AtInsn, k)]
         /\ Interpreter!Fetch(AtInsn.opcode)
<1>1. LinesOK /\ status = "running" /\ at \in Nat /\ at < Len(lines) /\ Len(lines) \in Nat
  BY DEF RInv, GInv, RunOK, Executing, LinesOK
<1>2. at + 1 \in DOMAIN lines /\ Len(lines) = Len(prog)
  BY <1>1 DEF LinesOK
<1>3. at + 1 \in DOMAIN prog /\ prog[at + 1] \in Instruction /\ Runnable(prog[at + 1])
  BY <1>1, <1>2, LineFacts, ProgramFacts
<1>4. InterpStatus = "running"
  BY <1>1 DEF InterpStatus
<1> QED
  BY <1>1, <1>2, <1>3, <1>4, LineFacts
     DEF AtInsn, Line, Executing, Interpreter!In, Interpreter!Fetch

\* What the line reads is what the interpreter reads.
LEMMA SameValue ==
  ASSUME RInv, NEW opcodes, Executing(opcodes), NEW k \in DOMAIN AtInsn.operands,
         AtInsn.operands[k].type \in {"REG", "INT"},
         AtInsn.opcode \in Arithmetic \cup OneRegister /\ k = 1 => AtInsn.operands[k].type = "REG"
  PROVE  /\ Interpreter!REG_OR_INT_OR_MEM(AtInsn.operands[k]) = {Value(Line.values[k])}
         /\ Value(Line.values[k]) \in Word
         /\ AtInsn.operands[k].type = "REG" =>
              /\ Value(Line.values[k]) = r[AtInsn.operands[k].arg]
              /\ Line.values[k].value = AtInsn.operands[k].arg
              /\ AtInsn.operands[k].arg \in RegIndex
         /\ Line.values[k].is # "string"
<1> DEFINE op == AtInsn.operands[k]
<1>1. /\ AtInsn \in Instruction /\ Runnable(AtInsn)
      /\ Line.values[k] = Emitted(AtInsn, k)
  BY Here
<1>2. op \in Operand
  BY <1>1 DEF Instruction
<1>3. r \in [RegIndex -> Word]
  BY DEF RInv, RunOK
<1>4. CASE op.type = "REG"
  <2>1. Line.values[k] = [is |-> "register", value |-> op.arg]
    BY <1>1, <1>4 DEF Emitted
  <2>2. op.arg \in RegIndex
    BY <1>1, <1>4 DEF Runnable
  <2>3. Interpreter!REG_OR_INT_OR_MEM(op) = {r[op.arg]}
    BY <1>4 DEF Interpreter!REG_OR_INT_OR_MEM, Interpreter!REG
  <2> QED
    BY <1>3, <1>4, <2>1, <2>2, <2>3 DEF Value
<1>5. CASE op.type = "INT"
  <2>1. Line.values[k] = [is |-> "integer", value |-> op.arg]
    BY <1>1, <1>5 DEF Emitted
  <2>2. op.arg \in Word
    BY <1>2, <1>5 DEF Operand
  <2>3. Interpreter!REG_OR_INT_OR_MEM(op) = {op.arg}
    BY <1>5 DEF Interpreter!REG_OR_INT_OR_MEM
  <2> QED
    BY <1>5, <2>1, <2>2, <2>3 DEF Value
<1> QED
  BY <1>4, <1>5

\* The interpreter's stacks.
Returns == [k \in 0 .. MAX_CALL_STACK - 1 |-> IF cs[k] = NULL THEN 0 ELSE ReturnPlace(cs[k])]
Pushed == [k \in 0 .. MAX_STACK - 1 |-> stack[k]]

LEMMA SameReturns ==
  ASSUME UNCHANGED <<lines, cs>>
  PROVE  UNCHANGED Returns
BY DEF Returns, ReturnPlace, CallsOf, Calls

LEMMA SamePushed ==
  ASSUME UNCHANGED stack
  PROVE  UNCHANGED Pushed
BY DEF Pushed

LEMMA SameStacks ==
  ASSUME UNCHANGED <<lines, c_stacks>>
  PROVE  UNCHANGED Interpreter!stacks
BY SameReturns, SamePushed DEF c_stacks, Interpreter!stacks, Returns, Pushed

LEMMA EndStops ==
  ASSUME NEW how, End(how)
  PROVE  Interpreter!Stop(InterpStatus')
BY SameStacks DEF End, run, written, c_stacks, Interpreter!Stop, Interpreter!stacks, Interpreter!memory

LEMMA ThenAdvances ==
  ASSUME status = "running", Then
  PROVE  /\ Interpreter!Advance
         /\ UNCHANGED c_stacks => UNCHANGED Interpreter!stacks
         /\ UNCHANGED <<lines, prog>>
<1>1. InterpStatus = "running" /\ InterpStatus' = "running"
  BY DEF InterpStatus, Then
<1> QED
  BY <1>1, SameStacks DEF Then, written, Interpreter!Advance

\* A target is a register, and what it is computed from a register or a literal.
LEMMA Targets ==
  ASSUME RInv, Agrees, NEW opcodes \in SUBSET ValidOpcode, Executing(opcodes)
  PROVE  /\ AtInsn.opcode \in Arithmetic \cup OneRegister =>
              1 \in DOMAIN AtInsn.operands /\ AtInsn.operands[1].type = "REG"
         /\ AtInsn.opcode \in Arithmetic =>
              2 \in DOMAIN AtInsn.operands /\ AtInsn.operands[2].type \in {"REG", "INT"}
         /\ AtInsn.opcode = "cmp" =>
              /\ 1 \in DOMAIN AtInsn.operands /\ AtInsn.operands[1].type \in {"REG", "INT"}
              /\ 2 \in DOMAIN AtInsn.operands /\ AtInsn.operands[2].type \in {"REG", "INT"}
<1>1. /\ AtInsn \in Instruction /\ Runnable(AtInsn) /\ Line.opcode = AtInsn.opcode
      /\ at + 1 \in DOMAIN prog /\ AtInsn.opcode \in opcodes
  BY Here
<1>2. AtInsn.operands \in Seq(Operand)
  BY <1>1 DEF Instruction
<1>3. Executing(ValidOpcode)
  BY DEF Executing
<1>4. AtInsn.opcode \in Arithmetic => AtInsn.operands[1].type = "REG"
  BY <1>3 DEF Agrees, TargetIsRegister
<1>5. AtInsn.opcode \in Arithmetic => AtInsn.operands[2].type # "MEM_ADDRESS"
  BY <1>1, <1>3 DEF Agrees
<1> QED
  BY <1>1, <1>2, <1>4, <1>5 DEF Runnable

LEMMA AssignStores ==
  ASSUME RInv, Agrees, NEW opcodes \in SUBSET ValidOpcode, Executing(opcodes),
         AtInsn.opcode \in Arithmetic \cup OneRegister, NEW v, Assign(v)
  PROVE  /\ Interpreter!Store(Interpreter!OP0, ToWord(v))
         /\ Interpreter!Writable(Interpreter!OP0)
         /\ Interpreter!Advance
         /\ UNCHANGED <<cmp, Interpreter!stacks, msg, out>>
<1>1. /\ 1 \in DOMAIN AtInsn.operands /\ AtInsn.operands[1].type = "REG"
      /\ Interpreter!OP0 = AtInsn.operands[1] /\ status = "running"
  BY Targets, Here DEF Interpreter!OP0, Executing
<1>2. Line.values[1].value = AtInsn.operands[1].arg
  BY <1>1, SameValue
<1>3. r' = [r EXCEPT ![AtInsn.operands[1].arg] = ToWord(v)]
  BY <1>2 DEF Assign
<1>4. Interpreter!Advance /\ UNCHANGED <<cmp, Interpreter!stacks, msg, out>>
  BY <1>1, ThenAdvances DEF Assign
<1> QED
  BY <1>1, <1>3, <1>4
     DEF Interpreter!Store, Interpreter!Writable, Interpreter!Readable, Interpreter!memory

LEMMA AssignOperates ==
  ASSUME RInv, Agrees, NEW opcodes \in SUBSET ValidOpcode, Executing(opcodes),
         AtInsn.opcode \in Arithmetic \cup OneRegister, NEW v, Assign(v), NEW values, v \in values
  PROVE  Interpreter!MEMORY_OR_REG_OP(values)
BY AssignStores, SameDefinitions DEF Interpreter!MEMORY_OR_REG_OP

LEMMA Operands ==
  ASSUME RInv, Agrees, NEW opcodes \in SUBSET ValidOpcode, Executing(opcodes)
  PROVE  /\ AtInsn.opcode \in Arithmetic \cup OneRegister \cup {"cmp"} =>
              Interpreter!Old = {V0} /\ V0 \in Word
         /\ AtInsn.opcode \in Arithmetic \cup OneRegister =>
              Interpreter!REG(Interpreter!OP0) = V0
         /\ AtInsn.opcode \in Arithmetic \cup {"cmp"} =>
              /\ Interpreter!Rhs = {V1} /\ V1 \in Word
              /\ Interpreter!Readable(Interpreter!OP1)
<1>1. Interpreter!OP0 = AtInsn.operands[1] /\ Interpreter!OP1 = AtInsn.operands[2]
  BY Here DEF Interpreter!OP0, Interpreter!OP1
<1>2. ASSUME AtInsn.opcode \in Arithmetic \cup OneRegister \cup {"cmp"}
      PROVE  /\ Interpreter!Old = {V0} /\ V0 \in Word
             /\ AtInsn.opcode \in Arithmetic \cup OneRegister =>
                  Interpreter!REG(Interpreter!OP0) = V0
  <2>1. 1 \in DOMAIN AtInsn.operands /\ AtInsn.operands[1].type \in {"REG", "INT"}
    BY <1>2, Targets
  <2>2. AtInsn.opcode \in Arithmetic \cup OneRegister => AtInsn.operands[1].type = "REG"
    BY Targets
  <2> QED
    BY <1>1, <2>1, <2>2, SameValue DEF Interpreter!Old, V0, Interpreter!REG
<1>3. ASSUME AtInsn.opcode \in Arithmetic \cup {"cmp"}
      PROVE  /\ Interpreter!Rhs = {V1} /\ V1 \in Word
             /\ Interpreter!Readable(Interpreter!OP1)
  <2>1. 2 \in DOMAIN AtInsn.operands /\ AtInsn.operands[2].type \in {"REG", "INT"}
    BY <1>3, Targets
  <2> QED
    BY <1>1, <2>1, SameValue DEF Interpreter!Rhs, V1, Interpreter!Readable
<1> QED
  BY <1>2, <1>3

LEMMA ComputeImplements ==
  ASSUME RInv, Agrees, Compute
  PROVE  Interpreter!Next
<1> DEFINE opcodes == {"mov", "add", "sub", "mul", "inc", "dec"}
<1>1. /\ opcodes \in SUBSET ValidOpcode
      /\ {"mov", "add", "sub", "mul"} \subseteq Arithmetic /\ {"inc", "dec"} \subseteq OneRegister
  BY DEF ValidOpcode, Arithmetic, OneRegister
<1>2. Executing(opcodes) /\ Line.opcode = AtInsn.opcode
  BY Here DEF Compute, Executing
<1>3. PICK v : Assign(v)
  BY DEF Compute
<1>4. AtInsn.opcode \in Arithmetic \cup OneRegister
  BY <1>1, <1>2 DEF Executing
<1>5. /\ Interpreter!Old = {V0}
      /\ AtInsn.opcode \in Arithmetic => Interpreter!Rhs = {V1} /\ Interpreter!Readable(Interpreter!OP1)
      /\ Interpreter!Fetch(AtInsn.opcode)
  BY <1>1, <1>2, <1>4, Operands, Here
<1> HIDE DEF opcodes
<1>6. \A w, values : Assign(w) /\ w \in values => Interpreter!MEMORY_OR_REG_OP(values)
  BY <1>1, <1>2, <1>4, AssignOperates
<1>7. CASE Executing({"mov"}) /\ Assign(V1)
  <2>1. AtInsn.opcode = "mov"
    BY <1>2, <1>7 DEF Executing
  <2>2. Interpreter!Mov
    BY <1>1, <1>5, <1>6, <1>7, <2>1 DEF Interpreter!Mov, Interpreter!FetchReadable
  <2> QED
    BY <2>2 DEF Interpreter!Next
<1>8. CASE Executing({"add"}) /\ Assign(V0 + V1)
  <2>1. AtInsn.opcode = "add"
    BY <1>2, <1>8 DEF Executing
  <2>2. Interpreter!Add
    BY <1>1, <1>5, <1>6, <1>8, <2>1 DEF Interpreter!Add, Interpreter!FetchReadable
  <2> QED
    BY <2>2 DEF Interpreter!Next
<1>9. CASE Executing({"sub"}) /\ Assign(V0 - V1)
  <2>1. AtInsn.opcode = "sub"
    BY <1>2, <1>9 DEF Executing
  <2>2. Interpreter!Sub
    BY <1>1, <1>5, <1>6, <1>9, <2>1 DEF Interpreter!Sub, Interpreter!FetchReadable
  <2> QED
    BY <2>2 DEF Interpreter!Next
<1>10. CASE Executing({"mul"}) /\ Assign(V0 * V1)
  <2>1. AtInsn.opcode = "mul"
    BY <1>2, <1>10 DEF Executing
  <2>2. Interpreter!Mul
    BY <1>1, <1>5, <1>6, <1>10, <2>1 DEF Interpreter!Mul, Interpreter!FetchReadable
  <2> QED
    BY <2>2 DEF Interpreter!Next
<1>11. CASE Executing({"inc"}) /\ Assign(V0 + 1)
  <2>1. AtInsn.opcode = "inc"
    BY <1>2, <1>11 DEF Executing
  <2>2. Interpreter!Inc
    BY <1>5, <1>6, <1>11, <2>1 DEF Interpreter!Inc
  <2> QED
    BY <2>2 DEF Interpreter!Next
<1>12. CASE Executing({"dec"}) /\ Assign(V0 - 1)
  <2>1. AtInsn.opcode = "dec"
    BY <1>2, <1>12 DEF Executing
  <2>2. Interpreter!Dec
    BY <1>5, <1>6, <1>12, <2>1 DEF Interpreter!Dec
  <2> QED
    BY <2>2 DEF Interpreter!Next
<1> QED
  BY <1>7, <1>8, <1>9, <1>10, <1>11, <1>12 DEF Compute

LEMMA DivideImplements ==
  ASSUME RInv, Agrees, Divide
  PROVE  Interpreter!Next
<1>1. Executing({"div"}) /\ {"div"} \in SUBSET ValidOpcode /\ "div" \in Arithmetic
  BY DEF Divide, ValidOpcode, Arithmetic
<1>2. /\ AtInsn.opcode = "div" /\ Line.opcode = "div" /\ Interpreter!Fetch("div")
      /\ status = "running"
  BY <1>1, Here DEF Executing
<1>3. /\ Interpreter!Old = {V0} /\ V0 \in Word /\ V1 \in Word
      /\ Interpreter!Rhs = {V1} /\ Interpreter!Readable(Interpreter!OP1)
  BY <1>1, <1>2, Operands
<1>4. Executing(ValidOpcode)
  BY <1>1 DEF Executing
<1>5. ToInt(V1) = V1
  BY <1>2, <1>4 DEF Agrees
<1>6. Interpreter!Divisors = {V1}
  BY <1>3, <1>5, SameDefinitions DEF Interpreter!Divisors
<1>7. CASE ~Traps
  <2>1. V1 \in Int \ {0} /\ ~(V0 = MinWord /\ V1 = -1)
    BY <1>3, <1>7 DEF Traps, Word
  <2>2. TruncDiv(V0, V1) \in Word
    BY <1>3, <2>1, QuotientIsWord
  <2>3. ToWord(TruncDiv(V0, V1)) = TruncDiv(V0, V1)
    BY <2>2, WordUnchanged
  <2>4. Assign(TruncDiv(V0, V1))
    BY <1>7 DEF Divide
  <2>5. /\ Interpreter!Store(Interpreter!OP0, TruncDiv(V0, V1))
        /\ Interpreter!Writable(Interpreter!OP0)
        /\ Interpreter!Advance
        /\ UNCHANGED <<cmp, Interpreter!stacks, msg, out>>
    BY <1>1, <1>2, <2>3, <2>4, AssignStores
  <2>6. Interpreter!Div
    BY <1>2, <1>3, <1>6, <2>1, <2>5, SameDefinitions DEF Interpreter!Div, Interpreter!FetchReadable
  <2> QED
    BY <2>6 DEF Interpreter!Next
<1>8. CASE Traps
  <2>1. End("trap")
    BY <1>8 DEF Divide
  <2>2. V1' = V1 /\ status' = "trap"
    BY <2>1 DEF End, run, written, V1, Value, Line
  <2>3. Interpreter!Stop(InterpStatus')
    BY <2>1, EndStops
  <2>4. CASE V1 = 0
    <3>1. InterpStatus' = "division_by_zero"
      BY <2>2, <2>4 DEF InterpStatus
    <3>2. Interpreter!DivByZero
      BY <1>2, <1>3, <1>6, <2>3, <2>4, <3>1 DEF Interpreter!DivByZero, Interpreter!FetchReadable
    <3> QED
      BY <3>2 DEF Interpreter!Next
  <2>5. CASE V1 # 0
    <3>1. InterpStatus' = "trap" /\ V0 = MinWord /\ V1 = -1
      BY <1>8, <2>2, <2>5 DEF InterpStatus, Traps
    <3>2. Interpreter!Writable(Interpreter!OP0)
      BY <1>1, <1>2, Targets, Here
         DEF Interpreter!Writable, Interpreter!Readable, Interpreter!OP0
    <3>3. Interpreter!Div
      BY <1>2, <1>3, <1>6, <2>3, <2>5, <3>1, <3>2, SameDefinitions
         DEF Interpreter!Div, Interpreter!FetchReadable
    <3> QED
      BY <3>3 DEF Interpreter!Next
  <2> QED
    BY <2>4, <2>5
<1> QED
  BY <1>7, <1>8

LEMMA CompareImplements ==
  ASSUME RInv, Agrees, Compare
  PROVE  Interpreter!Next
<1>1. Executing({"cmp"}) /\ {"cmp"} \in SUBSET ValidOpcode
  BY DEF Compare, ValidOpcode
<1>2. /\ AtInsn.opcode = "cmp" /\ Line.opcode = "cmp" /\ Interpreter!Fetch("cmp")
      /\ status = "running"
  BY <1>1, Here DEF Executing
<1>3. Interpreter!Old = {V0} /\ Interpreter!Rhs = {V1}
  BY <1>1, <1>2, Operands
<1>4. Executing(ValidOpcode)
  BY <1>1 DEF Executing
<1>5. IntLiterals => ToInt(V0 - V1) = ToWord(V0 - V1)
  BY <1>2, <1>4 DEF Agrees
<1>6. cmp' = ToWord(V0 - V1)
  BY <1>5 DEF Compare
<1>7. Interpreter!Advance /\ UNCHANGED <<r, Interpreter!stacks, msg, out>>
  BY <1>2, ThenAdvances DEF Compare
<1>8. Interpreter!Cmp
  BY <1>2, <1>3, <1>6, <1>7, SameDefinitions DEF Interpreter!Cmp, Interpreter!memory
<1> QED
  BY <1>8 DEF Interpreter!Next

\* A goto leads to the instruction the branch was resolved to.
LEMMA BranchPlace ==
  ASSUME RInv, NEW opcodes \in SUBSET BranchOpcode, Executing(opcodes)
  PROVE  PlaceOf(Line.goto) = Interpreter!OP0.arg /\ PlaceOf(Line.goto) \in 0 .. Len(prog) - 1
<1> DEFINE target == AtInsn.operands[1].arg
<1>1. /\ at + 1 \in DOMAIN prog /\ at + 1 \in DOMAIN lines /\ AtInsn.opcode \in BranchOpcode
      /\ LinesOK /\ Len(lines) = Len(prog) /\ Interpreter!OP0 = AtInsn.operands[1]
  BY Here DEF RInv, GInv, Interpreter!OP0
<1>2. target \in 0 .. Len(prog) - 1 /\ LabelAt(target) # NULL
  BY <1>1, BranchLabels DEF AtInsn
<1>3. Line.goto = LabelAt(target)
  BY <1>1, LineFacts DEF Line, AtInsn
<1>4. target + 1 \in DOMAIN lines /\ (target + 1) - 1 = target /\ target \in Nat
  BY <1>1, <1>2, ProgramFacts DEF LinesOK
<1>5. LinesOf(LabelAt(target)) = {target + 1}
  BY <1>1, <1>2, <1>4, LineOfLabel
<1>6. PlaceOf(Line.goto) = (target + 1) - 1
  BY <1>3, <1>5 DEF PlaceOf
<1> QED
  BY <1>1, <1>2, <1>4, <1>6

LEMMA GotoImplements ==
  ASSUME RInv, Goto
  PROVE  Interpreter!Next
<1>1. /\ Executing(Conditional \cup {"jmp"})
      /\ Conditional \cup {"jmp"} \in SUBSET BranchOpcode
  BY DEF Goto, BranchOpcode
<1>2. /\ Interpreter!Fetch(AtInsn.opcode) /\ AtInsn.opcode \in Conditional \cup {"jmp"}
      /\ Line.opcode = AtInsn.opcode
  BY <1>1, Here
<1>3. PlaceOf(Line.goto) = Interpreter!OP0.arg
  BY <1>1, BranchPlace
<1>4. /\ UNCHANGED <<prog, r, cmp, c_stacks, msg, out, status, lines>>
      /\ InterpStatus = "running" /\ InterpStatus' = "running"
  BY DEF Goto, c_stacks, written, InterpStatus, Executing
<1>5. UNCHANGED Interpreter!stacks
  BY <1>4, SameStacks
<1>6. Interpreter!BRANCH_IF(Holds(AtInsn.opcode))
  BY <1>2, <1>3, <1>4, <1>5 DEF Goto, Interpreter!BRANCH_IF, Interpreter!memory
<1>7. \/ Interpreter!Jmp \/ Interpreter!Jne \/ Interpreter!Je \/ Interpreter!Jge
      \/ Interpreter!Jg \/ Interpreter!Jle \/ Interpreter!Jl
  <2>1. CASE AtInsn.opcode = "jmp"
    BY <1>2, <1>6, <2>1 DEF Holds, Interpreter!Jmp
  <2>2. CASE AtInsn.opcode = "jne"
    BY <1>2, <1>6, <2>2 DEF Holds, Interpreter!Jne
  <2>3. CASE AtInsn.opcode = "je"
    BY <1>2, <1>6, <2>3 DEF Holds, Interpreter!Je
  <2>4. CASE AtInsn.opcode = "jge"
    BY <1>2, <1>6, <2>4 DEF Holds, Interpreter!Jge
  <2>5. CASE AtInsn.opcode = "jg"
    BY <1>2, <1>6, <2>5 DEF Holds, Interpreter!Jg
  <2>6. CASE AtInsn.opcode = "jle"
    BY <1>2, <1>6, <2>6 DEF Holds, Interpreter!Jle
  <2>7. CASE AtInsn.opcode = "jl"
    BY <1>2, <1>6, <2>7 DEF Holds, Interpreter!Jl
  <2> QED
    BY <1>2, <2>1, <2>2, <2>3, <2>4, <2>5, <2>6, <2>7 DEF Conditional
<1> QED
  BY <1>7 DEF Interpreter!Next

\* What C leaves undefined is an error of the interpreter.
LEMMA UndefinedStops ==
  ASSUME RInv, NEW opcodes, Executing(opcodes), End("undefined")
  PROVE  Interpreter!Stop(CASE AtInsn.opcode = "call" -> "callstack_overflow"
                            [] AtInsn.opcode = "ret"  -> "callstack_underflow"
                            [] AtInsn.opcode = "push" -> "stack_overflow"
                            [] AtInsn.opcode = "pop"  -> "stack_underflow"
                            [] OTHER -> "undefined")
<1>1. Line' = Line /\ Line.opcode = AtInsn.opcode /\ status' = "undefined"
  BY Here DEF End, run, written, Line
<1> QED
  BY <1>1, EndStops DEF InterpStatus

\* Where a return leads: behind its call.
LEMMA ReturnLine ==
  ASSUME LinesOK, NEW n \in Calls
  PROVE  /\ ReturnPlace(lines[n].code.ret) = n /\ lines[n].code.ret # NULL
         /\ n \in Nat /\ n \in 1 .. Len(lines)
<1>1. CallsOf(lines[n].code.ret) = {n}
  BY LineOfCall
<1>2. lines[n].code.ret \in Nat /\ n \in DOMAIN lines
  BY DEF LinesOK, Calls
<1>3. ReturnPlace(lines[n].code.ret) = n
  BY <1>1 DEF ReturnPlace
<1> QED
  BY <1>2, <1>3, GenCAssumption DEF LinesOK

LEMMA CallImplements ==
  ASSUME RInv, CallSub
  PROVE  Interpreter!Next
<1>1. Executing({"call"}) /\ {"call"} \in SUBSET BranchOpcode /\ "call" \in BranchOpcode
  BY DEF CallSub, BranchOpcode
<1>2. /\ AtInsn.opcode = "call" /\ Interpreter!Fetch("call") /\ Line.opcode = "call"
      /\ at + 1 \in DOMAIN lines /\ at \in Nat
  BY <1>1, Here DEF Executing
<1>3. CASE csp >= MAX_CALL_STACK
  <2>1. Interpreter!Stop("callstack_overflow")
    BY <1>1, <1>2, <1>3, UndefinedStops DEF CallSub
  <2>2. Interpreter!CallOverflow
    BY <1>2, <1>3, <2>1 DEF Interpreter!CallOverflow
  <2> QED
    BY <2>2 DEF Interpreter!Next
<1>4. CASE ~(csp >= MAX_CALL_STACK)
  <2>1. /\ cs' = [cs EXCEPT ![csp] = Line.ret] /\ csp' = csp + 1 /\ at' = PlaceOf(Line.goto)
        /\ UNCHANGED <<prog, lines, r, cmp, stack, sp, msg, out, status>>
    BY <1>4 DEF CallSub, written
  <2>2. csp \in 0 .. MAX_CALL_STACK - 1 /\ csp < MAX_CALL_STACK
    BY <1>4, GenCAssumption DEF RInv, RunOK
  <2>3. at + 1 \in Calls
    BY <1>2 DEF Calls, Line
  <2>4. Line.ret # NULL /\ ReturnPlace(Line.ret) = at + 1
    BY <2>3, ReturnLine DEF RInv, GInv, Line
  <2>5. \A k : ReturnPlace(k)' = ReturnPlace(k)
    BY <2>1 DEF ReturnPlace, CallsOf, Calls
  <2>6. cs' \in [0 .. MAX_CALL_STACK - 1 -> Nat \cup {NULL, Line.ret}]
        /\ cs'[csp] = Line.ret /\ \A k \in 0 .. MAX_CALL_STACK - 1 : k # csp => cs'[k] = cs[k]
    BY <2>1, <2>2 DEF RInv, RunOK
  <2>7. Returns' = [Returns EXCEPT ![csp] = at + 1]
    BY <2>2, <2>4, <2>5, <2>6 DEF Returns
  <2>8. PlaceOf(Line.goto) = Interpreter!OP0.arg
    BY <1>1, BranchPlace
  <2>9. UNCHANGED Pushed /\ InterpStatus = "running" /\ InterpStatus' = "running"
    BY <1>1, <2>1, SamePushed DEF Executing, InterpStatus
  <2>10. Interpreter!Call
    BY <1>2, <2>1, <2>2, <2>7, <2>8, <2>9
       DEF Interpreter!Call, Interpreter!memory, Returns, Pushed
  <2> QED
    BY <2>10 DEF Interpreter!Next
<1> QED
  BY <1>3, <1>4

\* The place a return leads to.
LEMMA ReturnTarget ==
  ASSUME RInv, csp # 0
  PROVE  /\ csp - 1 \in 0 .. MAX_CALL_STACK - 1 /\ csp \in Nat /\ csp > 0
         /\ cs[csp - 1] # NULL
         /\ ReturnPlace(cs[csp - 1]) \in 1 .. Len(lines)
<1>1. csp \in Nat /\ csp - 1 \in 0 .. MAX_CALL_STACK - 1 /\ csp - 1 \in 0 .. csp - 1
  BY GenCAssumption DEF RInv, RunOK
<1>2. PICK n \in Calls : cs[csp - 1] = lines[n].code.ret
  BY <1>1 DEF RInv, RunOK
<1> QED
  BY <1>1, <1>2, ReturnLine DEF RInv, GInv

LEMMA ReturnImplements ==
  ASSUME RInv, Return
  PROVE  Interpreter!Next
<1>1. Executing({"ret"})
  BY DEF Return
<1>2. AtInsn.opcode = "ret" /\ Interpreter!Fetch("ret")
  BY <1>1, Here DEF Executing
<1>3. CASE csp = 0
  <2>1. Interpreter!Stop("callstack_underflow")
    BY <1>1, <1>2, <1>3, UndefinedStops DEF Return
  <2>2. Interpreter!RetUnderflow
    BY <1>2, <1>3, <2>1 DEF Interpreter!RetUnderflow
  <2> QED
    BY <2>2 DEF Interpreter!Next
<1>4. CASE csp # 0
  <2>1. /\ csp' = csp - 1 /\ at' = ReturnPlace(cs[csp'])
        /\ UNCHANGED <<prog, lines, r, cmp, cs, stack, sp, msg, out, status>>
    BY <1>4 DEF Return, written
  <2>2. Returns[csp - 1] = ReturnPlace(cs[csp - 1])
    BY <1>4, ReturnTarget DEF Returns
  <2>3. at' = Returns[csp - 1]
    BY <2>1, <2>2
  <2>4. UNCHANGED <<Returns, Pushed>> /\ InterpStatus = "running" /\ InterpStatus' = "running"
    BY <1>1, <2>1, SamePushed, SameReturns DEF Executing, InterpStatus
  <2>5. csp > 0
    BY <1>4, ReturnTarget
  <2>6. Interpreter!Ret
    BY <1>2, <2>1, <2>3, <2>4, <2>5 DEF Interpreter!Ret, Interpreter!memory, Returns, Pushed
  <2> QED
    BY <2>6 DEF Interpreter!Next
<1> QED
  BY <1>3, <1>4

LEMMA PushImplements ==
  ASSUME RInv, Agrees, PushValue
  PROVE  Interpreter!Next
<1>1. Executing({"push"}) /\ {"push"} \in SUBSET ValidOpcode /\ "push" \in OneRegister
  BY DEF PushValue, ValidOpcode, OneRegister
<1>2. /\ AtInsn.opcode = "push" /\ Interpreter!Fetch("push") /\ Line.opcode = "push"
      /\ status = "running"
  BY <1>1, Here DEF Executing
<1>3. Interpreter!REG(Interpreter!OP0) = V0
  BY <1>1, <1>2, Operands
<1>4. Executing(ValidOpcode)
  BY <1>1 DEF Executing
<1>5. sp < MAX_STACK
  BY <1>2, <1>4 DEF Agrees
<1>6. /\ sp \in 0 .. MAX_STACK - 1 /\ sp < C_STACK /\ MAX_STACK <= C_STACK
      /\ stack \in [0 .. C_STACK - 1 -> Word]
  BY <1>5, GenCAssumption, TextsAssumption DEF RInv, RunOK
<1>7. /\ stack' = [stack EXCEPT ![sp] = V0] /\ sp' = sp + 1 /\ Then
      /\ UNCHANGED <<r, cmp, cs, csp, msg, out>>
  BY <1>6, GenCAssumption DEF PushValue, RInv, RunOK
<1>8. Pushed' = [Pushed EXCEPT ![sp] = V0]
  <2>1. MAX_STACK \in Nat /\ C_STACK \in Nat
    BY GenCAssumption, TextsAssumption
  <2>2. 0 .. MAX_STACK - 1 \subseteq 0 .. C_STACK - 1
    BY <1>6, <2>1
  <2>3. \A k \in 0 .. C_STACK - 1 : stack'[k] = IF k = sp THEN V0 ELSE stack[k]
    BY <1>6, <1>7
  <2>4. Pushed' = [k \in 0 .. MAX_STACK - 1 |-> IF k = sp THEN V0 ELSE stack[k]]
    BY <2>2, <2>3 DEF Pushed
  <2> QED
    BY <1>6, <2>4 DEF Pushed
<1>9. Interpreter!Advance /\ UNCHANGED Returns
  BY <1>2, <1>7, ThenAdvances, SameReturns
<1>10. Interpreter!Push
  BY <1>2, <1>3, <1>5, <1>7, <1>8, <1>9 DEF Interpreter!Push, Interpreter!memory, Returns, Pushed
<1> QED
  BY <1>10 DEF Interpreter!Next

LEMMA PopImplements ==
  ASSUME RInv, Agrees, PopValue
  PROVE  Interpreter!Next
<1>1. Executing({"pop"}) /\ {"pop"} \in SUBSET ValidOpcode /\ "pop" \in OneRegister
  BY DEF PopValue, ValidOpcode, OneRegister
<1>2. /\ AtInsn.opcode = "pop" /\ Interpreter!Fetch("pop") /\ Line.opcode = "pop"
      /\ status = "running"
  BY <1>1, Here DEF Executing
<1>3. CASE sp = 0
  <2>1. Interpreter!Stop("stack_underflow")
    BY <1>1, <1>2, <1>3, UndefinedStops DEF PopValue
  <2>2. Interpreter!PopUnderflow
    BY <1>2, <1>3, <2>1 DEF Interpreter!PopUnderflow
  <2> QED
    BY <2>2 DEF Interpreter!Next
<1>4. CASE sp # 0
  <2>1. /\ sp' = sp - 1 /\ r' = [r EXCEPT ![Line.values[1].value] = stack[sp']] /\ Then
        /\ UNCHANGED <<cmp, cs, csp, stack, msg, out>>
    BY <1>4 DEF PopValue
  <2>2. sp - 1 \in 0 .. MAX_STACK - 1 /\ sp > 0
    BY <1>4, TextsAssumption DEF RInv, RunOK
  <2>3. 1 \in DOMAIN AtInsn.operands /\ AtInsn.operands[1].type = "REG"
    BY <1>1, <1>2, Targets
  <2>4. Line.values[1].value = Interpreter!OP0.arg
    BY <1>1, <1>2, <2>3, SameValue, Here DEF Interpreter!OP0
  <2>5. r' = [r EXCEPT ![Interpreter!OP0.arg] = Pushed[sp - 1]]
    BY <2>1, <2>2, <2>4 DEF Pushed
  <2>6. Interpreter!Advance /\ UNCHANGED <<Returns, Pushed>>
    BY <1>2, <2>1, ThenAdvances, SameReturns, SamePushed
  <2>7. Interpreter!Pop
    BY <1>2, <2>1, <2>2, <2>5, <2>6 DEF Interpreter!Pop, Interpreter!memory, Returns, Pushed
  <2> QED
    BY <2>7 DEF Interpreter!Next
<1> QED
  BY <1>3, <1>4

\* What runs can be said in C.
LEMMA RunsSayable ==
  ASSUME RInv, NEW opcodes, Executing(opcodes)
  PROVE  Sayable(AtInsn)
<1>1. HasC
  BY DEF RInv, GInv, IsAProgram, Executing
<1> QED
  BY <1>1, Here DEF HasC, AtInsn

\* A text of the C program is that of the interpreter; print has the line break
\* that is behind a backslash and an n.
LEMMA SameTexts ==
  ASSUME RInv, Agrees, Executing(Unchecked), NEW k \in DOMAIN AtInsn.operands
  PROVE  LET text == Interpreter!Text(AtInsn.operands[k])
         IN  /\ text \in Strings \cup Word
             /\ Texts[k] = IF text = EscapedNewLine THEN NewLine ELSE text
             /\ AtInsn.opcode = "msg" => Texts[k] = text
<1> DEFINE op == AtInsn.operands[k]
           value == Line.values[k]
<1>1. /\ AtInsn \in Instruction /\ Line.opcode = AtInsn.opcode /\ AtInsn.opcode \in Unchecked
      /\ value = Emitted(AtInsn, k) /\ k \in DOMAIN Line.values /\ at + 1 \in DOMAIN prog
  BY Here
<1>2. op \in Operand
  BY <1>1 DEF Instruction
<1>3. Sayable(AtInsn)
  BY <1>1, RunsSayable
<1>4. op.type \in {"STR", "INT", "REG"}
  BY <1>1, <1>3 DEF Sayable
<1>5. Executing(ValidOpcode) /\ Unchecked \in SUBSET ValidOpcode
  BY DEF Executing, ValidOpcode
<1>6. AtInsn.opcode \notin Arithmetic \cup OneRegister
  BY <1>1 DEF Unchecked, Arithmetic, OneRegister
<1>7. Texts[k] = IF value.is # "string" THEN ToInt(Value(value))
                 ELSE IF value.value = EscapedNewLine THEN NewLine ELSE value.value
  BY <1>1 DEF Texts
<1>8. CASE op.type = "STR"
  <2>1. value = [is |-> "string", value |-> op.arg]
    BY <1>1, <1>6, <1>8 DEF Emitted
  <2>2. Interpreter!Text(op) = op.arg /\ op.arg \in Strings
    BY <1>2, <1>8 DEF Interpreter!Text, Operand
  <2>3. AtInsn.opcode = "msg" => op.arg # EscapedNewLine
    BY <1>1, <1>5, <2>1 DEF Agrees
  <2> QED
    BY <1>7, <2>1, <2>2, <2>3
<1>9. CASE op.type \in {"INT", "REG"}
  <2>1. /\ value.is # "string" /\ Value(value) \in Word
        /\ Interpreter!REG_OR_INT_OR_MEM(op) = {Value(value)}
    BY <1>6, <1>9, SameValue
  <2>2. ToInt(Value(value)) = Value(value)
    BY <1>1, <1>5, <2>1 DEF Agrees
  <2>3. Interpreter!Text(op) = Value(value)
    BY <1>9, <2>1 DEF Interpreter!REG_OR_INT_OR_MEM, Interpreter!Text
  <2>4. Value(value) # EscapedNewLine
    BY <2>1, TextsAssumption
  <2> QED
    BY <1>7, <2>1, <2>2, <2>3, <2>4
<1> QED
  BY <1>4, <1>8, <1>9

LEMMA MessageImplements ==
  ASSUME RInv, Agrees, Message
  PROVE  Interpreter!Next
<1>1. Executing(Unchecked)
  BY DEF Message
<1>2. /\ AtInsn.opcode \in Unchecked /\ Interpreter!Fetch(AtInsn.opcode)
      /\ Line.opcode = AtInsn.opcode /\ AtInsn = Interpreter!In
      /\ AtInsn \in Instruction /\ at + 1 \in DOMAIN prog
      /\ DOMAIN Line.values = DOMAIN AtInsn.operands /\ status = "running"
  BY <1>1, Here DEF Executing
<1>3. AtInsn.operands \in Seq(Operand) /\ AtInsn.operands # << >>
  BY <1>1, <1>2, RunsSayable DEF Sayable, Instruction
<1>4. Interpreter!Advance /\ UNCHANGED <<r, cmp, Interpreter!stacks>>
  BY <1>2, ThenAdvances DEF Message
<1>5. Executing(ValidOpcode) /\ Unchecked = {"msg", "print"}
  BY <1>1 DEF Executing, ValidOpcode, Unchecked
<1>6. Texts = [k \in DOMAIN AtInsn.operands |-> Texts[k]]
  BY <1>2 DEF Texts
<1>7. CASE AtInsn.opcode = "msg"
  <2>1. msg' = Texts /\ UNCHANGED out
    BY <1>2, <1>7 DEF Message
  <2>2. Interpreter!MsgFits
    BY <1>2, <1>5, <1>7 DEF Agrees
  <2>3. \A k \in DOMAIN AtInsn.operands :
          Texts[k] = Interpreter!Text(AtInsn.operands[k])
          /\ Interpreter!Text(AtInsn.operands[k]) # Unhandled
    BY <1>1, <1>7, SameTexts, TextsAssumption
  <2>4. msg' = [k \in DOMAIN AtInsn.operands |->
                  IF Interpreter!Text(AtInsn.operands[k]) = Unhandled /\ k < Len(AtInsn.operands)
                  THEN NoText ELSE Interpreter!Text(AtInsn.operands[k])]
    BY <1>6, <2>1, <2>3
  <2>5. Interpreter!Msg
    BY <1>2, <1>3, <1>4, <1>7, <2>1, <2>2, <2>4 DEF Interpreter!Msg, Interpreter!memory
  <2> QED
    BY <2>5 DEF Interpreter!Next
<1>8. CASE AtInsn.opcode = "print"
  <2>1. out' = Texts /\ UNCHANGED msg
    BY <1>2, <1>8 DEF Message
  <2>2. \A k \in DOMAIN AtInsn.operands :
          Texts[k] = IF Interpreter!Text(AtInsn.operands[k]) = EscapedNewLine THEN NewLine
                     ELSE Interpreter!Text(AtInsn.operands[k])
    BY <1>1, SameTexts
  <2>3. out' = [k \in DOMAIN AtInsn.operands |->
                  IF Interpreter!Text(AtInsn.operands[k]) = EscapedNewLine THEN NewLine
                  ELSE Interpreter!Text(AtInsn.operands[k])]
    BY <1>6, <2>1, <2>2
  <2>4. Interpreter!PrintTexts
    BY <1>2, <1>4, <1>8, <2>1, <2>3 DEF Interpreter!PrintTexts, Interpreter!memory
  <2> QED
    BY <2>4 DEF Interpreter!Next
<1> QED
  BY <1>2, <1>5, <1>7, <1>8

LEMMA EmptyLineImplements ==
  ASSUME RInv, Agrees, EmptyLine
  PROVE  Interpreter!Next
<1>1. /\ Executing({"malloc", "mfree"}) /\ {"malloc", "mfree"} \in SUBSET ValidOpcode
      /\ "mfree" \in OneRegister
  BY DEF EmptyLine, ValidOpcode, OneRegister
<1>2. /\ AtInsn.opcode \in {"malloc", "mfree"} /\ Line.opcode = AtInsn.opcode
      /\ Interpreter!Fetch(AtInsn.opcode) /\ status = "running"
  BY <1>1, Here DEF Executing
<1>3. Executing(ValidOpcode)
  BY <1>1 DEF Executing
<1>4. AtInsn.opcode = "mfree" /\ V0 = 0
  BY <1>2, <1>3 DEF Agrees
<1>5. Interpreter!REG(Interpreter!OP0) = 0
  BY <1>1, <1>4, Operands
<1>6. Interpreter!Advance /\ UNCHANGED <<r, cmp, Interpreter!stacks, msg, out>>
  BY <1>2, ThenAdvances DEF EmptyLine
<1>7. << >> = [b \in DOMAIN << >> \ {0} |-> << >>[b]]
  OBVIOUS
<1>8. Interpreter!Mfree
  BY <1>2, <1>4, <1>5, <1>6, <1>7 DEF Interpreter!Mfree
<1> QED
  BY <1>8 DEF Interpreter!Next

LEMMA FinishImplements ==
  ASSUME RInv, Finish
  PROVE  Interpreter!Next
<1>1. End("ended") /\ status = "running"
  BY DEF Finish
<1>2. InterpStatus = "running" /\ InterpStatus' = "ended"
  BY <1>1 DEF InterpStatus, End
<1>3. Interpreter!Stop("ended")
  BY <1>1, <1>2, EndStops
<1>4. CASE Executing({"end"})
  <2>1. Interpreter!Fetch("end")
    BY <1>4, Here DEF Executing
  <2>2. Interpreter!End
    BY <1>3, <2>1 DEF Interpreter!End
  <2> QED
    BY <2>2 DEF Interpreter!Next
<1>5. CASE at = Len(lines)
  <2>1. at >= Len(prog)
    BY <1>1, <1>5 DEF RInv, GInv, LinesOK, RunOK
  <2>2. Interpreter!RunOff
    BY <1>2, <1>3, <2>1 DEF Interpreter!RunOff
  <2> QED
    BY <2>2 DEF Interpreter!Next
<1> QED
  BY <1>4, <1>5 DEF Finish

\* What writes and compiles the program is no step of the interpreter.
LEMMA WritingStutters ==
  ASSUME RInv, GenInstruction \/ Generated \/ Compile
  PROVE  /\ UNCHANGED Interpreter!vars /\ UNCHANGED <<prog, run>>
         /\ status \in {"generating", "compiling"}
         /\ status' \in {"generating", "compiling", "assertion", "refused", "running"}
<1>1. /\ UNCHANGED <<prog, resolved_labels, run>>
      /\ status \in {"generating", "compiling"}
      /\ status' \in {"generating", "compiling", "assertion", "refused", "running"}
  BY DEF GenInstruction, Generated, Compile
<1>2. InterpStatus = "running" /\ InterpStatus' = "running"
  BY <1>1 DEF InterpStatus
<1>3. \A k \in 0 .. MAX_CALL_STACK - 1 : cs[k] = NULL /\ cs'[k] = NULL
  BY <1>1 DEF RInv, RunOK, run, c_stacks
<1>4. UNCHANGED Returns
  BY <1>3 DEF Returns
<1>5. UNCHANGED Pushed
  BY <1>1, SamePushed DEF run, c_stacks
<1>6. UNCHANGED Interpreter!vars
  BY <1>1, <1>2, <1>4, <1>5
     DEF run, c_stacks, Returns, Pushed, Interpreter!vars, Interpreter!stacks, Interpreter!memory
<1> QED
  BY <1>1, <1>6

LEMMA UnchangedStutters ==
  ASSUME UNCHANGED vars
  PROVE  UNCHANGED Interpreter!vars
<1>1. UNCHANGED <<prog, at, r, cmp, msg, out, lines, c_stacks>> /\ UNCHANGED status
  BY DEF vars, run, written
<1>2. InterpStatus' = InterpStatus
  BY <1>1 DEF InterpStatus, V1, Value, Line
<1> QED
  BY <1>1, <1>2, SameStacks DEF Interpreter!vars, Interpreter!memory

-----------------------------------------------------------------------------
(* The invariant of the run *)

LEMMA RunKept ==
  ASSUME RInv, Running, UNCHANGED c_stacks,
         at' \in 0 .. Len(prog), r' \in [RegIndex -> Word]
  PROVE  RunOK'
<1>1. UNCHANGED <<prog, lines>> /\ status' \notin {"generating", "compiling", "assertion", "refused"}
  BY RunningKeepsText DEF written
<1>2. UNCHANGED <<cs, csp, stack, sp>> /\ RunOK
  BY DEF RInv, c_stacks
<1>3. \A k \in 0 .. csp - 1 : \E n \in Calls' : cs[k] = lines[n].code.ret
  BY <1>1, <1>2 DEF RunOK, Calls
<1> QED
  BY <1>1, <1>2, <1>3 DEF RunOK

LEMMA NextPlace ==
  ASSUME RInv, NEW opcodes, Executing(opcodes)
  PROVE  at + 1 \in 0 .. Len(prog)
<1>1. at \in Nat /\ at < Len(prog)
  BY Here
<1>2. Len(prog) \in Nat
  BY ProgramFacts DEF RInv, GInv
<1> QED
  BY <1>1, <1>2

LEMMA AssignKeeps ==
  ASSUME RInv, Agrees, Running, NEW opcodes \in SUBSET ValidOpcode, Executing(opcodes),
         AtInsn.opcode \in Arithmetic \cup OneRegister, NEW v \in Int, Assign(v)
  PROVE  RunOK'
<1>1. Line.values[1].value \in RegIndex
  BY Targets, SameValue
<1>2. r' \in [RegIndex -> Word]
  BY <1>1, ToWordIsWord DEF Assign, RInv, RunOK
<1>3. at' \in 0 .. Len(prog) /\ UNCHANGED c_stacks
  BY NextPlace DEF Assign, Then
<1> QED
  BY <1>2, <1>3, RunKept

LEMMA ComputeKeeps ==
  ASSUME RInv, Agrees, Compute \/ Divide
  PROVE  RunOK'
<1> DEFINE opcodes == {"mov", "add", "sub", "mul", "inc", "dec", "div"}
<1>1. opcodes \in SUBSET ValidOpcode
  BY DEF ValidOpcode, Arithmetic, OneRegister
<1>2. Executing(opcodes) /\ Running
  BY DEF Compute, Divide, Executing, Running
<1>3. Line.opcode = AtInsn.opcode /\ AtInsn.opcode \in opcodes
  BY <1>2, Here
<1>4. AtInsn.opcode \in Arithmetic \cup OneRegister
  BY <1>3 DEF Arithmetic, OneRegister
<1>5. V0 \in Int /\ (AtInsn.opcode \in Arithmetic => V1 \in Word)
  BY <1>1, <1>2, <1>4, Operands DEF Word
<1> HIDE DEF opcodes
<1>6. \A v \in Int : Assign(v) => RunOK'
  BY <1>1, <1>2, <1>4, AssignKeeps
<1>7. CASE Compute
  <2>1. Executing({"mov", "add", "sub", "mul"}) => V1 \in Int
    BY <1>3, <1>5 DEF Executing, Arithmetic, Word
  <2>2. PICK v \in Int : Assign(v)
    BY <1>5, <1>7, <2>1 DEF Compute, Executing
  <2> QED
    BY <1>6, <2>2
<1>8. CASE Divide /\ ~Traps
  <2>1. V0 \in Word /\ V1 \in Int \ {0} /\ ~(V0 = MinWord /\ V1 = -1)
    BY <1>1, <1>2, <1>3, <1>8, Operands, Here DEF Divide, Traps, Executing, Arithmetic, Word
  <2>2. TruncDiv(V0, V1) \in Int
    BY <2>1, QuotientIsWord DEF Word
  <2> QED
    BY <1>6, <1>8, <2>2 DEF Divide
<1>9. CASE Divide /\ Traps
  BY <1>2, <1>9, RunKept DEF Divide, End, run, RInv, RunOK
<1> QED
  BY <1>7, <1>8, <1>9

LEMMA StraightKeeps ==
  ASSUME RInv, Compare \/ Message \/ EmptyLine \/ Goto \/ Finish
  PROVE  RunOK'
<1>1. Running /\ r' \in [RegIndex -> Word] /\ UNCHANGED c_stacks
  BY DEF Running, Compare, Message, EmptyLine, Goto, Finish, End, run, RInv, RunOK
<1>2. CASE Compare \/ Message \/ EmptyLine
  <2>1. at' \in 0 .. Len(prog)
    BY <1>2, NextPlace DEF Compare, Message, EmptyLine, Then
  <2> QED
    BY <1>1, <2>1, RunKept
<1>3. CASE Goto
  <2>1. /\ Executing(Conditional \cup {"jmp"})
        /\ Conditional \cup {"jmp"} \in SUBSET BranchOpcode
    BY <1>3 DEF Goto, BranchOpcode
  <2>2. PlaceOf(Line.goto) \in 0 .. Len(prog) /\ at + 1 \in 0 .. Len(prog)
    BY <2>1, BranchPlace, NextPlace
  <2>3. at' \in 0 .. Len(prog)
    BY <1>3, <2>2 DEF Goto
  <2> QED
    BY <1>1, <2>3, RunKept
<1>4. CASE Finish
  BY <1>1, <1>4, RunKept DEF Finish, End, run, RInv, RunOK
<1> QED
  BY <1>2, <1>3, <1>4

LEMMA CallKeeps ==
  ASSUME RInv, CallSub
  PROVE  RunOK'
<1>1. /\ Executing({"call"}) /\ {"call"} \in SUBSET BranchOpcode /\ Running
      /\ UNCHANGED <<prog, lines>> /\ status' \notin {"generating", "compiling", "assertion", "refused"}
  BY RunningKeepsText DEF CallSub, BranchOpcode, Running, written
<1>2. CASE csp >= MAX_CALL_STACK
  BY <1>1, <1>2, RunKept DEF CallSub, End, run, RInv, RunOK
<1>3. CASE ~(csp >= MAX_CALL_STACK)
  <2>1. /\ cs' = [cs EXCEPT ![csp] = Line.ret] /\ csp' = csp + 1 /\ at' = PlaceOf(Line.goto)
        /\ UNCHANGED <<prog, lines, r, stack, sp>>
    BY <1>3 DEF CallSub, written
  <2>2. /\ csp \in 0 .. MAX_CALL_STACK - 1 /\ csp' \in 0 .. MAX_CALL_STACK
        /\ cs \in [0 .. MAX_CALL_STACK - 1 -> Nat \cup {NULL}]
    BY <1>3, <2>1, GenCAssumption DEF RInv, RunOK
  <2>3. at + 1 \in DOMAIN lines /\ at + 1 \in Calls
    BY <1>1, Here DEF Calls, Line, Executing
  <2>4. Line.ret = lines[at + 1].code.ret /\ Line.ret \in Nat
    BY <2>3 DEF Line, RInv, GInv, LinesOK
  <2>5. cs' \in [0 .. MAX_CALL_STACK - 1 -> Nat \cup {NULL}]
    BY <2>1, <2>2, <2>4
  <2>6. \A k \in 0 .. csp' - 1 : \E n \in Calls' : cs'[k] = lines'[n].code.ret
    <3> SUFFICES ASSUME NEW k \in 0 .. csp' - 1
                 PROVE  \E n \in Calls : cs'[k] = lines[n].code.ret
      BY <2>1 DEF Calls
    <3>1. CASE k = csp
      BY <2>1, <2>2, <2>3, <2>4, <3>1
    <3>2. CASE k # csp
      <4>1. k \in 0 .. csp - 1 /\ cs'[k] = cs[k]
        BY <2>1, <2>2, <3>2
      <4> QED
        BY <4>1 DEF RInv, RunOK
    <3> QED
      BY <3>1, <3>2
  <2>7. at' \in 0 .. Len(prog)
    BY <1>1, <2>1, BranchPlace
  <2> QED
    BY <1>1, <2>1, <2>2, <2>5, <2>6, <2>7 DEF RInv, RunOK
<1> QED
  BY <1>2, <1>3

LEMMA ReturnKeeps ==
  ASSUME RInv, Return
  PROVE  RunOK'
<1>1. /\ Executing({"ret"}) /\ Running
      /\ UNCHANGED <<prog, lines>> /\ status' \notin {"generating", "compiling", "assertion", "refused"}
  BY RunningKeepsText DEF Return, Running, written
<1>2. CASE csp = 0
  BY <1>1, <1>2, RunKept DEF Return, End, run, RInv, RunOK
<1>3. CASE csp # 0
  <2>1. /\ csp' = csp - 1 /\ at' = ReturnPlace(cs[csp'])
        /\ UNCHANGED <<prog, lines, r, cs, stack, sp>>
    BY <1>3 DEF Return, written
  <2>2. at' \in 0 .. Len(prog)
    <3>1. Len(lines) = Len(prog) /\ Len(prog) \in Nat
      BY <1>1, Here, ProgramFacts DEF RInv, GInv
    <3>2. at' \in 1 .. Len(lines)
      BY <1>3, <2>1, ReturnTarget
    <3> QED
      BY <3>1, <3>2
  <2>3. csp' \in 0 .. MAX_CALL_STACK /\ 0 .. csp' - 1 \subseteq 0 .. csp - 1
    BY <1>3, <2>1, GenCAssumption DEF RInv, RunOK
  <2>4. \A k \in 0 .. csp' - 1 : \E n \in Calls' : cs'[k] = lines'[n].code.ret
    BY <2>1, <2>3 DEF RInv, RunOK, Calls
  <2> QED
    BY <1>1, <2>1, <2>2, <2>3, <2>4 DEF RInv, RunOK
<1> QED
  BY <1>2, <1>3

LEMMA PushPopKeep ==
  ASSUME RInv, Agrees, PushValue \/ PopValue
  PROVE  RunOK'
<1> DEFINE opcodes == {"push", "pop"}
<1>1. /\ Executing(opcodes) /\ opcodes \in SUBSET ValidOpcode /\ opcodes \subseteq OneRegister
      /\ Running
      /\ UNCHANGED <<prog, lines>> /\ status' \notin {"generating", "compiling", "assertion", "refused"}
  BY RunningKeepsText
     DEF PushValue, PopValue, Running, Executing, ValidOpcode, OneRegister, written
<1>2. /\ AtInsn.opcode \in opcodes /\ Line.opcode = AtInsn.opcode
      /\ Executing(ValidOpcode)
  BY <1>1, Here DEF Executing
<1>3. /\ 1 \in DOMAIN AtInsn.operands /\ AtInsn.operands[1].type = "REG"
      /\ V0 \in Word
  BY <1>1, <1>2, Targets, Operands
<1>4. Line.values[1].value \in RegIndex
  BY <1>1, <1>3, SameValue
<1>5. at + 1 \in 0 .. Len(prog)
  BY <1>1, NextPlace
<1>6. MAX_STACK \in Nat /\ C_STACK \in Nat /\ MAX_STACK <= C_STACK /\ sp \in 0 .. MAX_STACK
      /\ stack \in [0 .. C_STACK - 1 -> Word] /\ r \in [RegIndex -> Word]
  BY GenCAssumption, TextsAssumption DEF RInv, RunOK
<1>7. CASE End("undefined")
  BY <1>1, <1>7, RunKept DEF End, run, RInv, RunOK
<1>8. CASE PushValue /\ ~End("undefined")
  <2>1. /\ stack' = [stack EXCEPT ![sp] = V0] /\ sp' = sp + 1 /\ at' = at + 1
        /\ UNCHANGED <<r, cs, csp>>
    BY <1>8 DEF PushValue, Then
  <2>2. sp < MAX_STACK
    BY <1>2, <1>8 DEF Agrees, PushValue, Executing
  <2>3. stack' \in [0 .. C_STACK - 1 -> Word] /\ sp' \in 0 .. MAX_STACK
    BY <1>3, <1>6, <2>1, <2>2
  <2> QED
    BY <1>1, <1>5, <2>1, <2>3 DEF RInv, RunOK, Calls
<1>9. CASE PopValue /\ ~End("undefined")
  <2>1. /\ sp' = sp - 1 /\ r' = [r EXCEPT ![Line.values[1].value] = stack[sp']] /\ at' = at + 1
        /\ UNCHANGED <<cs, csp, stack>> /\ sp # 0
    BY <1>9 DEF PopValue, Then
  <2>2. sp' \in 0 .. MAX_STACK /\ sp' \in 0 .. C_STACK - 1
    BY <1>6, <2>1
  <2>3. r' \in [RegIndex -> Word]
    BY <1>4, <1>6, <2>1, <2>2
  <2> QED
    BY <1>1, <1>5, <2>1, <2>2, <2>3 DEF RInv, RunOK, Calls
<1> QED
  BY <1>7, <1>8, <1>9

LEMMA NextRuns == Agrees /\ RInv /\ [Next]_vars => RInv'
<1> SUFFICES ASSUME Agrees, RInv, [Next]_vars PROVE RInv'
  OBVIOUS
<1>1. GInv'
  BY NextLines DEF RInv
<1>2. CASE GenInstruction \/ Generated \/ Compile
  <2>1. /\ UNCHANGED <<prog, run>> /\ status \in {"generating", "compiling"}
        /\ status' \in {"generating", "compiling", "assertion", "refused", "running"}
    BY <1>2, WritingStutters
  <2>2. RunOK /\ csp = 0 /\ csp' = 0
    BY <2>1 DEF RInv, RunOK, run, c_stacks
  <2>3. \A k \in 0 .. csp' - 1 : FALSE
    BY <2>2
  <2>4. RunOK'
    BY <2>1, <2>2, <2>3 DEF RunOK, run, c_stacks
  <2> QED
    BY <1>1, <2>1, <2>4 DEF RInv
<1>3. CASE Running
  <2>1. RunOK'
    BY <1>3, ComputeKeeps, StraightKeeps, CallKeeps, ReturnKeeps, PushPopKeep DEF Running
  <2> QED
    BY <1>1, <1>3, <2>1, RunningKeepsText DEF RInv
<1>4. CASE UNCHANGED vars
  <2>1. RunOK'
    BY <1>4 DEF vars, run, written, c_stacks, RInv, RunOK, Calls
  <2> QED
    BY <1>1, <1>4, <2>1 DEF RInv, vars
<1> QED
  BY <1>2, <1>3, <1>4 DEF Next, Running, Halted

\* A step of the C program is a step of the interpreter, with the text written before.
LEMMA NextDoesTheSame ==
  Agrees /\ RInv /\ [Next]_vars => [Interpreter!Next]_(Interpreter!vars)
<1> SUFFICES ASSUME Agrees, RInv, [Next]_vars
             PROVE  Interpreter!Next \/ UNCHANGED Interpreter!vars
  OBVIOUS
<1>1. CASE GenInstruction \/ Generated \/ Compile
  BY <1>1, WritingStutters
<1>2. CASE Compute \/ Divide \/ Compare \/ Goto
  BY <1>2, ComputeImplements, DivideImplements, CompareImplements, GotoImplements
<1>3. CASE CallSub \/ Return \/ PushValue \/ PopValue
  BY <1>3, CallImplements, ReturnImplements, PushImplements, PopImplements
<1>4. CASE Message \/ EmptyLine \/ Finish
  BY <1>4, MessageImplements, EmptyLineImplements, FinishImplements
<1>5. CASE UNCHANGED vars
  BY <1>5, UnchangedStutters
<1> QED
  BY <1>1, <1>2, <1>3, <1>4, <1>5 DEF Next, Halted

\* The C program does what the interpreter does with the same program, as long as
\* the two say the same of what is next: they go through the same instructions
\* with the same registers and stacks, print the same, and end alike.  A text
\* that is no C program (Translated says when) does not run.
THEOREM SameRun == Spec /\ []Agrees => DoesWhatTheInterpreterDoes
<1>1. Init => RInv /\ Interpreter!Init
  BY InitRun, InitInterpreter
<1>2. Agrees /\ RInv /\ [Next]_vars => RInv'
  BY NextRuns
<1>3. Agrees /\ RInv /\ [Next]_vars => [Interpreter!Next]_(Interpreter!vars)
  BY NextDoesTheSame
<1> QED
  BY <1>1, <1>2, <1>3, PTL DEF Spec, DoesWhatTheInterpreterDoes, Interpreter!Spec

=============================================================================
