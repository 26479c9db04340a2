------------------------- MODULE ProgramCheckProofs -------------------------
(***************************************************************************)
(* Proofs about program_check, for every program, either handler and any   *)
(* number of programs checked one after the other.                         *)
(***************************************************************************)
EXTENDS ProgramCheck, DataLemmas, TLAPS

-----------------------------------------------------------------------------
(* What check_operands guarantees of an instruction it accepts, and where it finds an error *)

\* What program_check leaves to program_run: registers are valid, and outside
\* msg and print the operands have the number and the types required.
LEMMA AcceptedOperands ==
  ASSUME NEW insn \in Instruction, OperandErrors(insn) = {}
  PROVE  /\ \A k \in DOMAIN insn.operands : ~InvalidRegister(insn.operands[k])
         /\ insn.opcode \notin Unchecked =>
              /\ Len(insn.operands) = Len(Required(insn.opcode))
              /\ \A k \in DOMAIN insn.operands :
                   insn.operands[k].type \in Required(insn.opcode)[k]
<1>1. InvalidOperands(insn) = {}
  BY DEF OperandErrors
<1>2. ASSUME insn.opcode \notin Unchecked
      PROVE  ~WrongNumber(insn) /\ WrongTypes(insn) = {}
  BY <1>1, <1>2 DEF OperandErrors
<1>3. \A k \in DOMAIN insn.operands : ~InvalidRegister(insn.operands[k])
  BY <1>1 DEF InvalidOperands
<1> QED
  BY <1>2, <1>3 DEF WrongNumber, WrongTypes

\* Each error is at an operand, or at the opcode.
LEMMA ErrorPlaces ==
  ASSUME NEW insn \in Instruction, NEW e \in OperandErrors(insn)
  PROVE  e.operand \in Nat
<1>1. DOMAIN insn.operands \subseteq Nat
  BY DEF Instruction
<1>2. CASE InvalidOperands(insn) # {}
  <2>1. InvalidOperands(insn) \subseteq Nat
    BY <1>1 DEF InvalidOperands
  <2>2. \E k \in InvalidOperands(insn) : \A j \in InvalidOperands(insn) : k <= j
    BY <1>2, <2>1, Least
  <2>3. FirstInvalid(insn) \in Nat
    BY <2>1, <2>2 DEF FirstInvalid
  <2> QED
    BY <1>2, <2>3 DEF OperandErrors
<1>3. CASE InvalidOperands(insn) = {}
  BY <1>1, <1>3 DEF OperandErrors, WrongTypes
<1> QED
  BY <1>2, <1>3

\* An instruction without errors is one program_run can execute: each opcode's
\* case finds the operands it reads.  A target of arithmetic may be anything.
THEOREM AcceptedRuns ==
  ASSUME NEW insn \in Instruction, insn.opcode # "<invalid>", OperandErrors(insn) = {}
  PROVE  Runnable(insn)
<1> DEFINE opcode == insn.opcode
           ops == insn.operands
<1>1. opcode \in ValidOpcode /\ ops \in Seq(Operand)
  BY DEF Instruction, Opcode
<1>2. /\ \A k \in DOMAIN ops : ~InvalidRegister(ops[k])
      /\ opcode \notin Unchecked =>
           /\ Len(ops) = Len(Required(opcode))
           /\ \A k \in DOMAIN ops : ops[k].type \in Required(opcode)[k]
  BY AcceptedOperands
<1> HIDE DEF opcode, ops
<1>3. ASSUME NEW k \in DOMAIN ops, ops[k].type \in {"REG", "MEM_ADDRESS"}
      PROVE  ops[k].arg \in RegIndex
  <2>1. ops[k] \in Operand
    BY <1>1
  <2> QED
    BY <1>2, <1>3, <2>1 DEF InvalidRegister, Operand
<1>4. opcode \in Arithmetic =>
        Len(ops) = 2 /\ ops[2].type \in {"REG", "INT", "MEM_ADDRESS"}
  <2>1. SUFFICES ASSUME opcode \in Arithmetic PROVE
          Required(opcode) = << OperandType, {"REG", "INT", "MEM_ADDRESS"} >>
    BY <1>1, <1>2 DEF Arithmetic, Unchecked
  <2> QED
    BY <2>1 DEF Required, Arithmetic, OneRegister, BranchOpcode, Conditional, NoOperand
<1>5. opcode \in OneRegister => Len(ops) = 1 /\ ops[1].type = "REG"
  <2>1. SUFFICES ASSUME opcode \in OneRegister PROVE Required(opcode) = << {"REG"} >>
    BY <1>1, <1>2 DEF OneRegister, Unchecked
  <2> QED
    BY <2>1 DEF Required, Arithmetic, OneRegister, BranchOpcode, Conditional, NoOperand
<1>6. opcode \in BranchOpcode => Len(ops) = 1 /\ ops[1].type = "BRANCH"
  <2>1. SUFFICES ASSUME opcode \in BranchOpcode PROVE Required(opcode) = << {"BRANCH"} >>
    BY <1>1, <1>2 DEF BranchOpcode, Conditional, Unchecked
  <2> QED
    BY <2>1 DEF Required, Arithmetic, OneRegister, BranchOpcode, Conditional, NoOperand
<1>7. opcode = "cmp" =>
        Len(ops) = 2 /\ ops[1].type \in {"REG", "INT"} /\ ops[2].type \in {"REG", "INT"}
  <2>1. SUFFICES ASSUME opcode = "cmp" PROVE
          Required(opcode) = << {"REG", "INT"}, {"REG", "INT"} >>
    BY <1>1, <1>2 DEF Unchecked
  <2> QED
    BY <2>1 DEF Required, Arithmetic, OneRegister, BranchOpcode, Conditional, NoOperand
<1>8. opcode = "malloc" => Len(ops) = 2 /\ ops[1].type = "REG" /\ ops[2].type = "REG"
  <2>1. SUFFICES ASSUME opcode = "malloc" PROVE Required(opcode) = << {"REG"}, {"REG"} >>
    BY <1>1, <1>2 DEF Unchecked
  <2> QED
    BY <2>1 DEF Required, Arithmetic, OneRegister, BranchOpcode, Conditional, NoOperand
<1> QED
  BY <1>1, <1>3, <1>4, <1>5, <1>6, <1>7, <1>8 DEF Runnable, opcode, ops

-----------------------------------------------------------------------------
(* The inductive invariant *)

\* The errors check_operands finds in the nth instruction.
Found(n) == {Error(e.kind, n, e.operand) : e \in OperandErrors(Insns[n])}

IsSequence(s) == \E S : s \in Seq(S)

\* As long as nothing is reported, everything looked at is free of defects.
SilentSoFar ==
  reports = << >> /\ phase \in {"instructions", "done"} =>
    /\ Duplicated = {}
    /\ \A n \in 1 .. i : (n < i \/ pending = {}) => ~Defective(n)
    /\ pending # {} => i > 0 /\ Insns[i].opcode # "<invalid>" /\ pending = Found(i)
    /\ phase = "done" => i = Len(Insns)

IInv ==
  /\ TypeOK
  /\ IsSequence(reports)
  /\ exits /\ phase # "exited" => reports = << >>
  /\ phase = "labels" => reports = << >> /\ i = 0 /\ pending = {}
  /\ phase = "done" => pending = {}
  /\ SilentSoFar
  /\ FirstDefectReported

-----------------------------------------------------------------------------
LEMMA InitIInv == Init => IInv
<1> SUFFICES ASSUME Init PROVE IInv
  OBVIOUS
<1>1. prog \in [instructions : Seq(Instruction), labels : Seq(Strings)]
  BY CheckAssumption DEF Init
<1>2. << >> \in Seq({})
  OBVIOUS
<1> QED
  BY <1>1, <1>2 DEF Init, IInv, TypeOK, IsSequence, SilentSoFar, FirstDefectReported

\* The handler is given one more error; when it is the first, reports is that one.
LEMMA Reported ==
  ASSUME NEW error, NEW text, NEW next, IsSequence(reports), Report(error, text, next)
  PROVE  /\ IsSequence(reports') /\ reports' # << >>
         /\ reports = << >> => Len(reports') = 1 /\ reports'[1].error = error
         /\ phase' = IF exits THEN "exited" ELSE next
<1> DEFINE report == [error |-> error, text |-> text]
<1>1. PICK S : reports \in Seq(S)
  BY DEF IsSequence
<1>2. reports \in Seq(S \cup {report})
  BY <1>1
<1>3. reports' = Append(reports, report) /\ phase' = IF exits THEN "exited" ELSE next
  BY DEF Report
<1>4. report.error = error
  OBVIOUS
<1> HIDE DEF report
<1>5. reports' \in Seq(S \cup {report}) /\ Len(reports') = Len(reports) + 1
  BY <1>2, <1>3
<1>6. reports = << >> => Len(reports') = 1 /\ reports'[1] = report
  BY <1>3
<1> QED
  BY <1>2, <1>3, <1>4, <1>5, <1>6 DEF IsSequence

LEMMA LabelsKeep == IInv /\ CheckLabels => IInv'
<1> SUFFICES ASSUME IInv, CheckLabels PROVE IInv'
  OBVIOUS
<1>1. /\ phase = "labels" /\ reports = << >> /\ i = 0 /\ pending = {}
      /\ UNCHANGED <<prog, exits, i, pending, heads, checked>>
      /\ Duplicated' = Duplicated
  BY DEF IInv, CheckLabels, Duplicated
<1>2. CASE Duplicated = {}
  <2>1. phase' = "instructions" /\ reports' = reports
    BY <1>2 DEF CheckLabels
  <2> QED
    BY <1>1, <1>2, <2>1
    DEF IInv, TypeOK, IsSequence, SilentSoFar, FirstDefectReported
<1>3. CASE Duplicated # {}
  <2> DEFINE error == Error("duplicated_label", 0, FirstDuplicate)
  <2>1. Report(error, <<error>>, "instructions")
    BY <1>3 DEF CheckLabels
  <2>2. error.kind = "duplicated_label"
    BY DEF Error
  <2> HIDE DEF error
  <2>3. /\ IsSequence(reports') /\ Len(reports') = 1 /\ reports'[1].error = error
        /\ reports' # << >>
        /\ phase' = IF exits THEN "exited" ELSE "instructions"
    BY <1>1, <2>1, Reported DEF IInv
  <2>4. FirstDefectReported'
    BY <1>1, <1>3, <2>2, <2>3 DEF FirstDefectReported
  <2> QED
    BY <1>1, <2>3, <2>4 DEF IInv, TypeOK, SilentSoFar
<1> QED
  BY <1>2, <1>3

LEMMA InvalidOpcodeKeeps == IInv /\ InvalidOpcode => IInv'
<1> SUFFICES ASSUME IInv, InvalidOpcode PROVE IInv'
  OBVIOUS
<1> DEFINE error == Error("invalid_opcode", i + 1, 0)
<1>1. /\ phase = "instructions" /\ pending = {} /\ i < Len(Insns) /\ i \in Nat
      /\ Insns[i + 1].opcode = "<invalid>"
      /\ i' = i + 1
      /\ UNCHANGED <<prog, exits, pending, heads, checked>>
      /\ Report(error, <<error>>, "done")
  BY DEF IInv, TypeOK, InvalidOpcode, Insns
<1>2. error.kind = "invalid_opcode" /\ error.insn = i + 1
  BY DEF Error
<1> HIDE DEF error
<1>3. /\ IsSequence(reports') /\ reports' # << >>
      /\ reports = << >> => Len(reports') = 1 /\ reports'[1].error = error
      /\ phase' = IF exits THEN "exited" ELSE "done"
  BY <1>1, Reported DEF IInv
<1>4. TypeOK'
  BY <1>1, <1>3 DEF IInv, TypeOK, Insns
<1>5. FirstDefectReported'
  <2>1. SUFFICES ASSUME exits PROVE FirstDefectReported'
    BY <1>1 DEF FirstDefectReported
  <2>2. /\ Len(reports') = 1 /\ reports'[1].error = error /\ phase' = "exited"
        /\ Duplicated = {} /\ \A n \in 1 .. i : ~Defective(n)
    BY <1>1, <1>3, <2>1 DEF IInv, SilentSoFar
  <2>3. Defective(i + 1)
    BY <1>1 DEF Defective
  <2>4. Duplicated' = Duplicated /\ Insns' = Insns /\ \A n : Defective(n)' = Defective(n)
    BY <1>1 DEF Duplicated, Insns, Defective
  <2> QED
    BY <1>1, <1>2, <2>1, <2>2, <2>3, <2>4 DEF FirstDefectReported
<1> QED
  BY <1>1, <1>3, <1>4, <1>5 DEF IInv, SilentSoFar

LEMMA OperandsKeep == IInv /\ CheckOperands => IInv'
<1> SUFFICES ASSUME IInv, CheckOperands PROVE IInv'
  OBVIOUS
<1>1. /\ phase = "instructions" /\ pending = {} /\ i < Len(Insns) /\ i \in Nat
      /\ Len(Insns) \in Nat
      /\ Insns[i + 1].opcode # "<invalid>"
      /\ pending' = Found(i + 1)
      /\ i' = i + 1
      /\ UNCHANGED <<prog, exits, phase, heads, reports, checked>>
  BY DEF IInv, TypeOK, CheckOperands, Found, Insns
<1>2. /\ Duplicated' = Duplicated /\ Insns' = Insns
      /\ \A n : Defective(n)' = Defective(n) /\ Found(n)' = Found(n)
  BY <1>1 DEF Duplicated, Insns, Defective, Found
<1>3. pending' = {} => ~Defective(i + 1)
  BY <1>1 DEF Found, Defective
<1>4. \A e \in pending' : e.insn = i'
  BY <1>1 DEF Found, Error
<1>5. TypeOK'
  BY <1>1, <1>4 DEF IInv, TypeOK, Insns
<1>6. SilentSoFar'
  BY <1>1, <1>2, <1>3 DEF IInv, SilentSoFar
<1> QED
  BY <1>1, <1>5, <1>6 DEF IInv, IsSequence, FirstDefectReported

\* The error reported is the leftmost one left.
LEMMA FirstIsLeftmost ==
  ASSUME IInv, pending = Found(i), pending # {}, i > 0
  PROVE  /\ First(pending) \in pending
         /\ \A f \in OperandErrors(Insns[i]) : First(pending).operand <= f.operand
<1> DEFINE places == {e.operand : e \in pending}
<1>1. Insns[i] \in Instruction
  BY DEF IInv, TypeOK, Insns
<1>2. \A e \in OperandErrors(Insns[i]) :
        e.operand \in Nat /\ Error(e.kind, i, e.operand) \in pending
  BY <1>1, ErrorPlaces DEF Found
<1>3. \A e \in pending : e.operand \in Nat
  BY <1>2 DEF Found, Error
<1>4. \E l \in places : \A m \in places : l <= m
  BY <1>3, Least
<1>5. \E e \in pending : \A f \in pending : e.operand <= f.operand
  BY <1>4
<1>6. First(pending) \in pending /\ \A f \in pending : First(pending).operand <= f.operand
  BY <1>5 DEF First
<1>7. \A e \in OperandErrors(Insns[i]) : Error(e.kind, i, e.operand).operand = e.operand
  BY DEF Error
<1> QED
  BY <1>2, <1>6, <1>7

\* Both ways of reporting an operand's error keep the invariant.
LEMMA ReportKeeps ==
  ASSUME IInv, phase = "instructions", pending # {},
         NEW text, Report(First(pending), text, "instructions"),
         pending' = pending \ {First(pending)},
         UNCHANGED <<prog, exits, i, checked>>
  PROVE  IInv'
<1>1. /\ IsSequence(reports') /\ reports' # << >>
      /\ reports = << >> => Len(reports') = 1 /\ reports'[1].error = First(pending)
      /\ phase' = IF exits THEN "exited" ELSE "instructions"
  BY Reported DEF IInv
<1>2. TypeOK'
  BY <1>1 DEF IInv, TypeOK
<1>3. FirstDefectReported'
  <2>1. SUFFICES ASSUME exits PROVE FirstDefectReported'
    BY DEF FirstDefectReported
  <2> DEFINE error == First(pending)
  <2>2. /\ reports = << >> /\ Duplicated = {} /\ i \in Nat
        /\ i > 0 /\ Insns[i].opcode # "<invalid>" /\ pending = Found(i)
        /\ \A n \in 1 .. i - 1 : ~Defective(n)
    BY <2>1 DEF IInv, TypeOK, SilentSoFar
  <2>3. /\ error \in pending
        /\ \A f \in OperandErrors(Insns[i]) : error.operand <= f.operand
    BY <2>2, FirstIsLeftmost
  <2>4. error.insn = i /\ Defective(i)
    <3>1. error.insn = i
      BY <2>3 DEF IInv, TypeOK
    <3>2. OperandErrors(Insns[i]) # {}
      BY <2>2, <2>3 DEF Found
    <3> QED
      BY <3>1, <3>2 DEF Defective
  <2>5. /\ Duplicated' = Duplicated /\ Insns' = Insns
        /\ \A n : Defective(n)' = Defective(n)
    BY DEF Duplicated, Insns, Defective
  <2> HIDE DEF error
  <2>6. Len(reports') = 1 /\ reports'[1].error = error /\ phase' = "exited"
    BY <1>1, <2>1, <2>2 DEF error
  <2> QED
    BY <2>2, <2>3, <2>4, <2>5, <2>6 DEF FirstDefectReported
<1> QED
  BY <1>1, <1>2, <1>3 DEF IInv, SilentSoFar

LEMMA NextIInv == IInv /\ [Next]_vars => IInv'
<1> SUFFICES ASSUME IInv, [Next]_vars PROVE IInv'
  OBVIOUS
<1>1. CASE CheckLabels
  BY <1>1, LabelsKeep
<1>2. CASE InvalidOpcode
  BY <1>2, InvalidOpcodeKeeps
<1>3. CASE CheckOperands
  BY <1>3, OperandsKeep
<1>4. CASE ReportOperand
  <2>1. Report(First(pending), <<First(pending)>>, "instructions")
    BY <1>4 DEF ReportOperand
  <2> QED
    BY <1>4, <2>1, ReportKeeps DEF ReportOperand
<1>5. CASE RequireOperandTypes
  <2>1. Report(First(pending), heads', "instructions")
    BY <1>5 DEF RequireOperandTypes
  <2> QED
    BY <1>5, <2>1, ReportKeeps DEF RequireOperandTypes
<1>6. CASE MsgBufOverflow
  BY <1>6 DEF MsgBufOverflow, IInv, TypeOK, SilentSoFar, FirstDefectReported, Insns
<1>7. CASE Finish
  <2>1. /\ phase = "instructions" /\ pending = {} /\ i = Len(Insns) /\ phase' = "done"
        /\ UNCHANGED <<prog, exits, i, pending, heads, reports, checked>>
    BY <1>7 DEF Finish, Insns
  <2>2. Duplicated' = Duplicated /\ Insns' = Insns /\ \A n : Defective(n)' = Defective(n)
    BY <2>1 DEF Duplicated, Insns, Defective
  <2>3. TypeOK' /\ SilentSoFar' /\ IsSequence(reports')
    BY <2>1, <2>2 DEF IInv, TypeOK, IsSequence, SilentSoFar
  <2>4. FirstDefectReported'
    <3>1. SUFFICES ASSUME exits
                   PROVE  Duplicated = {} /\ \A n \in DOMAIN Insns : ~Defective(n)
      BY <2>1, <2>2 DEF FirstDefectReported
    <3>2. Insns \in Seq(Instruction)
      BY DEF IInv, TypeOK, Insns
    <3> QED
      BY <2>1, <3>1, <3>2 DEF IInv, SilentSoFar
  <2> QED
    BY <2>1, <2>3, <2>4 DEF IInv
<1>8. CASE CheckAnother
  <2>1. prog' \in [instructions : Seq(Instruction), labels : Seq(Strings)]
    BY <1>8, CheckAssumption DEF CheckAnother
  <2>2. << >> \in Seq({})
    OBVIOUS
  <2> QED
    BY <1>8, <2>1, <2>2
    DEF CheckAnother, IInv, TypeOK, IsSequence, SilentSoFar, FirstDefectReported
<1>9. CASE Stopped \/ UNCHANGED vars
  <2>1. UNCHANGED vars
    BY <1>9 DEF Stopped
  <2> QED
    BY <2>1 DEF vars, IInv, TypeOK, IsSequence, SilentSoFar, FirstDefectReported, Insns,
                Duplicated, Defective, Found
<1> QED
  BY <1>1, <1>2, <1>3, <1>4, <1>5, <1>6, <1>7, <1>8, <1>9 DEF Next

LEMMA Invariance == Spec => []IInv
BY InitIInv, NextIInv, PTL DEF Spec

-----------------------------------------------------------------------------
\* program_check keeps to its types: it looks at the instructions in turn, and
\* what is left to report is about the latest.
THEOREM TypeCorrect == Spec => []TypeOK
<1>1. IInv => TypeOK
  BY DEF IInv
<1> QED
  BY <1>1, Invariance, PTL

\* A check that reports nothing leaves instructions without errors: the other
\* half of what Vm assumes of the programs it runs.
SilentMeansAccepted == phase = "done" /\ reports = << >> => InstructionsAccepted(Insns)

LEMMA SilentAccepts == IInv => SilentMeansAccepted
<1> SUFFICES ASSUME IInv, phase = "done", reports = << >>
             PROVE  InstructionsAccepted(Insns)
  BY DEF SilentMeansAccepted
<1>1. pending = {} /\ i = Len(Insns) /\ \A n \in 1 .. i : ~Defective(n)
  BY DEF IInv, SilentSoFar
<1>2. Insns \in Seq(Instruction)
  BY DEF IInv, TypeOK, Insns
<1> QED
  BY <1>1, <1>2 DEF Defective, InstructionsAccepted

THEOREM Acceptance == Spec => []SilentMeansAccepted
BY SilentAccepts, Invariance, PTL

LEMMA SilentRunnable == IInv => SilentMeansRunnable
<1> SUFFICES ASSUME IInv, phase = "done", reports = << >>, NEW n \in DOMAIN Insns
             PROVE  Duplicated = {} /\ Runnable(Insns[n])
  BY DEF SilentMeansRunnable, IInv, SilentSoFar
<1>1. InstructionsAccepted(Insns) /\ Duplicated = {}
  BY SilentAccepts DEF SilentMeansAccepted, IInv, SilentSoFar
<1>2. Insns[n] \in Instruction
  BY DEF IInv, TypeOK, Insns
<1> QED
  BY <1>1, <1>2, AcceptedRuns DEF InstructionsAccepted

\* A check that reports nothing leaves a program that program_run can execute
\* and whose labels are unambiguous, whatever was checked before it.
THEOREM SilentPrograms == Spec => []SilentMeansRunnable
BY SilentRunnable, Invariance, PTL

\* With a handler that exits, the error reported is the first there is, and a
\* program that has one does not pass.
THEOREM FirstDefects == Spec => []FirstDefectReported
<1>1. IInv => FirstDefectReported
  BY DEF IInv
<1> QED
  BY <1>1, Invariance, PTL

-----------------------------------------------------------------------------
(* Every defect is reported, once and in order *)

ErrorAt(k) == reports[k].error

\* The order in which errors are to be reported.
Before(e, f) == e.insn < f.insn \/ (e.insn = f.insn /\ e.operand < f.operand)

\* The errors reported are those of the instructions before the latest, and of
\* the latest those that come before the ones pending.
Complete ==
  phase \in {"instructions", "done"} =>
    /\ \A k \in DOMAIN reports :
         /\ ErrorAt(k).insn \in 0 .. i
         /\ ErrorAt(k).insn > 0 => Defective(ErrorAt(k).insn)
         /\ \A e \in pending : Before(ErrorAt(k), e)
         /\ k + 1 \in DOMAIN reports => Before(ErrorAt(k), ErrorAt(k + 1))
    /\ \A n \in 1 .. i :
         Defective(n) /\ (n < i \/ pending = {}) => \E k \in DOMAIN reports : ErrorAt(k).insn = n
    /\ pending # {} => i > 0 /\ pending \subseteq Found(i)
    /\ \A n \in 1 .. i : Insns[n].opcode = "<invalid>" => phase = "done" /\ n = i
    /\ phase = "done" => i = Len(Insns) \/ (i > 0 /\ Insns[i].opcode = "<invalid>")

CInv == IInv /\ Complete

\* The errors of an instruction are at different operands.
LEMMA OneErrorEach ==
  ASSUME NEW insn, NEW e \in OperandErrors(insn), NEW f \in OperandErrors(insn),
         e.operand = f.operand
  PROVE  e = f
BY DEF OperandErrors

LEMMA FoundTyped ==
  ASSUME NEW n \in DOMAIN Insns, Insns \in Seq(Instruction)
  PROVE  /\ \A e \in Found(n) : e.insn = n /\ e.operand \in Nat
         /\ \A e, f \in Found(n) : e.operand = f.operand => e = f
<1>1. Insns[n] \in Instruction
  OBVIOUS
<1>2. \A e \in OperandErrors(Insns[n]) : e.operand \in Nat
  BY <1>1, ErrorPlaces
<1>3. ASSUME NEW e \in Found(n) PROVE e.insn = n /\ e.operand \in Nat
  BY <1>2 DEF Found, Error
<1>4. ASSUME NEW e \in Found(n), NEW f \in Found(n), e.operand = f.operand PROVE e = f
  <2>1. PICK a \in OperandErrors(Insns[n]) : e = Error(a.kind, n, a.operand)
    BY DEF Found
  <2>2. PICK b \in OperandErrors(Insns[n]) : f = Error(b.kind, n, b.operand)
    BY DEF Found
  <2>3. a.operand = b.operand
    BY <1>4, <2>1, <2>2 DEF Error
  <2>4. a = b
    BY <2>3, OneErrorEach
  <2> QED
    BY <2>1, <2>2, <2>4
<1> QED
  BY <1>3, <1>4

\* What the handler is given joins the reports at their end.
LEMMA Joined ==
  ASSUME NEW error, NEW text, NEW next, IsSequence(reports), Report(error, text, next)
  PROVE  /\ Len(reports) \in Nat /\ DOMAIN reports = 1 .. Len(reports)
         /\ Len(reports') = Len(reports) + 1 /\ DOMAIN reports' = 1 .. Len(reports) + 1
         /\ \A k \in DOMAIN reports : reports'[k].error = ErrorAt(k)
         /\ reports'[Len(reports) + 1].error = error
<1> DEFINE report == [error |-> error, text |-> text]
<1>1. PICK S : reports \in Seq(S)
  BY DEF IsSequence
<1>2. reports \in Seq(S \cup {report}) /\ report \in S \cup {report}
  BY <1>1
<1>3. reports' = Append(reports, report) /\ report.error = error
  BY DEF Report
<1> HIDE DEF report
<1> QED
  BY <1>2, <1>3 DEF ErrorAt

LEMMA InitCInv == Init => CInv
BY InitIInv DEF Init, CInv, Complete

\* What the facts of Complete that speak of one program depend on.
LEMMA SameProgram ==
  ASSUME prog' = prog
  PROVE  /\ Insns' = Insns
         /\ \A n : Defective(n)' = Defective(n) /\ Found(n)' = Found(n)
BY DEF Insns, Defective, Found

LEMMA InsnsTyped ==
  ASSUME IInv
  PROVE  /\ Insns \in Seq(Instruction) /\ Len(Insns) \in Nat /\ DOMAIN Insns = 1 .. Len(Insns)
         /\ i \in 0 .. Len(Insns)
<1>1. Insns \in Seq(Instruction)
  BY DEF IInv, TypeOK, Insns
<1> QED
  BY <1>1 DEF IInv, TypeOK, Insns

LEMMA LabelsComplete == CInv /\ CheckLabels => Complete'
<1> SUFFICES ASSUME CInv, CheckLabels PROVE Complete'
  OBVIOUS
<1>1. /\ phase = "labels" /\ reports = << >> /\ i = 0 /\ pending = {}
      /\ UNCHANGED <<prog, exits, i, pending, heads, checked>>
  BY DEF CInv, IInv, CheckLabels
<1>2. CASE Duplicated = {}
  <2>1. phase' = "instructions" /\ reports' = << >>
    BY <1>1, <1>2 DEF CheckLabels
  <2> QED
    BY <1>1, <2>1 DEF Complete
<1>3. CASE Duplicated # {}
  <2> DEFINE error == Error("duplicated_label", 0, FirstDuplicate)
  <2>1. Report(error, <<error>>, "instructions")
    BY <1>3 DEF CheckLabels
  <2>2. error.insn = 0
    BY DEF Error
  <2>3. phase' # "done"
    BY <2>1 DEF Report
  <2> HIDE DEF error
  <2>4. DOMAIN reports' = 1 .. 1 /\ reports'[1].error = error
    BY <1>1, <2>1, Joined DEF CInv, IInv
  <2>5. DOMAIN reports' = {1}
    BY <2>4
  <2> QED
    BY <1>1, <2>2, <2>3, <2>4, <2>5 DEF Complete, ErrorAt
<1> QED
  BY <1>2, <1>3

LEMMA InvalidOpcodeComplete == CInv /\ InvalidOpcode => Complete'
<1> SUFFICES ASSUME CInv, InvalidOpcode PROVE Complete'
  OBVIOUS
<1> DEFINE error == Error("invalid_opcode", i + 1, 0)
           last == Len(reports) + 1
<1>1. /\ phase = "instructions" /\ pending = {} /\ i < Len(Insns) /\ i \in Nat
      /\ Insns[i + 1].opcode = "<invalid>"
      /\ i' = i + 1 /\ pending' = {} /\ prog' = prog
      /\ Report(error, <<error>>, "done")
  BY DEF CInv, IInv, TypeOK, InvalidOpcode, Insns
<1>2. error.insn = i + 1 /\ phase' \in {"done", "exited"}
  BY <1>1 DEF Error, Report
<1> HIDE DEF error
<1>3. /\ Len(reports) \in Nat /\ DOMAIN reports = 1 .. Len(reports)
      /\ DOMAIN reports' = 1 .. last
      /\ \A k \in DOMAIN reports : reports'[k].error = ErrorAt(k)
      /\ reports'[last].error = error
  BY <1>1, Joined DEF CInv, IInv
<1>4. SUFFICES ASSUME phase' = "done" PROVE Complete'
  BY <1>2 DEF Complete
<1>5. Complete /\ Defective(i + 1)
  BY <1>1 DEF CInv, Defective
<1>6. /\ Insns' = Insns /\ \A n : Defective(n)' = Defective(n)
  BY <1>1, SameProgram
<1>7. ASSUME NEW k \in DOMAIN reports'
      PROVE  /\ ErrorAt(k)'.insn \in 0 .. i'
             /\ ErrorAt(k)'.insn > 0 => Defective(ErrorAt(k)'.insn)
             /\ k + 1 \in DOMAIN reports' => Before(ErrorAt(k)', ErrorAt(k + 1)')
  <2>1. CASE k = last
    BY <1>1, <1>2, <1>3, <1>5, <2>1 DEF ErrorAt
  <2>2. CASE k # last
    <3>1. k \in DOMAIN reports /\ ErrorAt(k)' = ErrorAt(k)
      BY <1>3, <1>7, <2>2 DEF ErrorAt
    <3>2. ErrorAt(k).insn \in 0 .. i /\ (ErrorAt(k).insn > 0 => Defective(ErrorAt(k).insn))
      BY <1>1, <1>5, <3>1 DEF Complete
    <3>3. CASE k + 1 = last
      BY <1>1, <1>2, <1>3, <3>1, <3>2, <3>3 DEF ErrorAt, Before
    <3>4. CASE k + 1 # last
      <4>1. k + 1 \in DOMAIN reports /\ ErrorAt(k + 1)' = ErrorAt(k + 1)
        BY <1>3, <3>1, <3>4 DEF ErrorAt
      <4> QED
        BY <1>1, <1>5, <3>1, <3>2, <4>1 DEF Complete
    <3> QED
      BY <3>3, <3>4
  <2> QED
    BY <2>1, <2>2
<1>8. ASSUME NEW n \in 1 .. i', Defective(n)
      PROVE  \E k \in DOMAIN reports' : ErrorAt(k)'.insn = n
  <2>1. CASE n = i + 1
    BY <1>2, <1>3, <2>1 DEF ErrorAt
  <2>2. CASE n # i + 1
    <3>1. n \in 1 .. i
      BY <1>1, <2>2
    <3>2. PICK k \in DOMAIN reports : ErrorAt(k).insn = n
      BY <1>1, <1>5, <1>8, <3>1 DEF Complete
    <3>3. k \in DOMAIN reports' /\ ErrorAt(k)' = ErrorAt(k)
      BY <1>3 DEF ErrorAt
    <3> QED
      BY <3>2, <3>3
  <2> QED
    BY <2>1, <2>2
<1>9. \A n \in 1 .. i' : Insns[n].opcode = "<invalid>" => n = i'
  BY <1>1, <1>5 DEF Complete
<1> QED
  BY <1>1, <1>4, <1>6, <1>7, <1>8, <1>9 DEF Complete

LEMMA OperandsComplete == CInv /\ CheckOperands => Complete'
<1> SUFFICES ASSUME CInv, CheckOperands PROVE Complete'
  OBVIOUS
<1>1. /\ phase = "instructions" /\ pending = {} /\ i < Len(Insns) /\ i \in Nat
      /\ Insns[i + 1].opcode # "<invalid>"
      /\ pending' = Found(i + 1) /\ i' = i + 1
      /\ UNCHANGED <<prog, exits, phase, heads, reports, checked>>
  BY DEF CInv, IInv, TypeOK, CheckOperands, Found, Insns
<1>2. Insns \in Seq(Instruction) /\ i + 1 \in DOMAIN Insns
  BY <1>1, InsnsTyped DEF CInv
<1>3. /\ Insns' = Insns
      /\ \A n : Defective(n)' = Defective(n) /\ Found(n)' = Found(n)
  BY <1>1, SameProgram
<1>4. \A e \in pending' : e.insn = i + 1
  BY <1>1, <1>2, FoundTyped
<1>5. pending' = {} => ~Defective(i + 1)
  BY <1>1 DEF Found, Defective
<1>6. Complete
  BY DEF CInv
<1>7. ASSUME NEW k \in DOMAIN reports
      PROVE  /\ ErrorAt(k)' = ErrorAt(k) /\ ErrorAt(k).insn \in 0 .. i + 1
             /\ \A e \in pending' : Before(ErrorAt(k), e)
  <2>1. ErrorAt(k).insn \in 0 .. i
    BY <1>1, <1>6 DEF Complete
  <2> QED
    BY <1>1, <1>4, <2>1 DEF ErrorAt, Before
<1>8. ASSUME NEW n \in 1 .. i', Defective(n), n < i' \/ pending' = {}
      PROVE  \E k \in DOMAIN reports : ErrorAt(k).insn = n
  <2>1. n \in 1 .. i
    BY <1>1, <1>5, <1>8
  <2> QED
    BY <1>1, <1>6, <1>8, <2>1 DEF Complete
<1>9. \A n \in 1 .. i' : Insns[n].opcode # "<invalid>"
  BY <1>1, <1>6 DEF Complete
<1>10. ASSUME NEW k \in DOMAIN reports
       PROVE  /\ ErrorAt(k).insn > 0 => Defective(ErrorAt(k).insn)
              /\ k + 1 \in DOMAIN reports => Before(ErrorAt(k), ErrorAt(k + 1))
  BY <1>1, <1>6 DEF Complete
<1> QED
  BY <1>1, <1>3, <1>7, <1>8, <1>9, <1>10 DEF Complete, ErrorAt

\* The leftmost of the pending errors, and the others behind it.
LEMMA FirstPending ==
  ASSUME CInv, phase = "instructions", pending # {}
  PROVE  /\ i \in 1 .. Len(Insns) /\ Defective(i)
         /\ First(pending) \in pending /\ First(pending).insn = i
         /\ \A e \in pending \ {First(pending)} : Before(First(pending), e)
<1>1. /\ Insns \in Seq(Instruction) /\ i \in DOMAIN Insns /\ i \in 1 .. Len(Insns)
      /\ pending \subseteq Found(i)
  BY InsnsTyped DEF CInv, Complete
<1>2. /\ \A e \in pending : e.insn = i /\ e.operand \in Nat
      /\ \A e, f \in pending : e.operand = f.operand => e = f
  BY <1>1, FoundTyped
<1> DEFINE places == {e.operand : e \in pending}
<1>3. \E l \in places : \A m \in places : l <= m
  <2>1. places \in SUBSET Nat /\ places # {}
    BY <1>2
  <2> HIDE DEF places
  <2> QED
    BY <2>1, Least
<1>4. \E e \in pending : \A f \in pending : e.operand <= f.operand
  BY <1>3
<1>5. First(pending) \in pending /\ \A f \in pending : First(pending).operand <= f.operand
  BY <1>4 DEF First
<1>6. Defective(i)
  BY <1>1, <1>5 DEF Found, Defective
<1>7. ASSUME NEW e \in pending \ {First(pending)} PROVE Before(First(pending), e)
  <2>1. /\ First(pending).operand <= e.operand /\ First(pending).operand # e.operand
        /\ First(pending).operand \in Nat /\ e.operand \in Nat
        /\ First(pending).insn = e.insn
    BY <1>2, <1>5
  <2> QED
    BY <2>1 DEF Before
<1> QED
  BY <1>1, <1>2, <1>5, <1>6, <1>7

LEMMA ReportComplete ==
  ASSUME CInv, phase = "instructions", pending # {},
         NEW text, Report(First(pending), text, "instructions"),
         pending' = pending \ {First(pending)},
         UNCHANGED <<prog, exits, i, checked>>
  PROVE  Complete'
<1> DEFINE error == First(pending)
           last == Len(reports) + 1
<1>1. /\ i \in 1 .. Len(Insns) /\ Defective(i)
      /\ error \in pending /\ error.insn = i
      /\ \A e \in pending' : Before(error, e)
  BY FirstPending
<1> HIDE DEF error
<1>2. /\ Len(reports) \in Nat /\ DOMAIN reports = 1 .. Len(reports)
      /\ DOMAIN reports' = 1 .. last
      /\ \A k \in DOMAIN reports : reports'[k].error = ErrorAt(k)
      /\ reports'[last].error = error
  BY Joined DEF CInv, IInv, error
<1>3. phase' \in {"instructions", "exited"}
  BY DEF Report
<1>4. SUFFICES ASSUME phase' = "instructions" PROVE Complete'
  BY <1>3 DEF Complete
<1>5. Complete /\ i \in Nat /\ prog' = prog /\ i' = i
  BY <1>1 DEF CInv
<1>6. /\ Insns' = Insns
      /\ \A n : Defective(n)' = Defective(n) /\ Found(n)' = Found(n)
  BY SameProgram
<1>7. ASSUME NEW k \in DOMAIN reports'
      PROVE  /\ ErrorAt(k)'.insn \in 0 .. i
             /\ ErrorAt(k)'.insn > 0 => Defective(ErrorAt(k)'.insn)
             /\ \A e \in pending' : Before(ErrorAt(k)', e)
             /\ k + 1 \in DOMAIN reports' => Before(ErrorAt(k)', ErrorAt(k + 1)')
  <2>1. CASE k = last
    BY <1>1, <1>2, <1>5, <2>1 DEF ErrorAt
  <2>2. CASE k # last
    <3>1. k \in DOMAIN reports /\ ErrorAt(k)' = ErrorAt(k)
      BY <1>2, <1>7, <2>2 DEF ErrorAt
    <3>2. /\ ErrorAt(k).insn \in 0 .. i /\ (ErrorAt(k).insn > 0 => Defective(ErrorAt(k).insn))
          /\ \A e \in pending : Before(ErrorAt(k), e)
          /\ k + 1 \in DOMAIN reports => Before(ErrorAt(k), ErrorAt(k + 1))
      BY <1>5, <3>1 DEF Complete
    <3>3. k + 1 \in DOMAIN reports' => Before(ErrorAt(k)', ErrorAt(k + 1)')
      <4>1. CASE k + 1 = last
        BY <1>1, <1>2, <3>1, <3>2, <4>1 DEF ErrorAt
      <4>2. CASE k + 1 \in DOMAIN reports
        BY <1>2, <3>1, <3>2, <4>2 DEF ErrorAt
      <4> QED
        BY <1>2, <3>1, <4>1, <4>2
    <3> QED
      BY <3>1, <3>2, <3>3
  <2> QED
    BY <2>1, <2>2
<1>8. ASSUME NEW n \in 1 .. i, Defective(n), n < i \/ pending' = {}
      PROVE  \E k \in DOMAIN reports' : ErrorAt(k)'.insn = n
  <2>1. CASE n = i
    BY <1>1, <1>2, <2>1 DEF ErrorAt
  <2>2. CASE n # i
    <3>1. PICK k \in DOMAIN reports : ErrorAt(k).insn = n
      BY <1>5, <1>8, <2>2 DEF Complete
    <3>2. k \in DOMAIN reports' /\ ErrorAt(k)' = ErrorAt(k)
      BY <1>2 DEF ErrorAt
    <3> QED
      BY <3>1, <3>2
  <2> QED
    BY <2>1, <2>2
<1>9. pending \subseteq Found(i) /\ \A n \in 1 .. i : Insns[n].opcode # "<invalid>"
  BY <1>5 DEF Complete
<1> QED
  BY <1>1, <1>4, <1>5, <1>6, <1>7, <1>8, <1>9 DEF Complete

LEMMA NextCInv == CInv /\ [Next]_vars => CInv'
<1> SUFFICES ASSUME CInv, [Next]_vars PROVE Complete'
  BY NextIInv DEF CInv
<1>1. CASE CheckLabels
  BY <1>1, LabelsComplete
<1>2. CASE InvalidOpcode
  BY <1>2, InvalidOpcodeComplete
<1>3. CASE CheckOperands
  BY <1>3, OperandsComplete
<1>4. CASE ReportOperand
  <2>1. Report(First(pending), <<First(pending)>>, "instructions")
    BY <1>4 DEF ReportOperand
  <2> QED
    BY <1>4, <2>1, ReportComplete DEF ReportOperand
<1>5. CASE RequireOperandTypes
  <2>1. Report(First(pending), heads', "instructions")
    BY <1>5 DEF RequireOperandTypes
  <2> QED
    BY <1>5, <2>1, ReportComplete DEF RequireOperandTypes
<1>6. CASE MsgBufOverflow
  BY <1>6 DEF MsgBufOverflow, Complete
<1>7. CASE Finish
  <2>1. /\ phase = "instructions" /\ pending = {} /\ i = Len(Insns) /\ phase' = "done"
        /\ UNCHANGED <<prog, exits, i, pending, heads, reports, checked>>
    BY <1>7 DEF Finish, Insns
  <2>2. Complete
    BY DEF CInv
  <2> QED
    BY <2>1, <2>2, SameProgram DEF Complete, ErrorAt
<1>8. CASE CheckAnother
  BY <1>8 DEF CheckAnother, Complete
<1>9. CASE Stopped \/ UNCHANGED vars
  <2>1. UNCHANGED vars
    BY <1>9 DEF Stopped
  <2> QED
    BY <2>1, SameProgram DEF vars, CInv, Complete, ErrorAt
<1> QED
  BY <1>1, <1>2, <1>3, <1>4, <1>5, <1>6, <1>7, <1>8, <1>9 DEF Next

LEMMA CompleteReports == CInv => EveryDefectReported
<1> SUFFICES ASSUME CInv, phase = "done" PROVE EveryDefectReported
  BY DEF EveryDefectReported
<1> DEFINE errors == [k \in DOMAIN reports |-> reports[k].error]
           seen == {n \in DOMAIN Insns : \A m \in 1 .. n - 1 : Insns[m].opcode # "<invalid>"}
<1>1. /\ DOMAIN Insns = 1 .. Len(Insns) /\ Len(Insns) \in Nat /\ i \in 0 .. Len(Insns)
      /\ pending = {}
  BY InsnsTyped DEF CInv, IInv
<1>2. Complete
  BY DEF CInv
<1>3. seen = 1 .. i
  <2>1. ASSUME NEW n \in seen PROVE n \in 1 .. i
    <3>1. n \in 1 .. Len(Insns) /\ \A m \in 1 .. n - 1 : Insns[m].opcode # "<invalid>"
      BY <1>1
    <3>2. i = Len(Insns) \/ (i > 0 /\ Insns[i].opcode = "<invalid>")
      BY <1>2 DEF Complete
    <3>3. i # Len(Insns) => i > 0 /\ ~(i \in 1 .. n - 1)
      BY <3>1, <3>2
    <3>4. n \in Nat /\ n > 0 /\ n <= Len(Insns) /\ i \in Nat /\ Len(Insns) \in Nat
      BY <1>1, <3>1
    <3> QED
      BY <3>3, <3>4
  <2>2. ASSUME NEW n \in 1 .. i PROVE n \in seen
    <3>1. \A m \in 1 .. i : Insns[m].opcode = "<invalid>" => m = i
      BY <1>2 DEF Complete
    <3>2. ASSUME NEW m \in 1 .. n - 1 PROVE Insns[m].opcode # "<invalid>"
      <4>1. m \in 1 .. i /\ m # i
        BY <1>1
      <4> QED
        BY <3>1, <4>1
    <3>3. n \in DOMAIN Insns
      BY <1>1
    <3> QED
      BY <3>2, <3>3
  <2> QED
    BY <2>1, <2>2
<1>4. /\ DOMAIN errors = DOMAIN reports /\ \A k \in DOMAIN reports : errors[k] = ErrorAt(k)
  BY DEF ErrorAt
<1>5. Len(reports) \in Nat /\ DOMAIN reports = 1 .. Len(reports) /\ Len(errors) = Len(reports)
  <2>1. PICK S : reports \in Seq(S)
    BY DEF CInv, IInv, IsSequence
  <2> QED
    BY <2>1
<1> HIDE DEF errors, seen
<1>6. {n \in seen : Defective(n)} = {errors[k].insn : k \in DOMAIN errors} \ {0}
  <2>1. ASSUME NEW n \in seen, Defective(n)
        PROVE  n # 0 /\ \E k \in DOMAIN errors : errors[k].insn = n
    <3>1. n \in 1 .. i
      BY <1>3, SMTT(30)
    <3>2. PICK k \in DOMAIN reports : ErrorAt(k).insn = n
      BY <1>1, <1>2, <2>1, <3>1 DEF Complete
    <3> QED
      BY <1>1, <1>4, <3>1, <3>2
  <2>2. ASSUME NEW k \in DOMAIN errors, errors[k].insn # 0
        PROVE  errors[k].insn \in seen /\ Defective(errors[k].insn)
    <3>1. k \in DOMAIN reports /\ errors[k] = ErrorAt(k)
      BY <1>4
    <3>2. ErrorAt(k).insn \in 0 .. i /\ (ErrorAt(k).insn > 0 => Defective(ErrorAt(k).insn))
      BY <1>2, <3>1 DEF Complete
    <3> QED
      BY <1>1, <1>3, <2>2, <3>1, <3>2
  <2> QED
    BY <2>1, <2>2
<1>7. ASSUME NEW k \in 1 .. Len(errors) - 1
      PROVE  \/ errors[k].insn < errors[k + 1].insn
             \/ errors[k].insn = errors[k + 1].insn /\ errors[k].operand < errors[k + 1].operand
  <2>1. k \in DOMAIN reports /\ k + 1 \in DOMAIN reports
    BY <1>5
  <2> QED
    BY <1>2, <1>4, <2>1 DEF Complete, Before
<1> QED
  BY <1>6, <1>7 DEF EveryDefectReported, errors, seen

\* With a handler that returns, a finished check has told of every defective
\* instruction up to the first invalid opcode, each in its turn and each operand
\* at fault once: for every program, whatever was checked before it.
THEOREM DefectsReported == Spec => []EveryDefectReported
BY InitCInv, NextCInv, CompleteReports, PTL DEF Spec
-----------------------------------------------------------------------------
(* No stop without a defect *)

\* What program_check does not come back from, an error with a handler that exits
\* or a message beyond its buffer, is about a program that has a defect.
StoppedForADefect ==
  phase \in {"exited", "undefined"} =>
    Duplicated # {} \/ \E n \in DOMAIN Insns : Defective(n)

LEMMA InitStopped == Init => StoppedForADefect
BY DEF Init, StoppedForADefect

LEMMA NextStopped == CInv /\ StoppedForADefect /\ [Next]_vars => StoppedForADefect'
<1> SUFFICES ASSUME CInv, StoppedForADefect, [Next]_vars PROVE StoppedForADefect'
  OBVIOUS
<1> SUFFICES ASSUME phase' \in {"exited", "undefined"}
             PROVE  Duplicated' # {} \/ \E n \in DOMAIN Insns' : Defective(n)'
  BY DEF StoppedForADefect
<1>1. prog' = prog => /\ Insns' = Insns /\ Duplicated' = Duplicated
                      /\ \A n : Defective(n)' = Defective(n)
  BY SameProgram DEF Duplicated
<1>2. CASE CheckLabels
  BY <1>1, <1>2 DEF CheckLabels
<1>3. CASE InvalidOpcode
  <2>1. i + 1 \in DOMAIN Insns /\ Insns[i + 1].opcode = "<invalid>"
    BY <1>3, InsnsTyped DEF InvalidOpcode, CInv, Insns
  <2> QED
    BY <1>1, <1>3, <2>1 DEF InvalidOpcode, Defective
<1>4. CASE ReportOperand \/ RequireOperandTypes \/ MsgBufOverflow
  <2>1. phase = "instructions" /\ pending # {} /\ prog' = prog
    BY <1>4 DEF ReportOperand, RequireOperandTypes, MsgBufOverflow
  <2>2. i \in DOMAIN Insns /\ Defective(i)
    BY <2>1, FirstPending, InsnsTyped DEF CInv
  <2> QED
    BY <1>1, <2>1, <2>2
<1>5. CASE CheckOperands \/ Finish \/ CheckAnother
  BY <1>5 DEF CheckOperands, Finish, CheckAnother, CInv, IInv, TypeOK
<1>6. CASE Stopped \/ UNCHANGED vars
  BY <1>1, <1>6 DEF Stopped, vars, StoppedForADefect
<1> QED
  BY <1>2, <1>3, <1>4, <1>5, <1>6 DEF Next

\* A program without a defect is never stopped by the check.
THEOREM StopsForADefect == Spec => []StoppedForADefect
BY InitCInv, NextCInv, InitStopped, NextStopped, PTL DEF Spec
=============================================================================
