---------------------------- MODULE ProgramCheck ----------------------------
(***************************************************************************)
(* program_check: first the labels, then the instructions in order.  What  *)
(* an error does is up to the handler: the default one prints the message  *)
(* and exits the process, the one of the tests returns, and the check goes *)
(* on.  A process may check several programs one after the other.          *)
(*                                                                         *)
(* require_operand_types builds its message in a static buffer with a      *)
(* static pointer that is never set back: what it wrote for earlier errors *)
(* stays in front, except their tails (" as its ... operand ..."), which   *)
(* do not move the pointer.  heads is what the pointer has moved past.     *)
(***************************************************************************)
EXTENDS Program, SequencesExt

CONSTANTS
  Programs,      \* records of instructions and label names, as program_build leaves them
  MSG_BUF_LEN,   \* 300
  HEAD_SIZE,     \* "opcode 'o' requires a 't' or 't'": its length, the same for all
  TAIL_SIZE,     \* " as its nth operand, but got a 't'"
  MAX_CHECKED    \* bound: the instructions of all programs checked in one process

ASSUME CheckAssumption ==
  Programs \subseteq [instructions : Seq(Instruction), labels : Seq(Strings)]

VARIABLES
  prog,
  exits,     \* the error handler does not return
  phase,     \* "labels", "instructions", "done", "exited" or "undefined"
  i,         \* the instructions looked at so far
  pending,   \* errors of the latest one that are still to be reported
  heads,     \* msg_buf of require_operand_types, up to msg_buf_ptr
  reports,   \* what the handler was given: the error, and the text of its message
  checked    \* the instructions of the programs given to the check so far

vars == <<prog, exits, phase, i, pending, heads, reports, checked>>

Init ==
  /\ prog \in Programs
  /\ exits \in BOOLEAN
  /\ phase = "labels"
  /\ i = 0
  /\ pending = {}
  /\ heads = << >>
  /\ reports = << >>
  /\ checked = Len(prog.instructions)

\* Mutant of Error: the instruction before.
ErrorBefore(kind, insn, operand) == [kind |-> kind, insn |-> insn - 1, operand |-> operand]

Error(kind, insn, operand) == [kind |-> kind, insn |-> insn, operand |-> operand]

\* Mutant of Report: the check goes on whatever the handler does.
ReportAndGoOn(error, text, next) ==
  /\ reports' = Append(reports, [error |-> error, text |-> text])
  /\ phase' = next

\* program_report_error: phase becomes next if the handler returns.
Report(error, text, next) ==
  /\ reports' = Append(reports, [error |-> error, text |-> text])
  /\ phase' = IF exits THEN "exited" ELSE next

\* check_for_duplicated_labels stops at the first label it finds again.
Duplicated == {b \in DOMAIN prog.labels : \E a \in 1 .. b - 1 : prog.labels[a] = prog.labels[b]}

FirstDuplicate ==
  CHOOSE b \in Duplicated :
    LET First(c) == CHOOSE a \in 1 .. c : prog.labels[a] = prog.labels[c] /\ \A d \in 1 .. a - 1 : prog.labels[d] # prog.labels[c]
    IN  \A c \in Duplicated : First(b) < First(c) \/ (First(b) = First(c) /\ b <= c)

CheckLabels ==
  /\ phase = "labels"
  /\ IF Duplicated = {}
     THEN phase' = "instructions" /\ UNCHANGED reports
     ELSE LET error == Error("duplicated_label", 0, FirstDuplicate)
          IN  Report(error, <<error>>, "instructions")
  /\ UNCHANGED <<prog, exits, i, pending, heads, checked>>

InvalidOpcode ==
  /\ phase = "instructions" /\ pending = {} /\ i < Len(prog.instructions)
  /\ prog.instructions[i + 1].opcode = "<invalid>"
  /\ LET error == Error("invalid_opcode", i + 1, 0)
     IN  Report(error, <<error>>, "done")
  /\ i' = i + 1
  /\ UNCHANGED <<prog, exits, pending, heads, checked>>

\* check_operands finds the errors of the next instruction ...
CheckOperands ==
  /\ phase = "instructions" /\ pending = {} /\ i < Len(prog.instructions)
  /\ prog.instructions[i + 1].opcode # "<invalid>"
  /\ pending' = {Error(e.kind, i + 1, e.operand) : e \in OperandErrors(prog.instructions[i + 1])}
  /\ i' = i + 1
  /\ UNCHANGED <<prog, exits, phase, heads, reports, checked>>

\* Mutant of First: from the last operand to the first.
Rightmost(errors) == CHOOSE e \in errors : \A f \in errors : f.operand <= e.operand

First(errors) == CHOOSE e \in errors : \A f \in errors : e.operand <= f.operand

\* ... and reports them in the order of the operands.
InStaticBuffer(error) ==
  /\ error.kind = "operand_type"
  /\ prog.instructions[error.insn].opcode \in Arithmetic \cup {"cmp"}

ReportOperand ==
  /\ phase = "instructions"
  /\ pending # {}
  /\ ~InStaticBuffer(First(pending))
  /\ Report(First(pending), <<First(pending)>>, "instructions")
  /\ pending' = pending \ {First(pending)}
  /\ UNCHANGED <<prog, exits, i, heads, checked>>

\* require_operand_types
Fits == HEAD_SIZE * (Len(heads) + 1) + TAIL_SIZE < MSG_BUF_LEN

RequireOperandTypes ==
  /\ phase = "instructions"
  /\ pending # {}
  /\ InStaticBuffer(First(pending))
  /\ Fits
  /\ heads' = Append(heads, First(pending))
  /\ Report(First(pending), heads', "instructions")
  /\ pending' = pending \ {First(pending)}
  /\ UNCHANGED <<prog, exits, i, checked>>

\* snprintf is given the whole length at the moved pointer: it writes past the buffer.
MsgBufOverflow ==
  /\ phase = "instructions"
  /\ pending # {}
  /\ InStaticBuffer(First(pending))
  /\ ~Fits
  /\ phase' = "undefined"
  /\ UNCHANGED <<prog, exits, i, pending, heads, reports, checked>>

Finish ==
  /\ phase = "instructions" /\ pending = {} /\ i = Len(prog.instructions)
  /\ phase' = "done"
  /\ UNCHANGED <<prog, exits, i, pending, heads, reports, checked>>

\* The process goes on to check another program: msg_buf stays as it is.
CheckAnother ==
  /\ phase = "done"
  /\ prog' \in Programs
  /\ checked' = checked + Len(prog'.instructions)
  /\ checked' <= MAX_CHECKED
  /\ phase' = "labels"
  /\ i' = 0
  /\ reports' = << >>
  /\ UNCHANGED <<exits, pending, heads>>

Stopped ==
  /\ phase \in {"done", "exited", "undefined"}
  /\ UNCHANGED vars

Next ==
  \/ CheckLabels \/ InvalidOpcode \/ CheckOperands \/ ReportOperand
  \/ RequireOperandTypes \/ MsgBufOverflow \/ Finish \/ CheckAnother \/ Stopped

Spec == Init /\ [][Next]_vars
-----------------------------------------------------------------------------
TypeOK ==
  /\ prog \in [instructions : Seq(Instruction), labels : Seq(Strings)]
  /\ exits \in BOOLEAN
  /\ phase \in {"labels", "instructions", "done", "exited", "undefined"}
  /\ i \in 0 .. Len(prog.instructions)
  /\ checked \in Nat
  /\ \A e \in pending : e.insn = i

Insns == prog.instructions

\* A check that reports nothing leaves a program that program_run can execute
\* and whose labels are unambiguous, whatever programs were checked before it.
\* This is no claim about the targets of arithmetic, which nothing checks and
\* Runnable leaves free (TargetsChecked is the claim, and is violated).
SilentMeansRunnable ==
  phase = "done" /\ reports = << >> =>
    /\ Duplicated = {}
    /\ \A n \in DOMAIN Insns : Runnable(Insns[n])

Defective(n) == Insns[n].opcode = "<invalid>" \/ OperandErrors(Insns[n]) # {}

\* When the handler exits the process, the one message it printed is that of
\* the first defect: a duplicated label, or the earliest defective instruction
\* and the leftmost operand at fault; and a program with a defect never gets
\* past the check.
FirstDefectReported ==
  exits =>
    /\ phase = "done" => Duplicated = {} /\ \A n \in DOMAIN Insns : ~Defective(n)
    /\ phase = "exited" =>
         /\ Len(reports) = 1
         /\ LET e == reports[1].error
            IN  IF Duplicated # {} THEN e.kind = "duplicated_label"
                ELSE /\ Defective(e.insn) /\ \A n \in 1 .. e.insn - 1 : ~Defective(n)
                     /\ \/ Insns[e.insn].opcode = "<invalid>"
                        \/ \A f \in OperandErrors(Insns[e.insn]) : e.operand <= f.operand

\* When the handler returns, a finished check has reported a defect of every
\* defective instruction up to the first invalid opcode, each once and in order.
EveryDefectReported ==
  phase = "done" =>
    LET errors == [k \in DOMAIN reports |-> reports[k].error]
        seen == {n \in DOMAIN Insns : \A m \in 1 .. n - 1 : Insns[m].opcode # "<invalid>"}
    IN  /\ {n \in seen : Defective(n)} = {errors[k].insn : k \in DOMAIN errors} \ {0}
        /\ \A k \in 1 .. Len(errors) - 1 :
             \/ errors[k].insn < errors[k + 1].insn
             \/ errors[k].insn = errors[k + 1].insn /\ errors[k].operand < errors[k + 1].operand

\* The message of an error is about that error alone.
OwnMessage == \A k \in DOMAIN reports : reports[k].text = <<reports[k].error>>

\* An arithmetic instruction that is accepted has a register or a memory
\* address to put its result in.
TargetsChecked ==
  phase = "done" /\ reports = << >> =>
    \A n \in DOMAIN Insns :
      Insns[n].opcode \in Arithmetic => Insns[n].operands[1].type \in {"REG", "MEM_ADDRESS"}
=============================================================================
