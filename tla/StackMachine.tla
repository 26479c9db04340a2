---------------------------- MODULE StackMachine ----------------------------
(***************************************************************************)
(* What program_run promises, without its arrays and its arithmetic:       *)
(* control follows the branches, calls and returns written in the program, *)
(* a return goes back to the instruction after the latest call that has    *)
(* not returned, a pop delivers the latest value pushed and not popped,    *)
(* both stacks are bounded, no other instruction touches them, and an      *)
(* instruction stops the run only in the ways listed in Failures.          *)
(* Every value computed is any word.                                       *)
(***************************************************************************)
EXTENDS Program, SequencesExt

CONSTANTS
  Programs,        \* the instruction sequences that may be run
  MAX_CALL_STACK,
  MAX_STACK

VARIABLES
  prog,       \* the instructions being run
  pc,         \* index of the next instruction, from 0
  registers,
  calls,      \* return addresses, the latest last
  data,       \* pushed values, the latest last
  status      \* "running", or how the run stopped

vars == <<prog, pc, registers, calls, data, status>>

Insn == prog[pc + 1]
Target == Insn.operands[1].arg
At(opcodes) == status = "running" /\ pc < Len(prog) /\ Insn.opcode \in opcodes

Failures(opcode) ==
  CASE opcode \in (Arithmetic \ {"div"}) \cup {"mfree", "msg"} -> {"undefined"}
    [] opcode = "div" -> {"undefined", "division_by_zero", "trap"}
    [] opcode = "end" -> {"ended"}
    [] OTHER -> {}

Init ==
  /\ prog \in Programs
  /\ pc = 0
  /\ registers = [r \in RegIndex |-> 0]
  /\ calls = << >>
  /\ data = << >>
  /\ status = "running"

Stop(how) == status' = how /\ UNCHANGED <<prog, pc, registers, calls, data>>

\* An instruction that only computes: at most one register changes.
Compute ==
  /\ At(ValidOpcode \ (BranchOpcode \cup NoOperand \cup {"push", "pop"}))
  /\ \E r \in RegIndex, v \in Word : registers' = [registers EXCEPT ![r] = v]
  /\ pc' = pc + 1
  /\ UNCHANGED <<prog, calls, data, status>>

Jump ==
  /\ At(Conditional \cup {"jmp"})
  /\ pc' \in {Target} \cup (IF Insn.opcode = "jmp" THEN {} ELSE {pc + 1})
  /\ UNCHANGED <<prog, registers, calls, data, status>>

Call ==
  /\ At({"call"})
  /\ Len(calls) < MAX_CALL_STACK
  /\ calls' = Append(calls, pc + 1)
  /\ pc' = Target
  /\ UNCHANGED <<prog, registers, data, status>>

Return ==
  /\ At({"ret"})
  /\ calls # << >>
  /\ pc' = Last(calls)
  /\ calls' = Front(calls)
  /\ UNCHANGED <<prog, registers, data, status>>

PushValue ==
  /\ At({"push"})
  /\ Len(data) < MAX_STACK
  /\ data' = Append(data, registers[Target])
  /\ pc' = pc + 1
  /\ UNCHANGED <<prog, registers, calls, status>>

PopValue ==
  /\ At({"pop"})
  /\ data # << >>
  /\ registers' = [registers EXCEPT ![Target] = Last(data)]
  /\ data' = Front(data)
  /\ pc' = pc + 1
  /\ UNCHANGED <<prog, calls, status>>

Fail ==
  \/ At(ValidOpcode) /\ \E how \in Failures(Insn.opcode) : Stop(how)
  \/ At({"call"}) /\ Len(calls) = MAX_CALL_STACK /\ Stop("callstack_overflow")
  \/ At({"ret"}) /\ calls = << >> /\ Stop("callstack_underflow")
  \/ At({"push"}) /\ Len(data) = MAX_STACK /\ Stop("stack_overflow")
  \/ At({"pop"}) /\ data = << >> /\ Stop("stack_underflow")

\* Control reached the end of the instructions.
RunOff == status = "running" /\ pc = Len(prog) /\ Stop("ended")

Next ==
  Compute \/ Jump \/ Call \/ Return \/ PushValue \/ PopValue \/ Fail \/ RunOff

Spec == Init /\ [][Next]_vars
=============================================================================
