---------------------------- MODULE VmProperties ----------------------------
(***************************************************************************)
(* What must hold of program_run.                                          *)
(***************************************************************************)
EXTENDS Vm

\* The type of every variable.
TypeOK ==
  /\ prog \in Programs
  /\ pc \in Nat
  /\ registers \in [RegIndex -> Word]
  /\ cmp \in Word
  /\ call_stack \in [0 .. MAX_CALL_STACK - 1 -> Nat]
  /\ call_stack_top \in 0 .. MAX_CALL_STACK
  /\ stack \in [0 .. MAX_STACK - 1 -> Word]
  /\ stack_top \in 0 .. MAX_STACK
  /\ heap \in [Addr -> Word \cup {Unknown}]
  /\ DOMAIN blocks \subseteq Addr
  /\ \A b \in DOMAIN blocks : blocks[b] \in Nat /\ b .. b + blocks[b] - 1 \subseteq Addr

\* pc never passes the end of the program, and every return address the call
\* stack holds is the index just after a call instruction: a ret can only land
\* behind a call that was executed, never on the call itself or elsewhere.
ReturnAddresses ==
  /\ pc <= Len(prog)
  /\ \A i \in 0 .. call_stack_top - 1 :
       call_stack[i] \in 1 .. Len(prog) /\ prog[call_stack[i]].opcode = "call"

\* The live part of an array with a top index, as a sequence.
Live(array, top) == [i \in 1 .. top |-> array[i - 1]]

Abstract == INSTANCE StackMachine WITH
  calls <- Live(call_stack, call_stack_top),
  data  <- Live(stack, stack_top)

\* The interpreter's arrays and top indices implement a machine with two
\* bounded stacks: calls and pushes nest, neither stack disturbs the other, a
\* branch goes where the program says, an instruction changes at most one
\* register, and the run ends only as the abstract machine allows.
ImplementsStackMachine == Abstract!Spec

\* je and jne branch on the equality of the two values compared, also when
\* their difference overflows.
ComparisonEquality ==
  [][Fetch("cmp") => \A a \in Old, b \in Rhs : cmp' = 0 <=> a = b]_vars

\* All branches and calls of p lead to later instructions.
Forward(p) ==
  \A i \in DOMAIN p : p[i].opcode \in BranchOpcode => p[i].operands[1].arg >= i

\* Without a backward branch or call a run ends, although a ret goes back: it
\* goes to an instruction that is behind its call and was not reached from it.
ForwardProgramsHalt == Forward(prog) ~> status # "running"
=============================================================================
