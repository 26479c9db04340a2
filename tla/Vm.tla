--------------------------------- MODULE Vm ---------------------------------
(***************************************************************************)
(* program_run: the interpreter's loop over the instructions of a checked  *)
(* program.  One action per opcode; an opcode whose C code can leave the   *)
(* loop by "goto end" does so by setting status.  Behaviour C leaves       *)
(* undefined (an access outside every live malloc block, a message longer  *)
(* than its buffer, a bad free) ends in the status "undefined", from which *)
(* nothing is claimed.                                                     *)
(*                                                                         *)
(* A memory operand reaches the heap, modelled as the word last stored at  *)
(* each byte address.  A store makes the words it overlaps unknown, and an *)
(* unknown word reads as any word.                                         *)
(***************************************************************************)
EXTENDS Program, SequencesExt

CONSTANTS
  Programs,        \* the instruction sequences that may be run
  MAX_CALL_STACK,  \* 1000 in the code
  MAX_STACK,       \* 500
  MAX_MSG,         \* 1000 bytes, the terminating zero included
  UNHANDLED_SIZE,  \* 26: the length of "<unhandled operand type N>"
  WORD_BYTES,      \* 8
  HEAP_BYTES,      \* bound: the addresses malloc may use are 1 .. HEAP_BYTES
  TextSize,        \* the length of each string literal
  Unknown,         \* a word of memory that was not written as a word
  Unhandled,       \* the text "<unhandled operand type N>"
  NoText,          \* the empty text
  EscapedNewLine,  \* the string literal of a backslash and an n
  NewLine          \* the line feed that print writes for it

ASSUME VmAssumption ==
  /\ MAX_CALL_STACK \in Nat \ {0}
  /\ MAX_STACK \in Nat \ {0}
  /\ HEAP_BYTES \in Nat
  /\ WORD_BYTES \in Nat \ {0}

\* What a program has been through before it is run: program_build, which
\* resolves its branches, and program_check, which lets nothing pass that the
\* cases of program_run could not execute.
ASSUME ProgramsAssumption ==
  \A p \in Programs :
    p \in Seq(Instruction) /\ (\A k \in DOMAIN p : Runnable(p[k])) /\ BranchesInRange(p)

VARIABLES
  prog,            \* p->instructions
  pc,
  registers,
  cmp,
  call_stack,
  call_stack_top,
  stack,
  stack_top,
  msg,             \* the texts of the message, in order
  out,             \* the texts the latest print wrote
  heap,
  blocks,          \* the live malloc blocks: start -> size
  status           \* "running", or how the run ended

stacks == <<call_stack, call_stack_top, stack, stack_top>>
memory == <<heap, blocks>>
vars == <<prog, pc, registers, cmp, stacks, msg, out, memory, status>>

Addr == 1 .. HEAP_BYTES

Init ==
  /\ prog \in Programs
  /\ pc = 0
  /\ registers = [r \in RegIndex |-> 0]
  /\ cmp = 0
  /\ call_stack = [i \in 0 .. MAX_CALL_STACK - 1 |-> 0]
  /\ call_stack_top = 0
  /\ stack = [i \in 0 .. MAX_STACK - 1 |-> 0]
  /\ stack_top = 0
  /\ msg = << >>
  /\ out = << >>
  /\ heap = [x \in Addr |-> Unknown]
  /\ blocks = << >>
  /\ status = "running"

-----------------------------------------------------------------------------
(* Operands *)

In  == prog[pc + 1]
OP0 == In.operands[1]
OP1 == In.operands[2]
REG(op) == registers[op.arg]

Fetch(opcode) == status = "running" /\ pc < Len(prog) /\ In.opcode = opcode

\* Mutant of Address: the offset is forgotten.
AddressWithoutOffset(op) == REG(op)

Address(op) == ToWord(REG(op) + op.extra)
Bytes(x) == x .. x + WORD_BYTES - 1

Mapped(x) ==
  \E b \in DOMAIN blocks : Bytes(x) \subseteq b .. b + blocks[b] - 1

\* The operand can be dereferenced without undefined behaviour.
Readable(op) ==
  \/ op.type \in {"REG", "INT"}
  \/ op.type = "MEM_ADDRESS" /\ Mapped(Address(op))

\* The values that reading the operand can give.
REG_OR_INT_OR_MEM(op) ==
  CASE op.type = "REG" -> {REG(op)}
    [] op.type = "INT" -> {op.arg}
    [] op.type = "MEM_ADDRESS" ->
         IF heap[Address(op)] = Unknown THEN Word ELSE {heap[Address(op)]}

Store(op, v) ==
  \/ /\ op.type = "REG"
     /\ registers' = [registers EXCEPT ![op.arg] = v]
     /\ UNCHANGED memory
  \/ /\ op.type = "MEM_ADDRESS"
     /\ heap' = [x \in Addr |->
                   IF x = Address(op) THEN v
                   ELSE IF Bytes(x) \cap Bytes(Address(op)) # {} THEN Unknown
                   ELSE heap[x]]
     /\ UNCHANGED <<registers, blocks>>

\* Any other target type is an address made of uninitialised operand fields.
Writable(op) == op.type # "INT" /\ Readable(op)

Advance == pc' = pc + 1 /\ UNCHANGED <<prog, status>>

\* program_report_errorf and goto end, or undefined behaviour.
Stop(how) ==
  /\ status' = how
  /\ UNCHANGED <<prog, pc, registers, cmp, stacks, msg, out, memory>>

-----------------------------------------------------------------------------
(* Arithmetic *)

\* The target is given one of the values, as far as it holds them.
MEMORY_OR_REG_OP(values) ==
  /\ Writable(OP0)
  /\ \E v \in values : Store(OP0, ToWord(v))
  /\ Advance
  /\ UNCHANGED <<cmp, stacks, msg, out>>

\* What the target may hold before, and what the other operand may be.
Old == REG_OR_INT_OR_MEM(OP0)
Rhs == REG_OR_INT_OR_MEM(OP1)

FetchReadable(opcode) == Fetch(opcode) /\ Readable(OP1)

Mov == FetchReadable("mov") /\ MEMORY_OR_REG_OP(Rhs)
Add == FetchReadable("add") /\ MEMORY_OR_REG_OP({a + b : a \in Old, b \in Rhs})
Sub == FetchReadable("sub") /\ MEMORY_OR_REG_OP({a - b : a \in Old, b \in Rhs})
Mul == FetchReadable("mul") /\ MEMORY_OR_REG_OP({a * b : a \in Old, b \in Rhs})
Inc == Fetch("inc") /\ MEMORY_OR_REG_OP({a + 1 : a \in Old})
Dec == Fetch("dec") /\ MEMORY_OR_REG_OP({a - 1 : a \in Old})

\* The divisor is converted to int before it is compared with zero.
Divisors == {ToInt(v) : v \in Rhs}

DivByZero ==
  /\ FetchReadable("div")
  /\ 0 \in Divisors
  /\ Stop("division_by_zero")

\* The quotient of the least word by -1 is not a word: the division traps.
Div ==
  /\ FetchReadable("div") /\ Writable(OP0)
  /\ \E d \in Divisors \ {0}, old \in Old :
       \/ old = MinWord /\ d = -1 /\ Stop("trap")
       \/ /\ ~(old = MinWord /\ d = -1)
          /\ Store(OP0, TruncDiv(old, d))
          /\ Advance
          /\ UNCHANGED <<cmp, stacks, msg, out>>

\* An arithmetic instruction dereferences an address it may not use.
WildAccess ==
  /\ \E opcode \in Arithmetic : Fetch(opcode)
  /\ IF Readable(OP1)
     THEN ~Writable(OP0) /\ (In.opcode = "div" => Divisors # {0})
     ELSE TRUE
  /\ Stop("undefined")

\* Mutant of Cmp: the comparison result is an int.
CmpInt ==
  /\ Fetch("cmp")
  /\ \E a \in Old, b \in Rhs : cmp' = ToInt(a - b)
  /\ Advance
  /\ UNCHANGED <<registers, stacks, msg, out, memory>>

Cmp ==
  /\ Fetch("cmp")
  /\ \E a \in Old, b \in Rhs : cmp' = ToWord(a - b)
  /\ Advance
  /\ UNCHANGED <<registers, stacks, msg, out, memory>>

-----------------------------------------------------------------------------
(* Branches, calls and the two stacks *)

\* Mutant of BRANCH_IF: without its continue, pc is incremented after the branch.
BRANCH_IF_ThenBreak(cond) ==
  /\ pc' = (IF cond THEN OP0.arg ELSE pc) + 1
  /\ UNCHANGED <<prog, registers, cmp, stacks, msg, out, memory, status>>

BRANCH_IF(cond) ==
  /\ pc' = IF cond THEN OP0.arg ELSE pc + 1
  /\ UNCHANGED <<prog, registers, cmp, stacks, msg, out, memory, status>>

\* Mutants of Jne, Jge and Jle: the wrong comparison with zero.
JneGreater == Fetch("jne") /\ BRANCH_IF(cmp > 0)
JgeStrict  == Fetch("jge") /\ BRANCH_IF(cmp > 0)
JleStrict  == Fetch("jle") /\ BRANCH_IF(cmp < 0)

Jmp == Fetch("jmp") /\ BRANCH_IF(TRUE)
Jne == Fetch("jne") /\ BRANCH_IF(cmp # 0)
Je  == Fetch("je")  /\ BRANCH_IF(cmp = 0)
Jge == Fetch("jge") /\ BRANCH_IF(cmp >= 0)
Jg  == Fetch("jg")  /\ BRANCH_IF(cmp > 0)
Jle == Fetch("jle") /\ BRANCH_IF(cmp <= 0)
Jl  == Fetch("jl")  /\ BRANCH_IF(cmp < 0)

CallOverflow ==
  Fetch("call") /\ call_stack_top >= MAX_CALL_STACK /\ Stop("callstack_overflow")

\* Mutant of Call: the address of the call itself is pushed.
CallItself ==
  /\ Fetch("call")
  /\ call_stack_top < MAX_CALL_STACK
  /\ call_stack' = [call_stack EXCEPT ![call_stack_top] = pc]
  /\ call_stack_top' = call_stack_top + 1
  /\ pc' = OP0.arg
  /\ UNCHANGED <<prog, registers, cmp, stack, stack_top, msg, out, memory, status>>

Call ==
  /\ Fetch("call")
  /\ call_stack_top < MAX_CALL_STACK
  /\ call_stack' = [call_stack EXCEPT ![call_stack_top] = pc + 1]
  /\ call_stack_top' = call_stack_top + 1
  /\ pc' = OP0.arg
  /\ UNCHANGED <<prog, registers, cmp, stack, stack_top, msg, out, memory, status>>

RetUnderflow ==
  Fetch("ret") /\ call_stack_top <= 0 /\ Stop("callstack_underflow")

Ret ==
  /\ Fetch("ret")
  /\ call_stack_top > 0
  /\ call_stack_top' = call_stack_top - 1
  /\ pc' = call_stack[call_stack_top - 1]
  /\ UNCHANGED <<prog, registers, cmp, call_stack, stack, stack_top, msg, out, memory, status>>

PushOverflow == Fetch("push") /\ stack_top >= MAX_STACK /\ Stop("stack_overflow")

\* Mutant of Push: one value too many is accepted.
PushLate ==
  /\ Fetch("push")
  /\ stack_top <= MAX_STACK
  /\ stack' = [stack EXCEPT ![stack_top] = REG(OP0)]
  /\ stack_top' = stack_top + 1
  /\ Advance
  /\ UNCHANGED <<registers, cmp, call_stack, call_stack_top, msg, out, memory>>

Push ==
  /\ Fetch("push")
  /\ stack_top < MAX_STACK
  /\ stack' = [stack EXCEPT ![stack_top] = REG(OP0)]
  /\ stack_top' = stack_top + 1
  /\ Advance
  /\ UNCHANGED <<registers, cmp, call_stack, call_stack_top, msg, out, memory>>

PopUnderflow == Fetch("pop") /\ stack_top <= 0 /\ Stop("stack_underflow")

Pop ==
  /\ Fetch("pop")
  /\ stack_top > 0
  /\ stack_top' = stack_top - 1
  /\ registers' = [registers EXCEPT ![OP0.arg] = stack[stack_top - 1]]
  /\ Advance
  /\ UNCHANGED <<cmp, call_stack, call_stack_top, stack, msg, out, memory>>

-----------------------------------------------------------------------------
(* Messages and output *)

Text(op) ==
  CASE op.type \in {"STR", "INT"} -> op.arg
    [] op.type = "REG" -> REG(op)
    [] OTHER -> Unhandled

\* The number of characters of a word in decimal.
Digits(n) ==
  (IF n < 0 THEN 1 ELSE 0)
    + CHOOSE k \in 1 .. 20 : Abs(n) < 10^k /\ (k = 1 \/ 10^(k - 1) <= Abs(n))

Size(op) ==
  CASE op.type = "STR" -> TextSize[op.arg]
    [] op.type \in {"INT", "REG"} -> Digits(Text(op))
    [] OTHER -> UNHANDLED_SIZE

\* Where msg_ptr is after the first k operands: an unhandled operand is
\* written, and msg_ptr stays.
Offset(k) ==
  FoldLeftDomain(LAMBDA sum, j :
      IF j <= k /\ Text(In.operands[j]) # Unhandled
      THEN sum + Size(In.operands[j]) ELSE sum, 0, In.operands)

MsgFits ==
  \A k \in DOMAIN In.operands : Offset(k - 1) + Size(In.operands[k]) < MAX_MSG

\* The text of an unhandled operand is overwritten by that of the next one.
\* Without operands nothing is written, and the previous message stays.
Msg ==
  /\ Fetch("msg")
  /\ MsgFits
  /\ msg' = IF In.operands = << >> THEN msg
            ELSE [k \in DOMAIN In.operands |->
                    IF Text(In.operands[k]) = Unhandled /\ k < Len(In.operands)
                    THEN NoText ELSE Text(In.operands[k])]
  /\ Advance
  /\ UNCHANGED <<registers, cmp, stacks, out, memory>>

\* sprintf writes past the end of the message buffer.
MsgOverflow == Fetch("msg") /\ ~MsgFits /\ Stop("undefined")

PrintTexts ==
  /\ Fetch("print")
  /\ out' = [k \in DOMAIN In.operands |->
               IF Text(In.operands[k]) = EscapedNewLine THEN NewLine
               ELSE Text(In.operands[k])]
  /\ Advance
  /\ UNCHANGED <<registers, cmp, stacks, msg, memory>>

-----------------------------------------------------------------------------
(* Memory *)

\* A block of no bytes still has an address of its own.
Extent(size) == IF size = 0 THEN 1 ELSE size

Free(x, size) ==
  /\ x .. x + Extent(size) - 1 \subseteq Addr
  /\ \A b \in DOMAIN blocks :
       (x .. x + Extent(size) - 1) \cap (b .. b + Extent(blocks[b]) - 1) = {}

\* A negative size is a size_t no allocator can serve; any call may fail.
Malloc ==
  /\ Fetch("malloc")
  /\ LET size == REG(OP0) IN
       \/ /\ registers' = [registers EXCEPT ![OP1.arg] = 0]
          /\ UNCHANGED memory
       \/ /\ size >= 0
          /\ \E x \in Addr :
               /\ Free(x, size)
               /\ registers' = [registers EXCEPT ![OP1.arg] = ToWord(x)]
               /\ blocks' = [b \in DOMAIN blocks \cup {x} |->
                               IF b = x THEN size ELSE blocks[b]]
               /\ heap' = [y \in Addr |->
                             IF Bytes(y) \cap (x .. x + size - 1) # {} THEN Unknown ELSE heap[y]]
  /\ Advance
  /\ UNCHANGED <<cmp, stacks, msg, out>>

Mfree ==
  /\ Fetch("mfree")
  /\ REG(OP0) \in DOMAIN blocks \cup {0}
  /\ blocks' = [b \in DOMAIN blocks \ {REG(OP0)} |-> blocks[b]]
  /\ Advance
  /\ UNCHANGED <<registers, cmp, stacks, msg, out, heap>>

BadFree ==
  Fetch("mfree") /\ REG(OP0) \notin DOMAIN blocks \cup {0} /\ Stop("undefined")

-----------------------------------------------------------------------------
End == Fetch("end") /\ Stop("ended")

\* The loop condition pc < p->num_instructions is false.
RunOff == status = "running" /\ pc >= Len(prog) /\ Stop("ended")

\* program_run has returned, or nothing more is known of it.
Halted == status # "running" /\ UNCHANGED vars

Next ==
  \/ Mov \/ Add \/ Sub \/ Mul \/ Inc \/ Dec \/ DivByZero \/ Div \/ WildAccess \/ Cmp
  \/ Jmp \/ Jne \/ Je \/ Jge \/ Jg \/ Jle \/ Jl
  \/ CallOverflow \/ Call \/ RetUnderflow \/ Ret
  \/ PushOverflow \/ Push \/ PopUnderflow \/ Pop
  \/ Msg \/ MsgOverflow \/ PrintTexts \/ Malloc \/ Mfree \/ BadFree \/ End \/ RunOff
  \/ Halted

Spec == Init /\ [][Next]_vars

\* program_run is one thread with nothing to wait for: it keeps taking steps.
FairSpec == Spec /\ WF_vars(Next)
=============================================================================
