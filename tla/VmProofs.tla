------------------------------ MODULE VmProofs ------------------------------
(***************************************************************************)
(* Proofs about program_run, for every checked program and every size of   *)
(* its registers, stacks, words and heap.                                  *)
(***************************************************************************)
EXTENDS MCVm, DataLemmas, SequenceTheorems

-----------------------------------------------------------------------------
(* Accepted instructions *)

\* An operand with a register program_run can index.
Usable(op) ==
  op \in Operand /\ (op.type \in {"REG", "MEM_ADDRESS"} => op.arg \in RegIndex)

\* What is known of the instruction at pc, by opcode.
LEMMA Fetched ==
  ASSUME TypeOK, NEW opcode, Fetch(opcode)
  PROVE  /\ In \in Instruction /\ In.opcode \in ValidOpcode
         /\ opcode \in Arithmetic =>
              Usable(OP0) /\ Usable(OP1) /\ OP1.type \in {"REG", "INT", "MEM_ADDRESS"}
         /\ opcode \in OneRegister => Usable(OP0) /\ OP0.type = "REG"
         /\ opcode \in BranchOpcode => OP0.arg \in 0 .. Len(prog) - 1
         /\ opcode = "cmp" => /\ Usable(OP0) /\ OP0.type \in {"REG", "INT"}
                              /\ Usable(OP1) /\ OP1.type \in {"REG", "INT"}
         /\ opcode = "malloc" => /\ Usable(OP0) /\ OP0.type = "REG"
                                 /\ Usable(OP1) /\ OP1.type = "REG"
<1>1. /\ prog \in Seq(Instruction) /\ pc + 1 \in DOMAIN prog
      /\ Runnable(In) /\ BranchesInRange(prog)
  BY ProgramsAssumption DEF TypeOK, Fetch, In
<1>2. In \in Instruction /\ In.opcode = opcode
  BY <1>1 DEF In, Fetch
<1>3. Runnable(In)
  BY <1>1
<1>4. In.operands \in Seq(Operand)
  BY <1>2 DEF Instruction
<1>5. \A k \in DOMAIN In.operands : Usable(In.operands[k])
  BY <1>3, <1>4 DEF Usable, Runnable
<1>6. opcode \in BranchOpcode => OP0.arg \in 0 .. Len(prog) - 1
  BY <1>1, <1>2, <1>3, <1>4 DEF Runnable, OP0, In, BranchesInRange
<1> QED
  BY <1>2, <1>3, <1>4, <1>5, <1>6 DEF OP0, OP1, Runnable

-----------------------------------------------------------------------------
(* Operand values and stores *)

LEMMA ValuesAreWords ==
  ASSUME TypeOK, NEW op, Usable(op), Readable(op)
  PROVE  REG_OR_INT_OR_MEM(op) \subseteq Word
<1>1. CASE op.type = "REG"
  BY <1>1 DEF TypeOK, Usable, REG_OR_INT_OR_MEM, REG
<1>2. CASE op.type = "INT"
  BY <1>2 DEF Usable, REG_OR_INT_OR_MEM, Operand
<1>3. CASE op.type = "MEM_ADDRESS"
  <2>1. op.arg \in RegIndex /\ op.extra \in Word /\ REG(op) \in Word
    BY <1>3 DEF TypeOK, Usable, Operand, REG
  <2>2. Address(op) \in Word
    BY <2>1, ToWordIsWord DEF Address, Word
  <2>3. Mapped(Address(op))
    BY <1>3 DEF Readable
  <2>4. PICK b \in DOMAIN blocks : Bytes(Address(op)) \subseteq b .. b + blocks[b] - 1
    BY <2>3 DEF Mapped
  <2>5. Address(op) \in Bytes(Address(op))
    BY <2>2, VmAssumption DEF Bytes, Word
  <2>6. Address(op) \in Addr
    BY <2>4, <2>5 DEF TypeOK
  <2>7. REG_OR_INT_OR_MEM(op) =
          IF heap[Address(op)] = Unknown THEN Word ELSE {heap[Address(op)]}
    BY <1>3 DEF REG_OR_INT_OR_MEM
  <2> QED
    BY <2>6, <2>7 DEF TypeOK
<1> QED
  BY <1>1, <1>2, <1>3 DEF Readable

LEMMA StoreKeepsTypes ==
  ASSUME TypeOK, NEW op, Usable(op), NEW v \in Word, Store(op, v)
  PROVE  /\ registers' \in [RegIndex -> Word]
         /\ heap' \in [Addr -> Word \cup {Unknown}]
         /\ blocks' = blocks
         /\ \E r \in RegIndex, w \in Word : registers' = [registers EXCEPT ![r] = w]
<1>1. CASE op.type = "REG"
  BY <1>1 DEF TypeOK, Usable, Store, memory
<1>2. CASE op.type = "MEM_ADDRESS"
  <2>1. heap' = [x \in Addr |->
                   IF x = Address(op) THEN v
                   ELSE IF Bytes(x) \cap Bytes(Address(op)) # {} THEN Unknown
                   ELSE heap[x]]
    BY <1>2 DEF Store
  <2>2. heap' \in [Addr -> Word \cup {Unknown}]
    BY <2>1 DEF TypeOK
  <2>3. registers' = registers /\ blocks' = blocks
    BY <1>2 DEF Store
  <2>4. op.arg \in RegIndex
    BY <1>2 DEF Usable
  <2>5. registers' = [registers EXCEPT ![op.arg] = registers[op.arg]]
        /\ registers[op.arg] \in Word
    BY <2>3, <2>4 DEF TypeOK
  <2> QED
    BY <2>2, <2>3, <2>4, <2>5 DEF TypeOK
<1> QED
  BY <1>1, <1>2 DEF Store

\* What an arithmetic instruction changes: one register or memory, and pc.
ComputeStep ==
  /\ registers' \in [RegIndex -> Word]
  /\ heap' \in [Addr -> Word \cup {Unknown}]
  /\ DOMAIN blocks' \subseteq Addr
  /\ \A b \in DOMAIN blocks' : blocks'[b] \in Nat /\ b .. b + blocks'[b] - 1 \subseteq Addr
  /\ cmp' \in Word
  /\ pc' = pc + 1
  /\ UNCHANGED <<prog, status, stacks>>
  /\ \E r \in RegIndex, w \in Word : registers' = [registers EXCEPT ![r] = w]

LEMMA StoreComputes ==
  ASSUME TypeOK, Usable(OP0), NEW w \in Word, Store(OP0, w),
         Advance, UNCHANGED <<cmp, stacks, msg, out>>
  PROVE  ComputeStep
BY StoreKeepsTypes DEF TypeOK, ComputeStep, Advance, stacks

\* The instructions that move neither a stack nor pc out of sequence.
Computing == ValidOpcode \ (BranchOpcode \cup NoOperand \cup {"push", "pop"})

Computed == status = "running" /\ pc < Len(prog) /\ In.opcode \in Computing /\ ComputeStep

LEMMA FetchComputing ==
  ASSUME TypeOK, NEW opcode, Fetch(opcode), ComputeStep,
         opcode \notin BranchOpcode \cup NoOperand \cup {"push", "pop"}
  PROVE  Computed
BY Fetched DEF Computed, Computing, Fetch

LEMMA BinaryValues ==
  ASSUME TypeOK, NEW opcode \in Arithmetic, Fetch(opcode), Readable(OP1)
  PROVE  /\ Usable(OP0) /\ Usable(OP1)
         /\ REG_OR_INT_OR_MEM(OP1) \subseteq Word
         /\ Writable(OP0) => REG_OR_INT_OR_MEM(OP0) \subseteq Word
         /\ opcode \notin BranchOpcode \cup NoOperand \cup {"push", "pop"}
<1>1. Usable(OP0) /\ Usable(OP1)
  BY Fetched
<1> QED
  BY <1>1, ValuesAreWords
     DEF Writable, Arithmetic, BranchOpcode, Conditional, NoOperand

LEMMA OperationComputes ==
  ASSUME TypeOK, NEW opcode \in Arithmetic \cup {"inc", "dec"}, Fetch(opcode),
         NEW values \in SUBSET Int, MEMORY_OR_REG_OP(values)
  PROVE  Computed
<1>1. PICK v \in values : Store(OP0, ToWord(v))
  BY DEF MEMORY_OR_REG_OP
<1>2. ToWord(v) \in Word
  BY ToWordIsWord
<1>3. Usable(OP0)
  <2>1. opcode \in Arithmetic \/ opcode \in OneRegister
    BY DEF OneRegister
  <2> QED
    BY <2>1, Fetched
<1>4. ComputeStep
  BY <1>1, <1>2, <1>3, StoreComputes DEF MEMORY_OR_REG_OP
<1>5. opcode \notin BranchOpcode \cup NoOperand \cup {"push", "pop"}
  BY DEF Arithmetic, BranchOpcode, Conditional, NoOperand
<1> QED
  BY <1>4, <1>5, FetchComputing

LEMMA ArithmeticComputes ==
  ASSUME TypeOK, Mov \/ Add \/ Sub \/ Mul \/ Inc \/ Dec
  PROVE  Computed
<1>1. ASSUME NEW opcode \in Arithmetic, FetchReadable(opcode), Writable(OP0)
      PROVE  Old \subseteq Int /\ Rhs \subseteq Int
  BY <1>1, BinaryValues DEF FetchReadable, Old, Rhs, Word
<1>2. ASSUME NEW opcode \in {"inc", "dec"}, Fetch(opcode), Writable(OP0)
      PROVE  Old \subseteq Int
  BY <1>2, Fetched, ValuesAreWords DEF OneRegister, Old, Word, Writable
<1>3. CASE Mov
  BY <1>1, <1>3, OperationComputes DEF Mov, FetchReadable, MEMORY_OR_REG_OP, Arithmetic
<1>4. CASE Add
  <2> DEFINE values == {a + b : a \in Old, b \in Rhs}
  <2>1. values \in SUBSET Int
    BY <1>1, <1>4 DEF Add, MEMORY_OR_REG_OP, Arithmetic
  <2> QED
    BY <1>4, <2>1, OperationComputes DEF Add, FetchReadable, Arithmetic
<1>5. CASE Sub
  <2> DEFINE values == {a - b : a \in Old, b \in Rhs}
  <2>1. values \in SUBSET Int
    BY <1>1, <1>5 DEF Sub, MEMORY_OR_REG_OP, Arithmetic
  <2> QED
    BY <1>5, <2>1, OperationComputes DEF Sub, FetchReadable, Arithmetic
<1>6. CASE Mul
  <2> DEFINE values == {a * b : a \in Old, b \in Rhs}
  <2>1. values \in SUBSET Int
    BY <1>1, <1>6 DEF Mul, MEMORY_OR_REG_OP, Arithmetic
  <2> QED
    BY <1>6, <2>1, OperationComputes DEF Mul, FetchReadable, Arithmetic
<1>7. CASE Inc
  <2> DEFINE values == {a + 1 : a \in Old}
  <2>1. values \in SUBSET Int
    BY <1>2, <1>7 DEF Inc, MEMORY_OR_REG_OP
  <2> QED
    BY <1>7, <2>1, OperationComputes DEF Inc
<1>8. CASE Dec
  <2> DEFINE values == {a - 1 : a \in Old}
  <2>1. values \in SUBSET Int
    BY <1>2, <1>8 DEF Dec, MEMORY_OR_REG_OP
  <2> QED
    BY <1>8, <2>1, OperationComputes DEF Dec
<1> QED
  BY <1>3, <1>4, <1>5, <1>6, <1>7, <1>8

LEMMA DivComputes ==
  ASSUME TypeOK, Div
  PROVE  Computed \/ (Fetch("div") /\ Stop("trap"))
<1>1. PICK d \in Divisors \ {0}, old \in Old :
        \/ old = MinWord /\ d = -1 /\ Stop("trap")
        \/ /\ ~(old = MinWord /\ d = -1)
           /\ Store(OP0, TruncDiv(old, d))
           /\ Advance
           /\ UNCHANGED <<cmp, stacks, msg, out>>
  BY DEF Div
<1>2. Fetch("div") /\ Readable(OP1) /\ Writable(OP0) /\ "div" \in Arithmetic
  BY DEF Div, FetchReadable, Arithmetic
<1>3. Usable(OP0) /\ old \in Word /\ d \in Int \ {0}
  BY <1>2, BinaryValues, ToIntIsInt DEF Divisors, Old, Rhs, Word
<1>4. CASE old = MinWord /\ d = -1 /\ Stop("trap")
  BY <1>2, <1>4
<1>5. CASE /\ ~(old = MinWord /\ d = -1)
           /\ Store(OP0, TruncDiv(old, d))
           /\ Advance
           /\ UNCHANGED <<cmp, stacks, msg, out>>
  <2>1. TruncDiv(old, d) \in Word
    BY <1>3, <1>5, QuotientIsWord
  <2> QED
    BY <1>2, <1>3, <1>5, <2>1, StoreComputes, FetchComputing, BinaryValues
<1> QED
  BY <1>1, <1>4, <1>5

\* A step that leaves the registers alone counts as writing one of them back.
LEMMA SameRegisters ==
  ASSUME TypeOK, registers' = registers
  PROVE  \E r \in RegIndex, w \in Word : registers' = [registers EXCEPT ![r] = w]
<1>1. 0 \in RegIndex
  BY ProgramAssumption DEF RegIndex
<1>2. registers[0] \in Word /\ registers = [registers EXCEPT ![0] = registers[0]]
  BY <1>1 DEF TypeOK
<1> QED
  BY <1>1, <1>2

LEMMA MallocComputes ==
  ASSUME TypeOK, Malloc
  PROVE  ComputeStep
<1> DEFINE size == REG(OP0)
<1>1. /\ OP0.arg \in RegIndex /\ OP1.arg \in RegIndex
  BY Fetched DEF Malloc, Usable
<1>2. size \in Word
  BY <1>1 DEF TypeOK, REG
<1>3. Advance /\ UNCHANGED <<cmp, stacks, msg, out>>
  BY DEF Malloc
<1>4. CASE registers' = [registers EXCEPT ![OP1.arg] = 0] /\ UNCHANGED memory
  <2>1. 0 \in Word
    BY WordsAssumption DEF Word
  <2> QED
    BY <1>1, <1>3, <1>4, <2>1 DEF TypeOK, ComputeStep, Advance, stacks, memory
<1>5. ASSUME size >= 0, NEW x \in Addr,
             Free(x, size),
             registers' = [registers EXCEPT ![OP1.arg] = ToWord(x)],
             blocks' = [b \in DOMAIN blocks \cup {x} |-> IF b = x THEN size ELSE blocks[b]],
             heap' = [y \in Addr |->
                        IF Bytes(y) \cap (x .. x + size - 1) # {} THEN Unknown ELSE heap[y]]
      PROVE  ComputeStep
  <2>1. ToWord(x) \in Word
    BY ToWordIsWord, VmAssumption DEF Addr
  <2>2. heap' \in [Addr -> Word \cup {Unknown}]
    BY <1>5 DEF TypeOK
  <2>3. x .. x + size - 1 \subseteq Addr
    BY <1>2, <1>5, VmAssumption DEF Free, Extent, Addr, Word
  <2>4. /\ DOMAIN blocks' \subseteq Addr
        /\ \A b \in DOMAIN blocks' : blocks'[b] \in Nat /\ b .. b + blocks'[b] - 1 \subseteq Addr
    BY <1>2, <1>5, <2>3 DEF TypeOK, Word
  <2>5. /\ registers' \in [RegIndex -> Word]
        /\ \E r \in RegIndex, w \in Word : registers' = [registers EXCEPT ![r] = w]
    BY <1>1, <1>5, <2>1 DEF TypeOK
  <2> QED
    BY <1>3, <2>2, <2>4, <2>5 DEF TypeOK, ComputeStep, Advance, stacks
<1> QED
  BY <1>4, <1>5 DEF Malloc

LEMMA OthersCompute ==
  ASSUME TypeOK, Cmp \/ Msg \/ PrintTexts \/ Malloc \/ Mfree
  PROVE  Computed
<1>1. CASE Cmp
  <2>1. PICK a \in Old, b \in Rhs : cmp' = ToWord(a - b)
    BY <1>1 DEF Cmp
  <2>2. Fetch("cmp")
    BY <1>1 DEF Cmp
  <2>3. a \in Word /\ b \in Word
    BY <2>2, Fetched, ValuesAreWords DEF Readable, Old, Rhs
  <2>4. cmp' \in Word
    BY <2>1, <2>3, ToWordIsWord DEF Word
  <2>5. ComputeStep
    BY <1>1, <2>4, SameRegisters DEF Cmp, TypeOK, ComputeStep, Advance, stacks, memory
  <2> QED
    BY <2>2, <2>5, FetchComputing DEF BranchOpcode, Conditional, NoOperand
<1>2. CASE Msg
  BY <1>2, SameRegisters, FetchComputing
     DEF Msg, TypeOK, ComputeStep, Advance, stacks, memory, BranchOpcode, Conditional, NoOperand
<1>3. CASE PrintTexts
  BY <1>3, SameRegisters, FetchComputing
     DEF PrintTexts, TypeOK, ComputeStep, Advance, stacks, memory,
         BranchOpcode, Conditional, NoOperand
<1>4. CASE Malloc
  BY <1>4, MallocComputes, FetchComputing DEF Malloc, BranchOpcode, Conditional, NoOperand
<1>5. CASE Mfree
  <2>1. ComputeStep
    BY <1>5, SameRegisters DEF Mfree, TypeOK, ComputeStep, Advance, stacks
  <2> QED
    BY <1>5, <2>1, FetchComputing DEF Mfree, BranchOpcode, Conditional, NoOperand
<1> QED
  BY <1>1, <1>2, <1>3, <1>4, <1>5

-----------------------------------------------------------------------------
(* The invariant *)

\* ReturnAddresses bounds pc and what ret can fetch, TypeOK the two tops.
IInv == TypeOK /\ ReturnAddresses

LEMMA InitIInv == Init => IInv
<1>1. SUFFICES ASSUME Init PROVE IInv
  OBVIOUS
<1>2. 0 \in Word
  BY WordsAssumption DEF Word
<1>3. prog \in Seq(Instruction)
  BY <1>1, ProgramsAssumption DEF Init
<1>4. TypeOK
  BY <1>1, <1>2, VmAssumption DEF Init, TypeOK
<1>5. ReturnAddresses
  BY <1>1, <1>3 DEF Init, ReturnAddresses
<1> QED
  BY <1>4, <1>5 DEF IInv

LEMMA ComputedKeeps ==
  ASSUME IInv, Computed
  PROVE  IInv'
<1>1. Len(prog) \in Nat
  BY ProgramsAssumption DEF IInv, TypeOK
<1> QED
  BY <1>1 DEF IInv, TypeOK, ReturnAddresses, Computed, ComputeStep, stacks

LEMMA StopKeeps ==
  ASSUME IInv, NEW how, Stop(how)
  PROVE  IInv'
BY DEF IInv, TypeOK, ReturnAddresses, Stop, stacks, memory

\* A jump: taken, or for the conditional ones possibly not.
Branched ==
  /\ status = "running" /\ pc < Len(prog) /\ In.opcode \in Conditional \cup {"jmp"}
  /\ pc' = OP0.arg \/ (In.opcode # "jmp" /\ pc' = pc + 1)
  /\ UNCHANGED <<prog, registers, cmp, stacks, msg, out, memory, status>>

LEMMA JumpsBranch ==
  ASSUME Jmp \/ Jne \/ Je \/ Jge \/ Jg \/ Jle \/ Jl
  PROVE  Branched
BY DEF Jmp, Jne, Je, Jge, Jg, Jle, Jl, BRANCH_IF, Fetch, Branched, Conditional

LEMMA TargetInRange ==
  ASSUME TypeOK, status = "running", pc < Len(prog), In.opcode \in BranchOpcode
  PROVE  Len(prog) \in Nat /\ OP0.arg \in 0 .. Len(prog) - 1
<1>1. Fetch(In.opcode)
  BY DEF Fetch
<1> QED
  BY <1>1, Fetched, ProgramsAssumption DEF TypeOK

LEMMA BranchedKeeps ==
  ASSUME IInv, Branched
  PROVE  IInv'
<1>1. Len(prog) \in Nat /\ OP0.arg \in 0 .. Len(prog) - 1
  BY TargetInRange DEF IInv, Branched, BranchOpcode
<1>2. pc' \in Nat /\ pc' <= Len(prog)
  BY <1>1 DEF IInv, TypeOK, Branched
<1> QED
  BY <1>2 DEF IInv, TypeOK, ReturnAddresses, Branched, stacks, memory

LEMMA CallKeeps ==
  ASSUME IInv, Call
  PROVE  IInv'
<1>1. Len(prog) \in Nat /\ OP0.arg \in 0 .. Len(prog) - 1
  BY TargetInRange DEF IInv, Call, Fetch, BranchOpcode
<1>2. /\ call_stack_top \in 0 .. MAX_CALL_STACK - 1
      /\ call_stack_top' = call_stack_top + 1
      /\ call_stack' = [call_stack EXCEPT ![call_stack_top] = pc + 1]
      /\ prog[pc + 1].opcode = "call" /\ pc + 1 \in 1 .. Len(prog)
  BY <1>1, VmAssumption DEF IInv, TypeOK, Call, Fetch, In
<1>3. TypeOK'
  BY <1>1, <1>2, VmAssumption DEF IInv, TypeOK, Call, memory
<1>4. \A i \in 0 .. call_stack_top' - 1 :
        call_stack'[i] \in 1 .. Len(prog) /\ prog[call_stack'[i]].opcode = "call"
  <2>1. TAKE i \in 0 .. call_stack_top' - 1
  <2>2. CASE i = call_stack_top
    BY <1>2, <2>2 DEF IInv, TypeOK
  <2>3. CASE i # call_stack_top
    BY <1>2, <2>1, <2>3, VmAssumption DEF IInv, TypeOK, ReturnAddresses
  <2> QED
    BY <2>2, <2>3
<1> QED
  BY <1>1, <1>3, <1>4 DEF IInv, ReturnAddresses, Call

LEMMA RetKeeps ==
  ASSUME IInv, Ret
  PROVE  IInv'
<1>1. Len(prog) \in Nat
  BY ProgramsAssumption DEF IInv, TypeOK
<1>2. call_stack_top \in 1 .. MAX_CALL_STACK
  BY VmAssumption DEF IInv, TypeOK, Ret
<1>3. call_stack[call_stack_top - 1] \in 1 .. Len(prog)
  BY <1>2 DEF IInv, ReturnAddresses
<1>4. TypeOK'
  BY <1>1, <1>2, <1>3, VmAssumption DEF IInv, TypeOK, Ret, memory
<1>5. ReturnAddresses'
  BY <1>1, <1>2, <1>3, VmAssumption DEF IInv, ReturnAddresses, Ret
<1> QED
  BY <1>4, <1>5 DEF IInv

LEMMA PushPopKeep ==
  ASSUME IInv, Push \/ Pop
  PROVE  IInv'
<1>1. Len(prog) \in Nat
  BY ProgramsAssumption DEF IInv, TypeOK
<1>2. OP0.arg \in RegIndex
  <2>1. Fetch("push") \/ Fetch("pop")
    BY DEF Push, Pop
  <2> QED
    BY <2>1, Fetched DEF IInv, OneRegister, Usable
<1>3. CASE Push
  <2>1. stack_top \in 0 .. MAX_STACK - 1 /\ REG(OP0) \in Word
    BY <1>2, <1>3, VmAssumption DEF IInv, TypeOK, Push, REG
  <2> QED
    BY <1>1, <1>3, <2>1, VmAssumption
       DEF IInv, TypeOK, ReturnAddresses, Push, Fetch, Advance, memory
<1>4. CASE Pop
  <2>1. stack_top \in 1 .. MAX_STACK /\ stack[stack_top - 1] \in Word
    BY <1>4, VmAssumption DEF IInv, TypeOK, Pop
  <2> QED
    BY <1>1, <1>2, <1>4, <2>1, VmAssumption
       DEF IInv, TypeOK, ReturnAddresses, Pop, Fetch, Advance, memory
<1> QED
  BY <1>3, <1>4

LEMMA NextIInv == IInv /\ [Next]_vars => IInv'
<1>1. SUFFICES ASSUME IInv, [Next]_vars PROVE IInv'
  OBVIOUS
<1>2. CASE Mov \/ Add \/ Sub \/ Mul \/ Inc \/ Dec
  BY <1>1, <1>2, ArithmeticComputes, ComputedKeeps DEF IInv
<1>3. CASE Div
  BY <1>1, <1>3, DivComputes, ComputedKeeps, StopKeeps DEF IInv
<1>4. CASE Cmp \/ Msg \/ PrintTexts \/ Malloc \/ Mfree
  BY <1>1, <1>4, OthersCompute, ComputedKeeps DEF IInv
<1>5. CASE Jmp \/ Jne \/ Je \/ Jge \/ Jg \/ Jle \/ Jl
  BY <1>1, <1>5, JumpsBranch, BranchedKeeps
<1>6. CASE Call
  BY <1>1, <1>6, CallKeeps
<1>7. CASE Ret
  BY <1>1, <1>7, RetKeeps
<1>8. CASE Push \/ Pop
  BY <1>1, <1>8, PushPopKeep
<1>9. CASE DivByZero \/ WildAccess \/ CallOverflow \/ RetUnderflow \/ PushOverflow
           \/ PopUnderflow \/ MsgOverflow \/ BadFree \/ End \/ RunOff
  BY <1>1, <1>9, StopKeeps
     DEF DivByZero, WildAccess, CallOverflow, RetUnderflow, PushOverflow, PopUnderflow,
         MsgOverflow, BadFree, End, RunOff
<1>10. CASE UNCHANGED vars
  BY <1>1, <1>10 DEF IInv, TypeOK, ReturnAddresses, vars, stacks, memory
<1> QED
  BY <1>1, <1>2, <1>3, <1>4, <1>5, <1>6, <1>7, <1>8, <1>9, <1>10 DEF Next, Halted

LEMMA Invariance == Spec => []IInv
BY InitIInv, NextIInv, PTL DEF Spec

\* Every variable of program_run keeps its type: registers, comparison result
\* and stack slots are words, both tops stay within their arrays, and live
\* blocks lie in the heap, whatever checked program is run.
THEOREM TypeCorrect == Spec => []TypeOK
BY Invariance, PTL DEF IInv

\* pc never passes the end of the program, and a ret lands behind a call.
THEOREM ReturnAddressesHold == Spec => []ReturnAddresses
BY Invariance, PTL DEF IInv

-----------------------------------------------------------------------------
(* The arrays with their tops implement two stacks *)

LEMMA LiveSeq ==
  ASSUME NEW S, NEW N \in Nat, NEW array \in [0 .. N - 1 -> S], NEW n \in 0 .. N
  PROVE  /\ Live(array, n) \in Seq(S)
         /\ Len(Live(array, n)) = n
         /\ \A i \in 1 .. n : Live(array, n)[i] = array[i - 1]
BY DEF Live

LEMMA LivePush ==
  ASSUME NEW S, NEW N \in Nat, NEW n \in 0 .. N - 1,
         NEW array \in [0 .. N - 1 -> S], NEW after \in [0 .. N - 1 -> S],
         \A i \in 0 .. n - 1 : after[i] = array[i]
  PROVE  Live(after, n + 1) = Append(Live(array, n), after[n])
<1> DEFINE v == after[n]
<1>0. v \in S
  OBVIOUS
<1> HIDE DEF v
<1>1. /\ Live(array, n) \in Seq(S) /\ Len(Live(array, n)) = n
      /\ \A i \in 1 .. n : Live(array, n)[i] = array[i - 1]
  BY DEF Live
<1>2. /\ Live(after, n + 1) \in Seq(S) /\ Len(Live(after, n + 1)) = n + 1
      /\ \A i \in 1 .. n + 1 : Live(after, n + 1)[i] = after[i - 1]
  BY DEF Live
<1>3. /\ Append(Live(array, n), v) \in Seq(S)
      /\ Len(Append(Live(array, n), v)) = n + 1
      /\ \A i \in 1 .. n : Append(Live(array, n), v)[i] = Live(array, n)[i]
      /\ Append(Live(array, n), v)[n + 1] = v
  BY <1>0, <1>1, AppendProperties
<1>4. \A i \in 1 .. n + 1 : Live(after, n + 1)[i] = Append(Live(array, n), v)[i]
  <2>1. TAKE i \in 1 .. n + 1
  <2>2. Live(after, n + 1)[i] = after[i - 1]
    BY <1>2
  <2>3. CASE i = n + 1
    BY <1>3, <2>2, <2>3 DEF v
  <2>4. CASE i \in 1 .. n
    BY <1>1, <1>3, <2>2, <2>4, SMTT(30)
  <2>5. i = n + 1 \/ i \in 1 .. n
    BY <2>1
  <2> QED
    BY <2>3, <2>4, <2>5
<1> QED
  BY <1>2, <1>3, <1>4, SeqEqual DEF v

LEMMA LivePop ==
  ASSUME NEW S, NEW N \in Nat, NEW array \in [0 .. N - 1 -> S], NEW n \in 1 .. N
  PROVE  /\ Live(array, n - 1) = Front(Live(array, n))
         /\ Last(Live(array, n)) = array[n - 1]
         /\ Live(array, n) # << >>
<1>0. n \in 0 .. N /\ n - 1 \in 0 .. N
  OBVIOUS
<1>1. /\ Live(array, n) \in Seq(S) /\ Len(Live(array, n)) = n
      /\ \A i \in 1 .. n : Live(array, n)[i] = array[i - 1]
  BY <1>0 DEF Live
<1>2. /\ Live(array, n - 1) \in Seq(S) /\ Len(Live(array, n - 1)) = n - 1
      /\ \A i \in 1 .. n - 1 : Live(array, n - 1)[i] = array[i - 1]
  BY <1>0, LiveSeq
<1>3. /\ Front(Live(array, n)) \in Seq(S)
      /\ Len(Front(Live(array, n))) = n - 1
      /\ \A i \in 1 .. n - 1 : Front(Live(array, n))[i] = Live(array, n)[i]
  BY <1>1 DEF Front
<1>4. Live(array, n - 1) = Front(Live(array, n))
  BY <1>1, <1>2, <1>3, SeqEqual
<1> QED
  BY <1>1, <1>4 DEF Last

\* The abstract machine reads the same instruction set.
LEMMA SameInstructions ==
  /\ Abstract!Word = Word
  /\ Abstract!RegIndex = RegIndex
  /\ Abstract!Arithmetic = Arithmetic
  /\ Abstract!Conditional = Conditional
  /\ Abstract!BranchOpcode = BranchOpcode
  /\ Abstract!NoOperand = NoOperand
  /\ Abstract!ValidOpcode = ValidOpcode
  /\ Abstract!Insn = In
  /\ Abstract!Target = OP0.arg
BY DEF Abstract!Word, Abstract!RegIndex, Abstract!Arithmetic, Abstract!Conditional,
       Abstract!BranchOpcode, Abstract!NoOperand, Abstract!ValidOpcode,
       Abstract!OneRegister, Abstract!Unchecked, Abstract!Insn, Abstract!Target,
       Word, RegIndex, Arithmetic, Conditional, BranchOpcode, NoOperand, ValidOpcode,
       OneRegister, Unchecked, In, OP0

LEMMA InitImplements ==
  ASSUME Init
  PROVE  Abstract!Init
<1>1. /\ call_stack \in [0 .. MAX_CALL_STACK - 1 -> Nat] /\ call_stack_top = 0
      /\ stack \in [0 .. MAX_STACK - 1 -> Word] /\ stack_top = 0
  BY InitIInv DEF IInv, TypeOK, Init
<1>2. /\ Live(call_stack, call_stack_top) \in Seq(Nat) /\ Len(Live(call_stack, call_stack_top)) = 0
      /\ Live(stack, stack_top) \in Seq(Word) /\ Len(Live(stack, stack_top)) = 0
  BY <1>1, VmAssumption DEF Live
<1>3. Live(call_stack, call_stack_top) = << >> /\ Live(stack, stack_top) = << >>
  BY <1>2, EmptySeq
<1> QED
  BY <1>3, SameInstructions DEF Init, Abstract!Init

\* A step that leaves both stacks alone leaves their live parts alone.
LEMMA SameStacks ==
  ASSUME UNCHANGED stacks
  PROVE  UNCHANGED <<Live(call_stack, call_stack_top), Live(stack, stack_top)>>
BY DEF stacks

LEMMA ComputedImplements ==
  ASSUME Computed
  PROVE  Abstract!Compute
BY SameStacks, SameInstructions
   DEF Computed, Computing, ComputeStep, Abstract!Compute, Abstract!At

LEMMA BranchedImplements ==
  ASSUME Branched
  PROVE  Abstract!Jump
BY SameStacks, SameInstructions DEF Branched, Abstract!Jump, Abstract!At

LEMMA StopImplements ==
  ASSUME NEW how, Stop(how)
  PROVE  Abstract!Stop(how)
BY SameStacks DEF Stop, Abstract!Stop

LEMMA CallImplements ==
  ASSUME IInv, Call
  PROVE  Abstract!Call
<1>1. /\ call_stack \in [0 .. MAX_CALL_STACK - 1 -> Nat] /\ pc + 1 \in Nat
      /\ MAX_CALL_STACK \in Nat /\ call_stack_top \in 0 .. MAX_CALL_STACK - 1
  BY VmAssumption DEF IInv, TypeOK, Call
<1>2. /\ call_stack' \in [0 .. MAX_CALL_STACK - 1 -> Nat]
      /\ call_stack'[call_stack_top] = pc + 1
      /\ \A i \in 0 .. call_stack_top - 1 : call_stack'[i] = call_stack[i]
  BY <1>1 DEF Call
<1>3. Live(call_stack', call_stack_top + 1)
        = Append(Live(call_stack, call_stack_top), call_stack'[call_stack_top])
  BY <1>1, <1>2, LivePush
<1>4. Len(Live(call_stack, call_stack_top)) < MAX_CALL_STACK
  BY <1>1 DEF Live
<1> QED
  BY <1>2, <1>3, <1>4, SameInstructions DEF Call, Fetch, Abstract!Call, Abstract!At

LEMMA RetImplements ==
  ASSUME IInv, Ret
  PROVE  Abstract!Return
<1>1. /\ call_stack \in [0 .. MAX_CALL_STACK - 1 -> Nat]
      /\ MAX_CALL_STACK \in Nat /\ call_stack_top \in 1 .. MAX_CALL_STACK
  BY VmAssumption DEF IInv, TypeOK, Ret
<1>2. /\ Live(call_stack, call_stack_top - 1) = Front(Live(call_stack, call_stack_top))
      /\ Last(Live(call_stack, call_stack_top)) = call_stack[call_stack_top - 1]
      /\ Live(call_stack, call_stack_top) # << >>
  BY <1>1, LivePop
<1> QED
  BY <1>2, SameInstructions
     DEF Ret, Fetch, Abstract!Return, Abstract!At, Abstract!Front, Abstract!Last, Front, Last

LEMMA PushImplements ==
  ASSUME IInv, Push
  PROVE  Abstract!PushValue
<1>1. OP0.arg \in RegIndex
  BY Fetched DEF IInv, Push, OneRegister, Usable
<1>2. /\ stack \in [0 .. MAX_STACK - 1 -> Word] /\ REG(OP0) \in Word
      /\ MAX_STACK \in Nat /\ stack_top \in 0 .. MAX_STACK - 1
  BY <1>1, VmAssumption DEF IInv, TypeOK, Push, REG
<1>3. /\ stack' \in [0 .. MAX_STACK - 1 -> Word]
      /\ stack'[stack_top] = REG(OP0)
      /\ \A i \in 0 .. stack_top - 1 : stack'[i] = stack[i]
  BY <1>2 DEF Push
<1>4. Live(stack', stack_top + 1) = Append(Live(stack, stack_top), stack'[stack_top])
  BY <1>2, <1>3, LivePush
<1>5. Len(Live(stack, stack_top)) < MAX_STACK
  BY <1>2 DEF Live
<1> QED
  BY <1>3, <1>4, <1>5, SameInstructions
     DEF Push, Fetch, Advance, REG, Abstract!PushValue, Abstract!At

LEMMA PopImplements ==
  ASSUME IInv, Pop
  PROVE  Abstract!PopValue
<1>1. /\ stack \in [0 .. MAX_STACK - 1 -> Word]
      /\ MAX_STACK \in Nat /\ stack_top \in 1 .. MAX_STACK
  BY VmAssumption DEF IInv, TypeOK, Pop
<1>2. /\ Live(stack, stack_top - 1) = Front(Live(stack, stack_top))
      /\ Last(Live(stack, stack_top)) = stack[stack_top - 1]
      /\ Live(stack, stack_top) # << >>
  BY <1>1, LivePop
<1> QED
  BY <1>2, SameInstructions
     DEF Pop, Fetch, Advance, Abstract!PopValue, Abstract!At,
         Abstract!Front, Abstract!Last, Front, Last

LEMMA LimitsImplement ==
  ASSUME IInv, CallOverflow \/ RetUnderflow \/ PushOverflow \/ PopUnderflow
  PROVE  Abstract!Fail
<1>1. /\ MAX_CALL_STACK \in Nat /\ call_stack_top \in 0 .. MAX_CALL_STACK
      /\ MAX_STACK \in Nat /\ stack_top \in 0 .. MAX_STACK
  BY VmAssumption DEF IInv, TypeOK
<1>2. /\ Len(Live(call_stack, call_stack_top)) = call_stack_top
      /\ Len(Live(stack, stack_top)) = stack_top
  BY <1>1 DEF Live
<1>3. /\ CallOverflow => call_stack_top = MAX_CALL_STACK
      /\ RetUnderflow => call_stack_top = 0
      /\ PushOverflow => stack_top = MAX_STACK
      /\ PopUnderflow => stack_top = 0
  BY <1>1 DEF CallOverflow, RetUnderflow, PushOverflow, PopUnderflow
<1>8. /\ call_stack_top = 0 => Live(call_stack, call_stack_top) = << >>
      /\ stack_top = 0 => Live(stack, stack_top) = << >>
  BY <1>1 DEF Live
<1>4. CASE CallOverflow
  <2>1. Abstract!At({"call"}) /\ Len(Live(call_stack, call_stack_top)) = MAX_CALL_STACK
    BY <1>2, <1>3, <1>4, SameInstructions DEF CallOverflow, Fetch, Abstract!At
  <2>2. Abstract!Stop("callstack_overflow")
    BY <1>4, StopImplements DEF CallOverflow
  <2> QED
    BY <2>1, <2>2 DEF Abstract!Fail
<1>5. CASE RetUnderflow
  <2>1. Abstract!At({"ret"}) /\ Live(call_stack, call_stack_top) = << >>
    BY <1>3, <1>8, <1>5, SameInstructions DEF RetUnderflow, Fetch, Abstract!At
  <2>2. Abstract!Stop("callstack_underflow")
    BY <1>5, StopImplements DEF RetUnderflow
  <2> QED
    BY <2>1, <2>2 DEF Abstract!Fail
<1>6. CASE PushOverflow
  <2>1. Abstract!At({"push"}) /\ Len(Live(stack, stack_top)) = MAX_STACK
    BY <1>2, <1>3, <1>6, SameInstructions DEF PushOverflow, Fetch, Abstract!At
  <2>2. Abstract!Stop("stack_overflow")
    BY <1>6, StopImplements DEF PushOverflow
  <2> QED
    BY <2>1, <2>2 DEF Abstract!Fail
<1>7. CASE PopUnderflow
  <2>1. Abstract!At({"pop"}) /\ Live(stack, stack_top) = << >>
    BY <1>3, <1>8, <1>7, SameInstructions DEF PopUnderflow, Fetch, Abstract!At
  <2>2. Abstract!Stop("stack_underflow")
    BY <1>7, StopImplements DEF PopUnderflow
  <2> QED
    BY <2>1, <2>2 DEF Abstract!Fail
<1> QED
  BY <1>4, <1>5, <1>6, <1>7

\* An instruction that stops the run does it in a way the abstract machine lists.
LEMMA FailureImplements ==
  ASSUME IInv, NEW opcode, Fetch(opcode), NEW how \in Abstract!Failures(opcode), Stop(how)
  PROVE  Abstract!Fail
<1>1. In.opcode = opcode /\ opcode \in ValidOpcode
  BY Fetched DEF IInv, Fetch
<1> QED
  BY <1>1, StopImplements, SameInstructions DEF Fetch, Abstract!Fail, Abstract!At

LEMMA FailuresImplement ==
  ASSUME IInv, DivByZero \/ WildAccess \/ MsgOverflow \/ BadFree \/ End \/ (Fetch("div") /\ Stop("trap"))
  PROVE  Abstract!Fail
<1>1. /\ "division_by_zero" \in Abstract!Failures("div")
      /\ "trap" \in Abstract!Failures("div")
      /\ "undefined" \in Abstract!Failures("msg")
      /\ "undefined" \in Abstract!Failures("mfree")
      /\ "ended" \in Abstract!Failures("end")
      /\ \A opcode \in Arithmetic : "undefined" \in Abstract!Failures(opcode)
  BY SameInstructions DEF Abstract!Failures, Arithmetic
<1>2. CASE DivByZero
  BY <1>1, <1>2, FailureImplements DEF DivByZero, FetchReadable
<1>3. CASE WildAccess
  BY <1>1, <1>3, FailureImplements DEF WildAccess
<1>4. CASE MsgOverflow
  BY <1>1, <1>4, FailureImplements DEF MsgOverflow
<1>5. CASE BadFree
  BY <1>1, <1>5, FailureImplements DEF BadFree
<1>6. CASE End
  BY <1>1, <1>6, FailureImplements DEF End
<1>7. CASE Fetch("div") /\ Stop("trap")
  BY <1>1, <1>7, FailureImplements
<1> QED
  BY <1>2, <1>3, <1>4, <1>5, <1>6, <1>7

LEMMA RunOffImplements ==
  ASSUME IInv, RunOff
  PROVE  Abstract!RunOff
<1>1. pc = Len(prog)
  BY ProgramsAssumption DEF IInv, TypeOK, ReturnAddresses, RunOff
<1> QED
  BY <1>1, StopImplements DEF RunOff, Abstract!RunOff

\* Every step of program_run is a step of the abstract machine, or changes
\* nothing the abstract machine sees.
LEMMA NextImplements == IInv /\ [Next]_vars => [Abstract!Next]_(Abstract!vars)
<1>1. SUFFICES ASSUME IInv, [Next]_vars PROVE Abstract!Next \/ UNCHANGED Abstract!vars
  OBVIOUS
<1>2. CASE Mov \/ Add \/ Sub \/ Mul \/ Inc \/ Dec
  BY <1>1, <1>2, ArithmeticComputes, ComputedImplements DEF IInv, Abstract!Next
<1>3. CASE Div
  BY <1>1, <1>3, DivComputes, ComputedImplements, FailuresImplement DEF IInv, Abstract!Next
<1>4. CASE Cmp \/ Msg \/ PrintTexts \/ Malloc \/ Mfree
  BY <1>1, <1>4, OthersCompute, ComputedImplements DEF IInv, Abstract!Next
<1>5. CASE Jmp \/ Jne \/ Je \/ Jge \/ Jg \/ Jle \/ Jl
  BY <1>1, <1>5, JumpsBranch, BranchedImplements DEF Abstract!Next
<1>6. CASE Call \/ Ret
  BY <1>1, <1>6, CallImplements, RetImplements DEF Abstract!Next
<1>7. CASE Push \/ Pop
  BY <1>1, <1>7, PushImplements, PopImplements DEF Abstract!Next
<1>8. CASE CallOverflow \/ RetUnderflow \/ PushOverflow \/ PopUnderflow
  BY <1>1, <1>8, LimitsImplement DEF Abstract!Next
<1>9. CASE DivByZero \/ WildAccess \/ MsgOverflow \/ BadFree \/ End
  BY <1>1, <1>9, FailuresImplement DEF Abstract!Next
<1>10. CASE RunOff
  BY <1>1, <1>10, RunOffImplements DEF Abstract!Next
<1>11. CASE UNCHANGED vars
  BY <1>11, SameStacks DEF vars, Abstract!vars
<1> QED
  BY <1>1, <1>2, <1>3, <1>4, <1>5, <1>6, <1>7, <1>8, <1>9, <1>10, <1>11 DEF Next, Halted

\* program_run, with its arrays and top indices, implements the machine with
\* two bounded stacks, for every checked program and every size.
THEOREM Implementation == Spec => ImplementsStackMachine
<1>1. Init => Abstract!Init
  BY InitImplements
<1> QED
  BY <1>1, Invariance, NextImplements, PTL DEF Spec, ImplementsStackMachine, Abstract!Spec

-----------------------------------------------------------------------------
(* Comparisons *)

LEMMA DifferenceIsZero ==
  ASSUME NEW a \in Word, NEW b \in Word
  PROVE  ToWord(a - b) = 0 <=> a = b
<1> DEFINE m == 2 * WordHalf
           n == a - b + WordHalf
<1>1. m \in Nat \ {0} /\ n \in -m .. 2 * m - 1 /\ WordHalf \in Nat \ {0}
  BY WordsAssumption DEF Word
<1>2. n < m + WordHalf /\ n > -WordHalf /\ (n = WordHalf <=> a = b)
  BY WordsAssumption DEF Word
<1>3. ToWord(a - b) = (n % m) - WordHalf
  BY DEF ToWord, Wrap
<1>4. m = WordHalf + WordHalf
  BY WordsAssumption
<1> HIDE DEF m, n
<1>5. CASE n \in 0 .. m - 1
  <2>1. n % m = n
    BY <1>1, <1>5
  <2> QED
    BY <1>1, <1>2, <1>3, <1>5, <2>1
<1>6. CASE n \in -m .. -1
  <2>1. n % m = n + m
    BY <1>1, <1>6
  <2> QED
    BY <1>1, <1>2, <1>3, <1>4, <1>6, <2>1
<1>7. CASE n \in m .. 2 * m - 1
  <2>1. n % m = n - m
    BY <1>1, <1>7
  <2> QED
    BY <1>1, <1>2, <1>3, <1>4, <1>7, <2>1
<1> QED
  BY <1>1, <1>5, <1>6, <1>7

\* The operands of a cmp are one word each.
LEMMA Compared ==
  ASSUME TypeOK, Cmp
  PROVE  \A a \in Old, b \in Rhs : cmp' = 0 <=> a = b
<1>1. Fetch("cmp")
  BY DEF Cmp
<1>2. /\ Usable(OP0) /\ OP0.type \in {"REG", "INT"}
      /\ Usable(OP1) /\ OP1.type \in {"REG", "INT"}
  BY <1>1, Fetched
<1>3. Old \subseteq Word /\ Rhs \subseteq Word
  BY <1>2, ValuesAreWords DEF Readable, Old, Rhs
<1>4. \A a, c \in Old : a = c
  BY <1>2 DEF Old, REG_OR_INT_OR_MEM
<1>5. \A b, c \in Rhs : b = c
  BY <1>2 DEF Rhs, REG_OR_INT_OR_MEM
<1>6. PICK a \in Old, b \in Rhs : cmp' = ToWord(a - b)
  BY DEF Cmp
<1>7. cmp' = 0 <=> a = b
  BY <1>3, <1>6, DifferenceIsZero
<1> QED
  BY <1>4, <1>5, <1>6, <1>7

LEMMA NextCompares ==
  ASSUME IInv, Next, Fetch("cmp")
  PROVE  \A a \in Old, b \in Rhs : cmp' = 0 <=> a = b
<1>1. In.opcode = "cmp" /\ status = "running" /\ pc < Len(prog) /\ pc \in Nat /\ Len(prog) \in Nat
  BY ProgramsAssumption DEF Fetch, IInv, TypeOK
<1>2. ~RunOff /\ ~Halted
  BY <1>1 DEF RunOff, Halted
<1>3. ~(Mov \/ Add \/ Sub \/ Mul \/ Inc \/ Dec \/ DivByZero \/ Div \/ WildAccess)
  BY <1>1 DEF Mov, Add, Sub, Mul, Inc, Dec, DivByZero, Div, WildAccess, FetchReadable, Fetch,
              Arithmetic
<1>4. ~(Jmp \/ Jne \/ Je \/ Jge \/ Jg \/ Jle \/ Jl)
  BY <1>1 DEF Jmp, Jne, Je, Jge, Jg, Jle, Jl, Fetch
<1>5. ~(CallOverflow \/ Call \/ RetUnderflow \/ Ret \/ PushOverflow \/ Push \/ PopUnderflow \/ Pop)
  BY <1>1 DEF CallOverflow, Call, RetUnderflow, Ret, PushOverflow, Push, PopUnderflow, Pop, Fetch
<1>6. ~(Msg \/ MsgOverflow \/ PrintTexts \/ Malloc \/ Mfree \/ BadFree \/ End)
  BY <1>1 DEF Msg, MsgOverflow, PrintTexts, Malloc, Mfree, BadFree, End, Fetch
<1>7. Cmp
  BY <1>2, <1>3, <1>4, <1>5, <1>6 DEF Next
<1> QED
  BY <1>7, Compared DEF IInv

\* je and jne behind a cmp tell whether its operands are equal, for words of any
\* width and however their difference overflows.
THEOREM EqualityCompared == Spec => ComparisonEquality
<1>1. IInv /\ [Next]_vars =>
        [Fetch("cmp") => \A a \in Old, b \in Rhs : cmp' = 0 <=> a = b]_vars
  BY NextCompares
<1> QED
  BY <1>1, Invariance, PTL DEF Spec, ComparisonEquality

-----------------------------------------------------------------------------
(* One instruction at a time *)

\* The run is at an instruction.
At(insn) == status = "running" /\ pc < Len(prog) /\ In = insn

\* What an operand that is no address reads as.
Plain(op) == IF op.type = "REG" THEN REG(op) ELSE op.arg

LEMMA StepOf ==
  ASSUME IInv, Next, status = "running", pc < Len(prog)
  PROVE  /\ In.opcode = "mov" => Mov \/ WildAccess
         /\ In.opcode = "add" => Add \/ WildAccess
         /\ In.opcode = "sub" => Sub \/ WildAccess
         /\ In.opcode = "mul" => Mul \/ WildAccess
         /\ In.opcode = "div" => DivByZero \/ Div \/ WildAccess
         /\ In.opcode = "inc" => Inc
         /\ In.opcode = "dec" => Dec
         /\ In.opcode = "cmp" => Cmp
         /\ In.opcode = "jmp" => Jmp
         /\ In.opcode = "jne" => Jne
         /\ In.opcode = "je" => Je
         /\ In.opcode = "jge" => Jge
         /\ In.opcode = "jg" => Jg
         /\ In.opcode = "jle" => Jle
         /\ In.opcode = "jl" => Jl
         /\ In.opcode = "call" => Call \/ CallOverflow
         /\ In.opcode = "ret" => Ret \/ RetUnderflow
         /\ In.opcode = "push" => Push \/ PushOverflow
         /\ In.opcode = "pop" => Pop \/ PopUnderflow
         /\ In.opcode = "msg" => Msg \/ MsgOverflow
         /\ In.opcode = "print" => PrintTexts
         /\ In.opcode = "malloc" => Malloc
         /\ In.opcode = "mfree" => Mfree \/ BadFree
         /\ In.opcode = "end" => End
<1>1. pc \in Nat /\ Len(prog) \in Nat
  BY ProgramsAssumption DEF IInv, TypeOK
<1>2. ~RunOff /\ ~Halted
  BY <1>1 DEF RunOff, Halted
<1> DEFINE o == In.opcode
<1>3. /\ Mov => o = "mov"
      /\ Add => o = "add"
      /\ Sub => o = "sub"
      /\ Mul => o = "mul"
      /\ DivByZero \/ Div => o = "div"
      /\ Inc => o = "inc"
      /\ Dec => o = "dec"
      /\ Cmp => o = "cmp"
      /\ WildAccess => o \in Arithmetic
  BY DEF Mov, Add, Sub, Mul, DivByZero, Div, Inc, Dec, Cmp, WildAccess, FetchReadable, Fetch
<1>4. /\ Jmp => o = "jmp"
      /\ Jne => o = "jne"
      /\ Je => o = "je"
      /\ Jge => o = "jge"
      /\ Jg => o = "jg"
      /\ Jle => o = "jle"
      /\ Jl => o = "jl"
      /\ Call \/ CallOverflow => o = "call"
      /\ Ret \/ RetUnderflow => o = "ret"
      /\ Push \/ PushOverflow => o = "push"
      /\ Pop \/ PopUnderflow => o = "pop"
  BY DEF Jmp, Jne, Je, Jge, Jg, Jle, Jl, Call, CallOverflow, Ret, RetUnderflow,
         Push, PushOverflow, Pop, PopUnderflow, Fetch
<1>5. /\ Msg \/ MsgOverflow => o = "msg"
      /\ PrintTexts => o = "print"
      /\ Malloc => o = "malloc"
      /\ Mfree \/ BadFree => o = "mfree"
      /\ End => o = "end"
  BY DEF Msg, MsgOverflow, PrintTexts, Malloc, Mfree, BadFree, End, Fetch
<1> HIDE DEF o
<1> QED
  BY <1>2, <1>3, <1>4, <1>5 DEF Next, Arithmetic, o

\* A register is given a value, and the run goes on behind the instruction.
Gives(r, v) ==
  /\ r \in RegIndex /\ v \in Word
  /\ registers' = [registers EXCEPT ![r] = v]
  /\ pc' = pc + 1
  /\ UNCHANGED <<prog, status, cmp, stacks, msg, out>>

LEMMA PlainIsWord ==
  ASSUME TypeOK, NEW op, Usable(op), op.type \in {"REG", "INT"}
  PROVE  /\ Plain(op) \in Word
         /\ REG_OR_INT_OR_MEM(op) = {Plain(op)}
         /\ Readable(op)
BY DEF TypeOK, Usable, Plain, REG_OR_INT_OR_MEM, REG, Operand, Readable

\* The two plain operands of an arithmetic instruction.
LEMMA PlainOperands ==
  ASSUME IInv, NEW opcode \in Arithmetic, Fetch(opcode),
         OP0.type = "REG", OP1.type \in {"REG", "INT"}
  PROVE  /\ OP0.arg \in RegIndex /\ REG(OP0) \in Word /\ Plain(OP1) \in Word
         /\ Old = {REG(OP0)} /\ Rhs = {Plain(OP1)}
         /\ Readable(OP1) /\ Writable(OP0) /\ ~(opcode # "div" /\ WildAccess)
<1>1. Usable(OP0) /\ Usable(OP1) /\ TypeOK
  BY Fetched DEF IInv
<1>2. /\ Plain(OP1) \in Word /\ Rhs = {Plain(OP1)} /\ Readable(OP1)
      /\ Plain(OP0) \in Word /\ Old = {Plain(OP0)} /\ Readable(OP0)
  BY <1>1, PlainIsWord DEF Old, Rhs
<1>3. Writable(OP0)
  BY <1>2 DEF Writable
<1>4. Plain(OP0) = REG(OP0) /\ OP0.arg \in RegIndex
  BY <1>1 DEF Plain, Usable
<1>5. WildAccess => opcode = "div"
  BY <1>2, <1>3 DEF WildAccess, Fetch
<1> QED
  BY <1>2, <1>3, <1>4, <1>5

LEMMA StoreGives ==
  ASSUME NEW values, MEMORY_OR_REG_OP(values), OP0.type = "REG", OP0.arg \in RegIndex,
         NEW n \in Int, values = {n}
  PROVE  Gives(OP0.arg, ToWord(n))
<1>1. Store(OP0, ToWord(n))
  BY DEF MEMORY_OR_REG_OP
<1>2. registers' = [registers EXCEPT ![OP0.arg] = ToWord(n)]
  BY <1>1 DEF Store
<1> QED
  BY <1>2, ToWordIsWord DEF Gives, MEMORY_OR_REG_OP, Advance

LEMMA PlainStep ==
  ASSUME IInv, Next, NEW opcode \in {"mov", "add", "sub", "mul"}, NEW r, NEW src,
         At(I2(opcode, Reg(r), src)), src.type \in {"REG", "INT"}
  PROVE  /\ r \in RegIndex /\ registers[r] \in Word /\ Plain(src) \in Word
         /\ opcode = "mov" => Gives(r, Plain(src))
         /\ opcode = "add" => Gives(r, ToWord(registers[r] + Plain(src)))
         /\ opcode = "sub" => Gives(r, ToWord(registers[r] - Plain(src)))
         /\ opcode = "mul" => Gives(r, ToWord(registers[r] * Plain(src)))
<1>1. /\ In.opcode = opcode /\ Fetch(opcode) /\ opcode \in Arithmetic
      /\ OP0 = Reg(r) /\ OP1 = src /\ OP0.type = "REG" /\ OP0.arg = r
  BY DEF At, I2, Fetch, Arithmetic, OP0, OP1, Reg
<1>2. /\ OP0.arg \in RegIndex /\ REG(OP0) \in Word /\ Plain(OP1) \in Word
      /\ Old = {REG(OP0)} /\ Rhs = {Plain(OP1)}
      /\ ~(opcode # "div" /\ WildAccess)
  BY <1>1, PlainOperands
<1>3. REG(OP0) = registers[r]
  BY <1>1 DEF REG
<1> DEFINE a == registers[r]
           b == Plain(src)
<1>4. a \in Int /\ b \in Int /\ b \in Word
  BY <1>1, <1>2, <1>3 DEF Word
<1>5. Old = {a} /\ Rhs = {b}
  BY <1>1, <1>2, <1>3
<1>6. ASSUME opcode = "mov" PROVE Gives(r, b)
  <2>1. Mov
    BY <1>1, <1>2, <1>6, StepOf DEF At
  <2>2. MEMORY_OR_REG_OP(Rhs)
    BY <2>1 DEF Mov
  <2>3. Gives(r, ToWord(b))
    BY <1>1, <1>2, <1>4, <1>5, <2>2, StoreGives
  <2> QED
    BY <1>4, <2>3, WordUnchanged
<1>7. ASSUME opcode = "add" PROVE Gives(r, ToWord(a + b))
  <2>1. Add
    BY <1>1, <1>2, <1>7, StepOf DEF At
  <2> DEFINE values == {x + y : x \in Old, y \in Rhs}
  <2>2. MEMORY_OR_REG_OP(values)
    BY <2>1 DEF Add
  <2>3. values = {a + b} /\ a + b \in Int
    BY <1>4, <1>5
  <2> QED
    BY <1>1, <1>2, <2>2, <2>3, StoreGives
<1>8. ASSUME opcode = "sub" PROVE Gives(r, ToWord(a - b))
  <2>1. Sub
    BY <1>1, <1>2, <1>8, StepOf DEF At
  <2> DEFINE values == {x - y : x \in Old, y \in Rhs}
  <2>2. MEMORY_OR_REG_OP(values)
    BY <2>1 DEF Sub
  <2>3. values = {a - b} /\ a - b \in Int
    BY <1>4, <1>5
  <2> QED
    BY <1>1, <1>2, <2>2, <2>3, StoreGives
<1>9. ASSUME opcode = "mul" PROVE Gives(r, ToWord(a * b))
  <2>1. Mul
    BY <1>1, <1>2, <1>9, StepOf DEF At
  <2> DEFINE values == {x * y : x \in Old, y \in Rhs}
  <2>2. MEMORY_OR_REG_OP(values)
    BY <2>1 DEF Mul
  <2>3. values = {a * b} /\ a * b \in Int
    BY <1>4, <1>5
  <2> QED
    BY <1>1, <1>2, <2>2, <2>3, StoreGives
<1> QED
  BY <1>1, <1>2, <1>3, <1>6, <1>7, <1>8, <1>9

LEMMA DivStep ==
  ASSUME IInv, Next, NEW r, NEW src, At(I2("div", Reg(r), src)), src.type \in {"REG", "INT"}
  PROVE  /\ r \in RegIndex /\ registers[r] \in Word /\ Plain(src) \in Word
         /\ ToInt(Plain(src)) = 0 => Stop("division_by_zero")
         /\ ToInt(Plain(src)) # 0 =>
              IF registers[r] = MinWord /\ ToInt(Plain(src)) = -1
              THEN Stop("trap")
              ELSE Gives(r, TruncDiv(registers[r], ToInt(Plain(src))))
<1>1. /\ In.opcode = "div" /\ Fetch("div") /\ "div" \in Arithmetic
      /\ OP0 = Reg(r) /\ OP1 = src /\ OP0.type = "REG" /\ OP0.arg = r
  BY DEF At, I2, Fetch, Arithmetic, OP0, OP1, Reg
<1>2. /\ OP0.arg \in RegIndex /\ REG(OP0) \in Word /\ Plain(OP1) \in Word
      /\ Old = {REG(OP0)} /\ Rhs = {Plain(OP1)} /\ Readable(OP1) /\ Writable(OP0)
  BY <1>1, PlainOperands
<1>3. REG(OP0) = registers[r]
  BY <1>1 DEF REG
<1> DEFINE a == registers[r]
           d == ToInt(Plain(src))
<1>4. Old = {a} /\ Divisors = {d} /\ a \in Word /\ d \in Int
  BY <1>1, <1>2, <1>3, ToIntIsInt DEF Divisors, Word
<1>5. DivByZero \/ Div \/ WildAccess
  BY <1>1, StepOf DEF At
<1>6. WildAccess => FALSE
  BY <1>1, <1>2 DEF WildAccess, Fetch
<1> HIDE DEF d, a
<1>7. ASSUME d = 0 PROVE Stop("division_by_zero")
  BY <1>4, <1>5, <1>6, <1>7 DEF DivByZero, Div
<1>8. ASSUME d # 0, a = MinWord, d = -1 PROVE Stop("trap")
  BY <1>4, <1>5, <1>6, <1>8 DEF DivByZero, Div
<1>9. ASSUME d # 0, ~(a = MinWord /\ d = -1) PROVE Gives(r, TruncDiv(a, d))
  <2>1. Div
    BY <1>4, <1>5, <1>6, <1>9 DEF DivByZero
  <2>2. Store(OP0, TruncDiv(a, d)) /\ Advance /\ UNCHANGED <<cmp, stacks, msg, out>>
    BY <1>4, <1>9, <2>1 DEF Div
  <2>3. TruncDiv(a, d) \in Word
    BY <1>4, <1>9, QuotientIsWord
  <2>4. registers' = [registers EXCEPT ![r] = TruncDiv(a, d)]
    BY <1>1, <2>2 DEF Store
  <2> QED
    BY <1>1, <1>2, <2>2, <2>3, <2>4 DEF Gives, Advance
<1> QED
  BY <1>1, <1>2, <1>3, <1>7, <1>8, <1>9 DEF a, d

\* Without one of the actions that are not its own, an instruction's step is known.
LEMMA CmpStep ==
  ASSUME IInv, Next, NEW s, NEW t, At(I2("cmp", s, t))
  PROVE  /\ Plain(s) \in Word /\ Plain(t) \in Word
         /\ cmp' = ToWord(Plain(s) - Plain(t))
         /\ pc' = pc + 1
         /\ UNCHANGED <<prog, status, registers, stacks, msg, out, memory>>
<1>1. In.opcode = "cmp" /\ Fetch("cmp") /\ OP0 = s /\ OP1 = t
  BY DEF At, I2, Fetch, OP0, OP1
<1>2. TypeOK /\ Usable(s) /\ s.type \in {"REG", "INT"} /\ Usable(t) /\ t.type \in {"REG", "INT"}
  BY <1>1, Fetched DEF IInv
<1>3. /\ Plain(s) \in Word /\ Plain(t) \in Word
      /\ Old = {Plain(s)} /\ Rhs = {Plain(t)}
  BY <1>1, <1>2, PlainIsWord DEF Old, Rhs
<1>4. Cmp
  BY <1>1, StepOf DEF At
<1> QED
  BY <1>3, <1>4 DEF Cmp, Advance

\* A step that only moves pc.
Goes(target) ==
  pc' = target /\ UNCHANGED <<prog, status, registers, cmp, stacks, msg, out, memory>>

LEMMA JumpStep ==
  ASSUME IInv, Next, NEW opcode \in {"jmp", "jne", "je", "jge", "jg", "jle", "jl"}, NEW t,
         At(I1(opcode, To(t)))
  PROVE  /\ opcode = "jmp" => Goes(t)
         /\ opcode = "jne" => Goes(IF cmp # 0 THEN t ELSE pc + 1)
         /\ opcode = "je" => Goes(IF cmp = 0 THEN t ELSE pc + 1)
         /\ opcode = "jge" => Goes(IF cmp >= 0 THEN t ELSE pc + 1)
         /\ opcode = "jg" => Goes(IF cmp > 0 THEN t ELSE pc + 1)
         /\ opcode = "jle" => Goes(IF cmp <= 0 THEN t ELSE pc + 1)
         /\ opcode = "jl" => Goes(IF cmp < 0 THEN t ELSE pc + 1)
<1>1. In.opcode = opcode /\ OP0.arg = t
  BY DEF At, I1, OP0, To
<1>2. /\ opcode = "jmp" => Jmp
      /\ opcode = "jne" => Jne
      /\ opcode = "je" => Je
      /\ opcode = "jge" => Jge
      /\ opcode = "jg" => Jg
      /\ opcode = "jle" => Jle
      /\ opcode = "jl" => Jl
  BY <1>1, StepOf DEF At
<1> QED
  BY <1>1, <1>2 DEF Jmp, Jne, Je, Jge, Jg, Jle, Jl, BRANCH_IF, Goes

LEMMA CallStep ==
  ASSUME IInv, Next, NEW t, At(I1("call", To(t)))
  PROVE  IF call_stack_top >= MAX_CALL_STACK
         THEN Stop("callstack_overflow")
         ELSE /\ pc' = t
              /\ call_stack_top' = call_stack_top + 1
              /\ call_stack' = [call_stack EXCEPT ![call_stack_top] = pc + 1]
              /\ call_stack_top \in 0 .. MAX_CALL_STACK - 1
              /\ call_stack'[call_stack_top] = pc + 1
              /\ UNCHANGED <<prog, status, registers, cmp, stack, stack_top, msg, out>>
<1>1. In.opcode = "call" /\ OP0.arg = t
  BY DEF At, I1, OP0, To
<1>2. Call \/ CallOverflow
  BY <1>1, StepOf DEF At
<1>3. /\ call_stack_top \in Nat /\ MAX_CALL_STACK \in Nat
      /\ DOMAIN call_stack = 0 .. MAX_CALL_STACK - 1
  BY VmAssumption DEF IInv, TypeOK
<1> QED
  BY <1>1, <1>2, <1>3 DEF Call, CallOverflow

LEMMA RetStep ==
  ASSUME IInv, Next, At(I0("ret"))
  PROVE  IF call_stack_top = 0
         THEN Stop("callstack_underflow")
         ELSE /\ pc' = call_stack[call_stack_top - 1]
              /\ call_stack_top' = call_stack_top - 1
              /\ UNCHANGED <<prog, status, registers, cmp, call_stack, stack, stack_top, msg, out>>
<1>1. In.opcode = "ret"
  BY DEF At, I0
<1>2. Ret \/ RetUnderflow
  BY <1>1, StepOf DEF At
<1>3. call_stack_top \in Nat
  BY VmAssumption DEF IInv, TypeOK
<1> QED
  BY <1>2, <1>3 DEF Ret, RetUnderflow

LEMMA EndStep ==
  ASSUME IInv, Next, At(I0("end"))
  PROVE  Stop("ended")
<1>1. In.opcode = "end"
  BY DEF At, I0
<1>2. End
  BY <1>1, StepOf DEF At
<1> QED
  BY <1>2 DEF End

\* The texts of a message are its operands, if none is an address and no text
\* could be taken for that of an address.
LEMMA MsgStep ==
  ASSUME IInv, Next, status = "running", pc < Len(prog), In.opcode = "msg",
         In.operands # << >>,
         \A k \in DOMAIN In.operands : Text(In.operands[k]) # Unhandled
  PROVE  \/ Stop("undefined")
         \/ /\ msg' = [k \in DOMAIN In.operands |-> Text(In.operands[k])]
            /\ pc' = pc + 1
            /\ UNCHANGED <<prog, status, registers, cmp, stacks, out>>
<1>1. Msg \/ MsgOverflow
  BY StepOf
<1>2. CASE MsgOverflow
  BY <1>2 DEF MsgOverflow
<1>3. CASE Msg
  BY <1>3 DEF Msg, Advance
<1> QED
  BY <1>1, <1>2, <1>3

-----------------------------------------------------------------------------
(* Names of registers *)

Alphabet == <<"a", "b", "c", "d", "e", "f", "g", "h", "i", "j", "k", "l", "m", "n",
              "o", "p", "q", "r", "s", "t", "u", "v", "w", "x", "y", "z">>

LEMMA OfIs ==
  ASSUME NEW name, NEW n \in 0 .. 25, \A k \in 0 .. 25 : name = Alphabet[k + 1] <=> k = n
  PROVE  Of(name) = n
<1>1. Of(name) = CHOOSE k \in 0 .. 25 : name = Alphabet[k + 1]
  BY Zenon DEF Of, Alphabet
<1> QED
  BY <1>1

LEMMA Names ==
  R("a") = Reg(0) /\ R("b") = Reg(1) /\ R("c") = Reg(2) /\ R("d") = Reg(3)
<1>1. Of("a") = 0
  <2>1. \A k \in 0 .. 25 : "a" = Alphabet[k + 1] <=> k = 0
    BY DEF Alphabet
  <2> QED
    BY <2>1, OfIs
<1>2. Of("b") = 1
  <2>1. \A k \in 0 .. 25 : "b" = Alphabet[k + 1] <=> k = 1
    BY DEF Alphabet
  <2> QED
    BY <2>1, OfIs
<1>3. Of("c") = 2
  <2>1. \A k \in 0 .. 25 : "c" = Alphabet[k + 1] <=> k = 2
    BY DEF Alphabet
  <2> QED
    BY <2>1, OfIs
<1>4. Of("d") = 3
  <2>1. \A k \in 0 .. 25 : "d" = Alphabet[k + 1] <=> k = 3
    BY DEF Alphabet
  <2> QED
    BY <2>1, OfIs
<1> QED
  BY <1>1, <1>2, <1>3, <1>4 DEF R

LEMMA Literals ==
  ASSUME IInv, NEW i \in DOMAIN prog, NEW j \in DOMAIN prog[i].operands
  PROVE  LET op == prog[i].operands[j]
         IN  /\ op.type = "INT" => op.arg \in Word
             /\ op.type = "REG" => op.arg \in RegIndex
<1>1. prog \in Seq(Instruction) /\ Runnable(prog[i])
  BY ProgramsAssumption DEF IInv, TypeOK
<1>2. prog[i] \in Instruction /\ prog[i].operands \in Seq(Operand)
  <2>1. prog[i] \in Instruction
    BY <1>1
  <2> QED
    BY <2>1 DEF Instruction
<1>3. prog[i].operands[j] \in Operand
  BY <1>2
<1> QED
  BY <1>1, <1>3 DEF Runnable, Operand

-----------------------------------------------------------------------------
(* mod_func.asm *)

LEMMA ModCode ==
  ASSUME NEW x, NEW y, prog = ModFunc(x, y)
  PROVE  /\ Len(prog) = 11
         /\ prog[1] = I2("mov", Reg(0), Imm(x)) /\ prog[2] = I2("mov", Reg(1), Imm(y))
         /\ prog[3] = I1("call", To(5))
         /\ prog[4] = [opcode |-> "msg", operands |-> <<Str(S1), Reg(0), Reg(1), Reg(3)>>]
         /\ prog[5] = I0("end")
         /\ prog[6] = I2("mov", Reg(2), Reg(0)) /\ prog[7] = I2("div", Reg(2), Reg(1))
         /\ prog[8] = I2("mul", Reg(2), Reg(1)) /\ prog[9] = I2("mov", Reg(3), Reg(0))
         /\ prog[10] = I2("sub", Reg(3), Reg(2)) /\ prog[11] = I0("ret")
BY Names DEF ModFunc

LEMMA ModWords ==
  ASSUME IInv, NEW x, NEW y, prog = ModFunc(x, y)
  PROVE  x \in Word /\ y \in Word
<1>1. Len(prog) = 11 /\ prog \in Seq(Instruction)
  BY ModCode, ProgramsAssumption DEF IInv, TypeOK
<1>2. /\ 1 \in DOMAIN prog /\ prog[1].operands = <<Reg(0), Imm(x)>>
      /\ 2 \in DOMAIN prog /\ prog[2].operands = <<Reg(1), Imm(y)>>
  BY <1>1, ModCode DEF I2
<1>3. prog[1].operands[2] = Imm(x) /\ 2 \in DOMAIN prog[1].operands
      /\ prog[2].operands[2] = Imm(y) /\ 2 \in DOMAIN prog[2].operands
  BY <1>2
<1> QED
  BY <1>2, <1>3, Literals DEF Imm

Quotient(x, y) == TruncDiv(x, y)

Remainder(x, y) == x - Quotient(x, y) * y

\* The division of x by y neither fails nor traps.
Divides(x, y) == y # 0 /\ ~(x = MinWord /\ y = -1)

LEMMA QuotientWords ==
  ASSUME NEW x \in Word, NEW y \in Word, Divides(x, y)
  PROVE  Quotient(x, y) * y \in Word /\ Remainder(x, y) \in Word
<1> DEFINE p == Quotient(x, y) * y
           d == Remainder(x, y)
<1>1. x \in Int /\ y \in Int \ {0} /\ WordHalf \in Nat \ {0}
  BY WordsAssumption DEF Word, Divides
<1>2. IF x < 0 THEN p \in x .. 0 /\ d \in x .. 0 ELSE p \in 0 .. x /\ d \in 0 .. x
  BY <1>1, RemainderIs DEF Quotient, Remainder
<1> HIDE DEF p, d
<1>3. p \in Word /\ d \in Word
  BY <1>1, <1>2 DEF Word
<1> QED
  BY <1>3 DEF p, d

\* What the registers and the call stack hold where the run of ModFunc(x, y) is.
ModRunning(x, y) ==
  /\ status = "running"
  /\ pc \in 0 .. 10
  /\ pc >= 1 => registers[0] = x
  /\ pc >= 2 => registers[1] = y
  /\ pc <= 4 => call_stack_top = 0
  /\ pc >= 5 => call_stack_top = 1 /\ call_stack[0] = 3
  /\ pc = 6 => registers[2] = x
  /\ pc \in {3, 4} \cup 7 .. 10 => Divides(x, y)
  /\ pc = 7 => registers[2] = Quotient(x, y)
  /\ pc \in {8, 9} => registers[2] = Quotient(x, y) * y
  /\ pc = 9 => registers[3] = x
  /\ pc \in {3, 4, 10} => registers[3] = Remainder(x, y)

ModStopped(x, y) ==
  \/ status = "division_by_zero" /\ y = 0
  \/ status = "trap" /\ x = MinWord /\ y = -1
  \/ status = "ended" /\ Divides(x, y) /\ registers[3] = Remainder(x, y)
  \/ status = "undefined" /\ In.opcode = "msg"

ModInv(x, y) == prog = ModFunc(x, y) => ModRunning(x, y) \/ ModStopped(x, y)

LEMMA ModInit ==
  ASSUME Init, NEW x, NEW y
  PROVE  ModInv(x, y)
BY DEF Init, ModInv, ModRunning

\* Reading and writing registers.
LEMMA ReadsRegister == \A r : Plain(Reg(r)) = registers[r] /\ Reg(r).type = "REG"
BY DEF Plain, Reg, REG

LEMMA ReadsLiteral == \A n : Plain(Imm(n)) = n /\ Imm(n).type = "INT"
BY DEF Plain, Imm

LEMMA Given ==
  ASSUME IInv, NEW r, NEW v, Gives(r, v)
  PROVE  /\ registers'[r] = v
         /\ \A s \in RegIndex \ {r} : registers'[s] = registers[s]
         /\ pc' = pc + 1 /\ status' = status /\ prog' = prog /\ cmp' = cmp
         /\ call_stack' = call_stack /\ call_stack_top' = call_stack_top /\ msg' = msg
         /\ stack' = stack /\ stack_top' = stack_top /\ out' = out
BY DEF Gives, IInv, TypeOK, stacks

LEMMA ModStep ==
  ASSUME IInv, Next, NEW x, NEW y \in -IntHalf .. IntHalf - 1, prog = ModFunc(x, y),
         ModRunning(x, y)
  PROVE  ModRunning(x, y)' \/ ModStopped(x, y)'
<1>1. x \in Word /\ y \in Word /\ x \in Int /\ y \in Int
  BY ModWords DEF Word
<1>2. pc \in 0 .. 10 /\ status = "running" /\ Len(prog) = 11 /\ pc < Len(prog)
  <2>1. Len(prog) = 11
    BY ModCode
  <2> QED
    BY <2>1 DEF ModRunning
<1>3. {0, 1, 2, 3} \subseteq RegIndex
  <2>1. 9 \in DOMAIN prog /\ 1 \in DOMAIN prog[9].operands /\ prog[9].operands[1] = Reg(3)
    <3>1. prog[9] = I2("mov", Reg(3), Reg(0)) /\ prog \in Seq(Instruction)
      BY ModCode, ProgramsAssumption DEF IInv, TypeOK
    <3>2. prog[9].operands = <<Reg(3), Reg(0)>>
      BY <3>1 DEF I2
    <3> QED
      BY <1>2, <3>1, <3>2
  <2>2. 3 \in RegIndex
    BY <2>1, Literals DEF Reg
  <2> QED
    BY <2>2, ProgramAssumption DEF RegIndex
<1>4. CASE pc = 0
  <2>1. At(I2("mov", Reg(0), Imm(x)))
    BY <1>2, <1>4, ModCode DEF At, In
  <2>2. Gives(0, x)
    BY <2>1, PlainStep, ReadsLiteral
  <2> QED
    BY <1>3, <1>4, <2>2, Given DEF ModRunning
<1>5. CASE pc = 1
  <2>1. At(I2("mov", Reg(1), Imm(y)))
    BY <1>2, <1>5, ModCode DEF At, In
  <2>2. Gives(1, y)
    BY <2>1, PlainStep, ReadsLiteral
  <2> QED
    BY <1>3, <1>5, <2>2, Given DEF ModRunning
<1>6. CASE pc = 2
  <2>1. At(I1("call", To(5)))
    BY <1>2, <1>6, ModCode DEF At, In
  <2>2. call_stack_top = 0 /\ MAX_CALL_STACK \in Nat \ {0}
    BY <1>6, VmAssumption DEF ModRunning
  <2>3. /\ pc' = 5 /\ call_stack_top' = 1 /\ call_stack'[0] = 3
        /\ UNCHANGED <<prog, status, registers>>
    BY <1>6, <2>1, <2>2, CallStep
  <2> QED
    BY <1>2, <1>6, <2>3 DEF ModRunning
<1>7. CASE pc = 3
  <2> DEFINE ops == <<Str(S1), Reg(0), Reg(1), Reg(3)>>
  <2>1. In = [opcode |-> "msg", operands |-> ops]
    BY <1>2, <1>7, ModCode DEF In
  <2>2. In.opcode = "msg"
    BY <2>1
  <2>3. Msg \/ MsgOverflow
    BY <1>2, <2>2, StepOf
  <2>4. CASE Msg
    BY <1>7, <2>4 DEF Msg, Advance, ModRunning, stacks
  <2>5. CASE MsgOverflow
    <3>1. In' = In
      BY <2>5 DEF MsgOverflow, Stop, In
    <3> QED
      BY <2>2, <2>5, <3>1 DEF MsgOverflow, Stop, ModStopped
  <2> QED
    BY <2>3, <2>4, <2>5
<1>8. CASE pc = 4
  <2>1. At(I0("end"))
    BY <1>2, <1>8, ModCode DEF At, In
  <2> QED
    BY <1>8, <2>1, EndStep DEF Stop, ModRunning, ModStopped
<1>9. CASE pc = 5
  <2>1. At(I2("mov", Reg(2), Reg(0)))
    BY <1>2, <1>9, ModCode DEF At, In
  <2>2. Gives(2, registers[0])
    BY <2>1, PlainStep, ReadsRegister
  <2> QED
    BY <1>3, <1>9, <2>2, Given DEF ModRunning
<1>10. CASE pc = 6
  <2>1. At(I2("div", Reg(2), Reg(1)))
    BY <1>2, <1>10, ModCode DEF At, In
  <2>2. registers[2] = x /\ Plain(Reg(1)) = y /\ ToInt(y) = y
    BY <1>10, ReadsRegister, IntUnchanged DEF ModRunning
  <2>3. CASE y = 0
    BY <1>10, <2>1, <2>2, <2>3, DivStep, ReadsRegister DEF Stop, ModStopped
  <2>4. CASE x = MinWord /\ y = -1
    BY <1>10, <2>1, <2>2, <2>4, DivStep, ReadsRegister DEF Stop, ModStopped
  <2>5. CASE Divides(x, y)
    <3>1. Gives(2, Quotient(x, y))
      BY <2>1, <2>2, <2>5, DivStep, ReadsRegister DEF Divides, Quotient
    <3> QED
      BY <1>3, <1>10, <2>5, <3>1, Given DEF ModRunning
  <2> QED
    BY <2>3, <2>4, <2>5 DEF Divides
<1>11. CASE pc = 7
  <2>1. At(I2("mul", Reg(2), Reg(1)))
    BY <1>2, <1>11, ModCode DEF At, In
  <2>2. /\ Divides(x, y) /\ registers[2] = Quotient(x, y) /\ registers[1] = y
    BY <1>11 DEF ModRunning
  <2>3. Gives(2, ToWord(Quotient(x, y) * y))
    BY <2>1, <2>2, PlainStep, ReadsRegister
  <2>4. Quotient(x, y) * y \in Word
    BY <1>1, <2>2, QuotientWords
  <2>5. Gives(2, Quotient(x, y) * y)
    BY <2>3, <2>4, WordUnchanged
  <2> QED
    BY <1>3, <1>11, <2>2, <2>5, Given DEF ModRunning
<1>12. CASE pc = 8
  <2>1. At(I2("mov", Reg(3), Reg(0)))
    BY <1>2, <1>12, ModCode DEF At, In
  <2>2. Gives(3, registers[0])
    BY <2>1, PlainStep, ReadsRegister
  <2> QED
    BY <1>3, <1>12, <2>2, Given DEF ModRunning
<1>13. CASE pc = 9
  <2>1. At(I2("sub", Reg(3), Reg(2)))
    BY <1>2, <1>13, ModCode DEF At, In
  <2>2. /\ Divides(x, y) /\ registers[2] = Quotient(x, y) * y /\ registers[3] = x
    BY <1>13 DEF ModRunning
  <2>3. Gives(3, ToWord(Remainder(x, y)))
    BY <2>1, <2>2, PlainStep, ReadsRegister DEF Remainder
  <2>4. Remainder(x, y) \in Word
    BY <1>1, <2>2, QuotientWords
  <2>5. Gives(3, Remainder(x, y))
    BY <2>3, <2>4, WordUnchanged
  <2> QED
    BY <1>3, <1>13, <2>2, <2>5, Given DEF ModRunning
<1>14. CASE pc = 10
  <2>1. At(I0("ret"))
    BY <1>2, <1>14, ModCode DEF At, In
  <2>2. pc' = 3 /\ call_stack_top' = 0 /\ UNCHANGED <<prog, status, registers>>
    BY <1>14, <2>1, RetStep DEF ModRunning
  <2> QED
    BY <1>14, <2>2 DEF ModRunning
<1> QED
  BY <1>2, <1>4, <1>5, <1>6, <1>7, <1>8, <1>9, <1>10, <1>11, <1>12, <1>13, <1>14

\* Nothing follows the end of a run, and the program is not changed.
LEMMA OnlyHalted ==
  ASSUME status # "running", [Next]_vars
  PROVE  UNCHANGED vars
<1>1. ~(Mov \/ Add \/ Sub \/ Mul \/ Inc \/ Dec \/ DivByZero \/ Div \/ WildAccess \/ Cmp)
  BY DEF Mov, Add, Sub, Mul, Inc, Dec, DivByZero, Div, WildAccess, Cmp, FetchReadable, Fetch
<1>2. ~(Jmp \/ Jne \/ Je \/ Jge \/ Jg \/ Jle \/ Jl)
  BY DEF Jmp, Jne, Je, Jge, Jg, Jle, Jl, Fetch
<1>3. ~(CallOverflow \/ Call \/ RetUnderflow \/ Ret \/ PushOverflow \/ Push \/ PopUnderflow \/ Pop)
  BY DEF CallOverflow, Call, RetUnderflow, Ret, PushOverflow, Push, PopUnderflow, Pop, Fetch
<1>4. ~(Msg \/ MsgOverflow \/ PrintTexts \/ Malloc \/ Mfree \/ BadFree \/ End \/ RunOff)
  BY DEF Msg, MsgOverflow, PrintTexts, Malloc, Mfree, BadFree, End, RunOff, Fetch
<1> QED
  BY <1>1, <1>2, <1>3, <1>4 DEF Next, Halted

LEMMA SameProgram ==
  ASSUME [Next]_vars
  PROVE  prog' = prog
<1>1. CASE Mov \/ Add \/ Sub \/ Mul \/ Inc \/ Dec \/ Div
  BY <1>1 DEF Mov, Add, Sub, Mul, Inc, Dec, Div, MEMORY_OR_REG_OP, Advance, Stop
<1>2. CASE Cmp \/ Msg \/ PrintTexts \/ Malloc \/ Mfree \/ Push \/ Pop
  BY <1>2 DEF Cmp, Msg, PrintTexts, Malloc, Mfree, Push, Pop, Advance
<1>3. CASE Jmp \/ Jne \/ Je \/ Jge \/ Jg \/ Jle \/ Jl \/ Call \/ Ret
  BY <1>3 DEF Jmp, Jne, Je, Jge, Jg, Jle, Jl, Call, Ret, BRANCH_IF
<1>4. CASE DivByZero \/ WildAccess \/ CallOverflow \/ RetUnderflow \/ PushOverflow
           \/ PopUnderflow \/ MsgOverflow \/ BadFree \/ End \/ RunOff
  BY <1>4 DEF DivByZero, WildAccess, CallOverflow, RetUnderflow, PushOverflow, PopUnderflow,
              MsgOverflow, BadFree, End, RunOff, Stop
<1>5. CASE UNCHANGED vars
  BY <1>5 DEF vars
<1> QED
  BY <1>1, <1>2, <1>3, <1>4, <1>5 DEF Next, Halted

LEMMA ModStays ==
  ASSUME NEW x, NEW y, prog = ModFunc(x, y), ModStopped(x, y), [Next]_vars
  PROVE  ModStopped(x, y)'
<1>1. status # "running"
  BY DEF ModStopped
<1>2. UNCHANGED vars
  BY <1>1, OnlyHalted
<1> QED
  BY <1>2 DEF ModStopped, vars, In

LEMMA ModKeeps ==
  ASSUME IInv, [Next]_vars, NEW x, NEW y \in -IntHalf .. IntHalf - 1, ModInv(x, y)
  PROVE  ModInv(x, y)'
<1>1. SUFFICES ASSUME prog' = ModFunc(x, y) PROVE (ModRunning(x, y) \/ ModStopped(x, y))'
  BY DEF ModInv
<1>2. prog = ModFunc(x, y)
  BY <1>1, SameProgram
<1>3. CASE ModRunning(x, y) /\ Next
  BY <1>2, <1>3, ModStep
<1>4. CASE ModRunning(x, y) /\ UNCHANGED vars
  BY <1>4 DEF ModRunning, vars, stacks
<1>5. CASE ModStopped(x, y)
  BY <1>2, <1>5, ModStays
<1> QED
  BY <1>2, <1>3, <1>4, <1>5 DEF ModInv

\* The run was left at a message that does not fit its buffer: C says nothing of
\* what follows.
MessageUnfinished == status = "undefined" /\ In.opcode = "msg"

\* What RemainderResult says of two values.
RemainderOf(x, y) ==
  CASE y = 0 -> status = "division_by_zero"
    [] x = MinWord /\ y = -1 -> status = "trap"
    [] OTHER -> /\ status = "ended"
                /\ Abs(Result("d")) < Abs(y)
                /\ (x - Result("d")) % Abs(y) = 0
                /\ (Result("d") # 0 => (Result("d") < 0) = (x < 0))

LEMMA ModComputes ==
  ASSUME NEW x \in Int, NEW y \in Int, prog = ModFunc(x, y), ModStopped(x, y),
         ~MessageUnfinished
  PROVE  RemainderOf(x, y)
<1>1. Result("d") = registers[3]
  BY Names DEF Result, R, Reg
<1>2. CASE y = 0
  BY <1>2, WordsAssumption DEF ModStopped, MessageUnfinished, Divides, RemainderOf
<1>3. CASE x = MinWord /\ y = -1
  BY <1>3, WordsAssumption DEF ModStopped, MessageUnfinished, Divides, RemainderOf
<1>4. CASE Divides(x, y)
  <2>1. status = "ended" /\ registers[3] = Remainder(x, y)
    BY <1>4 DEF ModStopped, MessageUnfinished, Divides
  <2> DEFINE d == Remainder(x, y)
  <2>2. d \in Int /\ Abs(d) < Abs(y) /\ (x - d) % Abs(y) = 0
    BY <1>4, RemainderIs DEF Divides, Remainder, Quotient
  <2>3. IF x < 0 THEN d \in x .. 0 ELSE d \in 0 .. x
    BY <1>4, RemainderIs DEF Divides, Remainder, Quotient
  <2> HIDE DEF d
  <2>4. d # 0 => (d < 0) = (x < 0)
    BY <2>2, <2>3
  <2> QED
    BY <1>1, <1>4, <2>1, <2>2, <2>4 DEF Divides, RemainderOf, d
<1> QED
  BY <1>2, <1>3, <1>4 DEF Divides

\* mod_func.asm leaves the remainder of C's division in d, for every two values,
\* words of any width and every divisor an int can hold; the message it ends with
\* may be too long.
THEOREM RemainderOfAnyTwo ==
  ASSUME NEW x \in Int, NEW y \in -IntHalf .. IntHalf - 1
  PROVE  Spec => [](Stopped /\ prog = ModFunc(x, y) => RemainderOf(x, y) \/ MessageUnfinished)
<1>1. Init => ModInv(x, y)
  BY ModInit
<1>2. IInv /\ [Next]_vars /\ ModInv(x, y) => ModInv(x, y)'
  BY ModKeeps
<1>3. ModInv(x, y) => (Stopped /\ prog = ModFunc(x, y) => RemainderOf(x, y) \/ MessageUnfinished)
  <2> SUFFICES ASSUME ModInv(x, y), ~MessageUnfinished, Stopped, prog = ModFunc(x, y)
               PROVE  RemainderOf(x, y)
    OBVIOUS
  <2>1. ModStopped(x, y)
    BY DEF ModInv, ModRunning, Stopped
  <2>2. y \in Int
    BY WordsAssumption
  <2> QED
    BY <2>1, <2>2, ModComputes
<1> QED
  BY <1>1, <1>2, <1>3, Invariance, PTL DEF Spec

\* The same of the values RemainderResult names.
THEOREM RemainderComputed ==
  ASSUME DivisorValues \subseteq -IntHalf .. IntHalf - 1
  PROVE  Spec => [](RemainderResult \/ MessageUnfinished)
<1> DEFINE All == \A x \in Dividends, y \in DivisorValues : ModInv(x, y)
<1>1. Init => All
  BY ModInit
<1>2. IInv /\ [Next]_vars /\ All => All'
  BY ModKeeps
<1>3. All => RemainderResult \/ MessageUnfinished
  <2>1. ASSUME All, ~MessageUnfinished, Stopped,
               NEW x \in Dividends, NEW y \in DivisorValues, prog = ModFunc(x, y)
        PROVE  RemainderOf(x, y)
    <3>1. ModStopped(x, y)
      BY <2>1 DEF ModInv, ModRunning, Stopped
    <3>2. x \in Int /\ y \in Int
      BY DEF Dividends, DivisorValues
    <3> QED
      BY <2>1, <3>1, <3>2, ModComputes
  <2> QED
    BY <2>1 DEF RemainderResult, RemainderOf
<1> QED
  BY <1>1, <1>2, <1>3, Invariance, PTL DEF Spec

-----------------------------------------------------------------------------
(* The programs that show an error, and the test of the branches *)

LEMMA RunOffStep ==
  ASSUME IInv, Next, status = "running", pc >= Len(prog)
  PROVE  Stop("ended")
<1>1. pc \in Nat /\ Len(prog) \in Nat /\ ~(pc < Len(prog))
  BY ProgramsAssumption DEF IInv, TypeOK
<1>2. ~(Mov \/ Add \/ Sub \/ Mul \/ Inc \/ Dec \/ DivByZero \/ Div \/ WildAccess \/ Cmp)
  BY <1>1 DEF Mov, Add, Sub, Mul, Inc, Dec, DivByZero, Div, WildAccess, Cmp, FetchReadable, Fetch
<1>3. ~(Jmp \/ Jne \/ Je \/ Jge \/ Jg \/ Jle \/ Jl)
  BY <1>1 DEF Jmp, Jne, Je, Jge, Jg, Jle, Jl, Fetch
<1>4. ~(CallOverflow \/ Call \/ RetUnderflow \/ Ret \/ PushOverflow \/ Push \/ PopUnderflow \/ Pop)
  BY <1>1 DEF CallOverflow, Call, RetUnderflow, Ret, PushOverflow, Push, PopUnderflow, Pop, Fetch
<1>5. ~(Msg \/ MsgOverflow \/ PrintTexts \/ Malloc \/ Mfree \/ BadFree \/ End)
  BY <1>1 DEF Msg, MsgOverflow, PrintTexts, Malloc, Mfree, BadFree, End, Fetch
<1> QED
  BY <1>1, <1>2, <1>3, <1>4, <1>5 DEF Next, Halted, RunOff

LEMMA DecStep ==
  ASSUME IInv, Next, NEW r, At(I1("dec", Reg(r)))
  PROVE  r \in RegIndex /\ registers[r] \in Word /\ Gives(r, ToWord(registers[r] - 1))
<1>1. In.opcode = "dec" /\ Fetch("dec") /\ OP0 = Reg(r) /\ OP0.type = "REG" /\ OP0.arg = r
  BY DEF At, I1, OP0, Reg, Fetch
<1>2. Usable(OP0) /\ TypeOK
  BY <1>1, Fetched DEF IInv, OneRegister
<1>3. r \in RegIndex /\ registers[r] \in Word
  BY <1>1, <1>2 DEF Usable, TypeOK
<1>4. Old = {registers[r]} /\ registers[r] \in Int
  BY <1>1, <1>3 DEF Old, REG_OR_INT_OR_MEM, REG, Word
<1>5. Dec
  BY <1>1, StepOf DEF At
<1> DEFINE values == {x - 1 : x \in Old}
<1>6. MEMORY_OR_REG_OP(values)
  BY <1>5 DEF Dec
<1>7. values = {registers[r] - 1} /\ registers[r] - 1 \in Int
  BY <1>4
<1> QED
  BY <1>1, <1>3, <1>6, <1>7, StoreGives

\* A message of one string is that string.
LEMMA StringMsgStep ==
  ASSUME IInv, Next, At(I1("msg", Str(S1))), S1 # Unhandled
  PROVE  \/ Stop("undefined")
         \/ /\ msg' = <<S1>> /\ pc' = pc + 1
            /\ UNCHANGED <<prog, status, registers, cmp, stacks, out>>
<1>1. /\ In.opcode = "msg" /\ In.operands = <<Str(S1)>> /\ In.operands # << >>
      /\ DOMAIN In.operands = {1} /\ In.operands[1] = Str(S1)
  BY DEF At, I1
<1>2. \A k \in DOMAIN In.operands : Text(In.operands[k]) = S1
  BY <1>1 DEF Text, Str
<1>3. [k \in DOMAIN In.operands |-> Text(In.operands[k])] = <<S1>>
  <2>1. DOMAIN In.operands = 1 .. 1
    BY <1>1
  <2> QED
    BY <1>2, <2>1
<1>4. \A k \in DOMAIN In.operands : Text(In.operands[k]) # Unhandled
  BY <1>2
<1> QED
  BY <1>1, <1>3, <1>4, MsgStep DEF At

\* stack_overflow.asm calls itself.
OverflowInv ==
  prog = StackOverflow =>
    status = "callstack_overflow" \/ (status = "running" /\ pc = 0)

LEMMA OverflowKeeps ==
  ASSUME IInv, [Next]_vars, OverflowInv
  PROVE  OverflowInv'
<1>1. SUFFICES ASSUME prog' = StackOverflow
               PROVE  (status = "callstack_overflow" \/ (status = "running" /\ pc = 0))'
  BY DEF OverflowInv
<1>2. prog = StackOverflow
  BY <1>1, SameProgram
<1>3. CASE status = "running" /\ pc = 0 /\ Next
  <2>1. prog[1] = I1("call", To(0)) /\ Len(prog) = 2
    BY <1>2 DEF StackOverflow
  <2>2. At(I1("call", To(0)))
    BY <1>3, <2>1 DEF At, In
  <2> QED
    BY <1>3, <2>2, CallStep DEF Stop
<1>4. CASE UNCHANGED vars
  BY <1>2, <1>4 DEF vars, OverflowInv
<1>5. CASE status = "callstack_overflow"
  BY <1>5, OnlyHalted DEF vars
<1> QED
  BY <1>2, <1>3, <1>4, <1>5 DEF OverflowInv

\* div_by_zero.asm counts its divisor down to zero.
DivByZeroInv ==
  prog = DivByZeroAsm =>
    \/ status = "division_by_zero"
    \/ /\ status = "running" /\ pc \in 0 .. 4
       /\ pc >= 1 => registers[0] \in 0 .. 5
       /\ pc = 3 => registers[0] # 0

LEMMA DivByZeroKeeps ==
  ASSUME IntHalf > 5, IInv, [Next]_vars, DivByZeroInv
  PROVE  DivByZeroInv'
<1>1. SUFFICES ASSUME prog' = DivByZeroAsm
               PROVE  \/ status' = "division_by_zero"
                      \/ /\ status' = "running" /\ pc' \in 0 .. 4
                         /\ pc' >= 1 => registers'[0] \in 0 .. 5
                         /\ pc' = 3 => registers'[0] # 0
  BY DEF DivByZeroInv
<1>2. prog = DivByZeroAsm
  BY <1>1, SameProgram
<1>3. /\ Len(prog) = 6
      /\ prog[1] = I2("mov", Reg(0), Imm(5)) /\ prog[2] = I2("mov", Reg(1), Imm(30))
      /\ prog[3] = I2("div", Reg(1), Reg(0)) /\ prog[4] = I1("dec", Reg(0))
      /\ prog[5] = I1("jmp", To(2))
  BY <1>2, Names DEF DivByZeroAsm
<1>4. CASE status = "running" /\ pc = 0 /\ Next
  <2>1. At(I2("mov", Reg(0), Imm(5)))
    BY <1>3, <1>4 DEF At, In
  <2>2. Gives(0, 5)
    BY <1>4, <2>1, PlainStep, ReadsLiteral
  <2> QED
    BY <1>4, <2>2, Given
<1>5. CASE status = "running" /\ pc = 1 /\ registers[0] \in 0 .. 5 /\ Next
  <2>1. At(I2("mov", Reg(1), Imm(30)))
    BY <1>3, <1>5 DEF At, In
  <2>2. Gives(1, 30)
    BY <1>5, <2>1, PlainStep, ReadsLiteral
  <2>3. 0 \in RegIndex
    BY ProgramAssumption DEF RegIndex
  <2> QED
    BY <1>5, <2>2, <2>3, Given
<1>6. CASE status = "running" /\ pc = 2 /\ registers[0] \in 0 .. 5 /\ Next
  <2>1. At(I2("div", Reg(1), Reg(0)))
    BY <1>3, <1>6 DEF At, In
  <2>2. Plain(Reg(0)) = registers[0] /\ ToInt(registers[0]) = registers[0]
    BY <1>6, ReadsRegister, IntUnchanged, WordsAssumption
  <2>3. CASE registers[0] = 0
    BY <1>6, <2>1, <2>2, <2>3, DivStep, ReadsRegister DEF Stop
  <2>4. CASE registers[0] # 0
    <3>1. \E v : Gives(1, v)
      BY <1>6, <2>1, <2>2, <2>4, DivStep, ReadsRegister
    <3>2. 0 \in RegIndex
      BY ProgramAssumption DEF RegIndex
    <3> QED
      BY <1>6, <2>4, <3>1, <3>2, Given
  <2> QED
    BY <2>3, <2>4
<1>7. CASE status = "running" /\ pc = 3 /\ registers[0] \in 1 .. 5 /\ Next
  <2>1. At(I1("dec", Reg(0)))
    BY <1>3, <1>7 DEF At, In
  <2>2. registers[0] \in Word /\ Gives(0, ToWord(registers[0] - 1))
    BY <1>7, <2>1, DecStep
  <2>3. registers[0] - 1 \in Word /\ registers[0] - 1 \in 0 .. 5
    BY <1>7, <2>2, WordsAssumption DEF Word
  <2>4. Gives(0, registers[0] - 1)
    BY <2>2, <2>3, WordUnchanged
  <2> QED
    BY <1>7, <2>3, <2>4, Given
<1>8. CASE status = "running" /\ pc = 4 /\ registers[0] \in 0 .. 5 /\ Next
  <2>1. At(I1("jmp", To(2)))
    BY <1>3, <1>8 DEF At, In
  <2>2. Goes(2)
    BY <1>8, <2>1, JumpStep
  <2> QED
    BY <1>8, <2>2 DEF Goes
<1>9. CASE UNCHANGED vars
  BY <1>2, <1>9 DEF vars, DivByZeroInv
<1>10. CASE status = "division_by_zero"
  BY <1>10, OnlyHalted DEF vars
<1> QED
  BY <1>2, <1>4, <1>5, <1>6, <1>7, <1>8, <1>9, <1>10 DEF DivByZeroInv

\* stack_underflow.asm runs a subroutine: a jmp leaves its ret nothing to return
\* to, a call does.
UnderflowInv(branch) ==
  prog = StackUnderflow(branch) =>
    \/ /\ status = "running" /\ pc = 0 /\ call_stack_top = 0
    \/ /\ status = "running" /\ pc \in {2, 3} /\ (pc = 3 => msg = <<S1>>)
       /\ branch = "jmp" => call_stack_top = 0
       /\ branch = "call" => call_stack_top = 1 /\ call_stack[0] = 1
    \/ branch = "call" /\ status = "running" /\ pc = 1 /\ msg = <<S1>>
    \/ branch = "jmp" /\ status = "callstack_underflow"
    \/ branch = "call" /\ status = "ended" /\ msg = <<S1>>
    \/ MessageUnfinished

LEMMA UnderflowKeeps ==
  ASSUME S1 # Unhandled, IInv, [Next]_vars, NEW branch \in {"jmp", "call"}, UnderflowInv(branch)
  PROVE  UnderflowInv(branch)'
<1>1. SUFFICES ASSUME prog' = StackUnderflow(branch)
               PROVE  UnderflowInv(branch)'
  BY DEF UnderflowInv
<1>2. prog = StackUnderflow(branch)
  BY <1>1, SameProgram
<1>3. /\ Len(prog) = 4
      /\ prog[1] = I1(branch, To(2)) /\ prog[2] = I0("end")
      /\ prog[3] = I1("msg", Str(S1)) /\ prog[4] = I0("ret")
  BY <1>2 DEF StackUnderflow
<1>4. CASE status = "running" /\ pc = 0 /\ call_stack_top = 0 /\ Next
  <2>1. At(I1(branch, To(2)))
    BY <1>3, <1>4 DEF At, In
  <2>2. CASE branch = "jmp"
    <3>1. Goes(2)
      BY <1>4, <2>1, <2>2, JumpStep
    <3> QED
      BY <1>4, <2>2, <3>1 DEF Goes, stacks, UnderflowInv
  <2>3. CASE branch = "call"
    <3>1. /\ pc' = 2 /\ call_stack_top' = 1 /\ call_stack'[0] = 1 /\ status' = status
      BY <1>4, <2>1, <2>3, CallStep, VmAssumption
    <3> QED
      BY <1>4, <2>3, <3>1 DEF UnderflowInv
  <2> QED
    BY <2>2, <2>3
<1>5. CASE /\ status = "running" /\ pc = 2 /\ Next
           /\ branch = "jmp" => call_stack_top = 0
           /\ branch = "call" => call_stack_top = 1 /\ call_stack[0] = 1
  <2>1. At(I1("msg", Str(S1)))
    BY <1>3, <1>5 DEF At, In
  <2>2. CASE Stop("undefined")
    <3>1. In' = In
      BY <2>2 DEF Stop, In
    <3> QED
      BY <2>1, <2>2, <3>1 DEF Stop, UnderflowInv, MessageUnfinished, At, I1
  <2>3. CASE /\ msg' = <<S1>> /\ pc' = pc + 1
             /\ UNCHANGED <<prog, status, registers, cmp, stacks, out>>
    BY <1>5, <2>3 DEF stacks, UnderflowInv
  <2> QED
    BY <1>5, <2>1, <2>2, <2>3, StringMsgStep
<1>6. CASE /\ status = "running" /\ pc = 3 /\ msg = <<S1>> /\ Next
           /\ branch = "jmp" => call_stack_top = 0
           /\ branch = "call" => call_stack_top = 1 /\ call_stack[0] = 1
  <2>1. At(I0("ret"))
    BY <1>3, <1>6 DEF At, In
  <2>2. CASE branch = "jmp"
    BY <1>6, <2>1, <2>2, RetStep DEF Stop, UnderflowInv
  <2>3. CASE branch = "call"
    <3>1. pc' = 1 /\ UNCHANGED <<status, msg>>
      BY <1>6, <2>1, <2>3, RetStep
    <3> QED
      BY <1>6, <2>3, <3>1 DEF UnderflowInv
  <2> QED
    BY <2>2, <2>3
<1>7. CASE branch = "call" /\ status = "running" /\ pc = 1 /\ msg = <<S1>> /\ Next
  <2>1. At(I0("end"))
    BY <1>3, <1>7 DEF At, In
  <2> QED
    BY <1>7, <2>1, EndStep DEF Stop, UnderflowInv
<1>8. CASE UNCHANGED vars
  <2>1. In' = In
    BY <1>8 DEF vars, In
  <2> QED
    BY <1>2, <1>8, <2>1 DEF vars, stacks, UnderflowInv, MessageUnfinished
<1>9. CASE status # "running"
  BY <1>8, <1>9, OnlyHalted
<1> QED
  BY <1>2, <1>4, <1>5, <1>6, <1>7, <1>8, <1>9 DEF UnderflowInv, MessageUnfinished

\* The test of the branches takes each of its branches, past the text of failure.
BranchTestInv ==
  prog = BranchTest =>
    \/ /\ status = "running"
       /\ pc \in {0, 1, 4, 5, 6, 9, 10, 11, 14, 15, 16, 19, 20, 23, 24}
       /\ pc = 1 => cmp = 1
       /\ pc = 6 => cmp = -1
       /\ pc \in {11, 16} => cmp = 0
       /\ pc = 24 => msg = <<S1>>
    \/ status = "ended" /\ msg = <<S1>>
    \/ MessageUnfinished

LEMMA BranchTestCode ==
  ASSUME prog = BranchTest
  PROVE  /\ Len(prog) = 24
         /\ prog[1] = I2("cmp", Imm(2), Imm(1)) /\ prog[2] = I1("jg", To(4))
         /\ prog[5] = I1("msg", Str(S1))
         /\ prog[6] = I2("cmp", Imm(1), Imm(2)) /\ prog[7] = I1("jl", To(9))
         /\ prog[10] = I1("msg", Str(S1))
         /\ prog[11] = I2("cmp", Imm(1), Imm(1)) /\ prog[12] = I1("jge", To(14))
         /\ prog[15] = I1("msg", Str(S1))
         /\ prog[16] = I2("cmp", Imm(1), Imm(1)) /\ prog[17] = I1("jle", To(19))
         /\ prog[20] = I1("msg", Str(S1))
         /\ prog[21] = I1("jmp", To(23)) /\ prog[24] = I1("msg", Str(S1))
BY SMTT(30) DEF BranchTest

LEMMA LiteralCmp ==
  ASSUME IInv, Next, NEW m \in Int, NEW n \in Int, m - n \in Word, At(I2("cmp", Imm(m), Imm(n)))
  PROVE  cmp' = m - n /\ pc' = pc + 1 /\ status' = status
BY CmpStep, ReadsLiteral, WordUnchanged

LEMMA BranchTestKeeps ==
  ASSUME S1 # Unhandled, IInv, [Next]_vars, BranchTestInv
  PROVE  BranchTestInv'
<1>1. SUFFICES ASSUME prog' = BranchTest PROVE BranchTestInv'
  BY DEF BranchTestInv
<1>2. prog = BranchTest
  BY <1>1, SameProgram
<1>3. Len(prog) = 24
  BY <1>2, BranchTestCode
<1>4. {1, -1, 0} \subseteq Word
  <2>1. prog[1] = I2("cmp", Imm(2), Imm(1))
    BY <1>2, BranchTestCode
  <2>2. prog[1].operands = <<Imm(2), Imm(1)>> /\ 1 \in DOMAIN prog
    BY <1>3, <2>1, ProgramsAssumption DEF I2, IInv, TypeOK
  <2>3. 2 \in Word
    BY <2>2, Literals DEF Imm
  <2> QED
    BY <2>3, WordsAssumption DEF Word
<1>5. CASE status = "running" /\ pc \in {0, 5, 10, 15} /\ Next
  <2>1. CASE pc = 0
    <3>1. At(I2("cmp", Imm(2), Imm(1)))
      BY <1>2, <1>3, <1>5, <2>1, BranchTestCode DEF At, In
    <3> QED
      BY <1>4, <1>5, <2>1, <3>1, LiteralCmp DEF BranchTestInv
  <2>2. CASE pc = 5
    <3>1. At(I2("cmp", Imm(1), Imm(2)))
      BY <1>2, <1>3, <1>5, <2>2, BranchTestCode DEF At, In
    <3> QED
      BY <1>4, <1>5, <2>2, <3>1, LiteralCmp DEF BranchTestInv
  <2>3. CASE pc \in {10, 15}
    <3>1. At(I2("cmp", Imm(1), Imm(1)))
      BY <1>2, <1>3, <1>5, <2>3, BranchTestCode DEF At, In
    <3> QED
      BY <1>4, <1>5, <2>3, <3>1, LiteralCmp DEF BranchTestInv
  <2> QED
    BY <1>5, <2>1, <2>2, <2>3
<1>6. CASE status = "running" /\ pc \in {1, 6, 11, 16, 20} /\ Next
  <2>1. CASE pc = 1
    <3>1. At(I1("jg", To(4))) /\ cmp = 1
      BY <1>2, <1>3, <1>6, <2>1, BranchTestCode DEF At, In, BranchTestInv, MessageUnfinished
    <3> QED
      BY <1>6, <2>1, <3>1, JumpStep DEF Goes, BranchTestInv
  <2>2. CASE pc = 6
    <3>1. At(I1("jl", To(9))) /\ cmp = -1
      BY <1>2, <1>3, <1>6, <2>2, BranchTestCode DEF At, In, BranchTestInv, MessageUnfinished
    <3> QED
      BY <1>6, <2>2, <3>1, JumpStep DEF Goes, BranchTestInv
  <2>3. CASE pc = 11
    <3>1. At(I1("jge", To(14))) /\ cmp = 0
      BY <1>2, <1>3, <1>6, <2>3, BranchTestCode DEF At, In, BranchTestInv, MessageUnfinished
    <3> QED
      BY <1>6, <2>3, <3>1, JumpStep DEF Goes, BranchTestInv
  <2>4. CASE pc = 16
    <3>1. At(I1("jle", To(19))) /\ cmp = 0
      BY <1>2, <1>3, <1>6, <2>4, BranchTestCode DEF At, In, BranchTestInv, MessageUnfinished
    <3> QED
      BY <1>6, <2>4, <3>1, JumpStep DEF Goes, BranchTestInv
  <2>5. CASE pc = 20
    <3>1. At(I1("jmp", To(23)))
      BY <1>2, <1>3, <1>6, <2>5, BranchTestCode DEF At, In
    <3> QED
      BY <1>6, <2>5, <3>1, JumpStep DEF Goes, BranchTestInv
  <2> QED
    BY <1>6, <2>1, <2>2, <2>3, <2>4, <2>5
<1>7. CASE status = "running" /\ pc \in {4, 9, 14, 19, 23} /\ Next
  <2>1. At(I1("msg", Str(S1)))
    BY <1>2, <1>3, <1>7, BranchTestCode DEF At, In
  <2>2. CASE Stop("undefined")
    <3>1. In' = In
      BY <2>2 DEF Stop, In
    <3> QED
      BY <2>1, <2>2, <3>1 DEF Stop, BranchTestInv, MessageUnfinished, At, I1
  <2>3. CASE /\ msg' = <<S1>> /\ pc' = pc + 1
             /\ UNCHANGED <<prog, status, registers, cmp, stacks, out>>
    BY <1>7, <2>3 DEF BranchTestInv
  <2> QED
    BY <2>1, <2>2, <2>3, <1>7, StringMsgStep
<1>8. CASE status = "running" /\ pc = 24 /\ msg = <<S1>> /\ Next
  BY <1>3, <1>8, RunOffStep DEF Stop, BranchTestInv
<1>9. CASE UNCHANGED vars
  <2>1. In' = In
    BY <1>9 DEF vars, In
  <2> QED
    BY <1>2, <1>9, <2>1 DEF vars, stacks, BranchTestInv, MessageUnfinished
<1>10. CASE status # "running"
  BY <1>9, <1>10, OnlyHalted
<1> QED
  BY <1>2, <1>5, <1>6, <1>7, <1>8, <1>9, <1>10 DEF BranchTestInv, MessageUnfinished

\* The programs of codes/ that show an error end with it, and those said to work
\* end normally with their message; a message may be too long for its buffer.
THEOREM EndingsDocumented ==
  ASSUME IntHalf > 5, S1 # Unhandled
  PROVE  Spec => [](DocumentedEndings \/ MessageUnfinished)
<1> DEFINE All == /\ OverflowInv /\ DivByZeroInv /\ BranchTestInv
                  /\ UnderflowInv("jmp") /\ UnderflowInv("call")
<1>1. Init => All
  BY DEF Init, OverflowInv, DivByZeroInv, BranchTestInv, UnderflowInv
<1>2. IInv /\ [Next]_vars /\ All => All'
  BY OverflowKeeps, DivByZeroKeeps, BranchTestKeeps, UnderflowKeeps
<1>3. All => DocumentedEndings \/ MessageUnfinished
  BY DEF DocumentedEndings, Stopped, OverflowInv, DivByZeroInv, BranchTestInv, UnderflowInv
<1> QED
  BY <1>1, <1>2, <1>3, Invariance, PTL DEF Spec

-----------------------------------------------------------------------------
(* gcd.asm *)

\* Two pairs of numbers have the same common divisors.
SameCommon(c, d, x, y) ==
  \A k \in Nat \ {0} : (c % k = 0 /\ d % k = 0) <=> (x % k = 0 /\ y % k = 0)

LEMMA AbsCommon ==
  ASSUME NEW x \in Int, NEW y \in Int
  PROVE  SameCommon(Abs(x), Abs(y), x, y)
<1> SUFFICES ASSUME NEW k \in Nat \ {0}
             PROVE  (Abs(x) % k = 0 /\ Abs(y) % k = 0) <=> (x % k = 0 /\ y % k = 0)
  BY DEF SameCommon
<1>1. \A z \in Int : z % k = 0 => (-z) % k = 0
  BY DifferenceDivides
<1>2. \A z \in Int : Abs(z) % k = 0 <=> z % k = 0
  <2> SUFFICES ASSUME NEW z \in Int PROVE Abs(z) % k = 0 <=> z % k = 0
    OBVIOUS
  <2>1. CASE z < 0
    <3>1. Abs(z) = -z /\ -z \in Int /\ -(-z) = z
      BY <2>1 DEF Abs
    <3> QED
      BY <1>1, <3>1
  <2>2. CASE z >= 0
    BY <2>2 DEF Abs
  <2> QED
    BY <2>1, <2>2
<1> QED
  BY <1>2

LEMMA SubtractCommon ==
  ASSUME NEW c \in Int, NEW d \in Int, NEW x, NEW y, SameCommon(c, d, x, y)
  PROVE  SameCommon(c - d, d, x, y) /\ SameCommon(c, d - c, x, y)
<1>1. ASSUME NEW k \in Nat \ {0}
      PROVE  /\ ((c - d) % k = 0 /\ d % k = 0) <=> (c % k = 0 /\ d % k = 0)
             /\ (c % k = 0 /\ (d - c) % k = 0) <=> (c % k = 0 /\ d % k = 0)
  <2>1. c - d \in Int /\ d - c \in Int /\ (c - d) + d = c /\ (d - c) + c = d
    OBVIOUS
  <2>2. ASSUME c % k = 0, d % k = 0 PROVE (c - d) % k = 0 /\ (d - c) % k = 0
    BY <2>2, DifferenceDivides
  <2>3. ASSUME (c - d) % k = 0, d % k = 0 PROVE c % k = 0
    <3>1. ((c - d) + d) % k = 0
      BY <2>1, <2>3, DifferenceDivides
    <3> QED
      BY <2>1, <3>1
  <2>4. ASSUME c % k = 0, (d - c) % k = 0 PROVE d % k = 0
    <3>1. ((d - c) + c) % k = 0
      BY <2>1, <2>4, DifferenceDivides
    <3> QED
      BY <2>1, <3>1
  <2> QED
    BY <2>2, <2>3, <2>4
<1> QED
  BY <1>1 DEF SameCommon

LEMMA GcdIs ==
  ASSUME NEW c \in Nat \ {0}, NEW x \in Int \ {0}, NEW y \in Int, SameCommon(c, c, x, y)
  PROVE  Gcd_(x, y) = c
<1> DEFINE S == {k \in 1 .. Abs(x) : x % k = 0 /\ y % k = 0}
<1>1. c % c = 0
  <2>1. c * 1 = c
    OBVIOUS
  <2> QED
    BY <2>1, MultipleDivides
<1>2. x % c = 0 /\ y % c = 0
  BY <1>1 DEF SameCommon
<1>3. \A n \in Int \ {0}, k \in Nat \ {0} : n % k = 0 => k <= Abs(n)
  <2> SUFFICES ASSUME NEW n \in Int \ {0}, NEW k \in Nat \ {0}, n % k = 0 PROVE k <= Abs(n)
    OBVIOUS
  <2>1. PICK m \in Int : n = k * m
    BY DividesIs
  <2>2. CASE m >= 1
    <3>1. k * m >= k
      BY <2>2
    <3> QED
      BY <2>1, <3>1 DEF Abs
  <2>3. CASE m <= -1
    <3>1. k * m <= -k
      BY <2>3
    <3> QED
      BY <2>1, <3>1 DEF Abs
  <2>4. m # 0
    BY <2>1
  <2> QED
    BY <2>2, <2>3, <2>4
<1>4. c \in S
  BY <1>2, <1>3 DEF Abs
<1>5. \A k \in S : k <= c
  <2> SUFFICES ASSUME NEW k \in S PROVE k <= c
    OBVIOUS
  <2>1. k \in Nat \ {0} /\ x % k = 0 /\ y % k = 0
    OBVIOUS
  <2>2. c % k = 0
    BY <2>1 DEF SameCommon
  <2>3. k <= Abs(c)
    BY <1>3, <2>1, <2>2
  <2> QED
    BY <2>3 DEF Abs
<1>6. Gcd_(x, y) = Max(S)
  BY DEF Gcd_
<1>7. S \subseteq Nat
  OBVIOUS
<1> HIDE DEF S
<1>8. Max(S) = CHOOSE m \in S : \A k \in S : m >= k
  BY DEF Max
<1>9. \A m \in S : (\A k \in S : m >= k) => m = c
  BY <1>4, <1>5, <1>7
<1>10. \A k \in S : c >= k
  BY <1>4, <1>5, <1>7
<1>11. Max(S) = c
  BY <1>4, <1>8, <1>9, <1>10
<1> QED
  BY <1>6, <1>11

LEMMA GcdCode ==
  ASSUME NEW x, NEW y, prog = Gcd(x, y)
  PROVE  /\ Len(prog) = 29
         /\ prog[1] = I2("mov", Reg(0), Imm(x)) /\ prog[2] = I2("mov", Reg(1), Imm(y))
         /\ prog[3] = I1("call", To(16)) /\ prog[4] = I1("call", To(6))
         /\ prog[5] = I1("call", To(27)) /\ prog[6] = I0("end")
BY Names, SMTT(30) DEF Gcd

LEMMA GcdLoopCode ==
  ASSUME NEW x, NEW y, prog = Gcd(x, y)
  PROVE  /\ prog[7] = I2("cmp", Reg(2), Reg(3)) /\ prog[8] = I1("jne", To(9))
         /\ prog[9] = I0("ret")
         /\ prog[10] = I2("cmp", Reg(2), Reg(3)) /\ prog[11] = I1("jg", To(12))
         /\ prog[12] = I1("jmp", To(14))
         /\ prog[13] = I2("sub", Reg(2), Reg(3)) /\ prog[14] = I1("jmp", To(6))
         /\ prog[15] = I2("sub", Reg(3), Reg(2)) /\ prog[16] = I1("jmp", To(6))
BY Names, SMTT(30) DEF Gcd

LEMMA GcdInitCode ==
  ASSUME NEW x, NEW y, prog = Gcd(x, y)
  PROVE  /\ prog[17] = I2("cmp", Reg(0), Imm(0)) /\ prog[18] = I1("jl", To(23))
         /\ prog[19] = I2("cmp", Reg(1), Imm(0)) /\ prog[20] = I1("jl", To(25))
         /\ prog[21] = I2("mov", Reg(2), Reg(0)) /\ prog[22] = I2("mov", Reg(3), Reg(1))
         /\ prog[23] = I0("ret")
         /\ prog[24] = I2("mul", Reg(0), Imm(-1)) /\ prog[25] = I1("jmp", To(16))
         /\ prog[26] = I2("mul", Reg(1), Imm(-1)) /\ prog[27] = I1("jmp", To(16))
         /\ prog[28] = [opcode |-> "msg", operands |-> <<Str(S1), Reg(0), Reg(1), Reg(2)>>]
         /\ prog[29] = I0("ret")
BY Names, SMTT(30) DEF Gcd

\* Two values that can be negated.
Negatable(x, y) == x \in Word \ {0, MinWord} /\ y \in Word \ {0, MinWord}

\* The main program and print: before init the values, behind it their absolute
\* values, and behind proc_gcd their greatest common divisor.
GcdMain(x, y) ==
  /\ pc \in 0 .. 5 \cup {27, 28}
  /\ pc <= 5 => call_stack_top = 0
  /\ pc > 5 => call_stack_top = 1 /\ call_stack[0] = 5
  /\ pc \in {1, 2} => registers[0] = x
  /\ pc = 2 => registers[1] = y
  /\ pc >= 3 => registers[0] = Abs(x) /\ registers[1] = Abs(y)
  /\ pc = 3 => registers[2] = Abs(x) /\ registers[3] = Abs(y)
  /\ pc >= 4 => registers[2] = Gcd_(x, y)
  /\ pc \in {5, 28} => msg = <<S1, Abs(x), Abs(y), Gcd_(x, y)>>

\* init changes signs until both values are positive, and copies them.
GcdInit(x, y) ==
  /\ pc \in 16 .. 26
  /\ call_stack_top = 1 /\ call_stack[0] = 3
  /\ registers[0] \in {x, -x} /\ registers[1] \in {y, -y}
  /\ pc = 17 => cmp = registers[0]
  /\ pc \in 18 .. 22 => registers[0] > 0
  /\ pc = 19 => cmp = registers[1]
  /\ pc \in 20 .. 22 => registers[1] > 0
  /\ pc \in {21, 22} => registers[2] = registers[0]
  /\ pc = 22 => registers[3] = registers[1]

\* proc_gcd subtracts the lesser of c and d from the greater, which leaves their
\* common divisors as they are.
GcdLoop(x, y) ==
  /\ pc \in 6 .. 15
  /\ call_stack_top = 1 /\ call_stack[0] = 4
  /\ registers[0] = Abs(x) /\ registers[1] = Abs(y)
  /\ registers[2] > 0 /\ registers[3] > 0
  /\ SameCommon(registers[2], registers[3], x, y)
  /\ pc \in {7, 10} => cmp = registers[2] - registers[3]
  /\ pc = 8 => registers[2] = registers[3]
  /\ pc \in {9, 10} => registers[2] # registers[3]
  /\ pc \in {11, 14} => registers[2] < registers[3]
  /\ pc = 12 => registers[2] > registers[3]

GcdRunning(x, y) ==
  status = "running" /\ (GcdMain(x, y) \/ GcdInit(x, y) \/ GcdLoop(x, y))

GcdStopped(x, y) ==
  \/ status = "ended" /\ msg = <<S1, Abs(x), Abs(y), Gcd_(x, y)>>
  \/ MessageUnfinished

GcdInv(x, y) == prog = Gcd(x, y) => GcdRunning(x, y) \/ GcdStopped(x, y)

LEMMA GcdStart ==
  ASSUME Init, NEW x, NEW y
  PROVE  GcdInv(x, y)
BY DEF Init, GcdInv, GcdRunning, GcdMain

LEMMA GcdRegisters ==
  ASSUME IInv, NEW x, NEW y, prog = Gcd(x, y)
  PROVE  /\ {0, 1, 2, 3} \subseteq RegIndex
         /\ \A r \in {0, 1, 2, 3} : registers[r] \in Word /\ registers[r] \in Int
<1>1. prog \in Seq(Instruction) /\ Len(prog) = 29
      /\ prog[7] = I2("cmp", Reg(2), Reg(3))
  BY GcdCode, GcdLoopCode, ProgramsAssumption DEF IInv, TypeOK
<1>2. 7 \in DOMAIN prog /\ prog[7].operands = <<Reg(2), Reg(3)>>
  BY <1>1 DEF I2
<1>3. prog[7].operands[2] = Reg(3) /\ 2 \in DOMAIN prog[7].operands
  BY <1>2
<1>4. 3 \in RegIndex
  BY <1>2, <1>3, Literals DEF Reg
<1>5. {0, 1, 2, 3} \subseteq RegIndex
  BY <1>4, ProgramAssumption DEF RegIndex
<1> QED
  BY <1>5 DEF IInv, TypeOK, Word

\* A comparison whose difference is a word.
LEMMA CmpIs ==
  ASSUME IInv, Next, NEW s, NEW t, At(I2("cmp", s, t)), Plain(s) - Plain(t) \in Word
  PROVE  /\ cmp' = Plain(s) - Plain(t) /\ pc' = pc + 1
         /\ UNCHANGED <<status, registers, call_stack, call_stack_top, msg>>
BY CmpStep, WordUnchanged DEF stacks

LEMMA GcdMainStep ==
  ASSUME IInv, Next, NEW x, NEW y, prog = Gcd(x, y), Negatable(x, y),
         Unhandled \notin Int \cup {S1}, status = "running", GcdMain(x, y)
  PROVE  GcdRunning(x, y)' \/ GcdStopped(x, y)'
<1>1. /\ Len(prog) = 29 /\ pc \in 0 .. 5 \cup {27, 28} /\ pc < Len(prog)
      /\ x \in Int \ {0} /\ y \in Int \ {0}
  <2>1. Len(prog) = 29
    BY GcdCode
  <2> QED
    BY <2>1 DEF GcdMain, Negatable, Word
<1>2. 0 \in RegIndex /\ 1 \in RegIndex
  BY GcdRegisters
<1>3. CASE pc = 0
  <2>1. At(I2("mov", Reg(0), Imm(x)))
    BY <1>1, <1>3, GcdCode DEF At, In
  <2>2. Gives(0, x)
    BY <2>1, PlainStep, ReadsLiteral
  <2> QED
    BY <1>3, <2>2, Given DEF GcdRunning, GcdMain
<1>4. CASE pc = 1
  <2>1. At(I2("mov", Reg(1), Imm(y)))
    BY <1>1, <1>4, GcdCode DEF At, In
  <2>2. Gives(1, y)
    BY <2>1, PlainStep, ReadsLiteral
  <2> QED
    BY <1>2, <1>4, <2>2, Given DEF GcdRunning, GcdMain
<1>5. CASE pc = 2
  <2>1. At(I1("call", To(16)))
    BY <1>1, <1>5, GcdCode DEF At, In
  <2>2. call_stack_top = 0 /\ registers[0] = x /\ registers[1] = y
    BY <1>5 DEF GcdMain
  <2>3. /\ pc' = 16 /\ call_stack_top' = 1 /\ call_stack'[0] = 3
        /\ UNCHANGED <<status, registers>>
    BY <1>5, <2>1, <2>2, CallStep, VmAssumption
  <2> QED
    BY <2>2, <2>3 DEF GcdRunning, GcdInit
<1>6. CASE pc = 3
  <2>1. At(I1("call", To(6)))
    BY <1>1, <1>6, GcdCode DEF At, In
  <2>2. /\ call_stack_top = 0 /\ registers[0] = Abs(x) /\ registers[1] = Abs(y)
        /\ registers[2] = Abs(x) /\ registers[3] = Abs(y)
    BY <1>6 DEF GcdMain
  <2>3. /\ pc' = 6 /\ call_stack_top' = 1 /\ call_stack'[0] = 4
        /\ UNCHANGED <<status, registers>>
    BY <1>6, <2>1, <2>2, CallStep, VmAssumption
  <2>4. SameCommon(registers[2], registers[3], x, y) /\ Abs(x) > 0 /\ Abs(y) > 0
    BY <1>1, <2>2, AbsCommon DEF Abs
  <2> QED
    BY <2>2, <2>3, <2>4 DEF GcdRunning, GcdLoop
<1>7. CASE pc = 4
  <2>1. At(I1("call", To(27)))
    BY <1>1, <1>7, GcdCode DEF At, In
  <2>2. call_stack_top = 0
    BY <1>7 DEF GcdMain
  <2>3. /\ pc' = 27 /\ call_stack_top' = 1 /\ call_stack'[0] = 5
        /\ UNCHANGED <<status, registers>>
    BY <1>7, <2>1, <2>2, CallStep, VmAssumption
  <2> QED
    BY <1>7, <2>3 DEF GcdRunning, GcdMain
<1>8. CASE pc = 5
  <2>1. At(I0("end"))
    BY <1>1, <1>8, GcdCode DEF At, In
  <2> QED
    BY <1>8, <2>1, EndStep DEF Stop, GcdMain, GcdStopped
<1>9. CASE pc = 27
  <2> DEFINE ops == <<Str(S1), Reg(0), Reg(1), Reg(2)>>
             texts == <<S1, Abs(x), Abs(y), Gcd_(x, y)>>
  <2>1. In.opcode = "msg" /\ In.operands = ops
    <3>1. prog[28] = [opcode |-> "msg", operands |-> ops]
      BY GcdInitCode
    <3> QED
      BY <1>9, <3>1 DEF In
  <2>2. registers[0] = Abs(x) /\ registers[1] = Abs(y) /\ registers[2] = Gcd_(x, y)
    BY <1>9 DEF GcdMain
  <2>3. DOMAIN In.operands = 1 .. 4 /\ In.operands # << >>
    BY <2>1
  <2>4. \A k \in 1 .. 4 : Text(In.operands[k]) = texts[k]
    <3>1. /\ Text(Str(S1)) = S1
          /\ \A r : Text(Reg(r)) = registers[r]
      BY DEF Text, Str, Reg, REG
    <3> QED
      BY <2>1, <2>2, <3>1
  <2>5. \A k \in 1 .. 4 : texts[k] # Unhandled
    <3>1. Abs(x) \in Int /\ Abs(y) \in Int /\ Gcd_(x, y) \in Int
      BY <2>2, GcdRegisters
    <3> QED
      BY <3>1
  <2>6. [k \in DOMAIN In.operands |-> Text(In.operands[k])] = texts
    BY <2>3, <2>4
  <2>7. \/ Stop("undefined")
        \/ /\ msg' = texts /\ pc' = 28
           /\ UNCHANGED <<prog, status, registers, cmp, stacks, out>>
    <3> HIDE DEF ops, texts
    <3>1. \A k \in DOMAIN In.operands : Text(In.operands[k]) # Unhandled
      BY <2>3, <2>4, <2>5
    <3> QED
      BY <1>1, <1>9, <2>1, <2>3, <2>6, <3>1, MsgStep
  <2>8. CASE Stop("undefined")
    <3>1. In' = In
      BY <2>8 DEF Stop, In
    <3> QED
      BY <2>1, <2>8, <3>1 DEF Stop, GcdStopped, MessageUnfinished
  <2>9. CASE /\ msg' = texts /\ pc' = 28
             /\ UNCHANGED <<prog, status, registers, cmp, stacks, out>>
    BY <1>9, <2>9 DEF GcdMain, GcdRunning, stacks
  <2> QED
    BY <2>7, <2>8, <2>9
<1>10. CASE pc = 28
  <2>1. At(I0("ret"))
    BY <1>1, <1>10, GcdInitCode DEF At, In
  <2>2. pc' = 5 /\ call_stack_top' = 0 /\ UNCHANGED <<status, registers, msg>>
    BY <1>10, <2>1, RetStep DEF GcdMain
  <2> QED
    BY <1>10, <2>2 DEF GcdMain, GcdRunning
<1> QED
  BY <1>1, <1>3, <1>4, <1>5, <1>6, <1>7, <1>8, <1>9, <1>10

LEMMA GcdInitStep ==
  ASSUME IInv, Next, NEW x, NEW y, prog = Gcd(x, y), Negatable(x, y),
         status = "running", GcdInit(x, y)
  PROVE  GcdRunning(x, y)'
<1>1. /\ pc \in 16 .. 26 /\ pc < Len(prog) /\ Len(prog) = 29
      /\ call_stack_top = 1 /\ call_stack[0] = 3
      /\ registers[0] \in {x, -x} /\ registers[1] \in {y, -y}
  <2>1. Len(prog) = 29
    BY GcdCode
  <2> QED
    BY <2>1 DEF GcdInit
<1>2. {0, 1, 2, 3} \subseteq RegIndex
  BY GcdRegisters
<1>3. /\ {x, -x, y, -y} \subseteq Word \ {0}
      /\ \A z \in {x, -x, y, -y} : z \in Int /\ -z \in {x, -x, y, -y}
  BY WordsAssumption DEF Negatable, Word, MinWord
<1>4. registers[0] \in Word \ {0} /\ registers[1] \in Word \ {0}
      /\ registers[0] \in Int /\ registers[1] \in Int
  BY <1>1, <1>3
<1>5. CASE pc \in {16, 18}
  <2>1. CASE pc = 16
    <3>1. At(I2("cmp", Reg(0), Imm(0)))
      BY <1>1, <2>1, GcdInitCode DEF At, In
    <3>2. Plain(Reg(0)) - Plain(Imm(0)) = registers[0]
      BY <1>4, ReadsRegister, ReadsLiteral
    <3>3. cmp' = registers[0] /\ pc' = 17
          /\ UNCHANGED <<status, registers, call_stack, call_stack_top, msg>>
      BY <1>4, <2>1, <3>1, <3>2, CmpIs
    <3> QED
      BY <1>1, <3>3 DEF GcdRunning, GcdInit
  <2>2. CASE pc = 18
    <3>1. At(I2("cmp", Reg(1), Imm(0)))
      BY <1>1, <2>2, GcdInitCode DEF At, In
    <3>2. Plain(Reg(1)) - Plain(Imm(0)) = registers[1]
      BY <1>4, ReadsRegister, ReadsLiteral
    <3>3. cmp' = registers[1] /\ pc' = 19
          /\ UNCHANGED <<status, registers, call_stack, call_stack_top, msg>>
      BY <1>4, <2>2, <3>1, <3>2, CmpIs
    <3>4. registers[0] > 0
      BY <2>2 DEF GcdInit
    <3> QED
      BY <1>1, <3>3, <3>4 DEF GcdRunning, GcdInit
  <2> QED
    BY <1>5, <2>1, <2>2
<1>6. CASE pc \in {17, 19, 24, 26}
  <2>1. CASE pc = 17
    <3>1. At(I1("jl", To(23))) /\ cmp = registers[0]
      BY <1>1, <2>1, GcdInitCode DEF At, In, GcdInit
    <3>2. Goes(IF registers[0] < 0 THEN 23 ELSE 18)
      BY <2>1, <3>1, JumpStep
    <3> QED
      BY <1>1, <1>4, <3>2 DEF Goes, stacks, GcdRunning, GcdInit
  <2>2. CASE pc = 19
    <3>1. At(I1("jl", To(25))) /\ cmp = registers[1] /\ registers[0] > 0
      BY <1>1, <2>2, GcdInitCode DEF At, In, GcdInit
    <3>2. Goes(IF registers[1] < 0 THEN 25 ELSE 20)
      BY <2>2, <3>1, JumpStep
    <3> QED
      BY <1>1, <1>4, <3>1, <3>2 DEF Goes, stacks, GcdRunning, GcdInit
  <2>3. CASE pc \in {24, 26}
    <3>1. At(I1("jmp", To(16)))
      BY <1>1, <2>3, GcdInitCode DEF At, In
    <3>2. Goes(16)
      BY <3>1, JumpStep
    <3> QED
      BY <1>1, <3>2 DEF Goes, stacks, GcdRunning, GcdInit
  <2> QED
    BY <1>6, <2>1, <2>2, <2>3
<1>7. CASE pc \in {23, 25}
  <2>1. CASE pc = 23
    <3>1. At(I2("mul", Reg(0), Imm(-1)))
      BY <1>1, <2>1, GcdInitCode DEF At, In
    <3>2. registers[0] * (-1) = -registers[0] /\ -registers[0] \in Word
      BY <1>1, <1>3, <1>4
    <3>3. Gives(0, -registers[0])
      BY <3>1, <3>2, PlainStep, ReadsLiteral, WordUnchanged
    <3> QED
      BY <1>1, <1>2, <1>3, <2>1, <3>3, Given DEF GcdRunning, GcdInit
  <2>2. CASE pc = 25
    <3>1. At(I2("mul", Reg(1), Imm(-1)))
      BY <1>1, <2>2, GcdInitCode DEF At, In
    <3>2. registers[1] * (-1) = -registers[1] /\ -registers[1] \in Word
      BY <1>1, <1>3, <1>4
    <3>3. Gives(1, -registers[1])
      BY <3>1, <3>2, PlainStep, ReadsLiteral, WordUnchanged
    <3> QED
      BY <1>1, <1>2, <1>3, <2>2, <3>3, Given DEF GcdRunning, GcdInit
  <2> QED
    BY <1>7, <2>1, <2>2
<1>8. CASE pc \in {20, 21}
  <2>1. registers[0] > 0 /\ registers[1] > 0 /\ (pc = 21 => registers[2] = registers[0])
    BY <1>8 DEF GcdInit
  <2>2. CASE pc = 20
    <3>1. At(I2("mov", Reg(2), Reg(0)))
      BY <1>1, <2>2, GcdInitCode DEF At, In
    <3>2. Gives(2, registers[0])
      BY <3>1, PlainStep, ReadsRegister
    <3> QED
      BY <1>1, <1>2, <2>1, <2>2, <3>2, Given DEF GcdRunning, GcdInit
  <2>3. CASE pc = 21
    <3>1. At(I2("mov", Reg(3), Reg(1)))
      BY <1>1, <2>3, GcdInitCode DEF At, In
    <3>2. Gives(3, registers[1])
      BY <3>1, PlainStep, ReadsRegister
    <3> QED
      BY <1>1, <1>2, <2>1, <2>3, <3>2, Given DEF GcdRunning, GcdInit
  <2> QED
    BY <1>8, <2>2, <2>3
<1>9. CASE pc = 22
  <2>1. At(I0("ret"))
    BY <1>1, <1>9, GcdInitCode DEF At, In
  <2>2. /\ registers[0] > 0 /\ registers[1] > 0
        /\ registers[2] = registers[0] /\ registers[3] = registers[1]
    BY <1>9 DEF GcdInit
  <2>3. pc' = 3 /\ call_stack_top' = 0 /\ UNCHANGED <<status, registers, msg>>
    BY <1>1, <2>1, RetStep
  <2>4. registers[0] = Abs(x) /\ registers[1] = Abs(y)
    BY <1>1, <1>3, <1>4, <2>2 DEF Abs
  <2> QED
    BY <2>2, <2>3, <2>4 DEF GcdMain, GcdRunning
<1> QED
  BY <1>1, <1>5, <1>6, <1>7, <1>8, <1>9

LEMMA GcdLoopStep ==
  ASSUME IInv, Next, NEW x, NEW y, prog = Gcd(x, y), Negatable(x, y),
         status = "running", GcdLoop(x, y)
  PROVE  GcdRunning(x, y)'
<1>1. /\ pc \in 6 .. 15 /\ pc < Len(prog) /\ Len(prog) = 29
      /\ call_stack_top = 1 /\ call_stack[0] = 4
      /\ registers[0] = Abs(x) /\ registers[1] = Abs(y)
      /\ registers[2] > 0 /\ registers[3] > 0
      /\ SameCommon(registers[2], registers[3], x, y)
  <2>1. Len(prog) = 29
    BY GcdCode
  <2> QED
    BY <2>1 DEF GcdLoop
<1>2. /\ {0, 1, 2, 3} \subseteq RegIndex
      /\ registers[2] \in Int /\ registers[3] \in Int
      /\ registers[2] \in Word /\ registers[3] \in Word
  BY GcdRegisters
<1>3. registers[2] - registers[3] \in Word /\ registers[3] - registers[2] \in Word
  BY <1>1, <1>2, WordsAssumption DEF Word
<1>4. CASE pc \in {6, 9}
  <2>1. At(I2("cmp", Reg(2), Reg(3)))
    BY <1>1, <1>4, GcdLoopCode DEF At, In
  <2>2. Plain(Reg(2)) = registers[2] /\ Plain(Reg(3)) = registers[3]
    BY ReadsRegister
  <2>3. /\ cmp' = registers[2] - registers[3] /\ pc' = pc + 1
        /\ UNCHANGED <<status, registers, call_stack, call_stack_top, msg>>
    BY <1>3, <2>1, <2>2, CmpIs
  <2>4. pc = 9 => registers[2] # registers[3]
    BY DEF GcdLoop
  <2> QED
    BY <1>1, <1>4, <2>3, <2>4 DEF GcdRunning, GcdLoop
<1>5. CASE pc = 7
  <2>1. At(I1("jne", To(9))) /\ cmp = registers[2] - registers[3]
    BY <1>1, <1>5, GcdLoopCode DEF At, In, GcdLoop
  <2>2. Goes(IF registers[2] # registers[3] THEN 9 ELSE 8)
    BY <1>2, <1>5, <2>1, JumpStep
  <2> QED
    BY <1>1, <2>2 DEF Goes, stacks, GcdRunning, GcdLoop
<1>6. CASE pc = 8
  <2>1. At(I0("ret"))
    BY <1>1, <1>6, GcdLoopCode DEF At, In
  <2>2. pc' = 4 /\ call_stack_top' = 0 /\ UNCHANGED <<status, registers, msg>>
    BY <1>1, <2>1, RetStep
  <2>3. registers[2] = registers[3]
    BY <1>6 DEF GcdLoop
  <2>4. x \in Int \ {0} /\ y \in Int /\ registers[2] \in Nat \ {0}
    BY <1>1, <1>2 DEF Negatable, Word
  <2>5. Gcd_(x, y) = registers[2]
    BY <1>1, <2>3, <2>4, GcdIs
  <2> QED
    BY <1>1, <2>2, <2>5 DEF GcdMain, GcdRunning
<1>7. CASE pc = 10
  <2>1. /\ At(I1("jg", To(12))) /\ cmp = registers[2] - registers[3]
        /\ registers[2] # registers[3]
    BY <1>1, <1>7, GcdLoopCode DEF At, In, GcdLoop
  <2>2. Goes(IF registers[2] > registers[3] THEN 12 ELSE 11)
    BY <1>2, <1>7, <2>1, JumpStep
  <2> QED
    BY <1>1, <1>2, <2>1, <2>2 DEF Goes, stacks, GcdRunning, GcdLoop
<1>8. CASE pc = 11
  <2>1. At(I1("jmp", To(14))) /\ registers[2] < registers[3]
    BY <1>1, <1>8, GcdLoopCode DEF At, In, GcdLoop
  <2>2. Goes(14)
    BY <2>1, JumpStep
  <2> QED
    BY <1>1, <2>1, <2>2 DEF Goes, stacks, GcdRunning, GcdLoop
<1>9. CASE pc \in {13, 15}
  <2>1. At(I1("jmp", To(6)))
    BY <1>1, <1>9, GcdLoopCode DEF At, In
  <2>2. Goes(6)
    BY <2>1, JumpStep
  <2> QED
    BY <1>1, <2>2 DEF Goes, stacks, GcdRunning, GcdLoop
<1>10. CASE pc = 12
  <2>1. At(I2("sub", Reg(2), Reg(3))) /\ registers[2] > registers[3]
    BY <1>1, <1>10, GcdLoopCode DEF At, In, GcdLoop
  <2>2. Gives(2, registers[2] - registers[3])
    BY <1>3, <2>1, PlainStep, ReadsRegister, WordUnchanged
  <2>3. registers[2] - registers[3] > 0
        /\ SameCommon(registers[2] - registers[3], registers[3], x, y)
    BY <1>1, <1>2, <2>1, SubtractCommon
  <2> QED
    BY <1>1, <1>2, <1>10, <2>2, <2>3, Given DEF GcdRunning, GcdLoop
<1>11. CASE pc = 14
  <2>1. At(I2("sub", Reg(3), Reg(2))) /\ registers[2] < registers[3]
    BY <1>1, <1>11, GcdLoopCode DEF At, In, GcdLoop
  <2>2. Gives(3, registers[3] - registers[2])
    BY <1>3, <2>1, PlainStep, ReadsRegister, WordUnchanged
  <2>3. registers[3] - registers[2] > 0
        /\ SameCommon(registers[2], registers[3] - registers[2], x, y)
    BY <1>1, <1>2, <2>1, SubtractCommon
  <2> QED
    BY <1>1, <1>2, <1>11, <2>2, <2>3, Given DEF GcdRunning, GcdLoop
<1> QED
  BY <1>1, <1>4, <1>5, <1>6, <1>7, <1>8, <1>9, <1>10, <1>11

LEMMA GcdKeeps ==
  ASSUME IInv, [Next]_vars, NEW x, NEW y, Negatable(x, y), Unhandled \notin Int \cup {S1},
         GcdInv(x, y)
  PROVE  GcdInv(x, y)'
<1>1. SUFFICES ASSUME prog' = Gcd(x, y) PROVE (GcdRunning(x, y) \/ GcdStopped(x, y))'
  BY DEF GcdInv
<1>2. prog = Gcd(x, y)
  BY <1>1, SameProgram
<1>3. CASE GcdRunning(x, y) /\ Next
  BY <1>2, <1>3, GcdMainStep, GcdInitStep, GcdLoopStep DEF GcdRunning
<1>4. CASE GcdRunning(x, y) /\ UNCHANGED vars
  BY <1>4 DEF GcdRunning, GcdMain, GcdInit, GcdLoop, vars, stacks
<1>5. CASE GcdStopped(x, y)
  <2>1. UNCHANGED vars
    BY <1>5, OnlyHalted DEF GcdStopped, MessageUnfinished
  <2>2. In' = In
    BY <2>1 DEF vars, In
  <2> QED
    BY <1>5, <2>1, <2>2 DEF GcdStopped, MessageUnfinished, vars
<1> QED
  BY <1>2, <1>3, <1>4, <1>5 DEF GcdInv

\* gcd.asm ends with the greatest common divisor of its two values, and says so,
\* for every two values that are not zero and can be negated, and words of any
\* width; the message it ends with may be too long.
THEOREM GcdOfAnyTwo ==
  ASSUME NEW x, NEW y, Negatable(x, y), Unhandled \notin Int \cup {S1}
  PROVE  Spec => [](Stopped /\ prog = Gcd(x, y) =>
                      \/ status = "ended" /\ msg = <<S1, Abs(x), Abs(y), Gcd_(x, y)>>
                      \/ MessageUnfinished)
<1>1. Init => GcdInv(x, y)
  BY GcdStart
<1>2. IInv /\ [Next]_vars /\ GcdInv(x, y) => GcdInv(x, y)'
  BY GcdKeeps
<1>3. GcdInv(x, y) =>
        (Stopped /\ prog = Gcd(x, y) =>
           \/ status = "ended" /\ msg = <<S1, Abs(x), Abs(y), Gcd_(x, y)>>
           \/ MessageUnfinished)
  BY DEF GcdInv, GcdRunning, GcdStopped, Stopped
<1> QED
  BY <1>1, <1>2, <1>3, Invariance, PTL DEF Spec

\* The same of the values GcdResult names.
THEOREM GcdComputed ==
  ASSUME \A x, y \in Values : Negatable(x, y), Unhandled \notin Int \cup {S1}
  PROVE  Spec => [](GcdResult \/ MessageUnfinished)
<1> DEFINE All == \A x, y \in Values : GcdInv(x, y)
<1>1. Init => All
  BY GcdStart
<1>2. IInv /\ [Next]_vars /\ All => All'
  BY GcdKeeps
<1>3. All => GcdResult \/ MessageUnfinished
  BY DEF GcdResult, GcdInv, GcdRunning, GcdStopped, Stopped
<1> QED
  BY <1>1, <1>2, <1>3, Invariance, PTL DEF Spec

-----------------------------------------------------------------------------
(* fib.asm *)

\* f holds the Fibonacci numbers up to n.
FibUpTo(f, n) ==
  /\ f \in [0 .. n -> Nat]
  /\ \A k \in 0 .. n : f[k] = IF k < 2 THEN 1 ELSE f[k - 1] + f[k - 2]

LEMMA FibExists == \A n \in Nat : \E f : FibUpTo(f, n)
<1> DEFINE Bad == {n \in Nat : ~\E f : FibUpTo(f, n)}
<1>1. SUFFICES ASSUME Bad # {} PROVE FALSE
  OBVIOUS
<1>2. PICK n \in Bad : \A m \in Bad : n <= m
  BY <1>1, Least
<1>3. n \in Nat
  OBVIOUS
<1>4. CASE n = 0
  <2> DEFINE f == [k \in 0 .. n |-> 1]
  <2>1. FibUpTo(f, n)
    BY <1>4 DEF FibUpTo
  <2> QED
    BY <2>1
<1>5. CASE n > 0
  <2>1. n - 1 \in Nat /\ n - 1 \notin Bad
    BY <1>2, <1>3, <1>5
  <2>2. PICK g : FibUpTo(g, n - 1)
    BY <2>1
  <2> DEFINE next == IF n < 2 THEN 1 ELSE g[n - 1] + g[n - 2]
             f == [k \in 0 .. n |-> IF k = n THEN next ELSE g[k]]
  <2>3. /\ g \in [0 .. n - 1 -> Nat]
        /\ \A k \in 0 .. n - 1 : g[k] = IF k < 2 THEN 1 ELSE g[k - 1] + g[k - 2]
    BY <2>2 DEF FibUpTo
  <2>4. next \in Nat
    BY <1>3, <1>5, <2>3
  <2> HIDE DEF next
  <2>5. f \in [0 .. n -> Nat] /\ f[n] = next /\ \A k \in 0 .. n - 1 : f[k] = g[k]
    BY <1>3, <2>3, <2>4
  <2>6. f[n] = IF n < 2 THEN 1 ELSE f[n - 1] + f[n - 2]
    <3>1. n >= 2 => f[n - 1] = g[n - 1] /\ f[n - 2] = g[n - 2]
      BY <1>3, <2>5
    <3> QED
      BY <1>3, <2>5, <3>1 DEF next
  <2>7. \A k \in 0 .. n - 1 : f[k] = IF k < 2 THEN 1 ELSE f[k - 1] + f[k - 2]
    <3> TAKE k \in 0 .. n - 1
    <3>1. f[k] = g[k] /\ (k >= 2 => f[k - 1] = g[k - 1] /\ f[k - 2] = g[k - 2])
      BY <1>3, <2>5
    <3> HIDE DEF f
    <3> QED
      BY <2>3, <3>1
  <2> HIDE DEF f
  <2>8. \A k \in 0 .. n : k = n \/ k \in 0 .. n - 1
    BY <1>3
  <2>9. \A k \in 0 .. n : f[k] = IF k < 2 THEN 1 ELSE f[k - 1] + f[k - 2]
    <3> TAKE k \in 0 .. n
    <3>1. CASE k = n
      BY <2>6, <3>1
    <3>2. CASE k \in 0 .. n - 1
      BY <2>7, <3>2
    <3> QED
      BY <2>8, <3>1, <3>2
  <2>10. FibUpTo(f, n)
    BY <2>5, <2>9 DEF FibUpTo
  <2> QED
    BY <2>10
<1> QED
  BY <1>3, <1>4, <1>5

LEMMA FibAgree ==
  ASSUME NEW m \in Nat, NEW n \in Nat, NEW f, FibUpTo(f, m), NEW g, FibUpTo(g, n)
  PROVE  \A k \in Nat : k <= m /\ k <= n => f[k] = g[k]
<1> DEFINE Bad == {k \in Nat : k <= m /\ k <= n /\ f[k] # g[k]}
<1>1. SUFFICES ASSUME Bad # {} PROVE FALSE
  OBVIOUS
<1>2. PICK k \in Bad : \A j \in Bad : k <= j
  BY <1>1, Least
<1>3. k \in Nat /\ k <= m /\ k <= n /\ f[k] # g[k]
  OBVIOUS
<1>4. k >= 2
  BY <1>3 DEF FibUpTo
<1>5. k - 1 \in Nat \ Bad /\ k - 2 \in Nat \ Bad
  BY <1>2, <1>3, <1>4
<1>6. f[k - 1] = g[k - 1] /\ f[k - 2] = g[k - 2]
  BY <1>3, <1>5
<1> QED
  BY <1>3, <1>4, <1>6 DEF FibUpTo

\* The definition of FibOf by its own smaller values is one.
LEMMA FibIs ==
  /\ FibOf \in [Nat -> Nat]
  /\ \A n \in Nat : FibOf[n] = IF n < 2 THEN 1 ELSE FibOf[n - 1] + FibOf[n - 2]
<1> DEFINE Part(n) == CHOOSE f : FibUpTo(f, n)
           G == [n \in Nat |-> Part(n)[n]]
<1>1. \A n \in Nat : FibUpTo(Part(n), n)
  BY FibExists
<1> HIDE DEF Part
<1>2. \A n \in Nat : G[n] \in Nat
  BY <1>1 DEF FibUpTo
<1>3. ASSUME NEW n \in Nat PROVE G[n] = IF n < 2 THEN 1 ELSE G[n - 1] + G[n - 2]
  <2>1. Part(n)[n] = IF n < 2 THEN 1 ELSE Part(n)[n - 1] + Part(n)[n - 2]
    BY <1>1 DEF FibUpTo
  <2>2. CASE n >= 2
    <3>1. n - 1 \in Nat /\ n - 2 \in Nat
      BY <2>2
    <3>2. Part(n)[n - 1] = Part(n - 1)[n - 1]
      BY <1>1, <3>1, FibAgree
    <3>3. Part(n)[n - 2] = Part(n - 2)[n - 2]
      BY <1>1, <3>1, FibAgree
    <3> QED
      BY <2>1, <2>2, <3>1, <3>2, <3>3
  <2>3. CASE n < 2
    BY <2>1, <2>3
  <2> QED
    BY <2>2, <2>3
<1>4. G = [n \in Nat |-> IF n < 2 THEN 1 ELSE G[n - 1] + G[n - 2]]
  <2> DEFINE H == [n \in Nat |-> IF n < 2 THEN 1 ELSE G[n - 1] + G[n - 2]]
  <2>1. \A n \in Nat : G[n] = H[n]
    BY <1>3
  <2>2. DOMAIN G = Nat /\ DOMAIN H = Nat /\ G = [n \in Nat |-> G[n]] /\ H = [n \in Nat |-> H[n]]
    OBVIOUS
  <2> HIDE DEF G, H
  <2>3. G = H
    BY <2>1, <2>2
  <2> QED
    BY <2>3 DEF H
<1> HIDE DEF G
<1>5. FibOf = [n \in Nat |-> IF n < 2 THEN 1 ELSE FibOf[n - 1] + FibOf[n - 2]]
  BY <1>4 DEF FibOf
<1>6. \A n \in Nat : FibOf[n] = IF n < 2 THEN 1 ELSE FibOf[n - 1] + FibOf[n - 2]
  BY <1>5
<1> DEFINE Bad == {n \in Nat : FibOf[n] \notin Nat}
<1>7. Bad = {}
  <2>1. SUFFICES ASSUME Bad # {} PROVE FALSE
    OBVIOUS
  <2>2. PICK n \in Bad : \A m \in Bad : n <= m
    BY <2>1, Least
  <2>3. n \in Nat /\ FibOf[n] \notin Nat
    OBVIOUS
  <2>4. n >= 2
    BY <1>6, <2>3
  <2>5. n - 1 \in Nat \ Bad /\ n - 2 \in Nat \ Bad
    BY <2>2, <2>3, <2>4
  <2>6. FibOf[n - 1] \in Nat /\ FibOf[n - 2] \in Nat
    BY <2>5
  <2> QED
    BY <1>6, <2>3, <2>4, <2>6
<1>8. \A n \in Nat : FibOf[n] \in Nat
  BY <1>7
<1> QED
  BY <1>5, <1>6, <1>8

LEMMA IncStep ==
  ASSUME IInv, Next, NEW r, At(I1("inc", Reg(r)))
  PROVE  r \in RegIndex /\ registers[r] \in Word /\ Gives(r, ToWord(registers[r] + 1))
<1>1. In.opcode = "inc" /\ Fetch("inc") /\ OP0 = Reg(r) /\ OP0.type = "REG" /\ OP0.arg = r
  BY DEF At, I1, OP0, Reg, Fetch
<1>2. Usable(OP0) /\ TypeOK
  BY <1>1, Fetched DEF IInv, OneRegister
<1>3. r \in RegIndex /\ registers[r] \in Word
  BY <1>1, <1>2 DEF Usable, TypeOK
<1>4. Old = {registers[r]} /\ registers[r] \in Int
  BY <1>1, <1>3 DEF Old, REG_OR_INT_OR_MEM, REG, Word
<1>5. Inc
  BY <1>1, StepOf DEF At
<1> DEFINE values == {x + 1 : x \in Old}
<1>6. MEMORY_OR_REG_OP(values)
  BY <1>5 DEF Inc
<1>7. values = {registers[r] + 1} /\ registers[r] + 1 \in Int
  BY <1>4
<1> QED
  BY <1>1, <1>3, <1>6, <1>7, StoreGives

LEMMA PushStep ==
  ASSUME IInv, Next, NEW r, At(I1("push", Reg(r))), stack_top < MAX_STACK
  PROVE  /\ stack_top' = stack_top + 1 /\ stack'[stack_top] = registers[r]
         /\ \A k \in 0 .. stack_top - 1 : stack'[k] = stack[k]
         /\ pc' = pc + 1
         /\ UNCHANGED <<prog, status, registers, cmp, call_stack, call_stack_top, msg, out>>
<1>1. In.opcode = "push" /\ OP0 = Reg(r)
  BY DEF At, I1, OP0
<1>2. stack_top \in 0 .. MAX_STACK - 1 /\ stack \in [0 .. MAX_STACK - 1 -> Word]
  BY VmAssumption DEF IInv, TypeOK
<1>3. Push
  BY <1>1, <1>2, StepOf, VmAssumption DEF At, PushOverflow
<1>4. stack' = [stack EXCEPT ![stack_top] = registers[r]]
  BY <1>1, <1>3 DEF Push, REG, Reg
<1>5. stack'[stack_top] = registers[r] /\ \A k \in 0 .. stack_top - 1 : stack'[k] = stack[k]
  BY <1>2, <1>4, VmAssumption
<1> QED
  BY <1>3, <1>5 DEF Push, Advance

LEMMA PopStep ==
  ASSUME IInv, Next, NEW r, At(I1("pop", Reg(r))), stack_top > 0, r \in RegIndex
  PROVE  /\ stack_top' = stack_top - 1 /\ registers'[r] = stack[stack_top - 1]
         /\ \A s \in RegIndex \ {r} : registers'[s] = registers[s]
         /\ pc' = pc + 1
         /\ UNCHANGED <<prog, status, cmp, call_stack, call_stack_top, stack, msg, out>>
<1>1. In.opcode = "pop" /\ OP0 = Reg(r)
  BY DEF At, I1, OP0
<1>2. registers \in [RegIndex -> Word] /\ stack_top \in Nat
  BY VmAssumption DEF IInv, TypeOK
<1>3. Pop
  BY <1>1, <1>2, StepOf DEF At, PopUnderflow
<1>4. registers' = [registers EXCEPT ![r] = stack[stack_top - 1]]
  BY <1>1, <1>3 DEF Pop, Reg
<1> QED
  BY <1>2, <1>3, <1>4 DEF Pop, Advance

LEMMA FibNames ==
  /\ R("a") = Reg(0) /\ R("b") = Reg(1) /\ R("i") = Reg(8) /\ R("l") = Reg(11)
  /\ R("n") = Reg(13) /\ R("r") = Reg(17) /\ R("z") = Reg(25)
<1>1. Of("i") = 8
  <2>1. \A k \in 0 .. 25 : "i" = Alphabet[k + 1] <=> k = 8
    BY DEF Alphabet
  <2> QED
    BY <2>1, OfIs
<1>2. Of("l") = 11
  <2>1. \A k \in 0 .. 25 : "l" = Alphabet[k + 1] <=> k = 11
    BY DEF Alphabet
  <2> QED
    BY <2>1, OfIs
<1>3. Of("n") = 13
  <2>1. \A k \in 0 .. 25 : "n" = Alphabet[k + 1] <=> k = 13
    BY DEF Alphabet
  <2> QED
    BY <2>1, OfIs
<1>4. Of("r") = 17
  <2>1. \A k \in 0 .. 25 : "r" = Alphabet[k + 1] <=> k = 17
    BY DEF Alphabet
  <2> QED
    BY <2>1, OfIs
<1>5. Of("z") = 25
  <2>1. \A k \in 0 .. 25 : "z" = Alphabet[k + 1] <=> k = 25
    BY DEF Alphabet
  <2> QED
    BY <2>1, OfIs
<1> QED
  BY <1>1, <1>2, <1>3, <1>4, <1>5, Names DEF R

LEMMA FibCode ==
  ASSUME NEW n, prog = Fib(n)
  PROVE  /\ Len(prog) = 29
         /\ prog[1] = I2("mov", Reg(1), Imm(n)) /\ prog[2] = I2("mov", Reg(8), Imm(1))
         /\ prog[3] = I2("mov", Reg(0), Reg(8)) /\ prog[4] = I1("call", To(9))
         /\ prog[5] = [opcode |-> "print",
                       operands |-> <<Str(S1), Reg(8), Reg(25), Str(LineBreak)>>]
         /\ prog[6] = I1("inc", Reg(8)) /\ prog[7] = I2("cmp", Reg(8), Reg(1))
         /\ prog[8] = I1("jle", To(2)) /\ prog[9] = I0("end")
BY FibNames, SMTT(30) DEF Fib

LEMMA FibIterCode ==
  ASSUME NEW n, prog = Fib(n)
  PROVE  /\ prog[10] = I1("push", Reg(13)) /\ prog[11] = I1("push", Reg(8))
         /\ prog[12] = I1("push", Reg(11)) /\ prog[13] = I1("push", Reg(17))
         /\ prog[14] = I2("mov", Reg(8), Reg(0)) /\ prog[15] = I2("mov", Reg(13), Imm(0))
         /\ prog[16] = I2("mov", Reg(17), Imm(1))
         /\ prog[24] = I2("mov", Reg(25), Reg(17)) /\ prog[25] = I1("pop", Reg(17))
         /\ prog[26] = I1("pop", Reg(11)) /\ prog[27] = I1("pop", Reg(8))
         /\ prog[28] = I1("pop", Reg(13)) /\ prog[29] = I0("ret")
BY FibNames, SMTT(30) DEF Fib

LEMMA FibLoopCode ==
  ASSUME NEW n, prog = Fib(n)
  PROVE  /\ prog[17] = I2("cmp", Reg(8), Imm(0)) /\ prog[18] = I1("jle", To(23))
         /\ prog[19] = I1("dec", Reg(8)) /\ prog[20] = I2("mov", Reg(11), Reg(17))
         /\ prog[21] = I2("add", Reg(17), Reg(13)) /\ prog[22] = I2("mov", Reg(13), Reg(11))
         /\ prog[23] = I1("jmp", To(16))
BY FibNames, SMTT(30) DEF Fib

LEMMA FibRegisters ==
  ASSUME IInv, NEW n, prog = Fib(n)
  PROVE  /\ {0, 1, 8, 11, 13, 17, 25} \subseteq RegIndex
         /\ \A r \in RegIndex : registers[r] \in Word /\ registers[r] \in Int
         /\ n \in Word
<1>1. prog \in Seq(Instruction) /\ Len(prog) = 29
      /\ prog[24] = I2("mov", Reg(25), Reg(17)) /\ prog[1] = I2("mov", Reg(1), Imm(n))
  BY FibCode, FibIterCode, ProgramsAssumption DEF IInv, TypeOK
<1>2. /\ 24 \in DOMAIN prog /\ prog[24].operands = <<Reg(25), Reg(17)>>
      /\ 1 \in DOMAIN prog /\ prog[1].operands = <<Reg(1), Imm(n)>>
  BY <1>1 DEF I2
<1>3. /\ prog[24].operands[1] = Reg(25) /\ 1 \in DOMAIN prog[24].operands
      /\ prog[1].operands[2] = Imm(n) /\ 2 \in DOMAIN prog[1].operands
  BY <1>2
<1>4. 25 \in RegIndex /\ n \in Word
  BY <1>2, <1>3, Literals DEF Reg, Imm
<1>5. {0, 1, 8, 11, 13, 17, 25} \subseteq RegIndex
  BY <1>4, ProgramAssumption DEF RegIndex
<1> QED
  BY <1>4, <1>5 DEF IInv, TypeOK, Word

\* The numbers the run for n computes are words, and so is the index behind n.
FibFits(n) ==
  n \in Nat \ {0} /\ n + 1 \in Word /\ \A k \in 0 .. n : FibOf[k] \in Word

\* What print shows for an index.
FibLine(k) == <<S1, k, FibOf[k], NewLine>>

\* The loop over the indices, and the end.  n, l and r are 0 here.
FibMain(n) ==
  /\ pc \in 0 .. 8
  /\ call_stack_top = 0 /\ stack_top = 0
  /\ registers[13] = 0 /\ registers[11] = 0 /\ registers[17] = 0
  /\ pc >= 1 => registers[1] = n
  /\ pc \in 2 .. 5 => registers[8] \in 1 .. n
  /\ pc = 3 => registers[0] = registers[8]
  /\ pc = 4 => registers[25] = FibOf[registers[8]]
  /\ pc = 5 => out = FibLine(registers[8])
  /\ pc \in 6 .. 8 => registers[8] \in 2 .. n + 1 /\ out = FibLine(registers[8] - 1)
  /\ pc = 7 => cmp = registers[8] - n
  /\ pc = 8 => registers[8] = n + 1

\* fib_iter, called for the index in a, which is also in i.
FibCalled(n) ==
  /\ call_stack_top = 1 /\ call_stack[0] = 4
  /\ registers[1] = n /\ registers[0] \in 1 .. n

\* fib_iter saves four registers, and restores them.
FibSaves(n) ==
  /\ pc \in 9 .. 12 /\ FibCalled(n) /\ stack_top = pc - 9
  /\ registers[13] = 0 /\ registers[11] = 0 /\ registers[17] = 0
  /\ registers[8] = registers[0]
  /\ pc >= 10 => stack[0] = 0
  /\ pc >= 11 => stack[1] = registers[0]
  /\ pc >= 12 => stack[2] = 0

Saved ==
  stack[0] = 0 /\ stack[1] = registers[0] /\ stack[2] = 0 /\ stack[3] = 0

FibRestores(n) ==
  /\ pc \in 24 .. 28 /\ FibCalled(n) /\ stack_top = 28 - pc /\ Saved
  /\ registers[25] = FibOf[registers[0]]
  /\ pc >= 25 => registers[17] = 0
  /\ pc >= 26 => registers[11] = 0
  /\ pc >= 27 => registers[8] = registers[0]
  /\ pc >= 28 => registers[13] = 0

\* The number before that of k, and 0 before the first.
Before(k) == IF k = 0 THEN 0 ELSE FibOf[k - 1]

\* i counts down from a: r is the number of what it has come down.
FibLoop(n) ==
  LET a == registers[0]
      i == registers[8]
  IN  /\ pc \in 13 .. 23 /\ FibCalled(n) /\ stack_top = 4 /\ Saved
      /\ i \in 0 .. a
      /\ pc \in {14, 15} => i = a
      /\ pc = 15 => registers[13] = 0
      /\ pc \in 16 .. 18 => registers[17] = FibOf[a - i] /\ registers[13] = Before(a - i)
      /\ pc = 17 => cmp = i
      /\ pc = 18 => i > 0
      /\ pc \in 19 .. 22 => i < a
      /\ pc \in {19, 20} => registers[17] = FibOf[a - i - 1] /\ registers[13] = Before(a - i - 1)
      /\ pc \in {20, 21} => registers[11] = FibOf[a - i - 1]
      /\ pc \in {21, 22} => registers[17] = FibOf[a - i]
      /\ pc = 22 => registers[13] = FibOf[a - i - 1]
      /\ pc = 23 => i = 0 /\ registers[17] = FibOf[a]

FibRunning(n) ==
  status = "running" /\ (FibMain(n) \/ FibSaves(n) \/ FibLoop(n) \/ FibRestores(n))

FibStopped(n) ==
  /\ status = "ended" /\ stack_top = 0 /\ call_stack_top = 0
  /\ registers[13] = 0 /\ registers[11] = 0 /\ registers[17] = 0
  /\ registers[8] = n + 1 /\ out = FibLine(n)

FibInv(n) == prog = Fib(n) => FibRunning(n) \/ FibStopped(n)

LEMMA FibStart ==
  ASSUME Init, NEW n
  PROVE  FibInv(n)
<1>1. SUFFICES ASSUME prog = Fib(n) PROVE FibRunning(n)
  BY DEF FibInv
<1>2. {11, 13, 17} \subseteq RegIndex
  <2>1. prog \in Seq(Instruction) /\ Runnable(prog[24]) /\ Len(prog) = 29
        /\ prog[24] = I2("mov", Reg(25), Reg(17))
    <3>1. prog \in Programs
      BY DEF Init
    <3>2. prog \in Seq(Instruction) /\ Len(prog) = 29
          /\ \A k \in DOMAIN prog : Runnable(prog[k])
      BY <1>1, <3>1, FibCode, ProgramsAssumption
    <3>3. Runnable(prog[24])
      BY <3>2
    <3> QED
      BY <1>1, <3>2, <3>3, FibIterCode
  <2>2. prog[24].operands = <<Reg(25), Reg(17)>>
    BY <2>1 DEF I2
  <2>3. prog[24].operands[1] = Reg(25) /\ 1 \in DOMAIN prog[24].operands
    BY <2>2
  <2>4. 25 \in RegIndex
    BY <2>1, <2>3 DEF Runnable, Reg
  <2> QED
    BY <2>4, ProgramAssumption DEF RegIndex
<1> QED
  BY <1>2 DEF Init, FibRunning, FibMain

LEMMA FibMainStep ==
  ASSUME IInv, Next, NEW n, prog = Fib(n), FibFits(n), status = "running", FibMain(n),
         LineBreak = EscapedNewLine, EscapedNewLine \notin Int \cup {S1}
  PROVE  FibRunning(n)' \/ FibStopped(n)'
<1>1. /\ pc \in 0 .. 8 /\ pc < Len(prog) /\ Len(prog) = 29
      /\ call_stack_top = 0 /\ stack_top = 0
      /\ registers[13] = 0 /\ registers[11] = 0 /\ registers[17] = 0
  <2>1. Len(prog) = 29
    BY FibCode
  <2> QED
    BY <2>1 DEF FibMain
<1>2. /\ {0, 1, 8, 11, 13, 17, 25} \subseteq RegIndex
      /\ n \in Nat \ {0} /\ n + 1 \in Word
  BY FibRegisters DEF FibFits
<1>3. CASE pc = 0
  <2>1. At(I2("mov", Reg(1), Imm(n)))
    BY <1>1, <1>3, FibCode DEF At, In
  <2>2. Gives(1, n)
    BY <2>1, PlainStep, ReadsLiteral
  <2> QED
    BY <1>1, <1>2, <1>3, <2>2, Given DEF FibRunning, FibMain
<1>4. CASE pc = 1
  <2>1. At(I2("mov", Reg(8), Imm(1))) /\ registers[1] = n
    BY <1>1, <1>4, FibCode DEF At, In, FibMain
  <2>2. Gives(8, 1)
    BY <2>1, PlainStep, ReadsLiteral
  <2> QED
    BY <1>1, <1>2, <1>4, <2>1, <2>2, Given DEF FibRunning, FibMain
<1>5. CASE pc = 2
  <2>1. At(I2("mov", Reg(0), Reg(8))) /\ registers[1] = n /\ registers[8] \in 1 .. n
    BY <1>1, <1>5, FibCode DEF At, In, FibMain
  <2>2. Gives(0, registers[8])
    BY <2>1, PlainStep, ReadsRegister
  <2> QED
    BY <1>1, <1>2, <1>5, <2>1, <2>2, Given DEF FibRunning, FibMain
<1>6. CASE pc = 3
  <2>1. /\ At(I1("call", To(9))) /\ registers[1] = n /\ registers[8] \in 1 .. n
        /\ registers[0] = registers[8]
    BY <1>1, <1>6, FibCode DEF At, In, FibMain
  <2>2. /\ pc' = 9 /\ call_stack_top' = 1 /\ call_stack'[0] = 4
        /\ UNCHANGED <<status, registers, stack, stack_top>>
    BY <1>1, <1>6, <2>1, CallStep, VmAssumption
  <2> QED
    BY <1>1, <2>1, <2>2 DEF FibRunning, FibSaves, FibCalled
<1>7. CASE pc = 4
  <2> DEFINE ops == <<Str(S1), Reg(8), Reg(25), Str(LineBreak)>>
             line == FibLine(registers[8])
  <2>1. In.opcode = "print" /\ In.operands = ops
    <3>1. prog[5] = [opcode |-> "print", operands |-> ops]
      BY FibCode
    <3> QED
      BY <1>7, <3>1 DEF In
  <2>2. registers[1] = n /\ registers[8] \in 1 .. n /\ registers[25] = FibOf[registers[8]]
    BY <1>7 DEF FibMain
  <2>3. PrintTexts
    BY <1>1, <2>1, StepOf
  <2>4. DOMAIN In.operands = 1 .. 4
    BY <2>1
  <2>5. \A k \in 1 .. 4 :
          line[k] = IF Text(In.operands[k]) = EscapedNewLine THEN NewLine ELSE Text(In.operands[k])
    <3>1. /\ \A s : Text(Str(s)) = s
          /\ \A r : Text(Reg(r)) = registers[r]
      BY DEF Text, Str, Reg, REG
    <3>2. registers[8] \in Int /\ registers[25] \in Int
      BY FibRegisters
    <3>3. /\ Text(In.operands[1]) = S1 /\ Text(In.operands[2]) = registers[8]
          /\ Text(In.operands[3]) = registers[25] /\ Text(In.operands[4]) = LineBreak
      BY <2>1, <3>1
    <3>4. S1 # EscapedNewLine /\ registers[8] # EscapedNewLine /\ registers[25] # EscapedNewLine
      BY <3>2
    <3>5. /\ line[1] = S1 /\ line[2] = registers[8] /\ line[3] = registers[25]
          /\ line[4] = NewLine
      BY <2>2 DEF FibLine
    <3> HIDE DEF line, ops
    <3> QED
      BY <3>3, <3>4, <3>5
  <2>6. out' = line
    <3>1. out' = [k \in 1 .. 4 |-> IF Text(In.operands[k]) = EscapedNewLine THEN NewLine
                                   ELSE Text(In.operands[k])]
      BY <2>3, <2>4 DEF PrintTexts
    <3>2. line = [k \in 1 .. 4 |-> line[k]]
      BY DEF FibLine
    <3> HIDE DEF line
    <3> QED
      BY <2>5, <3>1, <3>2
  <2>7. /\ pc' = 5 /\ UNCHANGED <<status, registers, call_stack_top, stack_top>>
    BY <1>7, <2>3 DEF PrintTexts, Advance, stacks
  <2> QED
    BY <1>1, <2>2, <2>6, <2>7 DEF FibRunning, FibMain
<1>8. CASE pc = 5
  <2>1. /\ At(I1("inc", Reg(8))) /\ registers[1] = n /\ registers[8] \in 1 .. n
        /\ out = FibLine(registers[8])
    BY <1>1, <1>8, FibCode DEF At, In, FibMain
  <2>2. registers[8] + 1 \in Word
    BY <1>2, <2>1, WordsAssumption DEF Word
  <2>3. Gives(8, registers[8] + 1)
    BY <2>1, <2>2, IncStep, WordUnchanged
  <2>4. (registers[8] + 1) - 1 = registers[8] /\ registers[8] + 1 \in 2 .. n + 1
    BY <1>2, <2>1
  <2> QED
    BY <1>1, <1>2, <1>8, <2>1, <2>3, <2>4, Given DEF FibRunning, FibMain
<1>9. CASE pc = 6
  <2>1. /\ At(I2("cmp", Reg(8), Reg(1))) /\ registers[1] = n /\ registers[8] \in 2 .. n + 1
        /\ out = FibLine(registers[8] - 1)
    BY <1>1, <1>9, FibCode DEF At, In, FibMain
  <2>2. registers[8] - n \in Word
    BY <1>2, <2>1, WordsAssumption DEF Word
  <2>3. Plain(Reg(8)) = registers[8] /\ Plain(Reg(1)) = n
    BY <2>1, ReadsRegister
  <2>4. /\ cmp' = registers[8] - n /\ pc' = 7
        /\ UNCHANGED <<status, registers, stacks, out>>
    BY <1>9, <2>1, <2>2, <2>3, CmpStep, WordUnchanged
  <2> QED
    BY <1>1, <2>1, <2>4 DEF FibRunning, FibMain, stacks
<1>10. CASE pc = 7
  <2>1. /\ At(I1("jle", To(2))) /\ registers[1] = n /\ registers[8] \in 2 .. n + 1
        /\ cmp = registers[8] - n /\ out = FibLine(registers[8] - 1)
    BY <1>1, <1>10, FibCode DEF At, In, FibMain
  <2>2. Goes(IF registers[8] <= n THEN 2 ELSE 8)
    BY <1>2, <1>10, <2>1, JumpStep
  <2> QED
    BY <1>1, <1>2, <2>1, <2>2 DEF Goes, FibRunning, FibMain, stacks
<1>11. CASE pc = 8
  <2>1. /\ At(I0("end")) /\ registers[8] = n + 1 /\ out = FibLine(registers[8] - 1)
    BY <1>1, <1>11, FibCode DEF At, In, FibMain
  <2>2. out = FibLine(n)
    BY <1>2, <2>1
  <2> QED
    BY <1>1, <2>1, <2>2, EndStep DEF Stop, FibStopped, stacks
<1> QED
  BY <1>1, <1>3, <1>4, <1>5, <1>6, <1>7, <1>8, <1>9, <1>10, <1>11

LEMMA FibSavesStep ==
  ASSUME IInv, Next, NEW n, prog = Fib(n), FibFits(n), status = "running", FibSaves(n),
         MAX_STACK >= 4
  PROVE  FibRunning(n)'
<1>1. /\ pc \in 9 .. 12 /\ pc < Len(prog) /\ stack_top = pc - 9
      /\ call_stack_top = 1 /\ call_stack[0] = 4
      /\ registers[1] = n /\ registers[0] \in 1 .. n
      /\ registers[13] = 0 /\ registers[11] = 0 /\ registers[17] = 0
      /\ registers[8] = registers[0]
      /\ pc >= 10 => stack[0] = 0
      /\ pc >= 11 => stack[1] = registers[0]
      /\ pc >= 12 => stack[2] = 0
  <2>1. Len(prog) = 29
    BY FibCode
  <2> QED
    BY <2>1 DEF FibSaves, FibCalled
<1>2. n \in Nat \ {0} /\ MAX_STACK \in Nat /\ stack_top < MAX_STACK
  BY <1>1, VmAssumption DEF FibFits
<1> DEFINE Pushes(v) ==
             /\ stack_top' = stack_top + 1 /\ stack'[stack_top] = v
             /\ \A k \in 0 .. stack_top - 1 : stack'[k] = stack[k]
             /\ pc' = pc + 1
             /\ UNCHANGED <<prog, status, registers, cmp, call_stack, call_stack_top, msg, out>>
<1>3. CASE pc = 9
  <2>1. At(I1("push", Reg(13)))
    BY <1>1, <1>3, FibIterCode DEF At, In
  <2>2. Pushes(registers[13])
    BY <1>2, <2>1, PushStep
  <2> QED
    BY <1>1, <1>2, <1>3, <2>2 DEF FibRunning, FibSaves, FibCalled
<1>4. CASE pc = 10
  <2>1. At(I1("push", Reg(8)))
    BY <1>1, <1>4, FibIterCode DEF At, In
  <2>2. Pushes(registers[8])
    BY <1>2, <2>1, PushStep
  <2>3. stack_top = 1 /\ stack'[0] = 0 /\ stack'[1] = registers[0]
    BY <1>1, <1>4, <2>2
  <2> QED
    BY <1>1, <1>2, <1>4, <2>2, <2>3 DEF FibRunning, FibSaves, FibCalled
<1>5. CASE pc = 11
  <2>1. At(I1("push", Reg(11)))
    BY <1>1, <1>5, FibIterCode DEF At, In
  <2>2. Pushes(registers[11])
    BY <1>2, <2>1, PushStep
  <2>3. stack_top = 2 /\ stack'[0] = 0 /\ stack'[1] = registers[0] /\ stack'[2] = 0
    BY <1>1, <1>5, <2>2
  <2> QED
    BY <1>1, <1>2, <1>5, <2>2, <2>3 DEF FibRunning, FibSaves, FibCalled
<1>6. CASE pc = 12
  <2>1. At(I1("push", Reg(17)))
    BY <1>1, <1>6, FibIterCode DEF At, In
  <2>2. Pushes(registers[17])
    BY <1>2, <2>1, PushStep
  <2>3. /\ stack_top = 3 /\ stack'[0] = 0 /\ stack'[1] = registers[0] /\ stack'[2] = 0
        /\ stack'[3] = 0
    BY <1>1, <1>6, <2>2
  <2>4. FibCalled(n)' /\ Saved' /\ pc' = 13 /\ stack_top' = 4 /\ status' = "running"
    BY <1>1, <1>6, <2>2, <2>3 DEF FibCalled, Saved
  <2>5. registers'[8] \in 0 .. registers'[0]
    BY <1>1, <1>2, <2>2
  <2>6. FibLoop(n)'
    BY <2>4, <2>5 DEF FibLoop
  <2> QED
    BY <2>4, <2>6 DEF FibRunning
<1> QED
  BY <1>1, <1>3, <1>4, <1>5, <1>6

LEMMA FibRestoresStep ==
  ASSUME IInv, Next, NEW n, prog = Fib(n), FibFits(n), status = "running", FibRestores(n)
  PROVE  FibRunning(n)'
<1>1. /\ pc \in 24 .. 28 /\ pc < Len(prog) /\ stack_top = 28 - pc
      /\ call_stack_top = 1 /\ call_stack[0] = 4
      /\ registers[1] = n /\ registers[0] \in 1 .. n
      /\ stack[0] = 0 /\ stack[1] = registers[0] /\ stack[2] = 0 /\ stack[3] = 0
      /\ registers[25] = FibOf[registers[0]]
      /\ pc >= 25 => registers[17] = 0
      /\ pc >= 26 => registers[11] = 0
      /\ pc >= 27 => registers[8] = registers[0]
      /\ pc >= 28 => registers[13] = 0
  <2>1. Len(prog) = 29
    BY FibCode
  <2> QED
    BY <2>1 DEF FibRestores, FibCalled, Saved
<1>2. n \in Nat \ {0} /\ {0, 1, 8, 11, 13, 17, 25} \subseteq RegIndex
  BY FibRegisters DEF FibFits
<1> DEFINE Pops(r) ==
             /\ stack_top' = stack_top - 1 /\ registers'[r] = stack[stack_top - 1]
             /\ \A s \in RegIndex \ {r} : registers'[s] = registers[s]
             /\ pc' = pc + 1
             /\ UNCHANGED <<prog, status, cmp, call_stack, call_stack_top, stack, msg, out>>
<1>3. CASE pc = 24
  <2>1. At(I1("pop", Reg(17))) /\ stack_top = 4
    BY <1>1, <1>3, FibIterCode DEF At, In
  <2>2. Pops(17)
    BY <1>2, <2>1, PopStep
  <2> QED
    BY <1>1, <1>2, <1>3, <2>1, <2>2 DEF FibRunning, FibRestores, FibCalled, Saved
<1>4. CASE pc = 25
  <2>1. At(I1("pop", Reg(11))) /\ stack_top = 3
    BY <1>1, <1>4, FibIterCode DEF At, In
  <2>2. Pops(11)
    BY <1>2, <2>1, PopStep
  <2> QED
    BY <1>1, <1>2, <1>4, <2>1, <2>2 DEF FibRunning, FibRestores, FibCalled, Saved
<1>5. CASE pc = 26
  <2>1. At(I1("pop", Reg(8))) /\ stack_top = 2
    BY <1>1, <1>5, FibIterCode DEF At, In
  <2>2. Pops(8)
    BY <1>2, <2>1, PopStep
  <2> QED
    BY <1>1, <1>2, <1>5, <2>1, <2>2 DEF FibRunning, FibRestores, FibCalled, Saved
<1>6. CASE pc = 27
  <2>1. At(I1("pop", Reg(13))) /\ stack_top = 1
    BY <1>1, <1>6, FibIterCode DEF At, In
  <2>2. Pops(13)
    BY <1>2, <2>1, PopStep
  <2> QED
    BY <1>1, <1>2, <1>6, <2>1, <2>2 DEF FibRunning, FibRestores, FibCalled, Saved
<1>7. CASE pc = 28
  <2>1. At(I0("ret"))
    BY <1>1, <1>7, FibIterCode DEF At, In
  <2>2. /\ pc' = 4 /\ call_stack_top' = 0
        /\ UNCHANGED <<status, registers, stack, stack_top>>
    BY <1>1, <2>1, RetStep
  <2> QED
    BY <1>1, <1>2, <1>7, <2>2 DEF FibRunning, FibMain
<1> QED
  BY <1>1, <1>3, <1>4, <1>5, <1>6, <1>7

\* The values the loop adds are those of FibOf, one after the other.
LEMMA FibNext ==
  ASSUME NEW n, FibFits(n), NEW k \in Nat, k <= n
  PROVE  /\ FibOf[k] \in Word /\ FibOf[k] \in Nat /\ Before(k) \in Nat /\ Before(k) \in Word
         /\ FibOf[0] = 1 /\ Before(0) = 0
         /\ k > 0 => FibOf[k] = FibOf[k - 1] + Before(k - 1) /\ Before(k) = FibOf[k - 1]
<1>1. n \in Nat \ {0} /\ \A j \in 0 .. n : FibOf[j] \in Word
  BY DEF FibFits
<1>2. /\ \A j \in Nat : FibOf[j] \in Nat
      /\ \A j \in Nat : FibOf[j] = IF j < 2 THEN 1 ELSE FibOf[j - 1] + FibOf[j - 2]
  BY FibIs
<1>3. FibOf[0] = 1 /\ Before(0) = 0 /\ FibOf[k] \in Word /\ FibOf[k] \in Nat
  BY <1>1, <1>2 DEF Before
<1>4. 0 \in Word
  BY WordsAssumption DEF Word
<1>5. CASE k = 0
  BY <1>3, <1>4, <1>5
<1>6. CASE k = 1
  <2>1. FibOf[1] = 1 /\ Before(1) = FibOf[0] /\ FibOf[0] \in Word
    BY <1>1, <1>2 DEF Before
  <2>2. k - 1 = 0
    BY <1>6
  <2> QED
    BY <1>3, <1>6, <2>1, <2>2
<1>7. CASE k >= 2
  <2>1. /\ k - 1 \in 0 .. n /\ k - 1 \in Nat /\ k - 1 # 0 /\ (k - 1) - 1 = k - 2 /\ k # 0
        /\ ~(k < 2)
    BY <1>1, <1>7
  <2>2. Before(k) = FibOf[k - 1] /\ Before(k - 1) = FibOf[(k - 1) - 1]
    BY <2>1 DEF Before
  <2>3. FibOf[k] = FibOf[k - 1] + FibOf[k - 2]
    BY <1>2, <2>1
  <2>4. FibOf[k - 1] \in Word /\ FibOf[k - 1] \in Nat
    BY <1>1, <1>2, <2>1
  <2> QED
    BY <1>3, <2>1, <2>2, <2>3, <2>4
<1> QED
  BY <1>5, <1>6, <1>7

LEMMA FibLoopStep ==
  ASSUME IInv, Next, NEW n, prog = Fib(n), FibFits(n), status = "running", FibLoop(n)
  PROVE  FibRunning(n)'
<1> DEFINE a == registers[0]
           i == registers[8]
<1>1. /\ pc \in 13 .. 23 /\ pc < Len(prog) /\ stack_top = 4
      /\ call_stack_top = 1 /\ call_stack[0] = 4
      /\ registers[1] = n /\ a \in 1 .. n /\ i \in 0 .. a
      /\ stack[0] = 0 /\ stack[1] = a /\ stack[2] = 0 /\ stack[3] = 0
  <2>1. Len(prog) = 29
    BY FibCode
  <2> QED
    BY <2>1 DEF FibLoop, FibCalled, Saved
<1>2. /\ n \in Nat \ {0} /\ {0, 1, 8, 11, 13, 17, 25} \subseteq RegIndex
      /\ a \in Nat /\ i \in Nat /\ a <= n /\ 0 \in Word /\ 1 \in Word /\ i \in Word
      /\ a - i \in Nat /\ a - i <= n
  <2>1. n \in Nat \ {0} /\ {0, 1, 8, 11, 13, 17, 25} \subseteq RegIndex /\ i \in Word
    BY FibRegisters DEF FibFits
  <2>2. 0 \in Word
    BY WordsAssumption DEF Word
  <2>3. 1 \in Word
    BY <2>1, FibNext
  <2>4. a \in 1 .. n /\ i \in 0 .. a
    BY <1>1
  <2> HIDE DEF a, i
  <2>5. a \in Nat /\ i \in Nat /\ a <= n /\ a - i \in Nat /\ a - i <= n
    BY <2>1, <2>4
  <2> QED
    BY <2>1, <2>2, <2>3, <2>5
<1>3. ASSUME NEW r \in {8, 11, 13, 17, 25}, NEW v, Gives(r, v)
      PROVE  /\ pc' = pc + 1 /\ registers'[r] = v
             /\ registers'[0] = a
             /\ r # 8 => registers'[8] = i
             /\ r # 11 => registers'[11] = registers[11]
             /\ r # 13 => registers'[13] = registers[13]
             /\ r # 17 => registers'[17] = registers[17]
             /\ status' = "running" /\ FibCalled(n)' /\ Saved' /\ stack_top' = 4
             /\ cmp' = cmp
  <2>1. /\ pc' = pc + 1 /\ registers'[r] = v
        /\ \A s \in RegIndex \ {r} : registers'[s] = registers[s]
        /\ status' = status /\ cmp' = cmp /\ call_stack' = call_stack
        /\ call_stack_top' = call_stack_top /\ stack' = stack /\ stack_top' = stack_top
    BY <1>3, Given
  <2>2. \A s \in {0, 1, 8, 11, 13, 17, 25} \ {r} : registers'[s] = registers[s]
    BY <1>2, <2>1
  <2>3. registers'[0] = registers[0] /\ registers'[1] = registers[1]
    BY <2>2
  <2> QED
    BY <1>1, <2>1, <2>2, <2>3 DEF FibCalled, Saved
<1>4. ASSUME NEW t, Goes(t)
      PROVE  /\ pc' = t /\ registers' = registers /\ status' = "running"
             /\ FibCalled(n)' /\ Saved' /\ stack_top' = 4
  BY <1>1, <1>4 DEF Goes, stacks, FibCalled, Saved
<1>5. CASE pc = 13
  <2>1. At(I2("mov", Reg(8), Reg(0)))
    BY <1>1, <1>5, FibIterCode DEF At, In
  <2>2. Gives(8, a)
    BY <2>1, PlainStep, ReadsRegister
  <2>3. /\ pc' = 14 /\ registers'[0] = a /\ registers'[8] = a
        /\ status' = "running" /\ FibCalled(n)' /\ Saved' /\ stack_top' = 4
    BY <1>3, <1>5, <2>2
  <2> QED
    BY <1>2, <2>3 DEF FibRunning, FibLoop
<1>6. CASE pc = 14
  <2>1. At(I2("mov", Reg(13), Imm(0))) /\ i = a
    BY <1>1, <1>6, FibIterCode DEF At, In, FibLoop
  <2>2. Gives(13, 0)
    BY <2>1, PlainStep, ReadsLiteral
  <2>3. /\ pc' = 15 /\ registers'[0] = a /\ registers'[8] = i /\ registers'[13] = 0
        /\ status' = "running" /\ FibCalled(n)' /\ Saved' /\ stack_top' = 4
    BY <1>3, <1>6, <2>2
  <2> QED
    BY <1>1, <2>1, <2>3 DEF FibRunning, FibLoop
<1>7. CASE pc = 15
  <2>1. At(I2("mov", Reg(17), Imm(1))) /\ i = a /\ registers[13] = 0
    BY <1>1, <1>7, FibIterCode DEF At, In, FibLoop
  <2>2. Gives(17, 1)
    BY <2>1, PlainStep, ReadsLiteral
  <2>3. FibOf[a - i] = 1 /\ Before(a - i) = 0
    <3>1. a - i = 0
      BY <1>2, <2>1
    <3> QED
      BY <1>2, <3>1, FibNext
  <2>4. /\ pc' = 16 /\ registers'[0] = a /\ registers'[8] = i
        /\ registers'[17] = FibOf[a - i] /\ registers'[13] = Before(a - i)
        /\ status' = "running" /\ FibCalled(n)' /\ Saved' /\ stack_top' = 4
    BY <1>3, <1>7, <2>1, <2>2, <2>3
  <2> QED
    BY <1>1, <2>4 DEF FibRunning, FibLoop
<1>8. CASE pc = 16
  <2>1. /\ At(I2("cmp", Reg(8), Imm(0)))
        /\ registers[17] = FibOf[a - i] /\ registers[13] = Before(a - i)
    BY <1>1, <1>8, FibLoopCode DEF At, In, FibLoop
  <2>2. /\ cmp' = ToWord(i - 0) /\ pc' = 17
        /\ UNCHANGED <<status, registers, stacks>>
    BY <1>8, <2>1, CmpStep, ReadsRegister, ReadsLiteral
  <2>3. cmp' = i
    <3>1. i - 0 = i
      BY <1>2
    <3> QED
      BY <1>2, <2>2, <3>1, WordUnchanged
  <2>4. FibCalled(n)' /\ Saved' /\ stack_top' = 4 /\ status' = "running"
    BY <1>1, <2>2 DEF FibCalled, Saved, stacks
  <2> QED
    BY <1>1, <1>2, <2>1, <2>2, <2>3, <2>4 DEF FibRunning, FibLoop
<1>9. CASE pc = 17
  <2>1. /\ At(I1("jle", To(23))) /\ cmp = i
        /\ registers[17] = FibOf[a - i] /\ registers[13] = Before(a - i)
    BY <1>1, <1>9, FibLoopCode DEF At, In, FibLoop
  <2>2. Goes(IF i <= 0 THEN 23 ELSE 18)
    BY <1>9, <2>1, JumpStep
  <2>3. CASE i = 0
    <3>1. Goes(23) /\ a - i = a
      BY <1>2, <2>2, <2>3
    <3>2. /\ pc' = 23 /\ registers'[0] = a /\ registers'[8] = 0 /\ registers'[17] = FibOf[a]
          /\ status' = "running" /\ FibCalled(n)' /\ Saved' /\ stack_top' = 4
      BY <1>4, <2>1, <2>3, <3>1
    <3> QED
      BY <1>1, <3>2 DEF FibRunning, FibLoop
  <2>4. CASE i > 0
    <3>1. Goes(18)
      BY <1>2, <2>2, <2>4
    <3>2. /\ pc' = 18 /\ registers'[0] = a /\ registers'[8] = i
          /\ registers'[17] = FibOf[a - i] /\ registers'[13] = Before(a - i)
          /\ status' = "running" /\ FibCalled(n)' /\ Saved' /\ stack_top' = 4
      BY <1>4, <2>1, <3>1
    <3> QED
      BY <1>1, <2>4, <3>2 DEF FibRunning, FibLoop
  <2> QED
    BY <1>2, <2>3, <2>4
<1>10. CASE pc = 18
  <2>1. /\ At(I1("dec", Reg(8))) /\ i > 0
        /\ registers[17] = FibOf[a - i] /\ registers[13] = Before(a - i)
    BY <1>1, <1>10, FibLoopCode DEF At, In, FibLoop
  <2>2. i - 1 \in Word /\ i - 1 \in 0 .. a /\ i - 1 < a /\ (a - (i - 1)) - 1 = a - i
    <3>1. i - 1 \in Word
      BY <1>2, <2>1, WordsAssumption DEF Word
    <3>2. a \in Nat /\ i \in 1 .. a
      BY <1>1, <1>2, <2>1
    <3> HIDE DEF a, i
    <3> QED
      BY <3>1, <3>2
  <2>3. Gives(8, i - 1)
    BY <2>1, <2>2, DecStep, WordUnchanged
  <2>4. /\ pc' = 19 /\ registers'[0] = a /\ registers'[8] = i - 1
        /\ registers'[17] = FibOf[a - i] /\ registers'[13] = Before(a - i)
        /\ status' = "running" /\ FibCalled(n)' /\ Saved' /\ stack_top' = 4
    BY <1>3, <1>10, <2>1, <2>3
  <2>5. (registers'[0] - registers'[8]) - 1 = a - i
    BY <2>2, <2>4
  <2> QED
    BY <2>2, <2>4, <2>5 DEF FibRunning, FibLoop
<1>11. CASE pc = 19
  <2>1. /\ At(I2("mov", Reg(11), Reg(17))) /\ i < a
        /\ registers[17] = FibOf[a - i - 1] /\ registers[13] = Before(a - i - 1)
    BY <1>1, <1>11, FibLoopCode DEF At, In, FibLoop
  <2>2. Gives(11, registers[17])
    BY <2>1, PlainStep, ReadsRegister
  <2>3. /\ pc' = 20 /\ registers'[0] = a /\ registers'[8] = i
        /\ registers'[17] = FibOf[a - i - 1] /\ registers'[13] = Before(a - i - 1)
        /\ registers'[11] = FibOf[a - i - 1]
        /\ status' = "running" /\ FibCalled(n)' /\ Saved' /\ stack_top' = 4
    BY <1>3, <1>11, <2>1, <2>2
  <2> QED
    BY <1>1, <2>1, <2>3 DEF FibRunning, FibLoop
<1>12. CASE pc = 20
  <2>1. /\ At(I2("add", Reg(17), Reg(13))) /\ i < a /\ registers[11] = FibOf[a - i - 1]
        /\ registers[17] = FibOf[a - i - 1] /\ registers[13] = Before(a - i - 1)
    BY <1>1, <1>12, FibLoopCode DEF At, In, FibLoop
  <2>2. FibOf[a - i] = registers[17] + registers[13] /\ FibOf[a - i] \in Word
    <3>1. a - i > 0
      BY <1>2, <2>1
    <3> QED
      BY <1>2, <2>1, <3>1, FibNext
  <2>3. Gives(17, FibOf[a - i])
    BY <2>1, <2>2, PlainStep, ReadsRegister, WordUnchanged
  <2>4. /\ pc' = 21 /\ registers'[0] = a /\ registers'[8] = i
        /\ registers'[17] = FibOf[a - i] /\ registers'[11] = FibOf[a - i - 1]
        /\ status' = "running" /\ FibCalled(n)' /\ Saved' /\ stack_top' = 4
    BY <1>3, <1>12, <2>1, <2>3
  <2> QED
    BY <1>1, <2>1, <2>4 DEF FibRunning, FibLoop
<1>13. CASE pc = 21
  <2>1. /\ At(I2("mov", Reg(13), Reg(11))) /\ i < a
        /\ registers[11] = FibOf[a - i - 1] /\ registers[17] = FibOf[a - i]
    BY <1>1, <1>13, FibLoopCode DEF At, In, FibLoop
  <2>2. Gives(13, registers[11])
    BY <2>1, PlainStep, ReadsRegister
  <2>3. /\ pc' = 22 /\ registers'[0] = a /\ registers'[8] = i
        /\ registers'[17] = FibOf[a - i] /\ registers'[13] = FibOf[a - i - 1]
        /\ status' = "running" /\ FibCalled(n)' /\ Saved' /\ stack_top' = 4
    BY <1>3, <1>13, <2>1, <2>2
  <2> QED
    BY <1>1, <2>1, <2>3 DEF FibRunning, FibLoop
<1>14. CASE pc = 22
  <2>1. /\ At(I1("jmp", To(16))) /\ i < a
        /\ registers[13] = FibOf[a - i - 1] /\ registers[17] = FibOf[a - i]
    BY <1>1, <1>14, FibLoopCode DEF At, In, FibLoop
  <2>2. Goes(16)
    BY <2>1, JumpStep
  <2>3. Before(a - i) = FibOf[a - i - 1]
    <3>1. a - i > 0
      BY <1>2, <2>1
    <3> QED
      BY <1>2, <3>1, FibNext
  <2>4. /\ pc' = 16 /\ registers'[0] = a /\ registers'[8] = i
        /\ registers'[17] = FibOf[a - i] /\ registers'[13] = Before(a - i)
        /\ status' = "running" /\ FibCalled(n)' /\ Saved' /\ stack_top' = 4
    BY <1>4, <2>1, <2>2, <2>3
  <2> QED
    BY <1>1, <2>4 DEF FibRunning, FibLoop
<1>15. CASE pc = 23
  <2>1. At(I2("mov", Reg(25), Reg(17))) /\ registers[17] = FibOf[a]
    BY <1>1, <1>15, FibIterCode DEF At, In, FibLoop
  <2>2. Gives(25, registers[17])
    BY <2>1, PlainStep, ReadsRegister
  <2>3. /\ pc' = 24 /\ registers'[25] = FibOf[a] /\ registers'[0] = a
        /\ status' = "running" /\ FibCalled(n)' /\ Saved' /\ stack_top' = 4
    BY <1>3, <1>15, <2>1, <2>2
  <2> QED
    BY <2>3 DEF FibRunning, FibRestores
<1> QED
  BY <1>1, <1>5, <1>6, <1>7, <1>8, <1>9, <1>10, <1>11, <1>12, <1>13, <1>14, <1>15

LEMMA FibKeeps ==
  ASSUME IInv, [Next]_vars, NEW n, FibFits(n), MAX_STACK >= 4, FibInv(n),
         LineBreak = EscapedNewLine, EscapedNewLine \notin Int \cup {S1}
  PROVE  FibInv(n)'
<1>1. SUFFICES ASSUME prog' = Fib(n) PROVE FibRunning(n)' \/ FibStopped(n)'
  BY DEF FibInv
<1>2. prog = Fib(n)
  BY <1>1, SameProgram
<1>3. CASE FibRunning(n) /\ Next
  BY <1>2, <1>3, FibMainStep, FibSavesStep, FibLoopStep, FibRestoresStep DEF FibRunning
<1>4. CASE FibRunning(n) /\ UNCHANGED vars
  BY <1>4 DEF FibRunning, FibMain, FibCalled, FibSaves, FibLoop, Saved, FibRestores, vars, stacks
<1>5. CASE FibStopped(n)
  <2>1. UNCHANGED vars
    BY <1>5, OnlyHalted DEF FibStopped
  <2> QED
    BY <1>5, <2>1 DEF FibStopped, vars, stacks
<1> QED
  BY <1>2, <1>3, <1>4, <1>5 DEF FibInv

\* What FibResult says of the run for n.
FibRight(n) ==
  /\ status = "ended" /\ stack_top = 0 /\ call_stack_top = 0
  /\ out = <<S1, n, FibOf[n], NewLine>>
  /\ Result("i") = n + 1
  /\ \A name \in {"n", "l", "r"} : Result(name) = 0

LEMMA FibComputes ==
  ASSUME NEW n, FibInv(n), Stopped, prog = Fib(n)
  PROVE  FibRight(n)
<1>1. FibStopped(n)
  BY DEF FibInv, FibRunning, Stopped
<1>2. Result("i") = registers[8] /\ Result("n") = registers[13]
      /\ Result("l") = registers[11] /\ Result("r") = registers[17]
  BY FibNames DEF Result, R, Reg
<1> QED
  BY <1>1, <1>2 DEF FibStopped, FibLine, FibRight

\* fib.asm ends behind its last index, has shown the Fibonacci number of it, and
\* fib_iter gives its caller the four registers back that it saves on the data
\* stack: for every number of indices whose Fibonacci numbers are words, words of
\* any width and a data stack of four or more.
THEOREM FibOfAny ==
  ASSUME NEW n, FibFits(n), MAX_STACK >= 4,
         LineBreak = EscapedNewLine, EscapedNewLine \notin Int \cup {S1}
  PROVE  Spec => [](Stopped /\ prog = Fib(n) => FibRight(n))
<1>1. Init => FibInv(n)
  BY FibStart
<1>2. IInv /\ [Next]_vars /\ FibInv(n) => FibInv(n)'
  BY FibKeeps
<1>3. FibInv(n) => (Stopped /\ prog = Fib(n) => FibRight(n))
  BY FibComputes
<1> QED
  BY <1>1, <1>2, <1>3, Invariance, PTL DEF Spec

\* The same of the numbers FibResult names.
THEOREM FibComputed ==
  ASSUME \A n \in 1 .. 6 : FibFits(n), MAX_STACK >= 4,
         LineBreak = EscapedNewLine, EscapedNewLine \notin Int \cup {S1}
  PROVE  Spec => []FibResult
<1> DEFINE All == \A n \in 1 .. 6 : FibInv(n)
<1>1. Init => All
  BY FibStart
<1>2. IInv /\ [Next]_vars /\ All => All'
  BY FibKeeps
<1>3. All => FibResult
  BY FibComputes DEF FibResult, FibRight
<1> QED
  BY <1>1, <1>2, <1>3, Invariance, PTL DEF Spec

-----------------------------------------------------------------------------
(* Memory, one instruction at a time *)

\* Reading the operand gives one value, and which.
Definite(op) ==
  \/ op.type \in {"REG", "INT"}
  \/ /\ op.type = "MEM_ADDRESS" /\ Mapped(Address(op))
     /\ heap[Address(op)] # Unknown

Value(op) == IF op.type = "MEM_ADDRESS" THEN heap[Address(op)] ELSE Plain(op)

LEMMA DefiniteIs ==
  ASSUME TypeOK, NEW op, Usable(op), Definite(op)
  PROVE  /\ Value(op) \in Word /\ Value(op) \in Int
         /\ REG_OR_INT_OR_MEM(op) = {Value(op)}
         /\ Readable(op)
<1>1. Readable(op)
  BY DEF Definite, Readable
<1>2. CASE op.type \in {"REG", "INT"}
  BY <1>1, <1>2, PlainIsWord DEF Value, Word
<1>3. CASE op.type = "MEM_ADDRESS"
  <2>1. heap[Address(op)] # Unknown
    BY <1>3 DEF Definite
  <2>2. REG_OR_INT_OR_MEM(op) = {heap[Address(op)]}
    BY <1>3, <2>1 DEF REG_OR_INT_OR_MEM
  <2>3. heap[Address(op)] \in Word
    BY <1>1, <2>2, ValuesAreWords
  <2> QED
    BY <1>1, <1>3, <2>2, <2>3 DEF Value, Word
<1> QED
  BY <1>2, <1>3 DEF Definite

\* What a mov, add or sub does with operands of one value each.
LEMMA MemoryStep ==
  ASSUME IInv, Next, NEW opcode \in {"mov", "add", "sub"}, NEW dst, NEW src,
         At(I2(opcode, dst, src)), Definite(src), Writable(dst),
         opcode = "mov" \/ Definite(dst)
  PROVE  /\ Value(src) \in Word
         /\ \E v \in Word :
              /\ Store(dst, v)
              /\ opcode = "mov" => v = Value(src)
              /\ opcode = "add" => v = ToWord(Value(dst) + Value(src))
              /\ opcode = "sub" => v = ToWord(Value(dst) - Value(src))
         /\ Advance /\ UNCHANGED <<cmp, stacks, msg, out>>
<1>1. /\ In.opcode = opcode /\ Fetch(opcode) /\ opcode \in Arithmetic
      /\ OP0 = dst /\ OP1 = src
  BY DEF At, I2, Fetch, Arithmetic, OP0, OP1
<1>2. Usable(dst) /\ Usable(src) /\ TypeOK
  BY <1>1, Fetched DEF IInv
<1>3. Value(src) \in Word /\ Value(src) \in Int /\ Rhs = {Value(src)} /\ Readable(src)
  BY <1>1, <1>2, DefiniteIs DEF Rhs
<1>4. Definite(dst) => Value(dst) \in Int /\ Old = {Value(dst)}
  BY <1>1, <1>2, DefiniteIs DEF Old
<1>5. ~WildAccess
  BY <1>1, <1>3 DEF WildAccess, Fetch
<1>6. ASSUME NEW values, MEMORY_OR_REG_OP(values), NEW n \in Int, values = {n}
      PROVE  /\ Store(dst, ToWord(n)) /\ ToWord(n) \in Word
             /\ Advance /\ UNCHANGED <<cmp, stacks, msg, out>>
  BY <1>1, <1>6, ToWordIsWord DEF MEMORY_OR_REG_OP
<1>7. CASE opcode = "mov"
  <2>1. MEMORY_OR_REG_OP(Rhs)
    BY <1>1, <1>5, <1>7, StepOf DEF At, Mov
  <2>2. ToWord(Value(src)) = Value(src)
    BY <1>3, WordUnchanged
  <2> QED
    BY <1>3, <1>6, <1>7, <2>1, <2>2
<1>8. CASE opcode = "add"
  <2> DEFINE values == {a + b : a \in Old, b \in Rhs}
  <2>1. MEMORY_OR_REG_OP(values)
    BY <1>1, <1>5, <1>8, StepOf DEF At, Add
  <2>2. values = {Value(dst) + Value(src)} /\ Value(dst) + Value(src) \in Int
    BY <1>3, <1>4, <1>8
  <2> HIDE DEF values
  <2> QED
    BY <1>3, <1>6, <1>8, <2>1, <2>2
<1>9. CASE opcode = "sub"
  <2> DEFINE values == {a - b : a \in Old, b \in Rhs}
  <2>1. MEMORY_OR_REG_OP(values)
    BY <1>1, <1>5, <1>9, StepOf DEF At, Sub
  <2>2. values = {Value(dst) - Value(src)} /\ Value(dst) - Value(src) \in Int
    BY <1>3, <1>4, <1>9
  <2> HIDE DEF values
  <2> QED
    BY <1>3, <1>6, <1>9, <2>1, <2>2
<1> QED
  BY <1>7, <1>8, <1>9

\* A mov to an address that is in no block.
LEMMA WildStep ==
  ASSUME IInv, Next, NEW r, NEW dst, At(I2("mov", dst, Reg(r))),
         dst.type = "MEM_ADDRESS", ~Mapped(Address(dst))
  PROVE  Stop("undefined")
<1>1. In.opcode = "mov" /\ OP0 = dst
  BY DEF At, I2, OP0
<1>2. ~Writable(OP0)
  BY <1>1 DEF Writable, Readable
<1>3. ~Mov
  BY <1>2 DEF Mov, MEMORY_OR_REG_OP
<1>4. WildAccess
  BY <1>1, <1>3, StepOf DEF At
<1> QED
  BY <1>4 DEF WildAccess

\* A word is written to an address: the words that do not overlap it stay.
Puts(x, v) ==
  /\ heap'[x] = v
  /\ \A z \in Addr : z + WORD_BYTES <= x \/ x + WORD_BYTES <= z => heap'[z] = heap[z]
  /\ pc' = pc + 1
  /\ UNCHANGED <<prog, status, registers, blocks, cmp, stacks, msg, out>>

LEMMA StorePuts ==
  ASSUME NEW op, op.type = "MEM_ADDRESS", NEW v, Store(op, v), Address(op) \in Addr,
         Advance, UNCHANGED <<cmp, stacks, msg, out>>
  PROVE  Puts(Address(op), v)
<1> DEFINE x == Address(op)
<1>1. /\ heap' = [z \in Addr |-> IF z = x THEN v
                                 ELSE IF Bytes(z) \cap Bytes(x) # {} THEN Unknown ELSE heap[z]]
      /\ UNCHANGED <<registers, blocks>>
  BY DEF Store
<1> HIDE DEF x
<1>2. heap'[x] = v
  BY <1>1 DEF x
<1>3. ASSUME NEW z \in Addr, z + WORD_BYTES <= x \/ x + WORD_BYTES <= z
      PROVE  heap'[z] = heap[z]
  <2>1. x \in Nat /\ z \in Nat /\ WORD_BYTES \in Nat \ {0}
    BY VmAssumption DEF Addr, x
  <2>2. z # x /\ Bytes(z) \cap Bytes(x) = {}
    BY <1>3, <2>1 DEF Bytes
  <2> QED
    BY <1>1, <2>2
<1> QED
  BY <1>1, <1>2, <1>3 DEF Puts, Advance, x

\* A word read from an address.
Takes(r, v) ==
  /\ r \in RegIndex /\ v \in Word
  /\ registers' = [registers EXCEPT ![r] = v]
  /\ pc' = pc + 1
  /\ UNCHANGED <<prog, status, heap, blocks, cmp, stacks, msg, out>>

LEMMA StoreTakes ==
  ASSUME IInv, NEW r, Usable(Reg(r)), NEW v \in Word, Store(Reg(r), v),
         Advance, UNCHANGED <<cmp, stacks, msg, out>>
  PROVE  Takes(r, v)
BY DEF Store, Takes, Reg, Advance, memory, Usable

LEMMA Taken ==
  ASSUME IInv, NEW r, NEW v, Takes(r, v)
  PROVE  /\ registers'[r] = v
         /\ \A s \in RegIndex \ {r} : registers'[s] = registers[s]
BY DEF Takes, IInv, TypeOK

LEMMA TakeStep ==
  ASSUME IInv, Next, NEW opcode \in {"mov", "add"}, NEW r, NEW src,
         At(I2(opcode, Reg(r), src)), Definite(src)
  PROVE  /\ r \in RegIndex /\ registers[r] \in Word /\ Value(src) \in Word
         /\ opcode = "mov" => Takes(r, Value(src))
         /\ opcode = "add" => Takes(r, ToWord(registers[r] + Value(src)))
<1>1. Fetch(opcode) /\ opcode \in Arithmetic /\ OP0 = Reg(r)
  BY DEF At, I2, Fetch, Arithmetic, OP0
<1>2. Usable(Reg(r)) /\ TypeOK
  BY <1>1, Fetched DEF IInv
<1>3. r \in RegIndex /\ registers[r] \in Word
  BY <1>2 DEF Usable, Reg, TypeOK
<1>4. Writable(Reg(r)) /\ Definite(Reg(r)) /\ Value(Reg(r)) = registers[r]
  BY DEF Writable, Readable, Definite, Value, Plain, REG, Reg
<1>5. /\ Value(src) \in Word
      /\ \E v \in Word :
           /\ Store(Reg(r), v)
           /\ opcode = "mov" => v = Value(src)
           /\ opcode = "add" => v = ToWord(Value(Reg(r)) + Value(src))
      /\ Advance /\ UNCHANGED <<cmp, stacks, msg, out>>
  BY <1>4, MemoryStep
<1> QED
  BY <1>2, <1>3, <1>4, <1>5, StoreTakes

LEMMA PlainTakes ==
  /\ \A r : Definite(Reg(r)) /\ Value(Reg(r)) = registers[r]
  /\ \A n : Definite(Imm(n)) /\ Value(Imm(n)) = n
BY DEF Definite, Value, Plain, Reg, Imm, REG

LEMMA PutStep ==
  ASSUME IInv, Next, NEW opcode \in {"mov", "sub"}, NEW r, NEW n, NEW src,
         At(I2(opcode, Mem(r, n), src)), Definite(src),
         Mapped(Address(Mem(r, n))), Address(Mem(r, n)) \in Addr,
         opcode = "mov" \/ Definite(Mem(r, n))
  PROVE  /\ Value(src) \in Word
         /\ opcode = "mov" => Puts(Address(Mem(r, n)), Value(src))
         /\ opcode = "sub" =>
              Puts(Address(Mem(r, n)), ToWord(heap[Address(Mem(r, n))] - Value(src)))
<1>1. Mem(r, n).type = "MEM_ADDRESS" /\ Value(Mem(r, n)) = heap[Address(Mem(r, n))]
  BY DEF Mem, Value
<1>2. Writable(Mem(r, n))
  BY <1>1 DEF Writable, Readable
<1>3. /\ Value(src) \in Word
      /\ \E v \in Word :
           /\ Store(Mem(r, n), v)
           /\ opcode = "mov" => v = Value(src)
           /\ opcode = "sub" => v = ToWord(Value(Mem(r, n)) - Value(src))
      /\ Advance /\ UNCHANGED <<cmp, stacks, msg, out>>
  BY <1>2, MemoryStep
<1> QED
  BY <1>1, <1>3, StorePuts

\* malloc has answered with a new block of the size, or with 0.
Allocated(r, p, size) ==
  /\ registers'[r] = p
  /\ p = 0 => UNCHANGED memory
  /\ p # 0 => /\ Free(p, size)
              /\ DOMAIN blocks' = DOMAIN blocks \cup {p}
              /\ blocks'[p] = size
              /\ \A b \in DOMAIN blocks \ {p} : blocks'[b] = blocks[b]

LEMMA MallocStep ==
  ASSUME IInv, Next, NEW s, NEW r, At(I2("malloc", Reg(s), Reg(r))),
         HEAP_BYTES + WORD_BYTES < WordHalf
  PROVE  /\ r \in RegIndex
         /\ \E p \in Addr \cup {0} : Allocated(r, p, registers[s])
         /\ \A t \in RegIndex \ {r} : registers'[t] = registers[t]
         /\ pc' = pc + 1
         /\ UNCHANGED <<prog, status, cmp, stacks, msg, out>>
<1>1. In.opcode = "malloc" /\ Fetch("malloc") /\ OP0 = Reg(s) /\ OP1 = Reg(r)
  BY DEF At, I2, Fetch, OP0, OP1
<1>2. r \in RegIndex /\ registers \in [RegIndex -> Word]
  BY <1>1, Fetched DEF IInv, TypeOK, Usable, Reg
<1>3. Malloc
  BY <1>1, StepOf DEF At
<1>4. Advance /\ UNCHANGED <<cmp, stacks, msg, out>>
  BY <1>3 DEF Malloc
<1>5. REG(OP0) = registers[s] /\ OP1.arg = r
  BY <1>1 DEF Reg, REG
<1>6. CASE registers' = [registers EXCEPT ![r] = 0] /\ UNCHANGED memory
  <2>1. Allocated(r, 0, registers[s])
    BY <1>2, <1>6 DEF Allocated
  <2> QED
    BY <1>2, <1>4, <1>6, <2>1 DEF Advance
<1>7. ASSUME NEW x \in Addr, Free(x, registers[s]),
             registers' = [registers EXCEPT ![r] = ToWord(x)],
             blocks' = [b \in DOMAIN blocks \cup {x} |->
                          IF b = x THEN registers[s] ELSE blocks[b]]
      PROVE  Allocated(r, x, registers[s])
  <2>1. x \in Word /\ x # 0
    BY VmAssumption, WordsAssumption DEF Addr, Word
  <2>2. ToWord(x) = x
    BY <2>1, WordUnchanged
  <2>3. registers'[r] = x
    BY <1>2, <1>7, <2>2
  <2>4. /\ DOMAIN blocks' = DOMAIN blocks \cup {x} /\ blocks'[x] = registers[s]
        /\ \A b \in DOMAIN blocks \ {x} : blocks'[b] = blocks[b]
    BY <1>7
  <2> QED
    BY <1>7, <2>1, <2>3, <2>4 DEF Allocated
<1>8. \/ registers' = [registers EXCEPT ![r] = 0] /\ UNCHANGED memory
      \/ \E x \in Addr :
           /\ Free(x, registers[s])
           /\ registers' = [registers EXCEPT ![r] = ToWord(x)]
           /\ blocks' = [b \in DOMAIN blocks \cup {x} |->
                           IF b = x THEN registers[s] ELSE blocks[b]]
  BY <1>3, <1>5 DEF Malloc
<1>9. \A t \in RegIndex \ {r} : registers'[t] = registers[t]
  BY <1>2, <1>8
<1> QED
  BY <1>2, <1>4, <1>6, <1>7, <1>8, <1>9 DEF Advance

LEMMA FreeStep ==
  ASSUME IInv, Next, NEW r, At(I1("mfree", Reg(r))), registers[r] \in DOMAIN blocks \cup {0}
  PROVE  /\ DOMAIN blocks' = DOMAIN blocks \ {registers[r]}
         /\ \A b \in DOMAIN blocks \ {registers[r]} : blocks'[b] = blocks[b]
         /\ pc' = pc + 1
         /\ UNCHANGED <<prog, status, registers, cmp, stacks, msg, out, heap>>
<1>1. In.opcode = "mfree" /\ REG(OP0) = registers[r]
  BY DEF At, I1, OP0, Reg, REG
<1>2. Mfree
  BY <1>1, StepOf DEF At, BadFree
<1> QED
  BY <1>1, <1>2 DEF Mfree, Advance

\* Where a word behind the start of a block is, and that it may be used.
LEMMA InBlock ==
  ASSUME IInv, HEAP_BYTES + WORD_BYTES < WordHalf, NEW r, registers[r] \in DOMAIN blocks,
         NEW n \in Nat, n <= WORD_BYTES
  PROVE  LET p == registers[r]
         IN  /\ p \in Addr /\ Address(Mem(r, n)) = p + n
             /\ n + WORD_BYTES <= blocks[p] =>
                  Mapped(p + n) /\ p + n \in Addr /\ p \in Nat
<1> DEFINE p == registers[r]
           size == blocks[p]
<1>1. p \in Addr /\ size \in Nat /\ p .. p + size - 1 \subseteq Addr
  BY DEF IInv, TypeOK
<1>2. WORD_BYTES \in Nat \ {0} /\ HEAP_BYTES \in Nat
  BY VmAssumption
<1>3. p \in Nat /\ p + n \in Word
  BY <1>1, <1>2, WordsAssumption DEF Addr, Word
<1>4. Address(Mem(r, n)) = p + n
  BY <1>3, WordUnchanged DEF Address, Mem, REG
<1> HIDE DEF size, p
<1>5. ASSUME n + WORD_BYTES <= size PROVE Bytes(p + n) \subseteq p .. p + size - 1
  BY <1>1, <1>2, <1>3, <1>5 DEF Bytes
<1>6. ASSUME n + WORD_BYTES <= size PROVE p + n \in p .. p + size - 1
  BY <1>1, <1>2, <1>3, <1>6
<1>7. ASSUME n + WORD_BYTES <= size PROVE Mapped(p + n)
  BY <1>5, <1>7 DEF Mapped, size, p
<1> QED
  BY <1>1, <1>3, <1>4, <1>6, <1>7 DEF size, p

-----------------------------------------------------------------------------
(* Two words exchanged through memory *)

LEMMA PointerNames ==
  Of("a") = 0 /\ Of("b") = 1 /\ Of("p") = 15 /\ Of("q") = 16 /\ R("p") = Reg(15) /\ R("q") = Reg(16)
<1>1. Of("p") = 15
  <2>1. \A k \in 0 .. 25 : "p" = Alphabet[k + 1] <=> k = 15
    BY DEF Alphabet
  <2> QED
    BY <2>1, OfIs
<1>2. Of("q") = 16
  <2>1. \A k \in 0 .. 25 : "q" = Alphabet[k + 1] <=> k = 16
    BY DEF Alphabet
  <2> QED
    BY <2>1, OfIs
<1>3. Of("a") = 0 /\ Of("b") = 1
  BY Names DEF R, Reg
<1> QED
  BY <1>1, <1>2, <1>3 DEF R

LEMMA ExchangeCode ==
  ASSUME NEW x, NEW y, NEW size, prog = Exchange(x, y, size)
  PROVE  /\ Len(prog) = 12
         /\ prog[1] = I2("mov", Reg(0), Imm(x)) /\ prog[2] = I2("mov", Reg(1), Imm(y))
         /\ prog[3] = I2("mov", Reg(2), Imm(size)) /\ prog[4] = I2("malloc", Reg(2), Reg(15))
         /\ prog[5] = I2("cmp", Reg(15), Imm(0)) /\ prog[6] = I1("je", To(11))
         /\ prog[7] = I2("mov", Mem(15, 0), Reg(0))
         /\ prog[8] = I2("mov", Mem(15, WORD_BYTES), Reg(1))
         /\ prog[9] = I2("mov", Reg(0), Mem(15, WORD_BYTES))
         /\ prog[10] = I2("mov", Reg(1), Mem(15, 0))
         /\ prog[11] = I1("mfree", Reg(15)) /\ prog[12] = I0("end")
BY Names, PointerNames, SMTT(30) DEF Exchange

\* What is needed of the constants: an address and the word behind it are words,
\* and nothing that is not known is a word.
MemoryFits == HEAP_BYTES + WORD_BYTES < WordHalf /\ Unknown \notin Word

\* There is one block, at p, or none.
OnlyBlock(p, size) ==
  \/ p = 0 /\ DOMAIN blocks = {}
  \/ p # 0 /\ DOMAIN blocks = {p} /\ blocks[p] = size

\* The words are in their registers, in the block, and in each other's register.
ExchangeRunning(x, y, size) ==
  LET a == registers[0]
      b == registers[1]
      p == registers[15]
  IN  /\ status = "running" /\ pc \in 0 .. 11
      /\ pc \in 0 .. 3 => DOMAIN blocks = {}
      /\ pc \in 1 .. 8 => a = x
      /\ pc \in 2 .. 9 => b = y
      /\ pc = 3 => registers[2] = size
      /\ pc \in 4 .. 10 => OnlyBlock(p, size)
      /\ pc = 5 => cmp = p
      /\ pc \in 6 .. 10 => p # 0
      /\ pc \in 7 .. 10 => heap[p] = x
      /\ pc \in 8 .. 10 => size >= 2 * WORD_BYTES /\ heap[p + WORD_BYTES] = y
      /\ pc \in 9 .. 10 => a = y
      /\ pc = 10 => b = x
      /\ pc = 11 /\ p # 0 => a = y /\ b = x /\ size >= 2 * WORD_BYTES

ExchangeStopped(x, y, size) ==
  LET p == registers[15]
  IN  \/ /\ status = "ended"
         /\ p # 0 => size >= 2 * WORD_BYTES /\ registers[0] = y /\ registers[1] = x
      \/ status = "undefined" /\ p # 0 /\ size < 2 * WORD_BYTES

ExchangeInv(x, y, size) ==
  prog = Exchange(x, y, size) =>
    ExchangeRunning(x, y, size) \/ ExchangeStopped(x, y, size)

LEMMA ExchangeStart ==
  ASSUME Init, NEW x, NEW y, NEW size
  PROVE  ExchangeInv(x, y, size)
BY DEF Init, ExchangeInv, ExchangeRunning

LEMMA ExchangeRegisters ==
  ASSUME IInv, NEW x, NEW y, NEW size, prog = Exchange(x, y, size)
  PROVE  /\ {0, 1, 2, 15} \subseteq RegIndex
         /\ \A r \in RegIndex : registers[r] \in Word
         /\ x \in Word /\ y \in Word
<1>1. /\ prog \in Seq(Instruction) /\ Len(prog) = 12
      /\ prog[1] = I2("mov", Reg(0), Imm(x)) /\ prog[2] = I2("mov", Reg(1), Imm(y))
      /\ prog[5] = I2("cmp", Reg(15), Imm(0))
  BY ExchangeCode, ProgramsAssumption DEF IInv, TypeOK
<1>2. /\ {1, 2, 5} \subseteq DOMAIN prog /\ prog[1].operands = <<Reg(0), Imm(x)>>
      /\ prog[2].operands = <<Reg(1), Imm(y)>> /\ prog[5].operands = <<Reg(15), Imm(0)>>
  BY <1>1 DEF I2
<1>3. /\ prog[1].operands[2] = Imm(x) /\ 2 \in DOMAIN prog[1].operands
      /\ prog[2].operands[2] = Imm(y) /\ 2 \in DOMAIN prog[2].operands
      /\ prog[5].operands[1] = Reg(15) /\ 1 \in DOMAIN prog[5].operands
  BY <1>2
<1>4. x \in Word /\ y \in Word /\ 15 \in RegIndex
  BY <1>2, <1>3, Literals DEF Reg, Imm
<1>5. {0, 1, 2, 15} \subseteq RegIndex
  BY <1>4, ProgramAssumption DEF RegIndex
<1> QED
  BY <1>4, <1>5 DEF IInv, TypeOK

\* A word read into a register does not touch memory.
LEMMA TakesKeeps ==
  ASSUME IInv, NEW r, NEW v, Takes(r, v)
  PROVE  /\ registers'[r] = v /\ \A s \in RegIndex \ {r} : registers'[s] = registers[s]
         /\ heap' = heap /\ blocks' = blocks /\ pc' = pc + 1 /\ status' = status /\ cmp' = cmp
BY Taken DEF Takes

LEMMA ExchangeStep ==
  ASSUME IInv, Next, MemoryFits, NEW x, NEW y, NEW size, prog = Exchange(x, y, size),
         size \in Nat, size >= WORD_BYTES, ExchangeRunning(x, y, size)
  PROVE  ExchangeRunning(x, y, size)' \/ ExchangeStopped(x, y, size)'
<1> DEFINE a == registers[0]
           b == registers[1]
           p == registers[15]
<1>1. /\ pc \in 0 .. 11 /\ pc < Len(prog) /\ status = "running" /\ {0, 1, 2, 15} \subseteq RegIndex
      /\ x \in Word /\ y \in Word /\ x # Unknown /\ y # Unknown
      /\ WORD_BYTES \in Nat \ {0} /\ \A r \in RegIndex : registers[r] \in Word
  <2>1. Len(prog) = 12
    BY ExchangeCode
  <2>2. pc \in 0 .. 11 /\ status = "running"
    BY DEF ExchangeRunning
  <2> QED
    BY <2>1, <2>2, ExchangeRegisters, VmAssumption DEF MemoryFits
\* The block, if the program goes on with it.
<1>2. ASSUME pc \in 6 .. 10
      PROVE  /\ p # 0 /\ DOMAIN blocks = {p} /\ blocks[p] = size /\ p \in Addr /\ p \in Nat
             /\ Address(Mem(15, 0)) = p /\ Address(Mem(15, WORD_BYTES)) = p + WORD_BYTES
             /\ Mapped(p)
             /\ size >= 2 * WORD_BYTES => Mapped(p + WORD_BYTES) /\ p + WORD_BYTES \in Addr
             /\ size < 2 * WORD_BYTES => ~Mapped(p + WORD_BYTES)
  <2>1. p # 0 /\ DOMAIN blocks = {p} /\ blocks[p] = size
    BY <1>2 DEF ExchangeRunning, OnlyBlock
  <2>2. /\ p \in Addr /\ Address(Mem(15, 0)) = p + 0 /\ Mapped(p + 0) /\ p \in Nat
        /\ Address(Mem(15, WORD_BYTES)) = p + WORD_BYTES
        /\ WORD_BYTES + WORD_BYTES <= size => Mapped(p + WORD_BYTES) /\ p + WORD_BYTES \in Addr
    <3>1. 0 \in Nat /\ 0 <= WORD_BYTES /\ 0 + WORD_BYTES <= size /\ WORD_BYTES <= WORD_BYTES
      BY <1>1
    <3>2. p \in DOMAIN blocks /\ HEAP_BYTES + WORD_BYTES < WordHalf
      BY <2>1 DEF MemoryFits
    <3> HIDE DEF p
    <3> QED
      BY <1>1, <2>1, <3>1, <3>2, InBlock DEF p
  <2>3. ASSUME size < 2 * WORD_BYTES, Mapped(p + WORD_BYTES) PROVE FALSE
    <3> HIDE DEF p
    <3>1. Bytes(p + WORD_BYTES) \subseteq p .. p + size - 1
      BY <2>1, <2>3 DEF Mapped
    <3>2. p + WORD_BYTES + WORD_BYTES - 1 \in Bytes(p + WORD_BYTES)
      BY <1>1, <2>2 DEF Bytes
    <3>3. p + WORD_BYTES + WORD_BYTES - 1 <= p + size - 1
      BY <1>1, <2>2, <3>1, <3>2
    <3> QED
      BY <1>1, <2>2, <2>3, <3>3
  <2>4. p + 0 = p /\ 2 * WORD_BYTES = WORD_BYTES + WORD_BYTES
    BY <1>1, <2>2
  <2> HIDE DEF p
  <2> QED
    BY <1>1, <2>1, <2>2, <2>3, <2>4
<1>3. CASE pc \in 0 .. 2
  <2>1. DOMAIN blocks = {} /\ (pc \in 1 .. 8 => a = x) /\ (pc \in 2 .. 9 => b = y)
    BY <1>3 DEF ExchangeRunning
  <2>2. CASE pc = 0
    <3>1. At(I2("mov", Reg(0), Imm(x)))
      BY <1>1, <2>2, ExchangeCode DEF At, In
    <3>2. Takes(0, x)
      BY <3>1, TakeStep, PlainTakes
    <3> QED
      BY <1>1, <2>1, <2>2, <3>2, TakesKeeps DEF ExchangeRunning
  <2>3. CASE pc = 1
    <3>1. At(I2("mov", Reg(1), Imm(y)))
      BY <1>1, <2>3, ExchangeCode DEF At, In
    <3>2. Takes(1, y)
      BY <3>1, TakeStep, PlainTakes
    <3> QED
      BY <1>1, <2>1, <2>3, <3>2, TakesKeeps DEF ExchangeRunning
  <2>4. CASE pc = 2
    <3>1. At(I2("mov", Reg(2), Imm(size)))
      BY <1>1, <2>4, ExchangeCode DEF At, In
    <3>2. Takes(2, size)
      BY <3>1, TakeStep, PlainTakes
    <3> QED
      BY <1>1, <2>1, <2>4, <3>2, TakesKeeps DEF ExchangeRunning
  <2> QED
    BY <1>3, <2>2, <2>3, <2>4
<1>4. CASE pc = 3
  <2>1. /\ At(I2("malloc", Reg(2), Reg(15))) /\ a = x /\ b = y /\ registers[2] = size
        /\ DOMAIN blocks = {}
    BY <1>1, <1>4, ExchangeCode DEF At, In, ExchangeRunning
  <2>2. PICK w \in Addr \cup {0} : Allocated(15, w, registers[2])
    BY <2>1, MallocStep DEF MemoryFits
  <2>3. /\ \A t \in RegIndex \ {15} : registers'[t] = registers[t]
        /\ pc' = 4 /\ status' = "running"
    BY <1>1, <1>4, <2>1, MallocStep DEF MemoryFits
  <2>4. OnlyBlock(registers[15], size)'
    BY <2>1, <2>2 DEF Allocated, OnlyBlock, memory
  <2>5. registers'[0] = x /\ registers'[1] = y
    BY <1>1, <2>1, <2>3
  <2> QED
    BY <2>3, <2>4, <2>5 DEF ExchangeRunning
<1>5. CASE pc = 4
  <2>1. /\ At(I2("cmp", Reg(15), Imm(0))) /\ a = x /\ b = y /\ OnlyBlock(p, size)
    BY <1>1, <1>5, ExchangeCode DEF At, In, ExchangeRunning
  <2>2. /\ cmp' = ToWord(p - 0) /\ pc' = 5
        /\ UNCHANGED <<status, registers, memory>>
    BY <1>5, <2>1, CmpStep, ReadsRegister, ReadsLiteral
  <2>3. p \in Word /\ p - 0 = p
    BY <1>1 DEF Word
  <2>4. cmp' = p
    BY <2>2, <2>3, WordUnchanged
  <2> QED
    BY <1>1, <2>1, <2>2, <2>4 DEF ExchangeRunning, OnlyBlock, memory
<1>6. CASE pc = 5
  <2>1. /\ At(I1("je", To(11))) /\ a = x /\ b = y /\ OnlyBlock(p, size) /\ cmp = p
    BY <1>1, <1>6, ExchangeCode DEF At, In, ExchangeRunning
  <2>2. Goes(IF p = 0 THEN 11 ELSE 6)
    BY <1>6, <2>1, JumpStep
  <2> QED
    BY <1>1, <2>1, <2>2 DEF Goes, ExchangeRunning, OnlyBlock, memory
<1>7. CASE pc = 6
  <2>1. At(I2("mov", Mem(15, 0), Reg(0))) /\ a = x /\ b = y
    BY <1>1, <1>7, ExchangeCode DEF At, In, ExchangeRunning
  <2>2. Puts(p, x)
    BY <1>2, <1>7, <2>1, PutStep, PlainTakes
  <2>3. /\ heap'[p] = x /\ pc' = 7
        /\ UNCHANGED <<status, registers, blocks>>
    BY <1>7, <2>2 DEF Puts
  <2>4. p # 0 /\ OnlyBlock(p, size)
    BY <1>2, <1>7 DEF OnlyBlock
  <2> QED
    BY <1>1, <2>1, <2>3, <2>4 DEF ExchangeRunning, OnlyBlock
<1>8. CASE pc = 7
  <2>1. At(I2("mov", Mem(15, WORD_BYTES), Reg(1))) /\ a = x /\ b = y /\ heap[p] = x
    BY <1>1, <1>8, ExchangeCode DEF At, In, ExchangeRunning
  <2>2. ASSUME size >= 2 * WORD_BYTES PROVE ExchangeRunning(x, y, size)'
    <3>1. Puts(p + WORD_BYTES, y)
      BY <1>2, <1>8, <2>1, <2>2, PutStep, PlainTakes
    <3>2. /\ heap'[p + WORD_BYTES] = y /\ pc' = 8
          /\ UNCHANGED <<status, registers, blocks>>
      BY <1>8, <3>1 DEF Puts
    <3>3. heap'[p] = x
      <4>1. \A z \in Addr : z + WORD_BYTES <= p + WORD_BYTES => heap'[z] = heap[z]
        BY <3>1 DEF Puts
      <4> QED
        BY <1>1, <1>2, <1>8, <2>1, <4>1
    <3>4. p # 0 /\ OnlyBlock(p, size)
      BY <1>2, <1>8 DEF OnlyBlock
    <3> QED
      BY <1>1, <2>1, <2>2, <3>2, <3>3, <3>4 DEF ExchangeRunning, OnlyBlock
  <2>3. ASSUME size < 2 * WORD_BYTES PROVE ExchangeStopped(x, y, size)'
    <3>1. ~Mapped(Address(Mem(15, WORD_BYTES))) /\ Mem(15, WORD_BYTES).type = "MEM_ADDRESS"
      BY <1>2, <1>8, <2>3 DEF Mem
    <3>2. Stop("undefined")
      BY <2>1, <3>1, WildStep
    <3> QED
      BY <1>2, <1>8, <2>3, <3>2 DEF Stop, ExchangeStopped
  <2> QED
    BY <1>1, <2>2, <2>3
<1>9. CASE pc = 8
  <2>1. /\ At(I2("mov", Reg(0), Mem(15, WORD_BYTES))) /\ b = y /\ heap[p] = x
        /\ size >= 2 * WORD_BYTES /\ heap[p + WORD_BYTES] = y
    BY <1>1, <1>9, ExchangeCode DEF At, In, ExchangeRunning
  <2>2. Definite(Mem(15, WORD_BYTES)) /\ Value(Mem(15, WORD_BYTES)) = y
    BY <1>1, <1>2, <1>9, <2>1 DEF Definite, Value, Mem
  <2>3. Takes(0, y)
    BY <2>1, <2>2, TakeStep
  <2>4. p # 0 /\ OnlyBlock(p, size)
    BY <1>2, <1>9 DEF OnlyBlock
  <2>5. /\ registers'[0] = y /\ registers'[1] = y /\ registers'[15] = p
        /\ heap' = heap /\ blocks' = blocks /\ pc' = 9 /\ status' = "running"
    BY <1>1, <1>9, <2>1, <2>3, TakesKeeps
  <2> QED
    BY <1>1, <2>1, <2>4, <2>5 DEF ExchangeRunning, OnlyBlock
<1>10. CASE pc = 9
  <2>1. /\ At(I2("mov", Reg(1), Mem(15, 0))) /\ a = y /\ heap[p] = x
        /\ size >= 2 * WORD_BYTES /\ heap[p + WORD_BYTES] = y
    BY <1>1, <1>10, ExchangeCode DEF At, In, ExchangeRunning
  <2>2. Definite(Mem(15, 0)) /\ Value(Mem(15, 0)) = x
    BY <1>1, <1>2, <1>10, <2>1 DEF Definite, Value, Mem
  <2>3. Takes(1, x)
    BY <2>1, <2>2, TakeStep
  <2>4. p # 0 /\ OnlyBlock(p, size)
    BY <1>2, <1>10 DEF OnlyBlock
  <2>5. /\ registers'[0] = y /\ registers'[1] = x /\ registers'[15] = p
        /\ heap' = heap /\ blocks' = blocks /\ pc' = 10 /\ status' = "running"
    BY <1>1, <1>10, <2>1, <2>3, TakesKeeps
  <2> QED
    BY <1>1, <2>1, <2>4, <2>5 DEF ExchangeRunning, OnlyBlock
<1>11. CASE pc = 10
  <2>1. /\ At(I1("mfree", Reg(15))) /\ a = y /\ b = x /\ size >= 2 * WORD_BYTES
    BY <1>1, <1>11, ExchangeCode DEF At, In, ExchangeRunning
  <2>2. p \in DOMAIN blocks \cup {0}
    BY <1>2, <1>11
  <2>3. pc' = pc + 1 /\ UNCHANGED <<status, registers>>
    BY <2>1, <2>2, FreeStep
  <2> QED
    BY <1>1, <1>11, <2>1, <2>3 DEF ExchangeRunning
<1>12. CASE pc = 11
  <2>1. /\ At(I0("end")) /\ (p # 0 => a = y /\ b = x /\ size >= 2 * WORD_BYTES)
    BY <1>1, <1>12, ExchangeCode DEF At, In, ExchangeRunning
  <2> QED
    BY <2>1, EndStep DEF Stop, ExchangeStopped
<1> QED
  BY <1>1, <1>3, <1>4, <1>5, <1>6, <1>7, <1>8, <1>9, <1>10, <1>11, <1>12

LEMMA ExchangeKeeps ==
  ASSUME IInv, [Next]_vars, MemoryFits, NEW x, NEW y, NEW size \in Nat, size >= WORD_BYTES,
         ExchangeInv(x, y, size)
  PROVE  ExchangeInv(x, y, size)'
<1>1. SUFFICES ASSUME prog' = Exchange(x, y, size)
               PROVE  ExchangeRunning(x, y, size)' \/ ExchangeStopped(x, y, size)'
  BY DEF ExchangeInv
<1>2. prog = Exchange(x, y, size)
  BY <1>1, SameProgram
<1>3. CASE ExchangeRunning(x, y, size) /\ Next
  BY <1>2, <1>3, ExchangeStep
<1>4. CASE ExchangeRunning(x, y, size) /\ UNCHANGED vars
  BY <1>4 DEF ExchangeRunning, OnlyBlock, vars, stacks, memory
<1>5. CASE ExchangeStopped(x, y, size)
  <2>1. UNCHANGED vars
    BY <1>5, OnlyHalted DEF ExchangeStopped
  <2> QED
    BY <1>5, <2>1 DEF ExchangeStopped, vars
<1> QED
  BY <1>2, <1>3, <1>4, <1>5 DEF ExchangeInv

LEMMA TwoCode ==
  ASSUME NEW x, NEW y, prog = TwoBlocks(x, y)
  PROVE  /\ Len(prog) = 18
         /\ prog[1] = I2("mov", Reg(0), Imm(x)) /\ prog[2] = I2("mov", Reg(1), Imm(y))
         /\ prog[3] = I2("mov", Reg(2), Imm(WORD_BYTES)) /\ prog[4] = I2("malloc", Reg(2), Reg(15))
         /\ prog[5] = I2("cmp", Reg(15), Imm(0)) /\ prog[6] = I1("je", To(17))
         /\ prog[7] = I2("malloc", Reg(2), Reg(16))
         /\ prog[8] = I2("cmp", Reg(16), Imm(0)) /\ prog[9] = I1("je", To(17))
BY Names, PointerNames, SMTT(30) DEF TwoBlocks

LEMMA TwoMemoryCode ==
  ASSUME NEW x, NEW y, prog = TwoBlocks(x, y)
  PROVE  /\ prog[10] = I2("mov", Mem(15, 0), Reg(0)) /\ prog[11] = I2("mov", Mem(16, 0), Reg(1))
         /\ prog[12] = I2("sub", Mem(16, 0), Mem(15, 0))
         /\ prog[13] = I2("add", Reg(0), Mem(16, 0)) /\ prog[14] = I2("mov", Reg(1), Mem(15, 0))
         /\ prog[15] = I1("mfree", Reg(16)) /\ prog[16] = I1("mfree", Reg(15))
         /\ prog[17] = I1("mfree", Reg(25)) /\ prog[18] = I0("end")
BY Names, PointerNames, FibNames, SMTT(30) DEF TwoBlocks

\* Two blocks of a word each that do not overlap.
BothBlocks(p, q) ==
  /\ {p, q} \subseteq DOMAIN blocks /\ blocks[p] = WORD_BYTES /\ blocks[q] = WORD_BYTES
  /\ p + WORD_BYTES <= q \/ q + WORD_BYTES <= p

\* The words are in their registers, each in its block, and exchanged.
TwoRunning(x, y) ==
  LET a == registers[0]
      b == registers[1]
      p == registers[15]
      q == registers[16]
  IN  /\ status = "running" /\ pc \in 0 .. 17 /\ registers[25] = 0
      /\ pc \in 0 .. 3 => DOMAIN blocks = {}
      /\ pc \in 1 .. 12 => a = x
      /\ pc \in 2 .. 13 => b = y
      /\ pc \in 3 .. 6 => registers[2] = WORD_BYTES
      /\ pc \in 4 .. 6 => OnlyBlock(p, WORD_BYTES)
      /\ pc = 5 => cmp = p
      /\ pc \in 6 .. 16 => p # 0
      /\ pc \in 7 .. 8 => q = 0 \/ BothBlocks(p, q)
      /\ pc = 8 => cmp = q
      /\ pc \in 9 .. 14 => BothBlocks(p, q)
      /\ pc \in 9 .. 16 => q # 0
      /\ pc \in 10 .. 13 => heap[p] = x
      /\ pc = 11 => heap[q] = y
      /\ pc = 12 => heap[q] = ToWord(y - x)
      /\ pc \in 13 .. 16 => a = y
      /\ pc \in 14 .. 16 => b = x
      /\ pc = 15 => p \in DOMAIN blocks
      /\ pc = 17 /\ p # 0 /\ q # 0 => a = y /\ b = x

TwoStopped(x, y) ==
  /\ status = "ended"
  /\ registers[15] # 0 /\ registers[16] # 0 => registers[0] = y /\ registers[1] = x

TwoInv(x, y) == prog = TwoBlocks(x, y) => TwoRunning(x, y) \/ TwoStopped(x, y)

LEMMA TwoRegisters ==
  ASSUME NEW x, NEW y, prog = TwoBlocks(x, y), prog \in Programs
  PROVE  {0, 1, 2, 15, 16, 25} \subseteq RegIndex /\ x \in Word /\ y \in Word
<1>1. /\ prog \in Seq(Instruction) /\ Len(prog) = 18
      /\ prog[1] = I2("mov", Reg(0), Imm(x)) /\ prog[2] = I2("mov", Reg(1), Imm(y))
      /\ prog[17] = I1("mfree", Reg(25))
      /\ \A k \in DOMAIN prog : prog[k] \in Instruction /\ Runnable(prog[k])
  <2>1. prog \in Seq(Instruction) /\ \A k \in DOMAIN prog : Runnable(prog[k])
    BY ProgramsAssumption
  <2>2. \A k \in DOMAIN prog : prog[k] \in Instruction
    BY <2>1
  <2>3. /\ Len(prog) = 18 /\ prog[17] = I1("mfree", Reg(25))
        /\ prog[1] = I2("mov", Reg(0), Imm(x)) /\ prog[2] = I2("mov", Reg(1), Imm(y))
    BY TwoCode, TwoMemoryCode
  <2> QED
    BY <2>1, <2>2, <2>3
<1>2. /\ {1, 2, 17} \subseteq DOMAIN prog /\ prog[1].operands = <<Reg(0), Imm(x)>>
      /\ prog[2].operands = <<Reg(1), Imm(y)>> /\ prog[17].operands = <<Reg(25)>>
  BY <1>1 DEF I1, I2
<1>3. /\ prog[1].operands \in Seq(Operand) /\ prog[2].operands \in Seq(Operand)
      /\ Runnable(prog[17])
  BY <1>1, <1>2 DEF Instruction
<1>4. /\ prog[1].operands[2] = Imm(x) /\ 2 \in DOMAIN prog[1].operands
      /\ prog[2].operands[2] = Imm(y) /\ 2 \in DOMAIN prog[2].operands
      /\ prog[17].operands[1] = Reg(25) /\ 1 \in DOMAIN prog[17].operands
  BY <1>2
<1>5. Imm(x) \in Operand /\ Imm(y) \in Operand
  BY <1>3, <1>4
<1>6. x \in Word /\ y \in Word
  BY <1>5 DEF Imm, Operand
<1>7. 25 \in RegIndex
  <2>1. \A k \in DOMAIN prog[17].operands :
          prog[17].operands[k].type = "REG" => prog[17].operands[k].arg \in RegIndex
    BY <1>3 DEF Runnable
  <2>2. prog[17].operands[1].type = "REG" /\ prog[17].operands[1].arg = 25
    BY <1>4 DEF Reg
  <2> QED
    BY <1>4, <2>1, <2>2
<1>8. {0, 1, 2, 15, 16, 25} \subseteq RegIndex
  BY <1>7, ProgramAssumption DEF RegIndex
<1> QED
  BY <1>6, <1>8

LEMMA TwoStart ==
  ASSUME Init, NEW x, NEW y
  PROVE  TwoInv(x, y)
<1>1. ASSUME prog = TwoBlocks(x, y) PROVE TwoRunning(x, y)
  <2>1. 25 \in RegIndex
    BY <1>1, TwoRegisters DEF Init
  <2> QED
    BY <2>1 DEF Init, TwoRunning
<1> QED
  BY <1>1 DEF TwoInv

\* The instructions before the blocks are used.
LEMMA TwoStartStep ==
  ASSUME IInv, Next, MemoryFits, NEW x, NEW y, prog = TwoBlocks(x, y), TwoRunning(x, y),
         pc \in 0 .. 8
  PROVE  TwoRunning(x, y)'
<1> DEFINE a == registers[0]
           b == registers[1]
           p == registers[15]
           q == registers[16]
<1>1. /\ pc < Len(prog) /\ status = "running" /\ {0, 1, 2, 15, 16, 25} \subseteq RegIndex
      /\ \A r \in RegIndex : registers[r] \in Word
      /\ registers[25] = 0 /\ WORD_BYTES \in Nat \ {0}
  <2>1. Len(prog) = 18 /\ prog \in Programs
    BY TwoCode DEF IInv, TypeOK
  <2>2. {0, 1, 2, 15, 16, 25} \subseteq RegIndex
    BY <2>1, TwoRegisters
  <2>3. \A r \in RegIndex : registers[r] \in Word
    BY DEF IInv, TypeOK
  <2>4. status = "running" /\ registers[25] = 0
    BY DEF TwoRunning
  <2> QED
    BY <2>1, <2>2, <2>3, <2>4, VmAssumption
<1>2. CASE pc = 0
  <2>1. At(I2("mov", Reg(0), Imm(x))) /\ DOMAIN blocks = {}
    BY <1>1, <1>2, TwoCode DEF At, In, TwoRunning
  <2>2. Takes(0, x)
    BY <2>1, TakeStep, PlainTakes
  <2>3. /\ registers'[0] = x /\ registers'[25] = 0
        /\ blocks' = blocks /\ pc' = 1 /\ status' = "running"
    BY <1>1, <1>2, <2>2, TakesKeeps
  <2> QED
    BY <2>1, <2>3 DEF TwoRunning
<1>3. CASE pc = 1
  <2>1. At(I2("mov", Reg(1), Imm(y))) /\ DOMAIN blocks = {} /\ a = x
    BY <1>1, <1>3, TwoCode DEF At, In, TwoRunning
  <2>2. Takes(1, y)
    BY <2>1, TakeStep, PlainTakes
  <2>3. /\ registers'[0] = x /\ registers'[1] = y /\ registers'[25] = 0
        /\ blocks' = blocks /\ pc' = 2 /\ status' = "running"
    BY <1>1, <1>3, <2>1, <2>2, TakesKeeps
  <2> QED
    BY <2>1, <2>3 DEF TwoRunning
<1>4. CASE pc = 2
  <2>1. At(I2("mov", Reg(2), Imm(WORD_BYTES))) /\ DOMAIN blocks = {} /\ a = x /\ b = y
    BY <1>1, <1>4, TwoCode DEF At, In, TwoRunning
  <2>2. Takes(2, WORD_BYTES)
    BY <2>1, TakeStep, PlainTakes
  <2>3. /\ registers'[0] = x /\ registers'[1] = y /\ registers'[25] = 0
        /\ registers'[2] = WORD_BYTES
        /\ blocks' = blocks /\ pc' = 3 /\ status' = "running"
    BY <1>1, <1>4, <2>1, <2>2, TakesKeeps
  <2> QED
    BY <2>1, <2>3 DEF TwoRunning
<1>5. CASE pc = 3
  <2>1. /\ At(I2("malloc", Reg(2), Reg(15))) /\ a = x /\ b = y /\ registers[2] = WORD_BYTES
        /\ DOMAIN blocks = {}
    BY <1>1, <1>5, TwoCode DEF At, In, TwoRunning
  <2>2. PICK w \in Addr \cup {0} : Allocated(15, w, registers[2])
    BY <2>1, MallocStep DEF MemoryFits
  <2>3. /\ \A t \in RegIndex \ {15} : registers'[t] = registers[t]
        /\ pc' = 4 /\ status' = "running"
    BY <1>1, <1>5, <2>1, MallocStep DEF MemoryFits
  <2>4. OnlyBlock(registers[15], WORD_BYTES)'
    BY <2>1, <2>2 DEF Allocated, OnlyBlock, memory
  <2>5. registers'[0] = x /\ registers'[1] = y /\ registers'[2] = WORD_BYTES /\ registers'[25] = 0
    BY <1>1, <2>1, <2>3
  <2> QED
    BY <2>3, <2>4, <2>5 DEF TwoRunning
<1>6. CASE pc = 4
  <2>1. /\ At(I2("cmp", Reg(15), Imm(0))) /\ a = x /\ b = y /\ registers[2] = WORD_BYTES
        /\ OnlyBlock(p, WORD_BYTES)
    BY <1>1, <1>6, TwoCode DEF At, In, TwoRunning
  <2>2. /\ cmp' = ToWord(p - 0) /\ pc' = 5
        /\ UNCHANGED <<status, registers, memory>>
    BY <1>6, <2>1, CmpStep, ReadsRegister, ReadsLiteral
  <2>3. p \in Word /\ p - 0 = p
    BY <1>1 DEF Word
  <2>4. cmp' = p
    BY <2>2, <2>3, WordUnchanged
  <2> QED
    BY <1>1, <2>1, <2>2, <2>4 DEF TwoRunning, OnlyBlock, memory
<1>7. CASE pc = 5
  <2>1. /\ At(I1("je", To(17))) /\ a = x /\ b = y /\ registers[2] = WORD_BYTES
        /\ OnlyBlock(p, WORD_BYTES) /\ cmp = p
    BY <1>1, <1>7, TwoCode DEF At, In, TwoRunning
  <2>2. Goes(IF p = 0 THEN 17 ELSE 6)
    BY <1>7, <2>1, JumpStep
  <2>3. UNCHANGED <<status, registers, memory>>
    BY <2>2 DEF Goes
  <2>4. CASE p = 0
    <3>1. pc' = 17 /\ registers'[15] = 0
      BY <2>2, <2>3, <2>4 DEF Goes
    <3> QED
      BY <1>1, <2>3, <3>1 DEF TwoRunning
  <2>5. CASE p # 0
    <3>1. pc' = 6 /\ OnlyBlock(registers[15], WORD_BYTES)'
      BY <2>1, <2>2, <2>3, <2>5 DEF Goes, OnlyBlock, memory
    <3> QED
      BY <1>1, <2>1, <2>3, <2>5, <3>1 DEF TwoRunning
  <2> QED
    BY <2>4, <2>5
<1>8. CASE pc = 6
  <2>1. /\ At(I2("malloc", Reg(2), Reg(16))) /\ a = x /\ b = y /\ registers[2] = WORD_BYTES
        /\ p # 0 /\ DOMAIN blocks = {p} /\ blocks[p] = WORD_BYTES
    <3>1. At(I2("malloc", Reg(2), Reg(16)))
      BY <1>1, <1>8, TwoCode DEF At, In
    <3>2. a = x /\ b = y /\ registers[2] = WORD_BYTES /\ p # 0 /\ OnlyBlock(p, WORD_BYTES)
      BY <1>1, <1>8 DEF TwoRunning
    <3> QED
      BY <3>1, <3>2 DEF OnlyBlock
  <2>2. PICK w \in Addr \cup {0} : Allocated(16, w, registers[2])
    BY <2>1, MallocStep DEF MemoryFits
  <2>3. /\ \A t \in RegIndex \ {16} : registers'[t] = registers[t]
        /\ pc' = 7 /\ status' = "running"
    BY <1>1, <1>8, <2>1, MallocStep DEF MemoryFits
  <2>4. w # 0 => p + WORD_BYTES <= w \/ w + WORD_BYTES <= p
    <3>0. SUFFICES ASSUME w # 0 PROVE p + WORD_BYTES <= w \/ w + WORD_BYTES <= p
      OBVIOUS
    <3>1. Free(w, WORD_BYTES) /\ p \in Addr /\ w \in Addr
      BY <2>1, <2>2, <3>0 DEF Allocated, IInv, TypeOK
    <3>2. (w .. w + WORD_BYTES - 1) \cap (p .. p + WORD_BYTES - 1) = {}
      BY <1>1, <2>1, <3>1 DEF Free, Extent
    <3>3. w \in Nat /\ p \in Nat
      BY <3>1 DEF Addr
    <3>4. w \notin p .. p + WORD_BYTES - 1 /\ p \notin w .. w + WORD_BYTES - 1
      <4>1. w \in w .. w + WORD_BYTES - 1 /\ p \in p .. p + WORD_BYTES - 1
        BY <1>1, <3>3
      <4> QED
        BY <3>2, <4>1
    <3> QED
      BY <1>1, <3>3, <3>4
  <2>5. ASSUME w # 0 PROVE BothBlocks(p, w)'
    <3>1. w # p
      <4>1. w \in Nat /\ p \in Nat
        BY <2>1 DEF IInv, TypeOK, Addr
      <4> QED
        BY <1>1, <2>4, <2>5, <4>1
    <3>2. /\ DOMAIN blocks' = {p, w} /\ blocks'[w] = WORD_BYTES /\ blocks'[p] = WORD_BYTES
      BY <2>1, <2>2, <2>5, <3>1 DEF Allocated
    <3>3. registers'[15] = p
      BY <1>1, <2>3
    <3> QED
      BY <2>4, <2>5, <3>2, <3>3 DEF BothBlocks
  <2>6. /\ registers'[0] = x /\ registers'[1] = y /\ registers'[15] = p /\ registers'[16] = w
        /\ registers'[25] = 0
    BY <1>1, <2>1, <2>2, <2>3 DEF Allocated
  <2>7. w # 0 => BothBlocks(registers[15], registers[16])'
    BY <2>5, <2>6 DEF BothBlocks
  <2> QED
    BY <2>1, <2>3, <2>6, <2>7 DEF TwoRunning
<1>9. CASE pc = 7
  <2>1. /\ At(I2("cmp", Reg(16), Imm(0))) /\ a = x /\ b = y /\ p # 0
        /\ q = 0 \/ BothBlocks(p, q)
    BY <1>1, <1>9, TwoCode DEF At, In, TwoRunning
  <2>2. /\ cmp' = ToWord(q - 0) /\ pc' = 8
        /\ UNCHANGED <<status, registers, memory>>
    BY <1>9, <2>1, CmpStep, ReadsRegister, ReadsLiteral
  <2>3. q \in Word /\ q - 0 = q
    BY <1>1 DEF Word
  <2>4. cmp' = q
    BY <2>2, <2>3, WordUnchanged
  <2> QED
    BY <1>1, <2>1, <2>2, <2>4 DEF TwoRunning, BothBlocks, memory
<1>10. CASE pc = 8
  <2>1. /\ At(I1("je", To(17))) /\ a = x /\ b = y /\ p # 0 /\ cmp = q
        /\ q = 0 \/ BothBlocks(p, q)
    BY <1>1, <1>10, TwoCode DEF At, In, TwoRunning
  <2>2. Goes(IF q = 0 THEN 17 ELSE 9)
    BY <1>10, <2>1, JumpStep
  <2> QED
    BY <1>1, <2>1, <2>2 DEF Goes, TwoRunning, BothBlocks, memory
<1> QED
  BY <1>2, <1>3, <1>4, <1>5, <1>6, <1>7, <1>8, <1>9, <1>10

\* The words are written, exchanged and read, and the blocks given back.
LEMMA TwoUseStep ==
  ASSUME IInv, Next, MemoryFits, NEW x, NEW y, prog = TwoBlocks(x, y), TwoRunning(x, y),
         pc \in 9 .. 17
  PROVE  TwoRunning(x, y)' \/ TwoStopped(x, y)'
<1> DEFINE a == registers[0]
           b == registers[1]
           p == registers[15]
           q == registers[16]
<1>1. /\ pc < Len(prog) /\ status = "running" /\ {0, 1, 2, 15, 16, 25} \subseteq RegIndex
      /\ registers[25] = 0 /\ WORD_BYTES \in Nat \ {0}
      /\ x \in Word /\ y \in Word /\ x # Unknown /\ y # Unknown
      /\ ToWord(y - x) \in Word /\ ToWord(y - x) # Unknown
  <2>1. Len(prog) = 18 /\ prog \in Programs
    BY TwoCode DEF IInv, TypeOK
  <2>2. {0, 1, 2, 15, 16, 25} \subseteq RegIndex /\ x \in Word /\ y \in Word
    BY <2>1, TwoRegisters
  <2>3. status = "running" /\ registers[25] = 0
    BY DEF TwoRunning
  <2>4. ToWord(y - x) \in Word
    BY <2>2, ToWordIsWord DEF Word
  <2> QED
    BY <2>1, <2>2, <2>3, <2>4, VmAssumption DEF MemoryFits
<1>2. ASSUME pc \in 9 .. 14
      PROVE  /\ p # 0 /\ q # 0 /\ p # q /\ BothBlocks(p, q)
             /\ p \in DOMAIN blocks /\ q \in DOMAIN blocks
             /\ p \in Addr /\ Address(Mem(15, 0)) = p /\ Mapped(p)
             /\ q \in Addr /\ Address(Mem(16, 0)) = q /\ Mapped(q)
             /\ p + WORD_BYTES <= q \/ q + WORD_BYTES <= p
  <2>1. p # 0 /\ q # 0 /\ BothBlocks(p, q)
    BY <1>2 DEF TwoRunning
  <2>2. /\ p \in DOMAIN blocks /\ q \in DOMAIN blocks
        /\ blocks[p] = WORD_BYTES /\ blocks[q] = WORD_BYTES
        /\ p + WORD_BYTES <= q \/ q + WORD_BYTES <= p
    BY <2>1 DEF BothBlocks
  <2>3. 0 \in Nat /\ 0 <= WORD_BYTES /\ 0 + WORD_BYTES <= WORD_BYTES
    BY <1>1
  <2>4. HEAP_BYTES + WORD_BYTES < WordHalf
    BY DEF MemoryFits
  <2> HIDE DEF p, q
  <2>5. p \in Addr /\ Address(Mem(15, 0)) = p + 0 /\ Mapped(p + 0) /\ p \in Nat
    BY <2>2, <2>3, <2>4, InBlock DEF p
  <2>6. q \in Addr /\ Address(Mem(16, 0)) = q + 0 /\ Mapped(q + 0) /\ q \in Nat
    BY <2>2, <2>3, <2>4, InBlock DEF q
  <2>7. p + 0 = p /\ q + 0 = q /\ p # q
    BY <1>1, <2>2, <2>5, <2>6
  <2> QED
    BY <2>1, <2>2, <2>5, <2>6, <2>7
<1>3. CASE pc = 9
  <2>1. At(I2("mov", Mem(15, 0), Reg(0))) /\ a = x /\ b = y
    BY <1>1, <1>3, TwoMemoryCode DEF At, In, TwoRunning
  <2>2. Puts(p, x)
    BY <1>2, <1>3, <2>1, PutStep, PlainTakes
  <2>3. heap'[p] = x /\ pc' = 10 /\ UNCHANGED <<status, registers, blocks>>
    BY <1>3, <2>2 DEF Puts
  <2>4. p # 0 /\ q # 0 /\ BothBlocks(p, q)
    BY <1>2, <1>3
  <2> QED
    BY <1>1, <2>1, <2>3, <2>4 DEF TwoRunning, BothBlocks
<1>4. CASE pc = 10
  <2>1. At(I2("mov", Mem(16, 0), Reg(1))) /\ a = x /\ b = y /\ heap[p] = x
    BY <1>1, <1>4, TwoMemoryCode DEF At, In, TwoRunning
  <2>2. Puts(q, y)
    BY <1>2, <1>4, <2>1, PutStep, PlainTakes
  <2>3. heap'[q] = y /\ pc' = 11 /\ UNCHANGED <<status, registers, blocks>>
    BY <1>4, <2>2 DEF Puts
  <2>4. heap'[p] = x
    BY <1>2, <1>4, <2>1, <2>2 DEF Puts
  <2>5. p # 0 /\ q # 0 /\ BothBlocks(p, q)
    BY <1>2, <1>4
  <2> QED
    BY <1>1, <2>1, <2>3, <2>4, <2>5 DEF TwoRunning, BothBlocks
<1>5. CASE pc = 11
  <2>1. At(I2("sub", Mem(16, 0), Mem(15, 0))) /\ a = x /\ b = y /\ heap[p] = x /\ heap[q] = y
    BY <1>1, <1>5, TwoMemoryCode DEF At, In, TwoRunning
  <2>2. /\ Definite(Mem(15, 0)) /\ Value(Mem(15, 0)) = x
        /\ Definite(Mem(16, 0)) /\ heap[Address(Mem(16, 0))] = y
    BY <1>1, <1>2, <1>5, <2>1 DEF Definite, Value, Mem
  <2>3. Puts(q, ToWord(y - x))
    <3>1. Address(Mem(16, 0)) = q /\ Mapped(q) /\ q \in Addr
      BY <1>2, <1>5
    <3> QED
      BY <2>1, <2>2, <3>1, PutStep
  <2>4. heap'[q] = ToWord(y - x) /\ pc' = 12 /\ UNCHANGED <<status, registers, blocks>>
    BY <1>5, <2>3 DEF Puts
  <2>5. heap'[p] = x
    BY <1>2, <1>5, <2>1, <2>3 DEF Puts
  <2>6. p # 0 /\ q # 0 /\ BothBlocks(p, q)
    BY <1>2, <1>5
  <2> QED
    BY <1>1, <2>1, <2>4, <2>5, <2>6 DEF TwoRunning, BothBlocks
<1>6. CASE pc = 12
  <2>1. /\ At(I2("add", Reg(0), Mem(16, 0))) /\ a = x /\ b = y
        /\ heap[p] = x /\ heap[q] = ToWord(y - x)
    BY <1>1, <1>6, TwoMemoryCode DEF At, In, TwoRunning
  <2>2. Definite(Mem(16, 0)) /\ Value(Mem(16, 0)) = ToWord(y - x)
    BY <1>1, <1>2, <1>6, <2>1 DEF Definite, Value, Mem
  <2>3. Takes(0, ToWord(x + ToWord(y - x)))
    BY <2>1, <2>2, TakeStep
  <2>4. Takes(0, y)
    BY <1>1, <2>3, DifferenceAdded
  <2>5. /\ registers'[0] = y /\ registers'[1] = y /\ registers'[15] = p /\ registers'[16] = q
        /\ registers'[25] = 0
        /\ heap' = heap /\ blocks' = blocks /\ pc' = 13 /\ status' = "running"
    BY <1>1, <1>6, <2>1, <2>4, TakesKeeps
  <2>6. p # 0 /\ q # 0 /\ BothBlocks(p, q)
    BY <1>2, <1>6
  <2> QED
    BY <2>1, <2>5, <2>6 DEF TwoRunning, BothBlocks
<1>7. CASE pc = 13
  <2>1. At(I2("mov", Reg(1), Mem(15, 0))) /\ a = y /\ heap[p] = x
    BY <1>1, <1>7, TwoMemoryCode DEF At, In, TwoRunning
  <2>2. Definite(Mem(15, 0)) /\ Value(Mem(15, 0)) = x
    BY <1>1, <1>2, <1>7, <2>1 DEF Definite, Value, Mem
  <2>3. Takes(1, x)
    BY <2>1, <2>2, TakeStep
  <2>4. /\ registers'[0] = y /\ registers'[1] = x /\ registers'[15] = p /\ registers'[16] = q
        /\ registers'[25] = 0
        /\ heap' = heap /\ blocks' = blocks /\ pc' = 14 /\ status' = "running"
    BY <1>1, <1>7, <2>1, <2>3, TakesKeeps
  <2>5. p # 0 /\ q # 0 /\ BothBlocks(p, q)
    BY <1>2, <1>7
  <2> QED
    BY <2>1, <2>4, <2>5 DEF TwoRunning, BothBlocks
<1>8. CASE pc = 14
  <2>1. At(I1("mfree", Reg(16))) /\ a = y /\ b = x
    BY <1>1, <1>8, TwoMemoryCode DEF At, In, TwoRunning
  <2>2. p # 0 /\ q # 0 /\ p # q /\ p \in DOMAIN blocks /\ q \in DOMAIN blocks \cup {0}
    BY <1>2, <1>8
  <2>3. DOMAIN blocks' = DOMAIN blocks \ {q} /\ pc' = pc + 1 /\ UNCHANGED <<status, registers>>
    BY <2>1, <2>2, FreeStep
  <2>4. p \in DOMAIN blocks' /\ pc' = 15
    BY <1>8, <2>2, <2>3
  <2> QED
    BY <1>1, <2>1, <2>2, <2>3, <2>4 DEF TwoRunning
<1>9. CASE pc = 15
  <2>1. At(I1("mfree", Reg(15))) /\ a = y /\ b = x /\ p # 0 /\ q # 0 /\ p \in DOMAIN blocks \cup {0}
    BY <1>1, <1>9, TwoMemoryCode DEF At, In, TwoRunning
  <2>2. pc' = pc + 1 /\ UNCHANGED <<status, registers>>
    BY <2>1, FreeStep
  <2> QED
    BY <1>1, <1>9, <2>1, <2>2 DEF TwoRunning
<1>10. CASE pc = 16
  <2>1. At(I1("mfree", Reg(25))) /\ a = y /\ b = x /\ registers[25] \in DOMAIN blocks \cup {0}
    BY <1>1, <1>10, TwoMemoryCode DEF At, In, TwoRunning
  <2>2. pc' = pc + 1 /\ UNCHANGED <<status, registers>>
    BY <2>1, FreeStep
  <2> QED
    BY <1>1, <1>10, <2>1, <2>2 DEF TwoRunning
<1>11. CASE pc = 17
  <2>1. At(I0("end")) /\ (p # 0 /\ q # 0 => a = y /\ b = x)
    BY <1>1, <1>11, TwoMemoryCode DEF At, In, TwoRunning
  <2> QED
    BY <2>1, EndStep DEF Stop, TwoStopped
<1> QED
  BY <1>3, <1>4, <1>5, <1>6, <1>7, <1>8, <1>9, <1>10, <1>11

LEMMA TwoKeeps ==
  ASSUME IInv, [Next]_vars, MemoryFits, NEW x, NEW y, TwoInv(x, y)
  PROVE  TwoInv(x, y)'
<1>1. SUFFICES ASSUME prog' = TwoBlocks(x, y)
               PROVE  TwoRunning(x, y)' \/ TwoStopped(x, y)'
  BY DEF TwoInv
<1>2. prog = TwoBlocks(x, y)
  BY <1>1, SameProgram
<1>3. CASE TwoRunning(x, y) /\ Next
  <2>1. pc \in 0 .. 8 \/ pc \in 9 .. 17
    BY <1>3 DEF TwoRunning
  <2> QED
    BY <1>2, <1>3, <2>1, TwoStartStep, TwoUseStep
<1>4. CASE TwoRunning(x, y) /\ UNCHANGED vars
  BY <1>4 DEF TwoRunning, OnlyBlock, BothBlocks, vars, stacks, memory
<1>5. CASE TwoStopped(x, y)
  <2>1. UNCHANGED vars
    BY <1>5, OnlyHalted DEF TwoStopped
  <2> QED
    BY <1>5, <2>1 DEF TwoStopped, vars
<1> QED
  BY <1>2, <1>3, <1>4, <1>5 DEF TwoInv

\* Two words written to a block or to two blocks are read back as they were, with
\* malloc free to refuse or to place the blocks where it likes; a block too small
\* for them leads to undefined behaviour, and only that: for every two words.
THEOREM AnyTwoWordsHeld ==
  ASSUME MemoryFits, NEW x, NEW y, NEW size \in Nat, size >= WORD_BYTES
  PROVE  Spec => [](Stopped =>
                      /\ prog = Exchange(x, y, size) =>
                           /\ (status = "undefined") = (Result("p") # 0 /\ size < 2 * WORD_BYTES)
                           /\ status # "undefined" =>
                                /\ status = "ended"
                                /\ Result("p") # 0 => Result("a") = y /\ Result("b") = x
                      /\ prog = TwoBlocks(x, y) =>
                           /\ status = "ended"
                           /\ Result("p") # 0 /\ Result("q") # 0 =>
                                Result("a") = y /\ Result("b") = x)
<1> DEFINE All == ExchangeInv(x, y, size) /\ TwoInv(x, y)
           Held ==
             Stopped =>
               /\ prog = Exchange(x, y, size) =>
                    /\ (status = "undefined") = (Result("p") # 0 /\ size < 2 * WORD_BYTES)
                    /\ status # "undefined" =>
                         /\ status = "ended"
                         /\ Result("p") # 0 => Result("a") = y /\ Result("b") = x
               /\ prog = TwoBlocks(x, y) =>
                    /\ status = "ended"
                    /\ Result("p") # 0 /\ Result("q") # 0 => Result("a") = y /\ Result("b") = x
<1>1. Init => All
  BY ExchangeStart, TwoStart
<1>2. IInv /\ [Next]_vars /\ All => All'
  BY ExchangeKeeps, TwoKeeps
<1>3. All => Held
  <2>1. size \in Int /\ WORD_BYTES \in Int
    BY VmAssumption
  <2> QED
    BY <2>1, PointerNames
       DEF ExchangeInv, ExchangeRunning, ExchangeStopped, TwoInv, TwoRunning, TwoStopped,
           Stopped, Result
<1> QED
  BY <1>1, <1>2, <1>3, Invariance, PTL DEF Spec

\* The same of the words and the sizes MemoryHoldsWords names.
THEOREM MemoryHolds ==
  ASSUME MemoryFits, WORD_BYTES = 2
  PROVE  Spec => []MemoryHoldsWords
<1> DEFINE All == \A x, y \in {-3, 5} :
                    TwoInv(x, y) /\ \A size \in {3, 4} : ExchangeInv(x, y, size)
<1>1. Init => All
  BY ExchangeStart, TwoStart
<1>2. IInv /\ [Next]_vars /\ All => All'
  BY ExchangeKeeps, TwoKeeps
<1>3. All => MemoryHoldsWords
  <2>1. ASSUME All, Stopped, NEW x \in {-3, 5}, NEW y \in {-3, 5}
        PROVE  /\ prog \in {Exchange(x, y, 4), TwoBlocks(x, y)} =>
                    /\ status = "ended"
                    /\ Result("p") # 0 /\ (prog = TwoBlocks(x, y) => Result("q") # 0) =>
                         Result("a") = y /\ Result("b") = x
               /\ prog = Exchange(x, y, 3) => (status = "undefined") = (Result("p") # 0)
    <3>1. ASSUME prog = TwoBlocks(x, y) PROVE TwoStopped(x, y)
      BY <2>1, <3>1 DEF TwoInv, TwoRunning, Stopped
    <3>2. ASSUME NEW size \in {3, 4}, prog = Exchange(x, y, size)
          PROVE  ExchangeStopped(x, y, size)
      BY <2>1, <3>2 DEF ExchangeInv, ExchangeRunning, Stopped
    <3>3. ASSUME prog = Exchange(x, y, 4)
          PROVE  /\ status = "ended"
                 /\ Result("p") # 0 => Result("a") = y /\ Result("b") = x
      BY <3>2, <3>3, PointerNames DEF ExchangeStopped, Result
    <3>4. ASSUME prog = Exchange(x, y, 3) PROVE (status = "undefined") = (Result("p") # 0)
      BY <3>2, <3>4, PointerNames DEF ExchangeStopped, Result
    <3>5. ASSUME prog = TwoBlocks(x, y)
          PROVE  /\ status = "ended"
                 /\ Result("p") # 0 /\ Result("q") # 0 => Result("a") = y /\ Result("b") = x
      BY <3>1, <3>5, PointerNames DEF TwoStopped, Result
    <3>6. Exchange(x, y, 4) # TwoBlocks(x, y)
      <4>1. Len(Exchange(x, y, 4)) = 12 /\ Len(TwoBlocks(x, y)) = 18
        BY DEF Exchange, TwoBlocks
      <4> QED
        BY <4>1
    <3> QED
      BY <3>3, <3>4, <3>5, <3>6
  <2> QED
    BY <2>1 DEF MemoryHoldsWords
<1> QED
  BY <1>1, <1>2, <1>3, Invariance, PTL DEF Spec

=============================================================================
