-------------------------------- MODULE MCVm --------------------------------
(***************************************************************************)
(* The programs the interpreter is checked on, and what must become of     *)
(* each.                                                                   *)
(***************************************************************************)
EXTENDS VmProperties, Samples

SampleTextSize == [s \in Strings |-> 2]

-----------------------------------------------------------------------------
(* Control: branches, calls and both stacks *)

\* The instructions that move pc or a stack, and what makes the values on the
\* data stack differ.
Control(branches, n) ==
  BranchTo(branches, n) \cup
    {I0("ret"), I1("push", Reg(0)), I1("pop", Reg(1)), I1("inc", Reg(0))}

Compare(n) == BranchTo({"je"}, n) \cup {I0("end"), I2("cmp", Reg(0), Reg(1))}

\* Every program of up to 3 of them, and every program of 4 with calls and
\* jumps only.
ControlPrograms ==
  UNION {[1 .. n -> Control({"jmp", "call"}, n) \cup Compare(n)] : n \in 1 .. 3}
    \cup [1 .. 4 -> Control({"jmp", "call"}, 4)]

-----------------------------------------------------------------------------
(* Programs whose branches and calls all go forward *)

ForwardFrom(i, n) ==
  {I1(o, To(t)) : o \in {"jmp", "call"}, t \in i .. n - 1} \cup {I0("ret")}

ForwardPrograms ==
  {<<a, b, c, d, e, f>> : a \in ForwardFrom(1, 6), b \in ForwardFrom(2, 6),
     c \in ForwardFrom(3, 6), d \in ForwardFrom(4, 6), e \in ForwardFrom(5, 6),
     f \in ForwardFrom(6, 6)}

ControlOrForward == ControlPrograms \cup ForwardPrograms

-----------------------------------------------------------------------------
(* The programs of codes/ and tests.c *)

Values == (-6 .. 6) \ {0}
Dividends == {-32, -31, -9, -7, -1, 0, 1, 8, 31}
DivisorValues == -7 .. 7

SamplePrograms ==
  {Gcd(x, y) : x \in Values, y \in Values}
    \cup {ModFunc(x, y) : x \in Dividends, y \in DivisorValues}
    \cup {Fib(n) : n \in 1 .. 6}
    \cup {StackOverflow, DivByZeroAsm, StackUnderflow("jmp"), StackUnderflow("call"), BranchTest}

Stopped == status # "running"
Result(name) == registers[Of(name)]

Gcd_(x, y) == Max({k \in 1 .. Abs(x) : x % k = 0 /\ y % k = 0})
FibOf[n \in Nat] == IF n < 2 THEN 1 ELSE FibOf[n - 1] + FibOf[n - 2]

\* gcd.asm ends with the greatest common divisor of its two values, and says so
\* with their absolute values: its four subroutines call, loop and return.
GcdResult ==
  Stopped =>
    \A x, y \in Values :
      prog = Gcd(x, y) => status = "ended" /\ msg = <<S1, Abs(x), Abs(y), Gcd_(x, y)>>

\* mod_func.asm computes the remainder that goes with C's division, whatever
\* the signs; it stops early only on a zero divisor and when the quotient is
\* not a word.
RemainderResult ==
  Stopped =>
    \A x \in Dividends, y \in DivisorValues :
      prog = ModFunc(x, y) =>
        CASE y = 0 -> status = "division_by_zero"
          [] x = MinWord /\ y = -1 -> status = "trap"
          [] OTHER -> /\ status = "ended"
                      /\ Abs(Result("d")) < Abs(y)
                      /\ (x - Result("d")) % Abs(y) = 0
                      /\ (Result("d") # 0 => (Result("d") < 0) = (x < 0))

\* fib.asm computes the Fibonacci number of every loop index; fib_iter saves its
\* caller's four registers on the data stack and restores them.
FibResult ==
  \A n \in 1 .. 6 :
    Stopped /\ prog = Fib(n) =>
      /\ status = "ended" /\ stack_top = 0 /\ call_stack_top = 0
      /\ out = <<S1, n, FibOf[n], NewLine>>
      /\ Result("i") = n + 1
      /\ \A name \in {"n", "l", "r"} : Result(name) = 0

\* The programs that show an error end with that error, and the ones that are
\* said to work end normally with their message.
DocumentedEndings ==
  Stopped =>
    /\ prog = StackOverflow => status = "callstack_overflow"
    /\ prog = DivByZeroAsm => status = "division_by_zero"
    /\ prog = StackUnderflow("jmp") => status = "callstack_underflow"
    /\ prog = StackUnderflow("call") => status = "ended" /\ msg = <<S1>>
    /\ prog = BranchTest => status = "ended" /\ msg = <<S1>>

\* Every one of these programs halts.
SamplesHalt == <>Stopped

-----------------------------------------------------------------------------
(* Programs that use memory.  Malloc may refuse: they look at its answer. *)

\* Two words exchanged through a block of the given size.
Exchange(x, y, size) ==
  << I2("mov", R("a"), Imm(x)), I2("mov", R("b"), Imm(y)), I2("mov", R("c"), Imm(size)),
     I2("malloc", R("c"), R("p")), I2("cmp", R("p"), Imm(0)), I1("je", To(11)),
     I2("mov", Mem(Of("p"), 0), R("a")), I2("mov", Mem(Of("p"), WORD_BYTES), R("b")),
     I2("mov", R("a"), Mem(Of("p"), WORD_BYTES)), I2("mov", R("b"), Mem(Of("p"), 0)),
     I1("mfree", R("p")), I0("end") >>

\* Two words exchanged through two blocks, by adding to and subtracting from memory.
TwoBlocks(x, y) ==
  << I2("mov", R("a"), Imm(x)), I2("mov", R("b"), Imm(y)), I2("mov", R("c"), Imm(WORD_BYTES)),
     I2("malloc", R("c"), R("p")), I2("cmp", R("p"), Imm(0)), I1("je", To(17)),
     I2("malloc", R("c"), R("q")), I2("cmp", R("q"), Imm(0)), I1("je", To(17)),
     I2("mov", Mem(Of("p"), 0), R("a")), I2("mov", Mem(Of("q"), 0), R("b")),
     I2("sub", Mem(Of("q"), 0), Mem(Of("p"), 0)), I2("add", R("a"), Mem(Of("q"), 0)),
     I2("mov", R("b"), Mem(Of("p"), 0)),
     I1("mfree", R("q")), I1("mfree", R("p")), I1("mfree", R("z")), I0("end") >>

\* What the code does not guard against, and messages at their limits.
Edges ==
  { << I1("inc", R("a")), I2("malloc", R("a"), R("p")), I1("mfree", R("p")), I1("mfree", R("p")) >>,
    << I1("dec", R("a")), I2("malloc", R("a"), R("p")), I2("div", Mem(Of("p"), 0), R("a")) >>,
    << I2("mov", R("a"), Mem(Of("p"), 0)) >>,
    \* a word that was half overwritten, and one that was never written
    << I2("mov", R("c"), Imm(3)), I2("malloc", R("c"), R("p")), I2("mov", Mem(Of("p"), 0), R("c")),
       I2("mov", Mem(Of("p"), 1), R("c")), I2("div", R("c"), Mem(Of("p"), 0)) >>,
    << I2("malloc", R("a"), R("p")), I2("malloc", R("a"), R("q")), I1("msg", Mem(Of("p"), 0)) >> }
    \cup {<< I2("mov", R("a"), Imm(-10)), [opcode |-> "msg", operands |-> ops], I0("msg"),
             [opcode |-> "print", operands |-> ops] >> :
            ops \in UNION {[1 .. n -> {Str(S1), R("a"), Mem(0, 0)}] : n \in 1 .. 4}}

MemoryPrograms ==
  {Exchange(x, y, size) : x, y \in {-3, 5}, size \in 3 .. 4}
    \cup {TwoBlocks(x, y) : x, y \in {-3, 5}}
    \cup Edges

\* Two words compared, their difference a word or not.
FarApart ==
  { << I2("cmp", Imm(x), Imm(y)), I1("jg", To(3)), I0("end"), I1("msg", Str(S1)) >> :
      x \in Word, y \in {MinWord, MinWord \div 2, -1, 0, 1, WordHalf - 1} }

AllPrograms == SamplePrograms \cup MemoryPrograms \cup FarApart

\* Words kept in a block, or in two blocks at once, are read back as they were
\* written; only a block too small for them leads to undefined behaviour.
MemoryHoldsWords ==
  Stopped =>
    \A x, y \in {-3, 5} :
      /\ prog \in {Exchange(x, y, 4), TwoBlocks(x, y)} =>
           /\ status = "ended"
           /\ Result("p") # 0 /\ (prog = TwoBlocks(x, y) => Result("q") # 0) =>
                Result("a") = y /\ Result("b") = x
      /\ prog = Exchange(x, y, 3) => (status = "undefined") = (Result("p") # 0)

-----------------------------------------------------------------------------
(* Where the code and what is said of it disagree *)

\* Divisors an int can hold and others.
BigDivisor == { << I2("mov", R("a"), Imm(5)), I2("div", R("a"), Imm(n)) >> : n \in Word }

\* "division by zero occurred while executing this instruction" is only
\* reported of a zero divisor.
DivisionByZeroMeansZero ==
  status = "division_by_zero" => 0 \in Rhs
=============================================================================
