------------------------------ MODULE Samples ------------------------------
(***************************************************************************)
(* Constructors for built programs, and the programs of codes/ and tests.c.*)
(***************************************************************************)
EXTENDS Program

CONSTANTS
  S1,        \* a string literal
  LineBreak  \* the string literal of a backslash and an n

Reg(r)      == [type |-> "REG", arg |-> r, extra |-> 0]
Imm(n)      == [type |-> "INT", arg |-> n, extra |-> 0]
To(index)   == [type |-> "BRANCH", arg |-> index, extra |-> 0]
Str(s)      == [type |-> "STR", arg |-> s, extra |-> 0]
Mem(r, n)   == [type |-> "MEM_ADDRESS", arg |-> r, extra |-> n]

I0(opcode)       == [opcode |-> opcode, operands |-> << >>]
I1(opcode, a)    == [opcode |-> opcode, operands |-> <<a>>]
I2(opcode, a, b) == [opcode |-> opcode, operands |-> <<a, b>>]
BranchTo(opcodes, n) == {I1(o, To(t)) : o \in opcodes, t \in 0 .. n - 1}
-----------------------------------------------------------------------------
(* The programs of codes/ and tests.c *)

Of(name) == CHOOSE k \in 0 .. 25 :
  name = <<"a", "b", "c", "d", "e", "f", "g", "h", "i", "j", "k", "l", "m", "n",
           "o", "p", "q", "r", "s", "t", "u", "v", "w", "x", "y", "z">>[k + 1]

\* The operand a register name or an integer is written as.
R(name) == Reg(Of(name))

\* codes/gcd.asm, its two values replaced by x and y.
Gcd(x, y) ==
  << I2("mov", R("a"), Imm(x)), I2("mov", R("b"), Imm(y)),
     I1("call", To(16)), I1("call", To(6)), I1("call", To(27)), I0("end"),
     \* 6 proc_gcd
     I2("cmp", R("c"), R("d")), I1("jne", To(9)), I0("ret"),
     \* 9 loop
     I2("cmp", R("c"), R("d")), I1("jg", To(12)), I1("jmp", To(14)),
     \* 12 a_bigger, 14 b_bigger
     I2("sub", R("c"), R("d")), I1("jmp", To(6)),
     I2("sub", R("d"), R("c")), I1("jmp", To(6)),
     \* 16 init
     I2("cmp", R("a"), Imm(0)), I1("jl", To(23)), I2("cmp", R("b"), Imm(0)),
     I1("jl", To(25)), I2("mov", R("c"), R("a")), I2("mov", R("d"), R("b")), I0("ret"),
     \* 23 a_abs, 25 b_abs
     I2("mul", R("a"), Imm(-1)), I1("jmp", To(16)),
     I2("mul", R("b"), Imm(-1)), I1("jmp", To(16)),
     \* 27 print
     [opcode |-> "msg", operands |-> <<Str(S1), R("a"), R("b"), R("c")>>], I0("ret") >>

\* codes/mod_func.asm, its two values replaced by x and y.
ModFunc(x, y) ==
  << I2("mov", R("a"), Imm(x)), I2("mov", R("b"), Imm(y)), I1("call", To(5)),
     [opcode |-> "msg", operands |-> <<Str(S1), R("a"), R("b"), R("d")>>], I0("end"),
     \* 5 mod_func
     I2("mov", R("c"), R("a")), I2("div", R("c"), R("b")), I2("mul", R("c"), R("b")),
     I2("mov", R("d"), R("a")), I2("sub", R("d"), R("c")), I0("ret") >>

\* codes/fib.asm, its limit replaced by n.
Fib(n) ==
  << I2("mov", R("b"), Imm(n)), I2("mov", R("i"), Imm(1)),
     \* 2 loop
     I2("mov", R("a"), R("i")), I1("call", To(9)),
     [opcode |-> "print", operands |-> <<Str(S1), R("i"), R("z"), Str(LineBreak)>>],
     I1("inc", R("i")), I2("cmp", R("i"), R("b")), I1("jle", To(2)), I0("end"),
     \* 9 fib_iter
     I1("push", R("n")), I1("push", R("i")), I1("push", R("l")), I1("push", R("r")),
     I2("mov", R("i"), R("a")), I2("mov", R("n"), Imm(0)), I2("mov", R("r"), Imm(1)),
     \* 16 fib_iter_loop
     I2("cmp", R("i"), Imm(0)), I1("jle", To(23)), I1("dec", R("i")),
     I2("mov", R("l"), R("r")), I2("add", R("r"), R("n")), I2("mov", R("n"), R("l")),
     I1("jmp", To(16)),
     \* 23 fib_iter_end
     I2("mov", R("z"), R("r")), I1("pop", R("r")), I1("pop", R("l")),
     I1("pop", R("i")), I1("pop", R("n")), I0("ret") >>

\* codes/stack_overflow.asm, codes/div_by_zero.asm, and codes/stack_underflow.asm
\* with the jmp it runs and with the call its comment says works.
StackOverflow == << I1("call", To(0)), I0("ret") >>
DivByZeroAsm ==
  << I2("mov", R("a"), Imm(5)), I2("mov", R("b"), Imm(30)), I2("div", R("b"), R("a")),
     I1("dec", R("a")), I1("jmp", To(2)), I0("end") >>
StackUnderflow(branch) ==
  << I1(branch, To(2)), I0("end"), I1("msg", Str(S1)), I0("ret") >>

\* The code of interp_test_branch_insns in tests.c: its five parts are one string.
BranchTest ==
  << I2("cmp", Imm(2), Imm(1)), I1("jg", To(4)), I1("msg", Str(LineBreak)), I0("end"),
     I1("msg", Str(S1)),
     I2("cmp", Imm(1), Imm(2)), I1("jl", To(9)), I1("msg", Str(LineBreak)), I0("end"),
     I1("msg", Str(S1)),
     I2("cmp", Imm(1), Imm(1)), I1("jge", To(14)), I1("msg", Str(LineBreak)), I0("end"),
     I1("msg", Str(S1)),
     I2("cmp", Imm(1), Imm(1)), I1("jle", To(19)), I1("msg", Str(LineBreak)), I0("end"),
     I1("msg", Str(S1)),
     I1("jmp", To(23)), I1("msg", Str(LineBreak)), I0("end"),
     I1("msg", Str(S1)) >>
=============================================================================
