------------------------------- MODULE MCGenC -------------------------------
(***************************************************************************)
(* The programs of codes/ and tests.c, and all short programs of branches, *)
(* calls and returns, with a label wherever a branch goes.  What they      *)
(* print, divide by, and subtract from each other in a cmp of two literals *)
(* are values of an int: with others the C program does something else.    *)
(* Two calls to a label of each name that may be taken, and instructions   *)
(* there is no C for.                                                      *)
(***************************************************************************)
EXTENDS GenC, Samples

CONSTANTS Quote, Keyword, End__, Plain

SampleTextSize == [s \in Strings |-> 2]

Targets(p) ==
  {p[n].operands[1].arg : n \in {m \in DOMAIN p : p[m].opcode \in BranchOpcode}}

__ret(k) == <<"__ret_", k>>
ReturnNumbers == [name \in {__ret(k) : k \in 0 .. 9} |-> name[2]]

LabelNames == <<Keyword, End__, Plain, __ret(0), __ret(1), __ret(2)>>
TwoCalls(k) ==
  << I2("cmp", Imm(k), Imm(0)), I1("call", To(4)), I1("call", To(4)), I0("end"), I0("ret") >>

\* A label at every place a branch goes to, in the order of the instructions.
Labelling(p) ==
  LET places == SelectSeq([n \in DOMAIN p |-> n - 1], LAMBDA place : place \in Targets(p))
      Name(place) == IF \E k \in DOMAIN LabelNames : p = TwoCalls(k)
                     THEN LabelNames[p[1].operands[1].arg] ELSE <<"label", place>>
  IN  [l \in DOMAIN places |-> [name |-> Name(places[l]), instruction_index |-> places[l]]]

Insn(n) ==
  BranchTo({"jmp", "call", "jle"}, n)
    \cup {I0("ret"), I0("end"), I2("cmp", Imm(1), R("a")), I1("inc", R("a"))}

\* The values of an int, and some that are none.
Ints == -7 .. 7
Words == {MinWord, -9, -1, 0, 1, 8, WordHalf - 1}

Say(ops) == [opcode |-> "print", operands |-> ops]

\* No format, no argument, no literal, no register of that number.
NoCPrograms ==
  { << I1("inc", R("a")), Say(<<Str(S1), Mem(0, 0)>>) >>, << Say(<< >>) >>,
    << Say(<<Imm(1), Str(Quote)>>) >>, << I2("mov", Imm(5), R("a")) >>,
    << I2("mov", Mem(1, 0), Imm(1)), Say(<<R("a")>>) >> }

GeneratedPrograms ==
  {Gcd(x, y) : x, y \in {-6, -4, 1, 3, 6}}
    \cup {ModFunc(x, y) : x, y \in Ints}
    \cup {Fib(n) : n \in 1 .. 4}
    \cup {StackOverflow, DivByZeroAsm, StackUnderflow("jmp"), StackUnderflow("call"), BranchTest}
    \cup {<< I2("mov", R("a"), Imm(x)), I2("div", R("a"), Imm(y)), I1("pop", R("a")) >> :
            x \in Words, y \in Ints}
    \cup {<< I2("cmp", Imm(x), Imm(y)), I1("mfree", R("z")), I0("end") >> : x, y \in -3 .. 4}
    \cup UNION {[1 .. n -> Insn(n)] : n \in 1 .. 3}
    \cup {TwoCalls(k) : k \in DOMAIN LabelNames} \cup NoCPrograms

ProgramLabels == [p \in GeneratedPrograms |-> Labelling(p)]
=============================================================================
