-------------------------------- MODULE GenC --------------------------------
(***************************************************************************)
(* gen_c: writes a C program, one line for an instruction, and what that C *)
(* program does when it is compiled and run.  A goto names a label of the  *)
(* source; a return address is the label __ret_k behind the kth call.      *)
(*                                                                         *)
(* C leaves undefined what the C program does when its stacks underflow or *)
(* overflow; a division that has no quotient traps.  That snprintf cuts a  *)
(* long message is left out, and so are the strings' escapes but for "\n", *)
(* and a string that closes its literal and opens another.                 *)
(***************************************************************************)
EXTENDS Program, SequencesExt

CONSTANTS
  Programs,        \* the instruction sequences that are translated
  LabelsOf,        \* the resolved labels of each
  MAX_CALL_STACK,  \* 1000: the length of cs
  C_STACK,         \* 1000: the length of stack
  EscapedNewLine,  \* the string literal of a backslash and an n ...
  NewLine,         \* ... and what a C compiler makes of it
  Reserved,        \* the names C has no label of: its keywords, the headers' macros
  EndLabel,        \* the name __end
  ReturnNumber,    \* the k of each name that reads __ret_k
  NoLiteral,       \* the strings that are no C literal between double quotes
  NULL

ASSUME GenCAssumption ==
  /\ MAX_CALL_STACK \in Nat
  /\ C_STACK \in Nat
  /\ NULL \notin Nat
  /\ \A name \in DOMAIN ReturnNumber : ReturnNumber[name] \in Nat

\* What a program has been through before it is translated: program_check, which
\* lets no instruction pass that could not be run and no label twice, and
\* program_build, which resolves a branch to the place of a label.
ASSUME ProgramsAssumption ==
  \A p \in Programs :
    LET labels == LabelsOf[p]
    IN  /\ p \in Seq(Instruction) /\ (\A n \in DOMAIN p : Runnable(p[n])) /\ BranchesInRange(p)
        /\ DOMAIN labels \subseteq Nat
        /\ \A l, m \in DOMAIN labels : labels[l].name = labels[m].name => l = m
        /\ \A l, m \in DOMAIN labels :
             labels[l].instruction_index = labels[m].instruction_index => l = m
        /\ \A l \in DOMAIN labels :
             labels[l].name # NULL /\ labels[l].instruction_index \in 0 .. Len(p) - 1
        /\ \A n \in DOMAIN p : \A k \in DOMAIN p[n].operands :
             LET op == p[n].operands[k]
             IN  op.type = "BRANCH" => \E l \in DOMAIN labels : labels[l].instruction_index = op.arg

VARIABLES
  prog,            \* p->instructions
  resolved_labels,
  \* the generator: the registers declared, the lines written
  declared,
  lines,
  ret_label_counter,
  \* the C program
  at,              \* the line that comes next
  r,               \* ra, rb, ...
  cmp,
  cs,
  csp,
  stack,
  sp,
  msg,
  out,             \* the texts the latest printf wrote
  status           \* "generating", "compiling", "running", or how it ended

written == <<declared, lines, ret_label_counter>>
c_stacks == <<cs, csp, stack, sp>>
run == <<at, r, cmp, c_stacks, msg, out>>
vars == <<prog, resolved_labels, written, run, status>>

Init ==
  /\ prog \in Programs /\ resolved_labels = LabelsOf[prog]
  /\ declared = {} /\ lines = << >> /\ ret_label_counter = 0
  /\ at = 0
  /\ r = [k \in RegIndex |-> 0]
  /\ cmp = 0
  /\ cs = [k \in 0 .. MAX_CALL_STACK - 1 |-> NULL]
  /\ csp = 0
  /\ stack = [k \in 0 .. C_STACK - 1 |-> 0]
  /\ sp = 0
  /\ msg = << >> /\ out = << >>
  /\ status = "generating"

-----------------------------------------------------------------------------
(* Writing the program *)

LabelAt(index) == program_get_label_by_index(resolved_labels, index, NULL)

\* Mutant of UsedRegisters: only the first operand of an instruction is looked at.
UsedTargets ==
  {op.arg : op \in {prog[i].operands[1] : i \in {j \in DOMAIN prog : prog[j].operands # << >>}}}

\* gen_declaration_for_used_registers
UsedRegisters ==
  {op.arg : op \in {o \in UNION {ToSet(prog[i].operands) : i \in DOMAIN prog} : o.type = "REG"}}

\* A first operand that is written to is taken for a register, whatever its
\* union holds, and any operand of another type for an integer: of a memory
\* address it is the register's index.
Emitted(insn, k) ==
  LET op == insn.operands[k]
      target == insn.opcode \in Arithmetic \cup OneRegister /\ k = 1
  IN  CASE target \/ op.type = "REG" -> [is |-> "register", value |-> op.arg]
        [] op.type = "STR" -> [is |-> "string", value |-> op.arg]
        [] OTHER -> [is |-> "integer", value |-> op.arg]

\* The line: the values in it, the label it goes to, the number of its return label.
gen_instruction(insn) ==
  [ opcode |-> insn.opcode,
    values |-> [k \in DOMAIN insn.operands |-> Emitted(insn, k)],
    goto   |-> IF insn.opcode \in BranchOpcode
               THEN LabelAt(insn.operands[1].arg) ELSE NULL,
    ret    |-> ret_label_counter ]

\* assert(0): msg and print have no format for the operand.
NoFormat(insn) ==
  /\ insn.opcode \in Unchecked
  /\ \E k \in DOMAIN insn.operands : insn.operands[k].type \notin {"STR", "INT", "REG"}

\* One turn of gen_insns; gen_c declares the registers before the first.
GenInstruction ==
  /\ status = "generating"
  /\ Len(lines) < Len(prog)
  /\ LET n == Len(lines)
         insn == prog[n + 1]
     IN  IF NoFormat(insn)
         THEN status' = "assertion" /\ UNCHANGED written
         ELSE /\ declared' = UsedRegisters
              /\ lines' = Append(lines, [label |-> LabelAt(n),
                                         code  |-> gen_instruction(insn)])
              /\ ret_label_counter' = ret_label_counter + (IF insn.opcode = "call" THEN 1 ELSE 0)
              /\ UNCHANGED status
  /\ UNCHANGED <<prog, resolved_labels, run>>

Generated ==
  /\ status = "generating"
  /\ Len(lines) = Len(prog)
  /\ status' = "compiling"
  /\ UNCHANGED <<prog, resolved_labels, written, run>>

-----------------------------------------------------------------------------
(* Compiling and running it *)

Calls == {n \in DOMAIN lines : lines[n].code.opcode = "call"}
LinesOf(label) == {n \in DOMAIN lines : lines[n].label = label}
CallsOf(k) == {n \in Calls : lines[n].code.ret = k}

\* A name that C has no label of, or that the text has a label of already: the
\* one at its end, or one behind a call.
Taken(name) ==
  \/ name \in Reserved \cup {EndLabel}
  \/ name \in DOMAIN ReturnNumber /\ CallsOf(ReturnNumber[name]) # {}

\* What a compiler of GNU C asks for: a label for each goto, no label twice,
\* registers that are declared, an argument in each printf, and literals.
Compiles ==
  \A n \in DOMAIN lines :
    LET code == lines[n].code
    IN  /\ lines[n].label # NULL =>
             Cardinality(LinesOf(lines[n].label)) = 1 /\ ~Taken(lines[n].label)
        /\ n \in Calls => Cardinality(CallsOf(code.ret)) = 1
        /\ code.opcode \in BranchOpcode => LinesOf(code.goto) # {} /\ code.goto # NULL
        /\ \A k \in DOMAIN code.values :
             code.values[k].is = "register" => code.values[k].value \in declared
        /\ code.opcode \in Unchecked =>
             /\ code.values # << >>
             /\ \A k \in DOMAIN code.values :
                  code.values[k].is = "string" => code.values[k].value \notin NoLiteral

Compile ==
  /\ status = "compiling"
  /\ status' = IF Compiles THEN "running" ELSE "refused"
  /\ UNCHANGED <<prog, resolved_labels, written, run>>

\* The place a label stands at, and the one behind the call of a return label.
PlaceOf(label) == (CHOOSE n \in LinesOf(label) : TRUE) - 1
ReturnPlace(k) == CHOOSE n \in CallsOf(k) : TRUE

Line == lines[at + 1].code
Executing(opcodes) == status = "running" /\ at < Len(lines) /\ Line.opcode \in opcodes

Value(v) == IF v.is = "register" THEN r[v.value] ELSE v.value
V0 == Value(Line.values[1])
V1 == Value(Line.values[2])

Then == at' = at + 1 /\ UNCHANGED <<prog, resolved_labels, written, status>>

End(how) == status' = how /\ UNCHANGED <<prog, resolved_labels, written, run>>

Assign(value) ==
  /\ r' = [r EXCEPT ![Line.values[1].value] = ToWord(value)]
  /\ Then
  /\ UNCHANGED <<cmp, c_stacks, msg, out>>

Compute ==
  \/ Executing({"mov"}) /\ Assign(V1)
  \/ Executing({"add"}) /\ Assign(V0 + V1)
  \/ Executing({"sub"}) /\ Assign(V0 - V1)
  \/ Executing({"mul"}) /\ Assign(V0 * V1)
  \/ Executing({"inc"}) /\ Assign(V0 + 1)
  \/ Executing({"dec"}) /\ Assign(V0 - 1)

Traps == V1 = 0 \/ (V0 = MinWord /\ V1 = -1)

Divide ==
  /\ Executing({"div"})
  /\ IF Traps THEN End("trap") ELSE Assign(TruncDiv(V0, V1))

\* C subtracts two literals that fit an int as ints.
IntLiterals ==
  \A k \in 1 .. 2 :
    Line.values[k].is = "integer" /\ ToInt(Line.values[k].value) = Line.values[k].value

Compare ==
  /\ Executing({"cmp"})
  /\ cmp' = IF IntLiterals THEN ToInt(V0 - V1) ELSE ToWord(V0 - V1)
  /\ Then
  /\ UNCHANGED <<r, c_stacks, msg, out>>

\* Mutant of Holds: the conditions of jge and jg are mixed up.
HoldsMixedUp(opcode) ==
  CASE opcode = "jne" -> cmp # 0
    [] opcode = "je"  -> cmp = 0
    [] opcode = "jge" -> cmp > 0
    [] opcode = "jg"  -> cmp >= 0
    [] opcode = "jle" -> cmp <= 0
    [] opcode = "jl"  -> cmp < 0
    [] opcode = "jmp" -> TRUE

Holds(opcode) ==
  CASE opcode = "jne" -> cmp # 0
    [] opcode = "je"  -> cmp = 0
    [] opcode = "jge" -> cmp >= 0
    [] opcode = "jg"  -> cmp > 0
    [] opcode = "jle" -> cmp <= 0
    [] opcode = "jl"  -> cmp < 0
    [] opcode = "jmp" -> TRUE

Goto ==
  /\ Executing(Conditional \cup {"jmp"})
  /\ at' = IF Holds(Line.opcode) THEN PlaceOf(Line.goto) ELSE at + 1
  /\ UNCHANGED <<prog, resolved_labels, written, r, cmp, c_stacks, msg, out, status>>

\* cs[csp++] = &&__ret_k; goto label; __ret_k:
CallSub ==
  /\ Executing({"call"})
  /\ IF csp >= MAX_CALL_STACK THEN End("undefined")
     ELSE /\ cs' = [cs EXCEPT ![csp] = Line.ret]
          /\ csp' = csp + 1
          /\ at' = PlaceOf(Line.goto)
          /\ UNCHANGED <<prog, resolved_labels, written, r, cmp, stack, sp, msg, out, status>>

\* goto *cs[--csp]; below 0, csp is the largest uint16_t.
Return ==
  /\ Executing({"ret"})
  /\ IF csp = 0 THEN End("undefined")
     ELSE /\ csp' = csp - 1
          /\ at' = ReturnPlace(cs[csp'])
          /\ UNCHANGED <<prog, resolved_labels, written, r, cmp, cs, stack, sp, msg, out, status>>

PushValue ==
  /\ Executing({"push"})
  /\ IF sp >= C_STACK THEN End("undefined")
     ELSE /\ stack' = [stack EXCEPT ![sp] = V0]
          /\ sp' = sp + 1
          /\ Then
          /\ UNCHANGED <<r, cmp, cs, csp, msg, out>>

PopValue ==
  /\ Executing({"pop"})
  /\ IF sp = 0 THEN End("undefined")
     ELSE /\ sp' = sp - 1
          /\ r' = [r EXCEPT ![Line.values[1].value] = stack[sp']]
          /\ Then
          /\ UNCHANGED <<cmp, cs, csp, stack, msg, out>>

\* printf's %d prints an int.
Texts ==
  [k \in DOMAIN Line.values |->
     LET v == Line.values[k]
     IN  IF v.is # "string" THEN ToInt(Value(v))
         ELSE IF v.value = EscapedNewLine THEN NewLine ELSE v.value]

Message ==
  /\ Executing(Unchecked)
  /\ IF Line.opcode = "msg" THEN msg' = Texts /\ UNCHANGED out ELSE out' = Texts /\ UNCHANGED msg
  /\ Then
  /\ UNCHANGED <<r, cmp, c_stacks>>

\* "opcode not implemented": the line is empty.
EmptyLine ==
  /\ Executing({"malloc", "mfree"})
  /\ Then
  /\ UNCHANGED <<r, cmp, c_stacks, msg, out>>

\* goto __end, or the lines are over.
Finish ==
  /\ status = "running"
  /\ at = Len(lines) \/ Executing({"end"})
  /\ End("ended")

Halted == status \notin {"generating", "compiling", "running"} /\ UNCHANGED vars

Next ==
  \/ GenInstruction \/ Generated \/ Compile \/ Compute \/ Divide \/ Compare \/ Goto
  \/ CallSub \/ Return \/ PushValue \/ PopValue \/ Message \/ EmptyLine \/ Finish \/ Halted

Spec == Init /\ [][Next]_vars
-----------------------------------------------------------------------------
CONSTANTS MAX_STACK, TextSize, MAX_MSG, UNHANDLED_SIZE, Unknown, Unhandled, NoText

ASSUME TextsAssumption ==
  /\ MAX_STACK \in 0 .. C_STACK
  /\ Unhandled \notin Strings \cup Word
  /\ EscapedNewLine \notin Word

\* How the interpreter calls what the C program cannot say.  What is not a C
\* program does not run at all.
InterpStatus ==
  CASE status \in {"generating", "compiling", "assertion", "refused"} -> "running"
    [] status = "trap" /\ V1 = 0 -> "division_by_zero"
    [] status = "undefined" /\ Line.opcode = "call" -> "callstack_overflow"
    [] status = "undefined" /\ Line.opcode = "ret"  -> "callstack_underflow"
    [] status = "undefined" /\ Line.opcode = "push" -> "stack_overflow"
    [] status = "undefined" /\ Line.opcode = "pop"  -> "stack_underflow"
    [] OTHER -> status

Interpreter == INSTANCE Vm WITH
  WORD_BYTES <- 1, HEAP_BYTES <- 0, pc <- at, registers <- r,
  call_stack <- [k \in 0 .. MAX_CALL_STACK - 1 |-> IF cs[k] = NULL THEN 0 ELSE ReturnPlace(cs[k])],
  call_stack_top <- csp,
  stack <- [k \in 0 .. MAX_STACK - 1 |-> stack[k]],
  stack_top <- sp,
  heap <- << >>, blocks <- << >>, status <- InterpStatus

\* The C program does what the interpreter does, instruction by instruction: it
\* computes and prints the same, calls and returns to the same places, and ends
\* where the interpreter ends; where the interpreter reports an error or a
\* division traps, the C program traps or does what C leaves undefined.
DoesWhatTheInterpreterDoes == Interpreter!Spec

-----------------------------------------------------------------------------
(* The programs that can be said in C, in the terms of who writes them *)

NumberOfCalls == Cardinality({n \in DOMAIN prog : prog[n].opcode = "call"})

\* Labels may have any name (lexer.h:291), also one that the text has another
\* use for: __end (genc.c:175), a __ret_k (genc.c:68), or a word of C's.
LabelsAreFree ==
  \A l \in DOMAIN resolved_labels :
    LET name == resolved_labels[l].name
    IN  /\ name \notin Reserved \cup {EndLabel}
        /\ name \in DOMAIN ReturnNumber => ReturnNumber[name] >= NumberOfCalls

\* There is something to print, and a format for it.
Sayable(insn) ==
  insn.opcode \in Unchecked =>
    /\ insn.operands # << >>
    /\ \A k \in DOMAIN insn.operands :
         LET op == insn.operands[k]
         IN  op.type \in {"INT", "REG"} \/ (op.type = "STR" /\ op.arg \notin NoLiteral)

TargetIsRegister(insn) == insn.opcode \in Arithmetic => insn.operands[1].type = "REG"

HasC == LabelsAreFree /\ \A n \in DOMAIN prog : Sayable(prog[n])

\* The text that is written is a C program exactly if the labels' names are free
\* and every message can be said.  With a target of arithmetic that is not a
\* register the text names some register all the same: it may be none that is
\* declared, and then nothing is claimed but that the rest must be right.
IsAProgram ==
  /\ HasC /\ (\A n \in DOMAIN prog : TargetIsRegister(prog[n])) =>
       status \notin {"assertion", "refused"}
  /\ status \notin {"generating", "compiling", "assertion", "refused"} => HasC
=============================================================================
