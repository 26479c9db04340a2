# assembler-interpreter: models, checks and proofs

The program reads an assembly source and interprets it: `interp` (src/src/interp.h:727)
calls `parser_init`, `parser_parse`, `program_build`, `program_check` and `program_run`
one after the other, in one thread, and each stage hands its result to the next. There
is no concurrency and nothing is persisted; the hard parts are what a long sequence of
instructions can do to two bounded stacks and a heap, the width of integers, cursors
that move ahead and back, indices that one stage computes and a later one uses without
looking, and static state that survives from one use to the next.

## The system

| Component | State | Operations | Hard behaviour | What makes it correct |
|---|---|---|---|---|
| Lexer, `lexer.h` | offset, line and column in the source | `lexer_next_token`, white space and comment skipping, strings, integers | sign and width of literals, carriage returns, unterminated strings and brackets | tokens cover the source in order; a position names the text it was read from |
| Parser, `parser.h` | tokens, `cur_token`, nodes under construction | `parser_parse`, top level, label, instruction, operands, address | looking ahead and pushing back, end of source, label bodies without a look at the next token | nodes are the source; accepts its line grammar; ends |
| `program_build`, `interp.h` 142-295 | instruction array, resolved labels | `convert_instruction_node`, label registration, branch resolution | indices taken before bodies are converted, repeated and undefined names | a branch goes to where its label stands first |
| `program_check`, `interp.h` 297-532 | position in the program, a static message buffer | duplicated labels, `check_operands`, `require_operand_types` | order of early returns, handler that exits or returns, buffer that is never reset | what is accepted can be executed; what is reported is a defect, the first one or all |
| `program_run`, `interp.h` 546-725 | `pc`, registers, `cmp`, call stack, data stack, message, output, `malloc` blocks | one case for each of 24 opcodes | stack limits, narrowing and overflow, memory operands, uninitialised operands | two independent bounded stacks; documented results; errors where documented |
| Error reporting, `error.h` | the handler, its source text | `report_error`, `default_error_handler_fn`, `print_location` | line ranges at the end of the source, negative widths | the printed line is the one at fault |
| C generator, `genc.c` | the registers used, a counter of return labels | `gen_c` prints a program as C | labels and return labels as `goto` targets, registers that must be declared, no checks at run time | the text is a C program and does what `program_run` does |
| Disassembler, `main.c` 89-130, `interp.h` 494-527 | the indent | lists a built program | finds labels again by their index, and asserts that it does | the listing has the names of the source |
| Allocation spy, `alloc_spy.h` | totals by file and line | wrappers of `malloc`, `calloc`, `free` | compiled out by default | totals add up |
| `stretchy_buffer.h` | growable arrays | third-party | -- | -- |

Every stage reports through `error_handler.report_error`. The default handler prints
and calls `exit`; the tests install one that returns (tests.c), and then a stage goes on
behind the report. Asserts are active in every build script (no `NDEBUG`).

## Modules

| Module | What it is | Code |
|---|---|---|
| `Words` | two's complement integers of two widths, C's division | `int64_t`, `int` in `program_run` |
| `Program` | opcodes, operands, `OperandErrors`: what `check_operands` finds wrong with an instruction, and `program_get_label_by_index` | interp.h 10-100, 297-304, 360-463 |
| `Syntax` | tokens and the parser's nodes | lexer.h 13-57, parser.h 27-61 |
| `Lexer` | `lexer_next_token`, called until the end or the first error, with its properties | lexer.h 68-306 |
| `Parser` | `parser_parse` and all it calls, over a token sequence, with its properties | parser.h 71-323 |
| `ErrorReport` | `get_line_range` and `print_location`, as operators on a text and a position | error.h 21-118 |
| `FrontEnd` | `Lexer`, `Parser` and `ErrorReport` composed: a text becomes a tree or an error on the screen | parser.h 89-106, lexer.h 68-92, error.h 121-153 |
| `ProgramBuild` | `program_build`, with its properties | interp.h 142-295 |
| `Disasm` | the listing of a built program, as an operator | main.c 89-130, interp.h 494-527 |
| `ProgramCheck` | `program_check`, with its properties | interp.h 306-532 |
| `Interp` | `Parser`, `ProgramBuild` and `ProgramCheck` composed: from tokens to the program `program_run` gets | interp.h 727-756 |
| `Vm` | `program_run`, one action per opcode and per way out | interp.h 546-725 |
| `StackMachine` | what `program_run` promises: a machine of two bounded stacks | (abstract) |
| `VmProperties` | properties of `Vm`, and the refinement mapping to `StackMachine` | |
| `GenC` | `gen_c`, and the C program it writes compiled and run; refines `Vm` | genc.c |
| `VmProofs`, `ProgramCheckProofs`, `ProgramBuildProofs`, `ParserProofs`, `InterpProofs`, `LexerProofs`, `GenCProofs` | theorems on the module of the name; `VmProofs` also on the programs of `MCVm`, `ProgramBuildProofs` on `Disasm`, `ProgramCheckProofs` on `Program`, `LexerProofs` on `FrontEnd` | |
| `DataLemmas` | least elements, words, division, and flattened sequences, for the proofs | |
| `Samples`, `MCVm`, `MCGenC`, `MCFrontEnd`, `MCParser`, `MCInterp`, `MCProgramCheck` | the inputs of the runs | codes/*.asm and tests.c in `Samples` |

How they fit. `Program` and `Syntax` are the data the stages exchange; two modules compose
the stages and meet at the tokens. `FrontEnd` reads a text: the lexer to its end
(`parser_init` does so before the parser looks at a token), then the parser, and whoever
reports first has its position printed. `Interp` takes the same parser from tokens
through `program_build` and `program_check` to the call of `program_run`. `Vm` starts
from any program that `ProgramsAssumption` admits: a sequence of instructions that have
the operands their opcodes read (`Runnable`), with all branches in range. The target of
arithmetic is written, and `Runnable` leaves it free, as the check does (finding 3): one
that is neither a register nor an address is a wild access in `Vm`. That `Interp` hands
over no other program is `RunsRunnable`, which is proved, so the assumption is
discharged. `GenC` starts from the same programs with their labels: one name each
(`RunsRunnable`), each at an instruction of its own (`BuiltLabelsInOrder`) that exists, and
one wherever a branch goes (`BuiltBranchesToLabels`); these are proved too. A component's module is the same in every composition;
`Interp` and `FrontEnd` rename variables of the second and third stage where they clash.

### State and actions

* **Vm**. `pc`, `registers`, `cmp`, `call_stack`, `call_stack_top`, `stack`, `stack_top`
  are the locals of `program_run`; the arrays are functions from 0, as in C. `msg` and
  `out` hold the texts written, `heap` and `blocks` what memory operands and `malloc`
  touch. Every `goto end` is an action that sets `status`. `BRANCH_IF`,
  `REG_OR_INT_OR_MEM` and `MEMORY_OR_REG_OP` are the macros of the same names.
* **ProgramCheck**. One step per instruction (`CheckOperands`) and one per report, as
  a handler may not return. `heads` is what `require_operand_types` has moved its static
  pointer past; `CheckAnother` is the process that checks a further program.
* **ProgramBuild**. One step per instruction converted, label registered and
  instruction looked at by the last loop. An operand's `extra`, uninitialised in C for
  all but addresses, is never read there by `program_run` and is 0.
* **Interp**. `stage` says which function `interp` is in. The stages share the tree and
  the program as the code does, through one pointer each; `Checked` is the view of it that
  `program_check` has. The handler exits, as `interp` installs no other.
* **FrontEnd, ErrorReport**. `printed` is what `default_error_handler_fn` has printed:
  the three parts of the line, the indent of the carets and their number. `Printed` is
  `printf("%.*s")`, which prints to the end of the string for a negative precision.
* **GenC**. While `status` is `"generating"` one step writes one line: label, values,
  `goto` target, return label; without a format for an operand the generator's own
  assertion ends it. `Compile` is the compiler (of GNU C: the text uses `&&label` and
  `goto *`): it refuses a label that stands twice or is `Taken`, that is, a word of C,
  `__end`, or a return label, a `goto` without its label, a register that is not declared,
  an empty `printf` and a literal that does not close. What is refused does not run. Then one
  action per kind of line runs it; `at` is the line that comes next, `cs` holds the return
  labels' numbers, `csp` and `sp` are not checked. C leaves open what an underflow or
  overflow does, which is the status `"undefined"`.
* **Disasm**. No state: the listing is a function of the built program.
* **Lexer**. `offset`, `line_number`, `column` are the fields of `lexer`; one step per
  return of `lexer_next_token`, its recursive calls after a comment and a carriage return
  included. A token carries its `src_pos`. A literal that does not fit may be stored as
  its low bits or as the nearest word, as libraries differ. `parser_init` stops at the first
  NULL, so an error ends the run.
* **Parser**. The recursive descent, flattened: `at` says which function reads next,
  `label`, `opcode`, `operands` are the nodes on its C stack. `cur_token` is left
  exactly where the code leaves it, after looking ahead too. `exits` chooses the handler:
  with one that returns, the parser goes on with a NULL operand or the token it did not
  expect, or dereferences the NULL that `parser_parse_top_level` answered
  (`null_dereferenced`).

### Undefined behaviour

An access outside live blocks, a bad `mfree`, a message longer than its 1000 bytes and a
`require_operand_types` message longer than 300 bytes end in a status of their own, of
which nothing is claimed. A word that was not written as a word reads as any word.
`malloc` may fail. Signed overflow of `add`, `sub`, `mul`, `cmp`, `inc` and `dec` wraps,
as the machine instructions of both builds (`build.cmd`, `build-opt.cmd`) do on run-time
values; the least word divided by -1 traps. An arithmetic instruction whose target is
not a register or an address (the check lets it through, see Findings) is an access
through uninitialised operand fields. `%I64d` prints 64 bits: the builds are Windows
builds.

## Runs

`WordHalf` stands for 2^63, `IntHalf` for 2^31. Small ones make every overflow happen.

| Run | What it shows | Bounds, and why they are enough |
|---|---|---|
| `vm_control` | `TypeOK`, `ReturnAddresses`, `ImplementsStackMachine`, `ForwardProgramsHalt` | all programs of up to 3 control instructions, of 4 without comparisons, all forward programs of 6. Both stacks hold 2: under- and overflow of each, and nested calls, happen. Words are -2..1 |
| `vm_programs` | `GcdResult`, `RemainderResult`, `FibResult`, `DocumentedEndings`, `SamplesHalt`, `MemoryHoldsWords`, `ComparisonEquality`, `ImplementsStackMachine` | `codes/gcd.asm`, `mod_func.asm`, `fib.asm` with ranges of inputs of both signs, zero, and the least word; `stack_overflow.asm`, `div_by_zero.asm`, both variants of `stack_underflow.asm`, the branch test of tests.c. Exchange of two words through one block, through two, and through one a byte too small; double free, division through an address, half overwritten words, empty blocks, messages up to and over the buffer; `cmp` of every word with six others, among them words more than half the range apart. Words have 6 bits (2 bytes in memory), the heap 6 bytes: two blocks fit in several ways, three words at most. The stacks hold 4: `fib` nests one call and four pushes, the overflow sample fills them |
| `check_programs` | `TypeOK`, `SilentMeansRunnable`, `FirstDefectReported`, `EveryDefectReported` | one process checks programs of at most 3 instructions together, from 20 instructions that show each kind of defect, with 3 lists of labels, with either handler; the buffer overflows at the third message |
| `interp_sources` | `TypeOK`, `BranchesLand`, `LabelsInOrder`, `MeansTheSource` of `ProgramBuild`, `ListingIsTheSource` of `Disasm`, `RunsRunnable`, `OneReport`, `RunsWhatIsMeaningful`, `InterpFinishes` of `Interp` | the sources of trees of up to 3 labels over two names (so names repeat and are missing) and bodies of up to 2 instructions, with every form of operand, five kinds of defect, and a target that is an integer; and shorter ones with any one token missing |
| `front_sources` | `TypeOK`, `PositionsDelimit`, `NothingUnread`, `ErrorsMarkTheirText`, `LexerFinishes` of `Lexer`, `ErrorShown`, `FrontFinishes` of `FrontEnd` | all texts of up to 4 characters of ten kinds, of up to 3 of thirteen pieces (names with digits, signed literals, strings with a semicolon inside, open quotes, both line ends), and of up to 4 of eight that make lines. Words are -4..3, so the literals 4 and 14 do not fit and -4 just does; 2 carets are at hand, so some positions are wider |
| `parser_sources` | `TypeOK`, `NothingLost`, `AcceptsTheLanguage`, `FirstErrorInFirstBadLine`, `ParserFinishes` | all sequences of up to 4 tokens, and of up to 5 of eight pieces of lines (a label is two tokens, an address three, a full instruction with address and line end eight), with either handler |
| `genc_programs` | `IsAProgram`, `DoesWhatTheInterpreterDoes` | the samples and tests of `vm_programs`, `div` with the least word and other words by all ints, and all programs of up to 3 branches, calls, returns, comparisons and increments: programs that end in the middle of a call, loop and return without a call are among them. Two calls to a label named like a word of C, `__end`, `__ret_0`, `__ret_1`, `__ret_2` (the last is free) or otherwise; a message with an address, with nothing, or with a string that is no literal; arithmetic on an integer and on an address: what the compiler or the generator refuses is among them. An int has 4 bits, a word 6, and what is printed and divided by is an int (see below) |
| `vm_divisor`, `front_newline`, `check_messages`, `check_targets`, `parser_assert` | the findings below | the smallest instances that show them |

`vm_control`, `check_programs` and the second half of `genc_programs` hold every program up
to their size, `vm_programs` holds programs somebody would write; the first find wrong
control, the second wrong values. `front_sources` and `parser_sources` read every short
source, `interp_sources` sources that are nearly right.

**Deadlock** is checked everywhere: a stopped stage stutters explicitly (`Halted`,
`Stopped`), so a missing case of a handler would show as a deadlock.

**Fairness.** The `Fair...` specifications of `Vm`, `Parser`, `FrontEnd` and `Interp` add
weak fairness of the whole next-state relation: one thread that waits for nothing is run
until it returns. No single action is given fairness; the nondeterminism (which block
`malloc` returns, whether it fails) stays unconstrained. `ForwardProgramsHalt` uses it for
programs without backward branches, `SamplesHalt` for the samples, `LexerFinishes`,
`ParserFinishes`, `FrontFinishes` and `InterpFinishes` for every source.

### The properties worth a second look

* `ImplementsStackMachine`: arrays with a top index are stacks. A push of another frame,
  a return to the call itself, a branch off by one, or an instruction that changes two
  registers is not a step of `StackMachine`.
* `ForwardProgramsHalt`: although `ret` sets `pc` backwards, a program whose branches
  all go forward ends. It holds because a return address lies behind its call.
* `RemainderResult`: for all signs `mod_func` is the remainder that goes with truncation.
* `ComparisonEquality`: `cmp` keeps a wrapped difference, which still is zero only for
  equal words. Their order is lost: for words more than half the range apart `jg` and `jl`
  decide the wrong way round, of which the repository says nothing.
* `SilentMeansRunnable`: the gates of `check_operands`, each an early return, leave
  nothing through that a case of `program_run` would misread. The targets of arithmetic
  are written, not read, and are an exception (`check_targets`).
* `EveryDefectReported`: with a handler that returns, each defect up to an invalid
  opcode is reported, in order.
* `RunsRunnable`: the program that reaches `program_run` has, for every instruction, the
  operands its case reads (not the target of arithmetic, which it writes) and a place for
  every branch. No stage knows all of it: the
  parser, that bodies are not empty; `program_build`, where branches go; `program_check`,
  that operands fit.
* `RunsWhatIsMeaningful`: a source is run if and only if it is one, stated in the terms
  of who writes it, over lines, registers and label names; so nothing right is refused.
  `Meaningful` is what the tests ask for, a register or an address as the target of
  arithmetic among it (tests.c:645). The code does not keep that, so the property names
  its one exception, `WrongTarget`: a source in which nothing but the target of arithmetic
  is wrong, `mov 5, a`, is run too (finding 3). The run has such sources, and without the
  exception the property is violated.
* `OneReport`: no stage runs behind one that has reported.
* `ErrorShown`: the line that is shown is the line of the error, whole, and the carets
  stand under the token or text at fault; `get_line_range` and `print_location` compute it
  with offsets, the property from line and column alone.
* `FirstErrorInFirstBadLine`: looking ahead never blames a line that is right, nor gets
  past one that is wrong.
* `IsAProgram`: which sources have a C program, in the terms of who writes them. A label
  may have any name (lexer.h:291) and `gen_c` writes it as it is, so `__end`
  (genc.c:175), the name of one of the program's return labels (genc.c:68) and the words of
  C are not free, though the interpreter takes them; `__ret_2` is free if there are two
  calls. The text is a C program if and only if the names are free and every message has
  a format for each operand, as long as the targets of arithmetic are registers. With other
  targets the text names some register, and only the one direction is claimed.
* `DoesWhatTheInterpreterDoes`: the C program's state, line by line, is a behaviour of
  `Vm`: return labels stand for return addresses, labels for indices.
* `ListingIsTheSource`: the way from a name to an index (`program_build`) and back
  (`program_get_label_by_index`) gives the same name, though names may repeat.
* `MeansTheSource`: the array is the source in order and a branch goes to the first
  place its label stands, stated on the tree without indices.
* `PositionsDelimit`, `NothingUnread`: lines and columns are recomputed from the text
  alone; at the place a token names its text stands, every character is in one token or
  in none for a reason. Behind a carriage return in the middle of a line columns fall
  short, which both properties leave out; a line that ends in CR LF is covered.
* `AcceptsTheLanguage`: the parser, with its pushed-back tokens, accepts exactly a line
  grammar that is stated without a cursor.

## Proofs

All for every value of the constants, under the named assumptions.

| Theorem | Statement |
|---|---|
| `VmProofs!TypeCorrect`, `ReturnAddressesHold` | `Spec => []TypeOK`, `Spec => []ReturnAddresses` |
| `VmProofs!EqualityCompared` | `Spec => ComparisonEquality` |
| `VmProofs!Implementation` | `Spec => Abstract!Spec`: `program_run` implements `StackMachine` |
| `VmProofs!RemainderComputed` | if divisors are ints, `Spec => [](RemainderResult \/ MessageUnfinished)` |
| `VmProofs!EndingsDocumented` | if ints reach 5, `Spec => [](DocumentedEndings \/ MessageUnfinished)` |
| `VmProofs!GcdComputed` | if the values can be negated, `Spec => [](GcdResult \/ MessageUnfinished)` |
| `VmProofs!FibComputed` | if the numbers are words and four fit on the stack, `Spec => []FibResult` |
| `VmProofs!MemoryHolds`, `AnyTwoWordsHeld` | if addresses are words, `Spec => []MemoryHoldsWords`; the same for any two words and any block that holds one |
| `ProgramCheckProofs!AcceptedRuns` | an instruction without errors has the operands its case reads (the target of arithmetic, which is written, may be anything) |
| `ProgramCheckProofs!TypeCorrect`, `SilentPrograms`, `FirstDefects`, `DefectsReported` | type correctness, `SilentMeansRunnable`, `FirstDefectReported`, `EveryDefectReported` |
| `ProgramCheckProofs!Acceptance` | a silent check leaves instructions without errors |
| `ProgramCheckProofs!StopsForADefect` | a check that exits, or writes past its message, is of a program with a defect |
| `ProgramBuildProofs!TypeCorrect`, `BuiltBranchesLand`, `BuiltLabelsInOrder` | type correctness, `BranchesLand`, `LabelsInOrder` |
| `ProgramBuildProofs!BuiltMeansTheSource`, `ListingHolds` | `Spec => []MeansTheSource`, `Spec => []ListingIsTheSource` |
| `ProgramBuildProofs!BuiltBranchesToLabels` | every label of a built program is at one of its instructions, and every branch goes where a label stands |
| `ParserProofs!TypeCorrect`, `AllWritten` | the cursor stays in the source and the nodes are well formed; `Spec => []NothingLost` |
| `ParserProofs!LanguageAccepted`, `FirstErrorPlaced` | `Spec => []AcceptsTheLanguage`, `Spec => []FirstErrorInFirstBadLine` |
| `InterpProofs!ProgramsRunnable`, `OneReportOnly` | `InterpSpec => []RunsRunnable`, `InterpSpec => []OneReport` |
| `InterpProofs!MeaningfulRun` | `InterpSpec => []RunsWhatIsMeaningful`, with its exception for targets of arithmetic |
| `LexerProofs!TypeCorrect`, `ErrorsMarked` | type correctness, `ErrorsMarkTheirText` |
| `LexerProofs!PositionsRight`, `AllRead` | `Spec => []PositionsDelimit`, `Spec => []NothingUnread` |
| `LexerProofs!ErrorsShown` | `FrontSpec => []ErrorShown` |
| `GenCProofs!Translated` | `Spec => []IsAProgram` |
| `GenCProofs!SameRun` | `Spec /\ []Agrees => DoesWhatTheInterpreterDoes` |

* **Vm.** Assumptions: the limits are positive naturals (`VmAssumption`) and programs
  have been built and checked (`ProgramsAssumption`). `IInv` is `TypeOK /\
  ReturnAddresses`: neither is inductive alone, as `ret` takes `pc` from the call stack,
  whose entries only `ReturnAddresses` bounds, and the live part of the stack is only
  known from the type of its top. That an operand read by an opcode has the type the
  opcode needs comes from `Runnable`. The refinement then goes action by action;
  `LivePush` and `LivePop` say what a store at the top, or a lower top, does to the live
  part of an array. `ComparisonEquality` rests on `DifferenceIsZero`: a difference of
  two words that wraps to zero is zero.
* **Programs of `Vm`.** Each is followed by an invariant that says, for every value of
  `pc`, what the registers, the stacks and the heap hold (`ModInv`, `GcdInv`, `FibInv`,
  `ExchangeInv`, `TwoInv`), on top of `IInv`; one lemma per kind of instruction says
  what a step does, so that no proof about a program opens `Next`.
  `ModInv` follows straight-line code behind one call: the product and the difference are
  no further from 0 than the dividend (`QuotientWords`), so neither wraps. `GcdInv` has
  that the two values of the loop have the common divisors of those given (`SameCommon`),
  which a subtraction keeps (`SubtractCommon`), as does a change of sign; both stay
  positive, so nothing wraps, and when they are equal they are the greatest. `FibInv` has
  that two registers hold successive Fibonacci numbers, by how much of the countdown is
  left, and at which height of the data stack the caller's four values lie. `FibOf` is a
  recursive function; that it is what its equation says (`FibIs`) follows from the least
  number up to which no function satisfies the equation, without induction over a
  predicate. `TwoInv` has that the live blocks are apart, as `malloc` gives an extent that
  is free (`BothBlocks`), so a word written to one block leaves the other's; that a
  difference which may have wrapped, added back, restores the word is `DifferenceAdded`.
* **What they ask for.** `MessageUnfinished` is the end at a `msg` that does not fit its
  buffer, of which nothing is claimed; texts of any length may reach it. A divisor is an
  int, as `div` keeps it in one (finding 1). The values of `gcd.asm` are neither 0, with
  which it does not end or does so wrongly, nor the least word, which has no absolute
  value (`Negatable`). The literals of the branch test are ints. The numbers of `fib.asm` are words (`FibFits`), the data stack
  holds four, and an escaped line break is printed as one. The words behind the heap are
  still words (`MemoryFits`), and a model value for what is not known, or no text, is
  neither a word nor a text. `vm_programs` has constants and inputs that satisfy all of
  them, and none of these programs gets to `MessageUnfinished` there.
* **ProgramCheck.** `IInv` adds that nothing has been reported before the first
  defective instruction, and that errors pending belong to the latest instruction, to
  the reported properties. `Least`, of `DataLemmas`, supplies the minimum that picks the
  first error. For `EveryDefectReported`, `Complete` says what has been told so far: the
  reports are in order and about defective instructions, each defective instruction that
  is done with has one, and errors still pending come behind all of them.
  `StoppedForADefect` is the other direction: what the check does not come back from is
  about a defect, as nothing is reported or written into a message without one.
* **ProgramBuild.** `IInv` adds `Progress` (how much is converted, of which body) and
  `LabelsStart`: a registered label's index is below the length of the array, except
  between its registration and the first instruction of its body, which a node always
  has. That last fact makes `LabelsInOrder` strict and branches land. `MeansTheSource`
  needs `SInv`: the array is as long as the bodies before the present one and what is
  converted of that (`LaidOut`), every label has the index at which its body begins
  (`LabelsAtStart`), and each instruction is the source's at that place, resolved as far
  as the last loop has come (`InstructionsMean`). That `count_instructions`, a loop of its
  own, gets the length of the whole, without which the code's assertion would fail, is shown
  by the least body at which the two counts would differ. The listing follows from
  `MeansTheSource` and `LabelsInOrder`, as both directions find the same label.
* **Parser.** Assumptions: a source is not empty and ends with its only EOF
  (`SourcesAssumption`), and the code's NULL is neither a name nor an integer
  (`SyntaxAssumption`). `IInv` is `TypeOK` and that the source is one of those given,
  which no action changes. Then whoever looks ahead finds a token that ends no line
  (`SkipFinds`), at or before the EOF, so the cursor never leaves the source.
  `NothingLost` needs `NothingLostSoFar`: at every step the nodes, with those still
  under construction (label, opcode, operands, and the comma behind which an operand is
  expected) written behind the finished ones, are the tokens behind the cursor; and
  `Construction`, which of them there are at which `at`. Instructions can only be added
  at the top level before the first label, as a label's body goes on until the next
  label or the end: this is why the nodes may be written in the order of the tree.
  `PushedBackIs`: moving the cursor back by two tokens, after looking at two, leaves it
  where the line begins, unless the source ends there. `LanguageAccepted` and
  `FirstErrorPlaced` need `AcceptedSoFar`: until something is reported, every line behind
  the cursor fits, and of the line being read the operands up to the cursor are right, which
  then stands at the opcode, at a comma, or at the end of an operand that could not be
  longer; the first report is about a place in the first line that does not fit. The
  grammar speaks of places in the source, so nothing has to be cut into pieces.
* **Interp.** The theorems of the stages, put together: `InterpInv` says which stage's
  invariant holds at which `stage`. `ParserProofs` gives the tree its type, which is what
  `ProgramBuildProofs` assumes of trees; that gives the program its type, which
  `ProgramCheckProofs` assumes of programs. A step of a stage is a step of its module with
  the variables renamed, and the others stand still. `RunsWhatIsMeaningful` needs what one
  stage knows of the source to be there when a later one has judged it: `MeaningInv` keeps
  `AcceptedSoFar` of the parser, that the tree being built is the one parsed, with `SInv`,
  and `Complete` and `StoppedForADefect` of the check. `AcceptedMeans` compares
  `check_operands` with what an instruction needs, one group of opcodes at a time: what
  passes (`Passes`) is what is meaningful and what is wrong in its target of arithmetic
  only. `CheckIsMeaning` compares the two judgements of a whole program: a name that is
  missing or stands twice is a defect of the built program, and nothing else is but an
  instruction that does not pass.
* **Lexer.** `TypeCorrect`: no more lines are behind the cursor than characters, and the
  skipping loops end (`Ends`). `ErrorsMarked`: `Placed` relates the cursor's line and
  column to the number of line breaks before its offset. It holds but for carriage
  returns, which the column leaves out; then one is in the line at a column the position
  reaches, and `Straight` fails. `OnePlace`: a line has each column once. From these each
  kind of token is shown to be delimited where it says (`DInv`), and, as long as there is no
  carriage return, each character behind the cursor to be in exactly one token, or in a
  blank or a comment (`Clean`). For `ErrorShown` carriage returns do not matter: `Placed`
  also says that the column is never too large, so each position is in its line (`Located`),
  and what is printed is about that line and those columns. `RangeOfLine`: counting line
  ends, as `get_line_range` does, finds exactly one range for each line, which begins behind
  the last line break before it. `FInv` adds that the handler was given the position of the
  lexer's error or of a token that is there (`Reported`), for which the parser's cursor must
  stay in the tokens.
* **GenC.** `GInv` says what has been written of each instruction, that calls have
  different numbers, and that these are the numbers below the counter, which counts the
  calls: so a name `__ret_k` is taken exactly if the program has more than k calls
  (`TakenNames`, `FreeNames`). Then every `goto` has one target, and what the compiler asks
  of the text is what `HasC` asks of the program (`LinesCompile`, `CompilesHasC`). `RInv`
  adds that a return address in use is the number of some call: then `ReturnPlace` finds
  that call again, which is what the interpreter's stack holds. `SameRun` has one
  hypothesis. `Agrees`: where C and `program_run` do different things with the next
  instruction, nothing is claimed of what follows: values beyond an int that are divided by
  or printed, two literals of a `cmp` further apart than an int, line breaks in a `msg`, a
  push beyond the interpreter's smaller stack, targets that are no register, `malloc`, and
  memory operands. The programs of `genc_programs` that run agree in every state; some do
  not compile, on purpose.

Only model-checked:

* liveness: `ForwardProgramsHalt`, `SamplesHalt`, `LexerFinishes`, `ParserFinishes`,
  `FrontFinishes` and `InterpFinishes`. They need fairness, which means `ENABLED`, and a
  measure that falls, both out of the prover's reach. Every other property of a passing
  run is a theorem. The properties of the runs that show a violation are false of the code.

Data of any length is reasoned about without induction over it: by an invariant that
grows with it one step at a time, or by the least place at which a claim would fail.

## Findings

1. `div` keeps its divisor in an `int` (interp.h:587): multiples of 2^32 are reported as
   a division by zero, others divide by the low half. Run `vm_divisor`.
2. An error about a line break prints all the source behind it (error.h:108): the
   precision is -1, which `printf` takes for none. Run `front_newline`.
3. The first operand of `mov`, `add`, `sub`, `mul`, `div` is not checked
   (interp.h:406), although tests.c:645 expects the error. Run `check_targets`.
4. `require_operand_types` never resets its static pointer (interp.h:338): a second
   message begins with the first. Run `check_messages`.
5. In a label's body `parser_parse_label` asserts where the top level reports an error
   (parser.h:229). Run `parser_assert`.

## Not modelled

* `main.c` but for the disassembler: it reads a file and prints the result, and calls
  `gen_c` under `if (0)`. Wording, colours and layout of what is printed.
* `alloc_spy.h`: compiled out unless `ALLOC_SPY` is defined, which no build script does.
* `stretchy_buffer.h`: third-party; its arrays are sequences.
* Positions of nodes made of several tokens and of `program_check`'s errors; the lengths
  of messages are kept where they limit something (`MSG_BUF_LEN`, `MAX_MSG`).
* Bytes above 127 other than 255, as `isalpha` and `isdigit` say nothing of negative
  chars.
* `malloc` returning NULL inside the interpreter itself (for nodes and arrays), which
  the code never looks at.
* In the C program: `snprintf`'s limit, escapes in strings other than a line break, and
  strings that close their literal and open another. A target of arithmetic that is an
  address or an integer is taken for a register there; what the program then does is not
  compared with `program_run`.
  Its values differ from the interpreter's where a register does not fit an int: `%d`
  prints 32 bits where `program_run` prints 64, `/=` divides by 64 bits where `program_run`
  keeps 32 of the divisor, and two literals in a `cmp` are subtracted as ints. Nothing in the
  repository says what the C program should do, so `genc_programs` holds programs that
  do none of this.

## Plan

1. What termination rests on, apart from fairness: for each stage a measure in the natural
   numbers that every step but stuttering lowers, as an action property. Then liveness is
   this and `ENABLED` only. The lexer and the parser have the characters or tokens left
   and the place in the grammar; `ForwardProgramsHalt` needs the return addresses too.
2. Memory for every program rather than for the samples: live blocks are apart, and a step
   changes no block but the one it addresses.
