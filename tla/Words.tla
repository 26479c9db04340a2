------------------------------- MODULE Words -------------------------------
(***************************************************************************)
(* The two's complement integers of the interpreter.  Registers, the       *)
(* comparison result, stack slots and memory words are int64_t; the        *)
(* divisor of a DIV is an int.  WordHalf stands for 2^63 and IntHalf for   *)
(* 2^31, so that a model can use narrow words and still overflow.          *)
(***************************************************************************)
EXTENDS Integers

CONSTANTS
  WordHalf,  \* an int64_t is in -WordHalf .. WordHalf - 1
  IntHalf    \* an int is in -IntHalf .. IntHalf - 1

ASSUME WordsAssumption ==
  /\ WordHalf \in Nat \ {0}
  /\ IntHalf \in Nat \ {0}

Word == -WordHalf .. WordHalf - 1

MinWord == -WordHalf

\* The value left in a two's complement integer of 2 * half values when it is
\* given n.  Signed overflow is undefined in C; the additions, subtractions and
\* multiplications of program_run act on run-time data, and the machine
\* instructions both builds emit for them wrap.
Wrap(n, half) == ((n + half) % (2 * half)) - half

ToWord(n) == Wrap(n, WordHalf)

\* int d = <int64_t>;
ToInt(n) == Wrap(n, IntHalf)

Abs(n) == IF n < 0 THEN -n ELSE n

\* Mutant of TruncDiv: a quotient rounded down.
FloorDiv(a, b) == IF b > 0 THEN a \div b ELSE (-a) \div (-b)

\* C's division truncates towards zero.
TruncDiv(a, b) ==
  LET q == Abs(a) \div Abs(b)
  IN  IF (a < 0) = (b < 0) THEN q ELSE -q
=============================================================================
