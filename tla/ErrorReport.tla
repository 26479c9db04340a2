----------------------------- MODULE ErrorReport -----------------------------
(***************************************************************************)
(* What the default error handler prints of a position: the line it is in, *)
(* with the marked part, and carets below it.  printf's "%.*s" prints the  *)
(* string up to its end when the precision is negative.                    *)
(***************************************************************************)
EXTENDS Integers, SequencesExt

CONSTANTS
  LineFeed,
  CARETS  \* 44: the length of the string the carets are printed from

\* The places of the line feeds, and the end of the source.
LineEnds(code) == {o \in 0 .. Len(code) : o = Len(code) \/ code[o + 1] = LineFeed}

\* The ranges of the lines that have so many line feeds before them.
LineRanges(code, feeds) ==
  {r \in [line_start : 0 .. Len(code), line_end : LineEnds(code)] :
     LET before == {o \in LineEnds(code) : o < r.line_end}
     IN  /\ Cardinality(before) = feeds
         /\ r.line_start = Max({-1} \cup before) + 1}

\* Mutant of get_line_range: lines are counted from 0.
get_line_range_from_0(code, line) == LineRanges(code, line)

\* Where a line starts and ends, if there is such a line.
get_line_range(code, line) == LineRanges(code, line - 1)

\* printf("%.*s", precision, code + o)
Printed(code, o, precision) ==
  SubSeq(code, o + 1, IF precision < 0 THEN Len(code) ELSE Min({o + precision, Len(code)}))

\* line_size - pos->col_end
RestOfLine(r, pos) == r.line_end - r.line_start - pos.col_end

\* print_location: the parts of the two lines it prints, or none.
print_location(code, pos) ==
  {[before |-> Printed(code, r.line_start, pos.col_start),
    marked |-> Printed(code, r.line_start + pos.col_start, pos.col_end - pos.col_start),
    after  |-> Printed(code, r.line_start + pos.col_end, RestOfLine(r, pos)),
    indent |-> 2 + pos.col_start,
    carets |-> Min({pos.col_end - pos.col_start, CARETS})] :
     r \in IF pos.line_number = 0 THEN {} ELSE get_line_range(code, pos.line_number)}
=============================================================================
