----------------------------- MODULE DataLemmas -----------------------------
(***************************************************************************)
(* Lemmas about integers and sequences that several of the proofs rest on: *)
(* a search of the code takes the first place that fits, and it exists;    *)
(* what two's complement conversion and C's division give; and what        *)
(* FlattenSeq makes of one more sequence.  What a recursive function is    *)
(* for all naturals is shown by the least one at which it is not.          *)
(***************************************************************************)
EXTENDS Words, SequencesExt, SequenceTheorems, WellFoundedInduction, TLAPS

\* A non-empty set of naturals has a least member.
LEMMA Least ==
  ASSUME NEW S \in SUBSET Nat, S # {}
  PROVE  \E l \in S : \A m \in S : l <= m
<1> DEFINE R == OpToRel(<, Nat)
<1>1. IsWellFoundedOn(R, Nat)
  BY NatLessThanWellFounded
<1>2. \A l, m \in Nat : m < l => <<m, l>> \in R
  BY DEF OpToRel
<1> HIDE DEF R
<1>3. PICK l \in S : \A m \in S : <<m, l>> \notin R
  BY <1>1, WFMin
<1>4. ASSUME NEW m \in S PROVE l <= m
  <2>1. ~(m < l)
    BY <1>2, <1>3
  <2> QED
    BY <2>1
<1> QED
  BY <1>4

-----------------------------------------------------------------------------
(* Words *)

LEMMA WrapBounds ==
  ASSUME NEW n \in Int, NEW half \in Nat \ {0}
  PROVE  Wrap(n, half) \in -half .. half - 1
BY DEF Wrap

LEMMA ToWordIsWord == \A n \in Int : ToWord(n) \in Word
BY WrapBounds, WordsAssumption DEF ToWord, Word

\* What fits is not changed.
LEMMA WordUnchanged ==
  ASSUME NEW n \in Word
  PROVE  ToWord(n) = n
<1>1. n + WordHalf \in Nat /\ n + WordHalf < 2 * WordHalf /\ n \in Int /\ WordHalf \in Nat \ {0}
  BY WordsAssumption DEF Word
<1>2. \A x, m \in Nat : x < m => x % m = x
  OBVIOUS
<1>3. (n + WordHalf) % (2 * WordHalf) = n + WordHalf
  BY <1>1, <1>2
<1> QED
  BY <1>1, <1>3 DEF ToWord, Wrap

\* A sum or difference that does not fit is off by the number of words.
LEMMA WrapsOnce ==
  ASSUME NEW w \in Word, NEW n \in {w, w + 2 * WordHalf, w - 2 * WordHalf}
  PROVE  ToWord(n) = w
<1> DEFINE m == 2 * WordHalf
           k == w + WordHalf
<1>1. m \in Nat \ {0} /\ k \in 0 .. m - 1 /\ w = k - WordHalf /\ WordHalf \in Nat \ {0} /\ w \in Int
  BY WordsAssumption DEF Word
<1>2. n + WordHalf \in {k, k + m, k - m}
  BY <1>1
<1>3. ToWord(n) = ((n + WordHalf) % m) - WordHalf
  BY DEF ToWord, Wrap
<1> HIDE DEF m, k
<1>4. k % m = k /\ (k + m) % m = k /\ (k - m) % m = k
  BY <1>1
<1> QED
  BY <1>1, <1>2, <1>3, <1>4

LEMMA WordsWrap ==
  ASSUME NEW n \in Int, -2 * WordHalf < n, n < 2 * WordHalf
  PROVE  ToWord(n) \in {n, n + 2 * WordHalf, n - 2 * WordHalf}
<1>1. WordHalf \in Nat \ {0}
  BY WordsAssumption
<1>2. CASE n \in Word
  BY <1>2, WordUnchanged
<1>3. CASE n >= WordHalf
  <2>1. n - 2 * WordHalf \in Word /\ n = (n - 2 * WordHalf) + 2 * WordHalf
    BY <1>1, <1>3 DEF Word
  <2> QED
    BY <2>1, WrapsOnce
<1>4. CASE n < -WordHalf
  <2>1. n + 2 * WordHalf \in Word /\ n = (n + 2 * WordHalf) - 2 * WordHalf
    BY <1>1, <1>4 DEF Word
  <2> QED
    BY <2>1, WrapsOnce
<1> QED
  BY <1>1, <1>2, <1>3, <1>4 DEF Word

\* A word plus what another exceeds it by is the other, however both wrap.
LEMMA DifferenceAdded ==
  ASSUME NEW x \in Word, NEW y \in Word
  PROVE  ToWord(x + ToWord(y - x)) = y
<1>1. /\ x \in Int /\ y \in Int /\ WordHalf \in Nat
      /\ y - x \in Int /\ -2 * WordHalf < y - x /\ y - x < 2 * WordHalf
  BY WordsAssumption DEF Word
<1>2. ToWord(y - x) \in {y - x, (y - x) + 2 * WordHalf, (y - x) - 2 * WordHalf}
  BY <1>1, WordsWrap
<1> DEFINE d == ToWord(y - x)
<1> HIDE DEF d
<1>3. x + d \in {y, y + 2 * WordHalf, y - 2 * WordHalf}
  BY <1>1, <1>2 DEF d
<1>4. ToWord(x + d) = y
  BY <1>3, WrapsOnce
<1> QED
  BY <1>4 DEF d

LEMMA ToIntIsInt == \A n \in Int : ToInt(n) \in Int
BY WrapBounds, WordsAssumption DEF ToInt

LEMMA DivBounds ==
  ASSUME NEW a \in Nat, NEW b \in Nat \ {0}
  PROVE  /\ a \div b \in Nat
         /\ a \div b <= a
         /\ b >= 2 /\ a > 0 => a \div b < a
OBVIOUS

\* C's quotient of two words is a word, except that of the least by -1.
LEMMA QuotientIsWord ==
  ASSUME NEW a \in Word, NEW d \in Int \ {0}, ~(a = MinWord /\ d = -1)
  PROVE  TruncDiv(a, d) \in Word
<1>1. Abs(a) \in Nat /\ Abs(d) \in Nat \ {0} /\ Abs(a) <= WordHalf
  BY WordsAssumption DEF Abs, Word
<1> DEFINE q == Abs(a) \div Abs(d)
<1>2. /\ q \in Nat /\ q <= Abs(a)
      /\ Abs(d) >= 2 /\ Abs(a) > 0 => q < Abs(a)
  BY <1>1, DivBounds
<1>3. TruncDiv(a, d) = IF (a < 0) = (d < 0) THEN q ELSE -q
  BY DEF TruncDiv
<1> HIDE DEF q
<1>4. CASE (a < 0) = (d < 0)
  <2>1. a < 0 /\ Abs(a) = WordHalf => Abs(d) >= 2
    BY <1>4, WordsAssumption DEF Abs, MinWord, Word
  <2>2. q <= WordHalf - 1
    BY <1>1, <1>2, <2>1, WordsAssumption DEF Abs, Word
  <2> QED
    BY <1>2, <1>3, <1>4, <2>2, WordsAssumption DEF Word
<1>5. CASE (a < 0) # (d < 0)
  BY <1>1, <1>2, <1>3, <1>5, WordsAssumption DEF Word
<1> QED
  BY <1>4, <1>5

-----------------------------------------------------------------------------
(* FlattenSeq *)

\* f holds what FlattenSeq has made of the first n sequences, for each n.
Flattens(f, seqs, n) ==
  f = [k \in 1 .. n |-> IF k = 1 THEN seqs[k] ELSE f[k - 1] \o seqs[k]]

LEMMA FlattensExists ==
  ASSUME NEW seqs, NEW n \in Nat
  PROVE  \E f : Flattens(f, seqs, n)
<1> DEFINE Without == {m \in Nat : ~ \E f : Flattens(f, seqs, m)}
<1>1. ASSUME Without # {} PROVE FALSE
  <2>1. Without \in SUBSET Nat
    OBVIOUS
  <2> HIDE DEF Without
  <2>2. PICK m \in Without : \A k \in Without : m <= k
    BY <1>1, <2>1, Least
  <2>3. m \in Nat
    BY <2>1
  <2>4. CASE m = 0
    <3> DEFINE f == [k \in 1 .. 0 |-> seqs[k]]
    <3>1. f = [k \in 1 .. 0 |-> IF k = 1 THEN seqs[k] ELSE f[k - 1] \o seqs[k]]
      OBVIOUS
    <3>2. Flattens(f, seqs, m)
      BY <2>4, <3>1 DEF Flattens
    <3> QED
      BY <3>2, <2>2 DEF Without
  <2>5. CASE m # 0
    <3>1. m - 1 \in Nat /\ m - 1 \notin Without
      BY <2>2, <2>3, <2>5
    <3>2. PICK g : Flattens(g, seqs, m - 1)
      BY <3>1 DEF Without
    <3> DEFINE f == [k \in 1 .. m |-> IF k < m THEN g[k]
                                      ELSE IF k = 1 THEN seqs[k] ELSE g[k - 1] \o seqs[k]]
    <3>3. ASSUME NEW k \in 1 .. m
          PROVE  f[k] = IF k = 1 THEN seqs[k] ELSE f[k - 1] \o seqs[k]
      <4>1. k # 1 => f[k - 1] = g[k - 1]
        BY <2>3
      <4>2. ASSUME k < m PROVE g[k] = IF k = 1 THEN seqs[k] ELSE g[k - 1] \o seqs[k]
        <5>1. k \in 1 .. m - 1
          BY <2>3, <4>2
        <5> QED
          BY <3>2, <5>1 DEF Flattens
      <4> QED
        BY <4>1, <4>2
    <3>4. f = [k \in 1 .. m |-> f[k]]
      OBVIOUS
    <3> HIDE DEF f
    <3>5. Flattens(f, seqs, m)
      BY <3>3, <3>4 DEF Flattens
    <3> QED
      BY <3>5, <2>2 DEF Without
  <2> QED
    BY <2>4, <2>5
<1> QED
  BY <1>1

\* Two of them agree as far as both go.
LEMMA FlattensAgree ==
  ASSUME NEW f, NEW g, NEW seqs, NEW more, NEW n \in Nat, NEW m \in Nat, n <= m,
         Flattens(f, seqs, n), Flattens(g, more, m),
         \A k \in 1 .. n : more[k] = seqs[k]
  PROVE  \A k \in 1 .. n : f[k] = g[k]
<1> DEFINE Differ == {k \in 1 .. n : f[k] # g[k]}
<1>1. ASSUME Differ # {} PROVE FALSE
  <2>1. Differ \in SUBSET Nat
    OBVIOUS
  <2>2. \A k \in Differ : k \in 1 .. n /\ f[k] # g[k]
    OBVIOUS
  <2>3. \A k \in 1 .. n : k \notin Differ => f[k] = g[k]
    OBVIOUS
  <2> HIDE DEF Differ
  <2>4. PICK k \in Differ : \A j \in Differ : k <= j
    BY <1>1, <2>1, Least
  <2>5. k \in 1 .. n /\ k \in 1 .. m
    BY <2>2
  <2>6. f[k] = IF k = 1 THEN seqs[k] ELSE f[k - 1] \o seqs[k]
    BY <2>5 DEF Flattens
  <2>7. g[k] = IF k = 1 THEN more[k] ELSE g[k - 1] \o more[k]
    BY <2>5 DEF Flattens
  <2>8. k # 1 => k - 1 \in 1 .. n /\ k - 1 \notin Differ
    BY <2>4, <2>5
  <2> QED
    BY <2>2, <2>3, <2>4, <2>5, <2>6, <2>7, <2>8
<1> QED
  BY <1>1

LEMMA FlattenIs ==
  ASSUME NEW seqs, Len(seqs) \in Nat \ {0}, NEW f, Flattens(f, seqs, Len(seqs))
  PROVE  FlattenSeq(seqs) = f[Len(seqs)]
<1> DEFINE n == Len(seqs)
           g == CHOOSE h : Flattens(h, seqs, n)
<1>1. FlattenSeq(seqs) = g[n]
  BY DEF FlattenSeq, Flattens
<1>2. Flattens(g, seqs, n)
  OBVIOUS
<1> HIDE DEF g
<1>3. \A k \in 1 .. n : f[k] = g[k]
  BY <1>2, FlattensAgree
<1> QED
  BY <1>1, <1>3

LEMMA FlattenNone == FlattenSeq(<< >>) = << >>
BY DEF FlattenSeq

LEMMA FlattenType ==
  ASSUME NEW S, NEW seqs \in Seq(Seq(S))
  PROVE  FlattenSeq(seqs) \in Seq(S)
<1> DEFINE n == Len(seqs)
<1>1. CASE seqs = << >>
  <2>1. << >> \in Seq(S)
    OBVIOUS
  <2> QED
    BY <1>1, <2>1, FlattenNone
<1>2. CASE seqs # << >>
  <2>1. n \in Nat \ {0} /\ \A k \in 1 .. n : seqs[k] \in Seq(S)
    BY <1>2
  <2>2. PICK f : Flattens(f, seqs, n)
    BY <2>1, FlattensExists
  <2> DEFINE Untyped == {k \in 1 .. n : f[k] \notin Seq(S)}
  <2>3. ASSUME Untyped # {} PROVE FALSE
    <3>1. Untyped \in SUBSET Nat
      OBVIOUS
    <3>2. \A k \in 1 .. n : k \in Untyped <=> f[k] \notin Seq(S)
      OBVIOUS
    <3>3. Untyped \subseteq 1 .. n
      OBVIOUS
    <3> HIDE DEF Untyped
    <3>4. PICK k \in Untyped : \A j \in Untyped : k <= j
      BY <2>3, <3>1, Least
    <3>5. k \in 1 .. n
      BY <3>3, <3>4
    <3>6. f[k] = IF k = 1 THEN seqs[k] ELSE f[k - 1] \o seqs[k]
      BY <2>2, <3>5 DEF Flattens
    <3>7. k # 1 => k - 1 \in 1 .. n /\ f[k - 1] \in Seq(S)
      BY <3>2, <3>4, <3>5
    <3>8. f[k] \in Seq(S)
      BY <2>1, <3>5, <3>6, <3>7
    <3> QED
      BY <3>2, <3>4, <3>5, <3>8
  <2>4. n \in 1 .. n /\ f[n] \in Seq(S)
    BY <2>1, <2>3
  <2>5. FlattenSeq(seqs) = f[n]
    BY <2>1, <2>2, FlattenIs
  <2> QED
    BY <2>4, <2>5
<1> QED
  BY <1>1, <1>2

LEMMA FlattenAppend ==
  ASSUME NEW S, NEW seqs \in Seq(Seq(S)), NEW s \in Seq(S)
  PROVE  FlattenSeq(Append(seqs, s)) = FlattenSeq(seqs) \o s
<1> DEFINE n == Len(seqs)
           more == Append(seqs, s)
<1>1. /\ n \in Nat /\ Len(more) = n + 1 /\ more[n + 1] = s
      /\ \A k \in 1 .. n : more[k] = seqs[k]
  OBVIOUS
<1> HIDE DEF more
<1> HIDE DEF n
<1>7. n + 1 \in Nat \ {0} /\ n + 1 \in 1 .. n + 1 /\ n + 1 - 1 = n
  BY <1>1
<1>2. PICK g : Flattens(g, more, n + 1)
  BY <1>7, FlattensExists
<1>3. FlattenSeq(more) = g[n + 1]
  BY <1>1, <1>2, <1>7, FlattenIs
<1>4. g[n + 1] = IF n + 1 = 1 THEN more[n + 1] ELSE g[n] \o more[n + 1]
  <2>1. \A k \in 1 .. n + 1 : g[k] = IF k = 1 THEN more[k] ELSE g[k - 1] \o more[k]
    BY <1>2 DEF Flattens
  <2> DEFINE k == n + 1
  <2>2. k \in 1 .. n + 1 /\ k = n + 1 /\ k - 1 = n
    BY <1>1
  <2> HIDE DEF k
  <2>3. g[k] = IF k = 1 THEN more[k] ELSE g[k - 1] \o more[k]
    BY <2>1, <2>2, Zenon
  <2> QED
    BY <2>2, <2>3, Zenon
<1>5. CASE n = 0
  <2>1. seqs = << >>
    BY <1>5 DEF n
  <2> QED
    BY <1>1, <1>3, <1>4, <1>5, <2>1, FlattenNone DEF more
<1>6. CASE n # 0
  <2>1. PICK f : Flattens(f, seqs, n)
    BY <1>1, FlattensExists
  <2>2. FlattenSeq(seqs) = f[n]
    BY <1>1, <1>6, <2>1, FlattenIs DEF n
  <2>3. \A k \in 1 .. n : f[k] = g[k]
    BY <1>1, <1>2, <2>1, FlattensAgree
  <2>4. n + 1 # 1 /\ n \in 1 .. n
    BY <1>1, <1>6
  <2>5. FlattenSeq(more) = FlattenSeq(seqs) \o s
    BY <1>1, <1>3, <1>4, <2>2, <2>3, <2>4
  <2> QED
    BY <2>5 DEF more
<1> QED
  BY <1>5, <1>6

-----------------------------------------------------------------------------
(* Division *)

LEMMA DivisionIs ==
  ASSUME NEW n \in Nat, NEW m \in Nat \ {0}
  PROVE  /\ n \div m \in Nat /\ n % m \in 0 .. m - 1
         /\ m * (n \div m) = n - (n % m)
OBVIOUS

LEMMA MultipleDivides ==
  ASSUME NEW k \in Int, NEW m \in Nat \ {0}
  PROVE  (m * k) % m = 0
<1> DEFINE n == m * k
           t == n \div m
           r == n % m
<1>1. n \in Int /\ t \in Int /\ r \in 0 .. m - 1 /\ n = m * t + r
  OBVIOUS
<1> HIDE DEF t, r
<1>2. r = m * (k - t) /\ k - t \in Int
  BY <1>1
<1>3. \A j \in Int : m * j \in 0 .. m - 1 => m * j = 0
  <2> SUFFICES ASSUME NEW j \in Int, m * j \in 0 .. m - 1 PROVE m * j = 0
    OBVIOUS
  <2>1. CASE j >= 1
    <3>1. m * j >= m
      BY <2>1
    <3> QED
      BY <3>1
  <2>2. CASE j <= -1
    <3>1. m * j < 0
      BY <2>2
    <3> QED
      BY <3>1
  <2>3. CASE j = 0
    BY <2>3
  <2> QED
    BY <2>1, <2>2, <2>3
<1>4. r = 0
  BY <1>1, <1>2, <1>3
<1> QED
  BY <1>4 DEF r

\* What is left of C's division has the sign of the dividend.
LEMMA RemainderIs ==
  ASSUME NEW x \in Int, NEW y \in Int \ {0}
  PROVE  LET p == TruncDiv(x, y) * y
             d == x - p
         IN  /\ TruncDiv(x, y) \in Int
             /\ IF x < 0 THEN p \in x .. 0 /\ d \in x .. 0 ELSE p \in 0 .. x /\ d \in 0 .. x
             /\ Abs(d) < Abs(y)
             /\ (x - d) % Abs(y) = 0
<1> DEFINE n == Abs(x)
           m == Abs(y)
           q == n \div m
           r == n % m
           p == TruncDiv(x, y) * y
           d == x - p
<1>1. n \in Nat /\ m \in Nat \ {0}
  BY DEF Abs
<1>2. q \in Nat /\ r \in 0 .. m - 1 /\ m * q = n - r
  BY <1>1, DivisionIs
<1>3. TruncDiv(x, y) = IF (x < 0) = (y < 0) THEN q ELSE -q
  BY DEF TruncDiv
<1> HIDE DEF q, r
<1>4. p = IF x < 0 THEN -(m * q) ELSE m * q
  <2>1. CASE (x < 0) = (y < 0)
    BY <1>1, <1>2, <1>3, <2>1 DEF Abs
  <2>2. CASE (x < 0) # (y < 0)
    BY <1>1, <1>2, <1>3, <2>2 DEF Abs
  <2> QED
    BY <2>1, <2>2
<1>5. p = IF x < 0 THEN -(n - r) ELSE n - r
  BY <1>2, <1>4
<1>6. m * q >= 0
  BY <1>1, <1>2
<1>7. n - r \in 0 .. n
  BY <1>1, <1>2, <1>6
<1>8. TruncDiv(x, y) \in Int
  BY <1>2, <1>3
<1>9. IF x < 0 THEN p \in x .. 0 /\ d \in x .. 0 ELSE p \in 0 .. x /\ d \in 0 .. x
  BY <1>1, <1>5, <1>7 DEF Abs
<1>10. Abs(d) < m
  BY <1>1, <1>2, <1>5 DEF Abs
<1>11. (x - d) % m = 0
  <2>1. x - d = p
    BY <1>9
  <2> DEFINE k == IF x < 0 THEN -q ELSE q
  <2>2. p = m * k /\ k \in Int
    BY <1>1, <1>2, <1>4
  <2> HIDE DEF k, p, d, m
  <2> QED
    BY <1>1, <2>1, <2>2, MultipleDivides
<1> QED
  BY <1>8, <1>9, <1>10, <1>11

\* An int keeps what fits.
LEMMA IntUnchanged ==
  ASSUME NEW n \in -IntHalf .. IntHalf - 1
  PROVE  ToInt(n) = n
<1>1. n + IntHalf \in Nat /\ n + IntHalf < 2 * IntHalf /\ n \in Int /\ IntHalf \in Nat \ {0}
  BY WordsAssumption
<1>2. \A x, m \in Nat : x < m => x % m = x
  OBVIOUS
<1>3. (n + IntHalf) % (2 * IntHalf) = n + IntHalf
  BY <1>1, <1>2
<1> QED
  BY <1>1, <1>3 DEF ToInt, Wrap

\* A program that may be run has literals that are words and registers that exist.

LEMMA DividesIs ==
  ASSUME NEW n \in Int, NEW k \in Nat \ {0}
  PROVE  n % k = 0 <=> \E m \in Int : n = k * m
<1>1. n = k * (n \div k) + (n % k) /\ n \div k \in Int /\ n % k \in 0 .. k - 1
  OBVIOUS
<1>2. ASSUME n % k = 0 PROVE \E m \in Int : n = k * m
  <2>1. n = k * (n \div k)
    BY <1>1, <1>2
  <2> QED
    BY <1>1, <2>1
<1>3. ASSUME NEW m \in Int, n = k * m PROVE n % k = 0
  BY <1>3, MultipleDivides
<1> QED
  BY <1>2, <1>3

LEMMA DifferenceDivides ==
  ASSUME NEW a \in Int, NEW b \in Int, NEW k \in Nat \ {0}, a % k = 0, b % k = 0
  PROVE  (a - b) % k = 0 /\ (a + b) % k = 0 /\ (-a) % k = 0
<1>1. PICK m \in Int : a = k * m
  BY DividesIs
<1>2. PICK n \in Int : b = k * n
  BY DividesIs
<1>3. a - b = k * (m - n) /\ a + b = k * (m + n) /\ -a = k * (-m)
  BY <1>1, <1>2
<1>4. \A j \in Int : \A c : c = k * j => c % k = 0
  BY MultipleDivides, ZenonT(30)
<1>5. m - n \in Int /\ m + n \in Int /\ -m \in Int
  OBVIOUS
<1> QED
  BY <1>3, <1>4, <1>5, ZenonT(30)
=============================================================================
