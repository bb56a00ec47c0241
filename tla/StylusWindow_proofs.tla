------------------------ MODULE StylusWindow_proofs -------------------------
(* The peak and the coordinate of StylusWindow, for every size of the window, *)
(* every threshold and every width of int16_t.  The sums and the flood fill   *)
(* are folds over sets.  What they compute is shown by induction, stated for  *)
(* a set of numbers instead of a predicate: the numbers that have a property  *)
(* include 0 and with a number the next one, so they are all of Nat.          *)
EXTENDS StylusWindowInv, FiniteSetTheorems, WellFoundedInduction, TLAPS

----------------------------------------------------------------------------
\* Induction and recursion

\* A set that holds 0 and with a number the next one holds every number.
LEMMA NatBySet ==
    ASSUME NEW S, 0 \in S, \A n \in Nat : n \in S => n + 1 \in S
    PROVE  Nat \subseteq S
<1> DEFINE T == Nat \ S
           R == {p \in Nat \X Nat : p[1] < p[2]}
<1>1. SUFFICES ASSUME T # {} PROVE FALSE
  OBVIOUS
<1>2. IsWellFoundedOn(R, Nat)
  BY NatLessThanWellFounded, Zenon DEF OpToRel
<1>3. PICK x \in T : \A y \in T : <<y, x>> \notin R
  <2>1. T \subseteq Nat
    OBVIOUS
  <2> HIDE DEF R, T
  <2> QED
    BY <1>1, <1>2, <2>1, WFMin, Zenon
<1>4. x - 1 \in T
  <2>1. x # 0
    OBVIOUS
  <2>2. x - 1 \in Nat
    BY <2>1
  <2> QED
    BY <2>2
<1>5. <<x - 1, x>> \in R
  BY <1>4
<1> QED
  BY <1>3, <1>4, <1>5

\* The recursion of a fold over a finite set S: choose picks an element, and
\* step combines it with the value of the rest.
IsFold(it, S, base, choose, step) ==
    it = [s \in SUBSET S |-> IF s = {} THEN base ELSE step[<<choose[s], it[s \ {choose[s]}]>>]]

Picks(S) == {choose \in [(SUBSET S) \ {{}} -> S] : \A s \in (SUBSET S) \ {{}} : choose[s] \in s}

\* Such a recursion has a solution, and its values are in the range of step.
LEMMA FoldExists ==
    ASSUME NEW S, IsFiniteSet(S), NEW V, NEW base \in V,
           NEW choose \in Picks(S), NEW step \in [S \X V -> V]
    PROVE  \E it \in [SUBSET S -> V] : IsFold(it, S, base, choose, step)
<1> DEFINE Upto(n) == {s \in SUBSET S : Cardinality(s) <= n}
           Solves(h, n) == \A s \in Upto(n) :
              h[s] = IF s = {} THEN base ELSE step[<<choose[s], h[s \ {choose[s]}]>>]
           N == {n \in Nat : \E h \in [Upto(n) -> V] : Solves(h, n)}
<1>1. \A s \in SUBSET S : IsFiniteSet(s) /\ Cardinality(s) \in Nat
  BY FS_Subset, FS_CardinalityType
<1>2. \A s \in (SUBSET S) \ {{}} : choose[s] \in s /\ choose[s] \in S
  BY DEF Picks
<1>3. \A n \in Nat : \A s \in Upto(n + 1) : s # {} => s \ {choose[s]} \in Upto(n)
  BY <1>1, <1>2, FS_RemoveElement
<1>4. 0 \in N
  <2> DEFINE h == [s \in Upto(0) |-> base]
  <2>1. \A s \in Upto(0) : s = {}
    BY <1>1, FS_EmptySet
  <2>2. h \in [Upto(0) -> V] /\ Solves(h, 0)
    BY <2>1
  <2> QED
    BY <2>2
<1>5. ASSUME NEW n \in Nat, n \in N PROVE n + 1 \in N
  <2>1. PICK h \in [Upto(n) -> V] : Solves(h, n)
    BY <1>5
  <2> DEFINE k == [s \in Upto(n + 1) |->
                     IF s = {} THEN base ELSE step[<<choose[s], h[s \ {choose[s]}]>>]]
  <2>2. k \in [Upto(n + 1) -> V]
    <3>1. ASSUME NEW s \in Upto(n + 1), s # {}
          PROVE  step[<<choose[s], h[s \ {choose[s]}]>>] \in V
      <4>1. s \ {choose[s]} \in Upto(n)
        BY <1>3, <3>1
      <4>2. h[s \ {choose[s]}] \in V
        BY <2>1, <4>1
      <4>3. choose[s] \in S
        BY <1>2, <3>1
      <4> QED
        BY <4>2, <4>3
    <3> QED
      BY <3>1
  <2>3. \A s \in Upto(n) : s \in Upto(n + 1) /\ k[s] = h[s]
    <3>1. \A s \in Upto(n) : s \in Upto(n + 1)
      BY <1>1
    <3> QED
      BY <2>1, <3>1
  <2>4. Solves(k, n + 1)
    BY <1>3, <2>3
  <2>5. \E g \in [Upto(n + 1) -> V] : Solves(g, n + 1)
    <3> HIDE DEF Upto, Solves, k
    <3> QED
      BY <2>2, <2>4
  <2>6. n + 1 \in Nat
    OBVIOUS
  <2> HIDE DEF Upto, Solves, k
  <2> QED
    BY <2>5, <2>6
<1>6. Nat \subseteq N
  <2> HIDE DEF N
  <2> QED
    BY <1>4, <1>5, NatBySet
<1>7. PICK h \in [Upto(Cardinality(S)) -> V] : Solves(h, Cardinality(S))
  BY <1>1, <1>6, FS_CardinalityType
<1>8. Upto(Cardinality(S)) = SUBSET S
  BY FS_Subset
<1>9. h = [s \in SUBSET S |-> IF s = {} THEN base ELSE step[<<choose[s], h[s \ {choose[s]}]>>]]
  BY <1>7, <1>8
<1> QED
  BY <1>7, <1>8, <1>9 DEF IsFold

\* Induction over the subsets of a finite set, by taking one element away.
LEMMA BySubsets ==
    ASSUME NEW S, IsFiniteSet(S), NEW choose \in Picks(S),
           NEW P, {} \in P, \A s \in (SUBSET S) \ {{}} : s \ {choose[s]} \in P => s \in P
    PROVE  SUBSET S \subseteq P
<1> DEFINE N == {n \in Nat : \A s \in SUBSET S : Cardinality(s) <= n => s \in P}
<1>1. \A s \in SUBSET S : IsFiniteSet(s) /\ Cardinality(s) \in Nat
  BY FS_Subset, FS_CardinalityType
<1>2. 0 \in N
  <2>1. \A s \in SUBSET S : Cardinality(s) <= 0 => s = {}
    BY <1>1, FS_EmptySet
  <2> QED
    BY <2>1
<1>3. ASSUME NEW n \in Nat, n \in N PROVE n + 1 \in N
  <2>1. ASSUME NEW s \in SUBSET S, Cardinality(s) <= n + 1, s # {} PROVE s \in P
    <3>1. choose[s] \in s
      BY <2>1 DEF Picks
    <3>2. s \ {choose[s]} \in SUBSET S /\ Cardinality(s \ {choose[s]}) <= n
      <4>1. Cardinality(s \ {choose[s]}) = Cardinality(s) - 1
        BY <1>1, <3>1, FS_RemoveElement
      <4>2. Cardinality(s) \in Nat
        BY <1>1
      <4> QED
        BY <2>1, <4>1, <4>2
    <3> QED
      BY <1>3, <2>1, <3>2
  <2>2. \A s \in SUBSET S : Cardinality(s) <= n + 1 => s \in P
    BY <2>1
  <2> QED
    BY <2>2
<1>4. Nat \subseteq N
  <2> HIDE DEF N
  <2> QED
    BY <1>2, <1>3, NatBySet
<1> QED
  BY <1>1, <1>4

----------------------------------------------------------------------------
\* Sums

\* The recursion of MapThenSumSet, for the values v.
IsSum(it, S, v) ==
    it = [s \in SUBSET S |-> IF s = {} THEN 0
             ELSE v[CHOOSE x \in s : TRUE] + it[s \ {CHOOSE x \in s : TRUE}]]

\* The sum of integers over a finite set is one.
LEMMA SumIsInteger ==
    ASSUME NEW S, IsFiniteSet(S), NEW v \in [S -> Int]
    PROVE  /\ \E it : IsSum(it, S, v)
           /\ \A it : IsSum(it, S, v) => it[S] \in Int
<1> DEFINE choose == [s \in (SUBSET S) \ {{}} |-> CHOOSE x \in s : TRUE]
           step   == [p \in S \X Int |-> v[p[1]] + p[2]]
<1>1. \A s \in (SUBSET S) \ {{}} : choose[s] = (CHOOSE x \in s : TRUE) /\ choose[s] \in s
  OBVIOUS
<1>2. choose \in Picks(S)
  BY <1>1 DEF Picks
<1>3. \A x \in S, m \in Int : v[x] + m \in Int /\ step[<<x, m>>] = v[x] + m
  OBVIOUS
<1>4. step \in [S \X Int -> Int]
  OBVIOUS
<1> HIDE DEF choose, step
<1>5. PICK it \in [SUBSET S -> Int] : IsFold(it, S, 0, choose, step)
  <2>1. 0 \in Int
    OBVIOUS
  <2> QED
    BY <1>2, <1>4, <2>1, FoldExists, Zenon
<1>6. \A s \in (SUBSET S) \ {{}} :
         it[s] = v[CHOOSE x \in s : TRUE] + it[s \ {CHOOSE x \in s : TRUE}]
  <2> TAKE s \in (SUBSET S) \ {{}}
  <2>1. choose[s] \in S /\ it[s \ {choose[s]}] \in Int
    BY <1>1
  <2>2. it[s] = step[<<choose[s], it[s \ {choose[s]}]>>]
    BY <1>5 DEF IsFold
  <2>3. it[s] = v[choose[s]] + it[s \ {choose[s]}]
    BY <1>3, <2>1, <2>2
  <2> QED
    BY <1>1, <2>3
<1>7. it[{}] = 0
  BY <1>5 DEF IsFold
<1>8. IsSum(it, S, v)
  BY <1>6, <1>7 DEF IsSum
<1>9. ASSUME NEW f, IsSum(f, S, v) PROVE f[S] \in Int
  <2> DEFINE P == {s \in SUBSET S : f[s] \in Int}
  <2>1. {} \in P
    BY <1>9 DEF IsSum
  <2>2. ASSUME NEW s \in (SUBSET S) \ {{}}, f[s \ {choose[s]}] \in Int PROVE f[s] \in Int
    <3>1. f[s] = v[choose[s]] + f[s \ {choose[s]}]
      BY <1>1, <1>9 DEF IsSum
    <3>2. choose[s] \in S
      BY <1>1
    <3> QED
      BY <1>3, <2>2, <3>1, <3>2
  <2>3. \A s \in (SUBSET S) \ {{}} : s \ {choose[s]} \in P => s \in P
    BY <2>2
  <2>4. SUBSET S \subseteq P
    <3> HIDE DEF P
    <3> QED
      BY <1>2, <2>1, <2>3, BySubsets
  <2> QED
    BY <2>4
<1> QED
  BY <1>8, <1>9

\* A window has finitely many lines and cells, and an integer in each cell.
LEMMA Window ==
    /\ Lines \subseteq Nat /\ IsFiniteSet(Lines) /\ IsFiniteSet(Cells)
    /\ \A g \in Grids : g \in [Cells -> Int]
<1>1. Lines \subseteq Nat /\ IsFiniteSet(Lines)
  BY GridAssumption, FS_Interval DEF Lines
<1>2. IsFiniteSet(Cells)
  BY <1>1, FS_Product DEF Cells
<1>3. ASSUME NEW g \in Grids PROVE g \in [Cells -> Int]
  <2>1. g \in [Cells -> -Half .. Half - 1]
    BY GridAssumption DEF Cells, Lines
  <2> QED
    BY <2>1, GridAssumption
<1> QED
  BY <1>1, <1>2, <1>3

\* The sum of a line or of a cell's neighbours is an integer.
LEMMA TotalIsInteger ==
    ASSUME NEW S, IsFiniteSet(S), NEW v \in [S -> Int]
    PROVE  Total(v) \in Int
<1> DEFINE F(it) == [s \in SUBSET S |-> IF s = {} THEN 0
                       ELSE v[CHOOSE x \in s : TRUE] + it[s \ {CHOOSE x \in s : TRUE}]]
           it == CHOOSE it : it = F(it)
<1>1. Total(v) = it[S]
  <2>1. DOMAIN v = S
    OBVIOUS
  <2> QED
    BY <2>1 DEF Total, MapThenSumSet, MapThenFoldSet
<1>2. \A f : IsSum(f, S, v) <=> f = F(f)
  BY DEF IsSum
<1> HIDE DEF F
<1>3. \E f : f = F(f)
  BY <1>2, SumIsInteger
<1>4. it = F(it)
  BY <1>3
<1> HIDE DEF it
<1>5. IsSum(it, S, v)
  BY <1>2, <1>4
<1> QED
  BY <1>1, <1>5, SumIsInteger

\* The sums around a cell and both projections are integers.
LEMMA SumsAreIntegers ==
    ASSUME NEW g \in [Cells -> Int], NEW a \in Cells
    PROVE  /\ Sum3x3(g, a) \in Int
           /\ Dim1(g, a) \in [Lines -> Int]
           /\ Dim2(g, a) \in [Lines -> Int]
<1>1. Sum3x3(g, a) \in Int
  <2> DEFINE S == {b \in Cells : Near(a, b, 1)}
             v == [b \in S |-> g[b]]
  <2>1. IsFiniteSet(S) /\ v \in [S -> Int]
    BY Window, FS_Subset
  <2>2. Total(v) \in Int
    <3> HIDE DEF S, v
    <3> QED
      BY <2>1, TotalIsInteger
  <2> QED
    BY <2>2 DEF Sum3x3
<1>2. \A i : IsFiniteSet(NearLines(i)) /\ NearLines(i) \subseteq Lines
  BY Window, FS_Subset DEF NearLines
<1>3. ASSUME NEW c \in Lines PROVE Total([r \in NearLines(a[1]) |-> g[<<r, c>>]]) \in Int
  <2> DEFINE v == [r \in NearLines(a[1]) |-> g[<<r, c>>]]
  <2>1. v \in [NearLines(a[1]) -> Int]
    BY <1>2 DEF Cells
  <2> HIDE DEF v
  <2>2. Total(v) \in Int
    BY <1>2, <2>1, TotalIsInteger
  <2> QED
    BY <2>2 DEF v
<1>4. ASSUME NEW r \in Lines PROVE Total([c \in NearLines(a[2]) |-> g[<<r, c>>]]) \in Int
  <2> DEFINE v == [c \in NearLines(a[2]) |-> g[<<r, c>>]]
  <2>1. v \in [NearLines(a[2]) -> Int]
    BY <1>2 DEF Cells
  <2> HIDE DEF v
  <2>2. Total(v) \in Int
    BY <1>2, <2>1, TotalIsInteger
  <2> QED
    BY <2>2 DEF v
<1> QED
  BY <1>1, <1>3, <1>4 DEF Dim1, Dim2

----------------------------------------------------------------------------
\* The solver

\* C++'s division of a natural number by d is in 0 .. u if that is at most d * u.
LEMMA QuotientBounds ==
    ASSUME NEW a \in Nat, NEW d \in Nat \ {0}, NEW u \in Nat, a <= d * u
    PROVE  Quotient(a, d) \in 0 .. u
<1> DEFINE q == a \div d
<1>1. q \in Nat /\ a = d * q + (a % d) /\ a % d \in Nat
  OBVIOUS
<1> HIDE DEF q
<1>2. ASSUME q > u PROVE FALSE
  <2>1. PICK k \in Nat : q = u + 1 + k
    <3>1. q - u - 1 \in Nat
      BY <1>1, <1>2
    <3> QED
      BY <1>1, <3>1
  <2>2. d * q = d * u + d + d * k
    BY <2>1
  <2>3. d * k \in Nat /\ d * u \in Nat
    BY <2>1
  <2> QED
    BY <1>1, <2>2, <2>3
<1> QED
  BY <1>1, <1>2 DEF Quotient, q

\* Between neighbours no higher than the peak the offset is in the cell.
LEMMA TriangleInCell ==
    ASSUME NEW l \in Int, NEW p \in Int, NEW r \in Int, l <= p, r <= p
    PROVE  TriangleAlgUsing3Point(l, p, r) \in 0 .. Unit
<1> DEFINE base  == IF r < l THEN r ELSE l
           floor == IF p <= base THEN p - 1 ELSE base
           n     == (IF r < l THEN l ELSE r) - floor
           d     == p - floor
           slope == Quotient(Quotient(n * Unit, d), 2)
<1>1. Unit \in Nat \ {0}
  BY GridAssumption
<1>2. n \in Nat /\ d \in Nat \ {0} /\ n <= d
  OBVIOUS
<1>3. TriangleAlgUsing3Point(l, p, r) = Unit \div 2 + (IF r < l THEN -slope ELSE slope)
  BY DEF TriangleAlgUsing3Point
<1> HIDE DEF n, d
<1>4. n * Unit \in Nat /\ n * Unit <= d * Unit
  <2>1. PICK k \in Nat : d = n + k
    <3>1. d - n \in Nat
      BY <1>2
    <3> QED
      BY <1>2, <3>1
  <2>2. d * Unit = n * Unit + k * Unit
    BY <1>1, <1>2, <2>1
  <2> QED
    BY <1>1, <1>2, <2>1, <2>2
<1>5. Quotient(n * Unit, d) \in 0 .. Unit
  BY <1>1, <1>2, <1>4, QuotientBounds
<1> DEFINE q == Quotient(n * Unit, d)
<1> HIDE DEF q
<1>6. Quotient(q, 2) \in 0 .. Unit \div 2
  BY <1>1, <1>5 DEF q, Quotient
<1>7. slope \in 0 .. Unit \div 2
  BY <1>6 DEF q
<1> HIDE DEF slope
<1> QED
  BY <1>1, <1>3, <1>7

\* So is the offset at an edge, whatever its virtual neighbour wraps to.
LEMMA EdgeInCell ==
    ASSUME NEW p \in Int, NEW n1 \in Int, NEW n2 \in Int, n1 <= p
    PROVE  TriangleAlgEdge(p, n1, n2) \in 0 .. Unit
<1> DEFINE v == VirtualNeighbor(p, n1, n2)
<1>1. Quotient(n1 - n2, 10) \in Int
  BY DEF Quotient
<1>2. v \in Int
  BY <1>1, GridAssumption DEF VirtualNeighbor, ToInt16
<1> HIDE DEF v
<1>3. BelowPeak(v, p) \in Int /\ BelowPeak(v, p) <= p
  BY <1>2 DEF BelowPeak
<1>4. TriangleAlgUsing3Point(BelowPeak(v, p), p, n1) \in 0 .. Unit
  BY <1>3, TriangleInCell
<1> QED
  BY <1>4, GridAssumption DEF TriangleAlgEdge, v

\* A line of integers has a first greatest value.
LEMMA FirstGreatest ==
    ASSUME NEW signal \in [Lines -> Int]
    PROVE  \E i \in Lines : /\ \A j \in Lines : signal[j] <= signal[i]
                            /\ \A j \in Lines : signal[j] = signal[i] => i <= j
<1> DEFINE Leads(i, n) == \A j \in 0 .. n : \/ signal[j] < signal[i]
                                            \/ signal[j] = signal[i] /\ i <= j
           N == {n \in Nat : n < Dim => \E i \in 0 .. n : Leads(i, n)}
<1>0. Dim \in Nat /\ Dim >= 3 /\ Lines = 0 .. Dim - 1
  BY GridAssumption DEF Lines
<1>1. 0 \in N
  <2>1. 0 \in 0 .. 0 /\ Leads(0, 0)
    OBVIOUS
  <2> QED
    BY <2>1
<1>2. ASSUME NEW n \in Nat, n \in N PROVE n + 1 \in N
  <2>1. ASSUME n + 1 < Dim PROVE \E i \in 0 .. n + 1 : Leads(i, n + 1)
    <3>1. PICK i \in 0 .. n : Leads(i, n)
      BY <1>2, <2>1, <1>0
    <3>2. i \in Lines /\ n + 1 \in Lines /\ 0 .. n \subseteq Lines
      BY <1>0, <2>1
    <3>3. CASE signal[n + 1] > signal[i]
      <4>1. Leads(n + 1, n + 1)
        BY <3>1, <3>2, <3>3
      <4> QED
        BY <4>1
    <3>4. CASE ~ (signal[n + 1] > signal[i])
      <4>1. Leads(i, n + 1)
        BY <3>1, <3>2, <3>4
      <4> QED
        BY <4>1
    <3> QED
      BY <3>3, <3>4
  <2> HIDE DEF Leads
  <2> QED
    BY <2>1
<1>3. Nat \subseteq N
  <2> HIDE DEF N
  <2> QED
    BY <1>1, <1>2, NatBySet
<1>4. PICK i \in 0 .. Dim - 1 : Leads(i, Dim - 1)
  <2>1. Dim - 1 \in Nat /\ Dim - 1 < Dim
    BY <1>0
  <2>2. Dim - 1 \in N
    BY <1>3, <2>1
  <2> HIDE DEF Leads
  <2> QED
    BY <2>1, <2>2
<1>5. ASSUME NEW j \in Lines PROVE signal[j] <= signal[i] /\ (signal[j] = signal[i] => i <= j)
  <2>1. signal[j] < signal[i] \/ (signal[j] = signal[i] /\ i <= j)
    BY <1>0, <1>4
  <2>2. signal[j] \in Int /\ signal[i] \in Int
    BY <1>0
  <2> QED
    BY <2>1, <2>2
<1> QED
  BY <1>0, <1>5

\* The line peak that FindLinePeak finds has the greatest value of its line.
LEMMA LinePeakIsGreatest ==
    ASSUME NEW signal \in [Lines -> Int], FindLinePeak(signal) # -1
    PROVE  /\ FindLinePeak(signal) \in Lines
           /\ \A j \in Lines : signal[j] <= signal[FindLinePeak(signal)]
<1> DEFINE best == CHOOSE i \in Lines : /\ \A j \in Lines : signal[j] <= signal[i]
                                        /\ \A j \in Lines : signal[j] = signal[i] => i <= j
<1>1. /\ best \in Lines
      /\ \A j \in Lines : signal[j] <= signal[best]
  BY FirstGreatest
<1>2. FindLinePeak(signal) = best
  BY DEF FindLinePeak
<1> QED
  BY <1>1, <1>2

\* For every signal, also those that saturate int16_t or wrap at an edge: the
\* coordinate on a line is in the cell of the line's peak (SolveByTriangle).
THEOREM LineInCell ==
    ASSUME NEW signal \in [Lines -> Int], SolveLine(signal) # -1
    PROVE  LET i == FindLinePeak(signal) IN
           /\ i \in Lines
           /\ SolveLine(signal) \in i * Unit .. (i + 1) * Unit
           /\ SolveLine(signal) \in 0 .. Dim * Unit - 1
<1> DEFINE i    == FindLinePeak(signal)
           s(j) == Saturated(signal[j])
           c    == SolveByTriangle(signal, i)
<1>1. i \in Lines /\ \A j \in Lines : signal[j] <= signal[i]
  BY LinePeakIsGreatest DEF SolveLine
<1>2. SolveLine(signal) = Clamped(c, Dim * Unit - 1)
  BY DEF SolveLine
<1>3. \A j \in Lines : s(j) \in Int /\ s(j) <= s(i)
  BY <1>1, GridAssumption DEF Saturated
<1>4. /\ Dim \in Nat /\ Dim >= 3 /\ Unit \in Nat \ {0} /\ i \in 0 .. Dim - 1
  BY <1>1, GridAssumption DEF Lines
<1>5. i * Unit >= 0 /\ (i + 1) * Unit = i * Unit + Unit /\ (i + 1) * Unit <= Dim * Unit
  <2>1. PICK k \in Nat : Dim = i + 1 + k
    <3>1. Dim - i - 1 \in Nat
      BY <1>4
    <3> QED
      BY <1>4, <3>1
  <2>2. Dim * Unit = i * Unit + Unit + k * Unit /\ (i + 1) * Unit = i * Unit + Unit
    BY <1>4, <2>1
  <2>3. k * Unit >= 0 /\ i * Unit >= 0
    BY <1>4, <2>1
  <2> HIDE DEF i
  <2> QED
    BY <1>4, <2>1, <2>2, <2>3
<1>6. c \in i * Unit .. (i + 1) * Unit
  <2>1. CASE i = 0
    <3>1. s(0) \in Int /\ s(1) \in Int /\ s(2) \in Int /\ s(1) <= s(0)
      BY <1>3, <1>4, <2>1 DEF Lines
    <3>2. TriangleAlgEdge(s(0), s(1), s(2)) \in 0 .. Unit
      BY <3>1, EdgeInCell
    <3>3. c = TriangleAlgEdge(s(0), s(1), s(2))
      BY <2>1 DEF SolveByTriangle
    <3> QED
      BY <1>4, <2>1, <3>2, <3>3
  <2>2. CASE i = Dim - 1
    <3> DEFINE e == TriangleAlgEdge(s(Dim - 1), s(Dim - 2), s(Dim - 3))
    <3>1. /\ s(Dim - 1) \in Int /\ s(Dim - 2) \in Int /\ s(Dim - 3) \in Int
          /\ s(Dim - 2) <= s(Dim - 1)
      BY <1>3, <1>4, <2>2 DEF Lines
    <3>2. e \in 0 .. Unit
      BY <3>1, EdgeInCell
    <3>3. c = Dim * Unit - e
      BY <1>4, <2>2 DEF SolveByTriangle
    <3>4. (i + 1) * Unit = Dim * Unit
      BY <1>4, <2>2
    <3> HIDE DEF e, c, i
    <3> QED
      BY <1>4, <1>5, <3>2, <3>3, <3>4
  <2>3. CASE i # 0 /\ i # Dim - 1
    <3> DEFINE t == TriangleAlgUsing3Point(s(i - 1), s(i), s(i + 1))
    <3>1. /\ s(i - 1) \in Int /\ s(i) \in Int /\ s(i + 1) \in Int
          /\ s(i - 1) <= s(i) /\ s(i + 1) <= s(i)
      <4>1. i - 1 \in Lines /\ i + 1 \in Lines
        BY <1>4, <2>3 DEF Lines
      <4> HIDE DEF i, s
      <4> QED
        BY <1>1, <1>3, <4>1
    <3>2. t \in 0 .. Unit
      <4> HIDE DEF i, s
      <4> QED
        BY <3>1, TriangleInCell
    <3>3. c = i * Unit + t
      <4> HIDE DEF i
      <4> QED
        BY <2>3 DEF SolveByTriangle
    <3> HIDE DEF t, c, i
    <3> QED
      BY <1>4, <1>5, <3>2, <3>3
  <2> QED
    BY <2>1, <2>2, <2>3
<1>7. Clamped(c, Dim * Unit - 1) \in i * Unit .. (i + 1) * Unit
  <2> HIDE DEF c, i
  <2> QED
    BY <1>4, <1>5, <1>6 DEF Clamped
<1>8. Clamped(c, Dim * Unit - 1) \in 0 .. Dim * Unit - 1
  <2> HIDE DEF c, i
  <2> QED
    BY <1>4, <1>5, <1>6 DEF Clamped
<1> QED
  BY <1>1, <1>2, <1>7, <1>8

----------------------------------------------------------------------------
\* The flood fill

AnyOf(s)       == CHOOSE x \in s : TRUE
Free(g, seen)  == {b \in Cells \ seen : g[b] > NoiseThreshold}
Grown(R, F)    == R \cup {b \in F : \E c \in R : Adjacent(b, c)}
ClosedIn(R, F) == \A b \in F : (\E c \in R : Adjacent(b, c)) => b \in R

Rounds(it, S, F, a) ==
    /\ it[{}] = {a}
    /\ \A s \in (SUBSET S) \ {{}} : it[s] = Grown(it[s \ {AnyOf(s)}], F)

\* The fill is the recursion that grows {a} as often as there are free cells.
LEMMA FloodFillIsFold ==
    ASSUME NEW g, NEW seen, NEW F, F = Free(g, seen), NEW a \in F,
           NEW S, S = 1 .. Cardinality(F)
    PROVE  \E it : FloodFill(g, seen, a) = it[S] /\ Rounds(it, S, F, a)
<1> DEFINE E(it) == [s \in SUBSET S |-> IF s = {} THEN {a}
                       ELSE Grown(it[s \ {CHOOSE x \in s : TRUE}], F)]
           it == CHOOSE it : it = E(it)
           choose == [s \in (SUBSET S) \ {{}} |-> CHOOSE x \in s : TRUE]
           step   == [p \in S \X SUBSET F |-> Grown(p[2], F)]
<1>1. FloodFill(g, seen, a) = it[S]
  BY DEF FloodFill, FoldSet, MapThenFoldSet, Grown, Free
<1>2. IsFiniteSet(S)
  <2>1. IsFiniteSet(F)
    BY Window, FS_Subset DEF Free
  <2>2. Cardinality(F) \in Int
    BY <2>1, FS_CardinalityType
  <2> QED
    BY <2>2, FS_Interval
<1>3. \A s \in (SUBSET S) \ {{}} : choose[s] = (CHOOSE x \in s : TRUE) /\ choose[s] \in s
  OBVIOUS
<1>4. choose \in Picks(S)
  BY <1>3 DEF Picks
<1>5. \A R \in SUBSET F : Grown(R, F) \in SUBSET F
  BY DEF Grown
<1>6. step \in [S \X SUBSET F -> SUBSET F]
  BY <1>5
<1>7. \A x \in S, R \in SUBSET F : step[<<x, R>>] = Grown(R, F)
  OBVIOUS
<1>8. {a} \in SUBSET F
  OBVIOUS
<1> HIDE DEF choose, step
<1>9. PICK f \in [SUBSET S -> SUBSET F] : IsFold(f, S, {a}, choose, step)
  BY <1>2, <1>4, <1>6, <1>8, FoldExists, Zenon
<1>10. f = E(f)
  <2>1. ASSUME NEW s \in (SUBSET S) \ {{}}
        PROVE  f[s] = Grown(f[s \ {CHOOSE x \in s : TRUE}], F)
    <3>1. f[s] = step[<<choose[s], f[s \ {choose[s]}]>>]
      BY <1>9 DEF IsFold
    <3>2. choose[s] \in S /\ f[s \ {choose[s]}] \in SUBSET F
      BY <1>3
    <3>3. f[s] = Grown(f[s \ {choose[s]}], F)
      BY <1>7, <3>1, <3>2
    <3> QED
      BY <1>3, <3>3
  <2>2. f[{}] = {a}
    BY <1>9 DEF IsFold
  <2>3. \A s \in SUBSET S : f[s] = IF s = {} THEN {a} ELSE Grown(f[s \ {CHOOSE x \in s : TRUE}], F)
    BY <2>1, <2>2
  <2> QED
    BY <2>3
<1> HIDE DEF E
<1>11. it = E(it)
  BY <1>10
<1> HIDE DEF it
<1>12. Rounds(it, S, F, a)
  BY <1>11 DEF E, AnyOf, Rounds
<1> QED
  BY <1>1, <1>12

\* A flood fill, from any cell and whatever was visited before, is closed in the
\* free cells and the least set with its cell that is (FloodFill): every round
\* adds a cell, or no round does any more.
THEOREM FloodFillIsLeast ==
    ASSUME NEW g, NEW seen, NEW F, F = Free(g, seen), NEW a \in F,
           NEW R, R = FloodFill(g, seen, a)
    PROVE  /\ R \subseteq F /\ a \in R /\ ClosedIn(R, F)
           /\ \A Q : a \in Q /\ ClosedIn(Q, F) => R \subseteq Q
<1> DEFINE S == 1 .. Cardinality(F)
           choose == [s \in (SUBSET S) \ {{}} |-> AnyOf(s)]
<1>0. PICK it : FloodFill(g, seen, a) = it[S] /\ Rounds(it, S, F, a)
  BY FloodFillIsFold
<1>1. /\ R = it[S] /\ it[{}] = {a}
      /\ \A s \in (SUBSET S) \ {{}} : it[s] = Grown(it[s \ {AnyOf(s)}], F)
  BY <1>0 DEF Rounds
<1>2. IsFiniteSet(F)
  BY Window, FS_Subset DEF Free
<1>3. /\ Cardinality(F) \in Nat /\ IsFiniteSet(S) /\ Cardinality(S) = Cardinality(F)
      /\ \A s \in SUBSET S : IsFiniteSet(s) /\ Cardinality(s) \in Nat
  <2>1. Cardinality(F) \in Nat
    BY <1>2, FS_CardinalityType
  <2>2. IsFiniteSet(S) /\ Cardinality(S) = Cardinality(F)
    BY <2>1, FS_Interval
  <2> HIDE DEF S
  <2> QED
    BY <2>1, <2>2, FS_CardinalityType, FS_Subset
<1> HIDE DEF S
<1>4. \A s \in (SUBSET S) \ {{}} : choose[s] = AnyOf(s) /\ choose[s] \in s
  BY DEF AnyOf
<1>5. choose \in Picks(S)
  BY <1>4 DEF Picks
<1> HIDE DEF choose
<1>6. \A s \in (SUBSET S) \ {{}} : it[s] = Grown(it[s \ {choose[s]}], F)
  BY <1>1, <1>4
<1>7. \A s \in SUBSET S : it[s] \subseteq F /\ a \in it[s]
  <2> DEFINE P == {s \in SUBSET S : it[s] \subseteq F /\ a \in it[s]}
  <2>1. {} \in P
    BY <1>1, <1>2
  <2>2. \A s \in (SUBSET S) \ {{}} : s \ {choose[s]} \in P => s \in P
    BY <1>6 DEF Grown
  <2>3. SUBSET S \subseteq P
    <3> HIDE DEF P
    <3> QED
      BY <1>3, <1>5, <2>1, <2>2, BySubsets
  <2> QED
    BY <2>3
<1>8. \A s \in SUBSET S : ClosedIn(it[s], F) \/ Cardinality(it[s]) > Cardinality(s)
  <2> DEFINE P == {s \in SUBSET S : ClosedIn(it[s], F) \/ Cardinality(it[s]) > Cardinality(s)}
  <2>1. {} \in P
    <3>1. Cardinality(it[{}]) = 1 /\ Cardinality({}) = 0
      BY <1>1, FS_EmptySet, FS_Singleton
    <3> QED
      BY <3>1
  <2>2. ASSUME NEW s \in (SUBSET S) \ {{}}, s \ {choose[s]} \in P PROVE s \in P
    <3> DEFINE t == s \ {choose[s]}
               U == it[t]
    <3>1. /\ t \in SUBSET S /\ U \subseteq F /\ IsFiniteSet(U) /\ Cardinality(U) \in Nat
          /\ it[s] = Grown(U, F)
      BY <1>2, <1>6, <1>7, FS_Subset, FS_CardinalityType
    <3>2. Cardinality(t) = Cardinality(s) - 1
      BY <1>3, <1>4, FS_RemoveElement
    <3> HIDE DEF t, U
    <3>3. CASE ClosedIn(U, F)
      <4>1. it[s] = U
        BY <3>1, <3>3 DEF Grown, ClosedIn
      <4> QED
        BY <3>3, <4>1
    <3>4. CASE ~ ClosedIn(U, F)
      <4>1. PICK b \in F : b \notin U /\ \E c \in U : Adjacent(b, c)
        BY <3>4 DEF ClosedIn
      <4>2. U \cup {b} \subseteq it[s]
        BY <3>1, <4>1 DEF Grown
      <4>3. it[s] \subseteq F
        BY <1>7
      <4>4. IsFiniteSet(it[s]) /\ Cardinality(U \cup {b}) <= Cardinality(it[s])
        BY <1>2, <4>2, <4>3, FS_Subset
      <4>5. Cardinality(U \cup {b}) = Cardinality(U) + 1
        BY <3>1, <4>1, FS_AddElement
      <4>6. Cardinality(U) > Cardinality(t)
        BY <2>2, <3>4 DEF t, U
      <4>7. Cardinality(it[s]) \in Nat /\ Cardinality(s) \in Nat
        BY <1>3, <4>4, FS_CardinalityType
      <4>8. Cardinality(it[s]) > Cardinality(s)
        BY <3>1, <3>2, <4>4, <4>5, <4>6, <4>7
      <4> QED
        BY <4>8
    <3> QED
      BY <3>3, <3>4
  <2>3. SUBSET S \subseteq P
    <3> HIDE DEF P
    <3> QED
      BY <1>3, <1>5, <2>1, <2>2, BySubsets
  <2> QED
    BY <2>3
<1>9. ClosedIn(it[S], F)
  <2>1. it[S] \subseteq F
    BY <1>7
  <2>2. Cardinality(it[S]) \in Nat /\ Cardinality(it[S]) <= Cardinality(F)
    BY <1>2, <2>1, FS_Subset, FS_CardinalityType
  <2>3. ClosedIn(it[S], F) \/ Cardinality(it[S]) > Cardinality(S)
    BY <1>8
  <2> QED
    BY <1>3, <2>2, <2>3
<1>10. ASSUME NEW Q, a \in Q, ClosedIn(Q, F) PROVE it[S] \subseteq Q
  <2> DEFINE P == {s \in SUBSET S : it[s] \subseteq Q}
  <2>1. {} \in P
    BY <1>1, <1>10
  <2>2. \A s \in (SUBSET S) \ {{}} : s \ {choose[s]} \in P => s \in P
    BY <1>6, <1>10 DEF Grown, ClosedIn
  <2>3. SUBSET S \subseteq P
    <3> HIDE DEF P
    <3> QED
      BY <1>3, <1>5, <2>1, <2>2, BySubsets
  <2> QED
    BY <2>3
<1>11. it[S] \subseteq F /\ a \in it[S]
  BY <1>7
<1> QED
  BY <1>1, <1>9, <1>10, <1>11

----------------------------------------------------------------------------
\* Regions

\* A cell is the pair of its row and its column.
LEMMA CellCoordinates ==
    \A a \in Cells : /\ a = <<a[1], a[2]>>
                     /\ a[1] \in Int /\ 0 <= a[1] /\ a[1] < Dim
                     /\ a[2] \in Int /\ 0 <= a[2] /\ a[2] < Dim
  BY GridAssumption DEF Cells, Lines

\* Cells are neighbours of each other.
LEMMA AdjacentSymmetric ==
    ASSUME NEW a \in Cells, NEW b \in Cells
    PROVE  Adjacent(a, b) <=> Adjacent(b, a)
<1>1. /\ a[1] \in Int /\ a[2] \in Int /\ b[1] \in Int /\ b[2] \in Int
  BY CellCoordinates
<1>2. Abs(a[1] - b[1]) = Abs(b[1] - a[1]) /\ Abs(a[2] - b[2]) = Abs(b[2] - a[2])
  BY <1>1 DEF Abs
<1> QED
  BY <1>2 DEF Adjacent

\* A region is closed, not empty, and has no smaller such set in it.
LEMMA RegionsAreClosed ==
    ASSUME NEW R \in Regions
    PROVE  /\ R \subseteq Signal /\ R # {} /\ Closed(R)
           /\ \A Q \in SUBSET Signal : Q # {} /\ Closed(Q) /\ Q \subseteq R => Q = R
  BY DEF Regions

\* Two regions with a cell in common are the same.
LEMMA RegionsAreDisjoint ==
    ASSUME NEW R \in Regions, NEW Q \in Regions, NEW x \in R, x \in Q
    PROVE  R = Q
<1>1. R \cap Q \in SUBSET Signal /\ R \cap Q # {} /\ Closed(R \cap Q)
  BY RegionsAreClosed DEF Closed
<1>2. R \cap Q = R
  BY <1>1, RegionsAreClosed
<1>3. R \cap Q = Q
  BY <1>1, RegionsAreClosed
<1> QED
  BY <1>2, <1>3

\* Where the visited cells are whole regions, a fill is a whole region that none
\* of them is in (FloodFill).
THEOREM FillIsRegion ==
    ASSUME visited \subseteq Signal, Closed(visited), NEW a \in Signal, a \notin visited,
           NEW R, R = FloodFill(grid, visited, a)
    PROVE  /\ R \in Regions /\ a \in R /\ R \cap visited = {}
           /\ R \subseteq Signal /\ Closed(visited \cup R)
<1> DEFINE F == Signal \ visited
<1>1. F = Free(grid, visited)
  BY DEF Free, Signal
<1>2. Signal \subseteq Cells
  BY DEF Signal
<1>3. /\ R \subseteq F /\ a \in R /\ ClosedIn(R, F)
      /\ \A Q : a \in Q /\ ClosedIn(Q, F) => R \subseteq Q
  <2>1. a \in F
    OBVIOUS
  <2> HIDE DEF F
  <2> QED
    BY <1>1, <2>1, FloodFillIsLeast
<1>4. Closed(R)
  <2> SUFFICES ASSUME NEW c \in R, NEW b \in Signal, Adjacent(c, b) PROVE b \in R
    BY DEF Closed
  <2>1. Adjacent(b, c)
    BY <1>2, <1>3, AdjacentSymmetric
  <2>2. b \notin visited
    BY <1>3, <2>1 DEF Closed
  <2> QED
    BY <1>3, <2>1, <2>2 DEF ClosedIn
<1>5. ASSUME NEW Q \in SUBSET Signal, Q # {}, Closed(Q), Q \subseteq R PROVE Q = R
  <2>1. CASE a \in Q
    <3>1. ClosedIn(Q, F)
      <4> SUFFICES ASSUME NEW b \in F, NEW c \in Q, Adjacent(b, c) PROVE b \in Q
        BY DEF ClosedIn
      <4>1. Adjacent(c, b)
        BY <1>2, AdjacentSymmetric
      <4> QED
        BY <1>5, <4>1 DEF Closed
    <3> QED
      BY <1>3, <1>5, <2>1, <3>1
  <2>2. CASE a \notin Q
    <3>1. ClosedIn(R \ Q, F)
      <4> SUFFICES ASSUME NEW b \in F, NEW c \in R \ Q, Adjacent(b, c) PROVE b \in R \ Q
        BY DEF ClosedIn
      <4>1. b \in R
        BY <1>3 DEF ClosedIn
      <4>2. c \in Signal
        BY <1>3
      <4>3. b \notin Q
        BY <1>5, <4>2 DEF Closed
      <4> QED
        BY <4>1, <4>3
    <3>2. R \subseteq R \ Q
      BY <1>3, <2>2, <3>1
    <3> QED
      BY <1>5, <3>2
  <2> QED
    BY <2>1, <2>2
<1>6. R \in Regions
  <2>1. R \in SUBSET Signal /\ R # {}
    BY <1>3
  <2> QED
    BY <1>4, <1>5, <2>1 DEF Regions
<1>7. Closed(visited \cup R)
  BY <1>4 DEF Closed
<1> QED
  BY <1>3, <1>6, <1>7

\* The maxima of a region are its peaks.
LEMMA MaximaArePeaks ==
    ASSUME grid \in [Cells -> Int], NEW R \in Regions, NEW a \in R
    PROVE  a \in Maxima(R) <=> IsPeak(grid, a)
<1>1. a \in Cells /\ grid[a] > NoiseThreshold
  BY RegionsAreClosed DEF Signal
<1>2. \A b \in Cells : grid[b] <= grid[a] <=> ~ (grid[b] > grid[a])
  BY <1>1
<1> QED
  BY <1>1, <1>2 DEF Maxima, IsPeak

----------------------------------------------------------------------------
\* The scan

\* The raster scan numbers the cells without a gap or a repetition.
LEMMA IndexIsUnique ==
    ASSUME NEW a \in Cells, NEW b \in Cells
    PROVE  /\ Index(a) \in 0 .. Last - 1
           /\ Index(a) = Index(b) => a = b
<1>1. /\ Dim \in Nat
      /\ a = <<a[1], a[2]>> /\ a[1] \in 0 .. Dim - 1 /\ a[2] \in 0 .. Dim - 1
      /\ b = <<b[1], b[2]>> /\ b[1] \in 0 .. Dim - 1 /\ b[2] \in 0 .. Dim - 1
  BY CellCoordinates, GridAssumption
<1>2. ASSUME NEW i \in Nat, NEW j \in Nat, i < j PROVE Dim * i + Dim <= Dim * j
  <2>1. PICK k \in Nat : j = i + 1 + k
    <3>1. j - i - 1 \in Nat
      BY <1>2
    <3> QED
      BY <3>1
  <2>2. Dim * j = Dim * i + Dim + Dim * k
    BY <1>1, <2>1
  <2>3. Dim * k \in Nat /\ Dim * i \in Nat
    BY <1>1
  <2> QED
    BY <1>1, <2>2, <2>3
<1>3. Dim * a[1] \in Nat /\ Dim * b[1] \in Nat /\ Last \in Nat
  BY <1>1 DEF Last
<1>4. Index(a) \in 0 .. Last - 1
  <2>1. Dim * a[1] + Dim <= Dim * Dim
    BY <1>1, <1>2
  <2> QED
    BY <1>1, <1>3, <2>1 DEF Index, Last
<1>5. ASSUME Index(a) = Index(b) PROVE a[1] = b[1]
  <2>1. Dim * a[1] + a[2] = Dim * b[1] + b[2]
    BY <1>5 DEF Index
  <2>2. ~ (a[1] < b[1])
    <3>1. a[1] < b[1] => Dim * a[1] + Dim <= Dim * b[1]
      BY <1>1, <1>2
    <3> QED
      BY <1>1, <1>3, <2>1, <3>1
  <2>3. ~ (b[1] < a[1])
    <3>1. b[1] < a[1] => Dim * b[1] + Dim <= Dim * a[1]
      BY <1>1, <1>2
    <3> QED
      BY <1>1, <1>3, <2>1, <3>1
  <2> QED
    BY <1>1, <2>2, <2>3
<1>6. ASSUME Index(a) = Index(b) PROVE a[2] = b[2]
  <2>1. Dim * a[1] = Dim * b[1]
    BY <1>5, <1>6
  <2>2. Dim * a[1] + a[2] = Dim * b[1] + b[2]
    BY <1>6 DEF Index
  <2>3. ASSUME NEW x \in Int, NEW i \in Int, NEW j \in Int, x + i = x + j PROVE i = j
    BY <2>3
  <2> QED
    BY <1>1, <1>3, <2>1, <2>2, <2>3
<1> QED
  BY <1>1, <1>4, <1>5, <1>6

\* The cell of a step comes next in raster order.
LEMMA CellIsNext ==
    ASSUME next \in 0 .. Last, next < Last
    PROVE  Cell \in Cells /\ Index(Cell) = next
<1> DEFINE i == next \div Dim
           j == next % Dim
<1>1. Dim \in Nat \ {0} /\ next \in Nat
  BY GridAssumption DEF Last
<1>2. i \in Nat /\ j \in 0 .. Dim - 1 /\ next = Dim * i + j
  BY <1>1
<1> HIDE DEF i, j
<1>3. i < Dim
  <2> SUFFICES ASSUME i >= Dim PROVE FALSE
    BY <1>1, <1>2
  <2>1. PICK k \in Nat : i = Dim + k
    <3>1. i - Dim \in Nat
      BY <1>1, <1>2
    <3> QED
      BY <1>1, <1>2, <3>1
  <2>2. Dim * i = Dim * Dim + Dim * k
    BY <1>1, <2>1
  <2>3. Dim * k \in Nat /\ Dim * Dim \in Nat
    BY <1>1, <2>1
  <2> QED
    BY <1>1, <1>2, <2>2, <2>3 DEF Last
<1>4. i \in Lines /\ j \in Lines
  BY <1>1, <1>2, <1>3 DEF Lines
<1>5. Cell = <<i, j>>
  BY DEF Cell, i, j
<1> QED
  BY <1>2, <1>4, <1>5 DEF Cells, Index

\* A step of the scan adds its cell to those scanned.
LEMMA ScanStep ==
    ASSUME next \in 0 .. Last, next < Last, next' = next + 1
    PROVE  /\ next' \in 0 .. Last
           /\ Cell \in Cells \ Scanned /\ Scanned' = Scanned \cup {Cell}
<1>1. Last \in Nat
  BY GridAssumption DEF Last
<1>2. Cell \in Cells /\ Index(Cell) = next
  BY CellIsNext
<1>3. \A a \in Cells : Index(a) \in Int /\ (Index(a) = next => a = Cell)
  BY <1>2, IndexIsUnique
<1>4. Scanned' = {a \in Cells : Index(a) < next + 1}
  BY DEF Scanned, Index
<1>5. \A a \in Cells : Index(a) < next + 1 <=> Index(a) < next \/ a = Cell
  BY <1>1, <1>2, <1>3
<1>6. next + 1 \in 0 .. Last
  BY <1>1
<1> QED
  BY <1>2, <1>4, <1>5, <1>6 DEF Scanned

\* What a window contains does not change with the scan.
LEMMA SameWindow ==
    ASSUME grid' = grid
    PROVE  /\ Signal' = Signal /\ Regions' = Regions /\ Leaders' = Leaders
           /\ \A R : Maxima(R)' = Maxima(R) /\ Closed(R)' = Closed(R)
<1>1. Signal' = Signal
  BY DEF Signal
<1>2. \A R : Maxima(R)' = Maxima(R)
  BY DEF Maxima
<1>3. \A R : Closed(R)' = Closed(R)
  BY <1>1 DEF Closed
<1>4. Regions' = Regions
  BY <1>1, <1>3 DEF Regions
<1>5. Leaders' = Leaders
  BY <1>2, <1>4 DEF Leaders, Small
<1> QED
  BY <1>1, <1>2, <1>3, <1>4, <1>5

----------------------------------------------------------------------------
\* The inductive invariant

\* What every leader is: the first maximum of a small region.
LEMMA LeaderLeads ==
    ASSUME NEW a \in Leaders
    PROVE  \E R \in Regions : /\ Cardinality(R) < MaxConnected /\ a \in R /\ a \in Maxima(R)
                              /\ \A b \in Maxima(R) : RasterFirst(a, b)
<1>1. PICK R \in Small : a \in {b \in Maxima(R) : \A c \in Maxima(R) : RasterFirst(b, c)}
  BY DEF Leaders
<1>2. R \in Regions /\ Cardinality(R) < MaxConnected
  BY DEF Small
<1>3. a \in Maxima(R) /\ \A b \in Maxima(R) : RasterFirst(a, b)
  BY <1>1
<1>4. a \in R
  BY <1>3 DEF Maxima
<1> QED
  BY <1>2, <1>3, <1>4

\* Leaders are cells of the window.
LEMMA LeadersAreCells == Leaders \subseteq Cells
<1> SUFFICES ASSUME NEW a \in Leaders PROVE a \in Cells
  OBVIOUS
<1>1. PICK R \in Regions : a \in R
  BY LeaderLeads
<1> QED
  BY <1>1, RegionsAreClosed DEF Signal

\* A cell that the scan skips leads no region.
LEMMA SkippedIsNoLeader ==
    ASSUME WindowTypeOK, VisitedAreRegions, next < Last,
           Cell \in visited \/ ~ IsPeak(grid, Cell)
    PROVE  Cell \notin Leaders
<1> SUFFICES ASSUME Cell \in Leaders PROVE FALSE
  OBVIOUS
<1>1. Cell \in Cells /\ Index(Cell) = next
  BY CellIsNext DEF WindowTypeOK
<1>2. grid \in [Cells -> Int]
  BY Window DEF WindowTypeOK
<1>3. PICK R \in Regions : /\ Cell \in R /\ Cell \in Maxima(R)
                           /\ \A b \in Maxima(R) : RasterFirst(Cell, b)
  BY LeaderLeads
<1>4. Cell \in visited
  BY <1>2, <1>3, MaximaArePeaks
<1>5. PICK Q \in Regions, a \in Scanned : Cell \in Q /\ a \in Maxima(Q)
  BY <1>4 DEF VisitedAreRegions
<1>6. Q = R
  BY <1>3, <1>5, RegionsAreDisjoint
<1>7. Index(Cell) <= Index(a)
  BY <1>3, <1>5, <1>6 DEF RasterFirst, Index
<1>8. Index(a) < next /\ Index(a) \in Int /\ next \in Int
  <2>1. a \in Cells /\ Index(a) < next
    BY DEF Scanned
  <2> QED
    BY <2>1, IndexIsUnique DEF WindowTypeOK
<1> QED
  BY <1>1, <1>7, <1>8

\* A cell that the scan visits leads its region, if that is small.
LEMMA VisitedLeads ==
    ASSUME WindowTypeOK, VisitedAreRegions, next < Last,
           Cell \notin visited, IsPeak(grid, Cell),
           NEW R, R = FloodFill(grid, visited, Cell)
    PROVE  /\ R \in Regions /\ R \subseteq Signal /\ Closed(visited \cup R)
           /\ Cell \in Maxima(R) /\ Cell \in R
           /\ Cell \in Leaders <=> Cardinality(R) < MaxConnected
<1>1. Cell \in Cells /\ Index(Cell) = next
  BY CellIsNext DEF WindowTypeOK
<1>2. grid \in [Cells -> Int]
  BY Window DEF WindowTypeOK
<1>3. Cell \in Signal
  BY <1>1 DEF Signal, IsPeak
<1>4. /\ R \in Regions /\ Cell \in R /\ R \cap visited = {}
      /\ R \subseteq Signal /\ Closed(visited \cup R)
  BY <1>3, FillIsRegion DEF VisitedAreRegions
<1>5. Cell \in Maxima(R)
  BY <1>2, <1>4, MaximaArePeaks
<1>6. \A b \in Maxima(R) : RasterFirst(Cell, b)
  <2> SUFFICES ASSUME NEW b \in Maxima(R), ~ RasterFirst(Cell, b) PROVE FALSE
    OBVIOUS
  <2>1. b \in R /\ b \in Cells
    BY <1>4 DEF Maxima, Signal
  <2>2. IsPeak(grid, b)
    BY <1>2, <1>4, <2>1, MaximaArePeaks
  <2>3. Index(b) \in Int /\ Index(Cell) \in Int
    BY <1>1, <2>1, IndexIsUnique
  <2>4. Index(b) < next
    BY <1>1, <2>3 DEF RasterFirst, Index
  <2>5. b \in visited
    BY <2>1, <2>2, <2>4 DEF VisitedAreRegions, Scanned
  <2> QED
    BY <1>4, <2>1, <2>5
<1>7. ASSUME Cardinality(R) < MaxConnected PROVE Cell \in Leaders
  <2>1. R \in Small
    BY <1>4, <1>7 DEF Small
  <2>2. Cell \in {a \in Maxima(R) : \A b \in Maxima(R) : RasterFirst(a, b)}
    BY <1>5, <1>6
  <2> QED
    BY <2>1, <2>2 DEF Leaders
<1>8. ASSUME Cell \in Leaders PROVE Cardinality(R) < MaxConnected
  <2>1. PICK Q \in Regions : Cardinality(Q) < MaxConnected /\ Cell \in Q
    BY <1>8, LeaderLeads
  <2>2. Q = R
    BY <1>4, <2>1, RegionsAreDisjoint
  <2> QED
    BY <2>1, <2>2
<1> QED
  BY <1>4, <1>5, <1>7, <1>8

\* Before its scan a window satisfies the invariant.
LEMMA BlankWindow ==
    ASSUME grid \in Grids, next = 0, visited = {}, peak = None, sum = 0, raw = <<>>
    PROVE  WindowInv
<1>1. 0 \in 0 .. Last
  BY GridAssumption DEF Last
<1>2. WindowTypeOK
  BY <1>1 DEF WindowTypeOK
<1>3. Scanned = {}
  <2>1. \A a \in Cells : ~ (Index(a) < 0)
    BY IndexIsUnique
  <2> QED
    BY <2>1 DEF Scanned
<1>4. VisitedAreRegions
  BY <1>3 DEF VisitedAreRegions, Closed
<1>5. PeakIsBest
  BY <1>3 DEF PeakIsBest, Found
<1> QED
  BY <1>2, <1>4, <1>5 DEF WindowInv, SolvedLast

\* So does the window of the next frame.
LEMMA NewWindowKeeps ==
    ASSUME NewWindow
    PROVE  WindowInv'
<1>1. grid' \in Grids
  BY GridAssumption DEF NewWindow
<1>2. next' = 0 /\ visited' = {} /\ peak' = None /\ sum' = 0 /\ raw' = <<>>
  BY DEF NewWindow
<1>3. 0 \in 0 .. Last
  BY GridAssumption DEF Last
<1>4. WindowTypeOK'
  BY <1>1, <1>2, <1>3 DEF WindowTypeOK, Last
<1>5. Scanned' = {}
  <2>1. \A a \in Cells : ~ (Index(a) < 0)
    BY IndexIsUnique
  <2> QED
    BY <1>2, <2>1 DEF Scanned, Index
<1>6. VisitedAreRegions'
  BY <1>2, <1>5 DEF VisitedAreRegions, Closed
<1>7. PeakIsBest'
  BY <1>2, <1>5 DEF PeakIsBest, Found
<1> QED
  BY <1>2, <1>4, <1>6, <1>7 DEF WindowInv, SolvedLast

\* A cell that is visited or no peak leaves the invariant as it was.
LEMMA SkipKeeps ==
    ASSUME WindowInv, Skip
    PROVE  WindowInv'
<1>1. /\ next < Last /\ next' = next + 1 /\ grid' = grid
      /\ visited' = visited /\ peak' = peak /\ sum' = sum /\ raw' = raw
      /\ Cell \in visited \/ ~ IsPeak(grid, Cell)
  BY DEF Skip
<1>2. WindowTypeOK /\ VisitedAreRegions /\ PeakIsBest /\ SolvedLast
  BY DEF WindowInv
<1>3. /\ next' \in 0 .. Last
      /\ Cell \in Cells \ Scanned /\ Scanned' = Scanned \cup {Cell}
  BY <1>1, <1>2, ScanStep DEF WindowTypeOK
<1>4. /\ Signal' = Signal /\ Regions' = Regions /\ Leaders' = Leaders
      /\ \A R : Maxima(R)' = Maxima(R) /\ Closed(R)' = Closed(R)
  BY <1>1, SameWindow
<1>5. WindowTypeOK'
  BY <1>1, <1>2, <1>3 DEF WindowTypeOK
<1>6. VisitedAreRegions'
  <2>1. visited' \subseteq Signal' /\ Closed(visited)'
    BY <1>1, <1>2, <1>4 DEF VisitedAreRegions
  <2>2. \A a \in Scanned' : IsPeak(grid', a) => a \in visited'
    BY <1>1, <1>2, <1>3 DEF VisitedAreRegions
  <2>3. \A b \in visited' : \E R \in Regions', a \in Scanned' : b \in R /\ a \in Maxima(R)'
    BY <1>1, <1>2, <1>3, <1>4 DEF VisitedAreRegions
  <2> QED
    BY <2>1, <2>2, <2>3 DEF VisitedAreRegions
<1>7. PeakIsBest'
  <2>1. Cell \notin Leaders
    BY <1>1, <1>2, SkippedIsNoLeader
  <2>2. Found' = Found
    BY <1>1, <1>3, <1>4, <2>1 DEF Found, Valid
  <2> QED
    BY <1>1, <1>2, <2>2 DEF PeakIsBest
<1>8. SolvedLast'
  <2>1. next # Last
    BY <1>1, <1>2 DEF WindowTypeOK
  <2> QED
    BY <1>1, <1>2, <2>1 DEF SolvedLast
<1> QED
  BY <1>5, <1>6, <1>7, <1>8 DEF WindowInv

\* A visit keeps it: the fill is a region, the cell its leader (FindPeak).
LEMMA VisitKeeps ==
    ASSUME WindowInv, Visit
    PROVE  WindowInv'
<1> DEFINE R == FloodFill(grid, visited, Cell)
           total == Sum3x3(grid, Cell)
<1>1. /\ next < Last /\ next' = next + 1 /\ grid' = grid /\ raw' = raw
      /\ Cell \notin visited /\ IsPeak(grid, Cell) /\ visited' = visited \cup R
      /\ peak' = (IF Better(R) THEN Cell ELSE peak) /\ sum' = (IF Better(R) THEN total ELSE sum)
  BY DEF Visit
<1>2. WindowTypeOK /\ VisitedAreRegions /\ PeakIsBest /\ SolvedLast
  BY DEF WindowInv
<1> HIDE DEF R
<1>3. /\ next' \in 0 .. Last
      /\ Cell \in Cells \ Scanned /\ Scanned' = Scanned \cup {Cell}
  BY <1>1, <1>2, ScanStep DEF WindowTypeOK
<1>4. /\ Signal' = Signal /\ Regions' = Regions /\ Leaders' = Leaders
      /\ \A Q : Maxima(Q)' = Maxima(Q) /\ Closed(Q)' = Closed(Q)
  BY <1>1, SameWindow
<1>5. /\ R \in Regions /\ R \subseteq Signal /\ Closed(visited \cup R)
      /\ Cell \in Maxima(R) /\ Cell \in R
      /\ Cell \in Leaders <=> Cardinality(R) < MaxConnected
  BY <1>1, <1>2, VisitedLeads DEF R
<1>6. total \in Int /\ sum \in Nat
  <2>1. grid \in [Cells -> Int]
    BY <1>2, Window DEF WindowTypeOK
  <2> QED
    BY <1>2, <1>3, <2>1, SumsAreIntegers DEF WindowTypeOK
<1> HIDE DEF total
<1>7. Better(R) <=> Cell \in Leaders /\ total > sum
  BY <1>5 DEF Better, total
<1>8. WindowTypeOK'
  <2>1. visited' \in SUBSET Cells
    BY <1>1, <1>2, <1>5 DEF WindowTypeOK, Signal
  <2>2. peak' \in Cells \cup {None} /\ sum' \in Nat
    BY <1>1, <1>2, <1>3, <1>6, <1>7 DEF WindowTypeOK
  <2> QED
    BY <1>1, <1>2, <1>3, <2>1, <2>2 DEF WindowTypeOK
<1>9. VisitedAreRegions'
  <2>1. visited' \subseteq Signal' /\ Closed(visited)'
    <3>1. Closed(visited)' <=> Closed(visited \cup R)
      BY <1>1, <1>4 DEF Closed
    <3> QED
      BY <1>1, <1>2, <1>4, <1>5, <3>1 DEF VisitedAreRegions
  <2>2. \A a \in Scanned' : IsPeak(grid', a) => a \in visited'
    BY <1>1, <1>2, <1>3, <1>5 DEF VisitedAreRegions
  <2>3. ASSUME NEW b \in visited'
        PROVE  \E Q \in Regions', a \in Scanned' : b \in Q /\ a \in Maxima(Q)'
    <3>1. CASE b \in visited
      <4>1. PICK Q \in Regions, a \in Scanned : b \in Q /\ a \in Maxima(Q)
        BY <1>2, <3>1 DEF VisitedAreRegions
      <4> QED
        BY <1>3, <1>4, <4>1
    <3>2. CASE b \in R
      BY <1>3, <1>4, <1>5, <3>2
    <3> QED
      BY <1>1, <3>1, <3>2
  <2> QED
    BY <2>1, <2>2, <2>3 DEF VisitedAreRegions
<1>10. PeakIsBest'
  <2>1. Found' = {a \in Leaders \cap (Scanned \cup {Cell}) : Sum3x3(grid, a) > 0}
    BY <1>1, <1>3, <1>4 DEF Found, Valid
  <2>2. \A a \in Found : Sum3x3(grid, a) \in Int /\ a \in Cells /\ Index(a) < next
    <3>1. grid \in [Cells -> Int]
      BY <1>2, Window DEF WindowTypeOK
    <3> QED
      BY <3>1, SumsAreIntegers DEF Found, Scanned
  <2>3. CASE Better(R)
    <3>1. Cell \in Leaders /\ total > sum /\ total > 0 /\ Cell # None
      BY <1>3, <1>6, <1>7, <2>3, CellCoordinates DEF None
    <3>2. Cell \in Found' /\ Found' = Found \cup {Cell}
      BY <2>1, <3>1, <1>3 DEF Found, Valid, total
    <3>3. \A a \in Found : Sum3x3(grid, a) < total
      <4>1. \A a \in Found : Sum3x3(grid, a) <= sum
        BY <1>2, <1>6, <2>2 DEF PeakIsBest
      <4> QED
        BY <1>6, <2>2, <3>1, <4>1
    <3>4. RasterFirst(Cell, Cell)
      <4>1. Index(Cell) \in Int
        BY <1>3, IndexIsUnique
      <4> QED
        BY <4>1 DEF RasterFirst, Index
    <3>5. peak' = Cell /\ sum' = total /\ total = Sum3x3(grid', peak')
      BY <1>1, <2>3 DEF total
    <3>6. \A a \in Found' : \/ Sum3x3(grid', a) < sum'
                            \/ Sum3x3(grid', a) = sum' /\ RasterFirst(peak', a)
      BY <1>1, <3>2, <3>3, <3>4, <3>5
    <3> QED
      BY <3>1, <3>2, <3>5, <3>6 DEF PeakIsBest
  <2>4. CASE ~ Better(R)
    <3>1. peak' = peak /\ sum' = sum
      BY <1>1, <2>4
    <3>2. ASSUME Cell \in Found'
          PROVE  peak # None /\ (total < sum \/ (total = sum /\ RasterFirst(peak, Cell)))
      <4>1. Cell \in Leaders /\ total > 0
        BY <2>1, <3>2 DEF total
      <4>2. total <= sum
        BY <1>6, <1>7, <2>4, <4>1
      <4>3. peak # None /\ peak \in Found
        BY <1>2, <1>6, <4>1, <4>2 DEF PeakIsBest
      <4>4. Index(peak) < next /\ Index(peak) \in Int /\ next \in Int
        BY <1>2, <2>2, <4>3, IndexIsUnique DEF WindowTypeOK
      <4>5. Index(Cell) = next
        BY <1>1, <1>2, CellIsNext DEF WindowTypeOK
      <4>6. Index(peak) <= Index(Cell)
        BY <4>4, <4>5
      <4>7. RasterFirst(peak, Cell)
        BY <4>6 DEF RasterFirst, Index
      <4> QED
        BY <1>6, <4>2, <4>3, <4>7
    <3>3. \A a \in Found' : a \in Found \/ a = Cell
      BY <2>1 DEF Found, Valid
    <3>4. peak = None => Found' = {} /\ sum = 0
      BY <1>2, <3>2, <3>3 DEF PeakIsBest
    <3>5. Found \subseteq Found'
      BY <2>1 DEF Found, Valid
    <3>6. ASSUME peak # None
          PROVE  /\ peak \in Found' /\ sum = Sum3x3(grid, peak)
                 /\ \A a \in Found' : \/ Sum3x3(grid, a) < sum
                                      \/ Sum3x3(grid, a) = sum /\ RasterFirst(peak, a)
      BY <1>2, <3>2, <3>3, <3>5, <3>6 DEF PeakIsBest, total
    <3> QED
      BY <1>1, <3>1, <3>4, <3>6 DEF PeakIsBest
  <2> QED
    BY <2>3, <2>4
<1>11. SolvedLast'
  <2>1. next # Last
    BY <1>1, <1>2 DEF WindowTypeOK
  <2> QED
    BY <1>1, <1>2, <2>1 DEF SolvedLast
<1> QED
  BY <1>8, <1>9, <1>10, <1>11 DEF WindowInv

\* A coordinate that is not None is on both lines in the cells of their peaks.
LEMMA CoordinateInCells ==
    ASSUME NEW g \in [Cells -> Int], NEW a \in Cells, Coordinate(g, a) # None
    PROVE  LET i1 == FindLinePeak(Dim1(g, a))
               i2 == FindLinePeak(Dim2(g, a)) IN
           /\ Coordinate(g, a) \in (i1 * Unit .. (i1 + 1) * Unit) \X (i2 * Unit .. (i2 + 1) * Unit)
           /\ Coordinate(g, a) \in (0 .. Dim * Unit - 1) \X (0 .. Dim * Unit - 1)
<1> DEFINE s1 == Dim1(g, a)
           s2 == Dim2(g, a)
<1>1. s1 \in [Lines -> Int] /\ s2 \in [Lines -> Int]
  BY SumsAreIntegers
<1>2. /\ SolveLine(s1) # -1 /\ SolveLine(s2) # -1
      /\ Coordinate(g, a) = <<SolveLine(s1), SolveLine(s2)>>
  BY DEF Coordinate
<1> HIDE DEF s1, s2
<1>3. /\ SolveLine(s1) \in FindLinePeak(s1) * Unit .. (FindLinePeak(s1) + 1) * Unit
      /\ SolveLine(s1) \in 0 .. Dim * Unit - 1
  BY <1>1, <1>2, LineInCell
<1>4. /\ SolveLine(s2) \in FindLinePeak(s2) * Unit .. (FindLinePeak(s2) + 1) * Unit
      /\ SolveLine(s2) \in 0 .. Dim * Unit - 1
  BY <1>1, <1>2, LineInCell
<1> QED
  BY <1>2, <1>3, <1>4 DEF s1, s2

\* A coordinate keeps it: the scan is over (Solve).
LEMMA SolveKeeps ==
    ASSUME WindowInv, Solve
    PROVE  WindowInv'
<1>1. /\ next = Last /\ next' = next /\ peak # None /\ raw' = Coordinate(grid, peak)
      /\ grid' = grid /\ visited' = visited /\ peak' = peak /\ sum' = sum
  BY DEF Solve
<1>2. WindowTypeOK /\ VisitedAreRegions /\ PeakIsBest
  BY DEF WindowInv
<1>3. WindowTypeOK'
  <2>1. grid \in [Cells -> Int] /\ peak \in Cells
    BY <1>1, <1>2, Window DEF WindowTypeOK
  <2>2. raw' \in {<<>>, None} \cup ((0 .. Dim * Unit - 1) \X (0 .. Dim * Unit - 1))
    BY <1>1, <2>1, CoordinateInCells
  <2> QED
    BY <1>1, <1>2, <2>2 DEF WindowTypeOK
<1>4. /\ Signal' = Signal /\ Regions' = Regions /\ Leaders' = Leaders
      /\ \A R : Maxima(R)' = Maxima(R) /\ Closed(R)' = Closed(R)
  BY <1>1, SameWindow
<1>5. Scanned' = Scanned
  BY <1>1 DEF Scanned, Index
<1>6. VisitedAreRegions'
  BY <1>1, <1>2, <1>4, <1>5 DEF VisitedAreRegions
<1>7. PeakIsBest'
  <2>1. Found' = Found
    BY <1>1, <1>4, <1>5 DEF Found, Valid
  <2> QED
    BY <1>1, <1>2, <2>1 DEF PeakIsBest
<1>8. SolvedLast'
  BY <1>1 DEF SolvedLast, Last
<1> QED
  BY <1>3, <1>6, <1>7, <1>8 DEF WindowInv

\* The invariant is inductive.
LEMMA ScanNext == WindowInv /\ [WindowNext]_windowVars => WindowInv'
<1> SUFFICES ASSUME WindowInv, [WindowNext]_windowVars PROVE WindowInv'
  OBVIOUS
<1>1. CASE Skip
  BY <1>1, SkipKeeps
<1>2. CASE Visit
  BY <1>2, VisitKeeps
<1>3. CASE Solve
  BY <1>3, SolveKeeps
<1>4. CASE UNCHANGED windowVars
  <2>1. /\ grid' = grid /\ next' = next /\ visited' = visited
        /\ peak' = peak /\ sum' = sum /\ raw' = raw
    BY <1>4 DEF windowVars
  <2>2. /\ Signal' = Signal /\ Regions' = Regions /\ Leaders' = Leaders
        /\ \A R : Maxima(R)' = Maxima(R) /\ Closed(R)' = Closed(R)
    BY <2>1, SameWindow
  <2>3. Scanned' = Scanned
    BY <2>1 DEF Scanned, Index
  <2>4. WindowTypeOK' /\ SolvedLast'
    BY <2>1 DEF WindowInv, WindowTypeOK, SolvedLast, Last
  <2>5. VisitedAreRegions'
    BY <2>1, <2>2, <2>3 DEF WindowInv, VisitedAreRegions
  <2>6. PeakIsBest'
    <3>1. Found' = Found
      BY <2>1, <2>2, <2>3 DEF Found, Valid
    <3> QED
      BY <2>1, <3>1 DEF WindowInv, PeakIsBest
  <2> QED
    BY <2>4, <2>5, <2>6 DEF WindowInv
<1>5. CASE NewWindow
  BY <1>5, NewWindowKeeps
<1> QED
  BY <1>1, <1>2, <1>3, <1>4, <1>5 DEF WindowNext, Scan

\* The window, the scan and the coordinate keep their types, for every size of
\* the window and of its units and every width of int16_t.
THEOREM WindowTypes == WindowSpec => []WindowTypeOK
<1>1. WindowInit => WindowInv
  BY BlankWindow DEF WindowInit
<1>2. WindowInv /\ [WindowNext]_windowVars => WindowInv'
  BY ScanNext
<1>3. WindowInv => WindowTypeOK
  BY DEF WindowInv
<1> QED
  BY <1>1, <1>2, <1>3, PTL DEF WindowSpec

\* The finished scan in terms of the window: a region with one local maximum
\* has it for its leader.
LEMMA BestIsFound ==
    ASSUME WindowInv
    PROVE  PeakIsFound
<1> SUFFICES ASSUME next = Last PROVE PeakIsFound
  BY DEF PeakIsFound
<1>1. Scanned = Cells
  <2>1. \A a \in Cells : Index(a) < Last
    BY IndexIsUnique, GridAssumption DEF Last
  <2> QED
    BY <2>1 DEF Scanned
<1>2. Found = {a \in Leaders : Valid(a)}
  BY <1>1, LeadersAreCells DEF Found, Valid
<1>3. ASSUME NEW a \in Found PROVE a \in Candidates
  <2>1. PICK R \in Regions : Cardinality(R) < MaxConnected /\ a \in Maxima(R)
    BY <1>2, LeaderLeads
  <2>2. R \in Small
    BY <2>1 DEF Small
  <2>3. a \in UNION {Maxima(Q) : Q \in Small}
    BY <2>1, <2>2
  <2> QED
    BY <1>2, <2>3 DEF Candidates
<1>4. ASSUME NEW a \in Undisputed PROVE a \in Found
  <2>1. PICK R \in Small : Maxima(R) = {a}
    BY DEF Undisputed
  <2>2. Valid(a)
    BY DEF Undisputed, Candidates
  <2>3. RasterFirst(a, a)
    <3>1. R \in Regions /\ a \in R
      BY <2>1 DEF Small, Maxima
    <3>2. a \in Cells
      BY <3>1, RegionsAreClosed DEF Signal
    <3>3. Index(a) \in Int
      BY <3>2, IndexIsUnique
    <3> QED
      BY <3>3 DEF RasterFirst, Index
  <2>4. a \in {b \in Maxima(R) : \A c \in Maxima(R) : RasterFirst(b, c)}
    BY <2>1, <2>3
  <2>5. a \in Leaders
    BY <2>1, <2>4 DEF Leaders
  <2> QED
    BY <1>2, <2>2, <2>5
<1>5. PeakIsBest
  BY DEF WindowInv
<1>6. CASE peak = None
  BY <1>4, <1>5, <1>6 DEF PeakIsBest, PeakIsFound
<1>7. CASE peak # None
  <2>1. /\ peak \in Found /\ sum = Sum3x3(grid, peak)
        /\ \A a \in Found : \/ Sum3x3(grid, a) < sum
                            \/ Sum3x3(grid, a) = sum /\ RasterFirst(peak, a)
    BY <1>5, <1>7 DEF PeakIsBest
  <2> QED
    BY <1>3, <1>4, <1>7, <2>1 DEF PeakIsFound
<1> QED
  BY <1>6, <1>7

\* For every window, noise threshold and bound on a region: the peak is a local
\* maximum of a region that is no noise, and at least as strong as every one that
\* is alone in its region, however the fills overlapped (FindPeak).
THEOREM PeaksAreFound == WindowSpec => []PeakIsFound
<1>1. WindowInit => WindowInv
  BY BlankWindow DEF WindowInit
<1>2. WindowInv /\ [WindowNext]_windowVars => WindowInv'
  BY ScanNext
<1>3. WindowInv => PeakIsFound
  BY BestIsFound
<1> QED
  BY <1>1, <1>2, <1>3, PTL DEF WindowSpec

\* For every window, radius of the projection and width of int16_t: each half
\* of a coordinate is in the cell of its line's peak (CoordinateSolver).
THEOREM CoordinatesInCell == WindowSpec => []SolvedInCell
<1>1. WindowInit => WindowInv
  BY BlankWindow DEF WindowInit
<1>2. WindowInv /\ [WindowNext]_windowVars => WindowInv'
  BY ScanNext
<1>3. WindowInv => SolvedInCell
  <2> SUFFICES ASSUME WindowInv, raw \notin {<<>>, None} PROVE SolvedInCell
    BY DEF SolvedInCell
  <2>1. peak # None /\ raw = Coordinate(grid, peak)
    BY DEF WindowInv, SolvedLast
  <2>2. grid \in [Cells -> Int] /\ peak \in Cells
    BY <2>1, Window DEF WindowInv, WindowTypeOK
  <2> QED
    BY <2>1, <2>2, CoordinateInCells DEF SolvedInCell
<1> QED
  BY <1>1, <1>2, <1>3, PTL DEF WindowSpec
=============================================================================
