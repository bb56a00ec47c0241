----------------------------- MODULE StylusWindow ----------------------------
(* From the 9x9 window of a pen signal to a coordinate: the raster scan of    *)
(* GridPeakDetector, one cell at a time, then the projection and the solver.  *)
(* Stylus is the pipeline around them, frame after frame.                     *)
EXTENDS Integers, FiniteSets, FiniteSetsExt

CONSTANTS Grids,              \* windows that the first frame may hold
          NextGrids,          \* bound of the model: those of later frames
          Dim,                \* kGridDim
          NoiseThreshold,     \* noiseThreshold
          MaxConnected,       \* maxConnected
          ProjRadius,         \* projRadius
          Unit,               \* kCoorUnit
          Half                \* 2^15: the range of int16_t is -Half .. Half - 1

ASSUME GridAssumption ==
    /\ Dim \in Nat /\ Dim >= 3 /\ NoiseThreshold \in Nat /\ MaxConnected \in Nat
    /\ ProjRadius \in Nat /\ Half \in Nat \ {0}
    /\ Unit \in Nat \ {0} /\ Unit % 2 = 0
    /\ Grids \subseteq [(0 .. Dim - 1) \X (0 .. Dim - 1) -> -Half .. Half - 1]
    /\ NextGrids \subseteq Grids

Lines == 0 .. Dim - 1
Cells == Lines \X Lines
None  == <<-1, -1>>

VARIABLES grid,               \* the window, tx1.grid of the frame
          next,               \* cells scanned
          visited, peak, sum, \* visited and best of FindPeak
          raw                 \* rawCoor, <<>> before Solve, None if it is not valid

windowVars == <<grid, next, visited, peak, sum, raw>>
Abs(n) == IF n < 0 THEN -n ELSE n

Adjacent(a, b) == Abs(a[1] - b[1]) + Abs(a[2] - b[2]) = 1
Near(a, b, n)  == Abs(a[1] - b[1]) <= n /\ Abs(a[2] - b[2]) <= n

----------------------------------------------------------------------------
\* GridPeakDetector

IsPeak(g, a) == g[a] > NoiseThreshold /\ \A b \in Cells : Adjacent(a, b) => g[b] <= g[a]

FloodFill(g, seen, a) ==
    LET free == {b \in Cells \ seen : g[b] > NoiseThreshold}
        Grow(n, region) == region \cup {b \in free : \E c \in region : Adjacent(b, c)}
    IN FoldSet(Grow, {a}, 1 .. Cardinality(free))

Total(signal) == MapThenSumSet(LAMBDA i : signal[i], DOMAIN signal)

Sum3x3(g, a) == Total([b \in {b \in Cells : Near(a, b, 1)} |-> g[b]])

\* ProjectTo1D: column sums of the rows near the peak, and the reverse.
NearLines(i) == {j \in Lines : Abs(j - i) <= ProjRadius}
Dim1(g, a)   == [c \in Lines |-> Total([r \in NearLines(a[1]) |-> g[<<r, c>>]])]
Dim2(g, a)   == [r \in Lines |-> Total([c \in NearLines(a[2]) |-> g[<<r, c>>]])]

\* The first of the greatest values of a line, -1 unless it is positive.
FindLinePeak(signal) ==
    LET best == CHOOSE i \in Lines : /\ \A j \in Lines : signal[j] <= signal[i]
                                     /\ \A j \in Lines : signal[j] = signal[i] => i <= j
    IN IF signal[best] > 0 THEN best ELSE -1

----------------------------------------------------------------------------
\* CoordinateSolver.  C++ divides towards zero, a cast to int16_t wraps.

Quotient(a, b) == IF a >= 0 THEN a \div b ELSE -((-a) \div b)
ToInt16(n)     == ((n + Half) % (2 * Half)) - Half
\* Fault: the sums are cast.
SaturatedByCast(n) == ToInt16(n)
Saturated(n)   == IF n < -Half THEN -Half ELSE IF n > Half - 1 THEN Half - 1 ELSE n
Clamped(n, high) == IF n < 0 THEN 0 ELSE IF n > high THEN high ELSE n

\* Offset in the cell of the peak p, by its neighbours l and r; the smaller of
\* them is the base line, which stays below the peak.
TriangleAlgUsing3Point(l, p, r) ==
    LET base  == IF r < l THEN r ELSE l
        floor == IF p <= base THEN p - 1 ELSE base
        slope == Quotient(Quotient(((IF r < l THEN l ELSE r) - floor) * Unit, p - floor), 2)
    IN Unit \div 2 + (IF r < l THEN -slope ELSE slope)

\* At an edge the outer neighbour is virtual; the parameters are zero, which
\* the code takes for one, and the threshold on the sum is zero.
VirtualNeighbor(p, n1, n2) ==
    LET comp1 == (p - n1) * 10
        comp2 == p - Quotient(n1 - n2, 10)
    IN ToInt16(IF comp1 < comp2 THEN comp2 ELSE comp1)
BelowPeak(n, p) == IF p <= n THEN p - 1 ELSE n
TriangleAlgEdge(p, n1, n2) ==
    IF p + n1 + n2 < 0 THEN 0
    ELSE TriangleAlgUsing3Point(BelowPeak(VirtualNeighbor(p, n1, n2), p), p, n1)

SolveByTriangle(signal, i) ==
    LET s(j) == Saturated(signal[j]) IN
    IF i = 0 THEN TriangleAlgEdge(s(0), s(1), s(2))
    ELSE IF i = Dim - 1 THEN Dim * Unit - TriangleAlgEdge(s(Dim - 1), s(Dim - 2), s(Dim - 3))
    ELSE i * Unit + TriangleAlgUsing3Point(s(i - 1), s(i), s(i + 1))

\* Solve, by triangles: the coordinate on one line, -1 without a line peak.
SolveLine(signal) ==
    LET i == FindLinePeak(signal) IN
    IF i = -1 THEN -1 ELSE Clamped(SolveByTriangle(signal, i), Dim * Unit - 1)

Coordinate(g, a) == LET c == <<SolveLine(Dim1(g, a)), SolveLine(Dim2(g, a))>>
                    IN IF c[1] = -1 \/ c[2] = -1 THEN None ELSE c

----------------------------------------------------------------------------
\* A frame

WindowInit == /\ grid \in Grids
              /\ next = 0 /\ visited = {} /\ peak = None /\ sum = 0 /\ raw = <<>>

\* FindPeak visits the cells in raster order.
Cell    == <<next \div Dim, next % Dim>>
Last    == Dim * Dim
Skip    == /\ next < Last /\ next' = next + 1
           /\ Cell \in visited \/ ~IsPeak(grid, Cell)
           /\ UNCHANGED <<grid, visited, peak, sum, raw>>

\* A region is filled from its first peak, and the peak with the greatest sum
\* of neighbours is kept.
\* Fault: a region as large as the limit is no noise.
BetterLate(region) == Cardinality(region) <= MaxConnected /\ Sum3x3(grid, Cell) > sum
Better(region) == Cardinality(region) < MaxConnected /\ Sum3x3(grid, Cell) > sum
Visit   == /\ next < Last /\ next' = next + 1
           /\ Cell \notin visited /\ IsPeak(grid, Cell)
           /\ LET region == FloodFill(grid, visited, Cell) IN
              /\ visited' = visited \cup region
              /\ peak' = IF Better(region) THEN Cell ELSE peak
              /\ sum'  = IF Better(region) THEN Sum3x3(grid, Cell) ELSE sum
           /\ UNCHANGED <<grid, raw>>

\* ProjectTo1D and Solve, unless there is no peak.
Solve   == /\ next = Last /\ raw = <<>> /\ peak # None
           /\ raw' = Coordinate(grid, peak)
           /\ UNCHANGED <<grid, next, visited, peak, sum>>

Scan == Skip \/ Visit \/ Solve

\* The window has a coordinate, or none.
Finished == next = Last /\ (peak = None \/ raw # <<>>)

\* The worker goes on to the next frame, past a window it never looked at or
\* one that is finished.  FindPeak and Solve begin without anything of it.
NewWindow == /\ next = 0 \/ Finished
             /\ grid' \in NextGrids
             /\ next' = 0 /\ visited' = {} /\ peak' = None /\ sum' = 0 /\ raw' = <<>>

WindowNext == Scan \/ NewWindow

WindowSpec == WindowInit /\ [][WindowNext]_windowVars

----------------------------------------------------------------------------
\* Properties

\* The window as a reader would describe it: the regions of cells above the
\* noise, and their local maxima.
Signal     == {a \in Cells : grid[a] > NoiseThreshold}
Closed(R)  == \A a \in R, b \in Signal : Adjacent(a, b) => b \in R
Regions    == LET closed == {R \in SUBSET Signal : R # {} /\ Closed(R)}
              IN {R \in closed : \A Q \in closed : Q \subseteq R => Q = R}
Maxima(R)  == {a \in R : {b \in Cells : Adjacent(a, b) /\ grid[b] > grid[a]} = {}}
RasterFirst(a, b) == Dim * a[1] + a[2] <= Dim * b[1] + b[2]
Small      == {R \in Regions : Cardinality(R) < MaxConnected}
Valid(a)   == Sum3x3(grid, a) > 0
Candidates == {a \in UNION {Maxima(R) : R \in Small} : Valid(a)}
Undisputed == {a \in Candidates : \E R \in Small : Maxima(R) = {a}}

\* However the flood fills of earlier peaks left the visited cells, the scan
\* ends with a local maximum of a region that is no noise
\* (GridPeakDetector.cpp:82-101), and with one at least as strong as every local
\* maximum that is the only one of its region, the first among equals.
PeakIsFound ==
    next = Last =>
      /\ peak = None => Undisputed = {}
      /\ peak # None => /\ peak \in Candidates
                        /\ \A a \in Undisputed :
                              \/ Sum3x3(grid, a) < Sum3x3(grid, peak)
                              \/ /\ Sum3x3(grid, a) = Sum3x3(grid, peak)
                                 /\ RasterFirst(peak, a)

\* "Primary peak unit (strongest valid peak)" (GridPeakDetector.h:12): no other
\* local maximum has both a greater signal and a greater sum around it.
PeakIsStrongest ==
    next = Last =>
      \A a \in Candidates : /\ peak # None
                            /\ ~ /\ grid[a] > grid[peak]
                                 /\ Sum3x3(grid, a) > Sum3x3(grid, peak)

\* Interpolation stays in the cell of the line's peak, for signals that saturate
\* int16_t and for virtual neighbours that wrap (CoordinateSolver.cpp:43-53).
SolvedInCell ==
    raw \notin {<<>>, None} =>
      LET i1 == FindLinePeak(Dim1(grid, peak))
          i2 == FindLinePeak(Dim2(grid, peak)) IN
      raw \in (i1 * Unit .. (i1 + 1) * Unit) \X (i2 * Unit .. (i2 + 1) * Unit)
=============================================================================
