-------------------------- MODULE StylusWindowInv ---------------------------
(* The invariant behind PeakIsFound and SolvedInCell: TLC finds it to hold,   *)
(* StylusWindow_proofs shows that it is inductive.                            *)
EXTENDS StylusWindow

WindowTypeOK ==
    /\ grid \in Grids
    /\ next \in 0 .. Last
    /\ visited \in SUBSET Cells
    /\ peak \in Cells \cup {None}
    /\ sum \in Nat
    /\ raw \in {<<>>, None} \cup ((0 .. Dim * Unit - 1) \X (0 .. Dim * Unit - 1))

Index(a) == Dim * a[1] + a[2]
Scanned  == {a \in Cells : Index(a) < next}

\* The visited cells are whole regions, those that the scan met a peak of.
VisitedAreRegions ==
    /\ visited \subseteq Signal /\ Closed(visited)
    /\ \A a \in Scanned : IsPeak(grid, a) => a \in visited
    /\ \A b \in visited : \E R \in Regions, a \in Scanned : b \in R /\ a \in Maxima(R)

\* The first local maximum of a region stands for it.
Leaders == UNION {{a \in Maxima(R) : \A b \in Maxima(R) : RasterFirst(a, b)} : R \in Small}

\* The peak is the best of the leaders that the scan met.
Found == {a \in Leaders \cap Scanned : Valid(a)}
PeakIsBest ==
    /\ peak = None => Found = {} /\ sum = 0
    /\ peak # None => /\ peak \in Found /\ sum = Sum3x3(grid, peak)
                      /\ \A a \in Found : \/ Sum3x3(grid, a) < sum
                                          \/ Sum3x3(grid, a) = sum /\ RasterFirst(peak, a)

\* The coordinate is that of the peak of the whole scan.
SolvedLast == raw # <<>> => next = Last /\ peak # None /\ raw = Coordinate(grid, peak)

WindowInv == WindowTypeOK /\ VisitedAreRegions /\ PeakIsBest /\ SolvedLast
=============================================================================
