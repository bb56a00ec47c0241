------------------------------ MODULE MCStylus ------------------------------
(* TLC instance of Stylus: 3x3 cells with signal in five of them, in a corner *)
(* and in a T, where regions of one to four cells meet; int16_t is seven bits *)
(* wide.  The first frame holds any of these windows, later ones a few that   *)
(* differ in their outcome.                                                   *)
EXTENDS StylusInv, StylusWindowInv

Strengths   == {-4, 2, 5, 40}
ActiveCells == {<<0, 0>>, <<0, 1>>, <<0, 2>>, <<1, 1>>, <<2, 2>>}
Silence      == [a \in Cells |-> 0]

\* No peak; a peak in a line without a positive sum; a peak with a coordinate.
LaterWindows ==
    {Silence,
     [Silence EXCEPT ![<<0, 0>>] = 5, ![<<0, 1>>] = 2, ![<<0, 2>>] = -9],
     [Silence EXCEPT ![<<1, 1>>] = 40]}

Windows == LaterWindows \cup
    {[a \in Cells |-> IF a \in ActiveCells THEN f[a] ELSE 0] :
        f \in [ActiveCells -> Strengths]}
=============================================================================
