---------------------------- MODULE TouchStrokes ----------------------------
(* What the host may rely on: the frames of contacts that leave the gesture  *)
(* state machine are strokes.  An id is pressed, is in every frame while it  *)
(* is down, and is lifted exactly once before it may be pressed again.       *)

CONSTANTS Ids                 \* identifiers of contacts

VARIABLES down,               \* ids with the finger on the panel
          on, off             \* ids of the last frame, by their tip

vars == <<down, on, off>>

Init == down = {} /\ on = {} /\ off = {}

\* One frame presses and lifts some ids; every other id that is down is in it.
Frame == \E pressed \in SUBSET (Ids \ down), lifted \in SUBSET down :
            /\ down' = (down \cup pressed) \ lifted
            /\ on' = down'
            /\ off' = lifted

Spec == Init /\ [][Frame]_vars
=============================================================================
