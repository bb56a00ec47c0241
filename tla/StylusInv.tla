----------------------------- MODULE StylusInv ------------------------------
(* The invariant behind VisitStartsOver: TLC finds it to hold, Stylus_proofs  *)
(* shows that it is inductive.                                                *)
EXTENDS Stylus

\* No register of a filter holds a value from before the present visit.
FiltersAreFresh == post \in Posts(SUBSET {"now"})

\* After a frame without pen the next one resets, and the pen hovers or touches
\* no more.
AbsentIsOver == /\ away > 0 => ~prevValid
                /\ away > 0 => lifecycle \in {"Leave", "Lifting"}

\* The lifting pen has not timed out.
LiftingInTime == lifecycle = "Lifting" => liftingFrames <= LiftingTimeout

TInv == TypeOK /\ LiftingInTime
IInv == TInv /\ FiltersAreFresh /\ AbsentIsOver /\ VisitStartsOver
=============================================================================
