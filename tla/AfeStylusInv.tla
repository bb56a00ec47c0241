----------------------------- MODULE AfeStylusInv -----------------------------
(***************************************************************************)
(* The inductive invariant of AfeStylus.  The properties of the module are *)
(* about frames that really passed; the code compares frame numbers modulo *)
(* Wrap, so the invariant ties the two together.                           *)
(***************************************************************************)
EXTENDS AfeStylus

\* The frames since the last switch, as the code computes them, are never more
\* than those that really passed: a cooldown never ends early.
CooldownInv ==
  pen.lastSwitchFrame # 0 /\ sinceSwitch < Cooldown =>
    Age(pen.frameCounter, pen.lastSwitchFrame) <= sinceSwitch

IInv ==
  /\ TypeOK
  /\ CooldownInv
  /\ PendingHeals
  /\ NewPenIsFresh
  /\ SwitchCommandIsCurrent
==============================================================================
