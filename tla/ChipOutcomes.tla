----------------------------- MODULE ChipOutcomes -----------------------------
(***************************************************************************)
(* What Chip's operations come to, for whoever calls them: the outcomes    *)
(* that DeviceRuntime takes Chip::Init, HoldReset and Deinit for.          *)
(*                                                                         *)
(* chip is what the controller itself is in: "held" in reset, "raw", or    *)
(* "inited" by Init with nothing reset since.  conn is m_connState.        *)
(***************************************************************************)
VARIABLES conn, chip

Init == conn = FALSE /\ chip = "raw"

InitOk == conn' = TRUE /\ chip' = "inited"

\* An Init that returns early leaves m_connState as it was.
InitFails == UNCHANGED conn /\ chip' \in {chip, "held", "raw"}

HoldReset == conn' = FALSE /\ chip' \in {chip, "held"}

Deinit == conn' = FALSE /\ chip' \in {chip, "held", "raw"}

Next == InitOk \/ InitFails \/ HoldReset \/ Deinit

Spec == Init /\ [][Next]_<<conn, chip>>
==============================================================================
