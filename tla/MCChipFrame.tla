----------------------------- MODULE MCChipFrame -----------------------------
(* TLC instance of ChipFrame; the cfg files give the constants.            *)
EXTENDS ChipFrameInv
==============================================================================
