--------------------------- MODULE MCFrameChannel ---------------------------
(* TLC instance of FrameChannel; the cfg files give the constants.         *)
EXTENDS FrameChannelInv
==============================================================================
