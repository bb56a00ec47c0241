---------------------------- MODULE MCAfeStylus ----------------------------
(* TLC instance of AfeStylus; the cfg files give the constants.            *)
EXTENDS AfeStylusInv
==============================================================================
