------------------------------ MODULE MCTouch -------------------------------
(* TLC instance of Touch; the cfg files give the constants.                  *)
EXTENDS TouchInv
=============================================================================
