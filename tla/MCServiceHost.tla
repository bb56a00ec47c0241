--------------------------- MODULE MCServiceHost ----------------------------
(* TLC instances of ServiceHost; the cfg files give the constants.           *)
EXTENDS ServiceHostInv
=============================================================================
