--------------------------- MODULE MCResultQueue ---------------------------
(* Small instances of ResultQueue for TLC: the constants are in the cfgs.   *)
EXTENDS ResultQueue, TLC

=============================================================================
