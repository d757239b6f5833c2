----------------------------- MODULE MCXrayPool -----------------------------
(* Small instances of XrayPool for TLC.                                     *)
EXTENDS XrayPool, TLC

PoolSymmetry == Permutations(Inst) \cup Permutations(Worker)

=============================================================================
