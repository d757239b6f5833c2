--------------------------- MODULE MCBatchTester ---------------------------
(* Small instances of BatchTester for TLC.                                  *)
EXTENDS BatchTester, TLC

WorkerSymmetry == Permutations(Worker)

\* Indexes of the special profiles in the runs of two and of three profiles.
None == {}
First == {0}
Second == {1}
Third == {2}

=============================================================================
