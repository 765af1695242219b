-------------------------- MODULE MCMigrationApply --------------------------
(* Instances of MigrationApply and QuarantineRoots small enough for TLC.   *)
EXTENDS QuarantineRoots

CONSTANT i1

(* Two roots: nothing left behind, a directory in one of them, in both.    *)
LeftBehind == {<<Absent, Absent>>, <<i1, Absent>>, <<i1, i1>>}
=============================================================================
