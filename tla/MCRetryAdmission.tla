-------------------------- MODULE MCRetryAdmission --------------------------
(* Small instances of RetryAdmission for TLC. *)
EXTENDS RetryAdmission

OnlyFresh == {Fresh}
FreshOrOld == InitialRecords
=============================================================================
