---------------------------- MODULE MCWorkerPool ----------------------------
(* An instance of WorkerPool for TLC. *)
EXTENDS WorkerPool
=============================================================================
