-------------------------- MODULE MCDeletePipeline --------------------------
(* Instances of DeletePipeline small enough for TLC: the first zone holds  *)
(* one asset and the other zone, if there is one, holds the rest.          *)
EXTENDS DeletePipeline, TLC

CONSTANTS a1, a2, a3, private, shared

AllShared == [a \in Assets |-> shared]
TwoZones == [a \in Assets |-> IF a = a1 THEN private ELSE shared]

Symmetry == Permutations({a2, a3})
=============================================================================
