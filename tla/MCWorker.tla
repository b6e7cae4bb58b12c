------------------------------ MODULE MCWorker ------------------------------
(* The requests of a run are interchangeable.                              *)
EXTENDS Worker, TLC

RequestSymmetry == Permutations(Requests)
=============================================================================
