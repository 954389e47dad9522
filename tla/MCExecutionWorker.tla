-------------------------- MODULE MCExecutionWorker --------------------------
(* Instances of ExecutionWorker for TLC. *)
EXTENDS ExecutionWorker, TLC

CONSTANTS w1, w2

\* Worker slots are interchangeable.
WorkerSymmetry == Permutations(Workers)
=============================================================================
