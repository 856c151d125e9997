---------------------------- MODULE MCWorkerPool ----------------------------
(* Instances of WorkerPool for TLC. *)
EXTENDS WorkerPool, TLC

(* Jobs are interchangeable; workers are not, since they try the queues in *)
(* the order of their numbers.                                             *)
Symmetry == Permutations(Job)
=============================================================================
