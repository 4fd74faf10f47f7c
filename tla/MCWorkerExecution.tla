--------------------------- MODULE MCWorkerExecution ---------------------------
(* Instances of WorkerExecution: two Workers, one reconciler, one task. *)
EXTENDS WorkerExecution, TLC

CONSTANTS w1, w2, c1, c2, r1, h1
=============================================================================
