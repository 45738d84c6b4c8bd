-------------------------- MODULE MCWorkerSession --------------------------
(* The instances of WorkerSession that TLC checks: two workers main runs beside one *)
(* whose connection is idle, and a worker main runs on its own.                     *)
EXTENDS WorkerSession, TLC

CONSTANTS w1, w2, w3, j1, j2

Symmetry == Permutations({w1, w2}) \cup Permutations({j1, j2})

=============================================================================
