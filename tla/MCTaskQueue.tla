------------------------------ MODULE MCTaskQueue ------------------------------
(* Small instances of the Redis Streams backend for TLC. *)
EXTENDS TaskQueue, TLC

CONSTANTS w1, w2, s1, s2

WorkerSymmetry == Permutations({w1, w2})
===============================================================================
