----------------------------- MODULE MCMemoryQueue -----------------------------
(* Small instances of the in-process backend for TLC. *)
EXTENDS MemoryQueue, TLC

CONSTANTS w1, w2, s1, s2, s3

WorkerSymmetry == Permutations(Workers)
===============================================================================
