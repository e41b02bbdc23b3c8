---------------------------- MODULE MCReviewSystem -----------------------------
(* Small instances of the review service for TLC. *)
EXTENDS ReviewSystem, TLC

CONSTANTS w1, w2, s1, s2

WorkerSymmetry == Permutations({w1, w2})
===============================================================================
