------------------------------ MODULE MCReviewRun ------------------------------
(* A small instance of a review task for TLC. *)
EXTENDS ReviewRun

CONSTANTS r1, r2
===============================================================================
