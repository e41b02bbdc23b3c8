------------------------------- MODULE MCRollout -------------------------------
(* Small instances of progressive delivery for TLC. *)
EXTENDS Rollout, TLC

CONSTANTS t1, t2
===============================================================================
