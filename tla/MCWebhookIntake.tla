---------------------------- MODULE MCWebhookIntake ----------------------------
(* Small instances of the webhook intake for TLC. *)
EXTENDS WebhookIntake, TLC

CONSTANTS h1, h2, d1, d2, p1, p2, p3, t1, t2, t3

IntakeSymmetry ==
  Permutations({h1, h2}) \cup Permutations({d1, d2}) \cup Permutations({t1, t2, t3})
===============================================================================
