----------------------------- MODULE MCAgentSession -----------------------------
(* A small instance of the agentic review for TLC. *)
EXTENDS AgentSession

CONSTANTS a1, a2, security, reliability, f1, f2

MCAnswers == {{f1}, {f1, f2}}
===============================================================================
