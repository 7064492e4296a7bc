---------------------------- MODULE MCAgentSession ----------------------------
(* TLC instances of AgentSession. *)
EXTENDS AgentSession
MCPrompts == {"p1", "p2"}
===============================================================================
