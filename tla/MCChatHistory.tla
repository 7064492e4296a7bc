---------------------------- MODULE MCChatHistory ----------------------------
(* TLC instances of ChatHistory. *)
EXTENDS ChatHistory
CONSTANTS a, b
MCUsers == {a, b}
==============================================================================
