---------------------------- MODULE MCChatLogin ----------------------------
(* TLC instances of ChatLogin. *)
EXTENDS ChatLogin

CONSTANTS u1, r1, r2

MCUsers == {u1}
MCRequests == {r1, r2}
===========================================================================
