---------------------------- MODULE MCSessionFile ----------------------------
(* TLC instances of SessionFile. *)
EXTENDS SessionFile
===============================================================================
