------------------------------- MODULE MCWaLink -------------------------------
(***************************************************************************)
(* Values for model checking WaLink: the commands are interchangeable.     *)
(***************************************************************************)
EXTENDS WaLink, TLC

MCSymmetry == Permutations(Commands)
===============================================================================
