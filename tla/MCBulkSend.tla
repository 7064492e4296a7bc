------------------------------ MODULE MCBulkSend ------------------------------
(***************************************************************************)
(* Values for model checking BulkSend: two numbers, batches of one and of  *)
(* two recipients.                                                         *)
(***************************************************************************)
EXTENDS BulkSend, TLC

CONSTANTS p1, p2

MCRequests == {<<p1>>, <<p1, p2>>}
MCPair == {<<p1, p2>>}
MCSingle == {<<p1>>, <<p2>>}

MCSymmetry == Permutations(Dispatchers)
===============================================================================
