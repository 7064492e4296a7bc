---------------------------- MODULE MCAuthStorage ----------------------------
(* TLC instances of AuthStorage: two instances, each with a call under way. *)
EXTENDS AuthStorage, TLC

CONSTANTS i1, i2, c1, c2, p1, p2

MCInstanceOf == (c1 :> i1) @@ (c2 :> i2)

\* the instances may change places, with their calls, and so may the providers
MCSwap(x, y) == (x :> y) @@ (y :> x)
MCInstances == MCSwap(i1, i2) @@ MCSwap(c1, c2)
MCSymmetry == {MCInstances, MCSwap(p1, p2), MCInstances @@ MCSwap(p1, p2)}
===============================================================================
