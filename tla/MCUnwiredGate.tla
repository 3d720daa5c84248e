--------------------------- MODULE MCUnwiredGate ---------------------------
(* Instances of UnwiredGate: declarations with their own keys, and two     *)
(* declarations that share one (two packages of the same name).            *)
EXTENDS UnwiredGate, TLC

CONSTANTS d1, d2, k1, k2

OwnKeys == d1 :> k1 @@ d2 :> k2
OneDecl == d1 :> k1
SharedKey == d1 :> k1 @@ d2 :> k1

\* Runs are alike, and so are the declarations when each is swapped with its key.
Swap == d1 :> d2 @@ d2 :> d1 @@ k1 :> k2 @@ k2 :> k1
GateSymmetry == Permutations(Procs) \cup {Swap}
=============================================================================
