------------------------------ MODULE MCObjects ------------------------------
(***************************************************************************)
(* Small instances of Objects: two characters, and of each kind of object  *)
(* as many as the cfg names.                                               *)
(***************************************************************************)
EXTENDS Objects, TLC

CONSTANTS ann, bob, bag, bag2, flask, well, coins, corpse, here, donation

AllKinds == bag :> "bag" @@ bag2 :> "bag" @@ flask :> "flask" @@ well :> "fountain"
            @@ coins :> "coins" @@ corpse :> "corpse"
Weights  == bag :> 1 @@ bag2 :> 1 @@ flask :> 1 @@ well :> 0 @@ coins :> 0 @@ corpse :> 2

MCKind     == [o \in Objs |-> AllKinds[o]]
MCEmpty    == [o \in Objs |-> Weights[o]]
MCCapacity == [o \in Objs |-> IF AllKinds[o] = "bag" THEN 5 ELSE 0]

Symmetry == Permutations(Chars)
=============================================================================
