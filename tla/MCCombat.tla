------------------------------ MODULE MCCombat ------------------------------
EXTENDS Combat, TLC
Symmetry == Permutations(Chars)
\* Nobody is got up by a bash while anybody follows anybody.
Apart == Risen(fight) # {} => \A c \in Chars : master[c] = NoChar
=============================================================================
