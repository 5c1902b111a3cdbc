------------------------------ MODULE MCBoards ------------------------------
EXTENDS Boards, TLC

\* Connections differ in nothing but their names.
AuthorSymmetry == Permutations(Authors)
=============================================================================
