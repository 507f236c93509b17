--------------------------- MODULE MCTokenDetails ---------------------------
EXTENDS TokenDetails, TLC
Symmetry == Permutations(Request) \cup Permutations(Value) \cup Permutations(Field)
=============================================================================
