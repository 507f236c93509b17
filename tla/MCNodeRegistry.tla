--------------------------- MODULE MCNodeRegistry ---------------------------
EXTENDS NodeRegistry, TLC
Symmetry == Permutations(Hash) \cup Permutations(Name) \cup Permutations(Request)
=============================================================================
