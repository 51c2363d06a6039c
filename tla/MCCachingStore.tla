--------------------------- MODULE MCCachingStore ---------------------------
EXTENDS CachingStore, TLC

Symmetry == Permutations(Keys) \cup Permutations(Vals)
=============================================================================
