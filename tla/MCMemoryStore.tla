--------------------------- MODULE MCMemoryStore ---------------------------
EXTENDS MemoryStore, TLC

CONSTANTS s1, l1, e1, p1, p2

Symmetric == Permutations({p1, p2})
=============================================================================
