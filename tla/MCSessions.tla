----------------------------- MODULE MCSessions -----------------------------
EXTENDS Sessions, TLC

CONSTANTS s1, s2, u1, u2, p1, p2

Symmetric == Permutations({p1, p2})
=============================================================================
