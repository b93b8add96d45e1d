------------------------------- MODULE MCMfa -------------------------------
EXTENDS Mfa, TLC

CONSTANTS f1, r1, s1, s2, p1, p2

Symmetric == Permutations({s1, s2}) \cup Permutations({p1, p2})
=============================================================================
