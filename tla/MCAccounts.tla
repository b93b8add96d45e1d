----------------------------- MODULE MCAccounts -----------------------------
EXTENDS Accounts, TLC

CONSTANTS u1, u2, p1, p2

Symmetric == Permutations({p1, p2})
=============================================================================
