---------------------------- MODULE MCLoginFlows ----------------------------
EXTENDS LoginFlows, TLC

CONSTANTS e1, e2, t1, t2, p1, p2

\* Processes, and the tokens, are interchangeable; addresses are not (Owner).
Symmetric == Permutations({p1, p2}) \cup Permutations({t1, t2})
=============================================================================
