------------------------------ MODULE MCBrowser ------------------------------
EXTENDS Browser, TLC

CONSTANTS st1, google, facebook, a1, n1, e1, e2, p1, p2, c1, c2, b1, b2, t1, t2, t3

\* Two subjects with the same name at different providers: one changes its address
\* to the one that the other has, unverified, or may not send.
MCProfile ==
  {[subject |-> <<google, a1>>, email |-> e1, verified |-> TRUE],
   [subject |-> <<google, a1>>, email |-> e2, verified |-> TRUE],
   [subject |-> <<facebook, a1>>, email |-> e2, verified |-> FALSE],
   [subject |-> <<facebook, a1>>, email |-> None, verified |-> FALSE]}

Symmetric == Permutations({p1, p2})
=============================================================================
