-------------------------- MODULE MCAdministration --------------------------
(***************************************************************************)
(* Administration with the values TLC checks it for.                       *)
(***************************************************************************)
EXTENDS Administration, TLC

CONSTANTS u1, u2, p0, p1, p2, s1, s2, s3, e1, e2, t1, ps, pn, cs, cn

\* A seeded author and a user of the core, a seeded post with a comment, and one more
\* of each.
MCSeedAuthor == (ps :> u1) @@ (cs :> u1)
MCBoardRoles == (u1 :> "author") @@ (u2 :> None)

Symmetric == Permutations({p1, p2})
=============================================================================
