----------------------------- MODULE MCElevation -----------------------------
(***************************************************************************)
(* Elevation with the values TLC checks it for.                            *)
(***************************************************************************)
EXTENDS Elevation, TLC

CONSTANTS f1, r1, s1, s2, p1, p2, l1, u1

\* Three pages, one of them on the machine itself.
Page(scheme, host) == [scheme |-> scheme, host |-> host]
MCOrigin == {Page("https", <<"app", "site">>), Page("https", <<"old", "site">>),
             Page("http", <<"local">>)}
MCRpId == {<<"site">>, <<"app", "site">>, <<"local">>}
MCLocalHost == {<<"local">>}

Symmetric == Permutations({p1, p2})
=============================================================================
