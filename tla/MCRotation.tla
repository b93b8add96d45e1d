----------------------------- MODULE MCRotation -----------------------------
EXTENDS Rotation

CONSTANTS other, k1, k2, p1, p2

\* A plain token, one for two parties that the other one asked for, one that
\* expired within the leeway, and two whose clock is too far ahead.
Plain == [aud |-> {Client}, azp |-> None, exp |-> 1, iat |-> 0, nbf |-> None, fits |-> TRUE]
MCClaims == {Plain, [Plain EXCEPT !.aud = {Client, other}, !.azp = other],
             [Plain EXCEPT !.exp = -1], [Plain EXCEPT !.iat = 2],
             [Plain EXCEPT !.nbf = 2]}
=============================================================================
