------------------------------ MODULE Passkey ------------------------------
(***************************************************************************)
(* Passkeys (webauthn.py): a registration and the assertions that follow,  *)
(* with a host that stores what the functions return, as it must, and may  *)
(* or may not forget a challenge that was used.  The authenticator, a copy *)
(* of it, and the browser, which signs for a page only if the relying      *)
(* party is the host of the page or a domain above it, are external.       *)
(*                                                                         *)
(* A host name is the sequence of its labels.  Signatures are not forged;  *)
(* decoding and parsing, which only raise, are left out.                   *)
(***************************************************************************)
EXTENDS Naturals, Sequences, SequencesExt, FiniteSets

CONSTANTS
  Challenge, Device,
  Origin,      \* pages: scheme and host
  RpId,        \* relying parties the host may be set up with
  LocalHost,   \* the hosts for which plain HTTP will do
  MaxCount,    \* bound on the counters of the devices
  MaxMade,     \* bound on the assertions
  None         \* sentinel

OriginAssumption ==
  /\ \A o \in Origin : o.scheme \in {"http", "https"} /\ o.host \in Seq(STRING)
  /\ RpId \subseteq Seq(STRING) /\ LocalHost \subseteq Seq(STRING)

VARIABLES
  origin, rp, verification, forgets,   \* how the host is set up
  challenge,   \* the challenges: unused, pending or done
  passkey,     \* None, or the sign counter the host has stored
  counter,     \* the counters of the devices; 0 for one that does not count
  made,        \* the assertions the devices made
  accepted,    \* history: the assertions that were accepted
  again        \* history: those that were accepted once more

setup == <<origin, rp, verification, forgets>>
vars == <<setup, challenge, passkey, counter, made, accepted, again>>

\* d is h or a domain above it.
Within(h, d) == IsSuffix(d, h)

\* _validate_origin_and_rp
OriginFits(o, r) ==
  IF o.scheme = "http"
  THEN o.host \in LocalHost /\ r = o.host
  ELSE r # <<>> /\ Within(o.host, r)

Init ==
  /\ origin \in Origin /\ rp \in RpId /\ verification \in BOOLEAN /\ forgets \in BOOLEAN
  /\ challenge = [c \in Challenge |-> "unused"]
  /\ passkey = None
  /\ counter \in [Device -> {0, 1}]
  /\ made = {}
  /\ accepted = {} /\ again = {}

GenerateChallenge(c) ==
  /\ challenge[c] = "unused"
  /\ challenge' = [challenge EXCEPT ![c] = "pending"]
  /\ UNCHANGED <<setup, passkey, counter, made, accepted, again>>

Spent(c) == IF forgets THEN [challenge EXCEPT ![c] = "done"] ELSE challenge

\* A device with its counter as it is now.
Register(c, d) ==
  /\ challenge[c] = "pending" /\ passkey = None
  /\ OriginFits(origin, rp)
  /\ passkey' = counter[d]
  /\ challenge' = Spent(c)
  /\ UNCHANGED <<setup, counter, made, accepted, again>>

\* A device answers a challenge on a page, which need not be one of the host; one that
\* counts does so for each answer.
Sign(c, d, page, r, verified) ==
  /\ challenge[c] # "unused" /\ passkey # None
  /\ Within(page.host, r)
  /\ counter[d] < MaxCount /\ Cardinality(made) < MaxMade
  /\ counter' = [counter EXCEPT ![d] = IF @ = 0 THEN 0 ELSE @ + 1]
  /\ made' = made \cup {[challenge |-> c, page |-> page, rp |-> r, verified |-> verified,
                         count |-> counter'[d]]}
  /\ UNCHANGED <<setup, challenge, passkey, accepted, again>>

\* Faulty variant (for AssertionsAreFresh): a repeated counter will do.
ReplayedAtMost(count) == passkey > 0 /\ count < passkey
Replayed(count) == passkey > 0 /\ count <= passkey

\* verify_passkey_assertion_response, and the host stores the counter.
Verify(a) ==
  /\ passkey # None /\ challenge[a.challenge] = "pending"
  /\ OriginFits(origin, rp)
  /\ a.page = origin /\ a.rp = rp
  /\ verification => a.verified
  /\ ~Replayed(a.count)
  /\ passkey' = a.count
  /\ challenge' = Spent(a.challenge)
  /\ accepted' = accepted \cup {a}
  /\ again' = again \cup (accepted \cap {a})
  /\ UNCHANGED <<setup, counter, made>>

Next ==
  \/ \E c \in Challenge :
       \/ GenerateChallenge(c)
       \/ \E d \in Device :
            \/ Register(c, d)
            \/ \E page \in Origin, r \in RpId, v \in BOOLEAN : Sign(c, d, page, r, v)
  \/ \E a \in made : Verify(a)

Spec == Init /\ [][Next]_vars

-----------------------------------------------------------------------------
(* Properties *)

\* An assertion is accepted once if the host forgets its challenge or the device
\* counts; a challenge that is forgotten serves one assertion; and of the answers of a
\* device that counts and of a copy of it, no two with the same counter are accepted.
AssertionsAreFresh ==
  /\ \A a \in again : ~forgets /\ a.count = 0
  /\ forgets => \A a, b \in accepted : a.challenge = b.challenge => a = b
  /\ \A a, b \in accepted : a.count > 0 /\ a.count = b.count => a = b
=============================================================================
