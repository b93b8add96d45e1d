---------------------------- MODULE OneTimeToken ----------------------------
(***************************************************************************)
(* What a mailed one-time token promises: it is issued once, and then it   *)
(* is either redeemed, once and for good, or it lapses unused.  LoginFlows *)
(* implements this.                                                        *)
(***************************************************************************)
CONSTANT Token

VARIABLE status

Status == {"fresh", "issued", "redeemed", "lapsed"}

Init == status = [t \in Token |-> "fresh"]

Issue(t) ==
  /\ status[t] = "fresh"
  /\ status' = [status EXCEPT ![t] = "issued"]

Redeem(t) ==
  /\ status[t] = "issued"
  /\ status' = [status EXCEPT ![t] = "redeemed"]

\* Expired tokens are deleted in bulk, several at a time.
Lapse(S) ==
  /\ \A t \in S : status[t] = "issued"
  /\ status' = [t \in Token |-> IF t \in S THEN "lapsed" ELSE status[t]]

Next ==
  \/ \E t \in Token : Issue(t) \/ Redeem(t)
  \/ \E S \in SUBSET Token : Lapse(S)

Spec == Init /\ [][Next]_status
=============================================================================
