------------------------------ MODULE Rotation ------------------------------
(***************************************************************************)
(* Logins while a provider changes its keys, about one of two things: a    *)
(* cache that threads share, one of them with tokens of keys nobody has    *)
(* published (Oidc as it is extended here), or a login alone while the     *)
(* provider goes from one key to another (Change).                         *)
(***************************************************************************)
EXTENDS Oidc

CONSTANTS Alone   \* the threads of Change; none of them names the kid

VARIABLES part, cstatus, cage, ccache, cmiss, ch

Change == INSTANCE Oidc WITH
  Proc <- Alone, Naming <- {}, Foreign <- {},
  status <- cstatus, age <- cage, cache <- ccache, miss <- cmiss, h <- ch
cvars == <<cstatus, cage, ccache, cmiss, ch>>

RotationInit == part \in {"shared", "change"} /\ Init /\ Change!Init
RotationNext ==
  \/ part = "shared" /\ Next /\ UNCHANGED <<part, cvars>>
  \/ part = "change" /\ Change!Next /\ UNCHANGED <<part, vars>>

RotationSpec ==
  /\ RotationInit /\ [][RotationNext]_<<part, vars, cvars>>
  /\ \/ part = "shared" /\ Fairness
     \/ part = "change" /\ Change!Fairness

\* When the provider has gone on to another key for good, logins with the new one are
\* accepted again and again.
ChangeHeals == part = "change" => Change!RotationHeals

\* The cooldowns and refetches of a thread that names kids nobody publishes keep no
\* other thread's logins out for good.
SharedHeals == part = "shared" => RotationHeals
=============================================================================
