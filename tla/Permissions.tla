---------------------------- MODULE Permissions ----------------------------
(***************************************************************************)
(* Permission statements and ResourceAuthorizer.can: whether an actor with *)
(* some grants, or a role of some profile, may do an action on a resource. *)
(*                                                                         *)
(* A statement is resource:action or resource:action:scope; "*" alone is   *)
(* the wildcard of both without a scope.  One action asks a question, the  *)
(* other one answers it as the code does, and Access below says what the   *)
(* answer should be, without statements that are matched with statements.  *)
(***************************************************************************)
CONSTANTS
  Resource, Action,   \* names; "dashboard" and "read" are among them
  Scope,              \* the scopes of grants: own, any and some of the host's own
  Malformed, None     \* a grant that does not parse, and a sentinel

Profile == {"single_owner", "admin_viewer", "rbac"}
Role == {"owner", "admin", "viewer", "user"}
Statement == [resource : Resource \cup {"*"}, action : Action \cup {"*"},
              scope : Scope \cup {"*", None}]
All == [resource |-> "*", action |-> "*", scope |-> None]
Of(r, a, s) == [resource |-> r, action |-> a, scope |-> s]

NamesAssumption ==
  /\ "dashboard" \in Resource /\ "services" \in Resource /\ "read" \in Action
  /\ {"own", "any"} \subseteq Scope /\ "*" \notin Scope
  /\ None \notin Scope \cup Role /\ Malformed \notin Statement

VARIABLES
  ask,       \* the question: grants, role, profile, statement, ownership, status
  decision   \* None until it is answered

vars == <<ask, decision>>

\* One or two grants; each counts for itself.
Grants == {{g1, g2} : g1, g2 \in Statement \cup {Malformed}}
Required == [resource : Resource, action : Action, scope : Scope \cup {"*", None}]

\* The role counts only for an actor without grants.
Question ==
  [grants : Grants, role : {None}, profile : {"rbac"}, required : Required,
   owns : BOOLEAN, active : BOOLEAN]
  \cup
  [grants : {{}}, role : Role \cup {None}, profile : Profile, required : Required,
   owns : BOOLEAN, active : BOOLEAN]

-----------------------------------------------------------------------------
(* PolicyEngine *)

\* Two of the names of the two lists stand for all: one that is in both lists and one
\* that viewers alone may read.
ReadOnly == {Of("dashboard", "read", None), Of("services", "read", None)}
UserLevel == {Of("dashboard", "read", None)}
OfRole(role) ==
  CASE role \in {"owner", "admin"} -> {All} [] role = "viewer" -> ReadOnly [] OTHER -> UserLevel

PermissionsFor(profile, role) ==
  IF profile = "single_owner" THEN IF role = "owner" THEN {All} ELSE {}
  ELSE OfRole(role)

\* Faulty variant (for CanIsAccess): a wildcard of the actions forgets the scope (AUTHZ-001).
MatchesWildcard(granted, required) ==
  /\ granted # Malformed
  /\ granted.resource \in {"*", required.resource}
  /\ granted.action \in {"*", required.action}
  /\ \/ granted.action = "*"
     \/ granted.scope \in {None, "*", required.scope}
     \/ granted.scope = "any" /\ required.scope \in {None, "own"}

\* _permission_matches
Matches(granted, required) ==
  /\ granted # Malformed
  /\ granted.resource \in {"*", required.resource}
  /\ granted.action \in {"*", required.action}
  /\ \/ granted.scope \in {None, "*", required.scope}
     \/ granted.scope = "any" /\ required.scope \in {None, "own"}

Allows(granted, required) == \E g \in granted : Matches(g, required)

-----------------------------------------------------------------------------
(* ResourceAuthorizer *)

\* The statements any of which will do.
CandidateRequirements(st, owns) ==
  LET scopes == CASE st.scope = "any" -> {"any", None}
                  [] st.scope = "own" -> {"any", None} \cup (IF owns THEN {"own"} ELSE {})
                  [] OTHER            -> {None, "any"} \cup (IF owns THEN {"own"} ELSE {})
  IN  {Of(st.resource, st.action, s) : s \in scopes}

\* Only an actor without grants of its own has those of its role.
Effective(q) ==
  IF q.grants = {} /\ q.role # None THEN PermissionsFor(q.profile, q.role) ELSE q.grants

Can(q) ==
  /\ q.active
  /\ \E candidate \in CandidateRequirements(q.required, q.owns) : Allows(Effective(q), candidate)

Init == ask \in Question /\ decision = None

Decide ==
  /\ decision = None
  /\ decision' = Can(ask)
  /\ UNCHANGED ask

\* The same actor asks about the same row after its status or its owner changed.
AskAgain ==
  /\ decision # None
  /\ \E owns, active \in BOOLEAN : ask' = [ask EXCEPT !.owns = owns, !.active = active]
  /\ decision' = None

Next == Decide \/ AskAgain

Spec == Init /\ [][Next]_vars

-----------------------------------------------------------------------------
(* Properties *)

\* The rows a grant reaches: every one, those of the actor, or none that the core
\* knows of (the scopes of a host).
Reach(g) ==
  CASE g.scope \in {None, "*", "any"} -> {"mine", "others"}
    [] g.scope = "own"                -> {"mine"}
    [] OTHER                          -> {}

\* What is asked for: the row itself, or with the scope any every row.
Wanted(q) ==
  IF q.required.scope # "any" /\ q.owns THEN {"mine"} ELSE {"mine", "others"}

Access(q) ==
  /\ q.active
  /\ \E g \in Effective(q) \ {Malformed} :
       /\ g.resource \in {"*", q.required.resource}
       /\ g.action \in {"*", q.required.action}
       /\ Wanted(q) \subseteq Reach(g)

\* The matching of statements decides as the rows do: a grant for one's own rows,
\* with a wildcard or without, never reaches those of others (AUTHZ-001), and a
\* wider grant never reaches less.
CanIsAccess == decision # None => decision = Access(ask)
=============================================================================
