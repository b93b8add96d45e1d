------------------------------- MODULE Social -------------------------------
(***************************************************************************)
(* Social login of CorelineAuthService: the state that a browser carries   *)
(* to the provider and back, and the login that finds, links or creates    *)
(* the account for the profile the provider returned.                      *)
(*                                                                         *)
(* As in LoginFlows one action is one storage call of a handler in a       *)
(* thread of its own, a user is identified with its e-mail address, and a  *)
(* handler may die between any two calls.  A profile names its provider's  *)
(* subject, an address or None, and whether the provider verified it.      *)
(***************************************************************************)
EXTENDS Naturals

CONSTANTS
  State, Email, Proc,
  Provider, Account,    \* an account of a provider is a subject
  Nonce,                \* the nonces of browsers
  Profile,              \* the profiles the providers return in a run
  None,                 \* sentinel
  SingleOwner, Owner,   \* config.profile = SINGLE_OWNER, config.owner_email
  RequireVerified,      \* config.require_email_verified
  LinkVerifiedOnly      \* config.social_email_linking_requires_verified

Subject == Provider \X Account

ASSUME ConfigAssumption ==
  /\ Profile \subseteq
       [subject : Subject, email : Email \cup {None}, verified : BOOLEAN]
  /\ SingleOwner \in BOOLEAN /\ Owner \in Email
  /\ RequireVerified \in BOOLEAN /\ LinkVerifiedOnly \in BOOLEAN
  /\ None \notin State \cup Email \cup Nonce \cup Profile \cup Subject

VARIABLES
  begun,     \* what a state was begun with: provider and nonce, or None
  flow,      \* the login_flows row of a state
  users,     \* the users: absent, or whether the address is verified
  identity,  \* the identity of a subject: the user it is linked to, or None
  redeemed,  \* history: how many handlers the store handed the flow to
  linked,    \* history: how the identity of a subject came about
  contested, \* history: the subjects that two logins with different addresses
             \* linked for the first time
  sessions,  \* history: the sessions issued, with what their handler knew
  h          \* what each handler is at, and its locals

vars == <<begun, flow, users, identity, redeemed, linked, contested, sessions, h>>

Row == {"unverified", "verified"}
Begun == [provider : Provider, nonce : Nonce \cup {None}]
ASSUME SentinelAssumption == None \notin Begun

Label == {"idle", "read_state", "consume", "identity", "load", "lookup",
          "create", "link", "issue", "record"}
Handler == [pc : Label, state : State \cup {None}, nonce : Nonce \cup {None},
            profile : Profile \cup {None}, user : Email \cup {None},
            row : Row \cup {None}, created : BOOLEAN]
Session == [subject : Subject, user : Email, state : State \cup {None},
            nonce : Nonce \cup {None}]

Idle == [pc |-> "idle", state |-> None, nonce |-> None, profile |-> None,
         user |-> None, row |-> None, created |-> FALSE]

Init ==
  /\ begun = [s \in State |-> None]
  /\ flow = [s \in State |-> "absent"]
  /\ users = [e \in Email |-> None]
  /\ identity = [i \in Subject |-> None]
  /\ redeemed = [s \in State |-> 0]
  /\ linked = [i \in Subject |-> "never"]
  /\ contested = {}
  /\ sessions = {}
  /\ h = [p \in Proc |-> Idle]

Goto(p, label) == h' = [h EXCEPT ![p].pc = label]
Finish(p) == h' = [h EXCEPT ![p] = Idle]
Proceed(p, ok, label) == IF ok THEN Goto(p, label) ELSE Finish(p)

SubjectOf(p) == h[p].profile.subject
ProviderOf(p) == SubjectOf(p)[1]

\* _assert_owner_email, and enforce_profile_login on the row at hand.
Admits(e) == SingleOwner => e = Owner
ProfileAllows(e, r) == Admits(e) /\ (RequireVerified => r = "verified")

-----------------------------------------------------------------------------
(* The state *)

BeginSocialLogin(s, v, n) ==
  /\ begun[s] = None
  /\ begun' = [begun EXCEPT ![s] = [provider |-> v, nonce |-> n]]
  /\ flow' = [flow EXCEPT ![s] = "open"]
  /\ UNCHANGED <<users, identity, redeemed, linked, contested, sessions, h>>

\* Every reading of the clock finds the flow expired, or cleanup deletes it.
Lapse(s) ==
  /\ flow[s] = "open"
  /\ flow' = [flow EXCEPT ![s] = "absent"]
  /\ UNCHANGED <<begun, users, identity, redeemed, linked, contested, sessions, h>>

\* The provider sends a browser back, any number of times.  A host that has
\* consumed the state itself, or keeps none, calls login_social without it; then
\* the nonce is not looked at.
LoginSocial(p, s, n, f) ==
  /\ h[p].pc = "idle"
  /\ IF s = None THEN n = None ELSE begun[s] # None
  /\ h' = [h EXCEPT ![p] =
       [Idle EXCEPT !.pc = IF s = None THEN "identity" ELSE "read_state",
                    !.state = s, !.nonce = n, !.profile = f]]
  /\ UNCHANGED <<begun, flow, users, identity, redeemed, linked, contested, sessions>>

\* The row has the provider of the profile and, if it has one, the nonce.
Matches(p, b) ==
  /\ b.provider = ProviderOf(p)
  /\ b.nonce # None => b.nonce = h[p].nonce

ReadState(p) ==
  /\ h[p].pc = "read_state"
  /\ LET s == h[p].state IN
       Proceed(p, flow[s] = "open" /\ Matches(p, begun[s]), "consume")
  /\ UNCHANGED <<begun, flow, users, identity, redeemed, linked, contested, sessions>>

\* Faulty variant (for SessionsUseTheirState): the row is not tested again.
ConsumeAsRead(p) ==
  /\ h[p].pc = "consume"
  /\ LET s == h[p].state IN
       /\ flow' = [flow EXCEPT ![s] = "consumed"]
       /\ redeemed' = [redeemed EXCEPT ![s] = @ + 1]
  /\ Goto(p, "identity")
  /\ UNCHANGED <<begun, users, identity, linked, contested, sessions>>

ConsumeState(p) ==
  /\ h[p].pc = "consume"
  /\ LET s == h[p].state IN
       /\ flow[s] = "open"
       /\ flow' = [flow EXCEPT ![s] = "consumed"]
       /\ redeemed' = [redeemed EXCEPT ![s] = @ + 1]
  /\ Goto(p, "identity")
  /\ UNCHANGED <<begun, users, identity, linked, contested, sessions>>

-----------------------------------------------------------------------------
(* The account *)

\* Faulty variant (for SessionsFollowIdentity): a verified address that an account
\* has comes before the identity.
GetIdentityLast(p) ==
  /\ h[p].pc = "identity"
  /\ LET u == identity[SubjectOf(p)]
         e == h[p].profile.email
         taken == e # None /\ h[p].profile.verified /\ users[e] # None IN
       IF u # None /\ ~taken THEN h' = [h EXCEPT ![p].pc = "load", ![p].user = u]
                             ELSE Proceed(p, e # None, "lookup")
  /\ UNCHANGED <<begun, flow, users, identity, redeemed, linked, contested, sessions>>

GetIdentity(p) ==
  /\ h[p].pc = "identity"
  /\ LET u == identity[SubjectOf(p)] IN
       IF u # None THEN h' = [h EXCEPT ![p].pc = "load", ![p].user = u]
                   ELSE Proceed(p, h[p].profile.email # None, "lookup")
  /\ UNCHANGED <<begun, flow, users, identity, redeemed, linked, contested, sessions>>

\* _require_user and enforce_profile_login.
LoadUser(p) ==
  /\ h[p].pc = "load"
  /\ LET r == users[h[p].user] IN
       IF ProfileAllows(h[p].user, r)
       THEN h' = [h EXCEPT ![p].pc = "issue", ![p].row = r]
       ELSE Finish(p)
  /\ UNCHANGED <<begun, flow, users, identity, redeemed, linked, contested, sessions>>

\* An existing account is linked only by an address the provider verified.
LookupUser(p) ==
  /\ h[p].pc = "lookup"
  /\ LET e == h[p].profile.email
         r == users[e] IN
       \/ /\ r = None
          /\ h' = [h EXCEPT ![p].pc = "create", ![p].user = e]
       \/ /\ r # None
          /\ IF LinkVerifiedOnly /\ ~h[p].profile.verified THEN Finish(p)
             ELSE h' = [h EXCEPT ![p].pc = "link", ![p].user = e, ![p].row = r]
  /\ UNCHANGED <<begun, flow, users, identity, redeemed, linked, contested, sessions>>

\* Faulty variant (for TypeOK): an account waits in a state no login knows.
NewRowPending(p) == IF SingleOwner \/ h[p].profile.verified THEN "verified" ELSE "pending"

NewRow(p) == IF SingleOwner \/ h[p].profile.verified THEN "verified" ELSE "unverified"

\* Faulty variant (for LinkJustified): an account that has appeared meanwhile
\* is taken over instead of refused.
CreateOrGetUser(p) ==
  /\ h[p].pc = "create"
  /\ Admits(h[p].user)
  /\ users' = [users EXCEPT ![h[p].user] = IF @ = None THEN NewRow(p) ELSE @]
  /\ h' = [h EXCEPT ![p].pc = "link", ![p].created = users[h[p].user] = None,
                    ![p].row = users'[h[p].user]]
  /\ UNCHANGED <<begun, flow, identity, redeemed, linked, contested, sessions>>

\* The store refuses an address that is taken.  The identity of the address
\* itself, which create_user adds next, no social login looks up.
CreateUser(p) ==
  /\ h[p].pc = "create"
  /\ Admits(h[p].user) /\ users[h[p].user] = None
  /\ users' = [users EXCEPT ![h[p].user] = NewRow(p)]
  /\ h' = [h EXCEPT ![p].pc = "link", ![p].created = TRUE, ![p].row = NewRow(p)]
  /\ UNCHANGED <<begun, flow, identity, redeemed, linked, contested, sessions>>

\* A login that has found no identity yet and comes with another address.
Rival(q, p) ==
  /\ h[q].pc \in {"lookup", "create", "link"} /\ SubjectOf(q) = SubjectOf(p)
  /\ h[q].profile.email # h[p].user

\* The link is stored before enforce_profile_login may refuse the login, over one
\* that another login has stored since GetIdentity.
UpsertIdentity(p) ==
  /\ h[p].pc = "link"
  /\ identity' = [identity EXCEPT ![SubjectOf(p)] = h[p].user]
  /\ linked' = [linked EXCEPT ![SubjectOf(p)] =
       IF h[p].created THEN "created"
       ELSE IF h[p].profile.verified THEN "verified" ELSE "unverified"]
  /\ contested' = contested \cup
       {i \in {SubjectOf(p)} : identity[i] = None /\ \E q \in Proc \ {p} : Rival(q, p)}
  /\ Proceed(p, ProfileAllows(h[p].user, h[p].row), "issue")
  /\ UNCHANGED <<begun, flow, users, redeemed, sessions>>

IssueSession(p) ==
  /\ h[p].pc = "issue"
  /\ sessions' = sessions \cup
       {[subject |-> SubjectOf(p), user |-> h[p].user,
         state |-> h[p].state, nonce |-> h[p].nonce]}
  /\ Goto(p, "record")
  /\ UNCHANGED <<begun, flow, users, identity, redeemed, linked, contested>>

\* record_login writes back the row that was read, perhaps long before.
RecordLogin(p) ==
  /\ h[p].pc = "record"
  /\ users' = [users EXCEPT ![h[p].user] = h[p].row]
  /\ Finish(p)
  /\ UNCHANGED <<begun, flow, identity, redeemed, linked, contested, sessions>>

\* The handler dies, or a call of the store fails or finds the flow expired,
\* consumed or the address taken.
Crash(p) ==
  /\ h[p].pc # "idle"
  /\ Finish(p)
  /\ UNCHANGED <<begun, flow, users, identity, redeemed, linked, contested, sessions>>

\* Other flows: a signup, or the verification of an address.
OtherSignup(e, r) ==
  /\ users[e] = None \/ r = "verified"
  /\ users' = [users EXCEPT ![e] = r]
  /\ UNCHANGED <<begun, flow, identity, redeemed, linked, contested, sessions, h>>

Step(p) ==
  \/ ReadState(p) \/ ConsumeState(p) \/ GetIdentity(p) \/ LoadUser(p)
  \/ LookupUser(p) \/ CreateUser(p) \/ UpsertIdentity(p) \/ IssueSession(p)
  \/ RecordLogin(p) \/ Crash(p)

Next ==
  \/ \E s \in State : \/ \E v \in Provider, n \in Nonce \cup {None} : BeginSocialLogin(s, v, n)
                      \/ Lapse(s)
  \/ \E p \in Proc : \/ Step(p)
                     \/ \E s \in State \cup {None}, n \in Nonce \cup {None}, f \in Profile :
                          LoginSocial(p, s, n, f)
  \/ \E e \in Email, r \in Row : OtherSignup(e, r)

Spec == Init /\ [][Next]_vars

-----------------------------------------------------------------------------
(* Properties *)

\* The tables, the history and the locals of the handlers have their types.
TypeOK ==
  /\ begun \in [State -> Begun \cup {None}]
  /\ flow \in [State -> {"absent", "open", "consumed"}]
  /\ users \in [Email -> Row \cup {None}]
  /\ identity \in [Subject -> Email \cup {None}]
  /\ redeemed \in [State -> Nat]
  /\ linked \in [Subject -> {"never", "created", "verified", "unverified"}]
  /\ contested \subseteq Subject
  /\ sessions \subseteq Session
  /\ h \in [Proc -> Handler]

\* The state is consumed at most once, however many callbacks present it, and
\* every session of a callback has consumed its state, which was begun for the
\* provider that answered and, if it had one, with the nonce of the browser.
SessionsUseTheirState ==
  /\ \A s \in State : redeemed[s] <= 1
  /\ \A x \in sessions : x.state # None =>
       /\ redeemed[x.state] = 1
       /\ begun[x.state].provider = x.subject[1]
       /\ begun[x.state].nonce \in {None, x.nonce}

\* "Verified-email-only social account linking": whatever signups and logins
\* run at the same time, an identity is linked to an account that existed
\* before only by an address its provider verified.
LinkJustified ==
  LinkVerifiedOnly => \A i \in Subject : linked[i] # "unverified"

\* Provider identity first (dev-plan/implement_20260524_085212.md), as far as it
\* holds: all sessions of a subject are of the user its identity is linked to,
\* whatever address the provider sends later, unless the first logins of the subject,
\* none of which found its identity, ran at the same time with different addresses;
\* then the last upsert_identity moves the link.
SessionsFollowIdentity ==
  \A x \in sessions : x.subject \notin contested => identity[x.subject] = x.user

\* A state is a one-time token.
StateStatus(s) ==
  IF begun[s] = None THEN "fresh"
  ELSE IF redeemed[s] > 0 THEN "redeemed"
  ELSE IF flow[s] = "open" THEN "issued" ELSE "lapsed"

OneTime == INSTANCE OneTimeToken
             WITH Token <- State, status <- [s \in State |-> StateStatus(s)]
ImplementsOneTimeToken == OneTime!Spec
=============================================================================
