----------------------------- MODULE LoginFlows -----------------------------
(***************************************************************************)
(* The mailed-token flows of CorelineAuthService: magic links, e-mail      *)
(* verification and password reset, from the request that creates the      *)
(* login flow to the last write of the handler that consumes it.           *)
(*                                                                         *)
(* Each handler runs in a thread of its own (a member of Proc).  One       *)
(* action is one call of the storage, which the SQL stores execute         *)
(* atomically; other handlers interleave between any two of them, and a    *)
(* handler may die between any two.  A user is identified with its e-mail  *)
(* address, which no operation changes.  Rate limiting only refuses        *)
(* requests before they have any effect (RateLimit models it).             *)
(***************************************************************************)
EXTENDS Naturals

CONSTANTS
  Email, Token, Proc,
  NoUser, NoLink, None,      \* sentinels
  InitialUsers,              \* accounts that exist, unverified, at the start
  SingleOwner, Owner,        \* config.profile = SINGLE_OWNER, config.owner_email
  RequireVerified,           \* config.require_email_verified
  RevokeOnPasswordChange,    \* config.revoke_sessions_on_password_change
  Ttl,                       \* config.login_flow_ttl_seconds, in clock ticks
  MaxClock                   \* bound on the clock

ASSUME ConfigAssumption ==
  /\ InitialUsers \subseteq Email /\ Owner \in Email
  /\ SingleOwner \in BOOLEAN /\ RequireVerified \in BOOLEAN
  /\ RevokeOnPasswordChange \in BOOLEAN
  /\ Ttl \in Nat \ {0} /\ MaxClock \in Nat

VARIABLES
  clock,     \* the time now_utc() reads
  users,     \* row of the users table per e-mail: status and verified flag
  identity,  \* the e-mail identity row: absent, or its email_verified flag
  password,  \* the reset token whose handler set the password, or None
  link,      \* what was mailed: kind, address and expiry of a token's flow
  flow,      \* the login_flows row: absent, open or consumed
  session,   \* the session issued for a magic-link token
  redeemed,  \* history: how many handlers the store handed the flow to
  pc, kind, tok, email, now, row   \* the locals of each handler

store == <<users, identity, password, link, flow, session, redeemed>>
locals == <<pc, kind, tok, email, now, row>>
vars == <<clock, store, locals>>

Kind == {"magic_link", "email_verification", "password_reset"}
UserRow == [status : {"active", "inactive"}, verified : BOOLEAN]
Link == [kind : Kind, email : Email, expires : Nat]
ASSUME SentinelAssumption ==
  /\ None \notin Token /\ None \notin Email /\ None \notin Kind
  /\ NoUser \notin UserRow /\ NoLink \notin Link
Label == {"idle", "create_flow", "consume", "lookup", "create", "identity",
          "issue", "record", "verify", "mark_identity", "set", "revoke",
          "done", "rejected", "refused"}

Init ==
  /\ clock = 0
  /\ users = [e \in Email |-> IF e \in InitialUsers
                 THEN [status |-> "active", verified |-> FALSE] ELSE NoUser]
  /\ identity = [e \in Email |-> IF e \in InitialUsers THEN "unverified"
                                                       ELSE "absent"]
  /\ password = [e \in Email |-> None]
  /\ link = [t \in Token |-> NoLink]
  /\ flow = [t \in Token |-> "absent"]
  /\ session = [t \in Token |-> "none"]
  /\ redeemed = [t \in Token |-> 0]
  /\ pc = [p \in Proc |-> "idle"]
  /\ kind = [p \in Proc |-> None]
  /\ tok = [p \in Proc |-> None]
  /\ email = [p \in Proc |-> None]
  /\ now = [p \in Proc |-> 0]
  /\ row = [p \in Proc |-> NoUser]

Goto(p, label) == pc' = [pc EXCEPT ![p] = label]

\* Faulty variant (for OnlyOwnerExists): no assert_owner_email.
AdmitsAnyone(e) == TRUE
Admits(e) == SingleOwner => e = Owner
Exists(e) == users[e] # NoUser
IsActive(u) == u # NoUser /\ u.status = "active"

\* enforce_profile_login on the row the handler holds.
ProfileAllows(e, u) == Admits(e) /\ (RequireVerified => u.verified)

-----------------------------------------------------------------------------
(* Requests: create a login flow and mail its token *)

\* The checks each request makes before it creates a flow.
MayRequest(k, e) ==
  /\ Admits(e)
  /\ k # "magic_link" => IsActive(users[e])

\* generate_token() is fresh: no other handler and no flow has it.
FreshToken(t) == link[t] = NoLink /\ \A p \in Proc : tok[p] # t

Request(p, k, e, t) ==
  /\ pc[p] = "idle"
  /\ MayRequest(k, e)
  /\ FreshToken(t)
  /\ Goto(p, "create_flow")
  /\ kind' = [kind EXCEPT ![p] = k]
  /\ email' = [email EXCEPT ![p] = e]
  /\ tok' = [tok EXCEPT ![p] = t]
  /\ now' = [now EXCEPT ![p] = clock]
  /\ UNCHANGED <<clock, store, row>>

\* create_login_flow, then the mail.  A mail that is never sent or never
\* arrives is a token nobody presents.
CreateFlow(p) ==
  /\ pc[p] = "create_flow"
  /\ link' = [link EXCEPT ![tok[p]] =
                [kind |-> kind[p], email |-> email[p], expires |-> now[p] + Ttl]]
  /\ flow' = [flow EXCEPT ![tok[p]] = "open"]
  /\ Goto(p, "done")
  /\ UNCHANGED <<clock, users, identity, password, session, redeemed,
                 kind, tok, email, now, row>>

-----------------------------------------------------------------------------
(* Consumption: shared prefix *)

\* A mailed token arrives at the endpoint for k, any number of times.
Present(p, t, k) ==
  /\ pc[p] = "idle"
  /\ link[t] # NoLink
  /\ Goto(p, "consume")
  /\ kind' = [kind EXCEPT ![p] = k]
  /\ tok' = [tok EXCEPT ![p] = t]
  /\ now' = [now EXCEPT ![p] = clock]
  /\ UNCHANGED <<clock, store, email, row>>

\* Faulty variants of the conditional consume: the expiry instant still counts
\* (for NoLateRedemption), the kind is not tested (for EffectsJustified).
ConsumableAtExpiry(t, k, n) ==
  flow[t] = "open" /\ link[t].kind = k /\ link[t].expires >= n
ConsumableAnyKind(t, k, n) == flow[t] = "open" /\ link[t].expires > n

\* The WHERE clause of consume_login_flow_by_state_hash.
Consumable(t, k, n) ==
  /\ flow[t] = "open"
  /\ link[t].kind = k
  /\ link[t].expires > n

\* Faulty variant (for ImplementsOneTimeToken): the row is returned but not
\* marked consumed.
ConsumeUnmarked(p) ==
  /\ pc[p] = "consume"
  /\ Consumable(tok[p], kind[p], now[p])
  /\ redeemed' = [redeemed EXCEPT ![tok[p]] = @ + 1]
  /\ email' = [email EXCEPT ![p] = link[tok[p]].email]
  /\ Goto(p, "lookup")
  /\ UNCHANGED <<clock, users, identity, password, link, flow, session,
                 kind, tok, now, row>>

Consume(p) ==
  /\ pc[p] = "consume"
  /\ Consumable(tok[p], kind[p], now[p])
  /\ flow' = [flow EXCEPT ![tok[p]] = "consumed"]
  /\ redeemed' = [redeemed EXCEPT ![tok[p]] = @ + 1]
  /\ email' = [email EXCEPT ![p] = link[tok[p]].email]
  /\ Goto(p, "lookup")
  /\ UNCHANGED <<clock, users, identity, password, link, session,
                 kind, tok, now, row>>

ConsumeNothing(p) ==
  /\ pc[p] = "consume"
  /\ ~Consumable(tok[p], kind[p], now[p])
  /\ Goto(p, "rejected")
  /\ UNCHANGED <<clock, store, kind, tok, email, now, row>>

\* The user row the rest of the handler works on; what follows it depends on
\* the kind of token.  Only the magic link goes on for an inactive user.
AfterLookup(k, e, u) ==
  CASE k = "magic_link" /\ u = NoUser -> "create"
    [] k = "magic_link" /\ u # NoUser ->
         IF ProfileAllows(e, u) THEN "issue" ELSE "refused"
    [] k = "email_verification" -> IF IsActive(u) THEN "verify" ELSE "refused"
    [] OTHER -> IF IsActive(u) /\ Admits(e) THEN "set" ELSE "refused"

Lookup(p) ==
  /\ pc[p] = "lookup"
  /\ row' = [row EXCEPT ![p] = users[email[p]]]
  /\ Goto(p, AfterLookup(kind[p], email[p], users[email[p]]))
  /\ UNCHANGED <<clock, store, kind, tok, email, now>>

-----------------------------------------------------------------------------
(* Creating users: create_user, called by the host and by magic links *)

\* The host creates an account; email_verified is left at its default.
Provision(p, e) ==
  /\ pc[p] = "idle"
  /\ Admits(e)
  /\ Goto(p, "create")
  /\ email' = [email EXCEPT ![p] = e]
  /\ UNCHANGED <<clock, store, kind, tok, now, row>>

\* Faulty variants: a verified user whoever asks (for VerifiedByMail), a row
\* without a known status (TypeOK).
NewUserVerified(p) == [status |-> "active", verified |-> TRUE]
NewUserPending(p) == [status |-> "pending", verified |-> FALSE]

NewUser(p) ==
  [status |-> "active", verified |-> SingleOwner \/ kind[p] = "magic_link"]

CreateUser(p) ==
  /\ pc[p] = "create"
  /\ ~Exists(email[p])
  /\ users' = [users EXCEPT ![email[p]] = NewUser(p)]
  /\ row' = [row EXCEPT ![p] = NewUser(p)]
  /\ Goto(p, "identity")
  /\ UNCHANGED <<clock, identity, password, link, flow, session, redeemed,
                 kind, tok, email, now>>

\* The unique index on the address: someone else created the user meanwhile.
CreateUserFails(p) ==
  /\ pc[p] = "create"
  /\ Exists(email[p])
  /\ Goto(p, "refused")
  /\ UNCHANGED <<clock, store, kind, tok, email, now, row>>

UpsertIdentity(p) ==
  /\ pc[p] = "identity"
  /\ identity' = [identity EXCEPT ![email[p]] =
                    IF row[p].verified THEN "verified" ELSE "unverified"]
  /\ Goto(p, IF kind[p] # "magic_link" THEN "done"
             ELSE IF ProfileAllows(email[p], row[p]) THEN "issue" ELSE "refused")
  /\ UNCHANGED <<clock, users, password, link, flow, session, redeemed,
                 kind, tok, email, now, row>>

-----------------------------------------------------------------------------
(* The rest of each consumer *)

IssueSession(p) ==
  /\ pc[p] = "issue"
  /\ session' = [session EXCEPT ![tok[p]] = "live"]
  /\ Goto(p, "record")
  /\ UNCHANGED <<clock, users, identity, password, link, flow, redeemed,
                 kind, tok, email, now, row>>

\* record_login writes back the whole row read at the lookup.
RecordLogin(p) ==
  /\ pc[p] = "record"
  /\ users' = [users EXCEPT ![email[p]] = row[p]]
  /\ Goto(p, "done")
  /\ UNCHANGED <<clock, identity, password, link, flow, session, redeemed,
                 kind, tok, email, now, row>>

VerifyEmail(p) ==
  /\ pc[p] = "verify"
  /\ users' = [users EXCEPT ![email[p]] =
                  [status |-> row[p].status, verified |-> TRUE]]
  /\ Goto(p, "mark_identity")
  /\ UNCHANGED <<clock, identity, password, link, flow, session, redeemed,
                 kind, tok, email, now, row>>

MarkIdentity(p) ==
  /\ pc[p] = "mark_identity"
  /\ identity' = IF identity[email[p]] = "absent" THEN identity
                 ELSE [identity EXCEPT ![email[p]] = "verified"]
  /\ Goto(p, "done")
  /\ UNCHANGED <<clock, users, password, link, flow, session, redeemed,
                 kind, tok, email, now, row>>

SetPassword(p) ==
  /\ pc[p] = "set"
  /\ password' = [password EXCEPT ![email[p]] = tok[p]]
  /\ Goto(p, IF RevokeOnPasswordChange THEN "revoke" ELSE "done")
  /\ UNCHANGED <<clock, users, identity, link, flow, session, redeemed,
                 kind, tok, email, now, row>>

\* hash_password refuses a password that is too short: the token is spent.
SetPasswordFails(p) ==
  /\ pc[p] = "set"
  /\ Goto(p, "refused")
  /\ UNCHANGED <<clock, store, kind, tok, email, now, row>>

SessionsOf(e) == {t \in Token : session[t] = "live" /\ link[t].email = e}

RevokeSessions(p) ==
  /\ pc[p] = "revoke"
  /\ session' = [t \in Token |-> IF t \in SessionsOf(email[p]) THEN "revoked"
                                 ELSE session[t]]
  /\ Goto(p, "done")
  /\ UNCHANGED <<clock, users, identity, password, link, flow, redeemed,
                 kind, tok, email, now, row>>

-----------------------------------------------------------------------------
(* The environment *)

\* A handler that has answered, or whose thread or process died wherever it
\* was: the store keeps what was written, the locals are gone.
Return(p) ==
  /\ pc[p] # "idle"
  /\ Goto(p, "idle")
  /\ kind' = [kind EXCEPT ![p] = None]
  /\ tok' = [tok EXCEPT ![p] = None]
  /\ email' = [email EXCEPT ![p] = None]
  /\ now' = [now EXCEPT ![p] = 0]
  /\ row' = [row EXCEPT ![p] = NoUser]
  /\ UNCHANGED <<clock, store>>

\* An administrator bans or reinstates the user (Accounts has the steps).
SetStatus(e, s) ==
  /\ Exists(e)
  /\ users' = [users EXCEPT ![e] =
                  [status |-> s, verified |-> users[e].verified]]
  /\ UNCHANGED <<clock, identity, password, link, flow, session, redeemed,
                 locals>>

\* Faulty variant (for RejectionJustified): cleanup goes by the time a flow
\* was created.
CleanupByCreation(n) ==
  /\ flow' = [t \in Token |-> IF link[t] # NoLink /\ link[t].expires <= n + Ttl
                              THEN "absent" ELSE flow[t]]
  /\ UNCHANGED <<clock, users, identity, password, link, session, redeemed,
                 locals>>

\* cleanup_expired, whose clock reading n may be old when it runs, deletes
\* expired flows, consumed ones included.
Cleanup(n) ==
  /\ flow' = [t \in Token |-> IF link[t] # NoLink /\ link[t].expires <= n
                              THEN "absent" ELSE flow[t]]
  /\ UNCHANGED <<clock, users, identity, password, link, session, redeemed,
                 locals>>

Tick ==
  /\ clock < MaxClock
  /\ clock' = clock + 1
  /\ UNCHANGED <<store, locals>>

Step(p) ==
  \/ CreateFlow(p) \/ Consume(p) \/ ConsumeNothing(p) \/ Lookup(p)
  \/ CreateUser(p) \/ CreateUserFails(p) \/ UpsertIdentity(p)
  \/ IssueSession(p) \/ RecordLogin(p) \/ VerifyEmail(p) \/ MarkIdentity(p)
  \/ SetPassword(p) \/ SetPasswordFails(p) \/ RevokeSessions(p)

Next ==
  \/ \E p \in Proc :
       \/ \E k \in Kind, e \in Email, t \in Token : Request(p, k, e, t)
       \/ \E t \in Token, k \in Kind : Present(p, t, k)
       \/ \E e \in Email : Provision(p, e)
       \/ Step(p) \/ Return(p)
  \/ \E e \in Email, s \in {"active", "inactive"} : SetStatus(e, s)
  \/ \E n \in 0..clock : Cleanup(n)
  \/ Tick

Spec == Init /\ [][Next]_vars

-----------------------------------------------------------------------------
(* Properties *)

\* The tables and the locals of the handlers have their types.
TypeOK ==
  /\ clock \in Nat
  /\ users \in [Email -> UserRow \cup {NoUser}]
  /\ identity \in [Email -> {"absent", "unverified", "verified"}]
  /\ password \in [Email -> Token \cup {None}]
  /\ link \in [Token -> Link \cup {NoLink}]
  /\ flow \in [Token -> {"absent", "open", "consumed"}]
  /\ session \in [Token -> {"none", "live", "revoked"}]
  /\ redeemed \in [Token -> Nat]
  /\ pc \in [Proc -> Label]
  /\ kind \in [Proc -> Kind \cup {None}]
  /\ tok \in [Proc -> Token \cup {None}]
  /\ email \in [Proc -> Email \cup {None}]
  /\ now \in [Proc -> Nat]
  /\ row \in [Proc -> UserRow \cup {NoUser}]

\* However many handlers present a token at once, and whatever cleanup
\* deletes meanwhile, the store hands its flow to at most one of them.
RedeemedAtMostOnce == \A t \in Token : redeemed[t] <= 1

\* A handler is told that its token is invalid only if the token was redeemed
\* by someone, belongs to another endpoint, or has outlived its lifetime: of
\* several racing consumers one wins, they do not all lose.
RejectionJustified ==
  \A p \in Proc : pc[p] = "rejected" =>
    \/ redeemed[tok[p]] > 0
    \/ link[tok[p]].kind # kind[p]
    \/ clock >= link[tok[p]].expires

\* Expired, and no handler that read an earlier clock is at the store.
Lapsed(t) ==
  /\ link[t] # NoLink
  /\ clock >= link[t].expires
  /\ \A p \in Proc :
       pc[p] = "consume" /\ tok[p] = t => now[p] >= link[t].expires

\* Once a token is past its expiry, and no handler that read the clock before
\* that is still on its way to the store, it is never redeemed, whether or
\* not cleanup has deleted its row.
NoLateRedemption ==
  [][\A t \in Token : Lapsed(t) => redeemed'[t] = redeemed[t]]_vars

\* Every session and every password traces back to the redemption of a token
\* of the right kind that was mailed to that user.
EffectsJustified ==
  /\ \A t \in Token : session[t] # "none" =>
       redeemed[t] = 1 /\ link[t].kind = "magic_link"
  /\ \A e \in Email : password[e] # None =>
       /\ redeemed[password[e]] = 1
       /\ link[password[e]].kind = "password_reset"
       /\ link[password[e]].email = e

ProvedByMail(e) ==
  \/ SingleOwner
  \/ \E t \in Token : /\ redeemed[t] > 0 /\ link[t].email = e
                      /\ link[t].kind \in {"magic_link", "email_verification"}

\* An address counts as verified only after a link mailed to it came back,
\* even though three handlers write the user row and two the identity.
VerifiedByMail ==
  \A e \in Email :
    (Exists(e) /\ users[e].verified) \/ identity[e] = "verified"
      => ProvedByMail(e)

\* In the single_owner profile no path creates anyone but the owner.
OnlyOwnerExists == \A e \in Email : SingleOwner /\ Exists(e) => e = Owner

TokenStatus(t) ==
  IF link[t] = NoLink THEN "fresh"
  ELSE IF redeemed[t] > 1 THEN "reused"
  ELSE IF redeemed[t] = 1 THEN "redeemed"
  ELSE IF flow[t] = "absent" THEN "lapsed"
  ELSE "issued"
Abstract == INSTANCE OneTimeToken WITH status <- [t \in Token |-> TokenStatus(t)]

\* The tokens behave as OneTimeToken says: issued once, then redeemed once or
\* lapsed for good.
ImplementsOneTimeToken == Abstract!Spec
=============================================================================
