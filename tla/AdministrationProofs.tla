------------------------ MODULE AdministrationProofs ------------------------
(***************************************************************************)
(* Proofs about Administration, for every number of users, handlers and    *)
(* rows.  The parts that are instances of Accounts and LoginFlows behave   *)
(* as those modules say, whose theorems are taken over; the pages and the  *)
(* board have their invariants here.                                       *)
(***************************************************************************)
EXTENDS Administration, TLAPS

RaceProofs == INSTANCE AccountsProofs WITH
  Proc <- Thread, Admins <- RaceAdmins, Ops <- RaceOps,
  MayCrash <- TRUE, MaxSessions <- RaceSessions,
  users <- rusers, password <- rpassword, sess <- rsess, granted <- rgranted,
  ordered <- rordered, overtaken <- rovertaken, h <- rh

OwnedProofs == INSTANCE LoginFlowsProofs WITH
  Proc <- Thread, InitialUsers <- {}, SingleOwner <- TRUE,
  clock <- oclock, users <- ousers, identity <- oidentity, password <- opassword,
  link <- olink, flow <- oflow, session <- osession, redeemed <- oredeemed,
  pc <- opc, kind <- okind, tok <- otok, email <- oemail, now <- onow, row <- orow

-----------------------------------------------------------------------------
(* Race and Owned *)

\* The instances satisfy what the theorems assume of the constants.
LEMMA RaceValues ==
  /\ RaceAdmins \subseteq User /\ RaceAdmins # {}
  /\ RaceOps \subseteq RaceProofs!Operation
  /\ RevokeOnPasswordChange \in BOOLEAN /\ TRUE \in BOOLEAN
  /\ RaceSessions \in Nat \ {0} /\ MaxPassword \in Nat
  /\ None \notin User \cup RaceProofs!Row \cup RaceProofs!SessionId \cup RaceProofs!Operation
  BY InstanceAssumption, ConfigAssumption, SentinelAssumption
  DEF Operation, AdminOp, LoginOp, Row, Race!SessionId, RaceProofs!Operation,
      RaceProofs!AdminOp, RaceProofs!LoginOp, RaceProofs!SessionId, RaceProofs!Row

\* Every behaviour of the whole is one of the part, which may stand still.
LEMMA RaceBehaves == AdministrationSpec => RaceProofs!Spec
  <1>1. AdministrationInit => RaceProofs!Init
    BY DEF AdministrationInit,
      Race!SessionId, RaceProofs!SessionId, Race!Idle, RaceProofs!Idle, Race!InitRole,
      RaceProofs!InitRole, Race!Init, RaceProofs!Init
  <1>2. Race!Next => RaceProofs!Next
    BY DEF
      Race!AdminOp, RaceProofs!AdminOp, Race!LoginOp, RaceProofs!LoginOp, Race!SessionId,
      RaceProofs!SessionId, Race!Idle, RaceProofs!Idle, Race!Goto, RaceProofs!Goto,
      Race!Finish, RaceProofs!Finish, Race!Proceed, RaceProofs!Proceed, Race!LiveSessions,
      RaceProofs!LiveSessions, Race!ActiveAdmin, RaceProofs!ActiveAdmin, Race!Command,
      RaceProofs!Command, Race!VerifySession, RaceProofs!VerifySession, Race!AfterVerify,
      RaceProofs!AfterVerify, Race!VerifyActor, RaceProofs!VerifyActor, Race!TouchFails,
      RaceProofs!TouchFails, Race!Removes, RaceProofs!Removes, Race!ReadTarget,
      RaceProofs!ReadTarget, Race!OtherAdmin, RaceProofs!OtherAdmin, Race!CheckOther,
      RaceProofs!CheckOther, Race!NewRow, RaceProofs!NewRow, Race!RevokesAfter,
      RaceProofs!RevokesAfter, Race!WriteTarget, RaceProofs!WriteTarget,
      Race!SetUserPassword, RaceProofs!SetUserPassword, Race!SetUserPasswordFails,
      RaceProofs!SetUserPasswordFails, Race!RevokeSessionsForUser,
      RaceProofs!RevokeSessionsForUser, Race!RevokeSession, RaceProofs!RevokeSession,
      Race!Answer, RaceProofs!Answer, Race!Crash, RaceProofs!Crash, Race!Login,
      RaceProofs!Login, Race!LookupUser, RaceProofs!LookupUser, Race!VerifyPassword,
      RaceProofs!VerifyPassword, Race!IssueSession, RaceProofs!IssueSession,
      Race!RecordLogin, RaceProofs!RecordLogin, Race!Step, RaceProofs!Step, Race!history,
      RaceProofs!history, Race!Overtaking, RaceProofs!Overtaking, Race!Next, RaceProofs!Next
  <1>3. [AdministrationNext]_allvars => [RaceProofs!Next]_(RaceProofs!vars)
    BY <1>2 DEF AdministrationNext, allvars, rvars, RaceProofs!vars, RaceProofs!history
  <1> QED
    BY <1>1, <1>3, PTL DEF AdministrationSpec, allvars, RaceProofs!Spec

\* Two operations that read, write back whole rows and die anywhere make nobody an
\* administrator who was not made one, and once a change is answered the sessions it
\* was to cut are cut (RacesAreSafe).
THEOREM RacesSafe == AdministrationSpec => []RacesAreSafe
  <1>1. RaceProofs!NoEscalation /\ RaceProofs!ChangeCutsSessions => RacesAreSafe
    BY DEF RacesAreSafe,
      Race!SessionId, RaceProofs!SessionId, Race!NoEscalation, RaceProofs!NoEscalation,
      Race!ChangeCutsSessions, RaceProofs!ChangeCutsSessions
  <1>2. RaceProofs!Spec => []RaceProofs!NoEscalation /\ []RaceProofs!ChangeCutsSessions
    BY RaceValues, RaceProofs!RolesAreGranted, RaceProofs!CompletedChangesCut, PTL
  <1> QED
    BY <1>1, <1>2, RaceBehaves, PTL

\* Whatever operations and logins do beside each other, the last administrator goes,
\* a command is undone and a session keeps an old role only by a handler that others
\* have overtaken since it read its row, or by one that dies before it revokes
\* (RacesAreBounded).
THEOREM RacesBounded == AdministrationSpec => RacesAreBounded
  <1>1. RaceProofs!Spec =>
          RaceProofs!LastAdminKept /\ RaceProofs!CommandsHold /\ RaceProofs!RolesFit
    BY RaceValues, RaceProofs!AdminRemains, RaceProofs!CommandsLast,
       RaceProofs!SessionsCarryRole
  <1>2. /\ RaceProofs!LastAdminKept <=> Race!LastAdminKept
        /\ RaceProofs!CommandsHold <=> Race!CommandsHold
        /\ RaceProofs!RolesFit <=> Race!RolesFit
    BY DEF Race!LastAdminKept, RaceProofs!LastAdminKept, Race!CommandsHold,
       RaceProofs!CommandsHold, Race!RolesFit, RaceProofs!RolesFit, Race!ByOvertaken,
       RaceProofs!ByOvertaken, Race!SomeAdminRemains, RaceProofs!SomeAdminRemains,
       Race!ActiveAdmin, RaceProofs!ActiveAdmin, Race!Fits, RaceProofs!Fits,
       Race!AboutToRevoke, RaceProofs!AboutToRevoke, Race!SessionId,
       RaceProofs!SessionId, Race!Idle, RaceProofs!Idle, Race!vars, RaceProofs!vars,
       Race!history, RaceProofs!history
  <1> QED
    BY <1>1, <1>2, RaceBehaves DEF RacesAreBounded

LEMMA OwnedValues ==
  /\ {} \subseteq Email /\ Owner \in Email
  /\ TRUE \in BOOLEAN /\ RequireVerified \in BOOLEAN
  /\ RevokeOnPasswordChange \in BOOLEAN
  /\ Ttl \in Nat \ {0} /\ MaxClock \in Nat
  /\ None \notin Token /\ None \notin Email /\ None \notin OwnedProofs!Kind
  /\ NoUser \notin OwnedProofs!UserRow /\ NoLink \notin OwnedProofs!Link
  BY InstanceAssumption, ConfigAssumption
  DEF Owned!Kind, Owned!UserRow, Owned!Link,
      OwnedProofs!Kind, OwnedProofs!UserRow, OwnedProofs!Link

LEMMA OwnedBehaves == AdministrationSpec => OwnedProofs!Spec
  <1>1. AdministrationInit => OwnedProofs!Init
    BY DEF AdministrationInit,
      Owned!Init, OwnedProofs!Init
  <1>2. Owned!Next => OwnedProofs!Next
    BY DEF
      Owned!store, OwnedProofs!store, Owned!locals, OwnedProofs!locals, Owned!Kind,
      OwnedProofs!Kind, Owned!Goto, OwnedProofs!Goto, Owned!Admits, OwnedProofs!Admits,
      Owned!Exists, OwnedProofs!Exists, Owned!IsActive, OwnedProofs!IsActive,
      Owned!ProfileAllows, OwnedProofs!ProfileAllows, Owned!MayRequest,
      OwnedProofs!MayRequest, Owned!FreshToken, OwnedProofs!FreshToken, Owned!Request,
      OwnedProofs!Request, Owned!CreateFlow, OwnedProofs!CreateFlow, Owned!Present,
      OwnedProofs!Present, Owned!Consumable, OwnedProofs!Consumable, Owned!Consume,
      OwnedProofs!Consume, Owned!ConsumeNothing, OwnedProofs!ConsumeNothing,
      Owned!AfterLookup, OwnedProofs!AfterLookup, Owned!Lookup, OwnedProofs!Lookup,
      Owned!Provision, OwnedProofs!Provision, Owned!NewUser, OwnedProofs!NewUser,
      Owned!CreateUser, OwnedProofs!CreateUser, Owned!CreateUserFails,
      OwnedProofs!CreateUserFails, Owned!UpsertIdentity, OwnedProofs!UpsertIdentity,
      Owned!IssueSession, OwnedProofs!IssueSession, Owned!RecordLogin,
      OwnedProofs!RecordLogin, Owned!VerifyEmail, OwnedProofs!VerifyEmail,
      Owned!MarkIdentity, OwnedProofs!MarkIdentity, Owned!SetPassword,
      OwnedProofs!SetPassword, Owned!SetPasswordFails, OwnedProofs!SetPasswordFails,
      Owned!SessionsOf, OwnedProofs!SessionsOf, Owned!RevokeSessions,
      OwnedProofs!RevokeSessions, Owned!Return, OwnedProofs!Return, Owned!SetStatus,
      OwnedProofs!SetStatus, Owned!Cleanup, OwnedProofs!Cleanup, Owned!Tick,
      OwnedProofs!Tick, Owned!Step, OwnedProofs!Step, Owned!Next, OwnedProofs!Next
  <1>3. [AdministrationNext]_allvars => [OwnedProofs!Next]_(OwnedProofs!vars)
    BY <1>2 DEF AdministrationNext, allvars, ovars, OwnedProofs!vars, OwnedProofs!store,
       OwnedProofs!locals
  <1> QED
    BY <1>1, <1>3, PTL DEF AdministrationSpec, allvars, OwnedProofs!Spec

\* Whatever is requested, presented and provisioned in the single_owner profile, only
\* the owner ever has an account (OwnerAlone).
THEOREM OwnerStaysAlone == AdministrationSpec => []OwnerAlone
  <1>1. OwnedProofs!OnlyOwnerExists => OwnerAlone
    BY DEF OwnerAlone, Owned!OnlyOwnerExists, Owned!Exists, OwnedProofs!OnlyOwnerExists, OwnedProofs!Exists
  <1>2. TRUE => {} \subseteq {Owner}
    OBVIOUS
  <1>3. OwnedProofs!Spec => []OwnedProofs!OnlyOwnerExists
    BY OwnedValues, <1>2, OwnedProofs!OwnerIsAlone
  <1> QED
    BY <1>1, <1>3, OwnedBehaves, PTL

-----------------------------------------------------------------------------
(* Pages: what a password change knows of the sessions it is to end *)

\* Session ids are never drawn twice, and a revocation is final.
SessionsLast ==
  \A s \in Session : /\ psess[s] # "unused" => psess'[s] # "unused"
                     /\ psess[s] = "revoked" => psess'[s] = "revoked"

\* What a page knows at each label.
PageKnows(p) ==
  /\ ph[p].pc \in {"session", "user"} => ph[p].form \in {"profile", "password", "end", "logout"}
  /\ ph[p].pc = "user" => ph[p].form # "logout"
  /\ ph[p].pc = "revoke" => \A s \in ph[p].cut : s # ph[p].own /\ psess[s] # "unused"
  /\ ph[p].pc = "done" => \A s \in ph[p].cut : psess[s] = "revoked"

PagesCore ==
  /\ status \in Pages!Status \cup {None}
  /\ psess \in [Session -> {"unused", "live", "revoked"}]
  /\ ph \in [Thread -> Pages!Handler]
  /\ \A p \in Thread : PageKnows(p)

LEMMA PagesInit == Pages!Init => PagesCore
  BY InstanceAssumption
  DEF Pages!Init, PagesCore, PageKnows, Pages!Idle, Pages!Handler, Pages!Label,
      Pages!ConfigAssumption

\* What a step of one handler does to its own locals and to the tables.
PageStep(p) ==
  /\ ph'[p] \in Pages!Handler /\ ph' = [ph EXCEPT ![p] = ph'[p]]
  /\ status' \in Pages!Status \cup {None}
  /\ psess' \in [Session -> {"unused", "live", "revoked"}] /\ SessionsLast
  /\ PageKnows(p)'

LEMMA PageAnswers ==
  ASSUME PagesCore, NEW p \in Thread, Pages!Answer(p),
         status' \in Pages!Status \cup {None},
         psess' \in [Session -> {"unused", "live", "revoked"}], SessionsLast
  PROVE  PageStep(p)
  BY InstanceAssumption
  DEF PagesCore, Pages!Answer, PageStep, PageKnows, Pages!Idle, Pages!Handler, Pages!Label,
      Pages!ConfigAssumption

LEMMA PageGoes ==
  ASSUME PagesCore, NEW p \in Thread, NEW l \in Pages!Label, Pages!Goto(p, l),
         l \notin {"session", "user", "revoke", "done"},
         status' \in Pages!Status \cup {None},
         psess' \in [Session -> {"unused", "live", "revoked"}], SessionsLast
  PROVE  PageStep(p)
  BY DEF PagesCore, Pages!Goto, PageStep, PageKnows, Pages!Handler, Pages!Label

LEMMA PageActs ==
  ASSUME PagesCore, NEW p \in Thread,
         \/ Pages!Signup(p) \/ Pages!CreateUser(p) \/ Pages!FirstPassword(p)
         \/ \E w \in 0 .. MaxPageChanges : Pages!Login(p, w)
         \/ Pages!LookupUser(p) \/ Pages!VerifyPassword(p)
         \/ \E s \in Session : Pages!IssueSession(p, s)
         \/ \E form \in Pages!Form, s \in Session, w \in 0 .. MaxPageChanges,
               o \in Session \cup {None} : Pages!Submit(p, form, s, w, o)
         \/ Pages!ReadSession(p) \/ Pages!ReadUser(p) \/ Pages!SaveRow(p)
         \/ Pages!CheckCurrent(p) \/ Pages!SetPassword(p) \/ Pages!RevokeOthers(p)
         \/ Pages!ListSessions(p) \/ Pages!EndSession(p) \/ Pages!Return(p)
  PROVE  PageStep(p)
  <1> USE DEF PagesCore
  <1>a. UNCHANGED psess => psess' \in [Session -> {"unused", "live", "revoked"}] /\ SessionsLast
    BY DEF SessionsLast
  <1>b. UNCHANGED status => status' \in Pages!Status \cup {None}
    OBVIOUS
  <1>c. MaxPageChanges \in Nat /\ None \notin Session \cup {"active", "banned"}
    BY InstanceAssumption DEF Pages!ConfigAssumption
  <1>1. CASE Pages!Signup(p)
    <2>1. /\ ph'[p] \in Pages!Handler /\ ph' = [ph EXCEPT ![p] = ph'[p]]
          /\ ph'[p].pc = "create"
      <3>1. [Pages!Idle EXCEPT !.pc = "create", !.form = "signup"] \in Pages!Handler
        <4>1. Pages!Idle \in Pages!Handler
          BY <1>c DEF Pages!Idle, Pages!Handler, Pages!Label
        <4> QED
          BY <4>1 DEF Pages!Handler, Pages!Label, Pages!Form
      <3> QED
        BY <1>1, <3>1 DEF Pages!Signup, Pages!Idle
    <2> QED
      BY <1>1, <2>1, <1>a, <1>b DEF Pages!Signup, PageStep, PageKnows
  <1>2. CASE Pages!CreateUser(p)
    BY <1>2, <1>a, <1>b, PageAnswers, PageGoes DEF Pages!CreateUser, Pages!Status, Pages!Label
  <1>3. CASE Pages!FirstPassword(p)
    BY <1>3, <1>a, <1>b, PageGoes DEF Pages!FirstPassword, Pages!Label
  <1>4. ASSUME NEW w \in 0 .. MaxPageChanges, Pages!Login(p, w) PROVE PageStep(p)
    BY <1>4, <1>a, <1>b, <1>c
    DEF Pages!Login, Pages!Idle, Pages!Handler, Pages!Label, Pages!Form, PageStep, PageKnows
  <1>5. CASE Pages!LookupUser(p)
    <2>1. CASE status = "active"
      BY <1>5, <2>1, <1>a, <1>b, <1>c
      DEF Pages!LookupUser, Pages!Handler, Pages!Label, Pages!Status, PageStep, PageKnows
    <2> QED
      BY <1>5, <2>1, <1>a, <1>b, PageAnswers DEF Pages!LookupUser
  <1>6. CASE Pages!VerifyPassword(p)
    BY <1>6, <1>a, <1>b, PageAnswers, PageGoes
    DEF Pages!VerifyPassword, Pages!Proceed, Pages!Label
  <1>7. ASSUME NEW s \in Session, Pages!IssueSession(p, s) PROVE PageStep(p)
    <2>1. psess' \in [Session -> {"unused", "live", "revoked"}] /\ SessionsLast
      BY <1>7 DEF Pages!IssueSession, SessionsLast
    <2> QED
      BY <1>7, <2>1, <1>b, PageGoes DEF Pages!IssueSession, Pages!Label
  <1>8. ASSUME NEW form \in Pages!Form, NEW s \in Session, NEW w \in 0 .. MaxPageChanges,
               NEW o \in Session \cup {None}, Pages!Submit(p, form, s, w, o)
        PROVE  PageStep(p)
    BY <1>8, <1>a, <1>b, <1>c
    DEF Pages!Submit, Pages!Idle, Pages!Handler, Pages!Label, Pages!Form, PageStep, PageKnows
  <1>9. CASE Pages!ReadSession(p)
    <2>1. CASE ph[p].form = "logout"
      BY <1>9, <2>1, <1>a, <1>b, <1>c
      DEF Pages!ReadSession, Pages!Handler, Pages!Label, PageStep, PageKnows
    <2>2. CASE ph[p].form # "logout" /\ psess[ph[p].own] = "live"
      BY <1>9, <2>2, <1>a, <1>b, <1>c
      DEF Pages!ReadSession, Pages!Proceed, Pages!Goto, Pages!Handler, Pages!Label, PageStep, PageKnows
    <2> QED
      BY <1>9, <2>1, <2>2, <1>a, <1>b, PageAnswers DEF Pages!ReadSession, Pages!Proceed
  <1>10. CASE Pages!ReadUser(p)
    <2>1. CASE status = "active"
      <3>1. ph[p].form \in {"profile", "password", "end"}
        BY <1>10 DEF Pages!ReadUser, PageKnows
      <3>2. PICK l \in {"save", "check", "list"} :
              ph' = [ph EXCEPT ![p].row = status, ![p].pc = l]
        BY <1>10, <2>1, <3>1 DEF Pages!ReadUser
      <3> QED
        BY <1>10, <2>1, <3>2, <1>a, <1>b, <1>c
        DEF Pages!ReadUser, Pages!Handler, Pages!Label, Pages!Status, PageStep, PageKnows
    <2> QED
      BY <1>10, <2>1, <1>a, <1>b, PageAnswers DEF Pages!ReadUser
  <1>11. CASE Pages!SaveRow(p)
    <2>1. status' \in Pages!Status \cup {None}
      BY <1>11 DEF Pages!SaveRow, Pages!Handler
    <2> QED
      BY <1>11, <2>1, <1>a, PageAnswers DEF Pages!SaveRow
  <1>12. CASE Pages!CheckCurrent(p)
    BY <1>12, <1>a, <1>b, PageAnswers, PageGoes
    DEF Pages!CheckCurrent, Pages!Proceed, Pages!Label
  <1>13. CASE Pages!SetPassword(p)
    <2>1. PICK l \in {"revoke", "done"}, c \in SUBSET Session :
            /\ ph' = [ph EXCEPT ![p].pc = l, ![p].cut = c]
            /\ l = "revoke" => c = Pages!Live \ {ph[p].own}
            /\ l = "done" => c = {}
      <3>1. CASE RevokeOnPasswordChange
        <4>1. Pages!Live \ {ph[p].own} \in SUBSET Session
          BY DEF Pages!Live
        <4>2. ph' = [ph EXCEPT ![p].pc = "revoke", ![p].cut = Pages!Live \ {ph[p].own}]
          BY <1>13, <3>1 DEF Pages!SetPassword
        <4> QED
          BY <4>1, <4>2
      <3>2. CASE ~RevokeOnPasswordChange
        BY <1>13, <3>2 DEF Pages!SetPassword
      <3> QED
        BY <3>1, <3>2
    <2>2. /\ ph'[p] \in Pages!Handler /\ ph' = [ph EXCEPT ![p] = ph'[p]]
          /\ ph'[p].pc = l /\ ph'[p].cut = c /\ ph'[p].own = ph[p].own
      BY <2>1 DEF Pages!Handler, Pages!Label
    <2>3. UNCHANGED <<status, psess>>
      BY <1>13 DEF Pages!SetPassword
    <2>4. PageKnows(p)'
      BY <2>1, <2>2, <2>3 DEF PageKnows, Pages!Live
    <2> QED
      BY <2>2, <2>3, <2>4, <1>a, <1>b DEF PageStep
  <1>14. CASE Pages!RevokeOthers(p)
    <2>1. psess' \in [Session -> {"unused", "live", "revoked"}] /\ SessionsLast
      <3>1. psess' = [s \in Session |-> IF s \in Pages!Live \ {ph[p].own} THEN "revoked" ELSE psess[s]]
        BY <1>14 DEF Pages!RevokeOthers
      <3> QED
        BY <3>1 DEF SessionsLast
    <2>2. /\ ph'[p] \in Pages!Handler /\ ph' = [ph EXCEPT ![p] = ph'[p]]
          /\ ph'[p].pc = "done" /\ ph'[p].cut = ph[p].cut
      BY <1>14 DEF Pages!RevokeOthers, Pages!Goto, Pages!Handler, Pages!Label
    <2>3. \A s \in ph[p].cut : psess'[s] = "revoked"
      BY <1>14 DEF Pages!RevokeOthers, Pages!Live, Pages!Handler, PageKnows
    <2> QED
      BY <1>14, <1>b, <2>1, <2>2, <2>3 DEF Pages!RevokeOthers, PageStep, PageKnows
  <1>15. CASE Pages!ListSessions(p)
    BY <1>15, <1>a, <1>b, PageAnswers, PageGoes
    DEF Pages!ListSessions, Pages!Proceed, Pages!Label
  <1>16. CASE Pages!EndSession(p)
    <2>1. psess' \in [Session -> {"unused", "live", "revoked"}] /\ SessionsLast
      BY <1>16 DEF Pages!EndSession, SessionsLast
    <2> QED
      BY <1>16, <2>1, <1>b, PageAnswers DEF Pages!EndSession
  <1>17. CASE Pages!Return(p)
    BY <1>17, <1>a, <1>b, PageAnswers DEF Pages!Return
  <1> QED
    BY <1>1, <1>2, <1>3, <1>4, <1>5, <1>6, <1>7, <1>8, <1>9, <1>10, <1>11, <1>12, <1>13,
       <1>14, <1>15, <1>16, <1>17

LEMMA PagesInvariant == AdministrationSpec => []PagesCore
  <1>1. AdministrationInit => PagesCore
    BY PagesInit DEF AdministrationInit
  <1>2. PagesCore /\ [AdministrationNext]_allvars => PagesCore'
    <2> SUFFICES ASSUME PagesCore, [AdministrationNext]_allvars PROVE PagesCore'
      OBVIOUS
    <2>1. CASE UNCHANGED pvars
      BY <2>1 DEF PagesCore, PageKnows, pvars
    <2>2. ASSUME NEW p \in Thread, PageStep(p) PROVE PagesCore'
      <3>1. ASSUME NEW q \in Thread, q # p PROVE PageKnows(q)'
        BY <2>2, <3>1 DEF PageStep, PagesCore, PageKnows, SessionsLast, Pages!Handler
      <3> QED
        BY <2>2, <3>1 DEF PageStep, PagesCore
    <2>3. CASE Pages!Ban
      BY <2>3 DEF Pages!Ban, PagesCore, PageKnows
    <2> QED
      BY <2>1, <2>2, <2>3, PageActs DEF AdministrationNext, allvars, pvars, Pages!Next
  <1> QED
    BY <1>1, <1>2, PTL DEF AdministrationSpec, allvars

\* When the page answers a password change, the sessions it was to end are revoked
\* (PasswordChangeCuts, RevokeOthers and the revocations beside it).
THEOREM PasswordChangesCut == AdministrationSpec => []PagesCut
  <1>1. PagesCore => PagesCut
    BY DEF PagesCore, PageKnows, PagesCut, Pages!PasswordChangeCuts
  <1> QED
    BY <1>1, PagesInvariant, PTL


-----------------------------------------------------------------------------
(* Board: a handler that may write goes by the author the row still has *)

PostOps == {"update_post", "delete_post"}
CommentOps == {"update_comment", "delete_comment"}
Verb(op) == IF op \in {"update_post", "update_comment"} THEN "update" ELSE "delete"

BoardHandler == [pc : {"idle", "read", "write"}, op : Posts!Op \cup {None},
                 user : User \cup {None}, role : Posts!Role \cup {None},
                 item : Post \cup Comment \cup {None}, author : User \cup {None}]

BoardTables ==
  /\ posts \in [Post -> Posts!Row \cup {None}]
  /\ comments \in [Comment -> Posts!CommentRow \cup {None}]
  /\ drawn \subseteq Post \cup Comment /\ SeedPost \cup SeedComment \subseteq drawn
  /\ \A i \in Post : posts[i] # None => i \in drawn
  /\ \A c \in Comment : comments[c] # None => c \in drawn
  /\ Posts!CommentsHavePosts

\* What a handler knows once its session is verified, and once it has decided.
BoardKnows(p) ==
  /\ bh[p].pc # "idle" =>
       /\ bh[p].op \in Posts!Op /\ bh[p].user \in User
       /\ bh[p].item \in Posts!Target(bh[p].op)
  /\ bh[p].pc = "write" /\ bh[p].op \in PostOps =>
       /\ bh[p].item \in drawn
       /\ posts[bh[p].item] # None => posts[bh[p].item].author = bh[p].author
       /\ Posts!MayManage(bh[p].role, bh[p].user, bh[p].author, "post", Verb(bh[p].op))
  /\ bh[p].pc = "write" /\ bh[p].op \in CommentOps =>
       /\ bh[p].item \in drawn
       /\ comments[bh[p].item] # None => comments[bh[p].item].author = bh[p].author
       /\ Posts!MayManage(bh[p].role, bh[p].user, bh[p].author, "comment", Verb(bh[p].op))

BoardCore ==
  /\ BoardTables /\ bh \in [Thread -> BoardHandler]
  /\ \A p \in Thread : BoardKnows(p)

LEMMA BoardValues ==
  /\ SeedPost \subseteq Post /\ SeedComment \subseteq Comment
  /\ SeedPost # {} => AdminPost \in SeedPost
  /\ SeedComment # {} => SeedPost # {}
  /\ SeedAuthor \in [SeedPost \cup SeedComment -> User]
  /\ None \notin User \cup Post \cup Comment
  /\ None \notin Posts!Row \cup Posts!CommentRow
  BY InstanceAssumption DEF Posts!SeedAssumption, Posts!SentinelAssumption

LEMMA BoardIdle == Posts!Idle \in BoardHandler /\ Posts!Idle.pc = "idle"
  BY DEF Posts!Idle, BoardHandler

\* The seed leaves every row its author and its post, and drops none.
LEMMA SeedPosts ==
  ASSUME NEW f \in [Post -> Posts!Row \cup {None}]
  PROVE  /\ Posts!UpsertPosts(f) \in [Post -> Posts!Row \cup {None}]
         /\ \A i \in Post : f[i] # None => Posts!UpsertPosts(f)[i] # None
         /\ \A i \in Post : Posts!UpsertPosts(f)[i] # None => f[i] # None \/ i \in SeedPost
         /\ \A i \in SeedPost : Posts!UpsertPosts(f)[i] # None
  <1>1. ASSUME NEW i \in Post
        PROVE  /\ Posts!UpsertPosts(f)[i] \in Posts!Row \cup {None}
               /\ f[i] # None => Posts!UpsertPosts(f)[i] # None
               /\ Posts!UpsertPosts(f)[i] # None => f[i] # None \/ i \in SeedPost
               /\ i \in SeedPost => Posts!UpsertPosts(f)[i] # None
    <2>1. i \in SeedPost => SeedAuthor[i] \in User
      BY BoardValues
    <2> QED
      BY <2>1, BoardValues DEF Posts!UpsertPosts, Posts!Row
  <1> QED
    BY <1>1, BoardValues DEF Posts!UpsertPosts

LEMMA SeedComments ==
  ASSUME NEW f \in [Comment -> Posts!CommentRow \cup {None}]
  PROVE  /\ Posts!UpsertComments(f) \in [Comment -> Posts!CommentRow \cup {None}]
         /\ \A c \in Comment : f[c] # None =>
              Posts!UpsertComments(f)[c] # None /\ Posts!UpsertComments(f)[c].post = f[c].post
         /\ \A c \in Comment : Posts!UpsertComments(f)[c] # None /\ f[c] = None =>
              c \in SeedComment /\ Posts!UpsertComments(f)[c].post = AdminPost
  <1>1. ASSUME NEW c \in Comment
        PROVE  /\ Posts!UpsertComments(f)[c] \in Posts!CommentRow \cup {None}
               /\ f[c] # None =>
                    Posts!UpsertComments(f)[c] # None /\ Posts!UpsertComments(f)[c].post = f[c].post
               /\ Posts!UpsertComments(f)[c] # None /\ f[c] = None =>
                    c \in SeedComment /\ Posts!UpsertComments(f)[c].post = AdminPost
    <2>1. c \in SeedComment => SeedAuthor[c] \in User /\ AdminPost \in Post
      BY BoardValues
    <2> QED
      BY <2>1, BoardValues DEF Posts!UpsertComments, Posts!CommentRow
  <1> QED
    BY <1>1, BoardValues DEF Posts!UpsertComments

\* A start of the process, the first one included, leaves good tables.
LEMMA SeedTables ==
  ASSUME NEW f \in [Post -> Posts!Row \cup {None}],
         NEW g \in [Comment -> Posts!CommentRow \cup {None}],
         \A c \in Comment : g[c] # None => f[g[c].post] # None
  PROVE  \A c \in Comment : Posts!UpsertComments(g)[c] # None =>
            Posts!UpsertPosts(f)[Posts!UpsertComments(g)[c].post] # None
  <1> TAKE c \in Comment
  <1> HAVE Posts!UpsertComments(g)[c] # None
  <1>1. CASE g[c] # None
    <2>1. g[c].post \in Post
      BY <1>1 DEF Posts!CommentRow
    <2> QED
      BY <1>1, <2>1, SeedPosts, SeedComments
  <1>2. CASE g[c] = None
    <2>1. c \in SeedComment /\ Posts!UpsertComments(g)[c].post = AdminPost
      BY <1>2, SeedComments
    <2> QED
      BY <2>1, BoardValues, SeedPosts
  <1> QED
    BY <1>1, <1>2

LEMMA BoardInit == Posts!Init => BoardCore
  <1> SUFFICES ASSUME Posts!Init PROVE BoardCore
    OBVIOUS
  <1> DEFINE f == [i \in Post |-> None]
             g == [c \in Comment |-> None]
  <1>1. f \in [Post -> Posts!Row \cup {None}] /\ g \in [Comment -> Posts!CommentRow \cup {None}]
    OBVIOUS
  <1>2. posts = Posts!UpsertPosts(f) /\ comments = Posts!UpsertComments(g)
        /\ drawn = SeedPost \cup SeedComment /\ bh = [p \in Thread |-> Posts!Idle]
    BY DEF Posts!Init
  <1>3. (\A i \in Post : f[i] = None) /\ (\A c \in Comment : g[c] = None)
    OBVIOUS
  <1> HIDE DEF f, g
  <1>4. BoardTables
    BY <1>1, <1>2, <1>3, BoardValues, SeedPosts, SeedComments, SeedTables
    DEF BoardTables, Posts!CommentsHavePosts
  <1> QED
    BY <1>2, <1>4, BoardIdle DEF BoardCore, BoardKnows

LEMMA BoardRestart == BoardCore /\ Posts!Restart => BoardCore'
  <1> SUFFICES ASSUME BoardCore, Posts!Restart PROVE BoardCore'
    OBVIOUS
  <1>1. posts' = Posts!UpsertPosts(posts) /\ comments' = Posts!UpsertComments(comments)
        /\ drawn' = drawn /\ bh' = [p \in Thread |-> Posts!Idle]
    BY DEF Posts!Restart
  <1>2. BoardTables'
    BY <1>1, BoardValues, SeedPosts, SeedComments, SeedTables
    DEF BoardCore, BoardTables, Posts!CommentsHavePosts
  <1> QED
    BY <1>1, <1>2, BoardIdle DEF BoardCore, BoardKnows

\* What is drawn stays drawn; a row that was gone stays gone, and keeps its author.
RowsLast ==
  /\ drawn \subseteq drawn'
  /\ \A i \in Post : i \in drawn /\ posts'[i] # None =>
       posts[i] # None /\ posts'[i].author = posts[i].author
  /\ \A c \in Comment : c \in drawn /\ comments'[c] # None =>
       comments[c] # None /\ comments'[c].author = comments[c].author

\* What a step of one handler does to its own locals and to the tables.
BoardStep(p) ==
  /\ bh'[p] \in BoardHandler /\ bh' = [bh EXCEPT ![p] = bh'[p]]
  /\ BoardTables' /\ RowsLast /\ BoardKnows(p)'

LEMMA BoardDone ==
  ASSUME BoardCore, NEW p \in Thread, Posts!Done(p), BoardTables', RowsLast
  PROVE  BoardStep(p)
  BY BoardIdle DEF BoardCore, Posts!Done, BoardStep, BoardKnows

LEMMA BoardReads ==
  ASSUME BoardCore, UNCHANGED <<posts, comments, drawn>>
  PROVE  BoardTables' /\ RowsLast
  BY DEF BoardCore, BoardTables, RowsLast, Posts!CommentsHavePosts

LEMMA BoardRequires ==
  ASSUME BoardCore, NEW p \in Thread, NEW u \in User, NEW op \in Posts!Op,
         Posts!RequireActor(p, u, op)
  PROVE  BoardStep(p)
  <1>1. PICK i \in Posts!Target(op), r \in Posts!RoleOf(u) :
          bh' = [bh EXCEPT ![p] = [pc |-> "read", op |-> op, user |-> u, role |-> r,
                                   item |-> i, author |-> None]]
    BY DEF Posts!RequireActor
  <1>2. i \in Post \cup Comment \cup {None}
    BY DEF Posts!Target
  <1>3. r \in Posts!Role
    BY DEF Posts!RoleOf, Posts!Role
  <1>4. bh'[p] = [pc |-> "read", op |-> op, user |-> u, role |-> r,
                  item |-> i, author |-> None]
    BY <1>1 DEF BoardCore
  <1>5. bh'[p] \in BoardHandler /\ bh' = [bh EXCEPT ![p] = bh'[p]]
    <2>1. bh'[p] \in BoardHandler
      BY <1>2, <1>3, <1>4 DEF BoardHandler
    <2> QED
      BY <1>1, <1>4, <2>1
  <1>6. BoardKnows(p)'
    BY <1>4, BoardValues DEF BoardKnows
  <1> QED
    BY <1>5, <1>6, BoardReads DEF BoardStep, Posts!RequireActor

LEMMA BoardDecides ==
  ASSUME BoardCore, NEW p \in Thread, Posts!Authorize(p)
  PROVE  BoardStep(p)
  <1>1. BoardTables' /\ RowsLast
    BY BoardReads DEF Posts!Authorize
  <1>2. CASE Posts!AuthorOf(p) # None /\ Posts!Authorized(p)
    <2>1. bh' = [bh EXCEPT ![p].pc = "write", ![p].author = Posts!AuthorOf(p)]
      BY <1>2 DEF Posts!Authorize
    <2>2. /\ bh[p].op \in Posts!Op /\ bh[p].user \in User
          /\ bh[p].item \in Posts!Target(bh[p].op)
      BY DEF BoardCore, BoardKnows, Posts!Authorize
    <2>3. Posts!AuthorOf(p) \in User
      BY <1>2, <2>2 DEF Posts!AuthorOf, Posts!Target, Posts!Op, BoardCore, BoardTables,
         Posts!Row, Posts!CommentRow
    <2>4. /\ bh'[p] \in BoardHandler /\ bh' = [bh EXCEPT ![p] = bh'[p]]
          /\ bh'[p].op = bh[p].op /\ bh'[p].item = bh[p].item /\ bh'[p].user = bh[p].user
          /\ bh'[p].role = bh[p].role /\ bh'[p].author = Posts!AuthorOf(p)
      BY <2>1, <2>3 DEF BoardCore, BoardHandler
    <2>5. CASE bh[p].op \in PostOps
      <3>1. bh[p].item \in Post /\ posts[bh[p].item] # None
            /\ posts[bh[p].item].author = Posts!AuthorOf(p)
        BY <1>2, <2>2, <2>5 DEF PostOps, Posts!Target, Posts!AuthorOf
      <3>2. Posts!MayManage(bh[p].role, bh[p].user, Posts!AuthorOf(p), "post", Verb(bh[p].op))
        BY <1>2, <2>5 DEF PostOps, Verb, Posts!Authorized
      <3> QED
        BY <2>2, <2>4, <2>5, <3>1, <3>2, <1>1
        DEF BoardStep, BoardKnows, PostOps, CommentOps, Posts!Authorize, BoardCore, BoardTables
    <2>6. CASE bh[p].op \in CommentOps
      <3>1. bh[p].item \in Comment /\ comments[bh[p].item] # None
            /\ comments[bh[p].item].author = Posts!AuthorOf(p)
        BY <1>2, <2>2, <2>6 DEF CommentOps, Posts!Target, Posts!AuthorOf
      <3>2. Posts!MayManage(bh[p].role, bh[p].user, Posts!AuthorOf(p), "comment", Verb(bh[p].op))
        BY <1>2, <2>6 DEF CommentOps, Verb, Posts!Authorized
      <3> QED
        BY <2>2, <2>4, <2>6, <3>1, <3>2, <1>1
        DEF BoardStep, BoardKnows, PostOps, CommentOps, Posts!Authorize, BoardCore, BoardTables
    <2>7. CASE bh[p].op \notin PostOps \cup CommentOps
      BY <2>2, <2>4, <2>7, <1>1 DEF BoardStep, BoardKnows
    <2> QED
      BY <2>5, <2>6, <2>7
  <1> QED
    BY <1>1, <1>2, BoardDone DEF Posts!Authorize

LEMMA BoardWrites ==
  ASSUME BoardCore, NEW p \in Thread, Posts!Write(p)
  PROVE  BoardStep(p)
  <1>1. Posts!Done(p)
    BY DEF Posts!Write, Posts!CreatePost, Posts!UpdatePost, Posts!DeletePost,
       Posts!CreateComment, Posts!UpdateComment, Posts!DeleteComment
  <1>2. bh[p].user \in User /\ bh[p].op \in Posts!Op /\ bh[p].item \in Posts!Target(bh[p].op)
    BY DEF BoardCore, BoardKnows, Posts!Write, Posts!CreatePost, Posts!UpdatePost,
       Posts!DeletePost, Posts!CreateComment, Posts!UpdateComment, Posts!DeleteComment
  <1> SUFFICES BoardTables' /\ RowsLast
    BY <1>1, BoardDone
  <1> USE BoardValues DEF BoardCore, BoardTables, Posts!CommentsHavePosts, RowsLast
  <1>3. ASSUME NEW i \in Post, Posts!CreatePost(p, i) PROVE BoardTables' /\ RowsLast
    BY <1>2, <1>3 DEF Posts!CreatePost, Posts!Row, Posts!CommentRow
  <1>4. CASE Posts!UpdatePost(p)
    BY <1>2, <1>4 DEF Posts!UpdatePost, Posts!Target, Posts!Row, Posts!CommentRow
  <1>5. CASE Posts!DeletePost(p)
    <2>1. bh[p].item \in Post
      BY <1>2, <1>5 DEF Posts!DeletePost, Posts!Target
    <2>2. posts' = [posts EXCEPT ![bh[p].item] = None] /\ drawn' = drawn
      BY <1>5 DEF Posts!DeletePost
    <2>3. ASSUME NEW c \in Comment
          PROVE  comments'[c] = IF posts[bh[p].item] # None /\ comments[c] # None
                                   /\ comments[c].post = bh[p].item
                                THEN None ELSE comments[c]
      BY <1>5 DEF Posts!DeletePost
    <2>4. comments' \in [Comment -> Posts!CommentRow \cup {None}]
      BY <1>5, <2>3 DEF Posts!DeletePost
    <2>5. ASSUME NEW c \in Comment, comments'[c] # None
          PROVE  posts'[comments'[c].post] # None
      <3>1. comments'[c] = comments[c] /\ comments[c].post \in Post
            /\ posts[comments[c].post] # None
        BY <2>3, <2>5 DEF Posts!CommentRow
      <3>2. comments[c].post # bh[p].item
        BY <2>3, <2>5, <3>1
      <3> QED
        BY <2>2, <3>1, <3>2
    <2>6. posts' \in [Post -> Posts!Row \cup {None}]
      BY <2>2
    <2> QED
      BY <2>1, <2>2, <2>3, <2>4, <2>5, <2>6
  <1>6. ASSUME NEW c \in Comment, Posts!CreateComment(p, c) PROVE BoardTables' /\ RowsLast
    BY <1>2, <1>6 DEF Posts!CreateComment, Posts!Target, Posts!Row, Posts!CommentRow
  <1>7. CASE Posts!UpdateComment(p)
    BY <1>2, <1>7 DEF Posts!UpdateComment, Posts!Target, Posts!Row, Posts!CommentRow
  <1>8. CASE Posts!DeleteComment(p)
    BY <1>2, <1>8 DEF Posts!DeleteComment, Posts!Target, Posts!Row, Posts!CommentRow
  <1> QED
    BY <1>3, <1>4, <1>5, <1>6, <1>7, <1>8 DEF Posts!Write

LEMMA BoardInvariant == AdministrationSpec => []BoardCore
  <1>1. AdministrationInit => BoardCore
    BY BoardInit DEF AdministrationInit
  <1>2. BoardCore /\ [AdministrationNext]_allvars => BoardCore'
    <2> SUFFICES ASSUME BoardCore, [AdministrationNext]_allvars PROVE BoardCore'
      OBVIOUS
    <2>1. CASE UNCHANGED bvars
      BY <2>1 DEF BoardCore, BoardTables, BoardKnows, Posts!CommentsHavePosts, bvars
    <2>2. ASSUME NEW p \in Thread, BoardStep(p) PROVE BoardCore'
      <3>1. ASSUME NEW q \in Thread, q # p PROVE BoardKnows(q)'
        <4>1. bh'[q] = bh[q] /\ BoardKnows(q)
          BY <2>2, <3>1 DEF BoardStep, BoardCore
        <4>2. bh[q].pc # "idle" /\ bh[q].op \in PostOps => bh[q].item \in Post
          BY <4>1 DEF BoardKnows, PostOps, Posts!Target
        <4>3. bh[q].pc # "idle" /\ bh[q].op \in CommentOps => bh[q].item \in Comment
          BY <4>1 DEF BoardKnows, CommentOps, Posts!Target
        <4> QED
          BY <2>2, <4>1, <4>2, <4>3 DEF BoardStep, BoardKnows, RowsLast
      <3> QED
        BY <2>2, <3>1 DEF BoardStep, BoardCore
    <2> QED
      BY <2>1, <2>2, BoardRequires, BoardDecides, BoardWrites, BoardRestart
      DEF AdministrationNext, allvars, bvars, Posts!Next
  <1> QED
    BY <1>1, <1>2, PTL DEF AdministrationSpec, allvars


\* The steps that DeletedStaysDeleted and ChangesAuthorised allow.
NoneReturns ==
  /\ \A i \in drawn \cap Post : posts[i] = None /\ posts'[i] # None => Posts!Restart
  /\ \A c \in drawn \cap Comment : comments[c] = None /\ comments'[c] # None => Posts!Restart

OnlyByRight ==
  Posts!Restart \/
  /\ \A i \in Post : posts[i] # None /\ posts'[i] # posts[i] =>
       \E p \in Thread : Posts!MayManage(bh[p].role, bh[p].user, posts[i].author, "post",
                           IF posts'[i] = None THEN "delete" ELSE "update")
  /\ \A c \in Comment : comments[c] # None /\ comments'[c] # comments[c] =>
       \/ comments'[c] = None /\ posts'[comments[c].post] = None
       \/ \E p \in Thread : Posts!MayManage(bh[p].role, bh[p].user, comments[c].author,
            "comment", IF comments'[c] = None THEN "delete" ELSE "update")

\* On the board a row is edited or removed only by one who may do it to the row as it
\* is then, an edit brings no deleted row back, and no comment outlives its post
\* (CommentsHavePosts, DeletedStaysDeleted, ChangesAuthorised).
THEOREM BoardIsKept == AdministrationSpec => BoardKept
  <1>1. BoardCore => Posts!CommentsHavePosts
    BY DEF BoardCore, BoardTables
  <1>2. BoardCore /\ [AdministrationNext]_allvars =>
          [NoneReturns]_(Posts!vars)
    <2> SUFFICES ASSUME BoardCore, [AdministrationNext]_allvars, ~Posts!Restart,
                        ~UNCHANGED Posts!vars
                 PROVE  NoneReturns
      BY DEF NoneReturns
    <2>1. RowsLast
      BY BoardRequires, BoardDecides, BoardWrites
      DEF AdministrationNext, allvars, bvars, Posts!vars, Posts!Next, BoardStep
    <2> QED
      BY <2>1 DEF RowsLast, NoneReturns
  <1>3. BoardCore /\ [AdministrationNext]_allvars =>
          [OnlyByRight]_(Posts!vars)
    <2> SUFFICES ASSUME BoardCore, [AdministrationNext]_allvars, ~Posts!Restart,
                        ~UNCHANGED Posts!vars
                 PROVE  OnlyByRight
      BY DEF OnlyByRight
    <2>1. PICK p \in Thread : UNCHANGED <<posts, comments>> \/ Posts!Write(p)
      BY DEF AdministrationNext, allvars, bvars, Posts!vars, Posts!Next, Posts!RequireActor,
         Posts!Authorize
    <2> USE BoardValues DEF BoardCore, BoardTables, OnlyByRight
    <2>2. BoardKnows(p)
      OBVIOUS
    <2>3. CASE UNCHANGED <<posts, comments>>
      BY <2>3
    <2>4. ASSUME NEW i \in Post, Posts!CreatePost(p, i) PROVE UNCHANGED comments
                 /\ \A j \in Post : posts[j] # None => posts'[j] = posts[j]
      BY <2>4 DEF Posts!CreatePost
    <2>5. ASSUME NEW c \in Comment, Posts!CreateComment(p, c) PROVE UNCHANGED posts
                 /\ \A d \in Comment : comments[d] # None => comments'[d] = comments[d]
      BY <2>5 DEF Posts!CreateComment
    <2>6. CASE Posts!UpdatePost(p)
      <3>1. UNCHANGED comments /\ bh[p].pc = "write" /\ bh[p].op = "update_post"
        BY <2>6 DEF Posts!UpdatePost
      <3>2. ASSUME NEW i \in Post, posts[i] # None, posts'[i] # posts[i]
            PROVE  /\ Posts!MayManage(bh[p].role, bh[p].user, posts[i].author, "post", "update")
                   /\ posts'[i] # None
        <4>1. i = bh[p].item /\ posts[i].author = bh[p].author
              /\ posts'[i] = [posts[i] EXCEPT !.by = bh[p].user]
          BY <2>6, <3>2 DEF Posts!UpdatePost
        <4>2. posts'[i] \in Posts!Row
          BY <2>2, <3>1, <3>2, <4>1 DEF BoardKnows, Posts!Row
        <4> QED
          BY <2>2, <3>1, <4>1, <4>2 DEF BoardKnows, PostOps, Verb
      <3> QED
        BY <3>1, <3>2
    <2>7. CASE Posts!DeletePost(p)
      <3>1. bh[p].pc = "write" /\ bh[p].op = "delete_post"
        BY <2>7 DEF Posts!DeletePost
      <3>2. bh[p].item \in Post
        BY <2>2, <3>1 DEF BoardKnows, Posts!Target
      <3>3. ASSUME NEW i \in Post, posts[i] # None, posts'[i] # posts[i]
            PROVE  /\ Posts!MayManage(bh[p].role, bh[p].user, posts[i].author, "post", "delete")
                   /\ posts'[i] = None
        <4>1. i = bh[p].item /\ posts'[i] = None
          BY <2>7, <3>3 DEF Posts!DeletePost
        <4> QED
          BY <2>2, <3>1, <3>3, <4>1 DEF BoardKnows, PostOps, Verb
      <3>4. ASSUME NEW c \in Comment, comments[c] # None, comments'[c] # comments[c]
            PROVE  comments'[c] = None /\ posts'[comments[c].post] = None
        BY <2>7, <3>2, <3>4 DEF Posts!DeletePost
      <3> QED
        BY <3>3, <3>4
    <2>8. CASE Posts!UpdateComment(p)
      <3>1. UNCHANGED posts /\ bh[p].pc = "write" /\ bh[p].op = "update_comment"
        BY <2>8 DEF Posts!UpdateComment
      <3>2. ASSUME NEW c \in Comment, comments[c] # None, comments'[c] # comments[c]
            PROVE  /\ Posts!MayManage(bh[p].role, bh[p].user, comments[c].author, "comment", "update")
                   /\ comments'[c] # None
        <4>1. c = bh[p].item /\ comments[c].author = bh[p].author
              /\ comments'[c] = [comments[c] EXCEPT !.by = bh[p].user]
          BY <2>8, <3>2 DEF Posts!UpdateComment
        <4>2. comments'[c] \in Posts!CommentRow
          BY <2>2, <3>1, <3>2, <4>1 DEF BoardKnows, Posts!CommentRow
        <4> QED
          BY <2>2, <3>1, <4>1, <4>2 DEF BoardKnows, CommentOps, Verb
      <3> QED
        BY <3>1, <3>2
    <2>9. CASE Posts!DeleteComment(p)
      <3>1. UNCHANGED posts /\ bh[p].pc = "write" /\ bh[p].op = "delete_comment"
        BY <2>9 DEF Posts!DeleteComment
      <3>2. ASSUME NEW c \in Comment, comments[c] # None, comments'[c] # comments[c]
            PROVE  /\ Posts!MayManage(bh[p].role, bh[p].user, comments[c].author, "comment", "delete")
                   /\ comments'[c] = None
        <4>1. c = bh[p].item /\ comments'[c] = None
          BY <2>9, <3>2 DEF Posts!DeleteComment
        <4> QED
          BY <2>2, <3>1, <3>2, <4>1 DEF BoardKnows, CommentOps, Verb
      <3> QED
        BY <3>1, <3>2
    <2> QED
      BY <2>1, <2>3, <2>4, <2>5, <2>6, <2>7, <2>8, <2>9
      DEF Posts!Write
  <1> QED
    BY <1>1, <1>2, <1>3, BoardInvariant, PTL
    DEF AdministrationSpec, allvars, BoardKept, Posts!DeletedStaysDeleted, Posts!ChangesAuthorised,
        NoneReturns, OnlyByRight

=============================================================================
