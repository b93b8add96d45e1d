------------------------------ MODULE Accounts ------------------------------
(***************************************************************************)
(* Administration of accounts (CorelineAdminService) and the logins that   *)
(* run beside it.                                                          *)
(*                                                                         *)
(* Every administrative operation verifies the actor's session, reads the  *)
(* target's row, perhaps looks for another privileged account, and writes  *)
(* the whole row back; a login reads the row, issues a session with the    *)
(* role it read, and writes the whole row back to record the login.  Each  *)
(* of these is a storage call of its own and one action here, so that      *)
(* operations in other threads come in between.  Roles are "admin" (OWNER  *)
(* or ADMIN) and "user"; sessions here do not expire (Sessions has time).  *)
(***************************************************************************)
EXTENDS Naturals

CONSTANTS
  User, Proc,
  Admins,        \* the users that are administrators, and logged in, at first
  None,          \* sentinel
  Ops,           \* the operations a run exercises
  RevokeOnPasswordChange,   \* config.revoke_sessions_on_password_change
  MayCrash,      \* whether a handler may die between two storage calls
  MaxSessions,   \* bound on the sessions of a user
  MaxPassword    \* bound on the password changes of a user

AdminOp == {"role_admin", "role_user", "ban", "unban", "disable", "enable",
            "set_password", "revoke_session"}
LoginOp == {"login_password", "login_link"}
Operation == AdminOp \cup LoginOp

ASSUME ConfigAssumption ==
  /\ Admins \subseteq User /\ Admins # {}
  /\ Ops \subseteq Operation
  /\ RevokeOnPasswordChange \in BOOLEAN /\ MayCrash \in BOOLEAN
  /\ MaxSessions \in Nat \ {0} /\ MaxPassword \in Nat

VARIABLES
  users,     \* the users table: role and status
  password,  \* the version of each user's password
  sess,      \* the sessions table: state and the role the session was issued with
  granted,   \* history: the users update_user_role made administrators
  ordered,   \* history: each user's row as the administrators' commands make it
  overtaken, \* history: the handlers that hold a row while others have written one
  h          \* what each handler is at, and its locals

history == <<granted, ordered>>
vars == <<users, password, sess, history, overtaken, h>>

Row == [role : {"admin", "user"}, status : {"active", "banned", "disabled"}]
SessionId == User \X (1..MaxSessions)
SessionRow == [state : {"unused", "live", "revoked"}, role : {"admin", "user"}]
Label == {"idle", "session", "actor", "target", "check_other", "write",
          "set_password", "revoke", "lookup", "credential", "issue", "record",
          "done"}

ASSUME SentinelAssumption ==
  None \notin User \cup Row \cup SessionId \cup Operation

\* actor is the session the actor presents, row the copy of the target's row,
\* secret the version of the password a login presents; before is history, the
\* target's sessions when the handler wrote.
Handler == [pc : Label, op : Operation \cup {None},
            actor : SessionId \cup {None}, target : User \cup {None},
            row : Row \cup {None}, secret : 0..MaxPassword,
            before : SUBSET SessionId]

Idle == [pc |-> "idle", op |-> None, actor |-> None, target |-> None,
         row |-> None, secret |-> 0, before |-> {}]

InitRole(u) == IF u \in Admins THEN "admin" ELSE "user"

Init ==
  /\ users = [u \in User |-> [role |-> InitRole(u), status |-> "active"]]
  /\ password = [u \in User |-> 0]
  /\ sess = [s \in SessionId |->
       [state |-> IF s[1] \in Admins /\ s[2] = 1 THEN "live" ELSE "unused",
        role |-> InitRole(s[1])]]
  /\ granted = {} /\ ordered = users /\ overtaken = {}
  /\ h = [p \in Proc |-> Idle]

Goto(p, label) == h' = [h EXCEPT ![p].pc = label]

\* The handler answers, with a result or an exception.
Finish(p) == h' = [h EXCEPT ![p] = Idle]

\* Carry on at a label if ok, else raise.
Proceed(p, ok, label) == IF ok THEN Goto(p, label) ELSE Finish(p)

LiveSessions(u) == {s \in SessionId : s[1] = u /\ sess[s].state = "live"}
ActiveAdmin(u) == users[u].role = "admin" /\ users[u].status = "active"

-----------------------------------------------------------------------------
(* Administrative operations *)

\* An actor presents session s and names user u.
Command(p, s, o, u) ==
  /\ h[p].pc = "idle"
  /\ o \in Ops \cap AdminOp
  /\ sess[s].state # "unused"
  /\ h' = [h EXCEPT ![p] = [Idle EXCEPT !.pc = "session", !.op = o,
                                        !.actor = s, !.target = u]]
  /\ UNCHANGED <<users, password, sess, history>>

\* verify_session, first read: the session row, which carries the permissions
\* its role had when it was issued.
VerifySession(p) ==
  /\ h[p].pc = "session"
  /\ LET s == sess[h[p].actor] IN
       Proceed(p, s.state = "live" /\ s.role = "admin", "actor")
  /\ UNCHANGED <<users, password, sess, history>>

AfterVerify(o) ==
  CASE o = "set_password"   -> "set_password"
    [] o = "revoke_session" -> "revoke"
    [] OTHER                -> "target"

\* verify_session, second read: the actor's own row.
VerifyActor(p) ==
  /\ h[p].pc = "actor"
  /\ Proceed(p, users[h[p].actor[1]].status = "active", AfterVerify(h[p].op))
  /\ UNCHANGED <<users, password, sess, history>>

\* When the touch is due it finds that the session was revoked meanwhile.
TouchFails(p) ==
  /\ h[p].pc = "actor"
  /\ sess[h[p].actor].state = "revoked"
  /\ Finish(p)
  /\ UNCHANGED <<users, password, sess, history>>

\* Whether an operation takes away a privileged account, given its row.
Removes(o, r) == r.role = "admin" /\ o \in {"role_user", "ban", "disable"}

\* _require_user(target) and the checks that need no other read.
ReadTarget(p) ==
  /\ h[p].pc = "target"
  /\ LET u == h[p].target
         r == users[u] IN
       IF h[p].op \in {"ban", "disable"} /\ u = h[p].actor[1]
       THEN Finish(p)
       ELSE h' = [h EXCEPT ![p].row = r,
                           ![p].pc = IF Removes(h[p].op, r) THEN "check_other" ELSE "write"]
  /\ UNCHANGED <<users, password, sess, history>>

\* Faulty variant (for LastAdminKept): the target itself is counted.
OtherAdminOrSelf(u) == \E v \in User : ActiveAdmin(v)

OtherAdmin(u) == \E v \in User : v # u /\ ActiveAdmin(v)

CheckOther(p) ==
  /\ h[p].pc = "check_other"
  /\ Proceed(p, OtherAdmin(h[p].target), "write")
  /\ UNCHANGED <<users, password, sess, history>>

\* Faulty variant (for TypeOK): disable stores a status that is none.
NewRowInactive(o, r) ==
  CASE o = "role_admin" -> [r EXCEPT !.role = "admin"]
    [] o = "role_user"  -> [r EXCEPT !.role = "user"]
    [] o = "ban"        -> [r EXCEPT !.status = "banned"]
    [] o = "disable"    -> [r EXCEPT !.status = "inactive"]
    [] OTHER            -> [r EXCEPT !.status = "active"]

NewRow(o, r) ==
  CASE o = "role_admin" -> [r EXCEPT !.role = "admin"]
    [] o = "role_user"  -> [r EXCEPT !.role = "user"]
    [] o = "ban"        -> [r EXCEPT !.status = "banned"]
    [] o = "disable"    -> [r EXCEPT !.status = "disabled"]
    [] OTHER            -> [r EXCEPT !.status = "active"]

\* Faulty variant (for RolesFit): a role change leaves the sessions alone.
RevokesAfterDisable(o) == o = "disable"

\* A ban leaves the sessions alone: verify_session refuses them meanwhile.
RevokesAfter(o) == o \in {"role_admin", "role_user", "disable"}

\* Faulty variant (for ChangeCutsSessions): the sessions are not revoked.
WriteWithoutRevoke(p) ==
  /\ h[p].pc = "write"
  /\ LET u == h[p].target
         o == h[p].op IN
       /\ users' = [users EXCEPT ![u] = NewRow(o, h[p].row)]
       /\ granted' = IF o = "role_admin" THEN granted \cup {u} ELSE granted
       /\ ordered' = [ordered EXCEPT ![u] = NewRow(o, @)]
       /\ h' = [h EXCEPT ![p].pc = "done", ![p].row = None, ![p].before = LiveSessions(u)]
  /\ UNCHANGED <<password, sess>>

\* update_user stores the copy with the role or the status replaced.
WriteTarget(p) ==
  /\ h[p].pc = "write"
  /\ LET u == h[p].target
         o == h[p].op IN
       /\ users' = [users EXCEPT ![u] = NewRow(o, h[p].row)]
       /\ granted' = IF o = "role_admin" THEN granted \cup {u} ELSE granted
       /\ ordered' = [ordered EXCEPT ![u] = NewRow(o, @)]
       /\ IF RevokesAfter(o)
          THEN h' = [h EXCEPT ![p].pc = "revoke", ![p].row = None, ![p].before = LiveSessions(u)]
          ELSE Finish(p)
  /\ UNCHANGED <<password, sess>>

SetUserPassword(p) ==
  /\ h[p].pc = "set_password"
  /\ LET u == h[p].target IN
       /\ password[u] < MaxPassword
       /\ password' = [password EXCEPT ![u] = @ + 1]
       /\ IF RevokeOnPasswordChange
          THEN h' = [h EXCEPT ![p].pc = "revoke", ![p].row = None, ![p].before = LiveSessions(u)]
          ELSE Finish(p)
  /\ UNCHANGED <<users, sess, history>>

\* A password too short is refused.
SetUserPasswordFails(p) ==
  /\ h[p].pc = "set_password"
  /\ Finish(p)
  /\ UNCHANGED <<users, password, sess, history>>

RevokeSessionsForUser(p) ==
  /\ h[p].pc = "revoke" /\ h[p].op # "revoke_session"
  /\ LET live == LiveSessions(h[p].target) IN
       sess' = [s \in SessionId |-> IF s \in live THEN [sess[s] EXCEPT !.state = "revoked"]
                                                  ELSE sess[s]]
  /\ Goto(p, "done")
  /\ UNCHANGED <<users, password, history>>

RevokeSession(p, s) ==
  /\ h[p].pc = "revoke" /\ h[p].op = "revoke_session"
  /\ s[1] = h[p].target /\ sess[s].state # "unused"
  /\ sess' = [sess EXCEPT ![s].state = "revoked"]
  /\ Finish(p)
  /\ UNCHANGED <<users, password, history>>

Answer(p) ==
  /\ h[p].pc = "done"
  /\ Finish(p)
  /\ UNCHANGED <<users, password, sess, history>>

\* A handler dies between two storage calls, or one of the calls fails; the
\* one that creates a session may fail in every run (its bound is reached).
Crash(p) ==
  /\ MayCrash \/ h[p].pc = "issue"
  /\ h[p].pc \notin {"idle", "done"}
  /\ Finish(p)
  /\ UNCHANGED <<users, password, sess, history>>

-----------------------------------------------------------------------------
(* Logins *)

\* Someone logs in with some version of the password, or with a magic link.
Login(p, o, u, w) ==
  /\ h[p].pc = "idle"
  /\ o \in Ops \cap LoginOp
  /\ w <= password[u]
  /\ h' = [h EXCEPT ![p] = [Idle EXCEPT !.pc = "lookup", !.op = o,
                                        !.target = u, !.secret = w]]
  /\ UNCHANGED <<users, password, sess, history>>

\* Only the password login looks at the status.
LookupUser(p) ==
  /\ h[p].pc = "lookup"
  /\ LET r == users[h[p].target] IN
       IF h[p].op = "login_link"
       THEN h' = [h EXCEPT ![p].row = r, ![p].pc = "issue"]
       ELSE IF r.status = "active"
            THEN h' = [h EXCEPT ![p].row = r, ![p].pc = "credential"]
            ELSE Finish(p)
  /\ UNCHANGED <<users, password, sess, history>>

VerifyPassword(p) ==
  /\ h[p].pc = "credential"
  /\ Proceed(p, h[p].secret = password[h[p].target], "issue")
  /\ UNCHANGED <<users, password, sess, history>>

\* The session takes the role the login read.
IssueSession(p, s) ==
  /\ h[p].pc = "issue"
  /\ s[1] = h[p].target /\ sess[s].state = "unused"
  /\ sess' = [sess EXCEPT ![s] = [state |-> "live", role |-> h[p].row.role]]
  /\ Goto(p, "record")
  /\ UNCHANGED <<users, password, history>>

\* Faulty variant (for CommandsHold): recording a login reactivates.
RecordActive(p) ==
  /\ h[p].pc = "record"
  /\ users' = [users EXCEPT ![h[p].target] = [h[p].row EXCEPT !.status = "active"]]
  /\ Finish(p)
  /\ UNCHANGED <<password, sess, history>>

\* record_login writes back the row the login read.
RecordLogin(p) ==
  /\ h[p].pc = "record"
  /\ users' = [users EXCEPT ![h[p].target] = h[p].row]
  /\ Finish(p)
  /\ UNCHANGED <<password, sess, history>>

Step(p) ==
  \/ \E s \in SessionId, o \in AdminOp, u \in User : Command(p, s, o, u)
  \/ \E o \in LoginOp, u \in User, w \in 0..MaxPassword : Login(p, o, u, w)
  \/ VerifySession(p)
  \/ VerifyActor(p)
  \/ TouchFails(p)
  \/ ReadTarget(p)
  \/ CheckOther(p)
  \/ WriteTarget(p)
  \/ SetUserPassword(p)
  \/ SetUserPasswordFails(p)
  \/ RevokeSessionsForUser(p)
  \/ \E s \in SessionId : RevokeSession(p, s)
  \/ \E s \in SessionId : IssueSession(p, s)
  \/ LookupUser(p)
  \/ VerifyPassword(p)
  \/ RecordLogin(p)
  \/ Answer(p)
  \/ Crash(p)

\* Since a handler that holds a row has read it, another one has changed the users.
Overtaking(p) ==
  overtaken' = {q \in Proc : /\ h[q].row # None /\ h'[q].row # None
                             /\ q \in overtaken \/ (q # p /\ users' # users)}

Next == \E p \in Proc : Step(p) /\ Overtaking(p)

Spec == Init /\ [][Next]_vars

-----------------------------------------------------------------------------
(* Properties *)

\* The tables and the locals have their types.
TypeOK ==
  /\ users \in [User -> Row]
  /\ password \in [User -> 0..MaxPassword]
  /\ sess \in [SessionId -> SessionRow]
  /\ granted \subseteq User /\ ordered \in [User -> Row] /\ overtaken \subseteq Proc
  /\ h \in [Proc -> Handler]

\* "At least one active owner/admin account" (_require_another_active_
\* privileged_user), as the README promises it: two operations at once can each
\* find the other's target still active (Accounts_last_admin).
SomeAdminRemains == \E u \in User : ActiveAdmin(u)

\* The step is one of a handler whose row others have overtaken.
ByOvertaken == \E p \in overtaken : h'[p] # h[p]

\* What the check for another administrator does give, with any number of handlers
\* and wherever they die: the last administrator goes only by a handler beside
\* which, since it read its row, another one changed the users.
LastAdminKept == [][SomeAdminRemains /\ ~SomeAdminRemains' => ByOvertaken]_vars

\* Nobody becomes an administrator except by update_user_role, in whatever
\* order whole rows are written back; and nobody holds a session with an
\* administrator's permissions either.
NoEscalation ==
  LET ever == Admins \cup granted IN
    /\ \A u \in User : users[u].role = "admin" => u \in ever
    /\ \A s \in SessionId : sess[s].role = "admin" => s[1] \in ever

\* When a role change, a disabling or a password change has completed, every
\* session the target had when the change was written is revoked.
ChangeCutsSessions ==
  \A p \in Proc :
    h[p].pc = "done" => \A s \in h[p].before : sess[s].state = "revoked"

\* The commands of administrators stand: a banned account stays banned, and a role
\* that was withdrawn stays so, until another command.  A login that read the row
\* before the command writes it back (Accounts_undone_ban).
CommandsStand == users = ordered

\* Operations, logins and crashes in any order leave every row as the commands
\* made it, but for a handler that writes one back after others were overtaking it.
CommandsHold ==
  [][\A u \in User : users[u] = ordered[u] /\ users'[u] # ordered'[u] =>
       \E p \in overtaken : h'[p] # h[p] /\ h[p].target = u]_vars

\* Live sessions carry the role their user has, except while the operation
\* that changes it is between the write and the revocation.  A login that read the
\* old role issues its session after the revocation (Accounts_stale_role).
AboutToRevoke(p, u) ==
  h[p].pc = "revoke" /\ h[p].op \in {"role_admin", "role_user"} /\ h[p].target = u
Fits(s) ==
  sess[s].state = "live" =>
    sess[s].role = users[s[1]].role \/ \E p \in Proc : AboutToRevoke(p, s[1])
RoleUpToDate == \A s \in SessionId : Fits(s)

\* A session comes to carry another role than its user only by a handler that
\* others have overtaken, or one that dies before it revokes the sessions.  The next
\* change of the role cuts those sessions, too (ChangeCutsSessions).
RolesFit ==
  [][\A s \in SessionId : Fits(s) /\ ~Fits(s)' =>
       \/ ByOvertaken
       \/ \E p \in Proc : AboutToRevoke(p, s[1]) /\ h'[p] = Idle]_vars
=============================================================================
