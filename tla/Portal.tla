------------------------------- MODULE Portal -------------------------------
(***************************************************************************)
(* The account pages of the demo (examples/saas_app.py): one account that  *)
(* is signed up, logged in to with a password, edited, given a new         *)
(* password, and whose sessions its owner ends one by one, while an        *)
(* administrator bans and reinstates it.                                   *)
(*                                                                         *)
(* A handler runs in a thread of its own and may die between two calls of  *)
(* the storage; one action is one call.  A password is the number of the   *)
(* change that set it, so that no two are alike.                           *)
(***************************************************************************)
EXTENDS Naturals

CONSTANTS
  Session, Proc,
  None,                     \* sentinel
  RevokeOnPasswordChange,   \* config.revoke_sessions_on_password_change
  MaxPassword               \* bound on the password changes

ConfigAssumption ==
  /\ RevokeOnPasswordChange \in BOOLEAN /\ MaxPassword \in Nat
  /\ None \notin Session \cup {"active", "banned"}

VARIABLES
  status,     \* the row of the account: None, active or banned
  password,   \* its credential, or None
  sess,       \* its sessions: unused, live or revoked
  h           \* what each handler is at, and its locals

vars == <<status, password, sess, h>>

Status == {"active", "banned"}
Label == {"idle", "create", "credential", "lookup", "verify", "issue", "record",
          "session", "user", "save", "check", "set", "revoke", "list", "end", "done"}
Form == {"signup", "login", "profile", "password", "end", "logout"}

\* own is the session of the cookie, secret the password of the form, row the copy of
\* the row, other the session to end; cut is history, the sessions to be revoked.
Handler == [pc : Label, form : Form \cup {None}, own : Session \cup {None},
            secret : 0 .. MaxPassword, row : Status \cup {None},
            other : Session \cup {None}, cut : SUBSET Session]
Idle == [pc |-> "idle", form |-> None, own |-> None, secret |-> 0, row |-> None,
         other |-> None, cut |-> {}]

Init ==
  /\ status = None /\ password = None
  /\ sess = [s \in Session |-> "unused"]
  /\ h = [p \in Proc |-> Idle]

Goto(p, label) == h' = [h EXCEPT ![p].pc = label]
Answer(p) == h' = [h EXCEPT ![p] = Idle]
Proceed(p, ok, label) == IF ok THEN Goto(p, label) ELSE Answer(p)
Live == {s \in Session : sess[s] = "live"}

-----------------------------------------------------------------------------
(* Signing up and logging in *)

Signup(p) ==
  /\ h[p].pc = "idle"
  /\ h' = [h EXCEPT ![p] = [Idle EXCEPT !.pc = "create", !.form = "signup"]]
  /\ UNCHANGED <<status, password, sess>>

\* The unique address refuses a second account.
CreateUser(p) ==
  /\ h[p].pc = "create"
  /\ IF status = None
     THEN status' = "active" /\ Goto(p, "credential")
     ELSE Answer(p) /\ UNCHANGED status
  /\ UNCHANGED <<password, sess>>

\* The first password, which revokes no session; the form then logs in with it.
FirstPassword(p) ==
  /\ h[p].pc = "credential"
  /\ password' = 0
  /\ Goto(p, "lookup")
  /\ UNCHANGED <<status, sess>>

Login(p, w) ==
  /\ h[p].pc = "idle" /\ password # None /\ w <= password
  /\ h' = [h EXCEPT ![p] = [Idle EXCEPT !.pc = "lookup", !.form = "login", !.secret = w]]
  /\ UNCHANGED <<status, password, sess>>

LookupUser(p) ==
  /\ h[p].pc = "lookup"
  /\ IF status = "active"
     THEN h' = [h EXCEPT ![p].pc = "verify", ![p].row = status]
     ELSE Answer(p)
  /\ UNCHANGED <<status, password, sess>>

VerifyPassword(p) ==
  /\ h[p].pc = "verify"
  /\ Proceed(p, password = h[p].secret, "issue")
  /\ UNCHANGED <<status, password, sess>>

IssueSession(p, s) ==
  /\ h[p].pc = "issue" /\ sess[s] = "unused"
  /\ sess' = [sess EXCEPT ![s] = "live"]
  /\ Goto(p, "record")
  /\ UNCHANGED <<status, password>>

-----------------------------------------------------------------------------
(* The pages of the account *)

\* A form comes with the session of the cookie.
Submit(p, form, s, w, o) ==
  /\ h[p].pc = "idle" /\ sess[s] # "unused"
  /\ \/ form = "password" /\ w <= password /\ o = None
     \/ form = "end" /\ w = 0 /\ o \in Session
     \/ form \in {"profile", "logout"} /\ w = 0 /\ o = None
  /\ h' = [h EXCEPT ![p] = [Idle EXCEPT !.pc = "session", !.form = form, !.own = s,
                                        !.secret = w, !.other = o]]
  /\ UNCHANGED <<status, password, sess>>

\* A logout revokes whatever session the cookie names; the other forms verify it.
ReadSession(p) ==
  /\ h[p].pc = "session"
  /\ IF h[p].form = "logout"
     THEN h' = [h EXCEPT ![p].pc = "end", ![p].other = h[p].own]
     ELSE Proceed(p, sess[h[p].own] = "live", "user")
  /\ UNCHANGED <<status, password, sess>>

ReadUser(p) ==
  /\ h[p].pc = "user"
  /\ IF status = "active"
     THEN h' = [h EXCEPT ![p].row = status,
                         ![p].pc = CASE h[p].form = "profile" -> "save"
                                     [] h[p].form = "password" -> "check"
                                     [] h[p].form = "end" -> "list"]
     ELSE Answer(p)
  /\ UNCHANGED <<status, password, sess>>

\* The profile form and the login write back the whole row that was read.
SaveRow(p) ==
  /\ h[p].pc \in {"save", "record"}
  /\ status' = h[p].row
  /\ Answer(p)
  /\ UNCHANGED <<password, sess>>

CheckCurrent(p) ==
  /\ h[p].pc = "check"
  /\ Proceed(p, password = h[p].secret, "set")
  /\ UNCHANGED <<status, password, sess>>

\* Faulty variant (for PasswordChangeCuts): the sessions are ended before the password is set.
SetAfterRevoking(p) ==
  /\ h[p].pc = "set" /\ password < MaxPassword
  /\ IF h[p].cut = {}
     THEN /\ sess' = [s \in Session |-> IF s \in Live \ {h[p].own} THEN "revoked" ELSE sess[s]]
          /\ h' = [h EXCEPT ![p].cut = {h[p].own}]
          /\ UNCHANGED password
     ELSE /\ password' = password + 1
          /\ h' = [h EXCEPT ![p].pc = "done", ![p].cut = Live \ {h[p].own}]
          /\ UNCHANGED sess
  /\ UNCHANGED status

\* set_password; it raises when the new password is too short.
SetPassword(p) ==
  /\ h[p].pc = "set" /\ password < MaxPassword
  /\ password' = password + 1
  /\ h' = [h EXCEPT ![p].pc = IF RevokeOnPasswordChange THEN "revoke" ELSE "done",
                    ![p].cut = IF RevokeOnPasswordChange THEN Live \ {h[p].own} ELSE {}]
  /\ UNCHANGED <<status, sess>>

RevokeOthers(p) ==
  /\ h[p].pc = "revoke"
  /\ sess' = [s \in Session |-> IF s \in Live \ {h[p].own} THEN "revoked" ELSE sess[s]]
  /\ Goto(p, "done")
  /\ UNCHANGED <<status, password>>

\* A session is ended only if the list of the account has it.
ListSessions(p) ==
  /\ h[p].pc = "list"
  /\ Proceed(p, sess[h[p].other] # "unused", "end")
  /\ UNCHANGED <<status, password, sess>>

EndSession(p) ==
  /\ h[p].pc = "end"
  /\ sess' = [sess EXCEPT ![h[p].other] = "revoked"]
  /\ Answer(p)
  /\ UNCHANGED <<status, password>>

\* A password change is answered; a handler refuses its form, or dies.
Return(p) ==
  /\ h[p].pc # "idle"
  /\ Answer(p)
  /\ UNCHANGED <<status, password, sess>>

Ban ==
  /\ status # None
  /\ status' \in Status \ {status}
  /\ UNCHANGED <<password, sess, h>>

Next ==
  \/ \E p \in Proc :
       \/ Signup(p) \/ CreateUser(p) \/ FirstPassword(p)
       \/ \E w \in 0 .. MaxPassword : Login(p, w)
       \/ LookupUser(p) \/ VerifyPassword(p) \/ \E s \in Session : IssueSession(p, s)
       \/ \E form \in Form, s \in Session, w \in 0 .. MaxPassword, o \in Session \cup {None} :
            Submit(p, form, s, w, o)
       \/ ReadSession(p) \/ ReadUser(p) \/ SaveRow(p) \/ CheckCurrent(p) \/ SetPassword(p)
       \/ RevokeOthers(p) \/ ListSessions(p) \/ EndSession(p) \/ Return(p)
  \/ Ban

Spec == Init /\ [][Next]_vars

-----------------------------------------------------------------------------
(* Properties *)

\* The tables and the locals of the handlers have their types.
TypeOK ==
  /\ status \in Status \cup {None}
  /\ password \in 0 .. MaxPassword \cup {None}
  /\ sess \in [Session -> {"unused", "live", "revoked"}]
  /\ h \in [Proc -> Handler]

\* "The password was changed and the other sessions were ended": when the page says
\* so, every other session there was when the password was written is revoked,
\* whatever logins, logouts and changes from other sessions ran in between.
PasswordChangeCuts ==
  \A p \in Proc : h[p].pc = "done" => \A s \in h[p].cut : sess[s] = "revoked"
=============================================================================
