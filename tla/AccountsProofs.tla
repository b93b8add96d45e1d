--------------------------- MODULE AccountsProofs ---------------------------
(***************************************************************************)
(* Proofs about Accounts for every number of users, sessions and handlers. *)
(* Core is inductive in every order of their steps; Sure adds what a       *)
(* handler may rely on until another one changes the users beside it.      *)
(***************************************************************************)
EXTENDS Accounts, TLAPS

\* The users that were administrators at first or were made one since.
Ever == Admins \cup granted

Loaded == {"check_other", "write", "credential", "issue", "record"}

\* What a handler knows at each label.
InFlight(p) ==
  /\ h[p].pc # "idle" => h[p].target \in User /\ h[p].op \in Operation
  /\ h[p].pc = "session" => h[p].actor \in SessionId
  /\ h[p].pc = "actor" => h[p].actor \in SessionId
  /\ h[p].pc \in Loaded =>
       /\ h[p].row \in Row
       /\ h[p].row.role = "admin" => h[p].target \in Ever
  /\ h[p].pc = "revoke" /\ h[p].op # "revoke_session" =>
       \A s \in h[p].before : s[1] = h[p].target /\ sess[s].state # "unused"
  /\ h[p].pc = "done" => \A s \in h[p].before : sess[s].state = "revoked"

Core == TypeOK /\ NoEscalation /\ \A p \in Proc : InFlight(p)

LEMMA InitCore == Init => Core
  <1> SUFFICES ASSUME Init PROVE Core
    OBVIOUS
  <1>1. Idle \in Handler
    BY ConfigAssumption DEF Idle, Handler, Label
  <1>2. TypeOK
    BY <1>1, ConfigAssumption DEF Init, TypeOK, Row, SessionRow, InitRole
  <1>3. NoEscalation
    BY DEF Init, NoEscalation, InitRole, SessionId
  <1>4. \A p \in Proc : InFlight(p)
    BY DEF Init, InFlight, Idle, Loaded
  <1> QED
    BY <1>2, <1>3, <1>4 DEF Core

\* A step of p leaves the locals of the other handlers alone.
LEMMA OneHandler ==
  ASSUME Core, NEW p \in Proc, Step(p)
  PROVE  /\ h'[p] \in Handler
         /\ h' = [h EXCEPT ![p] = h'[p]]
  <1> USE ConfigAssumption, SentinelAssumption DEF Core, TypeOK, Goto, Finish, Proceed
  <1>1. Idle \in Handler
    BY DEF Idle, Handler, Label
  <1>2. h[p] \in Handler /\ InFlight(p)
    OBVIOUS
  <1>3. ASSUME NEW l \in Label PROVE [h[p] EXCEPT !.pc = l] \in Handler
    BY <1>2 DEF Handler
  <1>4. ASSUME NEW s \in SessionId, NEW o \in AdminOp, NEW u \in User, Command(p, s, o, u)
        PROVE  h'[p] \in Handler /\ h' = [h EXCEPT ![p] = h'[p]]
    BY <1>1, <1>4 DEF Command, Handler, Operation, Label
  <1>5. ASSUME NEW o \in LoginOp, NEW u \in User, NEW w \in 0..MaxPassword, Login(p, o, u, w)
        PROVE  h'[p] \in Handler /\ h' = [h EXCEPT ![p] = h'[p]]
    BY <1>1, <1>5 DEF Login, Handler, Operation, Label
  <1>6. CASE VerifySession(p) \/ VerifyActor(p) \/ TouchFails(p) \/ CheckOther(p)
    <2>1. AfterVerify(h[p].op) \in Label
      BY DEF AfterVerify, Label
    <2> QED
      BY <1>1, <1>3, <1>6, <2>1
      DEF VerifySession, VerifyActor, TouchFails, CheckOther, Label
  <1>7. CASE ReadTarget(p) \/ LookupUser(p)
    <2>1. users[h[p].target] \in Row
      BY <1>2, <1>7 DEF InFlight, ReadTarget, LookupUser
    <2>2. ASSUME NEW l \in Label
          PROVE [h[p] EXCEPT !.row = users[h[p].target], !.pc = l] \in Handler
      BY <1>2, <2>1 DEF Handler
    <2>3. CASE ReadTarget(p)
      BY <1>1, <2>2, <2>3 DEF ReadTarget, Label
    <2>4. CASE LookupUser(p)
      BY <1>1, <2>2, <2>4 DEF LookupUser, Label
    <2> QED
      BY <1>7, <2>3, <2>4
  <1>8. CASE WriteTarget(p) \/ SetUserPassword(p)
    <2>1. LiveSessions(h[p].target) \subseteq SessionId
      BY DEF LiveSessions
    <2>2. [h[p] EXCEPT !.pc = "revoke", !.row = None,
                       !.before = LiveSessions(h[p].target)] \in Handler
      BY <1>2, <2>1 DEF Handler, Label
    <2> QED
      BY <1>1, <1>8, <2>2 DEF WriteTarget, SetUserPassword
  <1>9. CASE \/ SetUserPasswordFails(p) \/ RevokeSessionsForUser(p) \/ VerifyPassword(p)
             \/ RecordLogin(p) \/ Answer(p) \/ Crash(p)
             \/ (\E s \in SessionId : RevokeSession(p, s) \/ IssueSession(p, s))
    BY <1>1, <1>3, <1>9
    DEF SetUserPasswordFails, RevokeSessionsForUser, VerifyPassword, RecordLogin,
        Answer, Crash, RevokeSession, IssueSession, Label
  <1> QED
    BY <1>4, <1>5, <1>6, <1>7, <1>8, <1>9 DEF Step

\* What no step ever takes back: a grant, a revocation, the issue of a session.
Monotone ==
  /\ granted \subseteq granted'
  /\ \A s \in SessionId :
       /\ sess[s].state # "unused" => sess'[s].state # "unused"
       /\ sess[s].state = "revoked" => sess'[s].state = "revoked"

LEMMA StepMonotone ==
  ASSUME Core, NEW p \in Proc, Step(p)
  PROVE  Monotone
  <1> USE DEF Core, TypeOK, Monotone, history
  <1>1. CASE UNCHANGED <<granted, sess>>
    BY <1>1
  <1>2. CASE WriteTarget(p)
    BY <1>2 DEF WriteTarget
  <1>3. CASE RevokeSessionsForUser(p)
    BY <1>3 DEF RevokeSessionsForUser, LiveSessions, SessionRow
  <1>4. CASE \E s \in SessionId : RevokeSession(p, s) \/ IssueSession(p, s)
    BY <1>4 DEF RevokeSession, IssueSession, SessionRow
  <1> QED
    BY <1>1, <1>2, <1>3, <1>4
    DEF Step, Command, Login, VerifySession, VerifyActor, TouchFails, ReadTarget,
        CheckOther, SetUserPassword, SetUserPasswordFails, LookupUser,
        VerifyPassword, RecordLogin, Answer, Crash

LEMMA NewRowType ==
  ASSUME NEW o \in Operation, NEW r \in Row
  PROVE  /\ NewRow(o, r) \in Row
         /\ NewRow(o, r).role = "admin" => o = "role_admin" \/ r.role = "admin"
  BY DEF NewRow, Row

LEMMA TypeStep ==
  ASSUME Core, NEW p \in Proc, Step(p), Overtaking(p)
  PROVE  TypeOK'
  <1>1. h' \in [Proc -> Handler] /\ overtaken' \subseteq Proc
    BY OneHandler DEF Core, TypeOK, Overtaking
  <1> USE ConfigAssumption DEF Core, TypeOK, history
  <1>2. InFlight(p)
    OBVIOUS
  <1>3. CASE UNCHANGED <<users, password, sess, history>>
    BY <1>1, <1>3
  <1>4. CASE WriteTarget(p)
    <2>1. /\ NewRow(h[p].op, h[p].row) \in Row /\ h[p].target \in User
          /\ NewRow(h[p].op, ordered[h[p].target]) \in Row
      BY <1>2, <1>4, NewRowType DEF WriteTarget, InFlight, Loaded
    <2> QED
      BY <1>1, <1>4, <2>1 DEF WriteTarget
  <1>5. CASE SetUserPassword(p)
    BY <1>1, <1>2, <1>5 DEF SetUserPassword, InFlight
  <1>6. CASE RevokeSessionsForUser(p)
    BY <1>1, <1>6 DEF RevokeSessionsForUser, SessionRow
  <1>7. ASSUME NEW s \in SessionId, RevokeSession(p, s) PROVE TypeOK'
    BY <1>1, <1>7 DEF RevokeSession, SessionRow
  <1>8. ASSUME NEW s \in SessionId, IssueSession(p, s) PROVE TypeOK'
    <2>1. h[p].row.role \in {"admin", "user"}
      BY <1>2, <1>8 DEF IssueSession, InFlight, Loaded, Row
    <2>2. [state |-> "live", role |-> h[p].row.role] \in SessionRow
      BY <2>1 DEF SessionRow
    <2> QED
      BY <1>1, <1>8, <2>2 DEF IssueSession
  <1>9. CASE RecordLogin(p)
    BY <1>1, <1>2, <1>9 DEF RecordLogin, InFlight, Loaded
  <1> QED
    BY <1>3, <1>4, <1>5, <1>6, <1>7, <1>8, <1>9
    DEF Step, Command, Login, VerifySession, VerifyActor, TouchFails, ReadTarget,
        CheckOther, SetUserPasswordFails, LookupUser, VerifyPassword, Answer, Crash

LEMMA EscalationStep ==
  ASSUME Core, NEW p \in Proc, Step(p)
  PROVE  NoEscalation'
  <1>1. Ever \subseteq Ever'
    BY StepMonotone DEF Monotone, Ever
  <1> USE DEF Core, TypeOK, NoEscalation, Ever, history
  <1>2. InFlight(p)
    OBVIOUS
  <1>3. CASE UNCHANGED <<users, sess, granted>>
    BY <1>3
  <1>4. CASE WriteTarget(p)
    <2>1. /\ h[p].target \in User
          /\ NewRow(h[p].op, h[p].row).role = "admin" =>
               h[p].op = "role_admin" \/ h[p].target \in Ever
      BY <1>2, <1>4, NewRowType DEF WriteTarget, InFlight, Loaded
    <2> QED
      BY <1>1, <1>4, <2>1 DEF WriteTarget
  <1>5. CASE RevokeSessionsForUser(p)
    BY <1>5 DEF RevokeSessionsForUser, SessionRow
  <1>6. CASE \E s \in SessionId : RevokeSession(p, s)
    BY <1>6 DEF RevokeSession, SessionRow
  <1>7. ASSUME NEW s \in SessionId, IssueSession(p, s) PROVE NoEscalation'
    BY <1>2, <1>7 DEF IssueSession, InFlight, Loaded
  <1>8. CASE RecordLogin(p)
    BY <1>2, <1>8 DEF RecordLogin, InFlight, Loaded
  <1> QED
    BY <1>3, <1>4, <1>5, <1>6, <1>7, <1>8
    DEF Step, Command, Login, VerifySession, VerifyActor, TouchFails, ReadTarget,
        CheckOther, SetUserPassword, SetUserPasswordFails, LookupUser,
        VerifyPassword, Answer, Crash

\* Other handlers keep what they know: nothing they rely on is taken back.
LEMMA Frame ==
  ASSUME Core, Monotone, NEW q \in Proc, h'[q] = h[q]
  PROVE  InFlight(q)'
  <1>1. InFlight(q) /\ h[q].before \subseteq SessionId
    BY DEF Core, TypeOK, Handler
  <1>2. Ever \subseteq Ever'
    BY DEF Monotone, Ever
  <1> QED
    BY <1>1, <1>2 DEF InFlight, Monotone

\* The locals of a handler that goes on to a label, and of one that has read.
SameFields(p) ==
  /\ h'[p].op = h[p].op /\ h'[p].actor = h[p].actor
  /\ h'[p].target = h[p].target

LEMMA Moved ==
  ASSUME TypeOK, NEW p \in Proc, NEW l, Goto(p, l)
  PROVE  /\ h'[p].pc = l /\ SameFields(p)
         /\ h'[p].row = h[p].row /\ h'[p].before = h[p].before
  BY DEF TypeOK, Handler, Goto, SameFields

LEMMA Loads ==
  ASSUME TypeOK, NEW p \in Proc, NEW l, NEW r,
         h' = [h EXCEPT ![p].row = r, ![p].pc = l]
  PROVE  h'[p].pc = l /\ SameFields(p) /\ h'[p].row = r
  BY DEF TypeOK, Handler, SameFields

LEMMA Notes ==
  ASSUME TypeOK, NEW p \in Proc, NEW l, NEW b,
         h' = [h EXCEPT ![p].pc = l, ![p].row = None, ![p].before = b]
  PROVE  h'[p].pc = l /\ SameFields(p) /\ h'[p].before = b
  BY DEF TypeOK, Handler, SameFields

LEMMA OwnFlight ==
  ASSUME Core, NEW p \in Proc, Step(p)
  PROVE  InFlight(p)'
  <1>1. Monotone /\ h' = [h EXCEPT ![p] = h'[p]] /\ h \in [Proc -> Handler]
    BY OneHandler, StepMonotone DEF Core, TypeOK
  <1>2. Finish(p) => h'[p] = Idle
    BY <1>1 DEF Finish
  <1>3. InFlight(p) /\ TypeOK
    BY DEF Core
  <1>4. h'[p] = Idle => InFlight(p)'
    BY DEF Idle, InFlight, Loaded
  <1>5. Ever \subseteq Ever'
    BY <1>1 DEF Monotone, Ever
  <1>6. ASSUME NEW s \in SessionId, NEW o \in AdminOp, NEW u \in User, Command(p, s, o, u)
        PROVE  InFlight(p)'
    BY <1>1, <1>6 DEF Command, InFlight, Idle, Loaded, Operation
  <1>7. ASSUME NEW o \in LoginOp, NEW u \in User, NEW w \in 0..MaxPassword, Login(p, o, u, w)
        PROVE  InFlight(p)'
    BY <1>1, <1>7 DEF Login, InFlight, Idle, Loaded, Operation
  <1>8. CASE VerifySession(p)
    <2>1. CASE Goto(p, "actor")
      BY <1>3, <1>8, <2>1, Moved DEF VerifySession, InFlight, Loaded, SameFields
    <2> QED
      BY <1>2, <1>4, <1>8, <2>1 DEF VerifySession, Proceed
  <1>9. CASE VerifyActor(p)
    <2>1. ASSUME Goto(p, AfterVerify(h[p].op)) PROVE InFlight(p)'
      <3>1. AfterVerify(h[p].op) \in {"set_password", "revoke", "target"}
            /\ (AfterVerify(h[p].op) = "revoke" => h[p].op = "revoke_session")
        BY DEF AfterVerify
      <3>2. h'[p].pc = AfterVerify(h[p].op) /\ SameFields(p)
        BY <1>3, <2>1, Moved
      <3> QED
        BY <1>3, <1>9, <3>1, <3>2 DEF VerifyActor, InFlight, Loaded, SameFields
    <2> QED
      BY <1>2, <1>4, <1>9, <2>1 DEF VerifyActor, Proceed
  <1>10. CASE ReadTarget(p) \/ LookupUser(p)
    <2>1. h[p].target \in User /\ h[p].op \in Operation
      BY <1>3, <1>10 DEF ReadTarget, LookupUser, InFlight
    <2>2. /\ users[h[p].target] \in Row
          /\ users[h[p].target].role = "admin" => h[p].target \in Ever
      BY <2>1 DEF Core, TypeOK, NoEscalation, Ever
    <2>3. ASSUME NEW l \in {"check_other", "write", "credential", "issue"},
                 h' = [h EXCEPT ![p].row = users[h[p].target], ![p].pc = l]
          PROVE  InFlight(p)'
      <3>1. h'[p].pc = l /\ SameFields(p) /\ h'[p].row = users[h[p].target]
        BY <1>3, <2>3, Loads
      <3> QED
        BY <1>5, <2>1, <2>2, <3>1 DEF InFlight, Loaded, SameFields
    <2> QED
      BY <1>2, <1>4, <1>10, <2>3 DEF ReadTarget, LookupUser
  <1>11. ASSUME h[p].pc \in Loaded, NEW l \in {"write", "issue", "record"}, Goto(p, l)
        PROVE  InFlight(p)'
    <2>1. h'[p].pc = l /\ SameFields(p) /\ h'[p].row = h[p].row
      BY <1>3, <1>11, Moved
    <2> QED
      BY <1>3, <1>5, <1>11, <2>1 DEF InFlight, Loaded, SameFields
  <1>12. CASE CheckOther(p) \/ VerifyPassword(p) \/ (\E s \in SessionId : IssueSession(p, s))
    BY <1>2, <1>11, <1>4, <1>12
    DEF CheckOther, VerifyPassword, IssueSession, Proceed, Loaded
  <1>13. CASE WriteTarget(p) \/ SetUserPassword(p)
    <2>1. h[p].target \in User /\ h[p].op \in Operation /\ sess' = sess
      BY <1>3, <1>13 DEF WriteTarget, SetUserPassword, InFlight
    <2>2. ASSUME h' = [h EXCEPT ![p].pc = "revoke", ![p].row = None,
                                ![p].before = LiveSessions(h[p].target)]
          PROVE  InFlight(p)'
      <3>1. h'[p].pc = "revoke" /\ SameFields(p) /\ h'[p].before = LiveSessions(h[p].target)
        BY <1>3, <2>2, Notes
      <3> QED
        BY <2>1, <3>1 DEF InFlight, Loaded, SameFields, LiveSessions
    <2> QED
      BY <1>2, <1>4, <1>13, <2>2 DEF WriteTarget, SetUserPassword
  <1>14. CASE RevokeSessionsForUser(p)
    <2>1. ASSUME NEW s \in h[p].before PROVE sess'[s].state = "revoked"
      <3>1. s \in SessionId /\ s[1] = h[p].target /\ sess[s].state \in {"live", "revoked"}
        BY <1>3, <1>14 DEF RevokeSessionsForUser, InFlight, TypeOK, Handler, SessionRow
      <3>2. sess[s] \in SessionRow
        BY <1>3, <3>1 DEF TypeOK
      <3> QED
        BY <1>14, <3>1, <3>2 DEF RevokeSessionsForUser, LiveSessions, SessionRow
    <2>2. h'[p].pc = "done" /\ SameFields(p) /\ h'[p].before = h[p].before
      BY <1>3, <1>14, Moved DEF RevokeSessionsForUser
    <2>3. h[p].target \in User /\ h[p].op \in Operation
      BY <1>3, <1>14 DEF RevokeSessionsForUser, InFlight
    <2> QED
      BY <2>1, <2>2, <2>3 DEF InFlight, Loaded, SameFields
  <1>15. CASE \/ TouchFails(p) \/ SetUserPasswordFails(p) \/ RecordLogin(p)
              \/ Answer(p) \/ Crash(p)
              \/ (\E s \in SessionId : RevokeSession(p, s))
    BY <1>2, <1>4, <1>15
    DEF TouchFails, SetUserPasswordFails, RecordLogin, Answer, Crash, RevokeSession
  <1> QED
    BY <1>6, <1>7, <1>8, <1>9, <1>10, <1>12, <1>13, <1>14, <1>15
    DEF Step

LEMMA FlightStep ==
  ASSUME Core, NEW p \in Proc, Step(p)
  PROVE  \A q \in Proc : InFlight(q)'
  <1>1. Monotone /\ h' = [h EXCEPT ![p] = h'[p]] /\ h \in [Proc -> Handler]
    BY OneHandler, StepMonotone DEF Core, TypeOK
  <1>2. ASSUME NEW q \in Proc, q # p PROVE InFlight(q)'
    BY <1>1, <1>2, Frame
  <1> QED
    BY <1>2, OwnFlight

LEMMA Stutter == Core /\ UNCHANGED vars => Core'
  BY DEF Core, vars, history, TypeOK, NoEscalation, InFlight, Loaded, Ever

LEMMA CoreInvariant == Spec => []Core
  <1>1. Core /\ [Next]_vars => Core'
    <2> SUFFICES ASSUME Core, [Next]_vars PROVE Core'
      OBVIOUS
    <2>1. ASSUME NEW p \in Proc, Step(p), Overtaking(p) PROVE Core'
      BY <2>1, TypeStep, EscalationStep, FlightStep DEF Core
    <2> QED
      BY <2>1, Stutter DEF Next
  <1> QED
    BY <1>1, InitCore, PTL DEF Spec

\* The tables and the locals of the handlers keep their types (TypeOK).
THEOREM TypeCorrect == Spec => []TypeOK
  <1>1. Core => TypeOK
    BY DEF Core
  <1> QED
    BY <1>1, CoreInvariant, PTL

\* Nobody becomes an administrator, or holds a session with an administrator's
\* permissions, except by update_user_role, in whatever order handlers write
\* back the rows they read (NoEscalation).
THEOREM RolesAreGranted == Spec => []NoEscalation
  <1>1. Core => NoEscalation
    BY DEF Core
  <1> QED
    BY <1>1, CoreInvariant, PTL

\* When a role change, a disabling or a password change has completed, every
\* session that was live when it was written is revoked (ChangeCutsSessions).
THEOREM CompletedChangesCut == Spec => []ChangeCutsSessions
  <1>1. Core => ChangeCutsSessions
    BY DEF Core, InFlight, ChangeCutsSessions
  <1> QED
    BY <1>1, CoreInvariant, PTL

-----------------------------------------------------------------------------
(* What a handler may rely on *)

\* The operation of a handler fits its label; and until another one changes the
\* users, its copy of the row is what the table holds, and an operation that takes
\* away an administrator has seen another one.
Sure(p) ==
  /\ h[p].pc \in {"session", "actor"} => h[p].op \in AdminOp
  /\ h[p].pc \in {"target", "check_other", "write"} =>
       h[p].op \in AdminOp \ {"set_password", "revoke_session"}
  /\ p \notin overtaken /\ h[p].pc \in Loaded => h[p].row = users[h[p].target]
  /\ p \notin overtaken /\ h[p].pc = "write" /\ Removes(h[p].op, h[p].row) =>
       OtherAdmin(h[p].target)

Inv == Core /\ \A p \in Proc : Sure(p)

LEMMA SureStep ==
  ASSUME Core, NEW p \in Proc, Step(p), Overtaking(p), Sure(p)
  PROVE  Sure(p)'
  <1>1. /\ h' = [h EXCEPT ![p] = h'[p]] /\ h \in [Proc -> Handler]
        /\ InFlight(p) /\ TypeOK /\ users \in [User -> Row]
    BY OneHandler DEF Core, TypeOK
  <1>2. h'[p] = Idle => Sure(p)'
    BY DEF Idle, Sure, Loaded
  <1>3. Finish(p) => h'[p] = Idle
    BY <1>1 DEF Finish
  <1>4. h'[p].pc \in {"lookup", "revoke", "done", "set_password"} => Sure(p)'
    BY DEF Sure, Loaded
  <1>5. ASSUME NEW s \in SessionId, NEW o \in AdminOp, NEW u \in User, Command(p, s, o, u)
        PROVE  Sure(p)'
    BY <1>1, <1>5 DEF Command, Sure, Idle, Loaded
  <1>6. CASE \E o \in LoginOp, u \in User, w \in 0..MaxPassword : Login(p, o, u, w)
    BY <1>1, <1>4, <1>6 DEF Login, Idle
  <1>7. CASE VerifySession(p) \/ VerifyActor(p)
    <2>1. ASSUME NEW l, Goto(p, l),
                 l = "actor" \/ l = AfterVerify(h[p].op)
          PROVE  Sure(p)'
      <3>1. h'[p].pc = l /\ SameFields(p)
        BY <1>1, <2>1, Moved
      <3>2. h[p].op \in AdminOp
        BY <1>7 DEF VerifySession, VerifyActor, Sure
      <3> QED
        BY <2>1, <3>1, <3>2 DEF Sure, AfterVerify, SameFields, Loaded
    <2> QED
      BY <1>2, <1>3, <1>7, <2>1 DEF VerifySession, VerifyActor, Proceed
  <1>8. CASE RevokeSessionsForUser(p)
    BY <1>1, <1>4, <1>8, Moved DEF RevokeSessionsForUser
  <1>9. CASE ReadTarget(p)
    <2>1. ASSUME h[p].op \in AdminOp \ {"set_password", "revoke_session"},
                 h' = [h EXCEPT ![p].row = users[h[p].target],
                                ![p].pc = IF Removes(h[p].op, users[h[p].target])
                                          THEN "check_other" ELSE "write"]
          PROVE  Sure(p)'
      <3>1. /\ h'[p].pc = (IF Removes(h[p].op, users[h[p].target])
                           THEN "check_other" ELSE "write")
            /\ SameFields(p) /\ h'[p].row = users[h[p].target]
        BY <1>1, <2>1, Loads
      <3> QED
        BY <1>9, <2>1, <3>1 DEF ReadTarget, Sure, SameFields
    <2>2. h[p].op \in AdminOp \ {"set_password", "revoke_session"}
      BY <1>9 DEF ReadTarget, Sure
    <2> QED
      BY <1>2, <1>3, <1>9, <2>1, <2>2 DEF ReadTarget
  <1>10. CASE LookupUser(p)
    <2>1. ASSUME NEW l \in {"credential", "issue"},
                 h' = [h EXCEPT ![p].row = users[h[p].target], ![p].pc = l]
          PROVE  Sure(p)'
      <3>1. h'[p].pc = l /\ SameFields(p) /\ h'[p].row = users[h[p].target]
        BY <1>1, <2>1, Loads
      <3> QED
        BY <1>10, <3>1 DEF LookupUser, Sure, SameFields
    <2> QED
      BY <1>2, <1>3, <1>10, <2>1 DEF LookupUser
  <1>11. ASSUME h[p].pc \in Loaded, h'[p].row = h[p].row, p \notin overtaken'
         PROVE  p \notin overtaken
    <2>1. h[p].row # None
      BY <1>1, <1>11, SentinelAssumption DEF InFlight
    <2> QED
      BY <1>11, <2>1 DEF Overtaking
  <1>12. ASSUME NEW l \in {"issue", "record"}, Goto(p, l), UNCHANGED users,
                h[p].pc \in Loaded
         PROVE  Sure(p)'
    <2>1. h'[p].pc = l /\ SameFields(p) /\ h'[p].row = h[p].row
      BY <1>1, <1>12, Moved
    <2> QED
      BY <1>11, <1>12, <2>1 DEF Sure, SameFields
  <1>13. CASE VerifyPassword(p) \/ (\E s \in SessionId : IssueSession(p, s))
    BY <1>2, <1>3, <1>12, <1>13 DEF VerifyPassword, IssueSession, Proceed, Loaded
  <1>14. CASE CheckOther(p)
    <2>1. ASSUME OtherAdmin(h[p].target), Goto(p, "write") PROVE Sure(p)'
      <3>1. h'[p].pc = "write" /\ SameFields(p) /\ h'[p].row = h[p].row
        BY <1>1, <2>1, Moved
      <3>2. OtherAdmin(h[p].target)'
        BY <1>14, <2>1, <3>1 DEF CheckOther, OtherAdmin, ActiveAdmin, SameFields
      <3> QED
        BY <1>11, <1>14, <3>1, <3>2 DEF CheckOther, Sure, SameFields, Loaded
    <2> QED
      BY <1>2, <1>3, <1>14, <2>1 DEF CheckOther, Proceed
  <1>15. CASE WriteTarget(p) \/ SetUserPassword(p)
    <2>1. ASSUME h' = [h EXCEPT ![p].pc = "revoke", ![p].row = None,
                                ![p].before = LiveSessions(h[p].target)]
          PROVE  Sure(p)'
      <3>1. h'[p].pc = "revoke"
        BY <1>1, <2>1, Notes
      <3> QED
        BY <1>4, <3>1
    <2> QED
      BY <1>2, <1>3, <1>15, <2>1 DEF WriteTarget, SetUserPassword
  <1>16. CASE \/ TouchFails(p) \/ SetUserPasswordFails(p) \/ RecordLogin(p)
              \/ Answer(p) \/ Crash(p)
              \/ (\E s \in SessionId : RevokeSession(p, s))
    BY <1>2, <1>3, <1>16
    DEF TouchFails, SetUserPasswordFails, RecordLogin, Answer, Crash, RevokeSession
  <1> QED
    BY <1>5, <1>6, <1>7, <1>8, <1>9, <1>10, <1>13, <1>14, <1>15, <1>16 DEF Step

\* The other handlers stay sure, or are overtaken.
LEMMA SureFrame ==
  ASSUME Core, NEW p \in Proc, Overtaking(p), NEW q \in Proc, q # p, h'[q] = h[q], Sure(q)
  PROVE  Sure(q)'
  <1>1. CASE q \in overtaken' \/ h[q].pc \notin Loaded
    BY <1>1 DEF Sure, Loaded
  <1>2. CASE q \notin overtaken' /\ h[q].pc \in Loaded
    <2>1. h[q].row # None
      BY <1>2, SentinelAssumption DEF Core, InFlight
    <2>2. q \notin overtaken /\ users' = users
      BY <1>2, <2>1 DEF Overtaking
    <2> QED
      BY <2>2 DEF Sure, OtherAdmin, ActiveAdmin
  <1> QED
    BY <1>1, <1>2

LEMMA InvInvariant == Spec => []Inv
  <1>1. Init => \A p \in Proc : Sure(p)
    BY DEF Init, Idle, Sure, Loaded
  <1>2. Inv /\ [Next]_vars => Inv'
    <2> SUFFICES ASSUME Inv, [Next]_vars PROVE Inv'
      OBVIOUS
    <2>1. ASSUME NEW p \in Proc, Step(p), Overtaking(p) PROVE Inv'
      <3>1. Core /\ Sure(p)
        BY DEF Inv
      <3>2. Core' /\ Sure(p)'
        BY <2>1, <3>1, TypeStep, EscalationStep, FlightStep, SureStep DEF Core
      <3>3. h' = [h EXCEPT ![p] = h'[p]] /\ h \in [Proc -> Handler]
        BY <2>1, <3>1, OneHandler DEF Core, TypeOK
      <3>4. ASSUME NEW q \in Proc, q # p PROVE Sure(q)'
        <4>1. h'[q] = h[q] /\ Sure(q)
          BY <3>3, <3>4 DEF Inv
        <4> QED
          BY <2>1, <3>1, <3>4, <4>1, SureFrame
      <3> QED
        BY <3>2, <3>4 DEF Inv
    <2>2. CASE UNCHANGED vars
      BY <2>2, Stutter DEF Inv, vars, Sure, Loaded, OtherAdmin, ActiveAdmin
    <2> QED
      BY <2>1, <2>2 DEF Next
  <1> QED
    BY <1>1, <1>2, InitCore, PTL DEF Spec, Inv

\* Only the two whole-row writes change the users, at the handler's target; one
\* that was not overtaken stores what the command makes of the row there is.
LEMMA UsersStep ==
  ASSUME Core, NEW p \in Proc, Step(p), Sure(p)
  PROVE  \/ UNCHANGED <<users, ordered>>
         \/ /\ \A v \in User \ {h[p].target} :
                 users'[v] = users[v] /\ ordered'[v] = ordered[v]
            /\ p \in overtaken
         \/ /\ WriteTarget(p)
            /\ users' = [users EXCEPT ![h[p].target] = NewRow(h[p].op, @)]
            /\ ordered' = [ordered EXCEPT ![h[p].target] = NewRow(h[p].op, @)]
  <1> USE DEF history
  <1>1. /\ InFlight(p)
        /\ users \in [User -> Row] /\ ordered \in [User -> Row]
    BY DEF Core, TypeOK
  <1>2. CASE WriteTarget(p)
    BY <1>1, <1>2 DEF WriteTarget, Sure, InFlight, Loaded
  <1>3. CASE RecordLogin(p)
    BY <1>1, <1>3 DEF RecordLogin, Sure, InFlight, Loaded
  <1> QED
    BY <1>2, <1>3
    DEF Step, Command, Login, VerifySession, VerifyActor, TouchFails, ReadTarget,
        CheckOther, SetUserPassword, SetUserPasswordFails, RevokeSessionsForUser,
        RevokeSession, IssueSession, LookupUser, VerifyPassword, Answer, Crash

\* A step that changes the users, or issues a session, changes the handler.
LEMMA Moves ==
  ASSUME Core, NEW p \in Proc,
         \/ WriteTarget(p) \/ RecordLogin(p)
         \/ \E s \in SessionId : IssueSession(p, s)
  PROVE  h'[p] # h[p]
  <1>1. TypeOK /\ h \in [Proc -> Handler]
    BY DEF Core, TypeOK
  <1>2. Finish(p) => h'[p].pc = "idle"
    BY <1>1 DEF Finish, Idle
  <1>3. CASE WriteTarget(p)
    <2>1. h'[p].pc \in {"idle", "revoke"}
      BY <1>1, <1>2, <1>3, Notes DEF WriteTarget
    <2> QED
      BY <1>3, <2>1 DEF WriteTarget
  <1>4. CASE RecordLogin(p)
    BY <1>2, <1>4 DEF RecordLogin
  <1>5. CASE \E s \in SessionId : IssueSession(p, s)
    BY <1>1, <1>5, Moved DEF IssueSession
  <1> QED
    BY <1>3, <1>4, <1>5

LEMMA UsersMove ==
  ASSUME Core, NEW p \in Proc, Step(p), ~UNCHANGED <<users, ordered>>
  PROVE  h'[p] # h[p]
  <1>1. WriteTarget(p) \/ RecordLogin(p)
    BY DEF Step, Command, Login, VerifySession, VerifyActor, TouchFails, ReadTarget,
        CheckOther, SetUserPassword, SetUserPasswordFails, RevokeSessionsForUser,
        RevokeSession, IssueSession, LookupUser, VerifyPassword, Answer, Crash, history
  <1> QED
    BY <1>1, Moves

LEMMA NewRowKeeps ==
  ASSUME NEW o \in AdminOp, NEW r \in Row, ~Removes(o, r), r.role = "admin",
         r.status = "active", o \notin {"set_password", "revoke_session"}
  PROVE  NewRow(o, r).role = "admin" /\ NewRow(o, r).status = "active"
  <1>1. o \in {"role_admin", "unban", "enable"}
    BY DEF AdminOp, Removes
  <1> QED
    BY <1>1 DEF NewRow, Row

LEMMA AdminStep ==
  ASSUME Core, NEW p \in Proc, Step(p), Sure(p), SomeAdminRemains, ~SomeAdminRemains'
  PROVE  p \in overtaken /\ h'[p] # h[p]
  <1>1. users' # users
    BY DEF SomeAdminRemains, ActiveAdmin
  <1>2. ASSUME WriteTarget(p), p \notin overtaken,
               users' = [users EXCEPT ![h[p].target] = NewRow(h[p].op, @)]
        PROVE  FALSE
    <2> DEFINE u == h[p].target
               o == h[p].op
    <2>1. /\ u \in User /\ users \in [User -> Row] /\ users[u] = h[p].row
          /\ o \in AdminOp \ {"set_password", "revoke_session"}
      BY <1>2 DEF WriteTarget, Core, TypeOK, InFlight, Sure, Loaded
    <2>2. \A v \in User \ {u} : users'[v] = users[v]
      BY <1>2, <2>1
    <2>3. CASE Removes(o, users[u])
      BY <1>2, <2>1, <2>2, <2>3
      DEF WriteTarget, Sure, OtherAdmin, SomeAdminRemains, ActiveAdmin
    <2>4. CASE ~Removes(o, users[u])
      <3>1. ActiveAdmin(u) => users'[u].role = "admin" /\ users'[u].status = "active"
        <4>1. users[u] \in Row /\ users'[u] = NewRow(o, users[u])
          BY <1>2, <2>1
        <4> QED
          BY <2>1, <2>4, <4>1, NewRowKeeps DEF ActiveAdmin
      <3> QED
        BY <2>1, <2>2, <3>1 DEF SomeAdminRemains, ActiveAdmin
    <2> QED
      BY <2>3, <2>4
  <1>3. p \in overtaken
    BY <1>1, <1>2, UsersStep
  <1> QED
    BY <1>1, <1>3, UsersMove

\* With any number of handlers, which may die half-way, the last active
\* administrator goes only by a handler beside which others have changed the users
\* since it read its row (LastAdminKept).
THEOREM AdminRemains == Spec => LastAdminKept
  <1>1. Inv /\ [Next]_vars =>
          [SomeAdminRemains /\ ~SomeAdminRemains' => ByOvertaken]_vars
    <2> SUFFICES ASSUME Inv, NEW p \in Proc, Step(p), SomeAdminRemains, ~SomeAdminRemains'
                 PROVE  ByOvertaken
      BY DEF Next
    <2>1. Core /\ Sure(p)
      BY DEF Inv
    <2> QED
      BY <2>1, AdminStep DEF ByOvertaken
  <1> QED
    BY <1>1, InvInvariant, PTL DEF Spec, LastAdminKept

\* In every order of operations, logins and deaths the rows stay as the commands of
\* the administrators made them, except where a handler writes one back that others
\* have overtaken (CommandsHold).
THEOREM CommandsLast == Spec => CommandsHold
  <1> DEFINE A == \A u \in User : users[u] = ordered[u] /\ users'[u] # ordered'[u] =>
                    \E p \in overtaken : h'[p] # h[p] /\ h[p].target = u
  <1>1. Inv /\ [Next]_vars => [A]_vars
    <2> SUFFICES ASSUME Inv, NEW p \in Proc, Step(p),
                        NEW u \in User, users[u] = ordered[u], users'[u] # ordered'[u]
                 PROVE  p \in overtaken /\ h'[p] # h[p] /\ h[p].target = u
      BY DEF Next
    <2>1. /\ Core /\ Sure(p)
          /\ users \in [User -> Row] /\ ordered \in [User -> Row]
      BY DEF Inv, Core, TypeOK
    <2>2. p \in overtaken /\ h[p].target = u
      BY <2>1, UsersStep
    <2>3. h'[p] # h[p]
      BY <2>1, UsersMove
    <2> QED
      BY <2>2, <2>3
  <1> QED
    BY <1>1, InvInvariant, PTL DEF Spec, CommandsHold

\* A session that is live was so before, with its role, or has just been issued.
LEMMA SessionStep ==
  ASSUME Core, NEW p \in Proc, Step(p), NEW s \in SessionId, sess'[s].state = "live"
  PROVE  IssueSession(p, s) \/ sess'[s] = sess[s]
  <1>1. sess \in [SessionId -> SessionRow]
    BY DEF Core, TypeOK
  <1>2. CASE sess' = sess
    BY <1>2
  <1>3. CASE RevokeSessionsForUser(p)
    BY <1>1, <1>3 DEF RevokeSessionsForUser, SessionRow
  <1>4. ASSUME NEW t \in SessionId, RevokeSession(p, t) PROVE sess'[s] = sess[s]
    BY <1>1, <1>4 DEF RevokeSession, SessionRow
  <1>5. ASSUME NEW t \in SessionId, IssueSession(p, t)
        PROVE  IssueSession(p, s) \/ sess'[s] = sess[s]
    BY <1>1, <1>5 DEF IssueSession
  <1> QED
    BY <1>2, <1>3, <1>4, <1>5
    DEF Step, Command, Login, VerifySession, VerifyActor, TouchFails, ReadTarget,
        CheckOther, WriteTarget, SetUserPassword, SetUserPasswordFails, LookupUser,
        VerifyPassword, RecordLogin, Answer, Crash

LEMMA FitsStep ==
  ASSUME Core, NEW p \in Proc, Step(p), Sure(p), NEW s \in SessionId, Fits(s), ~Fits(s)'
  PROVE  \/ p \in overtaken /\ h'[p] # h[p]
         \/ AboutToRevoke(p, s[1]) /\ h'[p] = Idle
  <1>1. /\ InFlight(p) /\ TypeOK /\ users \in [User -> Row] /\ s[1] \in User
        /\ sess \in [SessionId -> SessionRow] /\ sess[s] \in SessionRow
        /\ h' = [h EXCEPT ![p] = h'[p]] /\ h \in [Proc -> Handler]
    BY OneHandler DEF Core, TypeOK, SessionId
  <1>2. /\ sess'[s].state = "live" /\ sess'[s].role # users'[s[1]].role
        /\ \A q \in Proc : ~AboutToRevoke(q, s[1])'
    BY DEF Fits
  <1>3. ASSUME NEW q \in Proc, AboutToRevoke(q, s[1]) PROVE q = p
    BY <1>1, <1>2, <1>3 DEF AboutToRevoke
  <1>4. CASE AboutToRevoke(p, s[1])
    <2>1. ~RevokeSessionsForUser(p)
      BY <1>1, <1>2, <1>4 DEF AboutToRevoke, RevokeSessionsForUser, LiveSessions, SessionRow
    <2>2. Crash(p)
      BY <1>4, <2>1
      DEF AboutToRevoke, Step, Command, Login, VerifySession, VerifyActor, TouchFails,
          ReadTarget, CheckOther, WriteTarget, SetUserPassword, SetUserPasswordFails,
          RevokeSession, IssueSession, LookupUser, VerifyPassword, RecordLogin, Answer
    <2> QED
      BY <1>1, <1>4, <2>2 DEF Crash, Finish
  <1>5. CASE sess[s].state # "live"
    <2>1. IssueSession(p, s)
      BY <1>2, <1>5, SessionStep
    <2>2. p \in overtaken
      BY <1>1, <1>2, <2>1 DEF IssueSession, Sure, Loaded
    <2>3. h'[p] # h[p]
      BY <2>1, Moves
    <2> QED
      BY <2>2, <2>3
  <1>6. CASE sess[s].state = "live" /\ ~AboutToRevoke(p, s[1])
    <2>1. sess[s].role = users[s[1]].role
      BY <1>3, <1>6 DEF Fits
    <2>2. sess'[s].role = sess[s].role
      <3>1. ~IssueSession(p, s)
        BY <1>6 DEF IssueSession
      <3> QED
        BY <1>2, <3>1, SessionStep
    <2>3. users'[s[1]].role # users[s[1]].role
      BY <1>2, <2>1, <2>2
    <2>4. ASSUME WriteTarget(p),
                 users' = [users EXCEPT ![h[p].target] = NewRow(h[p].op, @)]
          PROVE  FALSE
      <3>1. /\ h[p].target \in User
            /\ h[p].op \in AdminOp \ {"set_password", "revoke_session"}
        BY <1>1, <2>4 DEF WriteTarget, InFlight, Sure
      <3>2. h[p].target = s[1]
        BY <1>1, <2>3, <2>4
      <3>3. NewRow(h[p].op, users[s[1]]).role # users[s[1]].role
        BY <1>1, <2>3, <2>4, <3>2
      <3>4. h[p].op \in {"role_admin", "role_user"}
        BY <1>1, <3>1, <3>3 DEF NewRow, Row, AdminOp
      <3>5. h' = [h EXCEPT ![p].pc = "revoke", ![p].row = None,
                           ![p].before = LiveSessions(h[p].target)]
        BY <2>4, <3>4 DEF WriteTarget, RevokesAfter
      <3>6. h'[p].pc = "revoke" /\ SameFields(p)
        BY <1>1, <3>5, Notes
      <3> QED
        BY <1>2, <3>2, <3>4, <3>6 DEF AboutToRevoke, SameFields
    <2>5. p \in overtaken
      BY <2>3, <2>4, UsersStep
    <2> QED
      BY <2>3, <2>5, UsersMove
  <1> QED
    BY <1>4, <1>5, <1>6

\* With any number of handlers, live sessions come to carry another role than their
\* user only by a handler that others have overtaken, or one that dies between the
\* change of a role and the revocation (RolesFit).
THEOREM SessionsCarryRole == Spec => RolesFit
  <1> DEFINE A == \A s \in SessionId : Fits(s) /\ ~Fits(s)' =>
                    \/ ByOvertaken
                    \/ \E p \in Proc : AboutToRevoke(p, s[1]) /\ h'[p] = Idle
  <1>1. Inv /\ [Next]_vars => [A]_vars
    <2> SUFFICES ASSUME Inv, NEW p \in Proc, Step(p),
                        NEW s \in SessionId, Fits(s), ~Fits(s)'
                 PROVE  ByOvertaken \/ \E q \in Proc : AboutToRevoke(q, s[1]) /\ h'[q] = Idle
      BY DEF Next
    <2>1. Core /\ Sure(p)
      BY DEF Inv
    <2> QED
      BY <2>1, FitsStep DEF ByOvertaken
  <1> QED
    BY <1>1, InvInvariant, PTL DEF Spec, RolesFit
=============================================================================
