--------------------------- MODULE SessionsProofs ---------------------------
(***************************************************************************)
(* Proofs about Sessions for every number of sessions, users and handlers  *)
(* and every lifetime.  The inductive invariant says, for each label, how  *)
(* the row a handler has read relates to the row in the table, and why a   *)
(* handler that was doomed on arrival cannot get any further.              *)
(***************************************************************************)
EXTENDS Sessions, TLAPS

Parameters == ConfigAssumption /\ SentinelAssumption

Verifying == {"clock", "user", "touch", "upgrade"}

\* The copy may be stale, but only in what the store never takes back.
Agrees(p) ==
  /\ copy[p] \in Row
  /\ copy[p].user = sess[sid[p]].user
  /\ copy[p].aal2 => sess[sid[p]].aal2

Knows(p) ==
  /\ pc[p] # "idle" => Issued(sid[p])
  /\ pc[p] = "idle" => doomed[p] = {}
  /\ pc[p] \in Verifying => Agrees(p)
  /\ pc[p] = "revoke" => op[p] = "logout"
  /\ pc[p] \in Verifying \cup {"elevated"} => op[p] # "logout"
  /\ "session" \in doomed[p] =>
       /\ sess[sid[p]].revoked \/ HardExpired(sess[sid[p]], clock)
       /\ pc[p] = "clock" => copy[p].revoked \/ HardExpired(copy[p], clock)
       /\ pc[p] \in {"user", "touch", "upgrade", "accepted", "elevated"} =>
            op[p] = "logout"
  /\ "user" \in doomed[p] =>
       /\ sess[sid[p]].user \notin active
       /\ pc[p] \in {"touch", "upgrade", "accepted", "elevated"} => op[p] = "logout"
  /\ pc[p] = "accepted" /\ op[p] = "sensitive" => sess[sid[p]].aal2

Core == TypeOK /\ \A p \in Proc : Knows(p)

LEMMA InitCore ==
  ASSUME Parameters
  PROVE  Init => Core
  <1> SUFFICES ASSUME Init PROVE Core
    OBVIOUS
  <1>1. (CHOOSE s \in Session : TRUE) \in Session
    BY DEF Parameters, ConfigAssumption
  <1>2. TypeOK
    BY <1>1 DEF Init, TypeOK, Label, Operation
  <1>3. \A p \in Proc : Knows(p)
    BY DEF Init, Knows, Verifying
  <1> QED
    BY <1>2, <1>3 DEF Core

\* What the store never takes back.
Monotone ==
  /\ clock' >= clock
  /\ \A s \in Session : Issued(s) =>
       /\ Issued(s)'
       /\ sess[s].revoked => sess'[s].revoked
       /\ sess[s].aal2 => sess'[s].aal2
       /\ sess'[s].expires = sess[s].expires
       /\ sess'[s].user = sess[s].user

\* The statements on the sessions table, as updates of rows.
LEMMA RevokeRows ==
  ASSUME Parameters, TypeOK, NEW S \in SUBSET Session, \A s \in S : Issued(s), Revoke(S)
  PROVE  /\ sess' \in [Session -> Row \cup {NoSession}]
         /\ \A s \in Session : Issued(s) =>
              /\ sess'[s] \in Row
              /\ sess[s].revoked => sess'[s].revoked
              /\ sess'[s].aal2 = sess[s].aal2
              /\ sess'[s].idle = sess[s].idle
              /\ sess'[s].expires = sess[s].expires
              /\ sess'[s].user = sess[s].user
         /\ \A s \in Session : Issued(s)' <=> Issued(s)
  <1> USE DEF Parameters, SentinelAssumption, TypeOK, Issued
  <1>1. ASSUME NEW s \in Session, Issued(s)
        PROVE  /\ sess[s] \in Row
               /\ [sess[s] EXCEPT !.revoked = TRUE] \in Row
    BY <1>1 DEF Row
  <1>2. \A s \in Session : sess'[s] \in Row \cup {NoSession}
    BY <1>1 DEF Revoke
  <1>3. sess' \in [Session -> Row \cup {NoSession}]
    BY <1>2 DEF Revoke
  <1>4. ASSUME NEW s \in Session, Issued(s)
        PROVE  /\ sess'[s] \in Row
               /\ sess[s].revoked => sess'[s].revoked
               /\ sess'[s].aal2 = sess[s].aal2
               /\ sess'[s].idle = sess[s].idle
               /\ sess'[s].expires = sess[s].expires
               /\ sess'[s].user = sess[s].user
    BY <1>1, <1>4 DEF Revoke, Row
  <1>5. \A s \in Session : Issued(s)' <=> Issued(s)
    BY <1>4 DEF Revoke
  <1> QED
    BY <1>3, <1>4, <1>5

LEMMA NewSessionRow ==
  ASSUME Parameters, TypeOK, NEW u \in User
  PROVE  [user |-> u, expires |-> clock + Ttl, idle |-> clock + IdleTtl,
          seen |-> clock, revoked |-> FALSE, aal2 |-> FALSE] \in Row
  BY DEF Parameters, ConfigAssumption, TypeOK, Row

LEMMA TouchedRow ==
  ASSUME Parameters, Core, NEW p \in Proc, pc[p] # "idle"
  PROVE  /\ Touched(p) \in Row
         /\ Touched(p).user = sess[sid[p]].user
         /\ Touched(p).expires = sess[sid[p]].expires
         /\ Touched(p).aal2 = sess[sid[p]].aal2
         /\ Touched(p).revoked = sess[sid[p]].revoked
  <1>1. sess[sid[p]] \in Row /\ now[p] \in Nat
    BY DEF Core, TypeOK, Knows, Issued
  <1>2. ASSUME NEW r \in Row, NEW n \in Nat
        PROVE  LET r2 == [r EXCEPT !.seen = n, !.idle = n + IdleTtl]
               IN  /\ r2 \in Row /\ r2.user = r.user /\ r2.expires = r.expires
                   /\ r2.aal2 = r.aal2 /\ r2.revoked = r.revoked
    <2>1. n + IdleTtl \in Nat
      BY DEF Parameters, ConfigAssumption
    <2> QED
      BY <2>1 DEF Row
  <1> QED
    BY <1>1, <1>2 DEF Touched

LEMMA RaisedRow ==
  ASSUME Parameters, TypeOK, NEW r \in Row
  PROVE  LET r2 == [r EXCEPT !.aal2 = TRUE, !.seen = clock]
         IN  r2 \in Row /\ r2.aal2 /\ r2.user = r.user /\ r2.expires = r.expires
             /\ r2.revoked = r.revoked /\ r2.idle = r.idle
  BY DEF TypeOK, Row

LEMMA TypeStep ==
  ASSUME Parameters, Core, Next
  PROVE  TypeOK'
  <1> USE DEF Parameters, ConfigAssumption, SentinelAssumption, Core, TypeOK, Goto, Label, Operation, locals
  <1>1. ASSUME NEW s \in Session, NEW u \in User, IssueSession(s, u) PROVE TypeOK'
    BY <1>1, NewSessionRow DEF IssueSession
  <1>2. ASSUME NEW p \in Proc, NEW s \in Session, NEW o \in Operation, Arrive(p, s, o)
        PROVE  TypeOK'
    BY <1>2 DEF Arrive
  <1>3. ASSUME NEW p \in Proc, Step(p) PROVE TypeOK'
    <2>1. CASE ReadSession(p)
      BY <2>1 DEF ReadSession
    <2>2. CASE CheckSession(p)
      BY <2>2 DEF CheckSession
    <2>3. CASE CheckUser(p) \/ PermissionMissing(p)
      BY <2>3 DEF CheckUser, PermissionMissing, UseSession, Verified
    <2>4. CASE TouchSession(p)
      <3>1. Touched(p) \in Row
        BY <2>4, TouchedRow DEF TouchSession
      <3> QED
        BY <2>4, <3>1 DEF TouchSession, UseSession, Verified
    <2>5. CASE TouchRevoked(p) \/ StepUpFails(p)
      BY <2>5 DEF TouchRevoked, StepUpFails
    <2>6. CASE SetAssurance(p)
      <3>1. sess[sid[p]] \in Row
        BY <2>6 DEF SetAssurance, Knows, Issued
      <3>2. [sess[sid[p]] EXCEPT !.aal2 = TRUE, !.seen = clock] \in Row
        BY <3>1, RaisedRow
      <3> QED
        BY <2>6, <3>2 DEF SetAssurance
    <2>7. CASE Logout(p)
      <3>1. \A s \in {sid[p]} : Issued(s)
        BY <2>7 DEF Logout, Knows
      <3>2. sess' \in [Session -> Row \cup {NoSession}]
        BY <2>7, <3>1, RevokeRows DEF Logout
      <3> QED
        BY <2>7, <3>2 DEF Logout
    <2> QED
      BY <1>3, <2>1, <2>2, <2>3, <2>4, <2>5, <2>6, <2>7 DEF Step
  <1>4. ASSUME NEW p \in Proc, Return(p) PROVE TypeOK'
    <2>1. (CHOOSE s \in Session : TRUE) \in Session
      OBVIOUS
    <2> QED
      BY <1>4, <2>1 DEF Return
  <1>5. ASSUME NEW s \in Session, RevokeSession(s) PROVE TypeOK'
    <2>1. sess' \in [Session -> Row \cup {NoSession}]
      BY <1>5, RevokeRows DEF RevokeSession
    <2> QED
      BY <1>5, <2>1 DEF RevokeSession
  <1>6. ASSUME NEW u \in User, NEW x, RevokeSessionsForUser(u, x) PROVE TypeOK'
    <2>1. sess' \in [Session -> Row \cup {NoSession}]
      BY <1>6, RevokeRows DEF RevokeSessionsForUser
    <2> QED
      BY <1>6, <2>1 DEF RevokeSessionsForUser
  <1>7. ASSUME NEW u \in User, Activate(u) \/ Deactivate(u) PROVE TypeOK'
    BY <1>7 DEF Activate, Deactivate
  <1>8. ASSUME NEW n \in 0..clock, CleanupExpired(n) PROVE TypeOK'
    <2>1. sess' \in [Session -> Row \cup {NoSession}]
      BY <1>8, RevokeRows DEF CleanupExpired
    <2> QED
      BY <1>8, <2>1 DEF CleanupExpired
  <1>9. CASE Tick
    BY <1>9 DEF Tick
  <1> QED
    BY <1>1, <1>2, <1>3, <1>4, <1>5, <1>6, <1>7, <1>8, <1>9 DEF Next

LEMMA StepMonotone ==
  ASSUME Parameters, Core, Next
  PROVE  Monotone
  <1> USE DEF Parameters, SentinelAssumption, Core, TypeOK, Monotone
  <1>1. CASE UNCHANGED sess /\ clock' >= clock
    BY <1>1 DEF Issued
  <1>2. ASSUME NEW s \in Session, NEW u \in User, IssueSession(s, u) PROVE Monotone
    BY <1>2 DEF IssueSession, Issued
  <1>3. ASSUME NEW S \in SUBSET Session, \A s \in S : Issued(s), Revoke(S), clock' = clock
        PROVE  Monotone
    BY <1>3, RevokeRows
  <1>4. ASSUME NEW p \in Proc, Step(p) PROVE Monotone
    <2>1. CASE TouchSession(p)
      BY <2>1, TouchedRow DEF TouchSession, Issued
    <2>2. CASE SetAssurance(p)
      <3>1. sess[sid[p]] \in Row
        BY <2>2 DEF SetAssurance, Knows, Issued
      <3> DEFINE r == [sess[sid[p]] EXCEPT !.aal2 = TRUE, !.seen = clock]
      <3>2. /\ r \in Row /\ r.aal2 /\ r.user = sess[sid[p]].user
            /\ r.expires = sess[sid[p]].expires /\ r.revoked = sess[sid[p]].revoked
        BY <3>1, RaisedRow
      <3>3. sess' = [sess EXCEPT ![sid[p]] = r] /\ clock' = clock
        BY <2>2 DEF SetAssurance
      <3> QED
        BY <3>2, <3>3 DEF Issued
    <2>3. CASE Logout(p)
      BY <1>3, <2>3 DEF Logout, Knows
    <2> QED
      BY <1>1, <1>4, <2>1, <2>2, <2>3
      DEF Step, ReadSession, CheckSession, CheckUser, PermissionMissing, TouchRevoked,
          StepUpFails
  <1>5. ASSUME NEW s \in Session, RevokeSession(s) PROVE Monotone
    BY <1>3, <1>5 DEF RevokeSession
  <1>6. ASSUME NEW u \in User, NEW x, RevokeSessionsForUser(u, x) PROVE Monotone
    BY <1>3, <1>6 DEF RevokeSessionsForUser
  <1>7. ASSUME NEW n \in 0..clock, CleanupExpired(n) PROVE Monotone
    BY <1>3, <1>7 DEF CleanupExpired
  <1> QED
    BY <1>1, <1>2, <1>4, <1>5, <1>6, <1>7
    DEF Next, Arrive, Return, Activate, Deactivate, Tick

\* A handler whose locals a step leaves alone keeps what it knew.
LEMMA Frame ==
  ASSUME Parameters, Core, TypeOK', Monotone, NEW q \in Proc,
         pc'[q] = pc[q], op'[q] = op[q], sid'[q] = sid[q], copy'[q] = copy[q],
         doomed'[q] \subseteq doomed[q],
         "user" \in doomed'[q] => sess[sid[q]].user \notin active'
  PROVE  Knows(q)'
  <1>1. Knows(q) /\ TypeOK
    BY DEF Core
  <1>2. CASE pc[q] = "idle"
    BY <1>1, <1>2 DEF Knows, Verifying
  <1>3. CASE pc[q] # "idle"
    <2>1. Issued(sid[q]) /\ sid[q] \in Session /\ sess[sid[q]] \in Row
      BY <1>1, <1>3 DEF Knows, Issued, TypeOK
    <2>2. /\ Issued(sid[q])'
          /\ sess[sid[q]].revoked => sess'[sid[q]].revoked
          /\ sess[sid[q]].aal2 => sess'[sid[q]].aal2
          /\ sess'[sid[q]].expires = sess[sid[q]].expires
          /\ sess'[sid[q]].user = sess[sid[q]].user
          /\ clock' >= clock /\ clock \in Nat
      BY <2>1, <1>1 DEF Monotone, Issued, TypeOK
    <2>3. clock' \in Nat
      BY DEF TypeOK
    <2>4. HardExpired(sess[sid[q]], clock) => HardExpired(sess'[sid[q]], clock')
      BY <2>1, <2>2, <2>3 DEF HardExpired, Row
    <2>5. pc[q] = "clock" /\ HardExpired(copy[q], clock) => HardExpired(copy[q], clock')
      BY <1>1, <2>2, <2>3 DEF HardExpired, Row, Knows, Agrees, Verifying
    <2> QED
      BY <1>1, <1>3, <2>1, <2>2, <2>4, <2>5 DEF Knows, Agrees, Verifying
  <1> QED
    BY <1>2, <1>3

LEMMA OwnStep ==
  ASSUME Parameters, Core, TypeOK', Monotone, NEW p \in Proc, Step(p)
  PROVE  Knows(p)'
  <1>1. Knows(p) /\ TypeOK /\ pc[p] # "idle" /\ Issued(sid[p])
    BY DEF Core, Knows, Step, ReadSession, CheckSession, CheckUser, PermissionMissing,
           TouchSession, TouchRevoked, StepUpFails, SetAssurance, Logout
  <1>2. /\ op'[p] = op[p] /\ sid'[p] = sid[p] /\ doomed' = doomed /\ active' = active
        /\ clock' = clock /\ sid[p] \in Session /\ sess[sid[p]] \in Row
    BY <1>1 DEF TypeOK, Issued, Step, ReadSession, CheckSession, CheckUser,
           PermissionMissing, TouchSession, TouchRevoked, StepUpFails, SetAssurance, Logout
  <1>3. /\ Issued(sid[p])'
        /\ sess[sid[p]].revoked => sess'[sid[p]].revoked
        /\ sess[sid[p]].aal2 => sess'[sid[p]].aal2
        /\ sess'[sid[p]].expires = sess[sid[p]].expires
        /\ sess'[sid[p]].user = sess[sid[p]].user
    BY <1>1, <1>2 DEF Monotone, Issued
  <1>4. ASSUME pc'[p] = "denied" PROVE Knows(p)'
    BY <1>1, <1>2, <1>3, <1>4 DEF Knows, Verifying, HardExpired
  <1>5. CASE ReadSession(p)
    <2>1. copy'[p] = sess[sid[p]] /\ sess' = sess
          /\ pc'[p] = (IF op[p] = "logout" THEN "revoke" ELSE "clock")
      BY <1>1, <1>5 DEF ReadSession, Goto, TypeOK
    <2> QED
      BY <1>1, <1>2, <1>3, <2>1 DEF Knows, Verifying, Agrees
  <1>6. CASE CheckSession(p)
    <2>1. /\ copy'[p] = copy[p] /\ sess' = sess /\ pc[p] = "clock"
          /\ pc'[p] = (IF Usable(copy[p], clock) THEN "user" ELSE "denied")
      BY <1>1, <1>6 DEF CheckSession, Goto, TypeOK
    <2> QED
      BY <1>1, <1>2, <1>3, <1>4, <2>1 DEF Knows, Verifying, Agrees, Usable
  <1>7. CASE PermissionMissing(p) \/ TouchRevoked(p) \/ StepUpFails(p)
    BY <1>1, <1>4, <1>7 DEF PermissionMissing, TouchRevoked, StepUpFails, Goto, TypeOK
  <1>8. CASE CheckUser(p)
    <2>1. /\ copy'[p] = copy[p] /\ sess' = sess /\ pc[p] = "user"
          /\ pc'[p] = (IF copy[p].user \notin active THEN "denied"
                       ELSE IF TouchDue(copy[p], now[p]) THEN "touch"
                       ELSE Verified(p, copy[p]))
      BY <1>1, <1>8 DEF CheckUser, Goto, TypeOK
    <2> QED
      BY <1>1, <1>2, <1>3, <1>4, <2>1 DEF Knows, Verifying, Agrees, Verified
  <1>9. CASE TouchSession(p)
    <2>1. /\ copy'[p] = Touched(p) /\ pc[p] = "touch" /\ sess'[sid[p]] = Touched(p)
          /\ pc'[p] = Verified(p, Touched(p))
      BY <1>1, <1>2, <1>9 DEF TouchSession, Goto, TypeOK
    <2>2. /\ Touched(p) \in Row /\ Touched(p).user = sess[sid[p]].user
          /\ Touched(p).aal2 = sess[sid[p]].aal2
      BY <1>1, TouchedRow
    <2> QED
      BY <1>1, <1>2, <1>3, <1>4, <2>1, <2>2 DEF Knows, Verifying, Agrees, Verified
  <1>10. CASE SetAssurance(p)
    <2>1. pc'[p] = "elevated" /\ pc[p] = "upgrade"
      BY <1>1, <1>10 DEF SetAssurance, Goto, TypeOK
    <2> QED
      BY <1>1, <1>2, <1>3, <2>1 DEF Knows, Verifying
  <1>11. CASE Logout(p)
    <2>1. pc'[p] = "accepted" /\ pc[p] = "revoke"
      BY <1>1, <1>11 DEF Logout, Goto, TypeOK
    <2> QED
      BY <1>1, <1>2, <1>3, <2>1 DEF Knows, Verifying, HardExpired
  <1> QED
    BY <1>5, <1>6, <1>7, <1>8, <1>9, <1>10, <1>11 DEF Step

LEMMA KnowsStep ==
  ASSUME Parameters, Core, Next, TypeOK', Monotone, NEW q \in Proc
  PROVE  Knows(q)'
  <1>1. TypeOK /\ Knows(q)
    BY DEF Core
  <1>2. "user" \in doomed[q] => sess[sid[q]].user \notin active
    BY <1>1 DEF Knows
  <1>3. CASE UNCHANGED <<active, doomed, pc, op, sid, copy>>
    BY <1>2, <1>3, Frame
  <1>4. ASSUME NEW p \in Proc, Step(p) PROVE Knows(q)'
    <2>1. CASE p = q
      BY <1>4, <2>1, OwnStep
    <2>2. CASE p # q
      <3>1. /\ pc'[q] = pc[q] /\ op'[q] = op[q] /\ sid'[q] = sid[q]
            /\ copy'[q] = copy[q] /\ doomed' = doomed /\ active' = active
        BY <1>1, <1>4, <2>2
        DEF TypeOK, Goto, Step, ReadSession, CheckSession, CheckUser, PermissionMissing,
            TouchSession, TouchRevoked, StepUpFails, SetAssurance, Logout
      <3> QED
        BY <1>2, <3>1, Frame
    <2> QED
      BY <2>1, <2>2
  <1>5. ASSUME NEW p \in Proc, NEW s \in Session, NEW o \in Operation, Arrive(p, s, o)
        PROVE  Knows(q)'
    <2>1. CASE p = q
      <3>1. /\ pc'[q] = "read" /\ op'[q] = o /\ sid'[q] = s /\ sess' = sess
            /\ active' = active /\ clock' = clock /\ Issued(s)
            /\ "session" \in doomed'[q] => sess[s].revoked \/ HardExpired(sess[s], clock)
            /\ "user" \in doomed'[q] => sess[s].user \notin active
        BY <1>1, <1>5, <2>1 DEF Arrive, Goto, TypeOK
      <3> QED
        BY <3>1 DEF Knows, Verifying, Issued, HardExpired
    <2>2. CASE p # q
      <3>1. /\ pc'[q] = pc[q] /\ op'[q] = op[q] /\ sid'[q] = sid[q]
            /\ copy'[q] = copy[q] /\ doomed'[q] = doomed[q] /\ active' = active
        BY <1>1, <1>5, <2>2 DEF TypeOK, Goto, Arrive
      <3> QED
        BY <1>2, <3>1, Frame
    <2> QED
      BY <2>1, <2>2
  <1>6. ASSUME NEW p \in Proc, Return(p) PROVE Knows(q)'
    <2>1. CASE p = q
      <3>1. pc'[q] = "idle" /\ doomed'[q] = {}
        BY <1>1, <1>6, <2>1 DEF Return, Goto, TypeOK
      <3> QED
        BY <3>1 DEF Knows, Verifying
    <2>2. CASE p # q
      <3>1. /\ pc'[q] = pc[q] /\ op'[q] = op[q] /\ sid'[q] = sid[q]
            /\ copy'[q] = copy[q] /\ doomed'[q] = doomed[q] /\ active' = active
        BY <1>1, <1>6, <2>2 DEF TypeOK, Goto, Return
      <3> QED
        BY <1>2, <3>1, Frame
    <2> QED
      BY <2>1, <2>2
  <1>7. ASSUME NEW u \in User, Deactivate(u) PROVE Knows(q)'
    BY <1>2, <1>7, Frame DEF Deactivate, locals
  <1>8. ASSUME NEW u \in User, Activate(u) PROVE Knows(q)'
    <2>1. doomed'[q] = (IF pc[q] # "idle" /\ sess[sid[q]].user = u
                        THEN doomed[q] \ {"user"} ELSE doomed[q])
      BY <1>8 DEF Activate
    <2>2. pc[q] = "idle" => doomed[q] = {}
      BY <1>1 DEF Knows
    <2> QED
      BY <1>2, <1>8, <2>1, <2>2, Frame DEF Activate, locals
  <1> QED
    BY <1>3, <1>4, <1>5, <1>6, <1>7, <1>8
    DEF Next, IssueSession, RevokeSession, RevokeSessionsForUser, CleanupExpired, Tick,
        locals

LEMMA CoreInvariant ==
  ASSUME Parameters
  PROVE  Spec => []Core
  <1>1. Core /\ [Next]_vars => Core'
    <2>1. ASSUME Core, Next PROVE Core'
      BY <2>1, TypeStep, StepMonotone, KnowsStep DEF Core
    <2>2. Core /\ UNCHANGED vars => Core'
      BY DEF Core, vars, locals, TypeOK, Knows, Agrees, Verifying, Issued, HardExpired
    <2> QED
      BY <2>1, <2>2
  <1> QED
    BY <1>1, InitCore, PTL DEF Spec

\* The table and the locals of the handlers keep their types (TypeOK).
THEOREM TypeCorrect ==
  ASSUME Parameters
  PROVE  Spec => []TypeOK
  <1>1. Core => TypeOK
    BY DEF Core
  <1> QED
    BY <1>1, CoreInvariant, PTL

\* No request is accepted that came after its session was revoked or expired,
\* or for a user who was inactive and stayed so (RevocationHonoured).
THEOREM RevocationsHonoured ==
  ASSUME Parameters
  PROVE  Spec => []RevocationHonoured
  <1>1. Core => RevocationHonoured
    <2> SUFFICES ASSUME Core, NEW p \in Proc, pc[p] \in {"accepted", "elevated"},
                        op[p] # "logout"
                 PROVE  doomed[p] = {}
      BY DEF RevocationHonoured
    <2>1. Knows(p) /\ doomed[p] \subseteq {"session", "user"}
      BY DEF Core, TypeOK
    <2> QED
      BY <2>1 DEF Knows
  <1> QED
    BY <1>1, CoreInvariant, PTL

\* Only a session that was stepped up passes require_aal2 (SensitiveNeedsAal2).
THEOREM SensitiveIsAal2 ==
  ASSUME Parameters
  PROVE  Spec => []SensitiveNeedsAal2
  <1>1. Core => SensitiveNeedsAal2
    BY DEF Core, Knows, SensitiveNeedsAal2
  <1> QED
    BY <1>1, CoreInvariant, PTL

\* No stale write clears a revocation, lowers an assurance level, moves the
\* absolute expiry or the user of a session (SecurityStateMonotone).
THEOREM SecurityStateGrows ==
  ASSUME Parameters
  PROVE  Spec => SecurityStateMonotone
  <1>1. Core /\ [Next]_vars => [Tightens]_vars
    BY StepMonotone DEF Monotone, Tightens
  <1> QED
    BY <1>1, CoreInvariant, PTL DEF Spec, SecurityStateMonotone

-----------------------------------------------------------------------------
(* Expiry *)

\* What a step does to a session that it neither issues nor touches.
Untouched(s) == sess'[s].idle = sess[s].idle

LEMMA OnlyRescuersTouch ==
  ASSUME Parameters, Core, Next, NEW s \in Session, Issued(s),
         ~ \E p \in Proc : pc[p] = "touch" /\ sid[p] = s
  PROVE  Untouched(s)
  <1> USE DEF Core, TypeOK, Untouched
  <1>1. CASE UNCHANGED sess
    BY <1>1
  <1>2. ASSUME NEW S \in SUBSET Session, \A t \in S : Issued(t), Revoke(S)
        PROVE  Untouched(s)
    BY <1>2, RevokeRows
  <1>3. ASSUME NEW t \in Session, NEW u \in User, IssueSession(t, u) PROVE Untouched(s)
    BY <1>3 DEF IssueSession, Issued
  <1>4. ASSUME NEW p \in Proc, Step(p) PROVE Untouched(s)
    <2>1. CASE TouchSession(p)
      BY <2>1 DEF TouchSession
    <2>2. CASE SetAssurance(p)
      <3>1. sess[sid[p]] \in Row
        BY <2>2 DEF Parameters, SentinelAssumption, SetAssurance, Knows, Issued
      <3> QED
        BY <2>2, <3>1, RaisedRow DEF SetAssurance
    <2>3. CASE Logout(p)
      BY <1>2, <2>3 DEF Logout, Knows
    <2> QED
      BY <1>1, <1>4, <2>1, <2>2, <2>3
      DEF Step, ReadSession, CheckSession, CheckUser, PermissionMissing, TouchRevoked,
          StepUpFails
  <1>5. ASSUME NEW t \in Session, RevokeSession(t) PROVE Untouched(s)
    BY <1>2, <1>5 DEF RevokeSession
  <1>6. ASSUME NEW u \in User, NEW x, RevokeSessionsForUser(u, x) PROVE Untouched(s)
    BY <1>2, <1>6 DEF RevokeSessionsForUser
  <1>7. ASSUME NEW n \in 0..clock, CleanupExpired(n) PROVE Untouched(s)
    BY <1>2, <1>7 DEF CleanupExpired
  <1> QED
    BY <1>1, <1>3, <1>4, <1>5, <1>6, <1>7
    DEF Next, Arrive, Return, Activate, Deactivate, Tick

\* Rescuable, one handler at a time.
Rescues(p, s) ==
  /\ sid[p] = s
  /\ \/ pc[p] = "clock" /\ ~IdleExpired(copy[p], clock)
     \/ pc[p] \in {"user", "touch"}

\* No handler becomes a rescuer of a session that has expired.
LEMMA NoNewRescuer ==
  ASSUME Parameters, Core, Next, TypeOK', Monotone, NEW s \in Session, Issued(s),
         IdleExpired(sess[s], clock), NEW q \in Proc, ~Rescues(q, s)
  PROVE  ~Rescues(q, s)'
  <1>1. TypeOK /\ Knows(q) /\ clock \in Nat /\ clock' \in Nat /\ clock' >= clock
    BY DEF Core, Monotone, TypeOK
  <1>2. CASE UNCHANGED <<pc, sid, copy>>
    <2>1. pc[q] = "clock" /\ IdleExpired(copy[q], clock) => IdleExpired(copy[q], clock')
      BY <1>1 DEF Knows, Agrees, Verifying, Row, IdleExpired
    <2> QED
      BY <1>2, <2>1 DEF Rescues
  <1>3. ASSUME NEW p \in Proc, Step(p), p # q PROVE ~Rescues(q, s)'
    <2>1. pc'[q] = pc[q] /\ sid'[q] = sid[q] /\ copy'[q] = copy[q] /\ clock' = clock
      BY <1>1, <1>3
      DEF TypeOK, Goto, Step, ReadSession, CheckSession, CheckUser, PermissionMissing,
          TouchSession, TouchRevoked, StepUpFails, SetAssurance, Logout
    <2> QED
      BY <2>1 DEF Rescues
  <1>4. ASSUME Step(q), sid[q] # s PROVE ~Rescues(q, s)'
    <2>1. sid' = sid
      BY <1>4
      DEF Step, ReadSession, CheckSession, CheckUser, PermissionMissing,
          TouchSession, TouchRevoked, StepUpFails, SetAssurance, Logout
    <2> QED
      BY <1>4, <2>1 DEF Rescues
  <1>5. ASSUME ReadSession(q), sid[q] = s PROVE ~Rescues(q, s)'
    <2>1. copy'[q] = sess[s] /\ clock' = clock /\ pc'[q] \in {"revoke", "clock"}
      BY <1>1, <1>5 DEF ReadSession, Goto, TypeOK
    <2> QED
      BY <2>1 DEF Rescues, IdleExpired
  <1>6. ASSUME CheckSession(q), sid[q] = s PROVE ~Rescues(q, s)'
    <2>1. pc'[q] = "denied"
      BY <1>1, <1>6 DEF CheckSession, Goto, TypeOK, Usable, Rescues
    <2> QED
      BY <2>1 DEF Rescues
  <1>7. ASSUME Step(q), sid[q] = s PROVE ~Rescues(q, s)'
    <2>1. ASSUME ~ReadSession(q), ~CheckSession(q), ~CheckUser(q)
          PROVE  pc'[q] \notin {"clock", "user", "touch"}
      BY <1>1, <1>7, <2>1
      DEF Step, PermissionMissing, TouchSession, TouchRevoked, StepUpFails,
          SetAssurance, Logout, Goto, TypeOK, Verified
    <2>2. ~CheckUser(q)
      BY <1>7 DEF CheckUser, Rescues
    <2> QED
      BY <1>5, <1>6, <1>7, <2>1, <2>2 DEF Rescues
  <1>8. ASSUME NEW p \in Proc, NEW t \in Session, NEW o \in Operation, Arrive(p, t, o)
        PROVE  ~Rescues(q, s)'
    BY <1>1, <1>8 DEF Arrive, Goto, TypeOK, Rescues
  <1>9. ASSUME NEW p \in Proc, Return(p) PROVE ~Rescues(q, s)'
    BY <1>1, <1>9 DEF Return, Goto, TypeOK, Rescues
  <1> QED
    BY <1>2, <1>3, <1>4, <1>7, <1>8, <1>9
    DEF Next, IssueSession, RevokeSession, RevokeSessionsForUser, CleanupExpired, Tick,
        Activate, Deactivate, locals

\* A session past its expiry stays dead unless a request that read the clock
\* before the expiry is under way (DeadStaysDead).
THEOREM ExpiryIsFinal ==
  ASSUME Parameters
  PROVE  Spec => DeadStaysDead
  <1>1. ASSUME Core, Next, NEW s \in Session, Dead(s) PROVE Dead(s)'
    <2>1. TypeOK' /\ Monotone /\ Issued(s) /\ TypeOK
      BY <1>1, TypeStep, StepMonotone DEF Core, Dead
    <2>2. /\ Issued(s)' /\ sess'[s].expires = sess[s].expires
          /\ sess[s].revoked => sess'[s].revoked
          /\ clock \in Nat /\ clock' \in Nat /\ clock' >= clock
          /\ sess[s] \in Row
      BY <2>1 DEF Monotone, TypeOK, Issued
    <2>3. CASE sess[s].revoked \/ HardExpired(sess[s], clock)
      BY <2>2, <2>3 DEF Dead, HardExpired, Row
    <2>4. CASE IdleExpired(sess[s], clock) /\ ~Rescuable(s)
      <3>1. \A q \in Proc : ~Rescues(q, s)
        BY <2>4 DEF Rescuable, Rescues
      <3>2. \A q \in Proc : ~Rescues(q, s)'
        BY <1>1, <2>1, <2>4, <3>1, NoNewRescuer
      <3>3. ~Rescuable(s)'
        BY <3>2 DEF Rescuable, Rescues
      <3>4. Untouched(s)
        BY <1>1, <2>1, <3>1, OnlyRescuersTouch DEF Rescues
      <3>5. IdleExpired(sess[s], clock)'
        BY <2>2, <2>4, <3>4 DEF Untouched, IdleExpired, Row
      <3> QED
        BY <2>2, <3>3, <3>5 DEF Dead
    <2> QED
      BY <1>1, <2>3, <2>4 DEF Dead
  <1>2. Core /\ [Next]_vars => [StaysDead]_vars
    BY <1>1 DEF StaysDead
  <1> QED
    BY <1>2, CoreInvariant, PTL DEF Spec, DeadStaysDead
=============================================================================
