------------------------------ MODULE Sessions ------------------------------
(***************************************************************************)
(* Server-side sessions: verification with its throttled touch, step-up to *)
(* AAL2, logout, revocation and expiry, as the SQL stores execute them.    *)
(*                                                                         *)
(* verify_session reads the session row, then the clock, then the user     *)
(* row, and only then writes; revocations, bans, cleanup and other         *)
(* verifications of the same session come in between.  One action is one   *)
(* of those reads or one storage statement.                                *)
(***************************************************************************)
EXTENDS Naturals

CONSTANTS
  Session, User, Proc,
  NoSession,       \* sentinel: a session id not issued yet, an empty local
  Ops,             \* the operations a run exercises
  Ttl,             \* config.session_ttl_seconds
  IdleTtl,         \* config.session_idle_ttl_seconds
  TouchInterval,   \* config.session_touch_interval_seconds
  MaxClock         \* bound on the clock

Operation == {"verify", "sensitive", "step_up", "logout"}

ConfigAssumption ==
  /\ Session # {} /\ Ops \subseteq Operation
  /\ Ttl \in Nat \ {0} /\ IdleTtl \in Nat \ {0}
  /\ TouchInterval \in Nat /\ MaxClock \in Nat

VARIABLES
  clock,    \* the time now_utc() reads
  active,   \* the users whose status is ACTIVE
  sess,     \* the sessions table
  lastUse,  \* history: the clock reading of the latest accepted request
  doomed,   \* history: why a handler must not be accepted, known on arrival
  pc, op, sid, copy, now   \* the locals of each handler

locals == <<pc, op, sid, copy, now>>
vars == <<clock, active, sess, lastUse, doomed, locals>>

Row == [user : User, expires : Nat, idle : Nat, seen : Nat,
        revoked : BOOLEAN, aal2 : BOOLEAN]
SentinelAssumption == NoSession \notin Row

Label == {"idle", "read", "clock", "user", "touch", "upgrade", "revoke",
          "accepted", "elevated", "denied"}

Init ==
  /\ clock = 0
  /\ active = User
  /\ sess = [s \in Session |-> NoSession]
  /\ lastUse = [s \in Session |-> 0]
  /\ doomed = [p \in Proc |-> {}]
  /\ pc = [p \in Proc |-> "idle"]
  /\ op = [p \in Proc |-> "verify"]
  /\ sid \in [Proc -> {CHOOSE s \in Session : TRUE}]
  /\ copy = [p \in Proc |-> NoSession]
  /\ now = [p \in Proc |-> 0]

Goto(p, label) == pc' = [pc EXCEPT ![p] = label]

Issued(s) == sess[s] # NoSession
\* A handler compares the row it has read with the clock it has read.
HardExpired(row, n) == row.expires <= n
IdleExpired(row, n) == row.idle <= n

-----------------------------------------------------------------------------
(* issue_session: called by every login path *)

IssueSession(s, u) ==
  /\ ~Issued(s)
  /\ u \in active
  /\ sess' = [sess EXCEPT ![s] =
       [user |-> u, expires |-> clock + Ttl, idle |-> clock + IdleTtl,
        seen |-> clock, revoked |-> FALSE, aal2 |-> FALSE]]
  /\ lastUse' = [lastUse EXCEPT ![s] = clock]
  /\ UNCHANGED <<clock, active, doomed, locals>>

-----------------------------------------------------------------------------
(* verify_session, and the operations that start with it *)

Arrive(p, s, o) ==
  /\ pc[p] = "idle"
  /\ Issued(s)
  /\ o \in Ops
  /\ Goto(p, "read")
  /\ op' = [op EXCEPT ![p] = o]
  /\ sid' = [sid EXCEPT ![p] = s]
  /\ doomed' = [doomed EXCEPT ![p] =
       (IF sess[s].revoked \/ HardExpired(sess[s], clock) THEN {"session"} ELSE {})
       \cup (IF sess[s].user \in active THEN {} ELSE {"user"})]
  /\ UNCHANGED <<clock, active, sess, lastUse, copy, now>>

\* get_session_by_token_hash.  logout goes straight on to revoke.
ReadSession(p) ==
  /\ pc[p] = "read"
  /\ copy' = [copy EXCEPT ![p] = sess[sid[p]]]
  /\ Goto(p, IF op[p] = "logout" THEN "revoke" ELSE "clock")
  /\ UNCHANGED <<clock, active, sess, lastUse, doomed, op, sid, now>>

\* Faulty variants: the revocation is left to the touch to notice (for
\* RevocationsHold), the idle time still includes its last instant (for
\* ExpiryHolds).
UsableAnyway(row, n) == ~HardExpired(row, n) /\ ~IdleExpired(row, n)
UsableAtIdle(row, n) == ~row.revoked /\ ~HardExpired(row, n) /\ row.idle >= n

Usable(row, n) ==
  ~row.revoked /\ ~HardExpired(row, n) /\ ~IdleExpired(row, n)

CheckSession(p) ==
  /\ pc[p] = "clock"
  /\ now' = [now EXCEPT ![p] = clock]
  /\ Goto(p, IF Usable(copy[p], clock) THEN "user" ELSE "denied")
  /\ UNCHANGED <<clock, active, sess, lastUse, doomed, op, sid, copy>>

TouchDue(row, n) == n >= row.seen + TouchInterval

\* What the caller does with the principal it is given.
Verified(p, row) ==
  CASE op[p] = "step_up" -> "upgrade"
    [] op[p] = "sensitive" -> IF row.aal2 THEN "accepted" ELSE "denied"
    [] OTHER -> "accepted"

UseSession(p, label) ==
  lastUse' = IF label \in {"accepted", "upgrade"}
             THEN [lastUse EXCEPT ![sid[p]] = IF @ < now[p] THEN now[p] ELSE @]
             ELSE lastUse

\* require_user, the status check, and the decision whether to touch.  A
\* missing permission (Permissions) ends here too.
CheckUser(p) ==
  /\ pc[p] = "user"
  /\ LET next == IF copy[p].user \notin active THEN "denied"
                 ELSE IF TouchDue(copy[p], now[p]) THEN "touch"
                 ELSE Verified(p, copy[p])
     IN Goto(p, next) /\ UseSession(p, next)
  /\ UNCHANGED <<clock, active, sess, doomed, op, sid, copy, now>>

PermissionMissing(p) ==
  /\ pc[p] = "user"
  /\ Goto(p, "denied")
  /\ UNCHANGED <<clock, active, sess, lastUse, doomed, op, sid, copy, now>>

\* Faulty variant (for SessionsOnlyTighten): the row read at the start of
\* the request is written back whole.
TouchedWholeRow(p) == [copy[p] EXCEPT !.seen = now[p], !.idle = now[p] + IdleTtl]

\* The columns touch_session writes, the others as they are in the table.
Touched(p) == [sess[sid[p]] EXCEPT !.seen = now[p], !.idle = now[p] + IdleTtl]

TouchSession(p) ==
  /\ pc[p] = "touch"
  /\ ~sess[sid[p]].revoked
  /\ sess' = [sess EXCEPT ![sid[p]] = Touched(p)]
  /\ copy' = [copy EXCEPT ![p] = Touched(p)]
  /\ LET next == Verified(p, Touched(p)) IN Goto(p, next) /\ UseSession(p, next)
  /\ UNCHANGED <<clock, active, doomed, op, sid, now>>

TouchRevoked(p) ==
  /\ pc[p] = "touch"
  /\ sess[sid[p]].revoked
  /\ Goto(p, "denied")
  /\ UNCHANGED <<clock, active, sess, lastUse, doomed, op, sid, copy, now>>

\* step_up_*: the code was wrong, or it was right and has been used up (Mfa);
\* then set_session_assurance_level, which like touch skips revoked sessions.
StepUpFails(p) ==
  /\ pc[p] = "upgrade"
  /\ Goto(p, "denied")
  /\ UNCHANGED <<clock, active, sess, lastUse, doomed, op, sid, copy, now>>

SetAssurance(p) ==
  /\ pc[p] = "upgrade"
  /\ ~sess[sid[p]].revoked
  /\ sess' = [sess EXCEPT ![sid[p]] = [@ EXCEPT !.aal2 = TRUE, !.seen = clock]]
  /\ Goto(p, "elevated")
  /\ UNCHANGED <<clock, active, lastUse, doomed, op, sid, copy, now>>

Return(p) ==
  /\ pc[p] # "idle"
  /\ Goto(p, "idle")
  /\ op' = [op EXCEPT ![p] = "verify"]
  /\ sid' = [sid EXCEPT ![p] = CHOOSE s \in Session : TRUE]
  /\ copy' = [copy EXCEPT ![p] = NoSession]
  /\ now' = [now EXCEPT ![p] = 0]
  /\ doomed' = [doomed EXCEPT ![p] = {}]
  /\ UNCHANGED <<clock, active, sess, lastUse>>

-----------------------------------------------------------------------------
(* Revocation, bans and expiry *)

\* The rows of the sessions in S with revoked_at set.
Revoke(S) ==
  sess' = [s \in Session |-> IF s \in S THEN [sess[s] EXCEPT !.revoked = TRUE]
                             ELSE sess[s]]

Logout(p) ==
  /\ pc[p] = "revoke"
  /\ Revoke({sid[p]})
  /\ Goto(p, "accepted")
  /\ UNCHANGED <<clock, active, lastUse, doomed, op, sid, copy, now>>

RevokeSession(s) ==
  /\ Issued(s)
  /\ Revoke({s})
  /\ UNCHANGED <<clock, active, lastUse, doomed, locals>>

\* revoke_sessions_for_user, on a password or role change, sparing the
\* sessions in except (set_password spares the caller's own).
RevokeSessionsForUser(u, except) ==
  /\ Revoke({s \in Session : Issued(s) /\ sess[s].user = u} \ except)
  /\ UNCHANGED <<clock, active, lastUse, doomed, locals>>

Deactivate(u) ==
  /\ active' = active \ {u}
  /\ UNCHANGED <<clock, sess, lastUse, doomed, locals>>

\* Being active again excuses the handlers that arrived before.
Activate(u) ==
  /\ active' = active \cup {u}
  /\ doomed' = [p \in Proc |->
       IF pc[p] # "idle" /\ sess[sid[p]].user = u THEN doomed[p] \ {"user"}
       ELSE doomed[p]]
  /\ UNCHANGED <<clock, sess, lastUse, locals>>

\* cleanup_expired with a clock reading n that may be old.
CleanupExpired(n) ==
  /\ Revoke({s \in Session : Issued(s) /\ (HardExpired(sess[s], n) \/ IdleExpired(sess[s], n))})
  /\ UNCHANGED <<clock, active, lastUse, doomed, locals>>

Tick ==
  /\ clock < MaxClock
  /\ clock' = clock + 1
  /\ UNCHANGED <<active, sess, lastUse, doomed, locals>>

Step(p) ==
  \/ ReadSession(p) \/ CheckSession(p) \/ CheckUser(p) \/ PermissionMissing(p)
  \/ TouchSession(p) \/ TouchRevoked(p) \/ StepUpFails(p) \/ SetAssurance(p)
  \/ Logout(p)

Next ==
  \/ \E s \in Session, u \in User : IssueSession(s, u)
  \/ \E p \in Proc : \/ \E s \in Session, o \in Operation : Arrive(p, s, o)
                     \/ Step(p) \/ Return(p)
  \/ \E s \in Session : RevokeSession(s)
  \/ \E u \in User : \/ \E x \in {{}} \cup {{s} : s \in Session} :
                          RevokeSessionsForUser(u, x)
                     \/ Deactivate(u) \/ Activate(u)
  \/ \E n \in 0..clock : CleanupExpired(n)
  \/ Tick

Spec == Init /\ [][Next]_vars

-----------------------------------------------------------------------------
(* Properties *)

\* The table and the locals of the handlers have their types.
TypeOK ==
  /\ clock \in Nat
  /\ active \subseteq User
  /\ sess \in [Session -> Row \cup {NoSession}]
  /\ lastUse \in [Session -> Nat]
  /\ doomed \in [Proc -> SUBSET {"session", "user"}]
  /\ pc \in [Proc -> Label]
  /\ op \in [Proc -> Operation]
  /\ sid \in [Proc -> Session]
  /\ copy \in [Proc -> Row \cup {NoSession}]
  /\ now \in [Proc -> Nat]

\* No interleaving of touches, upgrades and cleanups with a stale row ever
\* clears a revocation, lowers an assurance level, extends the absolute expiry
\* or moves a session to another user.
Tightens ==
  \A s \in Session : Issued(s) =>
    /\ sess[s].revoked => sess'[s].revoked
    /\ sess[s].aal2 => sess'[s].aal2
    /\ sess'[s].expires = sess[s].expires
    /\ sess'[s].user = sess[s].user
SecurityStateMonotone == [][Tightens]_vars

\* A request that arrives after its session was revoked or reached its
\* absolute expiry, or while its user is inactive and stays so, is never
\* accepted or elevated.
RevocationHonoured ==
  \A p \in Proc :
    pc[p] \in {"accepted", "elevated"} /\ op[p] # "logout" => doomed[p] = {}

\* Only a session that was stepped up passes require_aal2.
SensitiveNeedsAal2 ==
  \A p \in Proc :
    pc[p] = "accepted" /\ op[p] = "sensitive" => sess[sid[p]].aal2


\* Some request read the clock before the session expired.
Rescuable(s) ==
  \E p \in Proc : /\ sid[p] = s
                  /\ \/ pc[p] = "clock" /\ ~IdleExpired(copy[p], clock)
                     \/ pc[p] \in {"user", "touch"}
Dead(s) ==
  /\ Issued(s)
  /\ \/ sess[s].revoked \/ HardExpired(sess[s], clock)
     \/ IdleExpired(sess[s], clock) /\ ~Rescuable(s)
\* A session that is past its idle or absolute expiry can be touched back to
\* life only by requests that read the clock before it expired: when none is
\* under way, it stays dead.
StaysDead == \A s \in Session : Dead(s) => Dead(s)'
DeadStaysDead == [][StaysDead]_vars

\* "While there is activity the idle expiry is extended": after an accepted
\* request at time n the session stays alive for the idle time, less the touch
\* throttle.  A step-up breaks it, as it moves last_seen_at, by which the
\* throttle goes, without idle_expires_at.
KeepAlive ==
  \A s \in Session : Issued(s) =>
    sess[s].idle + TouchInterval >= lastUse[s] + IdleTtl
=============================================================================
