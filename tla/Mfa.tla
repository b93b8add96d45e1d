-------------------------------- MODULE Mfa --------------------------------
(***************************************************************************)
(* Second factors of one user: TOTP enrolment, TOTP and recovery-code      *)
(* step-up, with the counter that blocks replays.                          *)
(*                                                                         *)
(* A TOTP code is identified with its factor and its 30-second counter, so *)
(* that no code belongs to two factors or two counters.  A handler reads   *)
(* the factor row, loads the secret and compares the code, and writes, in  *)
(* separate storage calls; each is one action.  verify_session and the     *)
(* rate limit, which only refuse, are one action each here.                *)
(***************************************************************************)
EXTENDS Integers

CONSTANTS
  Factor, RecoveryCode, Session, Proc,
  None,          \* sentinel
  MaxClock       \* bound on the clock, in TOTP periods

ASSUME ConfigAssumption == MaxClock \in Nat

VARIABLES
  clock,      \* the current TOTP counter, int(time.time()) // 30
  factor,     \* the mfa_factors table
  vault,      \* the factors whose secret is in the vault
  recovery,   \* the recovery_codes table
  revoked,    \* the sessions that are revoked
  aal2,       \* None for a session at AAL1, else the code that raised it, and which
              \* of its acceptances
  enrolled,   \* history: the TOTP codes that enabled a factor, how often
  accepted,   \* history: how often a code was accepted for a step-up
  setback,    \* history: how often an enrolment put a factor's counter back
  h           \* what each handler is at, and its locals

tables == <<factor, vault, recovery, revoked, aal2>>
history == <<enrolled, accepted, setback>>
vars == <<clock, tables, history, h>>

Counter == 0..MaxClock
Totp == Factor \X Counter
Code == Totp \cup RecoveryCode
NoCounter == -1   \* a NULL last_used_counter: below every counter
FactorRow == [enabled : BOOLEAN, last : Counter \cup {NoCounter}]
Label == {"idle", "store_secret", "read_factor", "enrol_code", "enable",
          "session", "list_factors", "check_code", "mark_counter",
          "list_codes", "mark_code", "elevate", "bad_code"}
\* ready, timely and use are history: whether the factor was ready when the request
\* came, whether the code was in time when it was looked at, and which acceptance of
\* the code the handler holds.
Handler == [pc : Label, code : Code \cup {None}, session : Session \cup {None},
            row : FactorRow \cup {None}, ready : BOOLEAN, timely : BOOLEAN, use : Nat]

ASSUME SentinelAssumption ==
  /\ None \notin Counter \cup Code \cup (Code \X Nat) \cup Session \cup FactorRow \cup Factor
  /\ Totp \cap RecoveryCode = {}

Idle == [pc |-> "idle", code |-> None, session |-> None, row |-> None,
         ready |-> FALSE, timely |-> FALSE, use |-> 0]

Init ==
  /\ clock = 0
  /\ factor = [f \in Factor |-> None]
  /\ vault = {}
  /\ recovery = [r \in RecoveryCode |-> "absent"]
  /\ revoked = {}
  /\ aal2 = [s \in Session |-> None]
  /\ enrolled = [k \in Totp |-> 0]
  /\ accepted = [k \in Code |-> 0]
  /\ setback = [f \in Factor |-> 0]
  /\ h = [p \in Proc |-> Idle]

Goto(p, label) == h' = [h EXCEPT ![p].pc = label]
Finish(p) == h' = [h EXCEPT ![p] = Idle]

\* The factor of the TOTP code the handler holds, and its counter.
FactorOf(p) == h[p].code[1]
CounterOf(p) == h[p].code[2]

\* _factor_code_counter: the secret is there and the code is of the current
\* period or of one next to it.
Matches(p) == FactorOf(p) \in vault /\ CounterOf(p) \in (clock - 1)..(clock + 1)

\* A factor is enabled and has its secret.
Ready(f) == factor[f] # None /\ factor[f].enabled /\ f \in vault

-----------------------------------------------------------------------------
(* Enrolment *)

\* Faulty variant (for EnabledProven): the schema's default, enabled.
CreateFactorEnabled(p, f) ==
  /\ h[p].pc = "idle"
  /\ factor[f] = None
  /\ factor' = [factor EXCEPT ![f] = [enabled |-> TRUE, last |-> NoCounter]]
  /\ h' = [h EXCEPT ![p] = [Idle EXCEPT !.pc = "store_secret", !.code = <<f, 0>>]]
  /\ UNCHANGED <<clock, vault, recovery, revoked, aal2, history>>

\* Faulty variant (for TypeOK): the row starts without a counter to compare.
CreateFactorNull(p, f) ==
  /\ h[p].pc = "idle"
  /\ factor[f] = None
  /\ factor' = [factor EXCEPT ![f] = [enabled |-> FALSE, last |-> None]]
  /\ h' = [h EXCEPT ![p] = [Idle EXCEPT !.pc = "store_secret", !.code = <<f, 0>>]]
  /\ UNCHANGED <<clock, vault, recovery, revoked, aal2, history>>

\* begin_totp_enrollment: the row, then the secret.
CreateFactor(p, f) ==
  /\ h[p].pc = "idle"
  /\ factor[f] = None
  /\ factor' = [factor EXCEPT ![f] = [enabled |-> FALSE, last |-> NoCounter]]
  /\ h' = [h EXCEPT ![p] = [Idle EXCEPT !.pc = "store_secret", !.code = <<f, 0>>]]
  /\ UNCHANGED <<clock, vault, recovery, revoked, aal2, history>>

StoreSecret(p) ==
  /\ h[p].pc = "store_secret"
  /\ vault' = vault \cup {FactorOf(p)}
  /\ Finish(p)
  /\ UNCHANGED <<clock, factor, recovery, revoked, aal2, history>>

\* verify_totp_enrollment is called with a code.
SubmitEnrolment(p, k) ==
  /\ h[p].pc = "idle"
  /\ factor[k[1]] # None
  /\ h' = [h EXCEPT ![p] = [Idle EXCEPT !.pc = "read_factor", !.code = k]]
  /\ UNCHANGED <<clock, tables, history>>

ReadFactor(p) ==
  /\ h[p].pc = "read_factor"
  /\ LET row == factor[FactorOf(p)] IN
       IF row.enabled THEN Finish(p)
       ELSE h' = [h EXCEPT ![p].pc = "enrol_code", ![p].row = row]
  /\ UNCHANGED <<clock, tables, history>>

VerifyFactorCode(p) ==
  /\ h[p].pc = "enrol_code"
  /\ IF Matches(p) THEN Goto(p, "enable") ELSE Finish(p)
  /\ UNCHANGED <<clock, tables, history>>

\* update_mfa_factor writes the whole row as it was read, but enabled.
EnableFactor(p) ==
  /\ h[p].pc = "enable"
  /\ factor' = [factor EXCEPT ![FactorOf(p)] = [h[p].row EXCEPT !.enabled = TRUE]]
  /\ enrolled' = [enrolled EXCEPT ![h[p].code] = @ + 1]
  /\ setback' = IF h[p].row.last < factor[FactorOf(p)].last
                THEN [setback EXCEPT ![FactorOf(p)] = @ + 1] ELSE setback
  /\ Finish(p)
  /\ UNCHANGED <<clock, vault, recovery, revoked, aal2, accepted>>

-----------------------------------------------------------------------------
(* Step-up *)

\* step_up_totp or step_up_recovery_code on session s with code k; verify_totp
\* alone has no session.
StepUp(p, s, k) ==
  /\ h[p].pc = "idle"
  /\ h' = [h EXCEPT ![p] = [Idle EXCEPT
             !.pc = IF s = None THEN "list_factors" ELSE "session",
             !.session = s, !.code = k, !.ready = k \in Totp /\ Ready(k[1])]]
  /\ UNCHANGED <<clock, tables, history>>

\* Faulty variant (for Aal2Justified): the code is checked after the upgrade.
VerifySessionElevates(p) ==
  /\ h[p].pc = "session"
  /\ h[p].session \notin revoked
  /\ aal2' = [aal2 EXCEPT ![h[p].session] = <<h[p].code, accepted[h[p].code] + 1>>]
  /\ Goto(p, IF h[p].code \in Totp THEN "list_factors" ELSE "list_codes")
  /\ UNCHANGED <<clock, factor, vault, recovery, revoked, history>>

\* verify_session: the session is still there.
VerifySession(p) ==
  /\ h[p].pc = "session"
  /\ h[p].session \notin revoked
  /\ Goto(p, IF h[p].code \in Totp THEN "list_factors" ELSE "list_codes")
  /\ UNCHANGED <<clock, tables, history>>

\* The session is revoked or expired, its user inactive (Sessions), or the user
\* rate limited (RateLimit).
Refused(p) ==
  /\ h[p].pc = "session"
  /\ Finish(p)
  /\ UNCHANGED <<clock, tables, history>>

ListFactors(p) ==
  /\ h[p].pc = "list_factors"
  /\ LET row == factor[FactorOf(p)] IN
       IF row # None /\ row.enabled
       THEN h' = [h EXCEPT ![p].pc = "check_code", ![p].row = row]
       ELSE Goto(p, "bad_code")
  /\ UNCHANGED <<clock, tables, history>>

\* Faulty variants: a counter may be used again (for OneStepUpPerCode), the
\* next one may not be used (for GoodCodeAccepted).
FreshAgain(row, c) == c >= row.last
FreshAfterNext(row, c) == c > row.last + 1

\* No code of this period or a later one was accepted.
Fresh(row, c) == c > row.last

CheckCode(p) ==
  /\ h[p].pc = "check_code"
  /\ h' = [h EXCEPT ![p].timely = CounterOf(p) \in (clock - 1)..(clock + 1),
                    ![p].pc = IF Matches(p) /\ Fresh(h[p].row, CounterOf(p))
                              THEN "mark_counter" ELSE "bad_code"]
  /\ UNCHANGED <<clock, tables, history>>

\* Where a handler goes with an accepted code.
AfterCode(p) ==
  IF h[p].session = None THEN Finish(p)
  ELSE h' = [h EXCEPT ![p] = [Idle EXCEPT !.pc = "elevate", !.code = h[p].code,
                                          !.session = h[p].session,
                                          !.use = accepted[h[p].code] + 1]]

\* mark_mfa_factor_counter_used: the test and the write are one statement.
MarkCounterUsed(p) ==
  /\ h[p].pc = "mark_counter"
  /\ Fresh(factor[FactorOf(p)], CounterOf(p))
  /\ factor' = [factor EXCEPT ![FactorOf(p)].last = CounterOf(p)]
  /\ accepted' = [accepted EXCEPT ![h[p].code] = @ + 1]
  /\ AfterCode(p)
  /\ UNCHANGED <<clock, vault, recovery, revoked, aal2, enrolled, setback>>

CounterOvertaken(p) ==
  /\ h[p].pc = "mark_counter"
  /\ ~Fresh(factor[FactorOf(p)], CounterOf(p))
  /\ Goto(p, "bad_code")
  /\ UNCHANGED <<clock, tables, history>>

ListRecoveryCodes(p) ==
  /\ h[p].pc = "list_codes"
  /\ IF recovery[h[p].code] = "unused" THEN Goto(p, "mark_code") ELSE Finish(p)
  /\ UNCHANGED <<clock, tables, history>>

\* Faulty variant (for CodesKept): the mark does not look at the row again.
MarkRecoveryCodeAgain(p) ==
  /\ h[p].pc = "mark_code"
  /\ recovery' = [recovery EXCEPT ![h[p].code] = "used"]
  /\ accepted' = [accepted EXCEPT ![h[p].code] = @ + 1]
  /\ AfterCode(p)
  /\ UNCHANGED <<clock, factor, vault, revoked, aal2, enrolled, setback>>

\* mark_recovery_code_used: the test and the write are one statement.
MarkRecoveryCodeUsed(p) ==
  /\ h[p].pc = "mark_code"
  /\ recovery[h[p].code] = "unused"
  /\ recovery' = [recovery EXCEPT ![h[p].code] = "used"]
  /\ accepted' = [accepted EXCEPT ![h[p].code] = @ + 1]
  /\ AfterCode(p)
  /\ UNCHANGED <<clock, factor, vault, revoked, aal2, enrolled, setback>>

RecoveryCodeTaken(p) ==
  /\ h[p].pc = "mark_code"
  /\ recovery[h[p].code] # "unused"
  /\ Finish(p)
  /\ UNCHANGED <<clock, tables, history>>

\* set_session_assurance_level; if the session is revoked by now, the code has
\* been used up for nothing.
SetAssuranceLevel(p) ==
  /\ h[p].pc = "elevate"
  /\ LET s == h[p].session IN
       aal2' = IF s \in revoked THEN aal2 ELSE [aal2 EXCEPT ![s] = <<h[p].code, h[p].use>>]
  /\ Finish(p)
  /\ UNCHANGED <<clock, factor, vault, recovery, revoked, history>>

-----------------------------------------------------------------------------
(* The environment *)

\* A handler has answered, or died between two storage calls.
Return(p) ==
  /\ h[p].pc # "idle"
  /\ Finish(p)
  /\ UNCHANGED <<clock, tables, history>>

CreateRecoveryCode(r) ==
  /\ recovery[r] = "absent"
  /\ recovery' = [recovery EXCEPT ![r] = "unused"]
  /\ UNCHANGED <<clock, factor, vault, revoked, aal2, history, h>>

RevokeSession(s) ==
  /\ revoked' = revoked \cup {s}
  /\ UNCHANGED <<clock, factor, vault, recovery, aal2, history, h>>

Tick ==
  /\ clock < MaxClock
  /\ clock' = clock + 1
  /\ UNCHANGED <<tables, history, h>>

Next ==
  \/ \E p \in Proc :
       \/ \E f \in Factor : CreateFactor(p, f)
       \/ \E k \in Totp : SubmitEnrolment(p, k)
       \/ \E s \in Session, k \in Code : StepUp(p, s, k)
       \/ \E k \in Totp : StepUp(p, None, k)
       \/ StoreSecret(p) \/ ReadFactor(p) \/ VerifyFactorCode(p) \/ EnableFactor(p)
       \/ VerifySession(p) \/ Refused(p) \/ ListFactors(p) \/ CheckCode(p)
       \/ MarkCounterUsed(p) \/ CounterOvertaken(p) \/ ListRecoveryCodes(p)
       \/ MarkRecoveryCodeUsed(p) \/ RecoveryCodeTaken(p) \/ SetAssuranceLevel(p)
       \/ Return(p)
  \/ \E r \in RecoveryCode : CreateRecoveryCode(r)
  \/ \E s \in Session : RevokeSession(s)
  \/ Tick

Spec == Init /\ [][Next]_vars

-----------------------------------------------------------------------------
(* Properties *)

\* The tables and the locals have their types.
TypeOK ==
  /\ clock \in 0..MaxClock
  /\ factor \in [Factor -> FactorRow \cup {None}]
  /\ vault \subseteq Factor
  /\ recovery \in [RecoveryCode -> {"absent", "unused", "used"}]
  /\ revoked \subseteq Session
  /\ aal2 \in [Session -> (Code \X Nat) \cup {None}]
  /\ enrolled \in [Totp -> Nat]
  /\ accepted \in [Code -> Nat]
  /\ setback \in [Factor -> Nat]
  /\ h \in [Proc -> Handler]

\* A recovery code is accepted at most once for a step-up, however many requests
\* present it at the same time; and a TOTP code at most once more than enrolments
\* put the counter of its factor back.  (One handler's enrolment can write back the
\* row without the counter another one has marked: StepUpOnce.)
OneStepUpPerCode ==
  /\ \A r \in RecoveryCode : accepted[r] <= 1
  /\ \A k \in Totp : accepted[k] <= 1 + setback[k[1]]

\* A code is told to be invalid only if its factor was not ready when the
\* request came, the code was not of the current period or one next to it when
\* it was looked at, or a code of its period or a later one was accepted:
\* blocking replays never blocks the first use of a good code.
GoodCodeAccepted ==
  \A p \in Proc : h[p].pc = "bad_code" =>
    \/ ~h[p].ready
    \/ ~h[p].timely
    \/ \E c \in Counter : c >= CounterOf(p) /\ accepted[<<FactorOf(p), c>>] > 0

\* A factor is enabled only after its owner has shown a code of it, and never
\* without its secret, wherever handlers die between the row and the secret.
EnabledProven ==
  \A f \in Factor : factor[f] # None /\ factor[f].enabled =>
    f \in vault /\ \E c \in Counter : enrolled[<<f, c>>] > 0

\* Every session at AAL2 was raised by an acceptance of a code, and no acceptance
\* raised two sessions.
Aal2Justified ==
  \A s \in Session : aal2[s] # None =>
    /\ aal2[s][2] \in 1..accepted[aal2[s][1]]
    /\ \A t \in Session : aal2[t] = aal2[s] => t = s

\* A TOTP code is accepted once in all, the enrolment included: "TOTP code
\* replay within 30s window (counter tracking)".
CodeAcceptedOnce == \A k \in Totp : accepted[k] + enrolled[k] <= 1

\* A TOTP code steps up at most once, by the same promise.
StepUpOnce == \A k \in Totp : accepted[k] <= 1
=============================================================================
