--------------------------- MODULE ElevationProofs ---------------------------
(***************************************************************************)
(* Proofs about Elevation, for every number of factors, codes, sessions,   *)
(* periods, flows, devices and handlers.                                   *)
(*                                                                         *)
(* Second factors: Core says what a handler has in its hands at each label *)
(* (Knows); what it enables, the owner has shown a code of, and a recovery *)
(* code is accepted by the handler that marks it.  An enrolment may write  *)
(* back a row whose counter is behind the table's, so the counter can go   *)
(* back; Used counts how often (setback) and bounds by it how often a code *)
(* was accepted, Counters says that every counter, in the table or in a    *)
(* handler's hands, is one of an accepted code, Answers why a code was     *)
(* turned down, and Raised which acceptance raised a session.              *)
(*                                                                         *)
(* MemoryCore, GrantsCore and KeysCore are the invariants of the store,    *)
(* the grants and the passkeys; the proofs about sessions are those of     *)
(* SessionsProofs.                                                         *)
(***************************************************************************)
EXTENDS Elevation, TLAPS

-----------------------------------------------------------------------------
(* Second factors: types, and what a handler knows *)

OfTotp == {"store_secret", "read_factor", "enrol_code", "enable", "list_factors",
           "check_code", "mark_counter", "bad_code"}
OfRecovery == {"list_codes", "mark_code"}

\* What a handler has in its hands at each label.
Knows(p) ==
  /\ h[p].pc # "idle" => h[p].code \in Code
  /\ h[p].pc \in OfTotp => h[p].code \in Totp
  /\ h[p].pc \in OfRecovery => h[p].code \in RecoveryCode
  /\ h[p].pc \in OfRecovery \cup {"session", "elevate"} => h[p].session \in Session
  /\ h[p].pc \in {"enrol_code", "enable", "check_code", "mark_counter"} =>
       h[p].row \in FactorRow
  /\ h[p].pc \in {"read_factor", "enrol_code", "enable", "check_code", "mark_counter"} =>
       factor[FactorOf(p)] # None
  /\ h[p].pc \in {"check_code", "mark_counter"} => factor[FactorOf(p)].enabled
  /\ h[p].pc = "enable" => FactorOf(p) \in vault
  /\ h[p].ready => h[p].code \in Totp /\ Ready(FactorOf(p))

Core == TypeOK /\ \A p \in Proc : Knows(p)

LEMMA CodeParts == \A k \in Totp : k[1] \in Factor /\ k[2] \in Counter /\ k = <<k[1], k[2]>>
  BY DEF Totp

LEMMA IdleType == Idle \in Handler
  BY DEF Idle, Handler, Label

LEMMA InitCore == Init => Core
  <1> SUFFICES ASSUME Init PROVE Core
    OBVIOUS
  <1>1. TypeOK
    BY IdleType, ConfigAssumption DEF Init, TypeOK, Counter
  <1>2. \A p \in Proc : Knows(p)
    BY DEF Init, Knows, Idle, OfTotp, OfRecovery
  <1> QED
    BY <1>1, <1>2 DEF Core

\* The locals a step leaves a handler with.
LEMMA Moves ==
  ASSUME Core, NEW p \in Proc
  PROVE  /\ \A l \in Label : [h[p] EXCEPT !.pc = l] \in Handler
         /\ \A l \in Label, r \in FactorRow : [h[p] EXCEPT !.pc = l, !.row = r] \in Handler
         /\ \A l \in Label, b \in BOOLEAN : [h[p] EXCEPT !.timely = b, !.pc = l] \in Handler
         /\ \A l \in Label, s \in Session \cup {None}, k \in Code, b \in BOOLEAN :
              [Idle EXCEPT !.pc = l, !.session = s, !.code = k, !.ready = b] \in Handler
         /\ \A l \in Label, k \in Code : [Idle EXCEPT !.pc = l, !.code = k] \in Handler
         /\ \A l \in Label, k \in Code, s \in Session \cup {None}, n \in Nat :
              [Idle EXCEPT !.pc = l, !.code = k, !.session = s, !.use = n] \in Handler
  <1>1. h[p] \in Handler
    BY DEF Core, TypeOK
  <1>2. \A l \in Label : [h[p] EXCEPT !.pc = l] \in Handler
    BY <1>1 DEF Handler
  <1>3. \A l \in Label, r \in FactorRow : [h[p] EXCEPT !.pc = l, !.row = r] \in Handler
    BY <1>1 DEF Handler
  <1>4. \A l \in Label, b \in BOOLEAN : [h[p] EXCEPT !.timely = b, !.pc = l] \in Handler
    BY <1>1 DEF Handler
  <1>5. \A l \in Label, s \in Session \cup {None}, k \in Code, b \in BOOLEAN :
          [Idle EXCEPT !.pc = l, !.session = s, !.code = k, !.ready = b] \in Handler
    BY DEF Idle, Handler
  <1>6. \A l \in Label, k \in Code : [Idle EXCEPT !.pc = l, !.code = k] \in Handler
    BY DEF Idle, Handler
  <1>7. \A l \in Label, k \in Code, s \in Session \cup {None}, n \in Nat :
          [Idle EXCEPT !.pc = l, !.code = k, !.session = s, !.use = n] \in Handler
    BY DEF Idle, Handler
  <1> QED
    BY <1>2, <1>3, <1>4, <1>5, <1>6, <1>7

Assigns(p, r) == r \in Handler /\ h' = [h EXCEPT ![p] = r]

LEMMA Assigned ==
  ASSUME TypeOK, NEW p \in Proc, NEW r, Assigns(p, r)
  PROVE  /\ h' \in [Proc -> Handler]
         /\ h'[p] = r
         /\ \A q \in Proc : q # p => h'[q] = h[q]
  BY DEF Assigns, TypeOK

\* No step takes back a factor, its being enabled, or its secret.
Stable ==
  /\ \A f \in Factor : factor[f] # None =>
       factor'[f] # None /\ (factor[f].enabled => factor'[f].enabled)
  /\ vault \subseteq vault'

ProcStep(p) ==
  \/ \E f \in Factor : CreateFactor(p, f)
  \/ \E k \in Totp : SubmitEnrolment(p, k)
  \/ \E s \in Session, k \in Code : StepUp(p, s, k)
  \/ \E k \in Totp : StepUp(p, None, k)
  \/ StoreSecret(p) \/ ReadFactor(p) \/ VerifyFactorCode(p) \/ EnableFactor(p)
  \/ VerifySession(p) \/ Refused(p) \/ ListFactors(p) \/ CheckCode(p)
  \/ MarkCounterUsed(p) \/ CounterOvertaken(p) \/ ListRecoveryCodes(p)
  \/ MarkRecoveryCodeUsed(p) \/ RecoveryCodeTaken(p) \/ SetAssuranceLevel(p)
  \/ Return(p)

Outside ==
  \/ \E r \in RecoveryCode : CreateRecoveryCode(r)
  \/ \E s \in Session : RevokeSession(s)
  \/ Tick

LEMMA NextSplit == Next <=> (\E p \in Proc : ProcStep(p)) \/ Outside
  BY DEF Next, ProcStep, Outside

\* The rows a step can write.
LEMMA RowParts ==
  /\ \A r \in FactorRow : /\ [r EXCEPT !.enabled = TRUE] \in FactorRow
                          /\ [r EXCEPT !.enabled = TRUE].enabled
                          /\ [r EXCEPT !.enabled = TRUE].last = r.last
  /\ \A r \in FactorRow, c \in Counter : /\ [r EXCEPT !.last = c] \in FactorRow
                                         /\ [r EXCEPT !.last = c].enabled = r.enabled
                                         /\ [r EXCEPT !.last = c].last = c
  /\ [enabled |-> FALSE, last |-> NoCounter] \in FactorRow
  /\ None \notin FactorRow
  BY SentinelAssumption DEF FactorRow, NoCounter

LEMMA HeldFactor ==
  ASSUME Core, NEW p \in Proc, h[p].pc \in OfTotp
  PROVE  FactorOf(p) \in Factor /\ CounterOf(p) \in Counter
  BY CodeParts DEF Core, Knows, FactorOf, CounterOf

LEMMA StepStable ==
  ASSUME Core, NEW p \in Proc, ProcStep(p)
  PROVE  /\ factor' \in [Factor -> FactorRow \cup {None}]
         /\ Stable
  <1> USE DEF Stable, tables, history
  <1>0. factor \in [Factor -> FactorRow \cup {None}]
    BY DEF Core, TypeOK
  <1>1. CASE UNCHANGED <<factor, vault>>
    BY <1>0, <1>1
  <1>2. CASE \E f \in Factor : CreateFactor(p, f)
    BY <1>0, <1>2, RowParts DEF CreateFactor
  <1>3. CASE StoreSecret(p)
    BY <1>0, <1>3 DEF StoreSecret
  <1>4. CASE EnableFactor(p)
    <2>1. h[p].row \in FactorRow /\ FactorOf(p) \in Factor
      BY <1>4, HeldFactor DEF EnableFactor, Core, Knows, OfTotp
    <2>2. /\ factor' = [factor EXCEPT ![FactorOf(p)] = [h[p].row EXCEPT !.enabled = TRUE]]
          /\ vault' = vault
      BY <1>4 DEF EnableFactor
    <2> QED
      BY <1>0, <2>1, <2>2, RowParts
  <1>5. CASE MarkCounterUsed(p)
    <2>1. /\ FactorOf(p) \in Factor /\ CounterOf(p) \in Counter
          /\ factor[FactorOf(p)] \in FactorRow
      BY <1>0, <1>5, HeldFactor DEF MarkCounterUsed, Core, Knows, OfTotp
    <2>2. /\ factor' = [factor EXCEPT ![FactorOf(p)] =
                          [factor[FactorOf(p)] EXCEPT !.last = CounterOf(p)]]
          /\ vault' = vault
      BY <1>5 DEF MarkCounterUsed
    <2> QED
      BY <1>0, <2>1, <2>2, RowParts
  <1>6. \/ UNCHANGED <<factor, vault>>
        \/ \E f \in Factor : CreateFactor(p, f)
        \/ StoreSecret(p) \/ EnableFactor(p) \/ MarkCounterUsed(p)
    BY DEF ProcStep, SubmitEnrolment, StepUp, ReadFactor, VerifyFactorCode, VerifySession,
           Refused, ListFactors, CheckCode, CounterOvertaken, ListRecoveryCodes,
           MarkRecoveryCodeUsed, RecoveryCodeTaken, SetAssuranceLevel, Return
  <1> QED
    BY <1>1, <1>2, <1>3, <1>4, <1>5, <1>6

\* A step of one handler leaves the others what they know.
LEMMA Frame ==
  ASSUME Core, Stable, NEW p \in Proc, NEW r, Assigns(p, r), Knows(p)'
  PROVE  h' \in [Proc -> Handler] /\ \A q \in Proc : Knows(q)'
  <1>1. h' \in [Proc -> Handler] /\ h'[p] = r /\ \A q \in Proc : q # p => h'[q] = h[q]
    BY Assigned DEF Core
  <1>2. ASSUME NEW q \in Proc, q # p PROVE Knows(q)'
    <2>1. h'[q] = h[q] /\ Knows(q)
      BY <1>1, <1>2 DEF Core
    <2>2. h[q].code \in Totp => FactorOf(q) \in Factor
      BY CodeParts DEF FactorOf
    <2> QED
      BY <2>1, <2>2 DEF Knows, FactorOf, Stable, Ready, OfTotp
  <1> QED
    BY <1>1, <1>2

\* What a handler knows after its own step.
LEMMA StepKnows ==
  ASSUME Core, NEW p \in Proc, ProcStep(p)
  PROVE  \E r : Assigns(p, r) /\ Knows(p)'
  <1>0. Knows(p) /\ h[p] \in Handler /\ h \in [Proc -> Handler]
    BY DEF Core, TypeOK
  <1>s. Stable
    BY StepStable
  <1>f. CASE Finish(p)
    <2>1. Assigns(p, Idle)
      BY <1>f, IdleType DEF Finish, Assigns
    <2>2. h'[p] = Idle
      BY <2>1, Assigned DEF Core
    <2>3. Knows(p)'
      BY <2>2 DEF Knows, Idle, OfTotp, OfRecovery
    <2> QED
      BY <2>1, <2>3
  <1>1. ASSUME NEW f \in Factor, CreateFactor(p, f) PROVE \E r : Assigns(p, r) /\ Knows(p)'
    <2> DEFINE r == [Idle EXCEPT !.pc = "store_secret", !.code = <<f, 0>>]
    <2>1. <<f, 0>> \in Totp /\ <<f, 0>> \in Code
      BY ConfigAssumption DEF Totp, Code, Counter
    <2>2. Assigns(p, r)
      BY <1>1, <2>1, Moves DEF CreateFactor, Assigns, Label
    <2>3. h'[p] = r
      BY <2>2, Assigned DEF Core
    <2>4. Knows(p)'
      BY <2>1, <2>3 DEF Knows, OfTotp, OfRecovery, Idle
    <2> QED
      BY <2>2, <2>4
  <1>2. ASSUME NEW k \in Totp, SubmitEnrolment(p, k) PROVE \E r : Assigns(p, r) /\ Knows(p)'
    <2> DEFINE r == [Idle EXCEPT !.pc = "read_factor", !.code = k]
    <2>1. k \in Code
      BY DEF Code
    <2>2. Assigns(p, r)
      BY <1>2, <2>1, Moves DEF SubmitEnrolment, Assigns, Label
    <2>3. h'[p] = r
      BY <2>2, Assigned DEF Core
    <2>4. h'[p].pc = "read_factor" /\ h'[p].code = k /\ h'[p].ready = FALSE
      BY <2>3 DEF Idle
    <2>5. factor'[k[1]] # None
      BY <1>2 DEF SubmitEnrolment, tables, history
    <2>6. Knows(p)'
      BY <2>1, <2>4, <2>5 DEF Knows, OfTotp, OfRecovery, FactorOf
    <2> QED
      BY <2>2, <2>6
  <1>3. ASSUME NEW s \in Session \cup {None}, NEW k \in Code, StepUp(p, s, k),
               s = None => k \in Totp
        PROVE  \E r : Assigns(p, r) /\ Knows(p)'
    <2> DEFINE r == [Idle EXCEPT
                       !.pc = IF s = None THEN "list_factors" ELSE "session",
                       !.session = s, !.code = k, !.ready = k \in Totp /\ Ready(k[1])]
    <2>1. (IF s = None THEN "list_factors" ELSE "session") \in Label
      BY DEF Label
    <2>2. Assigns(p, r)
      BY <1>3, <2>1, Moves DEF StepUp, Assigns
    <2>3. h'[p] = r
      BY <2>2, Assigned DEF Core
    <2>4. /\ h'[p].pc = IF s = None THEN "list_factors" ELSE "session"
          /\ h'[p].session = s /\ h'[p].code = k
          /\ h'[p].ready = (k \in Totp /\ Ready(k[1]))
      BY <2>3 DEF Idle
    <2>5. factor' = factor /\ vault' = vault
      BY <1>3 DEF StepUp, tables, history
    <2>6. s # None => s \in Session
      BY <1>3
    <2>7. Knows(p)'
      BY <1>3, <2>4, <2>5, <2>6 DEF Knows, OfTotp, OfRecovery, FactorOf, Ready
    <2> QED
      BY <2>2, <2>7
  <1>4. CASE ReadFactor(p)
    <2>1. h[p].pc = "read_factor" /\ h[p].code \in Totp /\ factor[FactorOf(p)] \in FactorRow
      BY <1>4, <1>0, HeldFactor DEF ReadFactor, Knows, OfTotp, Core, TypeOK
    <2>2. CASE factor[FactorOf(p)].enabled
      BY <1>4, <1>f, <2>2 DEF ReadFactor
    <2>3. CASE ~factor[FactorOf(p)].enabled
      <3> DEFINE r == [h[p] EXCEPT !.pc = "enrol_code", !.row = factor[FactorOf(p)]]
      <3>1. h' = [h EXCEPT ![p] = r]
        BY <1>4, <2>3, <1>0 DEF ReadFactor
      <3>2. Assigns(p, r)
        BY <2>1, <3>1, Moves DEF Assigns, Label
      <3>3. h'[p] = r
        BY <3>2, Assigned DEF Core
      <3>4. Knows(p)'
        BY <1>0, <1>4, <2>1, <3>3 DEF ReadFactor, tables, history, Knows, OfTotp, OfRecovery, FactorOf,
           Handler, Ready
      <3> QED
        BY <3>2, <3>4
    <2> QED
      BY <2>2, <2>3
  <1>5. ASSUME VerifyFactorCode(p), Goto(p, "enable"), Matches(p) PROVE \E r : Assigns(p, r) /\ Knows(p)'
    <2> DEFINE r == [h[p] EXCEPT !.pc = "enable"]
    <2>1. h' = [h EXCEPT ![p] = r]
      BY <1>5, <1>0 DEF Goto
    <2>2. Assigns(p, r)
      BY <2>1, Moves DEF Assigns, Label
    <2>3. h'[p] = r
      BY <2>2, Assigned DEF Core
    <2>4. Knows(p)'
      BY <1>0, <1>5, <2>3 DEF VerifyFactorCode, Matches, tables, history, Knows, OfTotp, OfRecovery, FactorOf,
         Handler, Ready, Code
    <2> QED
      BY <2>2, <2>4
  <1>6. ASSUME VerifySession(p), Goto(p, "list_factors"), h[p].code \in Totp PROVE \E r : Assigns(p, r) /\ Knows(p)'
    <2> DEFINE r == [h[p] EXCEPT !.pc = "list_factors"]
    <2>1. h' = [h EXCEPT ![p] = r]
      BY <1>6, <1>0 DEF Goto
    <2>2. Assigns(p, r)
      BY <2>1, Moves DEF Assigns, Label
    <2>3. h'[p] = r
      BY <2>2, Assigned DEF Core
    <2>4. Knows(p)'
      BY <1>0, <1>6, <2>3 DEF VerifySession, tables, history, Knows, OfTotp, OfRecovery, FactorOf,
         Handler, Ready, Code
    <2> QED
      BY <2>2, <2>4
  <1>7. ASSUME VerifySession(p), Goto(p, "list_codes"), h[p].code \notin Totp PROVE \E r : Assigns(p, r) /\ Knows(p)'
    <2> DEFINE r == [h[p] EXCEPT !.pc = "list_codes"]
    <2>1. h' = [h EXCEPT ![p] = r]
      BY <1>7, <1>0 DEF Goto
    <2>2. Assigns(p, r)
      BY <2>1, Moves DEF Assigns, Label
    <2>3. h'[p] = r
      BY <2>2, Assigned DEF Core
    <2>4. Knows(p)'
      BY <1>0, <1>7, <2>3 DEF VerifySession, tables, history, Knows, OfTotp, OfRecovery, FactorOf,
         Handler, Ready, Code
    <2> QED
      BY <2>2, <2>4
  <1>8. CASE ListFactors(p)
    <2>1. h[p].pc = "list_factors" /\ h[p].code \in Totp /\ FactorOf(p) \in Factor
      BY <1>8, <1>0, HeldFactor DEF ListFactors, Knows, OfTotp
    <2> DEFINE row == factor[FactorOf(p)]
    <2>2. CASE row # None /\ row.enabled
      <3>1. row \in FactorRow
        BY <2>1, <2>2 DEF Core, TypeOK
      <3> DEFINE r == [h[p] EXCEPT !.pc = "check_code", !.row = row]
      <3>2. h' = [h EXCEPT ![p] = r]
        BY <1>8, <2>2, <1>0 DEF ListFactors
      <3>3. Assigns(p, r)
        BY <3>1, <3>2, Moves DEF Assigns, Label
      <3>4. h'[p] = r
        BY <3>3, Assigned DEF Core
      <3>5. Knows(p)'
        BY <1>0, <1>8, <2>1, <2>2, <3>1, <3>4 DEF ListFactors, tables, history, Knows, OfTotp,
           OfRecovery, FactorOf, Handler, Ready
      <3> QED
        BY <3>3, <3>5
    <2>3. CASE ~(row # None /\ row.enabled)
      <3> DEFINE r == [h[p] EXCEPT !.pc = "bad_code"]
      <3>1. h' = [h EXCEPT ![p] = r]
        BY <1>8, <2>3, <1>0 DEF ListFactors, Goto
      <3>2. Assigns(p, r)
        BY <3>1, Moves DEF Assigns, Label
      <3>3. h'[p] = r
        BY <3>2, Assigned DEF Core
      <3>4. Knows(p)'
        BY <1>0, <1>8, <2>1, <3>3 DEF ListFactors, tables, history, Knows, OfTotp,
           OfRecovery, FactorOf, Handler, Ready
      <3> QED
        BY <3>2, <3>4
    <2> QED
      BY <2>2, <2>3
  <1>9. CASE CheckCode(p)
    <2> DEFINE b == CounterOf(p) \in (clock - 1)..(clock + 1)
               l == IF Matches(p) /\ Fresh(h[p].row, CounterOf(p))
                    THEN "mark_counter" ELSE "bad_code"
               r == [h[p] EXCEPT !.timely = b, !.pc = l]
    <2>1. h' = [h EXCEPT ![p] = r]
      BY <1>9, <1>0 DEF CheckCode
    <2>2. b \in BOOLEAN /\ l \in {"mark_counter", "bad_code"} /\ l \in Label
      BY DEF Label
    <2> HIDE DEF b, l
    <2>3. Assigns(p, r)
      BY <2>1, <2>2, Moves DEF Assigns
    <2>4. h'[p] = r
      BY <2>3, Assigned DEF Core
    <2>5. Knows(p)'
      BY <1>0, <1>9, <2>2, <2>4 DEF CheckCode, tables, history, Knows, OfTotp, OfRecovery, FactorOf,
         Handler, Ready
    <2> QED
      BY <2>3, <2>5
  <1>10. ASSUME AfterCode(p), h[p].code \in Code PROVE \E r : Assigns(p, r) /\ Knows(p)'
    <2>1. CASE h[p].session = None
      BY <1>10, <2>1, <1>f DEF AfterCode
    <2>2. CASE h[p].session # None
      <3> DEFINE r == [Idle EXCEPT !.pc = "elevate", !.code = h[p].code,
                                   !.session = h[p].session,
                                   !.use = accepted[h[p].code] + 1]
      <3>1. h[p].session \in Session /\ accepted[h[p].code] + 1 \in Nat
        BY <1>0, <1>10, <2>2 DEF Handler, Core, TypeOK
      <3>2. Assigns(p, r)
        BY <1>10, <2>2, <3>1, Moves DEF AfterCode, Assigns, Label
      <3>3. h'[p] = r
        BY <3>2, Assigned DEF Core
      <3>4. Knows(p)'
        BY <1>10, <3>1, <3>3 DEF Knows, OfTotp, OfRecovery, Idle
      <3> QED
        BY <3>2, <3>4
    <2> QED
      BY <2>1, <2>2
  <1>11. ASSUME CounterOvertaken(p), Goto(p, "bad_code") PROVE \E r : Assigns(p, r) /\ Knows(p)'
    <2> DEFINE r == [h[p] EXCEPT !.pc = "bad_code"]
    <2>1. h' = [h EXCEPT ![p] = r]
      BY <1>11, <1>0 DEF Goto
    <2>2. Assigns(p, r)
      BY <2>1, Moves DEF Assigns, Label
    <2>3. h'[p] = r
      BY <2>2, Assigned DEF Core
    <2>4. Knows(p)'
      BY <1>0, <1>11, <2>3 DEF CounterOvertaken, tables, history, Knows, OfTotp, OfRecovery, FactorOf,
         Handler, Ready, Code
    <2> QED
      BY <2>2, <2>4
  <1>12. ASSUME ListRecoveryCodes(p), Goto(p, "mark_code") PROVE \E r : Assigns(p, r) /\ Knows(p)'
    <2> DEFINE r == [h[p] EXCEPT !.pc = "mark_code"]
    <2>1. h' = [h EXCEPT ![p] = r]
      BY <1>12, <1>0 DEF Goto
    <2>2. Assigns(p, r)
      BY <2>1, Moves DEF Assigns, Label
    <2>3. h'[p] = r
      BY <2>2, Assigned DEF Core
    <2>4. Knows(p)'
      BY <1>0, <1>12, <2>3 DEF ListRecoveryCodes, tables, history, Knows, OfTotp, OfRecovery, FactorOf,
         Handler, Ready, Code
    <2> QED
      BY <2>2, <2>4
  <1>13. CASE \E f \in Factor : CreateFactor(p, f)
    BY <1>1, <1>13
  <1>14. CASE \E k \in Totp : SubmitEnrolment(p, k)
    BY <1>2, <1>14
  <1>15. CASE \/ \E s \in Session, k \in Code : StepUp(p, s, k)
              \/ \E k \in Totp : StepUp(p, None, k)
    BY <1>3, <1>15, SentinelAssumption DEF Code
  <1>16. CASE StoreSecret(p) \/ EnableFactor(p) \/ Refused(p) \/ RecoveryCodeTaken(p)
                \/ SetAssuranceLevel(p) \/ Return(p)
    BY <1>f, <1>16 DEF StoreSecret, EnableFactor, Refused, RecoveryCodeTaken,
       SetAssuranceLevel, Return
  <1>17. CASE VerifyFactorCode(p)
    BY <1>5, <1>f, <1>17 DEF VerifyFactorCode
  <1>18. CASE VerifySession(p)
    BY <1>6, <1>7, <1>18 DEF VerifySession
  <1>19. CASE MarkCounterUsed(p) \/ MarkRecoveryCodeUsed(p)
    <2>1. h[p].code \in Code /\ AfterCode(p)
      BY <1>0, <1>19 DEF MarkCounterUsed, MarkRecoveryCodeUsed, Knows, Handler
    <2> QED
      BY <2>1, <1>10
  <1>20. CASE CounterOvertaken(p)
    BY <1>11, <1>20 DEF CounterOvertaken
  <1>21. CASE ListRecoveryCodes(p)
    BY <1>12, <1>f, <1>21 DEF ListRecoveryCodes
  <1> QED
    BY <1>4, <1>8, <1>9, <1>13, <1>14, <1>15, <1>16, <1>17, <1>18, <1>19, <1>20, <1>21
    DEF ProcStep

\* The tables other than the factors keep their types.
LEMMA StepTables ==
  ASSUME Core, NEW p \in Proc, ProcStep(p)
  PROVE  /\ clock' = clock /\ revoked' = revoked
         /\ vault' \subseteq Factor
         /\ recovery' \in [RecoveryCode -> {"absent", "unused", "used"}]
         /\ aal2' \in [Session -> (Code \X Nat) \cup {None}]
         /\ enrolled' \in [Totp -> Nat]
         /\ accepted' \in [Code -> Nat]
         /\ setback' \in [Factor -> Nat]
  <1> USE DEF history
  <1>0. /\ vault \subseteq Factor
        /\ recovery \in [RecoveryCode -> {"absent", "unused", "used"}]
        /\ aal2 \in [Session -> (Code \X Nat) \cup {None}]
        /\ enrolled \in [Totp -> Nat]
        /\ accepted \in [Code -> Nat]
        /\ setback \in [Factor -> Nat]
        /\ Knows(p) /\ h[p] \in Handler
    BY DEF Core, TypeOK
  <1>1. CASE StoreSecret(p)
    <2>1. FactorOf(p) \in Factor
      BY <1>1, HeldFactor DEF StoreSecret, OfTotp
    <2> QED
      BY <1>0, <1>1, <2>1 DEF StoreSecret
  <1>2. CASE EnableFactor(p)
    <2>1. h[p].code \in Totp /\ FactorOf(p) \in Factor
      BY <1>0, <1>2, HeldFactor DEF EnableFactor, Knows, OfTotp
    <2>2. enrolled[h[p].code] + 1 \in Nat /\ setback[FactorOf(p)] + 1 \in Nat
      BY <1>0, <2>1
    <2>3. enrolled' \in [Totp -> Nat] /\ setback' \in [Factor -> Nat]
      BY <1>0, <1>2, <2>1, <2>2 DEF EnableFactor
    <2> QED
      BY <1>0, <1>2, <2>3 DEF EnableFactor
  <1>3. CASE MarkCounterUsed(p) \/ MarkRecoveryCodeUsed(p)
    <2>1. h[p].code \in Code
      BY <1>0, <1>3 DEF MarkCounterUsed, MarkRecoveryCodeUsed, Knows
    <2>2. accepted[h[p].code] + 1 \in Nat
      BY <1>0, <2>1
    <2>3. accepted' = [accepted EXCEPT ![h[p].code] = accepted[h[p].code] + 1]
      BY <1>3 DEF MarkCounterUsed, MarkRecoveryCodeUsed
    <2>4. accepted' \in [Code -> Nat]
      BY <1>0, <2>1, <2>2, <2>3
    <2>5. recovery' \in [RecoveryCode -> {"absent", "unused", "used"}]
      BY <1>0, <1>3 DEF MarkCounterUsed, MarkRecoveryCodeUsed
    <2>6. UNCHANGED <<clock, revoked, vault, aal2, enrolled, setback>>
      BY <1>3 DEF MarkCounterUsed, MarkRecoveryCodeUsed
    <2> QED
      BY <1>0, <2>4, <2>5, <2>6
  <1>4. CASE SetAssuranceLevel(p)
    <2>1. h[p].session \in Session /\ h[p].code \in Code
      BY <1>0, <1>4 DEF SetAssuranceLevel, Knows
    <2>2. <<h[p].code, h[p].use>> \in Code \X Nat
      BY <1>0, <2>1 DEF Handler
    <2>3. aal2' \in [Session -> (Code \X Nat) \cup {None}]
      BY <1>0, <1>4, <2>1, <2>2 DEF SetAssuranceLevel
    <2> QED
      BY <1>0, <1>4, <2>3 DEF SetAssuranceLevel
  <1>5. \/ UNCHANGED <<clock, revoked, vault, recovery, aal2, history>>
        \/ StoreSecret(p) \/ EnableFactor(p) \/ MarkCounterUsed(p) \/ MarkRecoveryCodeUsed(p)
        \/ SetAssuranceLevel(p)
    BY DEF ProcStep, CreateFactor, SubmitEnrolment, StepUp, ReadFactor, VerifyFactorCode,
           VerifySession, Refused, ListFactors, CheckCode, CounterOvertaken,
           ListRecoveryCodes, RecoveryCodeTaken, Return, tables, history
  <1> QED
    BY <1>0, <1>1, <1>2, <1>3, <1>4, <1>5

LEMMA ProcCore ==
  ASSUME Core, NEW p \in Proc, ProcStep(p)
  PROVE  Core'
  <1>1. PICK r : Assigns(p, r) /\ Knows(p)'
    BY StepKnows
  <1>2. Stable /\ factor' \in [Factor -> FactorRow \cup {None}]
    BY StepStable
  <1>3. h' \in [Proc -> Handler] /\ \A q \in Proc : Knows(q)'
    BY <1>1, <1>2, Frame
  <1>4. TypeOK'
    BY <1>2, <1>3, StepTables DEF Core, TypeOK
  <1> QED
    BY <1>3, <1>4 DEF Core

LEMMA OutsideCore ==
  ASSUME Core, Outside \/ UNCHANGED vars
  PROVE  Core' /\ UNCHANGED <<factor, vault, aal2, history, h>>
  <1>1. UNCHANGED <<factor, vault, aal2, history, h>>
    BY DEF Outside, CreateRecoveryCode, RevokeSession, Tick, vars, tables, history
  <1>2. clock' \in 0..MaxClock
    BY ConfigAssumption
    DEF Core, TypeOK, Outside, CreateRecoveryCode, RevokeSession, Tick, vars, tables, history
  <1>3. revoked' \subseteq Session /\ recovery' \in [RecoveryCode -> {"absent", "unused", "used"}]
    BY DEF Core, TypeOK, Outside, CreateRecoveryCode, RevokeSession, Tick, vars, tables, history
  <1>4. TypeOK'
    BY <1>1, <1>2, <1>3 DEF Core, TypeOK, history
  <1>5. \A q \in Proc : Knows(q)'
    BY <1>1 DEF Core, Knows, FactorOf, Ready
  <1> QED
    BY <1>1, <1>4, <1>5 DEF Core

LEMMA CoreStep == Core /\ [Next]_vars => Core'
  BY ProcCore, OutsideCore, NextSplit

\* The tables and the locals have their types in every state.
THEOREM SecondFactorTypes == Spec => []TypeOK
  <1>1. Core => TypeOK
    BY DEF Core
  <1> QED
    BY <1>1, InitCore, CoreStep, PTL DEF Spec

-----------------------------------------------------------------------------
(* Enrolment: a factor is enabled by a code *)

LEMMA StepProven ==
  ASSUME Core, EnabledProven, NEW p \in Proc, ProcStep(p)
  PROVE  EnabledProven'
  <1> USE DEF history
  <1>s. vault \subseteq vault'
    BY StepStable DEF Stable
  <1>0. /\ factor \in [Factor -> FactorRow \cup {None}]
        /\ enrolled \in [Totp -> Nat]
        /\ Knows(p)
        /\ \A f \in Factor, c \in Counter : <<f, c>> \in Totp
    BY DEF Core, TypeOK, Totp
  <1>1. CASE UNCHANGED <<factor, enrolled>>
    BY <1>1, <1>s DEF EnabledProven
  <1>2. CASE \E f \in Factor : CreateFactor(p, f)
    <2>1. PICK f \in Factor : CreateFactor(p, f)
      BY <1>2
    <2>2. \A g \in Factor : factor'[g] # None /\ factor'[g].enabled =>
            factor[g] # None /\ factor[g].enabled
      BY <1>0, <2>1 DEF CreateFactor
    <2>3. enrolled' = enrolled
      BY <2>1 DEF CreateFactor
    <2> QED
      BY <1>s, <2>2, <2>3 DEF EnabledProven
  <1>3. CASE EnableFactor(p)
    <2>1. /\ h[p].code \in Totp /\ FactorOf(p) \in Factor /\ CounterOf(p) \in Counter
          /\ h[p].code = <<FactorOf(p), CounterOf(p)>>
      BY <1>0, <1>3, CodeParts DEF EnableFactor, Knows, OfTotp, FactorOf, CounterOf
    <2>2. \A k \in Totp : enrolled'[k] >= enrolled[k]
      BY <1>0, <1>3, <2>1 DEF EnableFactor
    <2>3. enrolled'[<<FactorOf(p), CounterOf(p)>>] > 0
      <3>1. enrolled[h[p].code] \in Nat /\ enrolled'[h[p].code] = enrolled[h[p].code] + 1
        BY <1>0, <1>3, <2>1 DEF EnableFactor
      <3> QED
        BY <2>1, <3>1
    <2>4. \A g \in Factor : g # FactorOf(p) => factor'[g] = factor[g]
      BY <1>0, <1>3, <2>1 DEF EnableFactor
    <2>5. enrolled' \in [Totp -> Nat]
      BY StepTables
    <2>6. ASSUME NEW g \in Factor, factor'[g] # None /\ factor'[g].enabled
          PROVE  g \in vault' /\ \E c \in Counter : enrolled'[<<g, c>>] > 0
      <3>1. CASE g = FactorOf(p)
        <4>1. FactorOf(p) \in vault
          BY <1>0, <1>3 DEF EnableFactor, Knows
        <4> QED
          BY <1>s, <2>1, <2>3, <3>1, <4>1
      <3>2. CASE g # FactorOf(p)
        <4>1. g \in vault /\ \E c \in Counter : enrolled[<<g, c>>] > 0
          BY <2>4, <2>6, <3>2 DEF EnabledProven
        <4>2. PICK c \in Counter : enrolled[<<g, c>>] > 0
          BY <4>1
        <4>3. <<g, c>> \in Totp
          BY <1>0
        <4>4. enrolled'[<<g, c>>] > 0
          BY <1>0, <2>2, <2>5, <4>2, <4>3
        <4> QED
          BY <1>s, <4>1, <4>4
      <3> QED
        BY <3>1, <3>2
    <2> QED
      BY <2>6 DEF EnabledProven
  <1>4. CASE MarkCounterUsed(p)
    <2>1. /\ FactorOf(p) \in Factor /\ CounterOf(p) \in Counter
          /\ factor[FactorOf(p)] \in FactorRow
      BY <1>0, <1>4, HeldFactor DEF MarkCounterUsed, Core, Knows, OfTotp
    <2>2. /\ factor' = [factor EXCEPT ![FactorOf(p)] =
                          [factor[FactorOf(p)] EXCEPT !.last = CounterOf(p)]]
          /\ enrolled' = enrolled
      BY <1>4 DEF MarkCounterUsed
    <2>3. \A g \in Factor : factor'[g] # None /\ factor'[g].enabled =>
            factor[g] # None /\ factor[g].enabled
      BY <1>0, <2>1, <2>2, RowParts
    <2> QED
      BY <1>s, <2>2, <2>3 DEF EnabledProven
  <1>5. \/ UNCHANGED <<factor, enrolled>>
        \/ \E f \in Factor : CreateFactor(p, f)
        \/ EnableFactor(p) \/ MarkCounterUsed(p)
    BY DEF ProcStep, StoreSecret, SubmitEnrolment, StepUp, ReadFactor, VerifyFactorCode,
           VerifySession, Refused, ListFactors, CheckCode, CounterOvertaken,
           ListRecoveryCodes, MarkRecoveryCodeUsed, RecoveryCodeTaken, SetAssuranceLevel,
           Return, tables, history
  <1> QED
    BY <1>1, <1>2, <1>3, <1>4, <1>5

\* However many handlers create, verify, answer and die at a time, no factor is
\* enabled that has no secret or that nobody has shown a code of.
THEOREM EnabledIsProven == Spec => []EnabledProven
  <1>1. Init => Core /\ EnabledProven
    BY InitCore DEF Init, EnabledProven
  <1>2. Core /\ EnabledProven /\ [Next]_vars => Core' /\ EnabledProven'
    <2>1. ASSUME Core, EnabledProven, Outside \/ UNCHANGED vars PROVE EnabledProven'
      BY <2>1, OutsideCore DEF EnabledProven, history
    <2> QED
      BY <2>1, StepProven, CoreStep, NextSplit
  <1> QED
    BY <1>1, <1>2, PTL DEF Spec

-----------------------------------------------------------------------------
(* What a step of a handler does to its locals *)

Enrols == {"read_factor", "enrol_code", "enable"}
Notable == Enrols \cup {"check_code", "mark_counter", "bad_code", "elevate"}
SameCode(p) == h'[p].code = h[p].code

\* The locals a handler has after each step that takes it to a notable label.
Moved(p) ==
  \/ h'[p].pc \notin Notable
  \/ (\E k \in Totp : SubmitEnrolment(p, k)) /\ h'[p].pc = "read_factor"
  \/ /\ ReadFactor(p) /\ SameCode(p) /\ h'[p].pc = "enrol_code"
     /\ h'[p].row = factor[FactorOf(p)] /\ ~factor[FactorOf(p)].enabled
  \/ /\ VerifyFactorCode(p) /\ SameCode(p) /\ h'[p].pc = "enable"
     /\ h'[p].row = h[p].row
  \/ /\ ListFactors(p) /\ SameCode(p) /\ h'[p].pc = "check_code"
     /\ h'[p].row = factor[FactorOf(p)]
  \/ /\ ListFactors(p) /\ h'[p].pc = "bad_code" /\ ~h'[p].ready
  \/ /\ CheckCode(p) /\ SameCode(p) /\ h'[p].pc = "mark_counter"
     /\ h'[p].row = h[p].row
  \/ /\ CheckCode(p) /\ SameCode(p) /\ h'[p].pc = "bad_code"
     /\ h'[p].ready /\ h'[p].timely => ~Fresh(h[p].row, CounterOf(p))
  \/ /\ CounterOvertaken(p) /\ SameCode(p) /\ h'[p].pc = "bad_code"
  \/ /\ MarkCounterUsed(p) \/ MarkRecoveryCodeUsed(p)
     /\ SameCode(p) /\ h'[p].pc = "elevate" /\ h'[p].use = accepted[h[p].code] + 1

LEMMA StepMoved ==
  ASSUME Core, NEW p \in Proc, ProcStep(p)
  PROVE  /\ h' \in [Proc -> Handler]
         /\ Moved(p)
         /\ \A q \in Proc : q # p => h'[q] = h[q]
  <1>0. Knows(p) /\ h[p] \in Handler /\ h \in [Proc -> Handler]
    BY DEF Core, TypeOK
  <1>1. h' \in [Proc -> Handler] /\ \A q \in Proc : q # p => h'[q] = h[q]
    BY StepKnows, Assigned DEF Core
  <1> SUFFICES Moved(p)
    BY <1>1
  <1>f. CASE Finish(p)
    <2>1. h'[p] = Idle
      BY <1>0, <1>f DEF Finish
    <2> QED
      BY <2>1 DEF Moved, Idle, Notable, Enrols
  <1>2. CASE \E f \in Factor : CreateFactor(p, f)
    <2>1. PICK f \in Factor : CreateFactor(p, f)
      BY <1>2
    <2>2. h'[p] = [Idle EXCEPT !.pc = "store_secret", !.code = <<f, 0>>]
      BY <1>0, <2>1 DEF CreateFactor
    <2>3. h'[p].pc = "store_secret"
      BY <2>2 DEF Idle
    <2> QED
      BY <2>3 DEF Moved, Notable, Enrols
  <1>3. CASE \E k \in Totp : SubmitEnrolment(p, k)
    <2>1. PICK k \in Totp : SubmitEnrolment(p, k)
      BY <1>3
    <2>2. h'[p] = [Idle EXCEPT !.pc = "read_factor", !.code = k]
      BY <1>0, <2>1 DEF SubmitEnrolment
    <2>3. h'[p].pc = "read_factor"
      BY <2>2 DEF Idle
    <2> QED
      BY <1>3, <2>3 DEF Moved
  <1>4. ASSUME NEW s, NEW k, StepUp(p, s, k) PROVE Moved(p)
    <2>1. h'[p] = [Idle EXCEPT
                    !.pc = IF s = None THEN "list_factors" ELSE "session",
                    !.session = s, !.code = k, !.ready = k \in Totp /\ Ready(k[1])]
      BY <1>0, <1>4 DEF StepUp
    <2>2. h'[p].pc \in {"list_factors", "session"}
      BY <2>1 DEF Idle
    <2> QED
      BY <2>2 DEF Moved, Notable, Enrols
  <1>5. CASE ReadFactor(p)
    <2>1. CASE ~factor[FactorOf(p)].enabled
      <3>1. h'[p] = [h[p] EXCEPT !.pc = "enrol_code", !.row = factor[FactorOf(p)]]
        BY <1>0, <1>5, <2>1 DEF ReadFactor
      <3> QED
        BY <1>0, <1>5, <2>1, <3>1 DEF Moved, SameCode, Handler
    <2> QED
      BY <1>5, <2>1, <1>f DEF ReadFactor
  <1>6. CASE VerifyFactorCode(p)
    <2>1. CASE Goto(p, "enable")
      <3>1. h'[p] = [h[p] EXCEPT !.pc = "enable"]
        BY <1>0, <2>1 DEF Goto
      <3> QED
        BY <1>0, <1>6, <3>1 DEF Moved, SameCode, Handler
    <2> QED
      BY <1>6, <2>1, <1>f DEF VerifyFactorCode
  <1>7. CASE VerifySession(p)
    <2>1. h'[p].pc \in {"list_factors", "list_codes"}
      BY <1>0, <1>7 DEF VerifySession, Goto, Handler
    <2> QED
      BY <2>1 DEF Moved, Notable, Enrols
  <1>8. CASE ListFactors(p)
    <2>1. h[p].code \in Totp /\ FactorOf(p) \in Factor
      BY <1>0, <1>8, HeldFactor DEF ListFactors, Knows, OfTotp
    <2>2. CASE factor[FactorOf(p)] # None /\ factor[FactorOf(p)].enabled
      <3>1. h'[p] = [h[p] EXCEPT !.pc = "check_code", !.row = factor[FactorOf(p)]]
        BY <1>0, <1>8, <2>2 DEF ListFactors
      <3> QED
        BY <1>0, <1>8, <3>1 DEF Moved, SameCode, Handler
    <2>3. CASE ~(factor[FactorOf(p)] # None /\ factor[FactorOf(p)].enabled)
      <3>1. h'[p] = [h[p] EXCEPT !.pc = "bad_code"]
        BY <1>0, <1>8, <2>3 DEF ListFactors, Goto
      <3>2. ~h[p].ready
        BY <1>0, <2>3 DEF Knows, Ready
      <3> QED
        BY <1>0, <1>8, <3>1, <3>2 DEF Moved, Handler
    <2> QED
      BY <2>2, <2>3
  <1>9. CASE CheckCode(p)
    <2> DEFINE b == CounterOf(p) \in (clock - 1)..(clock + 1)
               l == IF Matches(p) /\ Fresh(h[p].row, CounterOf(p))
                    THEN "mark_counter" ELSE "bad_code"
    <2>1. h'[p] = [h[p] EXCEPT !.timely = b, !.pc = l]
      BY <1>0, <1>9 DEF CheckCode
    <2>2. /\ SameCode(p) /\ h'[p].row = h[p].row /\ h'[p].ready = h[p].ready
          /\ h'[p].timely = b /\ h'[p].pc = l
      BY <1>0, <2>1 DEF SameCode, Handler
    <2>3. CASE Matches(p) /\ Fresh(h[p].row, CounterOf(p))
      BY <1>9, <2>2, <2>3 DEF Moved
    <2>4. CASE ~(Matches(p) /\ Fresh(h[p].row, CounterOf(p)))
      <3>1. h[p].ready => FactorOf(p) \in vault
        BY <1>0 DEF Knows, Ready
      <3>2. h[p].ready /\ b => ~Fresh(h[p].row, CounterOf(p))
        BY <2>4, <3>1 DEF Matches
      <3> QED
        BY <1>9, <2>2, <2>4, <3>2 DEF Moved
    <2> QED
      BY <2>3, <2>4
  <1>10. CASE CounterOvertaken(p)
    <2>1. h'[p] = [h[p] EXCEPT !.pc = "bad_code"]
      BY <1>0, <1>10 DEF CounterOvertaken, Goto
    <2> QED
      BY <1>0, <1>10, <2>1 DEF Moved, SameCode, Handler
  <1>11. CASE MarkCounterUsed(p) \/ MarkRecoveryCodeUsed(p)
    <2>1. CASE h[p].session # None
      <3>1. h'[p] = [Idle EXCEPT !.pc = "elevate", !.code = h[p].code,
                                 !.session = h[p].session,
                                 !.use = accepted[h[p].code] + 1]
        BY <1>0, <1>11, <2>1 DEF MarkCounterUsed, MarkRecoveryCodeUsed, AfterCode
      <3>2. /\ h'[p].pc = "elevate" /\ SameCode(p)
            /\ h'[p].use = accepted[h[p].code] + 1
        BY <3>1 DEF SameCode, Idle
      <3> QED
        BY <1>11, <3>2 DEF Moved
    <2>2. CASE h[p].session = None
      BY <1>f, <1>11, <2>2 DEF MarkCounterUsed, MarkRecoveryCodeUsed, AfterCode
    <2> QED
      BY <2>1, <2>2
  <1>12. CASE ListRecoveryCodes(p)
    <2>1. CASE Goto(p, "mark_code")
      <3>1. h'[p].pc = "mark_code"
        BY <1>0, <2>1 DEF Goto, Handler
      <3> QED
        BY <3>1 DEF Moved, Notable, Enrols
    <2> QED
      BY <1>12, <2>1, <1>f DEF ListRecoveryCodes
  <1>13. CASE StoreSecret(p) \/ EnableFactor(p) \/ Refused(p) \/ RecoveryCodeTaken(p)
                \/ SetAssuranceLevel(p) \/ Return(p)
    BY <1>f, <1>13 DEF StoreSecret, EnableFactor, Refused, RecoveryCodeTaken,
       SetAssuranceLevel, Return
  <1> QED
    BY <1>2, <1>3, <1>4, <1>5, <1>6, <1>7, <1>8, <1>9, <1>10, <1>11, <1>12, <1>13
    DEF ProcStep

-----------------------------------------------------------------------------
(* What a step does to a row of the factors *)

LEMMA CountersAreIntegers ==
  /\ \A c \in Counter : c \in Int
  /\ \A r \in FactorRow : /\ r.last \in Int
                          /\ r.last # NoCounter => r.last \in Counter
                          /\ \A c \in Counter : r.last >= c => r.last # NoCounter
  BY ConfigAssumption DEF Counter, FactorRow, NoCounter

\* What a step can do to a row that is there.
LEMMA RowEffects ==
  ASSUME Core, NEW p \in Proc, ProcStep(p), NEW f \in Factor, factor[f] # None
  PROVE  \/ factor'[f] = factor[f]
         \/ /\ EnableFactor(p) /\ f = FactorOf(p)
            /\ factor'[f] = [h[p].row EXCEPT !.enabled = TRUE]
         \/ /\ MarkCounterUsed(p) /\ f = FactorOf(p)
            /\ factor'[f] = [factor[f] EXCEPT !.last = CounterOf(p)]
  <1>0. factor \in [Factor -> FactorRow \cup {None}]
    BY DEF Core, TypeOK
  <1>1. CASE \E g \in Factor : CreateFactor(p, g)
    BY <1>0, <1>1 DEF CreateFactor
  <1>2. CASE EnableFactor(p)
    BY <1>0, <1>2 DEF EnableFactor
  <1>3. CASE MarkCounterUsed(p)
    BY <1>0, <1>3 DEF MarkCounterUsed
  <1>4. \/ factor' = factor
        \/ \E g \in Factor : CreateFactor(p, g)
        \/ EnableFactor(p) \/ MarkCounterUsed(p)
    BY DEF ProcStep, StoreSecret, SubmitEnrolment, StepUp, ReadFactor, VerifyFactorCode,
           VerifySession, Refused, ListFactors, CheckCode, CounterOvertaken,
           ListRecoveryCodes, MarkRecoveryCodeUsed, RecoveryCodeTaken, SetAssuranceLevel,
           Return, tables, history
  <1> QED
    BY <1>1, <1>2, <1>3, <1>4

-----------------------------------------------------------------------------
(* Step-up: a code is accepted once *)

\* Unless the counter was put back since, an accepted code is not above it.
Used ==
  \A k \in Totp :
    /\ accepted[k] <= 1 + setback[k[1]]
    /\ accepted[k] > setback[k[1]] => factor[k[1]] # None /\ factor[k[1]].last >= k[2]

RecoveryUsed ==
  \A r \in RecoveryCode : accepted[r] = IF recovery[r] = "used" THEN 1 ELSE 0

\* The steps that accept a code, and what they do to its count.
Accepts(p) == MarkCounterUsed(p) \/ MarkRecoveryCodeUsed(p)

LEMMA AcceptEffects ==
  ASSUME Core, NEW p \in Proc, ProcStep(p)
  PROVE  /\ Accepts(p) =>
              /\ h[p].code \in Code
              /\ accepted'[h[p].code] = accepted[h[p].code] + 1
              /\ \A k \in Code : k # h[p].code => accepted'[k] = accepted[k]
         /\ ~Accepts(p) => accepted' = accepted
  <1>0. accepted \in [Code -> Nat] /\ Knows(p)
    BY DEF Core, TypeOK
  <1>1. ASSUME Accepts(p)
        PROVE  /\ h[p].code \in Code
               /\ accepted' = [accepted EXCEPT ![h[p].code] = accepted[h[p].code] + 1]
    BY <1>0, <1>1 DEF Accepts, MarkCounterUsed, MarkRecoveryCodeUsed, Knows
  <1>2. ASSUME ~Accepts(p) PROVE accepted' = accepted
    BY <1>2 DEF Accepts, ProcStep, CreateFactor, StoreSecret, SubmitEnrolment, StepUp,
           ReadFactor, VerifyFactorCode, EnableFactor,
           VerifySession, Refused, ListFactors, CheckCode, CounterOvertaken,
           ListRecoveryCodes, RecoveryCodeTaken, SetAssuranceLevel,
           Return, tables, history
  <1> QED
    BY <1>0, <1>1, <1>2

\* Only an enrolment that writes back a row whose counter is behind adds to setback.
LEMMA SetbackEffects ==
  ASSUME Core, NEW p \in Proc, ProcStep(p), NEW f \in Factor
  PROVE  \/ setback'[f] = setback[f] + 1
         \/ /\ setback'[f] = setback[f]
            /\ EnableFactor(p) /\ f = FactorOf(p) => h[p].row.last >= factor[f].last
  <1>0. /\ setback \in [Factor -> Nat] /\ Knows(p)
        /\ factor \in [Factor -> FactorRow \cup {None}]
    BY DEF Core, TypeOK
  <1>1. CASE EnableFactor(p)
    <2>1. /\ FactorOf(p) \in Factor /\ factor[FactorOf(p)] \in FactorRow
          /\ h[p].row \in FactorRow
      BY <1>0, <1>1, HeldFactor DEF EnableFactor, Knows, OfTotp
    <2>2. factor[FactorOf(p)].last \in Int /\ h[p].row.last \in Int
      BY <2>1, CountersAreIntegers
    <2> QED
      BY <1>0, <1>1, <2>1, <2>2 DEF EnableFactor
  <1>2. CASE ~EnableFactor(p)
    <2>1. setback' = setback
      BY <1>2 DEF ProcStep, CreateFactor, StoreSecret, SubmitEnrolment, StepUp,
         ReadFactor, VerifyFactorCode, VerifySession, Refused, ListFactors, CheckCode,
         MarkCounterUsed, CounterOvertaken, ListRecoveryCodes, MarkRecoveryCodeUsed,
         RecoveryCodeTaken, SetAssuranceLevel, Return, history
    <2> QED
      BY <1>2, <2>1
  <1> QED
    BY <1>1, <1>2

LEMMA StepUsed ==
  ASSUME Core, Used, NEW p \in Proc, ProcStep(p)
  PROVE  Used'
  <1>1. ASSUME NEW k \in Totp
        PROVE  /\ accepted'[k] <= 1 + setback'[k[1]]
               /\ accepted'[k] > setback'[k[1]] =>
                    factor'[k[1]] # None /\ factor'[k[1]].last >= k[2]
    <2>0. /\ k \in Code /\ k[1] \in Factor /\ k[2] \in Counter /\ k = <<k[1], k[2]>>
          /\ accepted[k] \in Nat /\ setback[k[1]] \in Nat
          /\ accepted[k] <= 1 + setback[k[1]]
          /\ accepted[k] > setback[k[1]] => factor[k[1]] # None /\ factor[k[1]].last >= k[2]
      BY CodeParts DEF Code, Core, TypeOK, Used
    <2>1. CASE setback'[k[1]] = setback[k[1]] + 1
      <3>1. EnableFactor(p)
        <4>1. setback' = setback \/ EnableFactor(p)
          BY DEF ProcStep, CreateFactor, StoreSecret, SubmitEnrolment, StepUp,
             ReadFactor, VerifyFactorCode, VerifySession, Refused, ListFactors, CheckCode,
             MarkCounterUsed, CounterOvertaken, ListRecoveryCodes, MarkRecoveryCodeUsed,
             RecoveryCodeTaken, SetAssuranceLevel, Return, history
        <4> QED
          BY <2>0, <2>1, <4>1
      <3>2. accepted' = accepted
        BY <3>1 DEF EnableFactor
      <3> QED
        BY <2>0, <2>1, <3>2
    <2>2. CASE Accepts(p) /\ k = h[p].code /\ setback'[k[1]] = setback[k[1]]
      <3>1. MarkCounterUsed(p)
        BY <2>2, SentinelAssumption DEF Accepts, MarkRecoveryCodeUsed, Core, Knows, OfRecovery
      <3>2. FactorOf(p) = k[1] /\ CounterOf(p) = k[2] /\ factor[k[1]] # None
        BY <2>2, <3>1 DEF FactorOf, CounterOf, MarkCounterUsed, Core, Knows
      <3>3. k[2] > factor[k[1]].last /\ factor[k[1]] \in FactorRow
        BY <2>0, <3>1, <3>2 DEF MarkCounterUsed, Fresh, Core, TypeOK
      <3>4. accepted[k] <= setback[k[1]]
        BY <2>0, <3>3, CountersAreIntegers
      <3>5. accepted'[k] = accepted[k] + 1
        BY <2>2, AcceptEffects
      <3>6. factor' = [factor EXCEPT ![k[1]] = [factor[k[1]] EXCEPT !.last = k[2]]]
        BY <3>1, <3>2 DEF MarkCounterUsed
      <3>7. factor'[k[1]] = [factor[k[1]] EXCEPT !.last = k[2]]
        BY <2>0, <3>6 DEF Core, TypeOK
      <3>8. factor'[k[1]] \in FactorRow /\ factor'[k[1]].last = k[2]
        BY <2>0, <3>3, <3>7, RowParts
      <3> QED
        BY <2>0, <2>2, <3>4, <3>5, <3>8, RowParts, CountersAreIntegers
    <2>3. CASE accepted'[k] = accepted[k] /\ setback'[k[1]] = setback[k[1]]
      <3>1. ASSUME factor[k[1]] # None /\ factor[k[1]].last >= k[2],
                   EnableFactor(p) /\ k[1] = FactorOf(p) => h[p].row.last >= factor[k[1]].last
            PROVE  factor'[k[1]] # None /\ factor'[k[1]].last >= k[2]
        <4>1. factor[k[1]] \in FactorRow /\ factor[k[1]].last \in Int
          BY <2>0, <3>1, CountersAreIntegers DEF Core, TypeOK
        <4>2. factor'[k[1]] # None
          BY <2>0, <3>1, StepStable DEF Stable
        <4>3. CASE factor'[k[1]] = factor[k[1]]
          BY <3>1, <4>2, <4>3
        <4>4. CASE /\ EnableFactor(p) /\ k[1] = FactorOf(p)
                   /\ factor'[k[1]] = [h[p].row EXCEPT !.enabled = TRUE]
          <5>1. h[p].row \in FactorRow
            BY <4>4 DEF EnableFactor, Core, Knows
          <5>2. factor'[k[1]].last = h[p].row.last /\ h[p].row.last \in Int
            BY <4>4, <5>1, RowParts, CountersAreIntegers
          <5> QED
            BY <2>0, <3>1, <4>1, <4>2, <4>4, <5>2, CountersAreIntegers
        <4>5. CASE /\ MarkCounterUsed(p) /\ k[1] = FactorOf(p)
                   /\ factor'[k[1]] = [factor[k[1]] EXCEPT !.last = CounterOf(p)]
          <5>1. CounterOf(p) > factor[k[1]].last
            BY <4>5 DEF MarkCounterUsed, Fresh
          <5>2. CounterOf(p) \in Counter
            BY <4>5, HeldFactor DEF MarkCounterUsed, OfTotp
          <5>3. factor'[k[1]].last = CounterOf(p)
            BY <4>1, <4>5, <5>2, RowParts
          <5> QED
            BY <2>0, <3>1, <4>1, <4>2, <5>1, <5>2, <5>3, CountersAreIntegers
        <4> QED
          BY <2>0, <3>1, <4>3, <4>4, <4>5, RowEffects
      <3>2. setback'[k[1]] # setback[k[1]] + 1
        BY <2>0, <2>3
      <3>3. EnableFactor(p) /\ k[1] = FactorOf(p) => h[p].row.last >= factor[k[1]].last
        BY <2>0, <3>2, SetbackEffects
      <3> QED
        BY <2>0, <2>3, <3>1, <3>3
    <2>4. setback'[k[1]] = setback[k[1]] + 1 \/ setback'[k[1]] = setback[k[1]]
      BY <2>0, SetbackEffects
    <2> QED
      BY <2>0, <2>1, <2>2, <2>3, <2>4, AcceptEffects
  <1> QED
    BY <1>1 DEF Used

LEMMA StepRecoveryUsed ==
  ASSUME Core, RecoveryUsed, NEW p \in Proc, ProcStep(p)
  PROVE  RecoveryUsed'
  <1>1. ASSUME NEW r \in RecoveryCode
        PROVE  accepted'[r] = IF recovery'[r] = "used" THEN 1 ELSE 0
    <2>0. /\ r \in Code /\ accepted[r] = IF recovery[r] = "used" THEN 1 ELSE 0
          /\ recovery \in [RecoveryCode -> {"absent", "unused", "used"}]
      BY DEF Code, RecoveryUsed, Core, TypeOK
    <2>1. CASE MarkRecoveryCodeUsed(p)
      <3>1. /\ h[p].code \in RecoveryCode /\ recovery[h[p].code] = "unused"
            /\ recovery' = [recovery EXCEPT ![h[p].code] = "used"]
        BY <2>1 DEF MarkRecoveryCodeUsed, Core, Knows, OfRecovery
      <3>2. CASE r = h[p].code
        BY <2>0, <2>1, <3>1, <3>2, AcceptEffects DEF Accepts
      <3>3. CASE r # h[p].code
        BY <2>0, <2>1, <3>1, <3>3, AcceptEffects DEF Accepts
      <3> QED
        BY <3>2, <3>3
    <2>2. CASE ~MarkRecoveryCodeUsed(p)
      <3>1. recovery' = recovery
        BY <2>2 DEF ProcStep, CreateFactor, StoreSecret, SubmitEnrolment, StepUp,
           ReadFactor, VerifyFactorCode, EnableFactor, MarkCounterUsed,
           VerifySession, Refused, ListFactors, CheckCode, CounterOvertaken,
           ListRecoveryCodes, RecoveryCodeTaken, SetAssuranceLevel,
           Return, tables, history
      <3>2. MarkCounterUsed(p) => h[p].code # r
        BY SentinelAssumption DEF MarkCounterUsed, Core, Knows, OfTotp
      <3> QED
        BY <2>0, <2>2, <3>1, <3>2, AcceptEffects DEF Accepts
    <2> QED
      BY <2>1, <2>2
  <1> QED
    BY <1>1 DEF RecoveryUsed

LEMMA AcceptedStays ==
  ASSUME Core, NEW p \in Proc, ProcStep(p), NEW k \in Code
  PROVE  accepted[k] \in Nat /\ accepted'[k] \in Nat /\ accepted'[k] >= accepted[k]
  <1>1. accepted[k] \in Nat /\ accepted'[k] \in Nat
    BY StepTables DEF Core, TypeOK
  <1>2. accepted'[k] = accepted[k] \/ accepted'[k] = accepted[k] + 1
    BY AcceptEffects
  <1> QED
    BY <1>1, <1>2

-----------------------------------------------------------------------------
(* Step-up: good codes pass *)

\* A counter that a row of f holds is one a code was accepted of.
Shown(f, row) == row.last # NoCounter => accepted[<<f, row.last>>] > 0

\* So it is in the table, and in every copy of a row.
Counters ==
  /\ \A f \in Factor : factor[f] # None => Shown(f, factor[f])
  /\ \A p \in Proc : h[p].pc \in {"enrol_code", "enable", "check_code", "mark_counter"} =>
       Shown(FactorOf(p), h[p].row)

LEMMA ShownStays ==
  ASSUME Core, NEW p \in Proc, ProcStep(p), NEW f \in Factor, NEW row \in FactorRow,
         Shown(f, row)
  PROVE  row.last # NoCounter => accepted'[<<f, row.last>>] > 0
  <1> HAVE row.last # NoCounter
  <1>1. <<f, row.last>> \in Code
    BY CountersAreIntegers DEF Code, Totp
  <1>2. accepted[<<f, row.last>>] > 0
    BY DEF Shown
  <1> QED
    BY <1>1, <1>2, AcceptedStays

LEMMA StepCounters ==
  ASSUME Core, Counters, NEW p \in Proc, ProcStep(p)
  PROVE  Counters'
  <1>0. /\ h' \in [Proc -> Handler] /\ Moved(p)
        /\ \A q \in Proc : q # p => h'[q] = h[q]
    BY StepMoved
  <1>k. /\ factor \in [Factor -> FactorRow \cup {None}]
        /\ factor' \in [Factor -> FactorRow \cup {None}]
    BY StepStable DEF Core, TypeOK
  <1>1. ASSUME NEW f \in Factor, factor'[f] # None
        PROVE  factor'[f].last # NoCounter => accepted'[<<f, factor'[f].last>>] > 0
    <2>1. CASE factor[f] = None
      <3>1. \E g \in Factor : CreateFactor(p, g)
        <4>1. \/ factor' = factor
              \/ \E g \in Factor : CreateFactor(p, g)
              \/ EnableFactor(p) \/ MarkCounterUsed(p)
          BY DEF ProcStep, StoreSecret, SubmitEnrolment, StepUp, ReadFactor,
             VerifyFactorCode, VerifySession, Refused, ListFactors, CheckCode,
             CounterOvertaken, ListRecoveryCodes, MarkRecoveryCodeUsed,
             RecoveryCodeTaken, SetAssuranceLevel, Return, tables
        <4>2. EnableFactor(p) \/ MarkCounterUsed(p) =>
                FactorOf(p) \in Factor /\ factor[FactorOf(p)] # None
          BY HeldFactor DEF EnableFactor, MarkCounterUsed, Core, Knows, OfTotp
        <4> QED
          BY <1>1, <1>k, <2>1, <4>1, <4>2 DEF EnableFactor, MarkCounterUsed
      <3>2. factor'[f].last = NoCounter
        BY <1>1, <1>k, <2>1, <3>1 DEF CreateFactor
      <3> QED
        BY <3>2
    <2>2. CASE factor[f] # None /\ factor'[f] = factor[f]
      BY <1>k, <2>2, ShownStays DEF Counters
    <2>3. CASE /\ EnableFactor(p) /\ f = FactorOf(p)
               /\ factor'[f] = [h[p].row EXCEPT !.enabled = TRUE]
      <3>1. h[p].row \in FactorRow /\ Shown(f, h[p].row)
        BY <2>3 DEF EnableFactor, Core, Knows, Counters
      <3>2. factor'[f].last = h[p].row.last
        BY <2>3, <3>1, RowParts
      <3> QED
        BY <3>1, <3>2, ShownStays
    <2>4. CASE /\ MarkCounterUsed(p) /\ f = FactorOf(p)
               /\ factor'[f] = [factor[f] EXCEPT !.last = CounterOf(p)]
      <3>1. /\ h[p].code \in Totp /\ CounterOf(p) \in Counter
            /\ h[p].code = <<f, CounterOf(p)>> /\ h[p].code \in Code
            /\ factor[f] \in FactorRow
        BY <1>k, <2>4, CodeParts
        DEF MarkCounterUsed, Core, Knows, OfTotp, FactorOf, CounterOf, Code
      <3>2. factor'[f].last = CounterOf(p)
        BY <2>4, <3>1, RowParts
      <3>3. accepted'[h[p].code] = accepted[h[p].code] + 1 /\ accepted[h[p].code] \in Nat
        BY <2>4, <3>1, AcceptEffects DEF Accepts, Core, TypeOK
      <3> QED
        BY <3>1, <3>2, <3>3
    <2> QED
      BY <2>1, <2>2, <2>3, <2>4, RowEffects
  <1>2. ASSUME NEW q \in Proc,
               h'[q].pc \in {"enrol_code", "enable", "check_code", "mark_counter"}
        PROVE  h'[q].row.last # NoCounter => accepted'[<<FactorOf(q)', h'[q].row.last>>] > 0
    <2>1. CASE q # p
      <3>1. /\ h'[q] = h[q] /\ FactorOf(q)' = FactorOf(q) /\ FactorOf(q) \in Factor
            /\ h[q].row \in FactorRow /\ Shown(FactorOf(q), h[q].row)
        BY <1>0, <1>2, <2>1, HeldFactor DEF FactorOf, Core, Knows, Counters, OfTotp
      <3> QED
        BY <3>1, ShownStays
    <2>2. CASE q = p
      <3>1. \/ /\ ReadFactor(p) \/ ListFactors(p)
               /\ SameCode(p) /\ h'[p].row = factor[FactorOf(p)]
            \/ /\ VerifyFactorCode(p) \/ CheckCode(p)
               /\ SameCode(p) /\ h'[p].row = h[p].row
        BY <1>0, <1>2, <2>2 DEF Moved, Notable, Enrols
      <3>2. FactorOf(p)' = FactorOf(p) /\ FactorOf(p) \in Factor
        BY <3>1, HeldFactor
        DEF SameCode, FactorOf, ReadFactor, ListFactors, VerifyFactorCode, CheckCode, OfTotp
      <3>3. h'[p].row \in FactorRow
        BY <1>2, <2>2, ProcCore DEF Core, Knows
      <3>4. Shown(FactorOf(p), h'[p].row)
        <4>1. CASE h'[p].row = factor[FactorOf(p)]
          BY <3>2, <3>3, <4>1, SentinelAssumption DEF Counters
        <4>2. CASE (VerifyFactorCode(p) \/ CheckCode(p)) /\ h'[p].row = h[p].row
          BY <4>2 DEF Counters, VerifyFactorCode, CheckCode
        <4> QED
          BY <3>1, <4>1, <4>2
      <3> QED
        BY <2>2, <3>2, <3>3, <3>4, ShownStays
    <2> QED
      BY <2>1, <2>2
  <1> QED
    BY <1>1, <1>2 DEF Counters, Shown

\* A good code that a handler turns down is one of a period that was used.
Answers ==
  \A p \in Proc : h[p].pc = "bad_code" /\ h[p].ready /\ h[p].timely =>
    \E c \in Counter : c >= CounterOf(p) /\ accepted[<<FactorOf(p), c>>] > 0

\* A row that is not fresh for a code holds the counter of one that was accepted.
LEMMA StaleCode ==
  ASSUME NEW f \in Factor, NEW row \in FactorRow, NEW c \in Counter, Shown(f, row),
         ~Fresh(row, c)
  PROVE  row.last \in Counter /\ row.last >= c /\ accepted[<<f, row.last>>] > 0
  <1>1. row.last \in Int /\ c \in Int /\ row.last >= c
    BY CountersAreIntegers DEF Fresh
  <1>2. row.last # NoCounter
    BY <1>1, CountersAreIntegers
  <1> QED
    BY <1>1, <1>2, CountersAreIntegers DEF Shown

LEMMA StepAnswers ==
  ASSUME Core, Counters, Answers, NEW p \in Proc, ProcStep(p)
  PROVE  Answers'
  <1>0. /\ h' \in [Proc -> Handler] /\ Moved(p)
        /\ \A q \in Proc : q # p => h'[q] = h[q]
    BY StepMoved
  <1>1. ASSUME NEW q \in Proc, SameCode(q), h[q].pc \in OfTotp, NEW c \in Counter,
               c >= CounterOf(q), accepted[<<FactorOf(q), c>>] > 0
        PROVE  \E d \in Counter : d >= CounterOf(q)' /\ accepted'[<<FactorOf(q)', d>>] > 0
    <2>1. /\ FactorOf(q) \in Factor /\ FactorOf(q)' = FactorOf(q)
          /\ CounterOf(q)' = CounterOf(q)
      BY <1>1, HeldFactor DEF SameCode, FactorOf, CounterOf
    <2>2. <<FactorOf(q), c>> \in Code
      BY <2>1 DEF Code, Totp
    <2>3. accepted'[<<FactorOf(q), c>>] > 0
      BY <1>1, <2>2, AcceptedStays
    <2> QED
      BY <1>1, <2>1, <2>3
  <1>2. ASSUME h'[p].pc = "bad_code", h'[p].ready, h'[p].timely
        PROVE  \E d \in Counter : d >= CounterOf(p)' /\ accepted'[<<FactorOf(p)', d>>] > 0
    <2>1. \/ /\ CheckCode(p) /\ SameCode(p) /\ ~Fresh(h[p].row, CounterOf(p))
          \/ CounterOvertaken(p) /\ SameCode(p)
      BY <1>0, <1>2 DEF Moved, Notable, Enrols
    <2>2. /\ h[p].pc \in {"check_code", "mark_counter"} /\ h[p].pc \in OfTotp
          /\ SameCode(p)
      BY <2>1 DEF CheckCode, CounterOvertaken, OfTotp
    <2>3. /\ FactorOf(p) \in Factor /\ CounterOf(p) \in Counter
          /\ factor[FactorOf(p)] # None /\ h[p].row \in FactorRow
          /\ Shown(FactorOf(p), h[p].row)
      BY <2>2, HeldFactor DEF Core, Knows, Counters
    <2>4. factor[FactorOf(p)] \in FactorRow /\ Shown(FactorOf(p), factor[FactorOf(p)])
      BY <2>3 DEF Core, TypeOK, Counters
    <2>5. CASE ~Fresh(h[p].row, CounterOf(p))
      <3>1. /\ h[p].row.last \in Counter /\ h[p].row.last >= CounterOf(p)
            /\ accepted[<<FactorOf(p), h[p].row.last>>] > 0
        BY <2>3, <2>5, StaleCode
      <3> QED
        BY <1>1, <2>2, <3>1
    <2>6. CASE CounterOvertaken(p)
      <3>1. ~Fresh(factor[FactorOf(p)], CounterOf(p))
        BY <2>6 DEF CounterOvertaken
      <3>2. /\ factor[FactorOf(p)].last \in Counter
            /\ factor[FactorOf(p)].last >= CounterOf(p)
            /\ accepted[<<FactorOf(p), factor[FactorOf(p)].last>>] > 0
        BY <2>3, <2>4, <3>1, StaleCode
      <3> QED
        BY <1>1, <2>2, <3>2
    <2> QED
      BY <2>1, <2>5, <2>6
  <1>3. ASSUME NEW q \in Proc, q # p, h'[q].pc = "bad_code", h'[q].ready, h'[q].timely
        PROVE  \E d \in Counter : d >= CounterOf(q)' /\ accepted'[<<FactorOf(q)', d>>] > 0
    <2>1. h'[q] = h[q] /\ SameCode(q) /\ h[q].pc \in OfTotp
      BY <1>0, <1>3 DEF SameCode, OfTotp
    <2>2. PICK c \in Counter : c >= CounterOf(q) /\ accepted[<<FactorOf(q), c>>] > 0
      BY <1>3, <2>1 DEF Answers
    <2> QED
      BY <1>1, <2>1, <2>2
  <1> QED
    BY <1>2, <1>3 DEF Answers

-----------------------------------------------------------------------------
(* Step-up: a session at AAL2 has an acceptance of its own *)

\* The acceptance a handler raises its session with.
Held(p) == <<h[p].code, h[p].use>>

Raised ==
  /\ \A p \in Proc : h[p].pc = "elevate" =>
       h[p].use \in 1..accepted[h[p].code] /\ \A s \in Session : aal2[s] # Held(p)
  /\ \A p, q \in Proc : h[p].pc = "elevate" /\ h[q].pc = "elevate"
       /\ Held(p) = Held(q) => p = q
  /\ Aal2Justified

LEMMA StepRaised ==
  ASSUME Core, Raised, NEW p \in Proc, ProcStep(p)
  PROVE  Raised'
  <1>0. /\ h' \in [Proc -> Handler] /\ Moved(p)
        /\ \A q \in Proc : q # p => h'[q] = h[q]
    BY StepMoved
  <1>t. /\ aal2 \in [Session -> (Code \X Nat) \cup {None}]
        /\ \A q \in Proc : Knows(q) /\ h[q] \in Handler
        /\ \A k \in Code : /\ accepted[k] \in Nat /\ accepted'[k] \in Nat
                           /\ accepted'[k] >= accepted[k]
    BY AcceptedStays DEF Core, TypeOK
  <1>1. h'[p].pc = "elevate" =>
          Accepts(p) /\ SameCode(p) /\ h'[p].use = accepted[h[p].code] + 1
    BY <1>0 DEF Moved, Notable, Enrols, Accepts
  <1>2. CASE Accepts(p)
    <2> DEFINE k == h[p].code
               n == accepted[k] + 1
    <2>1. aal2' = aal2 /\ h[p].pc \in {"mark_counter", "mark_code"}
      BY <1>2 DEF Accepts, MarkCounterUsed, MarkRecoveryCodeUsed
    <2>2. k \in Code /\ accepted'[k] = n /\ accepted[k] \in Nat
      BY <1>2, <1>t, AcceptEffects
    <2>3. h'[p].pc = "elevate" => h'[p].code = k /\ h'[p].use = n /\ n \in 1..accepted'[k]
      BY <1>1, <2>2 DEF SameCode
    <2>4. \A s \in Session : aal2[s] # <<k, n>>
      <3> SUFFICES ASSUME NEW s \in Session, aal2[s] = <<k, n>> PROVE FALSE
        OBVIOUS
      <3>1. <<k, n>> \in Code \X Nat
        BY <2>2
      <3>2. aal2[s] # None
        BY <3>1, SentinelAssumption
      <3>3. aal2[s][2] \in 1..accepted[aal2[s][1]]
        BY <3>2 DEF Raised, Aal2Justified
      <3>4. aal2[s][1] = k /\ aal2[s][2] = n
        BY <3>1
      <3> QED
        BY <2>2, <3>3, <3>4
    <2>5. ASSUME NEW q \in Proc, h[q].pc = "elevate", Held(q) = <<k, n>> PROVE FALSE
      <3>1. n \in 1..accepted[k]
        BY <2>5 DEF Raised, Held
      <3> QED
        BY <2>2, <3>1
    <2>6. ASSUME NEW q \in Proc, h'[q].pc = "elevate"
          PROVE  /\ h'[q].use \in 1..accepted'[h'[q].code]
                 /\ \A s \in Session : aal2'[s] # <<h'[q].code, h'[q].use>>
      <3>1. CASE q = p
        BY <2>1, <2>3, <2>4, <2>6, <3>1
      <3>2. CASE q # p
        <4>1. h'[q] = h[q] /\ h[q].code \in Code /\ h[q].use \in Nat
          BY <1>0, <1>t, <2>6, <3>2 DEF Knows, Handler
        <4>2. /\ h[q].use \in 1..accepted[h[q].code]
              /\ \A s \in Session : aal2[s] # Held(q)
          BY <2>6, <4>1 DEF Raised
        <4>3. h[q].use \in 1..accepted'[h[q].code]
          BY <1>t, <4>1, <4>2
        <4> QED
          BY <2>1, <4>1, <4>2, <4>3 DEF Held
      <3> QED
        BY <3>1, <3>2
    <2>7. ASSUME NEW q \in Proc, NEW r \in Proc, q # r,
                 h'[q].pc = "elevate", h'[r].pc = "elevate",
                 <<h'[q].code, h'[q].use>> = <<h'[r].code, h'[r].use>>
          PROVE  FALSE
      <3>1. CASE q # p /\ r # p
        BY <1>0, <2>7, <3>1 DEF Raised, Held
      <3>2. CASE q = p
        BY <1>0, <2>3, <2>5, <2>7, <3>2 DEF Held
      <3>3. CASE r = p
        BY <1>0, <2>3, <2>5, <2>7, <3>3 DEF Held
      <3> QED
        BY <3>1, <3>2, <3>3
    <2>8. ASSUME NEW s \in Session, aal2[s] # None
          PROVE  /\ aal2[s][2] \in 1..accepted'[aal2[s][1]]
                 /\ \A t \in Session : aal2[t] = aal2[s] => t = s
      <3>1. aal2[s] \in Code \X Nat
        BY <1>t, <2>8
      <3>2. aal2[s][1] \in Code /\ aal2[s][2] \in Nat
        BY <3>1
      <3>3. /\ aal2[s][2] \in 1..accepted[aal2[s][1]]
            /\ \A t \in Session : aal2[t] = aal2[s] => t = s
        BY <2>8 DEF Raised, Aal2Justified
      <3>4. aal2[s][2] \in 1..accepted'[aal2[s][1]]
        BY <1>t, <3>2, <3>3
      <3> QED
        BY <3>3, <3>4
    <2>9. Aal2Justified'
      BY <2>1, <2>8 DEF Aal2Justified
    <2> QED
      BY <2>6, <2>7, <2>9 DEF Raised, Held
  <1>3. CASE SetAssuranceLevel(p)
    <2>1. /\ accepted' = accepted /\ h'[p].pc # "elevate"
          /\ h[p].pc = "elevate"
          /\ h[p].session \in Session /\ h[p].code \in Code
      BY <1>1, <1>3, <1>t DEF SetAssuranceLevel, Knows, Accepts, MarkCounterUsed,
         MarkRecoveryCodeUsed, history
    <2>2. /\ h[p].use \in 1..accepted[h[p].code]
          /\ \A s \in Session : aal2[s] # Held(p)
          /\ \A q \in Proc : q # p /\ h[q].pc = "elevate" => Held(q) # Held(p)
      BY <2>1 DEF Raised
    <2>3. \/ aal2' = aal2
          \/ aal2' = [aal2 EXCEPT ![h[p].session] = Held(p)]
      BY <1>3 DEF SetAssuranceLevel, Held
    <2>4. \A s \in Session : aal2'[s] = aal2[s] \/ (s = h[p].session /\ aal2'[s] = Held(p))
      BY <1>t, <2>1, <2>3
    <2>5. ASSUME NEW q \in Proc, h'[q].pc = "elevate"
          PROVE  /\ h'[q].use \in 1..accepted'[h'[q].code]
                 /\ \A s \in Session : aal2'[s] # <<h'[q].code, h'[q].use>>
      <3>1. q # p /\ h'[q] = h[q]
        BY <1>0, <2>1, <2>5
      <3>2. Held(q) = <<h'[q].code, h'[q].use>>
        BY <3>1 DEF Held
      <3> QED
        BY <2>1, <2>2, <2>4, <2>5, <3>1, <3>2 DEF Raised
    <2>6. \A q, r \in Proc : h'[q].pc = "elevate" /\ h'[r].pc = "elevate"
            /\ <<h'[q].code, h'[q].use>> = <<h'[r].code, h'[r].use>> => q = r
      BY <1>0, <2>1 DEF Raised, Held
    <2>7. ASSUME NEW s \in Session, aal2'[s] # None
          PROVE  /\ aal2'[s][2] \in 1..accepted[aal2'[s][1]]
                 /\ \A t \in Session : aal2'[t] = aal2'[s] => t = s
      <3>1. CASE aal2'[s] = aal2[s]
        <4>1. /\ aal2[s][2] \in 1..accepted[aal2[s][1]]
              /\ \A t \in Session : aal2[t] = aal2[s] => t = s
          BY <2>7, <3>1 DEF Raised, Aal2Justified
        <4> QED
          BY <2>2, <2>4, <3>1, <4>1
      <3>2. CASE s = h[p].session /\ aal2'[s] = Held(p)
        <4>1. aal2'[s][1] = h[p].code /\ aal2'[s][2] = h[p].use
          BY <3>2 DEF Held
        <4> QED
          BY <2>2, <2>4, <3>2, <4>1
      <3> QED
        BY <2>4, <3>1, <3>2
    <2>8. Aal2Justified'
      BY <2>1, <2>7 DEF Aal2Justified
    <2> QED
      BY <2>5, <2>6, <2>8 DEF Raised, Held
  <1>4. CASE ~Accepts(p) /\ ~SetAssuranceLevel(p)
    <2>1. aal2' = aal2
      BY <1>4 DEF Accepts, ProcStep, CreateFactor, StoreSecret, SubmitEnrolment, StepUp,
           ReadFactor, VerifyFactorCode, EnableFactor,
           VerifySession, Refused, ListFactors, CheckCode, CounterOvertaken,
           ListRecoveryCodes, RecoveryCodeTaken, Return, tables
    <2>2. accepted' = accepted /\ h'[p].pc # "elevate"
      BY <1>1, <1>4, AcceptEffects
    <2> QED
      BY <1>0, <2>1, <2>2 DEF Raised, Aal2Justified, Held
  <1> QED
    BY <1>2, <1>3, <1>4

-----------------------------------------------------------------------------
(* The theorems *)

\* However many handlers enrol and step up at a time, a recovery code is accepted
\* at most once.
THEOREM RecoveryCodeOnce == Spec => [](\A r \in RecoveryCode : accepted[r] <= 1)
  <1>1. Init => Core /\ RecoveryUsed
    BY InitCore DEF Init, RecoveryUsed, Code
  <1>2. Core /\ RecoveryUsed /\ [Next]_vars => Core' /\ RecoveryUsed'
    <2>1. ASSUME Core, RecoveryUsed, Outside \/ UNCHANGED vars PROVE RecoveryUsed'
      <3>1. accepted' = accepted
        BY <2>1, OutsideCore DEF history
      <3>2. \A r \in RecoveryCode : (recovery'[r] = "used") <=> (recovery[r] = "used")
        <4>1. recovery \in [RecoveryCode -> {"absent", "unused", "used"}]
          BY <2>1 DEF Core, TypeOK
        <4>2. recovery' = recovery \/ \E r \in RecoveryCode : CreateRecoveryCode(r)
          BY <2>1 DEF Outside, RevokeSession, Tick, vars, tables, history
        <4> QED
          BY <4>1, <4>2 DEF CreateRecoveryCode
      <3> QED
        BY <2>1, <3>1, <3>2 DEF RecoveryUsed
    <2> QED
      BY <2>1, StepRecoveryUsed, CoreStep, NextSplit
  <1>3. RecoveryUsed => \A r \in RecoveryCode : accepted[r] <= 1
    BY DEF RecoveryUsed
  <1> QED
    BY <1>1, <1>2, <1>3, PTL DEF Spec

\* The inductive invariant, with any number of enrolments and step-ups at a time.
StepUps == Core /\ Counters /\ Used /\ RecoveryUsed /\ Answers /\ Raised

LEMMA InitStepUps == Init => StepUps
  <1> SUFFICES ASSUME Init PROVE StepUps
    OBVIOUS
  <1>1. \A p \in Proc : h[p].pc = "idle"
    BY DEF Init, Idle
  <1>2. Counters /\ Answers
    BY <1>1 DEF Init, Counters, Answers
  <1>3. \A k \in Code : accepted[k] = 0
    BY DEF Init
  <1>4. \A k \in Totp : accepted[k] = 0 /\ setback[k[1]] = 0
    BY <1>3, CodeParts DEF Init, Code
  <1>5. Used /\ RecoveryUsed
    BY <1>3, <1>4 DEF Init, Used, RecoveryUsed, Code
  <1>6. Raised
    BY <1>1 DEF Init, Raised, Aal2Justified
  <1> QED
    BY <1>2, <1>5, <1>6, InitCore DEF StepUps

LEMMA StepStepUps ==
  ASSUME StepUps, [Next]_vars
  PROVE  StepUps'
  <1>1. CASE \E p \in Proc : ProcStep(p)
    BY <1>1, ProcCore, StepCounters, StepUsed, StepRecoveryUsed, StepAnswers, StepRaised
    DEF StepUps
  <1>2. CASE Outside \/ UNCHANGED vars
    <2>1. Core' /\ UNCHANGED <<factor, vault, aal2, history, h>>
      BY <1>2, OutsideCore DEF StepUps
    <2>2. Counters' /\ Used' /\ Answers' /\ Raised'
      BY <2>1 DEF StepUps, Counters, Shown, Used, Answers, Raised, Held, Aal2Justified,
         FactorOf, CounterOf, history
    <2>3. \A r \in RecoveryCode : (recovery'[r] = "used") <=> (recovery[r] = "used")
      <3>1. recovery \in [RecoveryCode -> {"absent", "unused", "used"}]
        BY DEF StepUps, Core, TypeOK
      <3>2. recovery' = recovery \/ \E r \in RecoveryCode : CreateRecoveryCode(r)
        BY <1>2 DEF Outside, RevokeSession, Tick, vars, tables
      <3> QED
        BY <3>1, <3>2 DEF CreateRecoveryCode
    <2>4. RecoveryUsed'
      BY <2>1, <2>3 DEF StepUps, RecoveryUsed, history
    <2> QED
      BY <2>1, <2>2, <2>4 DEF StepUps
  <1> QED
    BY <1>1, <1>2, NextSplit

LEMMA StepUpsInvariant == Spec => []StepUps
  <1>1. StepUps /\ [Next]_vars => StepUps'
    BY StepStepUps
  <1> QED
    BY <1>1, InitStepUps, PTL DEF Spec

\* However many handlers enrol and step up at a time, a recovery code is accepted at
\* most once, and a TOTP code at most once more than an enrolment put the counter of
\* its factor back (OneStepUpPerCode).
THEOREM CodesAreUsedOnce == Spec => []OneStepUpPerCode
  <1>1. StepUps => OneStepUpPerCode
    <2> SUFFICES ASSUME StepUps PROVE OneStepUpPerCode
      OBVIOUS
    <2>1. \A r \in RecoveryCode : accepted[r] <= 1
      BY DEF StepUps, RecoveryUsed
    <2> QED
      BY <2>1 DEF StepUps, OneStepUpPerCode, Used
  <1> QED
    BY <1>1, StepUpsInvariant, PTL

\* In every order of enrolments, presentations and ticks, a code that is turned down
\* was not good (GoodCodeAccepted).
THEOREM GoodCodesPass == Spec => []GoodCodeAccepted
  <1>1. StepUps => GoodCodeAccepted
    BY DEF StepUps, GoodCodeAccepted, Answers
  <1> QED
    BY <1>1, StepUpsInvariant, PTL

\* In every order of enrolments, step-ups and revocations, a session at AAL2 was raised
\* by an acceptance of a code, and by one of its own (Aal2Justified).
THEOREM UpgradesAreJustified == Spec => []Aal2Justified
  <1>1. StepUps => Aal2Justified
    BY DEF StepUps, Raised
  <1> QED
    BY <1>1, StepUpsInvariant, PTL

-----------------------------------------------------------------------------
(* Memory: what the locked calls and the event loop keep *)

MemoryCalls == Memory!SessionCall \cup {"cleanup_flows", "consume", "create_user"}
MemoryHandler ==
  [call : MemoryCalls \cup {None}, pc : {"idle", "read", "write"},
   key : Several \cup Flow \cup Email \cup {None},
   copy : [Several -> Memory!Row] \cup {<<>>}, todo : SUBSET Several, late : BOOLEAN]

\* What a row never loses.
Covers(new, old) == (old.revoked => new.revoked) /\ (old.aal2 => new.aal2)

\* What a call knows at each step.  On an event loop the rows it copied are still those
\* of the table, or have been raised by it.
MemoryKnows(t) ==
  /\ mh[t].pc # "idle" /\ mh[t].call \in Memory!Locked => mlock = t
  /\ mh[t].pc # "idle" /\ mh[t].call \in {"touch", "raise", "update", "revoke"} =>
       mh[t].key \in Several
  /\ mh[t].pc # "idle" /\ mh[t].call = "consume" => mh[t].key \in Flow
  /\ mh[t].pc # "idle" /\ mh[t].call = "create_user" => mh[t].key \in Email
  /\ mh[t].pc = "read" /\ mh[t].call = "update" => mh[t].copy \in [Several -> Memory!Row]
  /\ mh[t].pc = "write" /\ mh[t].call \in Memory!SessionCall =>
       /\ mh[t].copy \in [Several -> Memory!Row]
       /\ mloop => \A s \in mh[t].todo : Covers(mh[t].copy[s], msessions[s])
  /\ mh[t].pc = "write" /\ mh[t].call = "consume" => mhanded[mh[t].key] = 0
  /\ mloop /\ mh[t].pc = "write" /\ mh[t].call = "create_user" => mh[t].key \notin mbyEmail

MemoryTables ==
  /\ msessions \in [Several -> Memory!Row]
  /\ mflows \in [Flow -> {"open", "consumed", None}]
  /\ mhanded \in [Flow -> 0 .. 1]
  /\ \A f \in Flow : mflows[f] = "open" => mhanded[f] = 0
  /\ mloop => /\ musers \in [Email -> 0 .. 1]
              /\ \A e \in Email : e \notin mbyEmail => musers[e] = 0

MemoryCore ==
  /\ mloop \in BOOLEAN /\ mexpired \in BOOLEAN
  /\ mh \in [Proc -> MemoryHandler]
  /\ MemoryTables
  /\ \A t \in Proc : MemoryKnows(t)
  /\ mloop => \A t, u \in Proc : mh[t].pc = "idle" \/ mh[u].pc = "idle" \/ t = u

LEMMA MemoryIdle == Memory!Idle \in MemoryHandler /\ Memory!Idle.pc = "idle"
  BY DEF Memory!Idle, MemoryHandler

LEMMA MemoryInit == Memory!Init => MemoryCore
  <1> SUFFICES ASSUME Memory!Init PROVE MemoryCore
    OBVIOUS
  <1>1. MemoryTables
    BY DEF Memory!Init, MemoryTables, Memory!Row
  <1>2. \A t \in Proc : mh[t] = Memory!Idle
    BY DEF Memory!Init
  <1>3. mh \in [Proc -> MemoryHandler]
    BY MemoryIdle DEF Memory!Init
  <1>4. \A t \in Proc : MemoryKnows(t)
    BY <1>2, MemoryIdle DEF MemoryKnows
  <1> QED
    BY <1>1, <1>2, <1>3, <1>4, MemoryIdle DEF Memory!Init, MemoryCore

\* What a call does to its own locals and to what the others know of the tables.
MemoryStep(t) ==
  /\ mh'[t] \in MemoryHandler /\ mh' = [mh EXCEPT ![t] = mh'[t]]
  /\ UNCHANGED <<mloop, mexpired>>
  /\ MemoryTables' /\ MemoryKnows(t)'
  /\ \A u \in Proc \ {t} : mlock = u => mlock' = u
  /\ \A f \in Flow : mhanded'[f] = mhanded[f] \/ mlock = t
  /\ mloop => \A u \in Proc \ {t} : mh[u].pc = "idle"
  /\ mloop => \A s \in Several : Covers(msessions'[s], msessions[s])

LEMMA MemoryFrame ==
  ASSUME MemoryCore, NEW t \in Proc, MemoryStep(t)
  PROVE  MemoryCore'
  <1>1. ASSUME NEW u \in Proc, u # t PROVE MemoryKnows(u)'
    <2>1. mh'[u] = mh[u] /\ MemoryKnows(u) /\ mh[u] \in MemoryHandler /\ mloop' = mloop
      BY <1>1 DEF MemoryStep, MemoryCore
    <2>2. mloop => mh[u].pc = "idle"
      BY <1>1 DEF MemoryStep
    <2>3. mh[u].pc # "idle" /\ mh[u].call \in Memory!Locked => mlock' = u
      BY <1>1, <2>1 DEF MemoryStep, MemoryKnows
    <2>4. mh[u].pc = "write" /\ mh[u].call = "consume" => mhanded'[mh[u].key] = 0
      BY <1>1, <2>1 DEF MemoryStep, MemoryKnows, Memory!Locked
    <2> QED
      BY <2>1, <2>2, <2>3, <2>4 DEF MemoryKnows
  <1>2. mloop' => \A u, v \in Proc : mh'[u].pc = "idle" \/ mh'[v].pc = "idle" \/ u = v
    BY DEF MemoryCore, MemoryStep
  <1> QED
    BY <1>1, <1>2 DEF MemoryCore, MemoryStep

\* A call that ends.
LEMMA MemoryReturns ==
  ASSUME MemoryCore, NEW t \in Proc, Memory!Return(t), Memory!MayRun(t),
         UNCHANGED <<mloop, mexpired>>, MemoryTables',
         \A f \in Flow : mhanded'[f] = mhanded[f] \/ mlock = t,
         mloop => \A s \in Several : Covers(msessions'[s], msessions[s])
  PROVE  MemoryStep(t)
  <1>1. mh' = [mh EXCEPT ![t] = Memory!Idle]
    BY DEF Memory!Return, Memory!Local
  <1>2. mh'[t] = Memory!Idle
    BY <1>1 DEF MemoryCore
  <1>3. MemoryKnows(t)'
    BY <1>2, MemoryIdle DEF MemoryKnows
  <1>4. \A u \in Proc \ {t} : mlock = u => mlock' = u
    BY DEF Memory!Return, Memory!Release
  <1> QED
    BY <1>1, <1>2, <1>3, <1>4, MemoryIdle DEF MemoryStep, Memory!MayRun

\* Nothing but the locals and the lock changes.
LEMMA MemoryQuiet ==
  ASSUME MemoryCore, UNCHANGED <<mloop, mexpired, Memory!tables, mhanded>>
  PROVE  /\ MemoryTables' /\ UNCHANGED <<mloop, mexpired>>
         /\ \A f \in Flow : mhanded'[f] = mhanded[f]
         /\ \A s \in Several : Covers(msessions'[s], msessions[s])
  BY DEF MemoryCore, MemoryTables, Memory!tables, Covers

LEMMA MemoryCallStep ==
  ASSUME MemoryCore, NEW t \in Proc, NEW call \in MemoryCalls \ {"cleanup_flows"},
         NEW key \in Several \cup Flow \cup Email \cup {None}, Memory!Call(t, call, key),
         call \in {"touch", "raise", "update", "revoke"} => key \in Several,
         call = "consume" => key \in Flow, call = "create_user" => key \in Email
  PROVE  MemoryStep(t)
  <1>1. PICK copy \in IF call = "update" THEN [Several -> Memory!Row] ELSE {<<>>} :
          mh' = [mh EXCEPT ![t] = [Memory!Idle EXCEPT !.call = call, !.pc = "read", !.key = key,
                   !.copy = copy, !.late = mexpired /\ call \in {"cleanup", "consume"}]]
    BY DEF Memory!Call, Memory!Local
  <1>2. mh'[t] = [call |-> call, pc |-> "read", key |-> key, copy |-> copy, todo |-> {},
                  late |-> mexpired /\ call \in {"cleanup", "consume"}]
    BY <1>1 DEF MemoryCore, Memory!Idle
  <1>3. copy \in [Several -> Memory!Row] \cup {<<>>} /\ (call = "update" => copy \in [Several -> Memory!Row])
    OBVIOUS
  <1>4. (mexpired /\ call \in {"cleanup", "consume"}) \in BOOLEAN
    OBVIOUS
  <1>5. mh'[t] \in MemoryHandler /\ mh' = [mh EXCEPT ![t] = mh'[t]]
    <2>1. mh'[t] \in MemoryHandler
      BY <1>2, <1>3, <1>4 DEF MemoryHandler
    <2>2. mh' = [mh EXCEPT ![t] = mh'[t]]
      BY <1>1, <1>2 DEF MemoryCore, Memory!Idle
    <2> QED
      BY <2>1, <2>2
  <1>6. MemoryKnows(t)'
    BY <1>2, <1>3 DEF MemoryKnows, Memory!Call, Memory!Locked, Memory!SessionCall
  <1>7. \A u \in Proc \ {t} : mlock = u => mlock' = u
    BY InstanceAssumption DEF Memory!Call, Memory!SentinelAssumption
  <1> QED
    BY <1>5, <1>6, <1>7, MemoryQuiet DEF MemoryStep, Memory!Call, Memory!MayRun

\* The row a call writes loses nothing that the copy has.
LEMMA NewRowCovers ==
  ASSUME NEW t \in Proc, NEW s \in Several, mh[t].copy \in [Several -> Memory!Row]
  PROVE  Memory!NewRow(t, s) \in Memory!Row /\ Covers(Memory!NewRow(t, s), mh[t].copy[s])
  <1>1. mh[t].copy[s] \in Memory!Row
    OBVIOUS
  <1>2. \A r \in Memory!Row : /\ [r EXCEPT !.revoked = TRUE] \in Memory!Row
                              /\ [r EXCEPT !.aal2 = TRUE] \in Memory!Row
                              /\ Covers([r EXCEPT !.revoked = TRUE], r)
                              /\ Covers([r EXCEPT !.aal2 = TRUE], r) /\ Covers(r, r)
    BY DEF Memory!Row, Covers
  <1> QED
    BY <1>1, <1>2 DEF Memory!NewRow

LEMMA MeantSessions ==
  ASSUME MemoryCore, NEW t \in Proc, mh[t].pc # "idle", mh[t].call \in Memory!SessionCall
  PROVE  Memory!Meant(t) \subseteq Several
  BY DEF MemoryCore, MemoryKnows, Memory!Meant, Memory!SessionCall

\* A call has written its sessions.
LEMMA MemoryWritten ==
  ASSUME MemoryCore, NEW t \in Proc, Memory!Written(t), Memory!MayRun(t),
         mh[t].call \in Memory!SessionCall,
         UNCHANGED <<mloop, mexpired>>, MemoryTables',
         \A f \in Flow : mhanded'[f] = mhanded[f] \/ mlock = t,
         mloop => \A s \in Several : Covers(msessions'[s], msessions[s])
  PROVE  MemoryStep(t)
  <1>1. CASE mh[t].call = "cleanup" /\ mh[t].late
    <2>1. mh' = [mh EXCEPT ![t] = [Memory!Idle EXCEPT !.call = "cleanup_flows", !.pc = "read"]]
          /\ UNCHANGED mlock
      BY <1>1 DEF Memory!Written, Memory!Local
    <2>2. mh'[t] = [Memory!Idle EXCEPT !.call = "cleanup_flows", !.pc = "read"]
      BY <2>1 DEF MemoryCore
    <2>3. mh'[t] \in MemoryHandler /\ mh'[t].pc = "read" /\ mh'[t].call = "cleanup_flows"
      BY <2>2 DEF Memory!Idle, MemoryHandler, MemoryCalls
    <2>4. MemoryKnows(t)'
      BY <2>3 DEF MemoryKnows, Memory!Locked, Memory!SessionCall
    <2> QED
      BY <2>1, <2>2, <2>3, <2>4 DEF MemoryStep, Memory!MayRun
  <1> QED
    BY <1>1, MemoryReturns DEF Memory!Written

LEMMA MemoryReads ==
  ASSUME MemoryCore, NEW t \in Proc, Memory!ReadSessions(t), Memory!MayRun(t)
  PROVE  MemoryStep(t)
  <1>1. CASE Memory!Meant(t) = {}
    BY <1>1, MemoryQuiet, MemoryWritten DEF Memory!ReadSessions
  <1>2. CASE Memory!Meant(t) # {}
    <2> DEFINE new == IF mh[t].call = "update"
                      THEN [s \in Several |-> Memory!Merge(msessions[s], mh[t].copy[s])]
                      ELSE msessions
    <2>1. mh' = [mh EXCEPT ![t] = [mh[t] EXCEPT !.pc = "write", !.todo = Memory!Meant(t), !.copy = new]]
          /\ UNCHANGED mlock
      BY <1>2 DEF Memory!ReadSessions, Memory!Local
    <2>2. new \in [Several -> Memory!Row] /\ \A s \in Several : Covers(new[s], msessions[s])
      <3>1. CASE mh[t].call = "update"
        <4>1. mh[t].copy \in [Several -> Memory!Row] /\ msessions \in [Several -> Memory!Row]
          BY <3>1 DEF Memory!ReadSessions, MemoryCore, MemoryKnows, MemoryTables
        <4>2. \A o, r \in Memory!Row : Memory!Merge(o, r) \in Memory!Row /\ Covers(Memory!Merge(o, r), o)
          BY DEF Memory!Row, Memory!Merge, Covers
        <4> QED
          BY <3>1, <4>1, <4>2
      <3>2. CASE mh[t].call # "update"
        BY <3>2 DEF MemoryCore, MemoryTables, Covers
      <3> QED
        BY <3>1, <3>2
    <2>3. Memory!Meant(t) \subseteq Several
      BY MeantSessions DEF Memory!ReadSessions
    <2> HIDE DEF new
    <2>4. mh[t] \in MemoryHandler /\ mh[t].pc = "read" /\ mh[t].call \in Memory!SessionCall
      BY DEF MemoryCore, Memory!ReadSessions
    <2>5. /\ mh'[t] \in MemoryHandler /\ mh' = [mh EXCEPT ![t] = mh'[t]]
          /\ mh'[t].pc = "write" /\ mh'[t].todo = Memory!Meant(t) /\ mh'[t].copy = new
          /\ mh'[t].key = mh[t].key /\ mh'[t].call = mh[t].call
      BY <2>1, <2>2, <2>3, <2>4 DEF MemoryCore, MemoryHandler
    <2>6. UNCHANGED <<mloop, mexpired, Memory!tables, mhanded, mlock>>
      BY <2>1 DEF Memory!ReadSessions
    <2>7. MemoryKnows(t)'
      BY <2>2, <2>3, <2>4, <2>5, <2>6
      DEF MemoryCore, MemoryKnows, Memory!SessionCall, Memory!Locked, Memory!tables
    <2> QED
      BY <2>5, <2>6, <2>7, MemoryQuiet DEF MemoryStep, Memory!MayRun
  <1> QED
    BY <1>1, <1>2

LEMMA MemoryWrites ==
  ASSUME MemoryCore, NEW t \in Proc, Memory!WriteSession(t), Memory!MayRun(t)
  PROVE  MemoryStep(t)
  <1>1. PICK s \in mh[t].todo :
          /\ msessions' = [msessions EXCEPT ![s] = Memory!NewRow(t, s)]
          /\ IF mh[t].todo # {s}
             THEN Memory!Local(t, [mh[t] EXCEPT !.todo = @ \ {s}]) /\ UNCHANGED mlock
             ELSE Memory!Written(t)
    BY DEF Memory!WriteSession
  <1>2. /\ mh[t] \in MemoryHandler /\ mh[t].pc = "write" /\ mh[t].call \in Memory!SessionCall
        /\ mh[t].copy \in [Several -> Memory!Row] /\ s \in Several
        /\ mloop => \A r \in mh[t].todo : Covers(mh[t].copy[r], msessions[r])
    BY <1>1 DEF Memory!WriteSession, MemoryCore, MemoryKnows, MemoryHandler
  <1>3. UNCHANGED <<mloop, mexpired, mflows, mbyHash, musers, mbyEmail, mhanded>>
    BY DEF Memory!WriteSession
  <1>4. Memory!NewRow(t, s) \in Memory!Row /\ Covers(Memory!NewRow(t, s), mh[t].copy[s])
    BY <1>2, NewRowCovers
  <1>5. MemoryTables'
    BY <1>1, <1>2, <1>3, <1>4 DEF MemoryCore, MemoryTables
  <1>6. mloop => \A r \in Several : Covers(msessions'[r], msessions[r])
    <2>1. msessions \in [Several -> Memory!Row]
      BY DEF MemoryCore, MemoryTables
    <2> QED
      BY <1>1, <1>2, <1>4, <2>1 DEF Covers
  <1>7. CASE mh[t].todo # {s}
    <2>1. mh' = [mh EXCEPT ![t] = [mh[t] EXCEPT !.todo = @ \ {s}]] /\ UNCHANGED mlock
      BY <1>1, <1>7 DEF Memory!Local
    <2>2. /\ mh'[t] \in MemoryHandler /\ mh' = [mh EXCEPT ![t] = mh'[t]]
          /\ mh'[t].pc = "write" /\ mh'[t].todo = mh[t].todo \ {s} /\ mh'[t].copy = mh[t].copy
          /\ mh'[t].key = mh[t].key /\ mh'[t].call = mh[t].call
      BY <2>1, <1>2 DEF MemoryCore, MemoryHandler
    <2>3. \A r \in Several \ {s} : msessions'[r] = msessions[r]
      BY <1>1 DEF MemoryCore, MemoryTables
    <2>4. mh[t].todo \subseteq Several
      BY <1>2 DEF MemoryHandler
    <2>5. MemoryKnows(t)'
      BY <1>2, <1>3, <2>1, <2>2, <2>3, <2>4
      DEF MemoryCore, MemoryKnows, Memory!SessionCall, Memory!Locked
    <2> QED
      BY <1>3, <1>5, <1>6, <2>1, <2>2, <2>5 DEF MemoryStep, Memory!MayRun
  <1>8. CASE mh[t].todo = {s}
    BY <1>1, <1>2, <1>3, <1>5, <1>6, <1>8, MemoryWritten
  <1> QED
    BY <1>7, <1>8

\* Under the lock a flow that is open has not been handed out.
LEMMA MemoryFlows ==
  ASSUME MemoryCore, NEW t \in Proc, Memory!MayRun(t),
         Memory!PopFlows(t) \/ Memory!PopIndex(t) \/ Memory!FindFlow(t) \/ Memory!ConsumeFlow(t)
  PROVE  MemoryStep(t)
  <1>c. \A s \in Several : UNCHANGED msessions => Covers(msessions'[s], msessions[s])
    BY DEF Covers
  <1>1. CASE Memory!PopFlows(t)
    <2>1. mh' = [mh EXCEPT ![t] = [mh[t] EXCEPT !.pc = "write"]] /\ mh[t].call = "cleanup_flows"
      BY <1>1 DEF Memory!PopFlows, Memory!Local
    <2>2. /\ mh'[t] \in MemoryHandler /\ mh' = [mh EXCEPT ![t] = mh'[t]]
          /\ mh'[t].call = "cleanup_flows" /\ mh'[t].pc = "write"
      BY <2>1 DEF MemoryCore, MemoryHandler
    <2>3. MemoryTables'
      BY <1>1, InstanceAssumption
      DEF Memory!PopFlows, MemoryCore, MemoryTables, Memory!SentinelAssumption
    <2>4. MemoryKnows(t)'
      BY <2>2 DEF MemoryKnows, Memory!Locked, Memory!SessionCall
    <2> QED
      BY <1>1, <1>c, <2>2, <2>3, <2>4 DEF Memory!PopFlows, MemoryStep, Memory!MayRun
  <1>2. CASE Memory!PopIndex(t)
    <2>1. MemoryTables'
      BY <1>2 DEF Memory!PopIndex, MemoryCore, MemoryTables
    <2> QED
      BY <1>2, <1>c, <2>1, MemoryReturns DEF Memory!PopIndex
  <1>3. CASE Memory!FindFlow(t)
    <2>1. CASE mh[t].key \in mbyHash /\ mflows[mh[t].key] = "open" /\ ~mh[t].late
      <3>1. mh' = [mh EXCEPT ![t] = [mh[t] EXCEPT !.pc = "write"]] /\ UNCHANGED mlock
            /\ mh[t].call = "consume" /\ mh[t].pc = "read"
        BY <1>3, <2>1 DEF Memory!FindFlow, Memory!Local
      <3>2. /\ mh'[t] \in MemoryHandler /\ mh' = [mh EXCEPT ![t] = mh'[t]]
            /\ mh'[t].call = "consume" /\ mh'[t].key = mh[t].key
        BY <3>1 DEF MemoryCore, MemoryHandler
      <3>3. mh[t].key \in Flow /\ mlock = t /\ mhanded[mh[t].key] = 0
        BY <2>1, <3>1 DEF MemoryCore, MemoryTables, MemoryKnows, Memory!Locked
      <3>4. UNCHANGED <<mloop, mexpired, Memory!tables, mhanded>>
        BY <1>3 DEF Memory!FindFlow
      <3>5. MemoryKnows(t)'
        BY <3>1, <3>2, <3>3, <3>4 DEF MemoryKnows, Memory!SessionCall
      <3> QED
        BY <3>1, <3>2, <3>4, <3>5, MemoryQuiet DEF MemoryStep, Memory!MayRun
    <2> QED
      BY <1>3, <2>1, MemoryQuiet, MemoryReturns DEF Memory!FindFlow
  <1>4. CASE Memory!ConsumeFlow(t)
    <2>1. mh[t].key \in Flow /\ mlock = t /\ mhanded[mh[t].key] = 0
      BY <1>4 DEF MemoryCore, MemoryKnows, Memory!Locked, Memory!ConsumeFlow
    <2>2. MemoryTables'
      BY <1>4, <2>1 DEF Memory!ConsumeFlow, MemoryCore, MemoryTables
    <2> QED
      BY <1>4, <1>c, <2>1, <2>2, MemoryReturns DEF Memory!ConsumeFlow
  <1> QED
    BY <1>1, <1>2, <1>3, <1>4

\* On an event loop nobody else inserts an address between the look-up and the insert.
LEMMA MemoryUsers ==
  ASSUME MemoryCore, NEW t \in Proc, Memory!MayRun(t),
         Memory!FindEmail(t) \/ Memory!InsertUser(t)
  PROVE  MemoryStep(t)
  <1>c. \A s \in Several : UNCHANGED msessions => Covers(msessions'[s], msessions[s])
    BY DEF Covers
  <1>1. CASE Memory!FindEmail(t)
    <2>1. CASE mh[t].key \notin mbyEmail
      <3>1. mh' = [mh EXCEPT ![t] = [mh[t] EXCEPT !.pc = "write"]] /\ UNCHANGED mlock
            /\ mh[t].call = "create_user" /\ mh[t].pc = "read"
        BY <1>1, <2>1 DEF Memory!FindEmail, Memory!Local
      <3>2. /\ mh'[t] \in MemoryHandler /\ mh' = [mh EXCEPT ![t] = mh'[t]]
            /\ mh'[t].call = "create_user" /\ mh'[t].key = mh[t].key
        BY <3>1 DEF MemoryCore, MemoryHandler
      <3>3. mh[t].key \in Email
        BY <3>1 DEF MemoryCore, MemoryKnows
      <3>4. UNCHANGED <<mloop, mexpired, Memory!tables, mhanded>>
        BY <1>1 DEF Memory!FindEmail
      <3>5. MemoryKnows(t)'
        BY <2>1, <3>1, <3>2, <3>3, <3>4
        DEF MemoryKnows, Memory!SessionCall, Memory!Locked, Memory!tables
      <3> QED
        BY <3>1, <3>2, <3>4, <3>5, MemoryQuiet DEF MemoryStep, Memory!MayRun
    <2> QED
      BY <1>1, <2>1, MemoryQuiet, MemoryReturns DEF Memory!FindEmail
  <1>2. CASE Memory!InsertUser(t)
    <2>1. mh[t].key \in Email /\ (mloop => mh[t].key \notin mbyEmail)
      BY <1>2 DEF MemoryCore, MemoryKnows, Memory!InsertUser
    <2>2. mloop => /\ musers' \in [Email -> 0 .. 1]
                   /\ \A e \in Email : e \notin mbyEmail' => musers'[e] = 0
      BY <1>2, <2>1 DEF Memory!InsertUser, MemoryCore, MemoryTables
    <2>3. MemoryTables'
      BY <1>2, <2>2 DEF Memory!InsertUser, MemoryCore, MemoryTables
    <2> QED
      BY <1>2, <1>c, <2>3, MemoryReturns DEF Memory!InsertUser
  <1> QED
    BY <1>1, <1>2

LEMMA MemoryActs ==
  ASSUME MemoryCore, Memory!Next
  PROVE  (\E t \in Proc : MemoryStep(t)) \/ Memory!Expire
  <1>1. \A t \in Proc : Memory!Step(t) => MemoryStep(t)
    BY MemoryReads, MemoryWrites, MemoryFlows, MemoryUsers DEF Memory!Step
  <1>2. ASSUME NEW t \in Proc, NEW c \in {"touch", "raise", "update", "revoke"},
               NEW s \in Several, Memory!Call(t, c, s)
        PROVE  MemoryStep(t)
    BY <1>2, MemoryCallStep DEF MemoryCalls, Memory!SessionCall
  <1>3. ASSUME NEW t \in Proc, NEW s \in Several \cup {None}, Memory!Call(t, "revoke_all", s)
        PROVE  MemoryStep(t)
    BY <1>3, MemoryCallStep DEF MemoryCalls, Memory!SessionCall
  <1>4. ASSUME NEW t \in Proc, Memory!Call(t, "cleanup", None) PROVE MemoryStep(t)
    BY <1>4, MemoryCallStep DEF MemoryCalls, Memory!SessionCall
  <1>5. ASSUME NEW t \in Proc, NEW f \in Flow, Memory!Call(t, "consume", f) PROVE MemoryStep(t)
    BY <1>5, MemoryCallStep DEF MemoryCalls, Memory!SessionCall
  <1>6. ASSUME NEW t \in Proc, NEW e \in Email, Memory!Call(t, "create_user", e)
        PROVE  MemoryStep(t)
    BY <1>6, MemoryCallStep DEF MemoryCalls, Memory!SessionCall
  <1> QED
    BY <1>1, <1>2, <1>3, <1>4, <1>5, <1>6 DEF Memory!Next

\* What a step of the store may do to its tables.
StateKept ==
  /\ \A f \in Flow : mhanded'[f] <= 1
  /\ mloop => /\ \A e \in Email : musers'[e] <= 1
              /\ \A s \in Several : /\ msessions[s].revoked => msessions'[s].revoked
                                    /\ msessions[s].aal2 => msessions'[s].aal2

\* In any number of threads a flow is handed out once, and on an event loop revocations
\* and step-ups stay and an address has one user (CallsKeepState).
THEOREM StoreKeepsState == ElevationSpec => MemoryKept
  <1>1. ElevationInit => MemoryCore
    BY MemoryInit DEF ElevationInit
  <1>2. MemoryCore /\ [ElevationNext]_allvars => MemoryCore'
    <2> SUFFICES ASSUME MemoryCore, [ElevationNext]_allvars PROVE MemoryCore'
      OBVIOUS
    <2>1. CASE UNCHANGED mvars
      BY <2>1 DEF MemoryCore, MemoryTables, MemoryKnows, mvars
    <2>2. CASE Memory!Expire
      BY <2>2 DEF MemoryCore, MemoryTables, MemoryKnows, Memory!Expire, Memory!tables
    <2> QED
      BY <2>1, <2>2, MemoryActs, MemoryFrame DEF ElevationNext, allvars
  <1>3. MemoryCore /\ MemoryCore' /\ [ElevationNext]_allvars => [StateKept]_(Memory!vars)
    <2> SUFFICES ASSUME MemoryCore, MemoryCore', [ElevationNext]_allvars PROVE [StateKept]_(Memory!vars)
      OBVIOUS
    <2>1. CASE UNCHANGED mvars
      BY <2>1 DEF mvars, Memory!vars, Memory!tables
    <2>2. CASE Memory!Next
      <3>1. UNCHANGED mloop
        BY <2>2, MemoryActs DEF MemoryStep, Memory!Expire
      <3>2. \A f \in Flow : mhanded'[f] <= 1
        BY DEF MemoryCore, MemoryTables
      <3>3. mloop => \A e \in Email : musers'[e] <= 1
        BY <3>1 DEF MemoryCore, MemoryTables
      <3>4. mloop => \A s \in Several : Covers(msessions'[s], msessions[s])
        BY <2>2, MemoryActs DEF MemoryStep, Memory!Expire, Memory!tables, Covers
      <3> QED
        BY <3>2, <3>3, <3>4 DEF StateKept, Covers
    <2> QED
      BY <2>1, <2>2 DEF ElevationNext, allvars
  <1> QED
    BY <1>1, <1>2, <1>3, PTL DEF ElevationSpec, allvars, MemoryKept, Memory!CallsKeepState, StateKept

-----------------------------------------------------------------------------
(* Grants: the statements that match are those that reach the rows *)

GrantsCore ==
  /\ ask \in Grants!Question
  /\ decision # None => decision = Grants!Can(ask)

\* A statement that the code matches with some candidate is one that reaches the rows
\* asked for.
LEMMA ReachIsMatch ==
  ASSUME NEW g \in Grants!Statement, NEW q \in Grants!Question
  PROVE  (\E c \in Grants!CandidateRequirements(q.required, q.owns) : Grants!Matches(g, c))
           <=> /\ g.resource \in {"*", q.required.resource}
               /\ g.action \in {"*", q.required.action}
               /\ Grants!Wanted(q) \subseteq Grants!Reach(g)
  <1> DEFINE r == q.required
             named == g.resource \in {"*", r.resource} /\ g.action \in {"*", r.action}
             scopes == CASE r.scope = "any" -> {"any", None}
                         [] r.scope = "own" -> {"any", None} \cup (IF q.owns THEN {"own"} ELSE {})
                         [] OTHER            -> {None, "any"} \cup (IF q.owns THEN {"own"} ELSE {})
             fits(s) == g.scope \in {None, "*", s} \/ (g.scope = "any" /\ s \in {None, "own"})
  <1>1. /\ r \in Grants!Required /\ q.owns \in BOOLEAN
        /\ "own" \in Scope /\ "any" \in Scope /\ "*" \notin Scope /\ None \notin Scope
        /\ g.scope \in Scope \cup {"*", None} /\ g # Malformed
    BY InstanceAssumption
    DEF Grants!Question, Grants!NamesAssumption, Grants!Statement
  <1>2. (\E c \in Grants!CandidateRequirements(q.required, q.owns) : Grants!Matches(g, c))
          <=> named /\ \E s \in scopes : fits(s)
    <2>1. ASSUME NEW s PROVE Grants!Matches(g, Grants!Of(r.resource, r.action, s)) <=> named /\ fits(s)
      BY <1>1 DEF Grants!Matches, Grants!Of
    <2>2. Grants!CandidateRequirements(q.required, q.owns)
            = {Grants!Of(r.resource, r.action, s) : s \in scopes}
      BY DEF Grants!CandidateRequirements
    <2> HIDE DEF scopes, named, fits
    <2> QED
      BY <2>1, <2>2
  <1>3. (\E s \in scopes : fits(s)) <=> Grants!Wanted(q) \subseteq Grants!Reach(g)
    <2>1. CASE g.scope \in {None, "*", "any"}
      BY <1>1, <2>1 DEF Grants!Wanted, Grants!Reach
    <2>2. CASE g.scope = "own"
      BY <1>1, <2>2 DEF Grants!Wanted, Grants!Reach
    <2>3. CASE g.scope \notin {None, "*", "any", "own"}
      BY <1>1, <2>3 DEF Grants!Wanted, Grants!Reach
    <2> QED
      BY <2>1, <2>2, <2>3
  <1> QED
    BY <1>2, <1>3

\* The statements of the actor are statements.
LEMMA EffectiveGrants ==
  ASSUME NEW q \in Grants!Question
  PROVE  Grants!Effective(q) \subseteq Grants!Statement \cup {Malformed}
  <1>1. q.grants \subseteq Grants!Statement \cup {Malformed}
    BY DEF Grants!Question, Grants!Grants
  <1>2. Grants!PermissionsFor(q.profile, q.role) \subseteq Grants!Statement
    BY InstanceAssumption
    DEF Grants!PermissionsFor, Grants!OfRole, Grants!All, Grants!ReadOnly, Grants!UserLevel,
        Grants!Of, Grants!Statement, Grants!NamesAssumption
  <1> QED
    BY <1>1, <1>2 DEF Grants!Effective

LEMMA CanIsAccess ==
  ASSUME NEW q \in Grants!Question
  PROVE  Grants!Can(q) = Grants!Access(q)
  <1>1. Malformed \notin Grants!Statement
    BY InstanceAssumption DEF Grants!NamesAssumption
  <1>2. ASSUME NEW g \in Grants!Effective(q)
        PROVE  (\E c \in Grants!CandidateRequirements(q.required, q.owns) : Grants!Matches(g, c))
                 <=> /\ g # Malformed
                     /\ g.resource \in {"*", q.required.resource}
                     /\ g.action \in {"*", q.required.action}
                     /\ Grants!Wanted(q) \subseteq Grants!Reach(g)
    <2>1. CASE g = Malformed
      BY <2>1 DEF Grants!Matches
    <2>2. CASE g # Malformed
      BY <2>2, ReachIsMatch, EffectiveGrants
    <2> QED
      BY <2>1, <2>2
  <1>3. q.active \in BOOLEAN
    BY DEF Grants!Question
  <1>4. Grants!Can(q) <=> q.active /\ \E g \in Grants!Effective(q) :
          \E c \in Grants!CandidateRequirements(q.required, q.owns) : Grants!Matches(g, c)
    BY DEF Grants!Can, Grants!Allows
  <1>5. Grants!Access(q) <=> q.active /\ \E g \in Grants!Effective(q) :
          /\ g # Malformed
          /\ g.resource \in {"*", q.required.resource}
          /\ g.action \in {"*", q.required.action}
          /\ Grants!Wanted(q) \subseteq Grants!Reach(g)
    BY DEF Grants!Access
  <1>6. Grants!Can(q) \in BOOLEAN /\ Grants!Access(q) \in BOOLEAN
    BY <1>3 DEF Grants!Can, Grants!Access
  <1> QED
    BY <1>2, <1>4, <1>5, <1>6

\* The answer of can is the one the rows demand, whatever the grants, the role, the
\* statement and the row (CanIsAccess).
THEOREM GrantsReachRows == ElevationSpec => []GrantsDecide
  <1> DEFINE Inv == part = "grants" => GrantsCore
  <1>1. ElevationInit => Inv
    BY DEF ElevationInit, Grants!Init, GrantsCore
  <1>2. Inv /\ [ElevationNext]_allvars => Inv'
    <2> SUFFICES ASSUME Inv, [ElevationNext]_allvars, part' = "grants" PROVE GrantsCore'
      OBVIOUS
    <2>1. part = "grants" /\ GrantsCore
      BY DEF ElevationNext, allvars
    <2>2. CASE UNCHANGED gvars
      BY <2>1, <2>2 DEF GrantsCore, gvars
    <2>3. CASE Grants!Decide
      BY <2>1, <2>3 DEF GrantsCore, Grants!Decide
    <2>4. CASE Grants!AskAgain
      <3>1. PICK owns \in BOOLEAN, active \in BOOLEAN :
              ask' = [ask EXCEPT !.owns = owns, !.active = active]
        BY <2>4 DEF Grants!AskAgain
      <3>2. ask' \in Grants!Question
        BY <2>1, <3>1 DEF GrantsCore, Grants!Question
      <3> QED
        BY <2>4, <3>2 DEF GrantsCore, Grants!AskAgain
    <2> QED
      BY <2>1, <2>2, <2>3, <2>4 DEF ElevationNext, allvars, gvars, Grants!Next
  <1>3. Inv => GrantsDecide
    BY CanIsAccess DEF GrantsCore, GrantsDecide, Grants!CanIsAccess
  <1> QED
    BY <1>1, <1>2, <1>3, PTL DEF ElevationSpec, allvars

-----------------------------------------------------------------------------
(* Keys: the counters never go back *)

\* The counters never go back: the one that is stored is that of the assertion
\* accepted last, and none was accepted with a higher one.  A challenge that is
\* forgotten is done with.
KeysCore ==
  /\ kcounter \in [Device -> Nat]
  /\ kpasskey \in Nat \cup {None}
  /\ kchallenge \in [Several -> {"unused", "pending", "done"}]
  /\ \A a \in kmade : a.count \in Nat /\ a.challenge \in Several
  /\ kaccepted \subseteq kmade
  /\ kaccepted # {} => kpasskey # None
  /\ \A a \in kaccepted : /\ a.count <= kpasskey
                          /\ kforgets => kchallenge[a.challenge] = "done"
  /\ Keys!AssertionsAreFresh

LEMMA KeysInit == Keys!Init => KeysCore
  BY InstanceAssumption DEF Keys!Init, KeysCore, Keys!AssertionsAreFresh

LEMMA KeysSetupStays ==
  ASSUME Keys!Next
  PROVE  UNCHANGED kforgets
  BY DEF Keys!Next, Keys!setup, Keys!GenerateChallenge, Keys!Register, Keys!Sign, Keys!Verify

LEMMA KeysStep ==
  ASSUME KeysCore, Keys!Next
  PROVE  KeysCore'
  <1>n. None \notin Nat
    BY InstanceAssumption
  <1>s. UNCHANGED kforgets
    BY KeysSetupStays
  <1>1. ASSUME NEW c \in Several, Keys!GenerateChallenge(c) PROVE KeysCore'
    BY <1>1, <1>s DEF KeysCore, Keys!AssertionsAreFresh, Keys!GenerateChallenge
  <1>2. ASSUME NEW c \in Several, NEW d \in Device, Keys!Register(c, d) PROVE KeysCore'
    <2>1. kaccepted = {} /\ kcounter[d] \in Nat
      BY <1>2 DEF KeysCore, Keys!Register
    <2>2. kchallenge' \in [Several -> {"unused", "pending", "done"}]
      BY <1>2 DEF KeysCore, Keys!Register, Keys!Spent
    <2> QED
      BY <1>2, <1>s, <2>1, <2>2 DEF KeysCore, Keys!AssertionsAreFresh, Keys!Register
  <1>3. ASSUME NEW c \in Several, NEW d \in Device, NEW page \in Origin, NEW r \in RpId,
               NEW v \in BOOLEAN, Keys!Sign(c, d, page, r, v)
        PROVE  KeysCore'
    <2>1. kcounter' \in [Device -> Nat]
      BY <1>3 DEF KeysCore, Keys!Sign
    <2>2. \A a \in kmade' : a.count \in Nat /\ a.challenge \in Several
      BY <1>3, <2>1 DEF KeysCore, Keys!Sign
    <2>3. UNCHANGED <<kpasskey, kchallenge, kaccepted, kagain>> /\ kmade \subseteq kmade'
      BY <1>3 DEF Keys!Sign
    <2> QED
      BY <1>s, <2>1, <2>2, <2>3 DEF KeysCore, Keys!AssertionsAreFresh
  <1>4. ASSUME NEW a \in kmade, Keys!Verify(a) PROVE KeysCore'
    <2>1. /\ kpasskey \in Nat /\ a.count \in Nat /\ a.challenge \in Several
          /\ kchallenge[a.challenge] = "pending"
          /\ kpasskey > 0 => a.count > kpasskey
          /\ kpasskey' = a.count
          /\ kaccepted' = kaccepted \cup {a} /\ kagain' = kagain \cup (kaccepted \cap {a})
          /\ UNCHANGED <<kcounter, kmade>>
      BY <1>4 DEF KeysCore, Keys!Verify, Keys!Replayed
    <2>2. kchallenge' = IF kforgets THEN [kchallenge EXCEPT ![a.challenge] = "done"]
                        ELSE kchallenge
      BY <1>4 DEF Keys!Verify, Keys!Spent
    <2>3. ASSUME NEW b \in kaccepted
          PROVE  /\ b.count \in Nat /\ b.challenge \in Several /\ b.count <= a.count
                 /\ kforgets => b.challenge # a.challenge
                 /\ b.count = a.count => a.count = 0
      BY <2>1, <2>3 DEF KeysCore
    <2>4. /\ kpasskey' \in Nat \cup {None} /\ kpasskey' # None
          /\ kchallenge' \in [Several -> {"unused", "pending", "done"}]
          /\ kaccepted' \subseteq kmade'
      BY <2>1, <2>2, <1>n DEF KeysCore
    <2>5. \A b \in kaccepted' : /\ b.count <= kpasskey'
                                /\ kforgets' => kchallenge'[b.challenge] = "done"
      BY <1>s, <2>1, <2>2, <2>3 DEF KeysCore
    <2>6. Keys!AssertionsAreFresh'
      <3>1. \A b \in kagain' : ~kforgets' /\ b.count = 0
        BY <1>s, <2>1, <2>3 DEF KeysCore, Keys!AssertionsAreFresh
      <3>2. kforgets' => \A b, c \in kaccepted' : b.challenge = c.challenge => b = c
        BY <1>s, <2>1, <2>3 DEF KeysCore, Keys!AssertionsAreFresh
      <3>3. \A b, c \in kaccepted' : b.count > 0 /\ b.count = c.count => b = c
        BY <2>1, <2>3 DEF KeysCore, Keys!AssertionsAreFresh
      <3> QED
        BY <3>1, <3>2, <3>3 DEF Keys!AssertionsAreFresh
    <2> QED
      BY <2>1, <2>4, <2>5, <2>6 DEF KeysCore
  <1> QED
    BY <1>1, <1>2, <1>3, <1>4 DEF Keys!Next

\* No assertion is accepted twice, no challenge serves two, and no two answers of a
\* device that counts and of its copy are accepted with one counter (PasskeysFresh).
THEOREM AssertionsAreUsedOnce == ElevationSpec => []PasskeysFresh
  <1> DEFINE Inv == part = "keys" => KeysCore
  <1>1. ElevationInit => Inv
    BY KeysInit DEF ElevationInit
  <1>2. Inv /\ [ElevationNext]_allvars => Inv'
    <2> SUFFICES ASSUME Inv, [ElevationNext]_allvars, part' = "keys" PROVE KeysCore'
      OBVIOUS
    <2>1. part = "keys" /\ KeysCore
      BY DEF ElevationNext, allvars
    <2>2. CASE UNCHANGED kvars
      BY <2>1, <2>2 DEF KeysCore, Keys!AssertionsAreFresh, kvars
    <2> QED
      BY <2>1, <2>2, KeysStep DEF ElevationNext, allvars
  <1>3. Inv => PasskeysFresh
    BY DEF KeysCore, PasskeysFresh
  <1> QED
    BY <1>1, <1>2, <1>3, PTL DEF ElevationSpec, allvars
-----------------------------------------------------------------------------
(* Sessions: the proofs are those of SessionsProofs *)

RowProofs == INSTANCE SessionsProofs WITH
  Session <- Live, NoSession <- None, MaxClock <- MaxTime,
  clock <- sclock, active <- sactive, lastUse <- suse, doomed <- sdoomed,
  pc <- spc, op <- sop, copy <- scopy, now <- snow

OnSessions == part = "sessions"

LEMMA RowsValues == RowProofs!Parameters
  BY InstanceAssumption
  DEF RowProofs!Parameters, Rows!ConfigAssumption, RowProofs!ConfigAssumption,
      Rows!SentinelAssumption, RowProofs!SentinelAssumption, Rows!Operation,
      RowProofs!Operation, Rows!Row, RowProofs!Row

\* A behaviour about the sessions is one of Sessions; any other one stays away from it.
LEMMA RowsBehave ==
  ElevationSpec => (OnSessions /\ RowProofs!Spec) \/ []~OnSessions
  <1>1. ElevationInit /\ OnSessions => RowProofs!Init
    BY DEF ElevationInit, OnSessions, Rows!Init, RowProofs!Init
  <1>2. Rows!Next => RowProofs!Next
    <2>1. ASSUME NEW p \in Proc, Rows!Step(p) PROVE RowProofs!Step(p)
      <3>1. \/ Rows!ReadSession(p) \/ Rows!CheckSession(p) \/ Rows!CheckUser(p)
            \/ Rows!PermissionMissing(p) \/ Rows!TouchSession(p) \/ Rows!TouchRevoked(p)
            \/ Rows!StepUpFails(p) \/ Rows!SetAssurance(p) \/ Rows!Logout(p)
        BY <2>1 DEF Rows!Step
      <3>2. Rows!ReadSession(p) => RowProofs!ReadSession(p)
        BY DEF Rows!ReadSession, RowProofs!ReadSession, Rows!Goto, RowProofs!Goto
      <3>3. Rows!CheckSession(p) => RowProofs!CheckSession(p)
        BY DEF Rows!CheckSession, RowProofs!CheckSession, Rows!Goto, RowProofs!Goto,
           Rows!Usable, RowProofs!Usable, Rows!HardExpired, RowProofs!HardExpired,
           Rows!IdleExpired, RowProofs!IdleExpired
      <3>4. Rows!CheckUser(p) => RowProofs!CheckUser(p)
        BY DEF Rows!CheckUser, RowProofs!CheckUser, Rows!Goto, RowProofs!Goto,
           Rows!TouchDue, RowProofs!TouchDue, Rows!Verified, RowProofs!Verified,
           Rows!UseSession, RowProofs!UseSession
      <3>5. Rows!PermissionMissing(p) => RowProofs!PermissionMissing(p)
        BY DEF Rows!PermissionMissing, RowProofs!PermissionMissing, Rows!Goto,
           RowProofs!Goto
      <3>6. Rows!TouchSession(p) => RowProofs!TouchSession(p)
        BY DEF Rows!TouchSession, RowProofs!TouchSession, Rows!Goto, RowProofs!Goto,
           Rows!Touched, RowProofs!Touched, Rows!Verified, RowProofs!Verified,
           Rows!UseSession, RowProofs!UseSession
      <3>7. Rows!TouchRevoked(p) => RowProofs!TouchRevoked(p)
        BY DEF Rows!TouchRevoked, RowProofs!TouchRevoked, Rows!Goto, RowProofs!Goto
      <3>8. Rows!StepUpFails(p) => RowProofs!StepUpFails(p)
        BY DEF Rows!StepUpFails, RowProofs!StepUpFails, Rows!Goto, RowProofs!Goto
      <3>9. Rows!SetAssurance(p) => RowProofs!SetAssurance(p)
        BY DEF Rows!SetAssurance, RowProofs!SetAssurance, Rows!Goto, RowProofs!Goto
      <3>10. Rows!Logout(p) => RowProofs!Logout(p)
        BY DEF Rows!Logout, RowProofs!Logout, Rows!Goto, RowProofs!Goto, Rows!Revoke,
           RowProofs!Revoke
      <3> QED
        BY <3>1, <3>2, <3>3, <3>4, <3>5, <3>6, <3>7, <3>8, <3>9, <3>10 DEF RowProofs!Step
    <2>2. \A s \in Live, u \in User : Rows!IssueSession(s, u) => RowProofs!IssueSession(s, u)
      BY DEF Rows!IssueSession, RowProofs!IssueSession, Rows!Issued, RowProofs!Issued,
         Rows!locals, RowProofs!locals
    <2>3. ASSUME NEW p \in Proc, NEW s \in Live, NEW o \in Rows!Operation, Rows!Arrive(p, s, o)
          PROVE  RowProofs!Arrive(p, s, o)
      BY <2>3 DEF Rows!Arrive, RowProofs!Arrive, Rows!Goto, RowProofs!Goto, Rows!Issued,
         RowProofs!Issued, Rows!HardExpired, RowProofs!HardExpired
    <2>4. \A p \in Proc : Rows!Return(p) => RowProofs!Return(p)
      BY DEF Rows!Return, RowProofs!Return, Rows!Goto, RowProofs!Goto
    <2>5. \A s \in Live : Rows!RevokeSession(s) => RowProofs!RevokeSession(s)
      BY DEF Rows!RevokeSession, RowProofs!RevokeSession, Rows!Issued, RowProofs!Issued,
         Rows!Revoke, RowProofs!Revoke, Rows!locals, RowProofs!locals
    <2>6. ASSUME NEW u \in User, NEW x, Rows!RevokeSessionsForUser(u, x)
          PROVE  RowProofs!RevokeSessionsForUser(u, x)
      BY <2>6 DEF Rows!RevokeSessionsForUser, RowProofs!RevokeSessionsForUser, Rows!Issued,
         RowProofs!Issued, Rows!Revoke, RowProofs!Revoke, Rows!locals, RowProofs!locals
    <2>7. \A u \in User : /\ Rows!Deactivate(u) => RowProofs!Deactivate(u)
                          /\ Rows!Activate(u) => RowProofs!Activate(u)
      BY DEF Rows!Deactivate, RowProofs!Deactivate, Rows!Activate, RowProofs!Activate,
         Rows!locals, RowProofs!locals
    <2>8. \A t \in 0..sclock : Rows!CleanupExpired(t) => RowProofs!CleanupExpired(t)
      BY DEF Rows!CleanupExpired, RowProofs!CleanupExpired, Rows!Issued, RowProofs!Issued,
         Rows!Revoke, RowProofs!Revoke, Rows!HardExpired, RowProofs!HardExpired,
         Rows!IdleExpired, RowProofs!IdleExpired, Rows!locals, RowProofs!locals
    <2>9. Rows!Tick => RowProofs!Tick
      BY DEF Rows!Tick, RowProofs!Tick, Rows!locals, RowProofs!locals
    <2> QED
      BY <2>1, <2>2, <2>3, <2>4, <2>5, <2>6, <2>7, <2>8, <2>9
      DEF Rows!Next, RowProofs!Next, Rows!Operation, RowProofs!Operation
  <1>3. [ElevationNext]_allvars /\ OnSessions => OnSessions' /\ [RowProofs!Next]_(RowProofs!vars)
    BY <1>2 DEF ElevationNext, allvars, OnSessions, svars, RowProofs!vars, RowProofs!locals
  <1>4. [ElevationNext]_allvars /\ ~OnSessions => ~OnSessions'
    BY DEF ElevationNext, allvars, OnSessions
  <1> QED
    BY <1>1, <1>3, <1>4, PTL DEF ElevationSpec, RowProofs!Spec

\* No request is accepted that came after its session was revoked or expired, or for
\* a user who was inactive and stayed so (RevocationsHold).
THEOREM RevocationsAreHonoured == ElevationSpec => []RevocationsHold
  <1>1. RowProofs!Spec => []RowProofs!RevocationHonoured
    BY RowsValues, RowProofs!RevocationsHonoured, PTL
  <1>2. RowProofs!RevocationHonoured => RevocationsHold
    BY DEF RevocationsHold, Rows!RevocationHonoured, RowProofs!RevocationHonoured
  <1>3. ~OnSessions => RevocationsHold
    BY DEF RevocationsHold, OnSessions
  <1> QED
    BY <1>1, <1>2, <1>3, RowsBehave, PTL

\* No stale write clears a revocation, lowers an assurance level, moves the absolute
\* expiry or the user of a session (SessionsOnlyTighten).
THEOREM SessionsTighten == ElevationSpec => SessionsOnlyTighten
  <1>1. RowProofs!Spec => [][RowProofs!Tightens]_(RowProofs!vars)
    BY RowsValues, RowProofs!SecurityStateGrows, PTL DEF RowProofs!SecurityStateMonotone
  <1>2. [RowProofs!Tightens]_(RowProofs!vars) => [part = "sessions" => Rows!Tightens]_svars
    BY DEF RowProofs!vars, RowProofs!locals, svars, Rows!Tightens, RowProofs!Tightens,
       Rows!Issued, RowProofs!Issued
  <1>3. ~OnSessions => [part = "sessions" => Rows!Tightens]_svars
    BY DEF OnSessions
  <1> QED
    BY <1>1, <1>2, <1>3, RowsBehave, PTL DEF SessionsOnlyTighten

\* A session past its expiry stays dead unless a request that read the clock before
\* the expiry is under way (ExpiryHolds).
THEOREM ExpiryIsFinal == ElevationSpec => ExpiryHolds
  <1>1. RowProofs!Spec => [][RowProofs!StaysDead]_(RowProofs!vars)
    BY RowsValues, RowProofs!ExpiryIsFinal, PTL DEF RowProofs!DeadStaysDead
  <1>2. [RowProofs!StaysDead]_(RowProofs!vars) => [part = "sessions" => Rows!StaysDead]_svars
    BY DEF RowProofs!vars, RowProofs!locals, svars,
       Rows!StaysDead, RowProofs!StaysDead, Rows!Dead, RowProofs!Dead, Rows!Rescuable,
       RowProofs!Rescuable, Rows!Issued, RowProofs!Issued, Rows!HardExpired,
       RowProofs!HardExpired, Rows!IdleExpired, RowProofs!IdleExpired
  <1>3. ~OnSessions => [part = "sessions" => Rows!StaysDead]_svars
    BY DEF OnSessions
  <1> QED
    BY <1>1, <1>2, <1>3, RowsBehave, PTL DEF ExpiryHolds
=============================================================================
