-------------------------- MODULE LoginFlowsProofs --------------------------
(***************************************************************************)
(* Proofs about LoginFlows for every number of users, tokens and handlers. *)
(* The inductive invariant adds to the types what the store knows of a     *)
(* token (FlowInv) and what a handler knows at each label (HandlerInv).    *)
(***************************************************************************)
EXTENDS LoginFlows, TLAPS

\* What the flow row, the mailed link and the history say of each other.
FlowInv ==
  \A t \in Token :
    /\ link[t] = NoLink =>
         flow[t] = "absent" /\ redeemed[t] = 0 /\ session[t] = "none"
    /\ flow[t] = "open" => redeemed[t] = 0
    /\ flow[t] = "consumed" => redeemed[t] = 1
    /\ redeemed[t] <= 1
    /\ flow[t] = "absent" /\ link[t] # NoLink /\ redeemed[t] = 0 =>
         clock >= link[t].expires

Consumers == {"lookup", "create", "identity", "issue", "record", "verify",
              "mark_identity", "set", "revoke"}

\* What a handler that has redeemed its token may rely on until it returns.
Redeemer(p) ==
  /\ tok[p] \in Token /\ link[tok[p]] # NoLink
  /\ redeemed[tok[p]] = 1
  /\ link[tok[p]].kind = kind[p]
  /\ link[tok[p]].email = email[p]

Handler(p) ==
    /\ now[p] <= clock
    /\ pc[p] = "create_flow" =>
         /\ tok[p] \in Token /\ kind[p] \in Kind /\ email[p] \in Email
         /\ link[tok[p]] = NoLink
         /\ \A q \in Proc : q # p => tok[q] # tok[p]
    /\ pc[p] \in {"consume", "rejected"} =>
         tok[p] \in Token /\ kind[p] \in Kind /\ link[tok[p]] # NoLink
    /\ pc[p] \in Consumers =>
         /\ email[p] \in Email
         /\ kind[p] \in Kind => Redeemer(p)
         /\ kind[p] = None => pc[p] \in {"create", "identity"}
    /\ pc[p] \in {"issue", "record"} => kind[p] = "magic_link"
    /\ pc[p] \in {"verify", "mark_identity"} => kind[p] = "email_verification"
    /\ pc[p] \in {"set", "revoke"} => kind[p] = "password_reset"
    /\ pc[p] \in {"create", "identity"} => kind[p] \in {"magic_link", None}
    /\ pc[p] \in {"identity", "issue", "record", "verify"} => row[p] # NoUser
    /\ pc[p] = "idle" => kind[p] = None
HandlerInv == \A p \in Proc : Handler(p)

Core == TypeOK /\ FlowInv /\ HandlerInv

LEMMA InitCore == Init => Core
  <1> SUFFICES ASSUME Init PROVE Core
    OBVIOUS
  <1>1. TypeOK
    BY ConfigAssumption DEF Init, TypeOK, UserRow, Label, Link, Kind
  <1>2. FlowInv
    BY DEF Init, FlowInv
  <1>3. HandlerInv
    BY DEF Init, HandlerInv, Handler, Consumers
  <1> QED
    BY <1>1, <1>2, <1>3 DEF Core

\* What no step ever takes back: the clock, a mailed link, a redemption.
Monotone ==
  /\ clock' >= clock
  /\ \A t \in Token : /\ redeemed'[t] >= redeemed[t]
                      /\ link[t] # NoLink => link'[t] = link[t]

LEMMA StepMonotone == Core /\ [Next]_vars => Monotone
  <1> SUFFICES ASSUME Core, [Next]_vars PROVE Monotone
    OBVIOUS
  <1> USE DEF Core, TypeOK, Monotone
  <1>1. CASE UNCHANGED vars
    BY <1>1 DEF vars, store, locals
  <1>2. CASE Tick
    BY <1>2 DEF Tick, store, locals
  <1>3. ASSUME NEW e \in Email, NEW s \in {"active", "inactive"}, SetStatus(e, s)
        PROVE Monotone
    BY <1>3 DEF SetStatus, locals
  <1>4. ASSUME NEW n \in 0..clock, Cleanup(n) PROVE Monotone
    BY <1>4 DEF Cleanup, locals
  <1>5. ASSUME NEW p \in Proc, CreateFlow(p) PROVE Monotone
    BY <1>5 DEF CreateFlow, HandlerInv, Handler
  <1>6. ASSUME NEW p \in Proc, Consume(p) PROVE Monotone
    BY <1>6 DEF Consume, HandlerInv, Handler, Consumers
  <1>7. ASSUME NEW p \in Proc, Step(p) PROVE Monotone
    <2>1. CASE CreateFlow(p)
      BY <2>1, <1>5
    <2>2. CASE Consume(p)
      BY <2>2, <1>6
    <2>3. CASE UNCHANGED <<clock, link, redeemed>>
      BY <2>3
    <2> QED
      BY <1>7, <2>1, <2>2, <2>3 DEF Step, ConsumeNothing, Lookup, CreateUser,
         CreateUserFails, UpsertIdentity, IssueSession, RecordLogin, VerifyEmail,
         MarkIdentity, SetPassword, SetPasswordFails, RevokeSessions, store
  <1>8. ASSUME NEW p \in Proc, Return(p) \/ (\E e \in Email : Provision(p, e))
                 \/ (\E t \in Token, k \in Kind : Present(p, t, k))
                 \/ (\E k \in Kind, e \in Email, t \in Token : Request(p, k, e, t))
        PROVE Monotone
    BY <1>8 DEF Return, Provision, Present, Request, store
  <1> QED
    BY <1>1, <1>2, <1>3, <1>4, <1>7, <1>8 DEF Next

LEMMA SetterHolds ==
  ASSUME Core, NEW p \in Proc, pc[p] = "set"
  PROVE  email[p] \in Email /\ tok[p] \in Token
  BY DEF Core, HandlerInv, Handler, Consumers, Redeemer, Kind

LEMMA TypeStep == Core /\ [Next]_vars => TypeOK'
  <1> SUFFICES ASSUME Core, [Next]_vars PROVE TypeOK'
    OBVIOUS
  <1> USE ConfigAssumption, SentinelAssumption
      DEF Core, TypeOK, HandlerInv, Handler, Consumers, Goto, UserRow, Link, Label, Kind
  <1>1. CASE UNCHANGED vars
    BY <1>1 DEF vars, store, locals
  <1>2. CASE Tick
    BY <1>2 DEF Tick, store, locals
  <1>3. ASSUME NEW e \in Email, NEW s \in {"active", "inactive"}, SetStatus(e, s)
        PROVE TypeOK'
    BY <1>3 DEF SetStatus, Exists, locals
  <1>4. ASSUME NEW n \in 0..clock, Cleanup(n) PROVE TypeOK'
    BY <1>4 DEF Cleanup, locals
  <1>5. ASSUME NEW p \in Proc, Step(p) PROVE TypeOK'
    <2>1. CASE CreateFlow(p)
      BY <2>1 DEF CreateFlow
    <2>2. CASE Consume(p)
      BY <2>2 DEF Consume
    <2>3. CASE ConsumeNothing(p)
      BY <2>3 DEF ConsumeNothing, store
    <2>4. CASE Lookup(p)
      BY <2>4 DEF Lookup, AfterLookup, store
    <2>5. CASE CreateUser(p)
      BY <2>5 DEF CreateUser, NewUser
    <2>6. CASE CreateUserFails(p)
      BY <2>6 DEF CreateUserFails, store
    <2>7. CASE UpsertIdentity(p)
      BY <2>7 DEF UpsertIdentity
    <2>8. CASE IssueSession(p)
      BY <2>8 DEF IssueSession
    <2>9. CASE RecordLogin(p)
      BY <2>9 DEF RecordLogin
    <2>10. CASE VerifyEmail(p)
      <3>1. email[p] \in Email /\ row[p] \in UserRow
        BY <2>10 DEF VerifyEmail
      <3>2. [status |-> row[p].status, verified |-> TRUE] \in UserRow
        BY <3>1
      <3> QED
        BY <2>10, <3>1, <3>2 DEF VerifyEmail
    <2>11. CASE MarkIdentity(p)
      BY <2>11 DEF MarkIdentity
    <2>12. CASE SetPassword(p)
      <3>1. email[p] \in Email /\ tok[p] \in Token
        <4>1. pc[p] = "set"
          BY <2>12 DEF SetPassword
        <4> QED
          BY <4>1, SetterHolds
      <3>2. password' \in [Email -> Token \cup {None}]
        BY <2>12, <3>1 DEF SetPassword
      <3>3. pc' \in [Proc -> Label]
        BY <2>12 DEF SetPassword
      <3> QED
        BY <2>12, <3>2, <3>3 DEF SetPassword
    <2>13. CASE RevokeSessions(p)
      BY <2>13 DEF RevokeSessions
    <2>14. CASE SetPasswordFails(p)
      BY <2>14 DEF SetPasswordFails, store
    <2> QED
      BY <1>5, <2>1, <2>2, <2>3, <2>4, <2>5, <2>6, <2>7, <2>8, <2>9, <2>10,
         <2>11, <2>12, <2>13, <2>14
      DEF Step
  <1>6. ASSUME NEW p \in Proc, NEW k \in Kind, NEW e \in Email, NEW t \in Token,
               Request(p, k, e, t)
        PROVE TypeOK'
    BY <1>6 DEF Request, store
  <1>7. ASSUME NEW p \in Proc, NEW t \in Token, NEW k \in Kind, Present(p, t, k)
        PROVE TypeOK'
    BY <1>7 DEF Present, store
  <1>8. ASSUME NEW p \in Proc, NEW e \in Email, Provision(p, e) PROVE TypeOK'
    BY <1>8 DEF Provision, store
  <1>9. ASSUME NEW p \in Proc, Return(p) PROVE TypeOK'
    BY <1>9 DEF Return, store
  <1> QED
    BY <1>1, <1>2, <1>3, <1>4, <1>5, <1>6, <1>7, <1>8, <1>9 DEF Next

LEMMA FlowStep == Core /\ [Next]_vars => FlowInv'
  <1> SUFFICES ASSUME Core, [Next]_vars PROVE FlowInv'
    OBVIOUS
  <1> USE ConfigAssumption, SentinelAssumption
      DEF Core, FlowInv
  <1>0. /\ clock \in Nat /\ link \in [Token -> Link \cup {NoLink}]
        /\ flow \in [Token -> {"absent", "open", "consumed"}]
        /\ session \in [Token -> {"none", "live", "revoked"}]
        /\ redeemed \in [Token -> Nat]
        /\ \A t \in Token : link[t] # NoLink => link[t].expires \in Nat
    BY DEF TypeOK, Link
  <1>1. CASE UNCHANGED <<clock, link, flow, session, redeemed>>
    BY <1>0, <1>1
  <1>2. CASE Tick
    BY <1>0, <1>2 DEF Tick, store
  <1>3. ASSUME NEW n \in 0..clock, Cleanup(n) PROVE FlowInv'
    BY <1>0, <1>3 DEF Cleanup
  <1>4. ASSUME NEW p \in Proc, CreateFlow(p) PROVE FlowInv'
    <2>1. /\ tok[p] \in Token /\ link[tok[p]] = NoLink
          /\ redeemed[tok[p]] = 0 /\ flow[tok[p]] = "absent"
      BY <1>4 DEF CreateFlow, HandlerInv, Handler
    <2>2. PICK l \in Link : link' = [link EXCEPT ![tok[p]] = l]
      <3>1. [kind |-> kind[p], email |-> email[p], expires |-> now[p] + Ttl]
              \in Link
        BY <1>4 DEF CreateFlow, HandlerInv, Handler, TypeOK, Link
      <3> QED
        BY <1>4, <3>1 DEF CreateFlow
    <2> QED
      BY <1>0, <1>4, <2>1, <2>2 DEF CreateFlow
  <1>5. ASSUME NEW p \in Proc, Consume(p) PROVE FlowInv'
    <2>1. tok[p] \in Token /\ link[tok[p]] # NoLink /\ flow[tok[p]] = "open"
      BY <1>5 DEF Consume, Consumable, HandlerInv, Handler
    <2> QED
      BY <1>0, <1>5, <2>1 DEF Consume
  <1>6. ASSUME NEW p \in Proc, IssueSession(p) PROVE FlowInv'
    <2>1. tok[p] \in Token /\ link[tok[p]] # NoLink
      BY <1>6 DEF IssueSession, HandlerInv, Handler, Consumers, Redeemer, Kind
    <2> QED
      BY <1>0, <1>6, <2>1 DEF IssueSession
  <1>7. ASSUME NEW p \in Proc, RevokeSessions(p) PROVE FlowInv'
    BY <1>0, <1>7 DEF RevokeSessions, SessionsOf
  <1>8. ASSUME NEW p \in Proc, Step(p) PROVE FlowInv'
    BY <1>1, <1>4, <1>5, <1>6, <1>7, <1>8
    DEF Step, ConsumeNothing, Lookup, CreateUser, CreateUserFails,
        UpsertIdentity, RecordLogin, VerifyEmail, MarkIdentity, SetPassword,
        SetPasswordFails, store
  <1>9. CASE UNCHANGED vars
    BY <1>1, <1>9 DEF vars, store
  <1>10. ASSUME NEW p \in Proc, Return(p) \/ (\E e \in Email : Provision(p, e))
                 \/ (\E t \in Token, k \in Kind : Present(p, t, k))
                 \/ (\E k \in Kind, e \in Email, t \in Token : Request(p, k, e, t))
        PROVE FlowInv'
    BY <1>1, <1>10 DEF Return, Provision, Present, Request, store
  <1>11. ASSUME NEW e \in Email, NEW s \in {"active", "inactive"}, SetStatus(e, s)
        PROVE FlowInv'
    BY <1>1, <1>11 DEF SetStatus
  <1> QED
    BY <1>2, <1>3, <1>8, <1>9, <1>10, <1>11 DEF Next

\* A handler whose locals a step leaves alone keeps what it knew.
SameLocals(q) ==
  /\ pc'[q] = pc[q] /\ kind'[q] = kind[q] /\ tok'[q] = tok[q]
  /\ email'[q] = email[q] /\ now'[q] = now[q] /\ row'[q] = row[q]

LEMMA Frame ==
  ASSUME Core, TypeOK', FlowInv', Monotone, NEW q \in Proc, SameLocals(q),
         pc[q] = "create_flow" =>
           link'[tok[q]] = NoLink /\ \A r \in Proc : r # q => tok'[r] # tok[q]
  PROVE  Handler(q)'
  <1>1. Handler(q) /\ now[q] \in Nat /\ clock \in Nat /\ clock' \in Nat
    BY DEF Core, HandlerInv, TypeOK
  <1>2. ASSUME NEW t \in Token, link[t] # NoLink, redeemed[t] = 1
        PROVE link'[t] = link[t] /\ redeemed'[t] = 1
    BY <1>2 DEF Monotone, FlowInv, TypeOK
  <1>3. ASSUME Redeemer(q) PROVE Redeemer(q)'
    BY <1>2, <1>3 DEF Redeemer, SameLocals
  <1>4. tok[q] \in Token /\ link[tok[q]] # NoLink => link'[tok[q]] # NoLink
    BY DEF Monotone
  <1> QED
    BY <1>1, <1>3, <1>4 DEF Handler, SameLocals, Monotone

\* The premise of Frame about flows being created, for the steps that change
\* neither the links nor any handler's token.
LEMMA FrameSame ==
  ASSUME Core, TypeOK', FlowInv', Monotone, UNCHANGED <<link, tok>>,
         NEW q \in Proc, SameLocals(q)
  PROVE  Handler(q)'
  <1>1. Handler(q)
    BY DEF Core, HandlerInv
  <1> QED
    BY <1>1, Frame DEF Handler

LEMMA HandlerStep ==
  Core /\ [Next]_vars /\ TypeOK' /\ FlowInv' /\ Monotone => HandlerInv'
  <1> SUFFICES ASSUME Core, [Next]_vars, TypeOK', FlowInv', Monotone
               PROVE HandlerInv'
    OBVIOUS
  <1>0. TypeOK /\ \A p \in Proc : Handler(p)
    BY DEF Core, HandlerInv
  <1>1. CASE UNCHANGED locals /\ UNCHANGED link
    BY <1>1, FrameSame DEF locals, SameLocals, HandlerInv
  <1>2. ASSUME NEW p \in Proc, CreateFlow(p) PROVE HandlerInv'
    <2>1. ASSUME NEW q \in Proc, q # p PROVE Handler(q)'
      <3>1. SameLocals(q)
        BY <1>0, <1>2, <2>1 DEF CreateFlow, Goto, SameLocals, TypeOK
      <3>2. pc[q] = "create_flow" => tok[q] # tok[p] /\ tok[q] \in Token
        BY <1>0, <1>2, <2>1 DEF Handler
      <3>3. pc[q] = "create_flow" => link'[tok[q]] = NoLink
        BY <1>0, <1>2, <3>2 DEF CreateFlow, Handler, TypeOK
      <3> QED
        BY <1>0, <1>2, <3>1, <3>3, Frame DEF CreateFlow, Handler
    <2>2. Handler(p)'
      BY <1>0, <1>2 DEF Handler, CreateFlow, Goto, Consumers, TypeOK
    <2> QED
      BY <2>1, <2>2 DEF HandlerInv
  <1>3. ASSUME NEW p \in Proc,
               \/ Consume(p) \/ ConsumeNothing(p) \/ Lookup(p) \/ CreateUser(p)
               \/ CreateUserFails(p) \/ UpsertIdentity(p) \/ IssueSession(p)
               \/ RecordLogin(p) \/ VerifyEmail(p) \/ MarkIdentity(p)
               \/ SetPassword(p) \/ SetPasswordFails(p) \/ RevokeSessions(p)
        PROVE HandlerInv'
    <2> USE <1>0
    <2>1. ASSUME NEW q \in Proc, q # p PROVE Handler(q)'
      <3>1. UNCHANGED <<link, tok>>
        BY <1>3 DEF Consume, ConsumeNothing, Lookup, CreateUser, CreateUserFails,
           UpsertIdentity, IssueSession, RecordLogin, VerifyEmail, MarkIdentity,
           SetPassword, SetPasswordFails, RevokeSessions, store
      <3>2. SameLocals(q)
        BY <1>3, <2>1 DEF Consume, ConsumeNothing, Lookup, CreateUser,
           CreateUserFails, UpsertIdentity, IssueSession, RecordLogin,
           VerifyEmail, MarkIdentity, SetPassword, SetPasswordFails,
           RevokeSessions, Goto, TypeOK, SameLocals
      <3> QED
        BY <3>1, <3>2, FrameSame
    <2>2. Handler(p)'
      <3>1. CASE Consume(p)
        <4>1. /\ tok[p] \in Token /\ link[tok[p]] # NoLink /\ kind[p] \in Kind
              /\ flow[tok[p]] = "open" /\ link[tok[p]].kind = kind[p]
              /\ link[tok[p]] \in Link
          BY <3>1 DEF Consume, Consumable, Handler, TypeOK
        <4>2. redeemed[tok[p]] = 0 /\ link[tok[p]].email \in Email
          BY <4>1 DEF Core, FlowInv, Link
        <4>3. Redeemer(p)' /\ email'[p] \in Email /\ pc'[p] = "lookup"
          BY <3>1, <4>1, <4>2 DEF Consume, Redeemer, Goto, TypeOK
        <4> QED
          BY <3>1, <4>1, <4>3, SentinelAssumption DEF Consume, Handler, Consumers, Kind
      <3>2. CASE ConsumeNothing(p)
        BY <3>2 DEF ConsumeNothing, Goto, Handler, Consumers, TypeOK, store
      <3>3. CASE Lookup(p)
        <4>1. /\ email[p] \in Email /\ kind[p] \in Kind /\ Redeemer(p)
              /\ row'[p] = users[email[p]]
              /\ pc'[p] = AfterLookup(kind[p], email[p], users[email[p]])
          BY <3>3 DEF Lookup, Goto, Handler, Consumers, TypeOK
        <4>2. Redeemer(p)'
          BY <3>3, <4>1 DEF Lookup, Redeemer, store
        <4> QED
          BY <3>3, <4>1, <4>2
          DEF Lookup, AfterLookup, IsActive, Handler, Consumers, Kind, store
      <3>4. CASE CreateUser(p) \/ CreateUserFails(p)
        <4>1. NewUser(p) # NoUser
          <5>1. (SingleOwner \/ kind[p] = "magic_link") \in BOOLEAN
            OBVIOUS
          <5>2. NewUser(p) \in UserRow
            BY <5>1, Zenon DEF NewUser, UserRow
          <5> QED
            BY <5>2, SentinelAssumption
        <4>2. Redeemer(p) => Redeemer(p)'
          BY <3>4 DEF CreateUser, CreateUserFails, Redeemer, store
        <4> QED
          BY <3>4, <4>1, <4>2
          DEF CreateUser, CreateUserFails, Goto, Handler, Consumers, TypeOK, store
      <3>5. CASE UpsertIdentity(p)
        <4>1. Redeemer(p) => Redeemer(p)'
          BY <3>5 DEF UpsertIdentity, Redeemer
        <4>2. kind[p] # "magic_link" => kind[p] = None /\ pc'[p] = "done"
          BY <3>5 DEF UpsertIdentity, Goto, Handler, TypeOK
        <4>3. kind[p] = "magic_link" => pc'[p] \in {"issue", "refused"}
          BY <3>5 DEF UpsertIdentity, Goto, TypeOK
        <4> QED
          BY <3>5, <4>1, <4>2, <4>3, SentinelAssumption
          DEF UpsertIdentity, Handler, Consumers, Kind
      <3>6. CASE IssueSession(p) \/ RecordLogin(p)
        BY <3>6 DEF IssueSession, RecordLogin, Goto, Handler, Consumers, Redeemer, TypeOK
      <3>7. CASE VerifyEmail(p) \/ MarkIdentity(p)
        BY <3>7 DEF VerifyEmail, MarkIdentity, Goto, Handler, Consumers, Redeemer, TypeOK
      <3>8. CASE SetPassword(p) \/ SetPasswordFails(p)
        BY <3>8
        DEF SetPassword, SetPasswordFails, Goto, Handler, Consumers, Redeemer, TypeOK, store
      <3>9. CASE RevokeSessions(p)
        BY <3>9 DEF RevokeSessions, Goto, Handler, Consumers, Redeemer, TypeOK
      <3> QED
        BY <1>3, <3>1, <3>2, <3>3, <3>4, <3>5, <3>6, <3>7, <3>8, <3>9
    <2> QED
      BY <2>1, <2>2 DEF HandlerInv
  <1>4. ASSUME NEW p \in Proc, NEW k \in Kind, NEW e \in Email, NEW t \in Token,
               Request(p, k, e, t)
        PROVE HandlerInv'
    <2>1. ASSUME NEW q \in Proc, q # p PROVE Handler(q)'
      <3>1. SameLocals(q) /\ UNCHANGED link
        BY <1>0, <1>4, <2>1 DEF Request, Goto, SameLocals, TypeOK, store
      <3>2. \A r \in Proc : tok'[r] = IF r = p THEN t ELSE tok[r]
        BY <1>0, <1>4 DEF Request, TypeOK
      <3>3. tok[q] # t
        BY <1>4 DEF Request, FreshToken
      <3> QED
        BY <1>0, <3>1, <3>2, <3>3, Frame DEF Handler
    <2>2. Handler(p)'
      BY <1>0, <1>4 DEF Request, FreshToken, Goto, Handler, Consumers, TypeOK, store
    <2> QED
      BY <2>1, <2>2 DEF HandlerInv
  <1>5. ASSUME NEW p \in Proc, NEW t \in Token, NEW k \in Kind, Present(p, t, k)
        PROVE HandlerInv'
    <2>1. ASSUME NEW q \in Proc, q # p PROVE Handler(q)'
      <3>1. SameLocals(q) /\ UNCHANGED link
        BY <1>0, <1>5, <2>1 DEF Present, Goto, SameLocals, TypeOK, store
      <3>2. \A r \in Proc : tok'[r] = IF r = p THEN t ELSE tok[r]
        BY <1>0, <1>5 DEF Present, TypeOK
      <3>3. pc[q] = "create_flow" => tok[q] # t
        BY <1>0, <1>5 DEF Present, Handler
      <3> QED
        BY <1>0, <3>1, <3>2, <3>3, Frame DEF Handler
    <2>2. Handler(p)'
      BY <1>0, <1>5 DEF Present, Goto, Handler, Consumers, TypeOK, store
    <2> QED
      BY <2>1, <2>2 DEF HandlerInv
  <1>6. ASSUME NEW p \in Proc, NEW e \in Email, Provision(p, e) PROVE HandlerInv'
    <2>1. ASSUME NEW q \in Proc, q # p PROVE Handler(q)'
      <3>1. SameLocals(q) /\ UNCHANGED <<link, tok>>
        BY <1>0, <1>6, <2>1 DEF Provision, Goto, SameLocals, TypeOK, store
      <3> QED
        BY <3>1, FrameSame
    <2>2. Handler(p)'
      BY <1>0, <1>6, SentinelAssumption
      DEF Provision, Goto, Handler, Consumers, Kind, TypeOK, store
    <2> QED
      BY <2>1, <2>2 DEF HandlerInv
  <1>7. ASSUME NEW p \in Proc, Return(p) PROVE HandlerInv'
    <2>1. ASSUME NEW q \in Proc, q # p PROVE Handler(q)'
      <3>1. SameLocals(q) /\ UNCHANGED link
        BY <1>0, <1>7, <2>1 DEF Return, Goto, SameLocals, TypeOK, store
      <3>2. \A r \in Proc : tok'[r] = IF r = p THEN None ELSE tok[r]
        BY <1>0, <1>7 DEF Return, TypeOK
      <3> QED
        BY <1>0, <3>1, <3>2, SentinelAssumption, Frame DEF Handler
    <2>2. Handler(p)'
      BY <1>0, <1>7 DEF Return, Goto, Handler, Consumers, TypeOK, store
    <2> QED
      BY <2>1, <2>2 DEF HandlerInv
  <1>8. ASSUME NEW e \in Email, NEW s \in {"active", "inactive"}, SetStatus(e, s)
        PROVE HandlerInv'
    BY <1>1, <1>8 DEF SetStatus
  <1>9. ASSUME NEW n \in 0..clock, Cleanup(n) PROVE HandlerInv'
    BY <1>1, <1>9 DEF Cleanup
  <1>10. CASE Tick
    BY <1>1, <1>10 DEF Tick, store
  <1>11. CASE UNCHANGED vars
    BY <1>1, <1>11 DEF vars, store
  <1> QED
    BY <1>2, <1>3, <1>4, <1>5, <1>6, <1>7, <1>8, <1>9, <1>10, <1>11 DEF Next, Step

THEOREM CoreInvariant == Spec => []Core
  <1>1. Core /\ [Next]_vars => Core'
    BY TypeStep, FlowStep, StepMonotone, HandlerStep DEF Core
  <1> QED
    BY InitCore, <1>1, PTL DEF Spec

LEMMA CoreStep == Core /\ [Next]_vars => Core' /\ Monotone
  BY TypeStep, FlowStep, StepMonotone, HandlerStep DEF Core

\* Every variable keeps its type, for any sets of users, tokens and handlers.
THEOREM TypeCorrect == Spec => []TypeOK
  BY CoreInvariant, PTL DEF Core

\* The store hands the flow of a mailed token to at most one handler, however
\* many race for it and whatever cleanup deletes (service.py, consume_*).
THEOREM AtMostOnce == Spec => []RedeemedAtMostOnce
  <1>1. Core => RedeemedAtMostOnce
    BY DEF Core, FlowInv, RedeemedAtMostOnce
  <1> QED
    BY <1>1, CoreInvariant, PTL

-----------------------------------------------------------------------------
(* Racing consumers do not all lose *)

LEMMA RejectedStep ==
  ASSUME Core, [Next]_vars, NEW q \in Proc, pc'[q] = "rejected"
  PROVE  ConsumeNothing(q) \/ (pc[q] = "rejected" /\ SameLocals(q))
  <1> USE DEF Core, TypeOK, Goto, SameLocals
  <1>1. CASE UNCHANGED locals
    BY <1>1 DEF locals
  <1>2. ASSUME NEW p \in Proc, Step(p) PROVE ConsumeNothing(q) \/ (pc[q] = "rejected" /\ SameLocals(q))
    <2>1. CASE p # q
      BY <1>2, <2>1 DEF Step, CreateFlow, Consume, ConsumeNothing, Lookup,
         CreateUser, CreateUserFails, UpsertIdentity, IssueSession, RecordLogin,
         VerifyEmail, MarkIdentity, SetPassword, SetPasswordFails, RevokeSessions
    <2>2. CASE p = q /\ ~ConsumeNothing(q)
      BY <1>2, <2>2 DEF Step, CreateFlow, Consume, Lookup, AfterLookup,
         CreateUser, CreateUserFails, UpsertIdentity, IssueSession, RecordLogin,
         VerifyEmail, MarkIdentity, SetPassword, SetPasswordFails, RevokeSessions
    <2> QED
      BY <2>1, <2>2
  <1>3. ASSUME NEW p \in Proc, Return(p) \/ (\E e \in Email : Provision(p, e))
                 \/ (\E t \in Token, k \in Kind : Present(p, t, k))
                 \/ (\E k \in Kind, e \in Email, t \in Token : Request(p, k, e, t))
        PROVE ConsumeNothing(q) \/ (pc[q] = "rejected" /\ SameLocals(q))
    BY <1>3 DEF Return, Provision, Present, Request
  <1> QED
    BY <1>1, <1>2, <1>3 DEF Next, SetStatus, Cleanup, Tick, vars

\* A handler is turned away only for a reason: the token was redeemed, is of
\* another kind, or has expired.
THEOREM RejectionsJustified == Spec => []RejectionJustified
  <1>1. Init => RejectionJustified
    BY DEF Init, RejectionJustified
  <1>2. Core /\ RejectionJustified /\ [Next]_vars => RejectionJustified'
    <2> SUFFICES ASSUME Core, RejectionJustified, [Next]_vars,
                        NEW q \in Proc, pc'[q] = "rejected"
                 PROVE \/ redeemed'[tok'[q]] > 0
                       \/ link'[tok'[q]].kind # kind'[q]
                       \/ clock' >= link'[tok'[q]].expires
      BY DEF RejectionJustified
    <2>0. Core' /\ Monotone /\ clock \in Nat /\ clock' \in Nat
      BY CoreStep DEF Core, TypeOK
    <2>1. /\ tok'[q] = tok[q] /\ kind'[q] = kind[q]
          /\ tok[q] \in Token /\ link[tok[q]] # NoLink
      BY RejectedStep DEF ConsumeNothing, SameLocals, Core, HandlerInv, Handler
    <2>2. link'[tok[q]] = link[tok[q]] /\ redeemed'[tok[q]] >= redeemed[tok[q]]
      BY <2>0, <2>1 DEF Monotone
    <2>3. /\ redeemed[tok[q]] \in Nat /\ redeemed'[tok[q]] \in Nat
          /\ link[tok[q]].expires \in Nat
      BY <2>0, <2>1 DEF Core, TypeOK, Link
    <2>4. CASE ConsumeNothing(q)
      <3>1. now[q] <= clock /\ now[q] \in Nat
        BY DEF Core, TypeOK, HandlerInv, Handler
      <3>2. flow[tok[q]] # "open" => redeemed[tok[q]] > 0 \/ clock >= link[tok[q]].expires
        BY <2>1, <2>3 DEF Core, TypeOK, FlowInv
      <3> QED
        BY <2>0, <2>1, <2>2, <2>3, <2>4, <3>1, <3>2
        DEF ConsumeNothing, Consumable, Monotone
    <2>5. CASE pc[q] = "rejected"
      BY <2>0, <2>1, <2>2, <2>3, <2>5 DEF RejectionJustified, Monotone
    <2> QED
      BY <2>4, <2>5, RejectedStep
  <1> QED
    BY <1>1, <1>2, CoreInvariant, PTL DEF Spec

\* A token past its expiry with no earlier request under way is never redeemed.
THEOREM NoLateRedemptions == Spec => NoLateRedemption
  <1>1. Core /\ [Next]_vars
          => [\A t \in Token : Lapsed(t) => redeemed'[t] = redeemed[t]]_vars
    <2> SUFFICES ASSUME Core, [Next]_vars, NEW t \in Token, Lapsed(t)
                 PROVE redeemed'[t] = redeemed[t]
      OBVIOUS
    <2>1. ASSUME NEW p \in Proc, Consume(p) PROVE redeemed'[t] = redeemed[t]
      <3>1. tok[p] # t
        BY <2>1 DEF Consume, Consumable, Lapsed, Core, TypeOK, Link
      <3> QED
        BY <2>1, <3>1 DEF Consume, Core, TypeOK
    <2>2. CASE UNCHANGED redeemed
      BY <2>2
    <2> QED
      BY <2>1, <2>2, ZenonT(60) DEF Next, vars, store, locals, Tick, Cleanup, SetStatus, Return,
         Provision, Present, Request, Step, CreateFlow, ConsumeNothing, Lookup,
         CreateUser, CreateUserFails, UpsertIdentity, IssueSession, RecordLogin,
         VerifyEmail, MarkIdentity, SetPassword, SetPasswordFails, RevokeSessions
  <1> QED
    BY <1>1, CoreInvariant, PTL DEF Spec, NoLateRedemption

-----------------------------------------------------------------------------
(* What a redemption leaves behind *)

\* A redeemed token keeps what was mailed, and is never redeemed again.
LEMMA RedeemedStays ==
  ASSUME Core, Core', Monotone, NEW t \in Token, redeemed[t] > 0
  PROVE  link'[t] = link[t] /\ redeemed'[t] = 1 /\ redeemed[t] = 1
  <1>1. redeemed \in [Token -> Nat] /\ redeemed' \in [Token -> Nat]
    BY DEF Core, TypeOK
  <1>2. link[t] # NoLink /\ redeemed[t] <= 1 /\ redeemed'[t] <= 1
    BY <1>1 DEF Core, FlowInv
  <1> QED
    BY <1>1, <1>2 DEF Monotone

\* A session and a password stem from the redemption of a token of the right
\* kind that was mailed to their user (consume_magic_link, consume_password_reset).
THEOREM EffectsAreJustified == Spec => []EffectsJustified
  <1>1. Init => EffectsJustified
    BY DEF Init, EffectsJustified
  <1>2. Core /\ EffectsJustified /\ [Next]_vars => EffectsJustified'
    <2> SUFFICES ASSUME Core, EffectsJustified, [Next]_vars PROVE EffectsJustified'
      OBVIOUS
    <2>0. Core' /\ Monotone
      BY CoreStep
    <2>1. ASSUME NEW t \in Token, session'[t] # "none"
          PROVE  redeemed'[t] = 1 /\ link'[t].kind = "magic_link"
      <3>1. redeemed[t] = 1 /\ link[t].kind = "magic_link"
        <4>1. CASE session[t] # "none"
          BY <4>1 DEF EffectsJustified
        <4>2. CASE \E p \in Proc : IssueSession(p) /\ tok[p] = t
          BY <4>2 DEF IssueSession, Core, HandlerInv, Handler, Consumers, Kind, Redeemer
        <4>3. CASE session[t] = "none" /\ ~\E p \in Proc : IssueSession(p) /\ tok[p] = t
          <5>0. session \in [Token -> {"none", "live", "revoked"}]
            BY DEF Core, TypeOK
          <5>1. ASSUME UNCHANGED session PROVE session'[t] = session[t]
            BY <5>1
          <5>2. ASSUME NEW p \in Proc, IssueSession(p) PROVE session'[t] = session[t]
            <6>1. tok[p] # t
              BY <4>3, <5>2
            <6> QED
              BY <5>0, <5>2, <6>1 DEF IssueSession
          <5>3. ASSUME NEW p \in Proc, RevokeSessions(p) PROVE session'[t] = session[t]
            BY <4>3, <5>0, <5>3 DEF RevokeSessions, SessionsOf
          <5>4. session'[t] = session[t]
            BY <5>1, <5>2, <5>3, ZenonT(60) DEF Next, vars, store, locals, Tick, Cleanup, SetStatus,
               Return, Provision, Present, Request, Step, CreateFlow, Consume, ConsumeNothing,
               Lookup, CreateUser, CreateUserFails, UpsertIdentity, RecordLogin, VerifyEmail,
               MarkIdentity, SetPassword, SetPasswordFails
          <5> QED
            BY <2>1, <4>3, <5>4
        <4> QED
          BY <4>1, <4>2, <4>3
      <3> QED
        BY <2>0, <3>1, RedeemedStays
    <2>2. ASSUME NEW e \in Email, password'[e] # None
          PROVE  /\ redeemed'[password'[e]] = 1
                 /\ link'[password'[e]].kind = "password_reset"
                 /\ link'[password'[e]].email = e
      <3>1. /\ password'[e] \in Token
            /\ redeemed[password'[e]] = 1
            /\ link[password'[e]].kind = "password_reset"
            /\ link[password'[e]].email = e
        <4>1. CASE password'[e] = password[e]
          BY <2>2, <4>1 DEF EffectsJustified, Core, TypeOK
        <4>2. CASE \E p \in Proc : SetPassword(p) /\ email[p] = e
          BY <4>2 DEF SetPassword, Core, TypeOK, HandlerInv, Handler, Consumers, Kind, Redeemer
        <4>3. CASE ~\E p \in Proc : SetPassword(p) /\ email[p] = e
          <5>1. password'[e] = password[e]
            BY <4>3, ZenonT(60) DEF Core, TypeOK, Next, vars, store, locals, Tick, Cleanup, SetStatus,
               Return, Provision, Present, Request, Step, CreateFlow, Consume, ConsumeNothing,
               Lookup, CreateUser, CreateUserFails, UpsertIdentity, IssueSession, RecordLogin,
               VerifyEmail, MarkIdentity, SetPassword, SetPasswordFails, RevokeSessions
          <5> QED
            BY <4>1, <5>1
        <4> QED
          BY <4>2, <4>3
      <3> QED
        BY <2>0, <3>1, RedeemedStays
    <2> QED
      BY <2>1, <2>2 DEF EffectsJustified
  <1> QED
    BY <1>1, <1>2, CoreInvariant, PTL DEF Spec

-----------------------------------------------------------------------------
(* Who is verified, and who exists *)

\* The row a handler is about to write is verified only where that was proved.
RowsProved ==
  \A p \in Proc : /\ pc[p] \in {"identity", "issue", "record"}
                  /\ row[p].verified
                  => ProvedByMail(email[p])

\* What was proved stays proved.
LEMMA ProofLasts ==
  ASSUME Core, Core', Monotone, NEW e, ProvedByMail(e)
  PROVE  ProvedByMail(e)'
  <1>1. CASE SingleOwner
    BY <1>1 DEF ProvedByMail
  <1>2. ASSUME NEW t \in Token, redeemed[t] > 0, link[t].email = e,
               link[t].kind \in {"magic_link", "email_verification"}
        PROVE  ProvedByMail(e)'
    BY <1>2, RedeemedStays DEF ProvedByMail
  <1> QED
    BY <1>1, <1>2 DEF ProvedByMail

\* A handler that redeemed a link of one of these kinds has proved its address.
LEMMA RedeemerProves ==
  ASSUME Core, NEW p \in Proc, pc[p] \in Consumers,
         kind[p] \in {"magic_link", "email_verification"}
  PROVE  ProvedByMail(email[p])
  BY DEF Core, HandlerInv, Handler, Kind, Redeemer, ProvedByMail

\* A new account is verified for the owner or by a link.
LEMMA NewUserIsProved ==
  ASSUME NEW p \in Proc, NewUser(p).verified, kind[p] # "magic_link"
  PROVE  SingleOwner
  <1>1. NewUser(p).verified <=> (SingleOwner \/ kind[p] = "magic_link")
    BY Zenon DEF NewUser
  <1> QED
    BY <1>1, Zenon

\* A step verifies a row only of an address that was proved by then.
LEMMA UsersProved ==
  ASSUME Core, VerifiedByMail, RowsProved, [Next]_vars,
         NEW e \in Email, users'[e] # NoUser, users'[e].verified
  PROVE  ProvedByMail(e)
  <1> USE DEF Core, TypeOK
  <1>1. CASE users'[e] = users[e]
    BY <1>1 DEF VerifiedByMail, Exists
  <1>2. ASSUME NEW p \in Proc, CreateUser(p), email[p] = e PROVE ProvedByMail(e)
    <2>1. pc[p] \in Consumers /\ kind[p] \in {"magic_link", None}
      BY <1>2 DEF CreateUser, Consumers, HandlerInv, Handler
    <2>2. CASE kind[p] = "magic_link"
      BY <1>2, <2>1, <2>2, RedeemerProves
    <2>3. CASE kind[p] # "magic_link"
      <3>1. users'[e] = NewUser(p)
        BY <1>2 DEF CreateUser
      <3> QED
        BY <2>3, <3>1, NewUserIsProved DEF ProvedByMail
    <2> QED
      BY <2>2, <2>3
  <1>3. ASSUME NEW p \in Proc, RecordLogin(p), email[p] = e PROVE ProvedByMail(e)
    <2>1. users'[e] = row[p]
      BY <1>3 DEF RecordLogin
    <2> QED
      BY <1>3, <2>1 DEF RecordLogin, RowsProved
  <1>4. ASSUME NEW p \in Proc, VerifyEmail(p), email[p] = e PROVE ProvedByMail(e)
    BY <1>4, RedeemerProves DEF VerifyEmail, Consumers, HandlerInv, Handler
  <1>5. ASSUME NEW s \in {"active", "inactive"}, SetStatus(e, s) PROVE ProvedByMail(e)
    <2>1. users'[e].verified = users[e].verified /\ Exists(e)
      BY <1>5 DEF SetStatus
    <2> QED
      BY <2>1 DEF VerifiedByMail
  <1>6. CASE users'[e] # users[e]
    <2>1. \/ \E p \in Proc : email[p] = e /\ (CreateUser(p) \/ RecordLogin(p) \/ VerifyEmail(p))
          \/ \E s \in {"active", "inactive"} : SetStatus(e, s)
      BY <1>6, ZenonT(60) DEF Next, vars, store, locals, Tick, Cleanup, SetStatus, Return, Provision,
         Present, Request, Step, CreateFlow, Consume, ConsumeNothing, Lookup, CreateUser,
         CreateUserFails, UpsertIdentity, IssueSession, RecordLogin, VerifyEmail,
         MarkIdentity, SetPassword, SetPasswordFails, RevokeSessions
    <2> QED
      BY <2>1, <1>2, <1>3, <1>4, <1>5
  <1> QED
    BY <1>1, <1>6

LEMMA IdentitiesProved ==
  ASSUME Core, VerifiedByMail, RowsProved, [Next]_vars,
         NEW e \in Email, identity'[e] = "verified"
  PROVE  ProvedByMail(e)
  <1> USE DEF Core, TypeOK
  <1>1. CASE identity'[e] = identity[e]
    BY <1>1 DEF VerifiedByMail
  <1>2. ASSUME NEW p \in Proc, UpsertIdentity(p), email[p] = e PROVE ProvedByMail(e)
    BY <1>2 DEF UpsertIdentity, RowsProved
  <1>3. ASSUME NEW p \in Proc, MarkIdentity(p), email[p] = e PROVE ProvedByMail(e)
    BY <1>3, RedeemerProves DEF MarkIdentity, Consumers, HandlerInv, Handler
  <1>4. CASE identity'[e] # identity[e]
    <2>1. \E p \in Proc : email[p] = e /\ (UpsertIdentity(p) \/ MarkIdentity(p))
      BY <1>4, ZenonT(60) DEF Next, vars, store, locals, Tick, Cleanup, SetStatus, Return, Provision,
         Present, Request, Step, CreateFlow, Consume, ConsumeNothing, Lookup, CreateUser,
         CreateUserFails, UpsertIdentity, IssueSession, RecordLogin, VerifyEmail,
         MarkIdentity, SetPassword, SetPasswordFails, RevokeSessions
    <2> QED
      BY <2>1, <1>2, <1>3
  <1> QED
    BY <1>1, <1>4

LEMMA RowsStep ==
  ASSUME Core, Core', Monotone, VerifiedByMail, RowsProved, [Next]_vars
  PROVE  RowsProved'
  <1> USE DEF Core, TypeOK
  <1> SUFFICES ASSUME NEW q \in Proc, pc'[q] \in {"identity", "issue", "record"},
                      row'[q].verified, NEW e, e = email'[q]
               PROVE  ProvedByMail(e)'
    BY DEF RowsProved, ProvedByMail
  <1>1. email'[q] = email[q] /\ ProvedByMail(email[q])
    <2>1. CASE Lookup(q)
      <3>1. /\ row'[q] = users[email[q]] /\ email[q] \in Email /\ kind[q] \in Kind
            /\ email'[q] = email[q] /\ row'[q] # NoUser
        BY <2>1 DEF Lookup, HandlerInv, Handler, Consumers
      <3> QED
        BY <3>1 DEF VerifiedByMail, Exists
    <2>2. CASE CreateUser(q)
      <3>1. pc[q] \in Consumers /\ kind[q] \in {"magic_link", None}
        BY <2>2 DEF CreateUser, Consumers, HandlerInv, Handler
      <3>2. row'[q] = NewUser(q) /\ email'[q] = email[q]
        BY <2>2 DEF CreateUser
      <3>3. CASE kind[q] = "magic_link"
        BY <3>1, <3>2, <3>3, RedeemerProves
      <3>4. CASE kind[q] # "magic_link"
        BY <3>2, <3>4, NewUserIsProved DEF ProvedByMail
      <3> QED
        BY <3>3, <3>4
    <2>3. CASE ~Lookup(q) /\ ~CreateUser(q)
      <3>1. /\ email'[q] = email[q] /\ row'[q] = row[q]
            /\ pc[q] \in {"identity", "issue", "record"}
        <4>1. CASE UNCHANGED locals
          BY <4>1 DEF locals
        <4>2. ASSUME NEW p \in Proc, p # q, Step(p)
              PROVE  email'[q] = email[q] /\ row'[q] = row[q] /\ pc'[q] = pc[q]
          BY <4>2 DEF Goto, Step, CreateFlow, Consume, ConsumeNothing, Lookup, CreateUser,
             CreateUserFails, UpsertIdentity, IssueSession, RecordLogin, VerifyEmail,
             MarkIdentity, SetPassword, SetPasswordFails, RevokeSessions
        <4>3. CASE Step(q)
          BY <2>3, <4>3 DEF Goto, Step, CreateFlow, Consume, ConsumeNothing,
             CreateUserFails, UpsertIdentity, IssueSession, RecordLogin, VerifyEmail,
             MarkIdentity, SetPassword, SetPasswordFails, RevokeSessions
        <4>4. ASSUME NEW p \in Proc, Return(p) \/ (\E a \in Email : Provision(p, a))
                       \/ (\E t \in Token, k \in Kind : Present(p, t, k))
                       \/ (\E k \in Kind, a \in Email, t \in Token : Request(p, k, a, t))
              PROVE  p # q /\ email'[q] = email[q] /\ row'[q] = row[q] /\ pc'[q] = pc[q]
          BY <4>4 DEF Goto, Return, Provision, Present, Request
        <4> QED
          BY <4>1, <4>2, <4>3, <4>4 DEF Next, SetStatus, Cleanup, Tick, vars
      <3> QED
        BY <3>1 DEF RowsProved
    <2> QED
      BY <2>1, <2>2, <2>3
  <1>2. ProvedByMail(e)
    BY <1>1
  <1> QED
    BY <1>2, ProofLasts

\* An address counts as verified only after a link mailed to it came back, for any
\* number of handlers that write back rows they read before.
THEOREM VerifiedOnlyByMail == Spec => []VerifiedByMail
  <1>1. Init => VerifiedByMail /\ RowsProved
    BY SentinelAssumption DEF Init, VerifiedByMail, RowsProved, Exists
  <1>2. Core /\ VerifiedByMail /\ RowsProved /\ [Next]_vars => (VerifiedByMail /\ RowsProved)'
    <2> SUFFICES ASSUME Core, VerifiedByMail, RowsProved, [Next]_vars
                 PROVE  VerifiedByMail' /\ RowsProved'
      OBVIOUS
    <2>0. Core' /\ Monotone
      BY CoreStep
    <2>1. ASSUME NEW e \in Email,
                 (users'[e] # NoUser /\ users'[e].verified) \/ identity'[e] = "verified"
          PROVE  ProvedByMail(e)'
      BY <2>0, <2>1, UsersProved, IdentitiesProved, ProofLasts
    <2>2. RowsProved'
      BY <2>0, RowsStep
    <2> QED
      BY <2>1, <2>2 DEF VerifiedByMail, Exists
  <1> QED
    BY <1>1, <1>2, CoreInvariant, PTL DEF Spec

\* Links go only to addresses that the profile admits, and so do new accounts.
Admitted ==
  /\ \A t \in Token : link[t] # NoLink => Admits(link[t].email)
  /\ \A p \in Proc : pc[p] \in {"create_flow", "create"} => Admits(email[p])

\* In the single_owner profile, where the owner is the only account to begin with,
\* nobody else ever gets one (assert_owner_email in all that creates an account).
THEOREM OwnerIsAlone ==
  ASSUME SingleOwner => InitialUsers \subseteq {Owner}
  PROVE  Spec => []OnlyOwnerExists
  <1>1. Init => OnlyOwnerExists /\ Admitted
    BY DEF Init, OnlyOwnerExists, Admitted, Exists
  <1>2. Core /\ OnlyOwnerExists /\ Admitted /\ [Next]_vars => (OnlyOwnerExists /\ Admitted)'
    <2> SUFFICES ASSUME Core, OnlyOwnerExists, Admitted, [Next]_vars
                 PROVE  OnlyOwnerExists' /\ Admitted'
      OBVIOUS
    <2> USE DEF Core, TypeOK
    <2>0. ASSUME NEW p \in Proc, pc[p] \in Consumers, kind[p] \in Kind PROVE Admits(email[p])
      BY <2>0 DEF HandlerInv, Handler, Redeemer, Admitted
    <2>1. OnlyOwnerExists'
      <3> SUFFICES ASSUME NEW e \in Email, SingleOwner, users'[e] # NoUser PROVE e = Owner
        BY DEF OnlyOwnerExists, Exists
      <3>1. CASE users'[e] = users[e] \/ Exists(e)
        BY <3>1 DEF OnlyOwnerExists, Exists
      <3>2. ASSUME NEW p \in Proc, email[p] = e, CreateUser(p) PROVE e = Owner
        BY <3>2 DEF CreateUser, Admitted, Admits
      <3>3. ASSUME NEW p \in Proc, email[p] = e, RecordLogin(p) \/ VerifyEmail(p)
            PROVE  e = Owner
        <4>1. pc[p] \in Consumers /\ kind[p] \in Kind
          BY <3>3 DEF RecordLogin, VerifyEmail, Consumers, HandlerInv, Handler, Kind
        <4> QED
          BY <2>0, <3>3, <4>1 DEF Admits
      <3>4. CASE users'[e] # users[e] /\ ~Exists(e)
        <4>1. \E p \in Proc : email[p] = e /\ (CreateUser(p) \/ RecordLogin(p) \/ VerifyEmail(p))
          BY <3>4, ZenonT(60) DEF Next, vars, store, locals, Tick, Cleanup, SetStatus, Return, Provision,
             Present, Request, Step, CreateFlow, Consume, ConsumeNothing, Lookup, CreateUser,
             CreateUserFails, UpsertIdentity, IssueSession, RecordLogin, VerifyEmail,
             MarkIdentity, SetPassword, SetPasswordFails, RevokeSessions
        <4> QED
          BY <4>1, <3>2, <3>3
      <3> QED
        BY <3>1, <3>4
    <2>2. ASSUME NEW t \in Token, link'[t] # NoLink PROVE Admits(link'[t].email)
      <3>1. CASE link'[t] = link[t]
        BY <2>2, <3>1 DEF Admitted
      <3>2. ASSUME NEW p \in Proc, CreateFlow(p), tok[p] = t PROVE Admits(link'[t].email)
        <4>1. link'[t].email = email[p]
          BY <3>2 DEF CreateFlow
        <4> QED
          BY <3>2, <4>1 DEF CreateFlow, Admitted
      <3>3. CASE ~\E p \in Proc : CreateFlow(p) /\ tok[p] = t
        <4>1. link'[t] = link[t]
          BY <3>3, ZenonT(60) DEF Next, vars, store, locals, Tick, Cleanup, SetStatus, Return, Provision,
             Present, Request, Step, CreateFlow, Consume, ConsumeNothing, Lookup, CreateUser,
             CreateUserFails, UpsertIdentity, IssueSession, RecordLogin, VerifyEmail,
             MarkIdentity, SetPassword, SetPasswordFails, RevokeSessions
        <4> QED
          BY <3>1, <4>1
      <3> QED
        BY <3>2, <3>3
    <2>3. ASSUME NEW q \in Proc, pc'[q] \in {"create_flow", "create"} PROVE Admits(email'[q])
      <3>1. CASE Lookup(q)
        BY <2>0, <2>3, <3>1 DEF Lookup, HandlerInv, Handler, Consumers
      <3>2. ASSUME NEW k \in Kind, NEW e \in Email, NEW t \in Token, Request(q, k, e, t)
            PROVE  Admits(email'[q])
        BY <3>2 DEF Request, MayRequest
      <3>3. ASSUME NEW e \in Email, Provision(q, e) PROVE Admits(email'[q])
        BY <3>3 DEF Provision
      <3>4. CASE pc'[q] = pc[q] /\ email'[q] = email[q]
        BY <2>3, <3>4 DEF Admitted
      <3>5. CASE UNCHANGED locals
        BY <3>4, <3>5 DEF locals
      <3>6. ASSUME NEW p \in Proc, p # q, Step(p) PROVE pc'[q] = pc[q] /\ email'[q] = email[q]
        BY <3>6 DEF Goto, Step, CreateFlow, Consume, ConsumeNothing, Lookup, CreateUser,
           CreateUserFails, UpsertIdentity, IssueSession, RecordLogin, VerifyEmail,
           MarkIdentity, SetPassword, SetPasswordFails, RevokeSessions
      <3>7. CASE Step(q) /\ ~Lookup(q)
        BY <2>3, <3>7 DEF Goto, Step, CreateFlow, Consume, ConsumeNothing, CreateUser,
           CreateUserFails, UpsertIdentity, IssueSession, RecordLogin, VerifyEmail,
           MarkIdentity, SetPassword, SetPasswordFails, RevokeSessions
      <3>8. ASSUME NEW p \in Proc, p # q,
                   Return(p) \/ (\E e \in Email : Provision(p, e))
                   \/ (\E t \in Token, k \in Kind : Present(p, t, k))
                   \/ (\E k \in Kind, e \in Email, t \in Token : Request(p, k, e, t))
            PROVE  pc'[q] = pc[q] /\ email'[q] = email[q]
        BY <3>8 DEF Goto, Return, Provision, Present, Request
      <3>9. CASE Return(q) \/ (\E t \in Token, k \in Kind : Present(q, t, k))
        BY <2>3, <3>9 DEF Goto, Return, Present
      <3> QED
        BY <3>1, <3>2, <3>3, <3>4, <3>5, <3>6, <3>7, <3>8, <3>9
        DEF Next, SetStatus, Cleanup, Tick, vars
    <2> QED
      BY <2>1, <2>2, <2>3 DEF Admitted
  <1> QED
    BY <1>1, <1>2, CoreInvariant, PTL DEF Spec

-----------------------------------------------------------------------------
(* Refinement of OneTimeToken *)

\* The flows of the store and the handlers that race for them implement the
\* abstract one-time token.
THEOREM Refinement == Spec => ImplementsOneTimeToken
  <1> DEFINE st == [t \in Token |-> TokenStatus(t)]
  <1>1. Init => Abstract!Init
    BY DEF Init, Abstract!Init, TokenStatus
  <1>2. Core /\ [Next]_vars => [Abstract!Next]_st
    <2> SUFFICES ASSUME Core, [Next]_vars PROVE Abstract!Next \/ st' = st
      OBVIOUS
    <2>0. /\ link \in [Token -> Link \cup {NoLink}]
          /\ flow \in [Token -> {"absent", "open", "consumed"}]
          /\ redeemed \in [Token -> Nat] /\ FlowInv
      BY DEF Core, TypeOK
    <2>1. CASE UNCHANGED <<link, flow, redeemed>>
      BY <2>1 DEF TokenStatus
    <2>2. ASSUME NEW p \in Proc, CreateFlow(p) PROVE Abstract!Next
      <3>1. tok[p] \in Token /\ link[tok[p]] = NoLink /\ redeemed[tok[p]] = 0
        BY <2>2 DEF CreateFlow, Core, HandlerInv, Handler, FlowInv
      <3>2. PICK l \in Link : link' = [link EXCEPT ![tok[p]] = l]
        <4>1. [kind |-> kind[p], email |-> email[p], expires |-> now[p] + Ttl]
                \in Link
          BY <2>2, ConfigAssumption
          DEF CreateFlow, Core, HandlerInv, Handler, TypeOK, Link
        <4> QED
          BY <2>2, <4>1 DEF CreateFlow
      <3>a. \A t \in Token : TokenStatus(t)' =
               IF t = tok[p] THEN "issued" ELSE TokenStatus(t)
        BY <2>0, <2>2, <3>1, <3>2, SentinelAssumption DEF CreateFlow, TokenStatus
      <3>3. st' = [st EXCEPT ![tok[p]] = "issued"]
        BY <3>a
      <3>4. Abstract!Issue(tok[p])
        BY <3>1, <3>3 DEF Abstract!Issue, TokenStatus
      <3> QED
        BY <3>1, <3>4 DEF Abstract!Next
    <2>3. ASSUME NEW p \in Proc, Consume(p) PROVE Abstract!Next
      <3>1. /\ tok[p] \in Token /\ link[tok[p]] # NoLink
            /\ redeemed[tok[p]] = 0 /\ flow[tok[p]] = "open"
        BY <2>3 DEF Consume, Consumable, Core, HandlerInv, Handler, FlowInv
      <3>a. \A t \in Token : TokenStatus(t)' =
               IF t = tok[p] THEN "redeemed" ELSE TokenStatus(t)
        BY <2>0, <2>3, <3>1 DEF Consume, TokenStatus
      <3>2. st' = [st EXCEPT ![tok[p]] = "redeemed"]
        BY <3>a
      <3>3. Abstract!Redeem(tok[p])
        BY <3>1, <3>2 DEF Abstract!Redeem, TokenStatus
      <3> QED
        BY <3>1, <3>3 DEF Abstract!Next
    <2>4. ASSUME NEW n \in 0..clock, Cleanup(n) PROVE Abstract!Next
      <3> DEFINE S == {t \in Token : st[t] = "issued" /\ link[t].expires <= n}
      <3>1. \A t \in Token : st[t] = "issued" => link[t] # NoLink /\ redeemed[t] = 0
        BY <2>0 DEF TokenStatus, FlowInv
      <3>2. \A t \in Token : TokenStatus(t)' = IF t \in S THEN "lapsed" ELSE TokenStatus(t)
        BY <2>0, <2>4, <3>1 DEF Cleanup, TokenStatus, FlowInv
      <3>3. Abstract!Lapse(S)
        BY <3>2 DEF Abstract!Lapse
      <3> QED
        BY <3>3 DEF Abstract!Next
    <2> QED
      BY <2>1, <2>2, <2>3, <2>4 DEF Next, vars, store, locals, Tick, SetStatus, Return,
         Provision, Present, Request, Step, ConsumeNothing, Lookup,
         CreateUser, CreateUserFails, UpsertIdentity, IssueSession, RecordLogin,
         VerifyEmail, MarkIdentity, SetPassword, SetPasswordFails, RevokeSessions
  <1> QED
    BY <1>1, <1>2, CoreInvariant, PTL DEF Spec, ImplementsOneTimeToken, Abstract!Spec
=============================================================================
