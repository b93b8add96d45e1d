---------------------------- MODULE BrowserProofs ----------------------------
(***************************************************************************)
(* Proofs about Browser, for every number of users, subjects, tokens,      *)
(* tabs and handlers.                                                      *)
(*                                                                         *)
(* Social: the inductive invariant Core says what the row of a state has   *)
(* to do with its redemption (FlowInv) and what a handler has checked at   *)
(* each label (Knows); Linked adds that a handler of a subject nobody      *)
(* contests has the user its identity is linked to.  Csrf: FormCore        *)
(* follows the tokens from the cookie and the tabs through the handlers.   *)
(* Tabs: LoginCore says which attempts nothing has spoilt, and that each   *)
(* of these has one callback.  The rate limiter's proofs are those of      *)
(* RateLimitProofs.                                                        *)
(***************************************************************************)
EXTENDS Browser, TLAPS

\* What the row of a state and the history say of each other.
FlowInv ==
  \A s \in State :
    /\ begun[s] = None => flow[s] = "absent"
    /\ flow[s] = "consumed" => redeemed[s] = 1 /\ begun[s] # None
    /\ flow[s] # "consumed" => redeemed[s] = 0

Past == {"identity", "load", "lookup", "create", "link", "issue", "record"}

\* A handler, or a session, has redeemed the state it came with.
Redeemed(s, i, n) ==
  /\ s \in State /\ redeemed[s] = 1
  /\ begun[s].provider = i[1]
  /\ begun[s].nonce \in {None, n}

Knows(p) ==
  /\ h[p].pc # "idle" => h[p].profile \in Profile
  /\ h[p].pc \in {"read_state", "consume"} => h[p].state \in State /\ begun[h[p].state] # None
  /\ h[p].pc = "consume" => Matches(p, begun[h[p].state])
  /\ h[p].pc \in Past /\ h[p].state # None =>
       Redeemed(h[p].state, SubjectOf(p), h[p].nonce)
  /\ h[p].pc = "lookup" => h[p].profile.email \in Email
  /\ h[p].pc \in {"load", "create", "link", "issue", "record"} => h[p].user \in Email
  /\ h[p].pc = "link" /\ LinkVerifiedOnly => h[p].created \/ h[p].profile.verified

Core == TypeOK /\ FlowInv /\ \A p \in Proc : Knows(p)

LEMMA InitCore == Init => Core
  <1> SUFFICES ASSUME Init PROVE Core
    OBVIOUS
  <1>1. Idle \in Handler
    BY DEF Idle, Handler, Label
  <1>2. TypeOK
    BY <1>1 DEF Init, TypeOK
  <1>3. FlowInv /\ \A p \in Proc : Knows(p)
    BY DEF Init, FlowInv, Knows, Idle, Past
  <1> QED
    BY <1>2, <1>3 DEF Core

-----------------------------------------------------------------------------
(* Types *)

\* What a handler is sent to by a step has the type of a handler.
LEMMA HandlerTypes ==
  ASSUME Core, NEW p \in Proc
  PROVE  /\ Idle \in Handler
         /\ \A l \in Label : [h[p] EXCEPT !.pc = l] \in Handler
         /\ \A l \in Label, u \in Email : [h[p] EXCEPT !.pc = l, !.user = u] \in Handler
         /\ \A l \in Label, r \in Row \cup {None} :
              [h[p] EXCEPT !.pc = l, !.row = r] \in Handler
         /\ \A u \in Email, r \in Row \cup {None} :
              [h[p] EXCEPT !.pc = "link", !.user = u, !.row = r] \in Handler
         /\ \A r \in Row :
              [h[p] EXCEPT !.pc = "link", !.created = TRUE, !.row = r] \in Handler
  <1>1. h[p] \in Handler
    BY DEF Core, TypeOK
  <1>2. /\ Idle \in Handler
        /\ \A l \in Label : [h[p] EXCEPT !.pc = l] \in Handler
        /\ \A l \in Label, u \in Email : [h[p] EXCEPT !.pc = l, !.user = u] \in Handler
    BY <1>1 DEF Handler, Idle, Label
  <1>3. \A l \in Label, r \in Row \cup {None} : [h[p] EXCEPT !.pc = l, !.row = r] \in Handler
    BY <1>1 DEF Handler
  <1>4. \A u \in Email, r \in Row \cup {None} :
          [h[p] EXCEPT !.pc = "link", !.user = u, !.row = r] \in Handler
    BY <1>1 DEF Handler, Label
  <1>5. \A r \in Row : [h[p] EXCEPT !.pc = "link", !.created = TRUE, !.row = r] \in Handler
    BY <1>1 DEF Handler, Label
  <1> QED
    BY <1>2, <1>3, <1>4, <1>5

LEMMA Successor == \A n \in Nat : n + 1 \in Nat
  OBVIOUS

LEMMA NewRowType == ASSUME NEW p \in Proc PROVE NewRow(p) \in Row
  BY DEF NewRow, Row

LEMMA TypeStep == Core /\ [Next]_vars => TypeOK'
  <1> SUFFICES ASSUME Core, [Next]_vars PROVE TypeOK'
    OBVIOUS
  <1>0. TypeOK /\ \A p \in Proc : Knows(p)
    BY DEF Core
  <1>1. CASE UNCHANGED vars
    BY <1>0, <1>1 DEF vars, TypeOK
  <1>2. ASSUME NEW s \in State, NEW v \in Provider, NEW n \in Nonce \cup {None},
               BeginSocialLogin(s, v, n)
        PROVE  TypeOK'
    BY <1>0, <1>2 DEF BeginSocialLogin, TypeOK, Begun
  <1>3. ASSUME NEW s \in State, Lapse(s) PROVE TypeOK'
    BY <1>0, <1>3 DEF Lapse, TypeOK
  <1>4. ASSUME NEW p \in Proc, NEW s \in State \cup {None}, NEW n \in Nonce \cup {None},
               NEW f \in Profile, LoginSocial(p, s, n, f)
        PROVE  TypeOK'
    <2>1. [Idle EXCEPT !.pc = IF s = None THEN "identity" ELSE "read_state",
                       !.state = s, !.nonce = n, !.profile = f] \in Handler
      BY DEF Idle, Handler, Label
    <2> QED
      BY <1>0, <1>4, <2>1 DEF LoginSocial, TypeOK
  <1>5. ASSUME NEW p \in Proc, Step(p) PROVE TypeOK'
    <2> USE <1>0, HandlerTypes
    <2>1. CASE ReadState(p) \/ Crash(p)
      BY <2>1 DEF ReadState, Crash, Proceed, Goto, Finish, TypeOK, Label
    <2>2. CASE ConsumeState(p)
      <3>1. h[p].state \in State
        BY <2>2 DEF ConsumeState, Knows
      <3>2. h' = [h EXCEPT ![p] = [h[p] EXCEPT !.pc = "identity"]]
        BY <2>2 DEF ConsumeState, Goto, TypeOK
      <3>3. h' \in [Proc -> Handler]
        BY <3>2 DEF TypeOK, Label
      <3>4. flow' \in [State -> {"absent", "open", "consumed"}] /\ redeemed' \in [State -> Nat]
        <4>1. /\ flow' = [flow EXCEPT ![h[p].state] = "consumed"]
              /\ redeemed' = [redeemed EXCEPT ![h[p].state] = @ + 1]
          BY <2>2 DEF ConsumeState
        <4>2. redeemed[h[p].state] \in Nat
          BY <3>1 DEF TypeOK
        <4>3. redeemed[h[p].state] + 1 \in Nat
          BY <4>2, Successor
        <4> QED
          BY <3>1, <4>1, <4>3 DEF TypeOK
      <3> QED
        BY <2>2, <3>3, <3>4 DEF ConsumeState, TypeOK
    <2>3. CASE GetIdentity(p)
      <3>1. identity[SubjectOf(p)] \in Email \cup {None}
        BY <2>3, ConfigAssumption DEF GetIdentity, SubjectOf, TypeOK, Knows, Subject
      <3> QED
        BY <2>3, <3>1, ZenonT(60) DEF GetIdentity, Proceed, Goto, Finish, TypeOK, Label
    <2>4. CASE LoadUser(p)
      <3>1. users[h[p].user] \in Row \cup {None}
        BY <2>4 DEF LoadUser, TypeOK, Knows
      <3> QED
        BY <2>4, <3>1, ZenonT(60) DEF LoadUser, Finish, TypeOK, Label
    <2>5. CASE LookupUser(p)
      <3>1. h[p].profile.email \in Email /\ users[h[p].profile.email] \in Row \cup {None}
        BY <2>5 DEF LookupUser, TypeOK, Knows
      <3>2. h' \in [Proc -> Handler]
        <4> DEFINE e == h[p].profile.email
        <4>1. \/ h' = [h EXCEPT ![p] = [h[p] EXCEPT !.pc = "create", !.user = e]]
              \/ h' = [h EXCEPT ![p] = Idle]
              \/ h' = [h EXCEPT ![p] = [h[p] EXCEPT !.pc = "link", !.user = e,
                                                   !.row = users[e]]]
          BY <2>5, Zenon DEF LookupUser, Finish
        <4>2. /\ [h[p] EXCEPT !.pc = "create", !.user = e] \in Handler
              /\ [h[p] EXCEPT !.pc = "link", !.user = e, !.row = users[e]] \in Handler
          BY <3>1 DEF Label
        <4> QED
          BY <4>1, <4>2 DEF TypeOK
      <3> QED
        BY <2>5, <3>2 DEF LookupUser, TypeOK
    <2>6. CASE CreateUser(p)
      <3>1. [h[p] EXCEPT !.pc = "link", !.created = TRUE, !.row = NewRow(p)] \in Handler
        BY NewRowType
      <3>2. h' \in [Proc -> Handler]
        BY <2>6, <3>1 DEF CreateUser, TypeOK
      <3> QED
        BY <2>6, <3>2, NewRowType DEF CreateUser, TypeOK, Knows
    <2>7. CASE UpsertIdentity(p)
      <3>1. h[p].user \in Email /\ SubjectOf(p) \in Subject
        BY <2>7, ConfigAssumption DEF UpsertIdentity, Knows, SubjectOf
      <3>2. h' \in [Proc -> Handler]
        BY <2>7 DEF UpsertIdentity, Proceed, Goto, Finish, TypeOK, Label
      <3>3. contested' \subseteq Subject
        <4>1. \E c \in SUBSET {SubjectOf(p)} : contested' = contested \cup c
          BY <2>7, Zenon DEF UpsertIdentity
        <4> QED
          BY <3>1, <4>1 DEF TypeOK
      <3> QED
        BY <2>7, <3>1, <3>2, <3>3 DEF UpsertIdentity, TypeOK
    <2>8. CASE IssueSession(p)
      <3>1. [subject |-> SubjectOf(p), user |-> h[p].user,
             state |-> h[p].state, nonce |-> h[p].nonce] \in Session
        <4>1. h[p] \in Handler /\ h[p].user \in Email /\ h[p].profile \in Profile
          BY <2>8 DEF IssueSession, TypeOK, Knows
        <4>2. SubjectOf(p) \in Subject
          BY <4>1, ConfigAssumption DEF SubjectOf
        <4> QED
          BY <4>1, <4>2 DEF Handler, Session
      <3>2. sessions' \subseteq Session
        BY <2>8, <3>1 DEF IssueSession, TypeOK
      <3>3. h' \in [Proc -> Handler]
        BY <2>8 DEF IssueSession, Goto, TypeOK, Label
      <3> QED
        BY <2>8, <3>2, <3>3 DEF IssueSession, TypeOK
    <2>9. CASE RecordLogin(p)
      <3>1. h[p].row \in Row \cup {None}
        <4>1. h[p] \in Handler
          BY DEF TypeOK
        <4> QED
          BY <4>1, Zenon DEF Handler
      <3> QED
        BY <2>9, <3>1, ZenonT(60) DEF RecordLogin, Finish, TypeOK
    <2> QED
      BY <1>5, <2>1, <2>2, <2>3, <2>4, <2>5, <2>6, <2>7, <2>8, <2>9 DEF Step
  <1>6. ASSUME NEW e \in Email, NEW r \in Row, OtherSignup(e, r) PROVE TypeOK'
    BY <1>0, <1>6 DEF OtherSignup, TypeOK
  <1> QED
    BY <1>1, <1>2, <1>3, <1>4, <1>5, <1>6 DEF Next

-----------------------------------------------------------------------------
(* The rows of the states *)

LEMMA FlowStep == Core /\ [Next]_vars => FlowInv'
  <1> SUFFICES ASSUME Core, [Next]_vars PROVE FlowInv'
    OBVIOUS
  <1>0. /\ FlowInv
        /\ begun \in [State -> Begun \cup {None}]
        /\ flow \in [State -> {"absent", "open", "consumed"}]
        /\ redeemed \in [State -> Nat]
    BY DEF Core, TypeOK
  <1>1. CASE UNCHANGED <<begun, flow, redeemed>>
    BY <1>0, <1>1 DEF FlowInv
  <1>2. ASSUME NEW s \in State, NEW v \in Provider, NEW n \in Nonce \cup {None},
               BeginSocialLogin(s, v, n)
        PROVE  FlowInv'
    <2>1. begun'[s] # None
      BY <1>0, <1>2, SentinelAssumption DEF BeginSocialLogin, Begun
    <2> QED
      BY <1>0, <1>2, <2>1 DEF BeginSocialLogin, FlowInv
  <1>3. ASSUME NEW s \in State, Lapse(s) PROVE FlowInv'
    BY <1>0, <1>3 DEF Lapse, FlowInv
  <1>4. ASSUME NEW p \in Proc, ConsumeState(p) PROVE FlowInv'
    <2>1. h[p].state \in State /\ begun[h[p].state] # None
      BY <1>4 DEF ConsumeState, Core, Knows
    <2> QED
      BY <1>0, <1>4, <2>1 DEF ConsumeState, FlowInv
  <1> QED
    BY <1>1, <1>2, <1>3, <1>4 DEF Next, vars, Step, LoginSocial, OtherSignup, ReadState,
       GetIdentity, LoadUser, LookupUser, CreateUser, UpsertIdentity, IssueSession,
       RecordLogin, Crash

\* What was redeemed stays so, and what was begun stays as it is.
Lasting ==
  \A s \in State : /\ begun[s] # None => begun'[s] = begun[s]
                   /\ redeemed[s] = 1 => redeemed'[s] = 1 /\ begun'[s] = begun[s]

LEMMA StepLasting == Core /\ [Next]_vars => Lasting
  <1> SUFFICES ASSUME Core, [Next]_vars PROVE Lasting
    OBVIOUS
  <1>0. /\ FlowInv
        /\ begun \in [State -> Begun \cup {None}]
        /\ flow \in [State -> {"absent", "open", "consumed"}]
        /\ redeemed \in [State -> Nat]
    BY DEF Core, TypeOK
  <1>1. CASE UNCHANGED <<begun, redeemed>>
    BY <1>1 DEF Lasting
  <1>2. ASSUME NEW s \in State, NEW v \in Provider, NEW n \in Nonce \cup {None},
               BeginSocialLogin(s, v, n)
        PROVE  Lasting
    BY <1>0, <1>2 DEF BeginSocialLogin, Lasting, FlowInv
  <1>3. ASSUME NEW p \in Proc, ConsumeState(p) PROVE Lasting
    <2>1. h[p].state \in State /\ redeemed[h[p].state] = 0
      BY <1>0, <1>3 DEF ConsumeState, Core, Knows, FlowInv
    <2> QED
      BY <1>0, <1>3, <2>1 DEF ConsumeState, Lasting
  <1> QED
    BY <1>1, <1>2, <1>3 DEF Next, vars, Step, LoginSocial, OtherSignup, ReadState, Lapse,
       GetIdentity, LoadUser, LookupUser, CreateUser, UpsertIdentity, IssueSession,
       RecordLogin, Crash

-----------------------------------------------------------------------------
(* The handlers *)

\* A handler that a step leaves alone keeps what it knew.
LEMMA Frame ==
  ASSUME Core, Lasting, NEW q \in Proc, h'[q] = h[q]
  PROVE  Knows(q)'
  BY DEF Core, Lasting, Knows, Redeemed, Matches, ProviderOf, SubjectOf, Past

LEMMA KnowsStep ==
  ASSUME Core, [Next]_vars, TypeOK', Lasting, NEW q \in Proc
  PROVE  Knows(q)'
  <1>0. TypeOK /\ Knows(q) /\ h[q] \in Handler
    BY DEF Core, TypeOK
  <1>1. CASE h'[q] = h[q]
    BY <1>1, Frame
  <1>2. CASE h'[q] = Idle
    BY <1>2 DEF Knows, Idle, Past
  <1>3. ASSUME NEW s \in State \cup {None}, NEW n \in Nonce \cup {None}, NEW f \in Profile,
               LoginSocial(q, s, n, f)
        PROVE  Knows(q)'
    <2>1. h'[q] = [Idle EXCEPT !.pc = IF s = None THEN "identity" ELSE "read_state",
                               !.state = s, !.nonce = n, !.profile = f]
      BY <1>0, <1>3 DEF LoginSocial, TypeOK
    <2>2. /\ h'[q].pc = IF s = None THEN "identity" ELSE "read_state"
          /\ h'[q].state = s /\ h'[q].profile = f
      BY <2>1 DEF Idle
    <2>3. UNCHANGED begun /\ (s # None => begun[s] # None)
      BY <1>3 DEF LoginSocial
    <2> QED
      BY <2>2, <2>3 DEF Knows, Past
  <1>4. CASE ReadState(q)
    <2>1. \/ h'[q] = [h[q] EXCEPT !.pc = "consume"] /\ Matches(q, begun[h[q].state])
          \/ h'[q] = Idle
      BY <1>0, <1>4 DEF ReadState, Proceed, Goto, Finish, TypeOK
    <2>2. UNCHANGED begun
      BY <1>4 DEF ReadState
    <2> QED
      BY <1>0, <1>2, <1>4, <2>1, <2>2
      DEF ReadState, Knows, Past, Matches, ProviderOf, SubjectOf, Handler
  <1>5. CASE ConsumeState(q)
    <2>1. h'[q] = [h[q] EXCEPT !.pc = "identity"]
      BY <1>0, <1>5 DEF ConsumeState, Goto, TypeOK
    <2>2. /\ h[q].state \in State /\ begun' = begun /\ redeemed'[h[q].state] = 1
          /\ Matches(q, begun[h[q].state])
      BY <1>0, <1>5 DEF ConsumeState, Core, FlowInv, TypeOK, Knows
    <2>3. Redeemed(h[q].state, SubjectOf(q), h[q].nonce)'
      BY <1>0, <2>1, <2>2 DEF Redeemed, Matches, ProviderOf, SubjectOf, Handler
    <2> QED
      BY <1>0, <1>5, <2>1, <2>3 DEF ConsumeState, Knows, Past, Handler
  <1>6. CASE GetIdentity(q) \/ LoadUser(q) \/ LookupUser(q) \/ CreateUser(q)
             \/ UpsertIdentity(q) \/ IssueSession(q)
    <2>1. UNCHANGED <<begun, redeemed>> /\ h[q].pc \in Past
      BY <1>6 DEF GetIdentity, LoadUser, LookupUser, CreateUser, UpsertIdentity,
         IssueSession, Past
    <2>2. \/ h'[q] = Idle
          \/ /\ h'[q].pc \in Past \ {"identity"}
             /\ h'[q].state = h[q].state /\ h'[q].nonce = h[q].nonce
             /\ h'[q].profile = h[q].profile
             /\ h'[q].pc = "lookup" => h[q].profile.email \in Email
             /\ h'[q].pc # "lookup" => h'[q].user \in Email
             /\ h'[q].pc = "link" /\ LinkVerifiedOnly => h'[q].created \/ h[q].profile.verified
      <3>1. CASE GetIdentity(q)
        <4>1. identity[SubjectOf(q)] \in Email \cup {None} /\ h[q].profile \in Profile
          BY <1>0, <3>1, ConfigAssumption DEF GetIdentity, SubjectOf, TypeOK, Knows, Subject
        <4> QED
          BY <1>0, <3>1, <4>1, ConfigAssumption
          DEF GetIdentity, Proceed, Goto, Finish, TypeOK, Handler, Past
      <3>2. CASE LoadUser(q)
        BY <1>0, <3>2 DEF LoadUser, Finish, TypeOK, Handler, Past, Knows
      <3>3. CASE LookupUser(q)
        <4>1. h[q].profile.email \in Email
          BY <1>0, <3>3 DEF LookupUser, Knows
        <4> QED
          BY <1>0, <3>3, <4>1 DEF LookupUser, Finish, TypeOK, Handler, Past
      <3>4. CASE CreateUser(q)
        BY <1>0, <3>4 DEF CreateUser, TypeOK, Handler, Past, Knows
      <3>5. CASE UpsertIdentity(q)
        BY <1>0, <3>5 DEF UpsertIdentity, Proceed, Goto, Finish, TypeOK, Handler, Past, Knows
      <3>6. CASE IssueSession(q)
        BY <1>0, <3>6 DEF IssueSession, Goto, TypeOK, Handler, Past, Knows
      <3> QED
        BY <1>6, <3>1, <3>2, <3>3, <3>4, <3>5, <3>6
    <2>3. h[q].state # None => Redeemed(h[q].state, SubjectOf(q), h[q].nonce)
      BY <1>0, <2>1 DEF Knows
    <2> QED
      BY <1>0, <1>2, <2>1, <2>2, <2>3 DEF Knows, Redeemed, SubjectOf, Past
  <1>7. CASE RecordLogin(q) \/ Crash(q)
    BY <1>0, <1>2, <1>7 DEF RecordLogin, Crash, Finish, TypeOK
  <1>8. ASSUME NEW p \in Proc, p # q, Step(p) PROVE h'[q] = h[q]
    BY <1>0, <1>8 DEF TypeOK, Step, ReadState, ConsumeState, GetIdentity, LoadUser, LookupUser,
       CreateUser, UpsertIdentity, IssueSession, RecordLogin, Crash, Proceed, Goto, Finish
  <1>9. ASSUME NEW p \in Proc, p # q, NEW s \in State \cup {None}, NEW n \in Nonce \cup {None},
               NEW f \in Profile, LoginSocial(p, s, n, f)
        PROVE  h'[q] = h[q]
    BY <1>0, <1>9 DEF TypeOK, LoginSocial
  <1>10. CASE UNCHANGED h
    BY <1>1, <1>10
  <1> QED
    BY <1>1, <1>3, <1>4, <1>5, <1>6, <1>7, <1>8, <1>9, <1>10
    DEF Next, Step, vars, BeginSocialLogin, Lapse, OtherSignup

LEMMA CoreStep == Core /\ [Next]_vars => Core' /\ Lasting
  <1> SUFFICES ASSUME Core, [Next]_vars PROVE Core' /\ Lasting
    OBVIOUS
  <1>1. TypeOK' /\ FlowInv' /\ Lasting
    BY TypeStep, FlowStep, StepLasting
  <1>2. \A p \in Proc : Knows(p)'
    BY <1>1, KnowsStep
  <1> QED
    BY <1>1, <1>2 DEF Core

THEOREM CoreInvariant == Spec => []Core
  BY InitCore, CoreStep, PTL DEF Spec

-----------------------------------------------------------------------------
(* The properties *)

\* Every variable keeps its type, for any sets of states, subjects and handlers.
THEOREM TypeCorrect == Spec => []TypeOK
  BY CoreInvariant, PTL DEF Core

\* However many callbacks present a state, the store hands it to one of them, and
\* a session of a callback comes from the provider and the browser it was begun
\* for (consume_social_login_state, login_social).
THEOREM StatesAreUsedOnce == Spec => []SessionsUseTheirState
  <1> DEFINE Used == \A x \in sessions : x.state # None => Redeemed(x.state, x.subject, x.nonce)
  <1>1. Init => Used
    BY DEF Init
  <1>2. Core /\ Used /\ [Next]_vars => Used'
    <2> SUFFICES ASSUME Core, Used, [Next]_vars, NEW x \in sessions', x.state # None
                 PROVE  Redeemed(x.state, x.subject, x.nonce)'
      BY Zenon
    <2>1. Redeemed(x.state, x.subject, x.nonce)
      <3>1. CASE x \in sessions
        BY <3>1
      <3>2. ASSUME NEW p \in Proc, IssueSession(p), x \notin sessions
            PROVE  Redeemed(x.state, x.subject, x.nonce)
        <4>1. /\ x.state = h[p].state /\ x.nonce = h[p].nonce /\ x.subject = SubjectOf(p)
              /\ h[p].pc \in Past
          BY <3>2 DEF IssueSession, Past
        <4> QED
          BY <4>1 DEF Core, Knows
      <3>3. CASE UNCHANGED sessions
        BY <3>1, <3>3
      <3> QED
        BY <3>1, <3>2, <3>3 DEF Next, vars, Step, LoginSocial, OtherSignup, ReadState, Lapse,
           BeginSocialLogin, ConsumeState, GetIdentity, LoadUser, LookupUser, CreateUser,
           UpsertIdentity, RecordLogin, Crash
    <2> QED
      BY <2>1, CoreStep DEF Lasting, Redeemed
  <1>3. Core /\ Used => SessionsUseTheirState
    BY DEF Core, FlowInv, TypeOK, Redeemed, SessionsUseTheirState
  <1> QED
    BY <1>1, <1>2, <1>3, CoreInvariant, PTL DEF Spec

\* Whatever signups and logins run at the same time, an account that existed
\* before is linked only by an address that its provider verified.
THEOREM LinksAreJustified == Spec => []LinkJustified
  <1>1. Init => LinkJustified
    BY DEF Init, LinkJustified
  <1>2. Core /\ LinkJustified /\ [Next]_vars => LinkJustified'
    <2> SUFFICES ASSUME Core, LinkJustified, [Next]_vars, LinkVerifiedOnly, NEW i \in Subject
                 PROVE  linked'[i] # "unverified"
      BY DEF LinkJustified
    <2>1. ASSUME NEW p \in Proc, UpsertIdentity(p) PROVE linked'[i] # "unverified"
      <3>1. h[p].created \/ h[p].profile.verified
        BY <2>1 DEF UpsertIdentity, Core, Knows
      <3> QED
        BY <2>1, <3>1 DEF UpsertIdentity, LinkJustified, Core, TypeOK
    <2>2. CASE UNCHANGED linked
      BY <2>2 DEF LinkJustified
    <2> QED
      BY <2>1, <2>2 DEF Next, vars, Step, LoginSocial, OtherSignup, ReadState, Lapse,
         BeginSocialLogin, ConsumeState, GetIdentity, LoadUser, LookupUser, CreateUser,
         IssueSession, RecordLogin, Crash
  <1> QED
    BY <1>1, <1>2, CoreInvariant, PTL DEF Spec

\* The states of social logins implement the abstract one-time token.
THEOREM Refinement == Spec => ImplementsOneTimeToken
  <1> DEFINE st == [s \in State |-> StateStatus(s)]
  <1>1. Init => OneTime!Init
    BY DEF Init, OneTime!Init, StateStatus
  <1>2. Core /\ [Next]_vars => [OneTime!Next]_st
    <2> SUFFICES ASSUME Core, [Next]_vars PROVE OneTime!Next \/ st' = st
      OBVIOUS
    <2>0. /\ FlowInv
          /\ begun \in [State -> Begun \cup {None}]
          /\ flow \in [State -> {"absent", "open", "consumed"}]
          /\ redeemed \in [State -> Nat]
      BY DEF Core, TypeOK
    <2>1. CASE UNCHANGED <<begun, flow, redeemed>>
      BY <2>1 DEF StateStatus
    <2>2. ASSUME NEW s \in State, NEW v \in Provider, NEW n \in Nonce \cup {None},
                 BeginSocialLogin(s, v, n)
          PROVE  OneTime!Next
      <3>0. [provider |-> v, nonce |-> n] # None
        BY SentinelAssumption DEF Begun
      <3>1. \A t \in State : StateStatus(t)' = IF t = s THEN "issued" ELSE StateStatus(t)
        BY <2>0, <2>2, <3>0 DEF BeginSocialLogin, StateStatus, FlowInv
      <3>2. st' = [st EXCEPT ![s] = "issued"] /\ st[s] = "fresh"
        BY <2>2, <3>1 DEF BeginSocialLogin, StateStatus
      <3> QED
        BY <3>2 DEF OneTime!Next, OneTime!Issue
    <2>3. ASSUME NEW s \in State, Lapse(s) PROVE OneTime!Next
      <3>1. \A t \in State : StateStatus(t)' = IF t = s THEN "lapsed" ELSE StateStatus(t)
        BY <2>0, <2>3 DEF Lapse, StateStatus, FlowInv
      <3>2. OneTime!Lapse({s})
        BY <2>0, <2>3, <3>1 DEF OneTime!Lapse, Lapse, StateStatus, FlowInv
      <3> QED
        BY <3>2 DEF OneTime!Next
    <2>4. ASSUME NEW p \in Proc, ConsumeState(p) PROVE OneTime!Next
      <3>1. h[p].state \in State /\ begun[h[p].state] # None
        BY <2>4 DEF ConsumeState, Core, Knows
      <3>2. \A t \in State :
              StateStatus(t)' = IF t = h[p].state THEN "redeemed" ELSE StateStatus(t)
        BY <2>0, <2>4, <3>1 DEF ConsumeState, StateStatus, FlowInv
      <3>3. st' = [st EXCEPT ![h[p].state] = "redeemed"] /\ st[h[p].state] = "issued"
        BY <2>0, <2>4, <3>1, <3>2 DEF ConsumeState, StateStatus, FlowInv
      <3> QED
        BY <3>1, <3>3 DEF OneTime!Next, OneTime!Redeem
    <2> QED
      BY <2>1, <2>2, <2>3, <2>4 DEF Next, vars, Step, LoginSocial, OtherSignup, ReadState,
         GetIdentity, LoadUser, LookupUser, CreateUser, UpsertIdentity, IssueSession,
         RecordLogin, Crash
  <1> QED
    BY <1>1, <1>2, CoreInvariant, PTL DEF Spec, ImplementsOneTimeToken, OneTime!Spec

-----------------------------------------------------------------------------
(* The identities *)

Pending == {"lookup", "create", "link"}
Found == {"load", "issue", "record"}

\* A handler has found the user of its subject, or goes on with the address that
\* the provider sent, the one that the identity, if there is one by now, got too.
Named(p) ==
  /\ h[p].pc \in {"create", "link"} => h[p].user = h[p].profile.email
  /\ h[p].pc \in Found => identity[SubjectOf(p)] # None
  /\ h[p].pc \in Found /\ SubjectOf(p) \notin contested =>
       identity[SubjectOf(p)] = h[p].user
  /\ h[p].pc \in Pending /\ SubjectOf(p) \notin contested =>
       identity[SubjectOf(p)] \in {None, h[p].profile.email}

Linked ==
  /\ \A p \in Proc : Named(p)
  /\ \A x \in sessions : identity[x.subject] # None
  /\ SessionsFollowIdentity

LEMMA SubjectType ==
  ASSUME Core, NEW p \in Proc, h[p].pc # "idle"
  PROVE  h[p].profile \in Profile /\ SubjectOf(p) \in Subject
         /\ identity[SubjectOf(p)] \in Email \cup {None}
  <1>1. h[p].profile \in Profile /\ TypeOK
    BY DEF Core, Knows
  <1>2. SubjectOf(p) \in Subject
    BY <1>1, ConfigAssumption DEF SubjectOf
  <1> QED
    BY <1>1, <1>2 DEF TypeOK

\* A link that is there stays there, and never moves unless its subject is contested.
LEMMA LinkStays ==
  ASSUME Core, Linked, [Next]_vars
  PROVE  /\ contested \subseteq contested'
         /\ \A i \in Subject : identity[i] # None =>
              /\ identity'[i] # None
              /\ i \notin contested => identity'[i] = identity[i]
  <1>1. CASE UNCHANGED <<identity, contested>>
    BY <1>1
  <1>2. ASSUME NEW p \in Proc, UpsertIdentity(p)
        PROVE  /\ contested \subseteq contested'
               /\ \A i \in Subject : identity[i] # None =>
                    /\ identity'[i] # None
                    /\ i \notin contested => identity'[i] = identity[i]
    <2>1. /\ identity' = [identity EXCEPT ![SubjectOf(p)] = h[p].user] /\ h[p].pc = "link"
          /\ contested \subseteq contested'
      BY <1>2 DEF UpsertIdentity
    <2>2. h[p].user \in Email /\ h[p].user # None
      BY <2>1, ConfigAssumption DEF Core, Knows
    <2>3. SubjectOf(p) \notin contested /\ identity[SubjectOf(p)] # None =>
            identity[SubjectOf(p)] = h[p].user
      BY <2>1 DEF Linked, Named, Pending
    <2> QED
      BY <2>1, <2>2, <2>3 DEF Core, TypeOK
  <1> QED
    BY <1>1, <1>2 DEF Next, vars, Step, LoginSocial, OtherSignup, ReadState, Lapse,
       BeginSocialLogin, ConsumeState, GetIdentity, LoadUser, LookupUser, CreateUser,
       IssueSession, RecordLogin, Crash

\* A handler that goes on beside the upsert of another one.
LEMMA NamedBeside ==
  ASSUME Core, Linked, NEW p \in Proc, UpsertIdentity(p), NEW q \in Proc, q # p, h'[q] = h[q]
  PROVE  Named(q)'
  <1>0. TypeOK /\ Named(q) /\ Named(p) /\ Knows(p) /\ Knows(q)
    BY DEF Core, Linked
  <1>1. /\ h[p].pc = "link" /\ identity' = [identity EXCEPT ![SubjectOf(p)] = h[p].user]
        /\ contested' = contested \cup
             {i \in {SubjectOf(p)} : identity[i] = None /\ \E s \in Proc \ {p} : Rival(s, p)}
    BY DEF UpsertIdentity
  <1>2. SubjectOf(p) \in Subject /\ h[p].user \in Email /\ h[p].user # None
        /\ h[p].user = h[p].profile.email
    BY <1>0, <1>1, SubjectType, ConfigAssumption DEF Named, Knows
  <1>3. SubjectOf(q)' = SubjectOf(q)
    BY DEF SubjectOf
  <1>4. CASE h[q].pc \notin Found \cup Pending
    BY <1>4 DEF Named, Found, Pending
  <1>5. CASE h[q].pc \in Found \cup Pending /\ SubjectOf(q) # SubjectOf(p)
    <2>1. SubjectOf(q) \in Subject
      BY <1>5, SubjectType DEF Found, Pending
    <2>2. identity'[SubjectOf(q)] = identity[SubjectOf(q)]
          /\ (SubjectOf(q) \in contested' <=> SubjectOf(q) \in contested)
      BY <1>0, <1>1, <1>5, <2>1 DEF TypeOK
    <2> QED
      BY <1>0, <1>3, <2>2 DEF Named
  <1>6. CASE h[q].pc \in Found \cup Pending /\ SubjectOf(q) = SubjectOf(p)
    <2>1. identity'[SubjectOf(q)] = h[p].user
      BY <1>0, <1>1, <1>2, <1>6 DEF TypeOK
    <2>2. CASE identity[SubjectOf(p)] # None
      <3>1. contested' = contested
        BY <1>1, <2>2
      <3>2. SubjectOf(p) \notin contested => identity[SubjectOf(p)] = h[p].user
        BY <1>0, <1>1, <1>2, <2>2 DEF Named, Pending
      <3> QED
        BY <1>0, <1>2, <1>3, <1>6, <2>1, <2>2, <3>1, <3>2 DEF Named
    <2>3. CASE identity[SubjectOf(p)] = None
      <3>1. h[q].pc \in Pending
        BY <1>0, <1>6, <2>3 DEF Named
      <3>2. h[q].pc \notin Found
        BY <3>1 DEF Found, Pending
      <3>3. SubjectOf(q) \notin contested' => h[q].profile.email = h[p].user
        BY <1>1, <1>6, <2>3, <3>1 DEF Rival, Pending
      <3> QED
        BY <1>0, <1>3, <2>1, <3>2, <3>3 DEF Named
    <2> QED
      BY <2>2, <2>3
  <1> QED
    BY <1>4, <1>5, <1>6

\* The handler that makes the step.
LEMMA NamedStep ==
  ASSUME Core, Linked, [Next]_vars, NEW q \in Proc
  PROVE  Named(q)'
  <1>0. TypeOK /\ Named(q) /\ Knows(q) /\ h[q] \in Handler
    BY DEF Core, TypeOK, Linked
  <1>n. None \notin Email
    BY ConfigAssumption
  <1>1. CASE h'[q] = h[q] /\ UNCHANGED <<identity, contested>>
    BY <1>0, <1>1 DEF Named, SubjectOf
  <1>i. h'[q] = Idle => Named(q)'
    BY DEF Named, Idle, Found, Pending
  <1>3. ASSUME NEW s \in State \cup {None}, NEW n \in Nonce \cup {None}, NEW f \in Profile,
               LoginSocial(q, s, n, f)
        PROVE  Named(q)'
    <2>1. h'[q] = [Idle EXCEPT !.pc = IF s = None THEN "identity" ELSE "read_state",
                               !.state = s, !.nonce = n, !.profile = f]
      BY <1>0, <1>3 DEF LoginSocial, TypeOK
    <2>2. h'[q].pc = IF s = None THEN "identity" ELSE "read_state"
      BY <2>1 DEF Idle
    <2> QED
      BY <2>2 DEF Named, Found, Pending
  <1>4. CASE ReadState(q) \/ ConsumeState(q) \/ Crash(q) \/ RecordLogin(q)
    <2>1. h'[q] = Idle \/ h'[q].pc \in {"consume", "identity"}
      BY <1>0, <1>4 DEF ReadState, ConsumeState, Crash, RecordLogin, Proceed, Goto, Finish,
         TypeOK, Handler
    <2> QED
      BY <1>i, <2>1 DEF Named, Found, Pending
  <1>5. CASE GetIdentity(q)
    <2> DEFINE u == identity[SubjectOf(q)]
    <2>1. h[q].pc = "identity" /\ identity' = identity
      BY <1>5 DEF GetIdentity
    <2>3. CASE u # None
      <3>1. h'[q] = [h[q] EXCEPT !.pc = "load", !.user = u]
        BY <1>0, <1>5, <2>3 DEF GetIdentity, TypeOK
      <3>2. h'[q].pc = "load" /\ h'[q].user = u /\ h'[q].profile = h[q].profile
        BY <1>0, <3>1 DEF Handler
      <3> QED
        BY <2>1, <2>3, <3>2 DEF Named, SubjectOf, Found, Pending
    <2>4. CASE u = None
      <3>1. h'[q] = Idle \/ h'[q] = [h[q] EXCEPT !.pc = "lookup"]
        BY <1>0, <1>5, <2>4 DEF GetIdentity, Proceed, Goto, Finish, TypeOK
      <3>2. \/ h'[q] = Idle
            \/ h'[q].pc = "lookup" /\ h'[q].profile = h[q].profile
        BY <1>0, <3>1 DEF Handler
      <3> QED
        BY <1>i, <2>1, <2>4, <3>2 DEF Named, SubjectOf, Found, Pending
    <2> QED
      BY <2>3, <2>4
  <1>6. CASE LoadUser(q) \/ IssueSession(q) \/ CreateUser(q)
    <2>1. /\ UNCHANGED <<identity, contested>>
          /\ h[q].pc \in {"load", "issue"} \/ h[q].pc = "create"
      BY <1>6 DEF LoadUser, IssueSession, CreateUser
    <2>2. \/ h'[q] = Idle
          \/ /\ h'[q].user = h[q].user /\ h'[q].profile = h[q].profile
             /\ \/ h[q].pc \in {"load", "issue"} /\ h'[q].pc \in {"issue", "record"}
                \/ h[q].pc = "create" /\ h'[q].pc = "link"
      <3>1. CASE LoadUser(q)
        <4>1. h'[q] = Idle \/ h'[q] = [h[q] EXCEPT !.pc = "issue", !.row = users[h[q].user]]
          BY <1>0, <3>1 DEF LoadUser, Finish, TypeOK
        <4> QED
          BY <1>0, <3>1, <4>1 DEF LoadUser, Handler
      <3>2. CASE IssueSession(q)
        <4>1. h'[q] = [h[q] EXCEPT !.pc = "record"]
          BY <1>0, <3>2 DEF IssueSession, Goto, TypeOK
        <4> QED
          BY <1>0, <3>2, <4>1 DEF IssueSession, Handler
      <3>3. CASE CreateUser(q)
        <4>1. h'[q] = [h[q] EXCEPT !.pc = "link", !.created = TRUE, !.row = NewRow(q)]
          BY <1>0, <3>3 DEF CreateUser, TypeOK
        <4>2. /\ h'[q].pc = "link" /\ h'[q].user = h[q].user
              /\ h'[q].profile = h[q].profile
          BY <1>0, <4>1 DEF Handler
        <4> QED
          BY <3>3, <4>2 DEF CreateUser
      <3> QED
        BY <1>6, <3>1, <3>2, <3>3
    <2> QED
      BY <1>0, <1>i, <2>1, <2>2 DEF Named, SubjectOf, Found, Pending
  <1>7. CASE LookupUser(q)
    <2> DEFINE e == h[q].profile.email
    <2>1. h[q].pc = "lookup" /\ UNCHANGED <<identity, contested>>
      BY <1>7 DEF LookupUser
    <2>3. \/ h'[q] = [h[q] EXCEPT !.pc = "create", !.user = e]
          \/ h'[q] = Idle
          \/ h'[q] = [h[q] EXCEPT !.pc = "link", !.user = e, !.row = users[e]]
      BY <1>0, <1>7 DEF LookupUser, Finish, TypeOK
    <2>4. \/ h'[q] = Idle
          \/ /\ h'[q].pc \in {"create", "link"}
             /\ h'[q].user = e /\ h'[q].profile = h[q].profile
      BY <1>0, <2>3 DEF Handler
    <2> QED
      BY <1>0, <1>i, <2>1, <2>4 DEF Named, SubjectOf, Found, Pending
  <1>8. CASE UpsertIdentity(q)
    <2>1. h[q].pc = "link" /\ identity' = [identity EXCEPT ![SubjectOf(q)] = h[q].user]
      BY <1>8 DEF UpsertIdentity
    <2>2. identity'[SubjectOf(q)] = h[q].user /\ h[q].user # None
      BY <1>0, <1>n, <2>1, SubjectType DEF TypeOK, Knows
    <2>3. h'[q] = Idle \/ h'[q] = [h[q] EXCEPT !.pc = "issue"]
      BY <1>0, <1>8 DEF UpsertIdentity, Proceed, Goto, Finish, TypeOK
    <2>4. \/ h'[q] = Idle
          \/ h'[q].pc = "issue" /\ h'[q].user = h[q].user /\ h'[q].profile = h[q].profile
      BY <1>0, <2>3 DEF Handler
    <2> QED
      BY <1>i, <2>2, <2>4 DEF Named, SubjectOf, Found, Pending
  <1>9. ASSUME NEW p \in Proc, p # q,
               Step(p) \/ \E s \in State \cup {None}, n \in Nonce \cup {None}, f \in Profile :
                            LoginSocial(p, s, n, f)
        PROVE  h'[q] = h[q] /\ (UpsertIdentity(p) \/ UNCHANGED <<identity, contested>>)
    BY <1>0, <1>9 DEF TypeOK, Step, ReadState, ConsumeState, GetIdentity, LoadUser, LookupUser,
       CreateUser, UpsertIdentity, IssueSession, RecordLogin, Crash, Proceed, Goto, Finish,
       LoginSocial
  <1>10. ASSUME NEW p \in Proc, p # q, UpsertIdentity(p), h'[q] = h[q]
         PROVE  Named(q)'
    BY <1>10, NamedBeside
  <1>11. CASE UNCHANGED <<h, identity, contested>>
    BY <1>1, <1>11
  <1> QED
    BY <1>1, <1>3, <1>4, <1>5, <1>6, <1>7, <1>8, <1>9, <1>10, <1>11
    DEF Next, Step, vars, BeginSocialLogin, Lapse, OtherSignup

\* Provider identity first: the sessions of a subject are of one user, and its link
\* never moves, whatever logins of it run at the same time, unless two of them came
\* with different addresses before it was linked (login_social).
THEOREM SessionsFollow == Spec => []SessionsFollowIdentity
  <1>1. Init => Linked
    <2> SUFFICES ASSUME Init PROVE Linked
      OBVIOUS
    <2>1. \A p \in Proc : h[p].pc = "idle"
      BY DEF Init, Idle
    <2> QED
      BY <2>1 DEF Init, Linked, Named, SessionsFollowIdentity, Found, Pending
  <1>2. Core /\ Linked /\ [Next]_vars => Linked'
    <2> SUFFICES ASSUME Core, Linked, [Next]_vars PROVE Linked'
      OBVIOUS
    <2>s. /\ contested \subseteq contested'
          /\ \A i \in Subject : identity[i] # None =>
               /\ identity'[i] # None
               /\ i \notin contested => identity'[i] = identity[i]
      BY LinkStays
    <2>1. \A p \in Proc : Named(p)'
      BY NamedStep
    <2>2. ASSUME NEW x \in sessions'
          PROVE  /\ identity'[x.subject] # None
                 /\ x.subject \notin contested' => identity'[x.subject] = x.user
      <3>1. CASE x \in sessions
        <4>1. /\ x.subject \in Subject /\ identity[x.subject] # None
              /\ x.subject \notin contested => identity[x.subject] = x.user
          BY <3>1 DEF Core, TypeOK, Session, Linked, SessionsFollowIdentity
        <4> QED
          BY <2>s, <4>1
      <3>2. ASSUME NEW p \in Proc, IssueSession(p), x \notin sessions
            PROVE  /\ identity'[x.subject] # None
                   /\ x.subject \notin contested' => identity'[x.subject] = x.user
        <4>1. /\ x.subject = SubjectOf(p) /\ x.user = h[p].user
              /\ h[p].pc = "issue" /\ UNCHANGED <<identity, contested>>
          BY <3>2 DEF IssueSession
        <4> QED
          BY <4>1 DEF Linked, Named, Found
      <3>3. CASE sessions' = sessions
        BY <3>1, <3>3
      <3> QED
        BY <3>1, <3>2, <3>3 DEF Next, vars, Step, LoginSocial, OtherSignup, ReadState, Lapse,
           BeginSocialLogin, ConsumeState, GetIdentity, LoadUser, LookupUser, CreateUser,
           UpsertIdentity, RecordLogin, Crash
    <2> QED
      BY <2>1, <2>2 DEF Linked, SessionsFollowIdentity
  <1>3. Linked => SessionsFollowIdentity
    BY DEF Linked
  <1> QED
    BY <1>1, <1>2, <1>3, CoreInvariant, PTL DEF Spec

-----------------------------------------------------------------------------
(* The forms and the JSON requests of the tabs *)

Signed(t) == t \in Token /\ signed[t] # None

\* What the tables say of the tokens that are out.
TokenTables ==
  /\ \A x \in held : Signed(x[2])
  /\ jar.csrf # None => Signed(jar.csrf)
  /\ held # {} => jar.csrf # None

\* While only pages were rendered, at most one of them without a good token, there
\* is at most one token, and it is signed for anyone.
FewTokens ==
  ~mixed /\ bare < 2 =>
    \A t \in Token : Signed(t) =>
      /\ signed[t] = "anonymous" /\ bare = 1
      /\ \A u \in Token : Signed(u) => u = t

\* What a handler has checked at each label.
FormKnows(p) ==
  /\ fh[p].pc = "bind" => fh[p].front = "json"
  /\ fh[p].pc = "double" => fh[p].front = "form"
  /\ fh[p].pc \in {"double", "bind"} => Signed(fh[p].token) /\ Signed(fh[p].cookie)
  /\ fh[p].pc \in {"do", "acted"} /\ fh[p].front = "json" =>
       /\ Signed(fh[p].token)
       /\ signed[fh[p].token] = IF fh[p].bound THEN fh[p].session ELSE "anonymous"
  /\ fh[p].pc = "reply" /\ fh[p].req \in {"page", "csrf"} => Signed(fh[p].token)

FormCore == Forms!TypeOK /\ TokenTables /\ FewTokens /\ \A p \in Proc : FormKnows(p)

\* No token is signed twice.
SignedOnce == \A t \in Token : Signed(t) => signed'[t] = signed[t]

LEMMA FormFrame ==
  ASSUME FormCore, SignedOnce, NEW p \in Proc, fh'[p] = fh[p]
  PROVE  FormKnows(p)'
  <1>1. FormKnows(p)
    BY DEF FormCore
  <1>2. \A t : Signed(t) => Signed(t)' /\ signed'[t] = signed[t]
    BY DEF Signed, SignedOnce
  <1> QED
    BY <1>1, <1>2 DEF FormKnows

\* A step of a handler that signs nothing and sets no cookie.
LEMMA FormMove ==
  ASSUME FormCore, NEW p \in Proc, NEW r \in Forms!Handler, Forms!Local(p, r),
         UNCHANGED <<jar, held, signed, active, bare, mixed>>,
         sess' \in [Sid -> {"unused", "live", "revoked"}],
         /\ r.pc = "bind" => r.front = "json"
         /\ r.pc = "double" => r.front = "form"
         /\ r.pc \in {"double", "bind"} => Signed(r.token) /\ Signed(r.cookie)
         /\ r.pc \in {"do", "acted"} /\ r.front = "json" =>
              /\ Signed(r.token)
              /\ signed[r.token] = IF r.bound THEN r.session ELSE "anonymous"
         /\ r.pc = "reply" /\ r.req \in {"page", "csrf"} => Signed(r.token)
  PROVE  FormCore'
  <1>t. Forms!TypeOK
    BY DEF FormCore
  <1>1. fh' = [fh EXCEPT ![p] = r]
    BY DEF Forms!Local
  <1>2. fh' \in [Proc -> Forms!Handler] /\ fh'[p] = r
        /\ \A q \in Proc : q # p => fh'[q] = fh[q]
    BY <1>1, <1>t DEF Forms!TypeOK
  <1>3. Forms!TypeOK'
    BY <1>2, <1>t DEF Forms!TypeOK, Forms!Context
  <1>4. TokenTables' /\ FewTokens'
    BY DEF FormCore, TokenTables, FewTokens, Signed
  <1>5. FormKnows(p)'
    BY <1>2 DEF FormKnows, Signed
  <1>6. \A q \in Proc : q # p => FormKnows(q)'
    BY <1>2, FormFrame DEF SignedOnce
  <1> QED
    BY <1>3, <1>4, <1>5, <1>6 DEF FormCore

LEMMA FormFacts ==
  ASSUME FormCore, NEW p \in Proc
  PROVE  /\ Forms!TypeOK /\ fh[p] \in Forms!Handler /\ FormKnows(p)
         /\ Forms!Idle \in Forms!Handler
         /\ \A l \in Forms!Label : [fh[p] EXCEPT !.pc = l] \in Forms!Handler
  <1>1. fh[p] \in Forms!Handler
    BY DEF FormCore, Forms!TypeOK
  <1>2. Forms!Idle \in Forms!Handler
    BY DEF Forms!Idle, Forms!Handler, Forms!Label, Forms!Front
  <1>3. \A l \in Forms!Label : [fh[p] EXCEPT !.pc = l] \in Forms!Handler
    BY <1>1 DEF Forms!Handler
  <1> QED
    BY <1>1, <1>2, <1>3 DEF FormCore

LEMMA FormIdle ==
  ASSUME FormCore, NEW p \in Proc, Forms!Local(p, Forms!Idle),
         UNCHANGED <<jar, held, signed, active, bare, mixed>>,
         sess' \in [Sid -> {"unused", "live", "revoked"}]
  PROVE  FormCore'
  <1>1. Forms!Idle \in Forms!Handler
    BY FormFacts
  <1>2. Forms!Idle.pc = "idle"
    BY DEF Forms!Idle
  <1> QED
    BY <1>1, <1>2, FormMove

-----------------------------------------------------------------------------
(* Tokens are signed *)

LEMMA FreshToken ==
  ASSUME FormCore, NEW p \in Proc, NEW t \in Token, NEW c \in Forms!Context,
         NEW r \in Forms!Handler, Forms!Fresh(t), Forms!Sign(t, c), Forms!Local(p, r),
         UNCHANGED <<jar, held, sess, active>>,
         mixed' \in BOOLEAN, bare' \in 0 .. 2,
         r.pc = "reply", r.token = t,
         mixed' \/ (mixed' = mixed /\ c = "anonymous"
                    /\ bare' = IF bare = 2 THEN bare ELSE bare + 1)
  PROVE  FormCore'
  <1>n. None \notin Forms!Context
    BY InstanceAssumption DEF Forms!SentinelAssumption, Forms!Context
  <1>t. Forms!TypeOK
    BY DEF FormCore
  <1>1. signed' = [signed EXCEPT ![t] = c] /\ signed[t] = None
    BY DEF Forms!Sign, Forms!Fresh
  <1>2. /\ signed' \in [Token -> Forms!Context \cup {None}] /\ signed'[t] = c
        /\ \A u \in Token : u # t => signed'[u] = signed[u]
    BY <1>1, <1>t DEF Forms!TypeOK
  <1>3. SignedOnce /\ Signed(t)' /\ \A u : Signed(u) => Signed(u)'
    BY <1>1, <1>2, <1>n DEF SignedOnce, Signed
  <1>4. fh' \in [Proc -> Forms!Handler] /\ fh'[p] = r
        /\ \A q \in Proc : q # p => fh'[q] = fh[q]
    BY <1>t DEF Forms!TypeOK, Forms!Local
  <1>5. Forms!TypeOK'
    BY <1>2, <1>4, <1>t DEF Forms!TypeOK, Forms!Context
  <1>6. TokenTables'
    BY <1>3 DEF FormCore, TokenTables
  <1>7. FewTokens'
    <2> SUFFICES ASSUME ~mixed', bare' < 2
                 PROVE  /\ bare' = 1 /\ c = "anonymous"
                        /\ \A u \in Token : u # t => ~Signed(u)
      BY <1>2, <1>n DEF FewTokens, Signed
    <2>1. ~mixed /\ c = "anonymous" /\ bare = 0 /\ bare' = 1
      BY <1>t DEF Forms!TypeOK
    <2> QED
      BY <2>1 DEF FormCore, FewTokens
  <1>8. FormKnows(p)'
    BY <1>3, <1>4 DEF FormKnows
  <1>9. \A q \in Proc : q # p => FormKnows(q)'
    BY <1>3, <1>4, FormFrame
  <1> QED
    BY <1>5, <1>6, <1>7, <1>8, <1>9 DEF FormCore

LEMMA RenderPageCore ==
  ASSUME FormCore, NEW p \in Proc, Forms!RenderPage(p)
  PROVE  FormCore'
  <1>1. PICK t \in Token :
          /\ IF Forms!VerifyFor(jar.csrf, "anonymous")
             THEN t = jar.csrf /\ UNCHANGED <<signed, bare>>
             ELSE /\ Forms!Fresh(t) /\ Forms!Sign(t, "anonymous")
                  /\ bare' = IF bare = 2 THEN bare ELSE bare + 1
          /\ Forms!Local(p, [Forms!Idle EXCEPT !.pc = "reply", !.token = t])
    BY DEF Forms!RenderPage
  <1> DEFINE r == [Forms!Idle EXCEPT !.pc = "reply", !.token = t]
  <1>2. UNCHANGED <<jar, held, sess, active, mixed>>
    BY DEF Forms!RenderPage
  <1>3. Forms!Idle \in Forms!Handler /\ Forms!TypeOK
    BY FormFacts
  <1>4. "reply" \in Forms!Label /\ "anonymous" \in Forms!Context
    BY DEF Forms!Label, Forms!Context
  <1>5. r \in Forms!Handler
    BY <1>3, <1>4 DEF Forms!Handler
  <1>6. r.pc = "reply" /\ r.token = t
    BY DEF Forms!Idle
  <1>7. Forms!Local(p, r)
    BY <1>1
  <1> HIDE DEF r
  <1>8. CASE Forms!VerifyFor(jar.csrf, "anonymous")
    <2>1. t = jar.csrf /\ UNCHANGED <<signed, bare>>
      BY <1>1, <1>8
    <2>2. Signed(t)
      BY <1>8, <2>1 DEF FormCore, TokenTables, Forms!VerifyFor
    <2>3. sess' \in [Sid -> {"unused", "live", "revoked"}]
      BY <1>2, <1>3 DEF Forms!TypeOK
    <2> QED
      BY <1>2, <1>5, <1>6, <1>7, <2>1, <2>2, <2>3, FormMove
  <1>9. CASE ~Forms!VerifyFor(jar.csrf, "anonymous")
    <2>1. /\ Forms!Fresh(t) /\ Forms!Sign(t, "anonymous")
          /\ bare' = IF bare = 2 THEN bare ELSE bare + 1
      BY <1>1, <1>9
    <2>2. bare' \in 0 .. 2 /\ mixed' \in BOOLEAN
      BY <1>2, <1>3, <2>1 DEF Forms!TypeOK
    <2> QED
      BY <1>2, <1>4, <1>5, <1>6, <1>7, <2>1, <2>2, FreshToken
  <1> QED
    BY <1>8, <1>9

LEMMA IssueCsrfCore ==
  ASSUME FormCore, NEW p \in Proc, Forms!IssueCsrf(p)
  PROVE  FormCore'
  <1>1. PICK t \in Token :
          /\ Forms!Fresh(t) /\ Forms!Sign(t, Forms!ContextKey(p))
          /\ Forms!Local(p, [Forms!Idle EXCEPT !.pc = "reply", !.front = "json",
                                               !.req = "csrf", !.token = t])
    BY DEF Forms!IssueCsrf
  <1> DEFINE r == [Forms!Idle EXCEPT !.pc = "reply", !.front = "json", !.req = "csrf",
                                     !.token = t]
  <1>2. UNCHANGED <<jar, held, sess, active, bare>> /\ mixed' = TRUE
    BY DEF Forms!IssueCsrf
  <1>3. Forms!Idle \in Forms!Handler /\ Forms!TypeOK /\ fh[p] \in Forms!Handler
    BY FormFacts
  <1>4. "reply" \in Forms!Label /\ "json" \in Forms!Front
    BY DEF Forms!Label, Forms!Front
  <1>5. Forms!ContextKey(p) \in Forms!Context
    BY <1>3 DEF Forms!ContextKey, Forms!Context, Forms!Usable, Forms!Handler
  <1>6. r \in Forms!Handler
    BY <1>3, <1>4 DEF Forms!Handler
  <1>7. r.pc = "reply" /\ r.token = t
    BY DEF Forms!Idle
  <1>8. Forms!Local(p, r)
    BY <1>1
  <1> HIDE DEF r
  <1>9. bare' \in 0 .. 2 /\ mixed' \in BOOLEAN
    BY <1>2, <1>3 DEF Forms!TypeOK
  <1> QED
    BY <1>1, <1>2, <1>5, <1>6, <1>7, <1>8, <1>9, FreshToken

-----------------------------------------------------------------------------
(* Requests *)

LEMMA GetCsrfCore ==
  ASSUME FormCore, NEW p \in Proc, Forms!GetCsrf(p)
  PROVE  FormCore'
  <1> DEFINE r == [Forms!Idle EXCEPT !.pc = "context", !.front = "json", !.req = "csrf",
                                     !.session = jar.session]
  <1>1. Forms!Local(p, r) /\ UNCHANGED <<jar, held, signed, sess, active, bare, mixed>>
    BY DEF Forms!GetCsrf
  <1>2. Forms!Idle \in Forms!Handler /\ Forms!TypeOK
    BY FormFacts
  <1>3. "context" \in Forms!Label /\ "json" \in Forms!Front /\ jar.session \in Sid \cup {None}
    BY <1>2 DEF Forms!Label, Forms!Front, Forms!TypeOK
  <1>4. r \in Forms!Handler
    BY <1>2, <1>3 DEF Forms!Handler
  <1>5. r.pc = "context"
    BY DEF Forms!Idle
  <1>6. sess' \in [Sid -> {"unused", "live", "revoked"}]
    BY <1>1, <1>2 DEF Forms!TypeOK
  <1> HIDE DEF r
  <1> QED
    BY <1>1, <1>4, <1>5, <1>6, FormMove

LEMMA PostCore ==
  ASSUME FormCore, NEW p \in Proc, NEW req \in {"login", "logout", "act"},
         NEW f \in Forms!Front, NEW t \in Token, Forms!Post(p, req, f, t)
  PROVE  FormCore'
  <1> DEFINE l == IF f = "form" THEN "double" ELSE "bind"
             r == [Forms!Idle EXCEPT !.pc = l, !.front = f, !.req = req,
                     !.session = jar.session, !.cookie = jar.csrf, !.token = t]
  <1>1. /\ Forms!Local(p, r) /\ UNCHANGED <<jar, held, signed, sess, active, bare, mixed>>
        /\ <<f, t>> \in held
    BY DEF Forms!Post
  <1>2. Forms!Idle \in Forms!Handler /\ Forms!TypeOK /\ TokenTables
    BY FormFacts DEF FormCore
  <1>3. l \in Forms!Label /\ jar.session \in Sid \cup {None} /\ jar.csrf \in Token \cup {None}
    BY <1>2 DEF Forms!Label, Forms!TypeOK
  <1>4. r \in Forms!Handler
    BY <1>2, <1>3 DEF Forms!Handler
  <1>5. r.pc = l /\ r.front = f /\ r.token = t /\ r.cookie = jar.csrf
    BY DEF Forms!Idle
  <1>6. Signed(t) /\ Signed(jar.csrf)
    BY <1>1, <1>2 DEF TokenTables
  <1>7. sess' \in [Sid -> {"unused", "live", "revoked"}]
    BY <1>1, <1>2 DEF Forms!TypeOK
  <1>8. /\ l = "bind" => f = "json"
        /\ l = "double" => f = "form"
        /\ l \in {"double", "bind"}
    BY DEF Forms!Front
  <1> HIDE DEF r, l
  <1> QED
    BY <1>1, <1>4, <1>5, <1>6, <1>7, <1>8, FormMove

LEMMA CheckFormCore ==
  ASSUME FormCore, NEW p \in Proc, Forms!CheckForm(p)
  PROVE  FormCore'
  <1> DEFINE r == [fh[p] EXCEPT !.pc = "do", !.token = None, !.cookie = None]
  <1>1. fh[p].pc = "double" /\ UNCHANGED <<jar, held, signed, sess, active, bare, mixed>>
    BY DEF Forms!CheckForm
  <1>2. Forms!TypeOK /\ fh[p] \in Forms!Handler /\ FormKnows(p)
    BY FormFacts
  <1>3. sess' \in [Sid -> {"unused", "live", "revoked"}]
    BY <1>1, <1>2 DEF Forms!TypeOK
  <1>4. CASE Forms!Local(p, r)
    <2>1. "do" \in Forms!Label
      BY DEF Forms!Label
    <2>2. r \in Forms!Handler
      BY <1>2, <2>1 DEF Forms!Handler
    <2>3. r.pc = "do" /\ r.front = "form"
      BY <1>1, <1>2 DEF FormKnows, Forms!Handler
    <2> HIDE DEF r
    <2> QED
      BY <1>1, <1>3, <1>4, <2>2, <2>3, FormMove
  <1>5. CASE Forms!Local(p, Forms!Idle)
    BY <1>1, <1>3, <1>5, FormIdle
  <1> QED
    BY <1>4, <1>5 DEF Forms!CheckForm, Forms!Refuse

LEMMA CheckContextCore ==
  ASSUME FormCore, NEW p \in Proc, Forms!CheckContext(p)
  PROVE  FormCore'
  <1> DEFINE b == Forms!Usable(fh[p].session)
             r == [fh[p] EXCEPT !.pc = "do", !.cookie = None, !.bound = b]
  <1>1. fh[p].pc = "bind" /\ UNCHANGED <<jar, held, signed, sess, active, bare, mixed>>
    BY DEF Forms!CheckContext
  <1>2. Forms!TypeOK /\ fh[p] \in Forms!Handler /\ FormKnows(p)
    BY FormFacts
  <1>3. sess' \in [Sid -> {"unused", "live", "revoked"}]
    BY <1>1, <1>2 DEF Forms!TypeOK
  <1>4. CASE Forms!Local(p, r) /\ Forms!VerifyFor(fh[p].token, Forms!ContextKey(p))
    <2>1. "do" \in Forms!Label /\ b \in BOOLEAN
      BY <1>2 DEF Forms!Label, Forms!Usable, Forms!TypeOK
    <2>2. r \in Forms!Handler
      BY <1>2, <2>1 DEF Forms!Handler
    <2>3. r.pc = "do" /\ r.token = fh[p].token /\ r.session = fh[p].session
          /\ (r.bound <=> b)
      BY <1>2, <2>1 DEF Forms!Handler
    <2>4. Signed(r.token) /\ signed[r.token] = IF r.bound THEN r.session ELSE "anonymous"
      BY <1>1, <1>2, <1>4, <2>3 DEF FormKnows, Forms!VerifyFor, Forms!ContextKey
    <2> HIDE DEF r
    <2> QED
      BY <1>1, <1>3, <1>4, <2>2, <2>3, <2>4, FormMove
  <1>5. CASE Forms!Local(p, Forms!Idle)
    BY <1>1, <1>3, <1>5, FormIdle
  <1> QED
    BY <1>4, <1>5 DEF Forms!CheckContext, Forms!Refuse

LEMMA DoCore ==
  ASSUME FormCore, NEW p \in Proc,
         Forms!Login(p) \/ Forms!Logout(p) \/ Forms!Act(p)
  PROVE  FormCore'
  <1>t. Forms!TypeOK /\ fh[p] \in Forms!Handler /\ FormKnows(p)
        /\ Forms!Idle \in Forms!Handler
    BY FormFacts
  <1>l. {"reply", "acted"} \subseteq Forms!Label
    BY DEF Forms!Label
  <1>1. ASSUME Forms!Login(p) PROVE FormCore'
    <2>1. UNCHANGED <<jar, held, signed, active, bare, mixed>>
      BY <1>1 DEF Forms!Login
    <2>2. CASE active
      <3>1. PICK s \in Sid :
              /\ sess' = [sess EXCEPT ![s] = "live"]
              /\ Forms!Local(p, [Forms!Idle EXCEPT !.pc = "reply", !.req = "login",
                                                   !.session = s])
        BY <1>1, <2>2 DEF Forms!Login
      <3> DEFINE r == [Forms!Idle EXCEPT !.pc = "reply", !.req = "login", !.session = s]
      <3>2. r \in Forms!Handler
        BY <1>t, <1>l DEF Forms!Handler
      <3>3. r.pc = "reply" /\ r.req = "login"
        BY DEF Forms!Idle
      <3>4. sess' \in [Sid -> {"unused", "live", "revoked"}]
        BY <1>t, <3>1 DEF Forms!TypeOK
      <3>5. Forms!Local(p, r)
        BY <3>1
      <3> HIDE DEF r
      <3> QED
        BY <2>1, <3>2, <3>3, <3>4, <3>5, FormMove
    <2>3. CASE ~active
      <3>1. Forms!Local(p, Forms!Idle) /\ sess' = sess
        BY <1>1, <2>3 DEF Forms!Login, Forms!Refuse
      <3>2. sess' \in [Sid -> {"unused", "live", "revoked"}]
        BY <1>t, <3>1 DEF Forms!TypeOK
      <3> QED
        BY <2>1, <3>1, <3>2, FormIdle
    <2> QED
      BY <2>2, <2>3
  <1>2. ASSUME Forms!Logout(p) PROVE FormCore'
    <2> DEFINE r == [Forms!Idle EXCEPT !.pc = "reply", !.req = "logout"]
    <2>1. UNCHANGED <<jar, held, signed, active, bare, mixed>> /\ Forms!Local(p, r)
      BY <1>2 DEF Forms!Logout
    <2>2. r \in Forms!Handler
      BY <1>t, <1>l DEF Forms!Handler
    <2>3. r.pc = "reply" /\ r.req = "logout"
      BY DEF Forms!Idle
    <2>4. sess' \in [Sid -> {"unused", "live", "revoked"}]
      BY <1>t, <1>2 DEF Forms!TypeOK, Forms!Logout
    <2> HIDE DEF r
    <2> QED
      BY <2>1, <2>2, <2>3, <2>4, FormMove
  <1>3. ASSUME Forms!Act(p) PROVE FormCore'
    <2> DEFINE r == [fh[p] EXCEPT !.pc = "acted"]
    <2>1. /\ fh[p].pc = "do" /\ UNCHANGED <<jar, held, signed, sess, active, bare, mixed>>
          /\ Forms!Local(p, r) \/ Forms!Local(p, Forms!Idle)
      BY <1>3 DEF Forms!Act, Forms!Refuse
    <2>2. sess' \in [Sid -> {"unused", "live", "revoked"}]
      BY <1>t, <2>1 DEF Forms!TypeOK
    <2>3. r \in Forms!Handler
      BY <1>t, <1>l DEF Forms!Handler
    <2>4. r.pc = "acted" /\ r.front = fh[p].front /\ r.token = fh[p].token
          /\ r.session = fh[p].session /\ r.bound = fh[p].bound
      BY <1>t DEF Forms!Handler
    <2>5. r.front = "json" =>
            /\ Signed(r.token)
            /\ signed[r.token] = IF r.bound THEN r.session ELSE "anonymous"
      BY <1>t, <2>1, <2>4 DEF FormKnows
    <2> HIDE DEF r
    <2>6. CASE Forms!Local(p, r)
      BY <2>1, <2>2, <2>3, <2>4, <2>5, <2>6, FormMove
    <2>7. CASE Forms!Local(p, Forms!Idle)
      BY <2>1, <2>2, <2>7, FormIdle
    <2> QED
      BY <2>1, <2>6, <2>7
  <1> QED
    BY <1>1, <1>2, <1>3

LEMMA SetCookiesCore ==
  ASSUME FormCore, NEW p \in Proc, Forms!SetCookies(p)
  PROVE  FormCore'
  <1>t. Forms!TypeOK /\ fh[p] \in Forms!Handler /\ FormKnows(p)
        /\ Forms!Idle \in Forms!Handler /\ TokenTables
    BY FormFacts DEF FormCore
  <1>n. None \notin Token
    BY InstanceAssumption DEF Forms!SentinelAssumption
  <1>1. /\ fh[p].pc = "reply" /\ UNCHANGED <<signed, sess, active, bare, mixed>>
        /\ fh' = [fh EXCEPT ![p] = Forms!Idle]
    BY DEF Forms!SetCookies, Forms!Local
  <1>2. /\ fh' \in [Proc -> Forms!Handler] /\ fh'[p].pc = "idle"
        /\ \A q \in Proc : q # p => fh'[q] = fh[q]
    BY <1>t, <1>1 DEF Forms!TypeOK, Forms!Idle
  <1>3. \A t : Signed(t)' <=> Signed(t)
    BY <1>1 DEF Signed
  <1>4. /\ jar' \in [session : Sid \cup {None}, csrf : Token \cup {None}]
        /\ held' \subseteq Forms!Front \X Token
        /\ TokenTables'
    <2>1. CASE fh[p].req \in {"page", "csrf"}
      <3>1. /\ jar' = [jar EXCEPT !.csrf = fh[p].token]
            /\ held' = held \cup {<<fh[p].front, fh[p].token>>}
        BY <2>1 DEF Forms!SetCookies
      <3>2. Signed(fh[p].token) /\ fh[p].token \in Token
        BY <1>t, <1>1, <2>1 DEF FormKnows, Signed
      <3>3. jar' \in [session : Sid \cup {None}, csrf : Token \cup {None}]
            /\ jar'.csrf = fh[p].token
        BY <1>t, <3>1, <3>2 DEF Forms!TypeOK
      <3>4. held' \subseteq Forms!Front \X Token
        BY <1>t, <3>1, <3>2 DEF Forms!TypeOK, Forms!Handler
      <3>5. \A x \in held' : Signed(x[2])
        BY <1>t, <3>1, <3>2 DEF TokenTables
      <3> QED
        BY <1>3, <1>n, <3>2, <3>3, <3>4, <3>5 DEF TokenTables
    <2>2. CASE fh[p].req \notin {"page", "csrf"}
      <3>1. jar' = [jar EXCEPT !.session = fh[p].session] /\ held' = held
        BY <2>2 DEF Forms!SetCookies
      <3>2. jar' \in [session : Sid \cup {None}, csrf : Token \cup {None}]
            /\ jar'.csrf = jar.csrf
        BY <1>t, <3>1 DEF Forms!TypeOK, Forms!Handler
      <3> QED
        BY <1>t, <1>3, <3>1, <3>2 DEF TokenTables, Forms!TypeOK
    <2> QED
      BY <2>1, <2>2
  <1>5. Forms!TypeOK'
    BY <1>t, <1>1, <1>2, <1>4 DEF Forms!TypeOK, Forms!Context
  <1>6. FewTokens'
    BY <1>1, <1>3 DEF FormCore, FewTokens
  <1>7. FormKnows(p)'
    BY <1>2 DEF FormKnows
  <1>8. \A q \in Proc : q # p => FormKnows(q)'
    BY <1>1, <1>2, FormFrame DEF SignedOnce
  <1> QED
    BY <1>4, <1>5, <1>6, <1>7, <1>8 DEF FormCore

\* What happens to the session and the user outside the handlers.
LEMMA OutsideCore ==
  ASSUME FormCore, UNCHANGED <<jar, held, signed, fh, bare, mixed>>,
         sess' \in [Sid -> {"unused", "live", "revoked"}], active' \in BOOLEAN
  PROVE  FormCore'
  <1>1. Forms!TypeOK'
    BY DEF FormCore, Forms!TypeOK, Forms!Context
  <1>2. TokenTables' /\ FewTokens'
    BY DEF FormCore, TokenTables, FewTokens, Signed
  <1>3. \A p \in Proc : FormKnows(p)'
    BY FormFrame DEF SignedOnce
  <1> QED
    BY <1>1, <1>2, <1>3 DEF FormCore

LEMMA FormNext ==
  ASSUME FormCore, Forms!Next
  PROVE  FormCore'
  <1>t. Forms!TypeOK
    BY DEF FormCore
  <1>1. ASSUME NEW p \in Proc, Forms!Step(p) PROVE FormCore'
    <2>1. ASSUME Forms!Drop(p) PROVE FormCore'
      <3>1. sess' \in [Sid -> {"unused", "live", "revoked"}]
        BY <1>t, <2>1 DEF Forms!Drop, Forms!TypeOK
      <3> QED
        BY <2>1, <3>1, FormIdle DEF Forms!Drop
    <2> QED
      BY <1>1, <2>1, RenderPageCore, GetCsrfCore, IssueCsrfCore, CheckFormCore,
         CheckContextCore, DoCore, SetCookiesCore DEF Forms!Step
  <1>2. ASSUME NEW p \in Proc, NEW req \in {"login", "logout", "act"},
               NEW f \in Forms!Front, NEW t \in Token, Forms!Post(p, req, f, t)
        PROVE  FormCore'
    BY <1>2, PostCore
  <1>3. ASSUME NEW s \in Sid, Forms!Revoke(s) PROVE FormCore'
    <2>1. sess' \in [Sid -> {"unused", "live", "revoked"}] /\ active' \in BOOLEAN
      BY <1>t, <1>3 DEF Forms!Revoke, Forms!TypeOK
    <2> QED
      BY <1>3, <2>1, OutsideCore DEF Forms!Revoke
  <1>4. ASSUME Forms!SetStatus PROVE FormCore'
    <2>1. sess' \in [Sid -> {"unused", "live", "revoked"}] /\ active' \in BOOLEAN
      BY <1>t, <1>4 DEF Forms!SetStatus, Forms!TypeOK
    <2> QED
      BY <1>4, <2>1, OutsideCore DEF Forms!SetStatus
  <1> QED
    BY <1>1, <1>2, <1>3, <1>4 DEF Forms!Next

LEMMA FormInit == Forms!Init => FormCore
  <1> SUFFICES ASSUME Forms!Init PROVE FormCore
    OBVIOUS
  <1>1. Forms!Idle \in Forms!Handler
    BY DEF Forms!Idle, Forms!Handler, Forms!Label, Forms!Front
  <1>2. Forms!TypeOK
    <2>1. jar \in [session : Sid \cup {None}, csrf : Token \cup {None}]
      BY DEF Forms!Init
    <2>2. signed \in [Token -> Forms!Context \cup {None}] /\ held \subseteq Forms!Front \X Token
      BY DEF Forms!Init
    <2>3. sess \in [Sid -> {"unused", "live", "revoked"}] /\ fh \in [Proc -> Forms!Handler]
      BY <1>1 DEF Forms!Init
    <2>4. active \in BOOLEAN /\ mixed \in BOOLEAN
      BY Zenon DEF Forms!Init
    <2>5. bare \in 0 .. 2
      BY DEF Forms!Init
    <2> QED
      BY <2>1, <2>2, <2>3, <2>4, <2>5 DEF Forms!TypeOK
  <1>3. TokenTables /\ FewTokens
    BY DEF Forms!Init, TokenTables, FewTokens, Signed
  <1>4. \A p \in Proc : FormKnows(p)
    BY DEF Forms!Init, Forms!Idle, FormKnows
  <1> QED
    BY <1>2, <1>3, <1>4 DEF FormCore

\* A JSON request acts as the session its token was signed for (require_csrf of the
\* JSON routes), and the forms of several tabs are accepted together, while the
\* browser was given one token and no JSON route is used (csrf_token_for_page,
\* demo_csrf_middleware): for any number of tabs, tokens, sessions and requests.
THEOREM TokensFitTheirUse == BrowserSpec => []TokensFit
  <1>1. BrowserInit => FormCore
    BY FormInit DEF BrowserInit
  <1>2. FormCore /\ [BrowserNext]_<<part, vars, fvars, tvars, lvars>> => FormCore'
    <2> SUFFICES ASSUME FormCore, [BrowserNext]_<<part, vars, fvars, tvars, lvars>>
                 PROVE  FormCore'
      OBVIOUS
    <2>1. CASE Forms!Next
      BY <2>1, FormNext
    <2>2. CASE UNCHANGED fvars
      <3>1. sess' \in [Sid -> {"unused", "live", "revoked"}] /\ active' \in BOOLEAN
        BY <2>2 DEF fvars, FormCore, Forms!TypeOK
      <3> QED
        BY <2>2, <3>1, OutsideCore DEF fvars
    <2> QED
      BY <2>1, <2>2 DEF BrowserNext
  <1>3. FormCore => TokensFit
    <2> SUFFICES ASSUME FormCore, NEW p \in Proc
                 PROVE  /\ fh[p].pc = "acted" /\ fh[p].front = "json" =>
                             signed[fh[p].token] =
                               IF fh[p].bound THEN fh[p].session ELSE "anonymous"
                        /\ fh[p].pc = "double" /\ bare < 2 /\ ~mixed =>
                             /\ Forms!DoubleSubmitted(p)
                             /\ Forms!VerifyFor(fh[p].token, "anonymous")
      BY DEF TokensFit, Forms!ActsAreBound, Forms!FormsAccepted
    <2>1. FormKnows(p) /\ FewTokens
      BY DEF FormCore
    <2>2. None \notin Token
      BY InstanceAssumption DEF Forms!SentinelAssumption
    <2> QED
      BY <2>1, <2>2 DEF FormKnows, FewTokens, Signed, Forms!DoubleSubmitted, Forms!VerifyFor
  <1> QED
    BY <1>1, <1>2, <1>3, PTL DEF BrowserSpec

-----------------------------------------------------------------------------
(* The social logins of the tabs *)

Tab == {"closed", "leaving", "away", "back", "done"}
LoginLabel == {"idle", "state", "exchange", "login", "answer"}
LoginLocals == [pc : LoginLabel, attempt : Attempt \cup {None}, jar : Attempt \cup {None}]

LoginTypes ==
  /\ tab \in [Attempt -> Tab]
  /\ cookie \in [{"google", "facebook"} -> Attempt \cup {None}]
  /\ tflow \in [Attempt -> {"absent", "open", "consumed"}]
  /\ code \in [Attempt -> {"none", "fresh", "used"}]
  /\ logins \in [Attempt -> Nat]
  /\ th \in [Proc -> LoginLocals]
  /\ refused \subseteq Attempt /\ disturbed \subseteq Attempt

\* What the tables say of an attempt, and what of one that nothing has spoilt.
AttemptInv ==
  \A a \in Attempt :
    /\ tab[a] = "closed" => tflow[a] = "absent"
    /\ logins[a] <= 1
    /\ logins[a] > 0 => tflow[a] = "consumed"
    /\ a \notin disturbed =>
         /\ tab[a] \in {"leaving", "away", "back"} => tflow[a] = "open"
         /\ tab[a] = "back" => code[a] = "fresh"
         /\ tab[a] \in {"away", "back"} /\ a \in WithIssuer => cookie["google"] = a

\* The handler has consumed the state of its attempt.
Consumed(p) == th[p].pc = "login" \/ (th[p].pc = "exchange" /\ th[p].attempt \in WithIssuer)

LoginKnows(p) ==
  th[p].pc # "idle" =>
    LET a == th[p].attempt IN
    /\ a \in Attempt /\ tab[a] = "done"
    /\ Consumed(p) => tflow[a] = "consumed" /\ logins[a] = 0
    /\ a \notin disturbed =>
         /\ th[p].pc \in {"state", "exchange"} => Logins!Fits(p)
         /\ th[p].pc = "state" \/ (th[p].pc = "exchange" /\ a \notin WithIssuer) =>
              tflow[a] = "open"
         /\ th[p].pc = "exchange" \/ (th[p].pc = "state" /\ a \in WithIssuer) =>
              code[a] = "fresh"

\* One handler has consumed a state, and an attempt that nothing has spoilt has one
\* callback.
LoginAlone ==
  \A p, q \in Proc :
    /\ th[p].pc # "idle" /\ th[q].pc # "idle"
    /\ th[p].attempt = th[q].attempt
    /\ (Consumed(p) /\ Consumed(q)) \/ th[p].attempt \notin disturbed
    => p = q

LoginCore ==
  /\ LoginTypes /\ AttemptInv /\ LoginAlone /\ refused \subseteq disturbed
  /\ \A p \in Proc : LoginKnows(p)

LEMMA TabLocals ==
  ASSUME LoginCore, NEW p \in Proc
  PROVE  /\ th \in [Proc -> LoginLocals] /\ th[p] \in LoginLocals
         /\ LoginKnows(p)
         /\ Logins!Idle \in LoginLocals
         /\ \A l \in LoginLabel : [th[p] EXCEPT !.pc = l] \in LoginLocals
  <1>1. th[p] \in LoginLocals
    BY DEF LoginCore, LoginTypes
  <1>2. \A l \in LoginLabel : [th[p] EXCEPT !.pc = l] \in LoginLocals
    BY <1>1 DEF LoginLocals
  <1>3. Logins!Idle \in LoginLocals
    BY DEF Logins!Idle, LoginLocals, LoginLabel
  <1> QED
    BY <1>1, <1>2, <1>3 DEF LoginCore, LoginTypes

\* The handlers know what they knew when a step leaves them alone.
LEMMA LoginFrame ==
  ASSUME LoginCore, NEW q \in Proc, th'[q] = th[q],
         disturbed \subseteq disturbed',
         \A a \in Attempt :
           /\ tab[a] = "done" => tab'[a] = "done"
           /\ tflow[a] = "consumed" => tflow'[a] = "consumed"
           /\ logins'[a] = logins[a] \/ ~(Consumed(q) /\ th[q].attempt = a)
           /\ a \notin disturbed' /\ th[q].pc # "idle" /\ th[q].attempt = a =>
                tflow'[a] = tflow[a] /\ code'[a] = code[a]
  PROVE  LoginKnows(q)'
  <1>1. LoginKnows(q)
    BY DEF LoginCore
  <1>2. Logins!Fits(q) => Logins!Fits(q)'
    BY DEF Logins!Fits
  <1> QED
    BY <1>1, <1>2 DEF LoginKnows, Consumed

\* What the attempts do outside the handlers.
AttemptStep(a) ==
  \/ Logins!SocialStart(a) \/ Logins!Redirect(a) \/ Logins!Authorize(a)
  \/ Logins!Lapse(a) \/ Logins!Forget(a)

LEMMA AttemptStepTypes ==
  ASSUME LoginCore, NEW a \in Attempt, AttemptStep(a)
  PROVE  LoginTypes' /\ th' = th /\ logins' = logins /\ refused' = refused
         /\ disturbed \subseteq disturbed'
  <1>1. a # None /\ Logins!CookieName(a) \in {"google", "facebook"}
    BY InstanceAssumption DEF Logins!AttemptAssumption, Logins!CookieName, Logins!ProviderOf
  <1>2. \A v : Logins!Waiting(v) \subseteq Attempt
    BY DEF Logins!Waiting
  <1>3. LoginTypes
    BY DEF LoginCore
  <1>4. CASE Logins!SocialStart(a)
    BY <1>3, <1>4 DEF LoginTypes, Logins!SocialStart, Tab
  <1>5. CASE Logins!Redirect(a)
    BY <1>1, <1>2, <1>3, <1>5 DEF LoginTypes, Logins!Redirect, Tab
  <1>6. CASE Logins!Authorize(a)
    BY <1>3, <1>6 DEF LoginTypes, Logins!Authorize, Tab
  <1>7. CASE Logins!Lapse(a)
    BY <1>3, <1>7 DEF LoginTypes, Logins!Lapse, Logins!browser
  <1>8. CASE Logins!Forget(a)
    BY <1>1, <1>3, <1>8 DEF LoginTypes, Logins!Forget
  <1> QED
    BY <1>4, <1>5, <1>6, <1>7, <1>8 DEF AttemptStep

LEMMA AttemptStepCore ==
  ASSUME LoginCore, NEW a \in Attempt, AttemptStep(a)
  PROVE  LoginCore'
  <1>0. /\ LoginTypes' /\ th' = th /\ logins' = logins /\ refused' = refused
        /\ disturbed \subseteq disturbed'
    BY AttemptStepTypes
  <1>t. LoginTypes /\ AttemptInv
    BY DEF LoginCore
  <1>n. WithIssuer \subseteq Attempt /\ None \notin Attempt
    BY InstanceAssumption DEF Logins!AttemptAssumption
  <1>1. AttemptInv'
    <2>1. CASE Logins!SocialStart(a)
      BY <1>t, <2>1 DEF LoginTypes, AttemptInv, Logins!SocialStart
    <2>2. CASE Logins!Redirect(a)
      <3>1. CASE a \in WithIssuer
        <4>1. /\ cookie' = [cookie EXCEPT !["google"] = a]
              /\ disturbed' = disturbed \cup Logins!Waiting("google")
          BY <2>2, <3>1 DEF Logins!Redirect, Logins!CookieName, Logins!ProviderOf
        <4>2. cookie'["google"] = a
          BY <1>t, <4>1 DEF LoginTypes
        <4>3. /\ tab[a] = "leaving" /\ tab' = [tab EXCEPT ![a] = "away"]
              /\ tflow' = tflow /\ code' = code
          BY <2>2 DEF Logins!Redirect
        <4>4. ASSUME NEW b \in Attempt, b # a, b \in WithIssuer, tab[b] \in {"away", "back"}
              PROVE  b \in disturbed'
          BY <4>1, <4>4 DEF Logins!Waiting, Logins!ProviderOf
        <4> QED
          BY <1>0, <1>t, <3>1, <4>2, <4>3, <4>4 DEF LoginTypes, AttemptInv
      <3>2. CASE a \notin WithIssuer
        BY <1>0, <1>t, <2>2, <3>2 DEF LoginTypes, AttemptInv, Logins!Redirect
      <3> QED
        BY <3>1, <3>2
    <2>3. CASE Logins!Authorize(a)
      BY <1>t, <2>3 DEF LoginTypes, AttemptInv, Logins!Authorize
    <2>4. CASE Logins!Lapse(a)
      BY <1>t, <2>4 DEF LoginTypes, AttemptInv, Logins!Lapse, Logins!browser
    <2>5. CASE Logins!Forget(a)
      <3>1. /\ cookie[Logins!CookieName(a)] = a
            /\ cookie' = [cookie EXCEPT ![Logins!CookieName(a)] = None]
            /\ disturbed' = disturbed \cup {a}
            /\ tab' = tab /\ tflow' = tflow /\ code' = code
        BY <2>5 DEF Logins!Forget
      <3>2. \A b \in Attempt : b # a /\ cookie["google"] = b => cookie'["google"] = b
        BY <1>t, <3>1 DEF LoginTypes
      <3> QED
        BY <1>0, <1>t, <3>1, <3>2 DEF AttemptInv
    <2> QED
      BY <2>1, <2>2, <2>3, <2>4, <2>5 DEF AttemptStep
  <1>2. ASSUME NEW q \in Proc PROVE LoginKnows(q)'
    <2>1. LoginKnows(q)
      BY DEF LoginCore
    <2>2. /\ \A b \in Attempt : tab[b] = "done" => tab'[b] = "done"
          /\ \A b \in Attempt : tflow[b] = "consumed" => tflow'[b] = "consumed"
          /\ \A b \in Attempt : b \notin disturbed' /\ tab[b] = "done" =>
               tflow'[b] = tflow[b] /\ code'[b] = code[b]
      BY <1>t DEF LoginTypes, AttemptInv, AttemptStep, Logins!SocialStart, Logins!Redirect,
         Logins!Authorize, Logins!Lapse, Logins!Forget, Logins!browser
    <2>3. th[q].pc # "idle" => th[q].attempt \in Attempt /\ tab[th[q].attempt] = "done"
      BY <2>1 DEF LoginKnows
    <2> QED
      BY <1>0, <2>2, <2>3, LoginFrame
  <1>3. LoginAlone'
    BY <1>0 DEF LoginCore, LoginAlone, Consumed
  <1> QED
    BY <1>0, <1>1, <1>2, <1>3 DEF LoginCore

\* The facts that every step of a handler starts from.
LEMMA LoginStart ==
  ASSUME LoginCore, NEW p \in Proc, th[p].pc # "idle"
  PROVE  /\ LoginTypes /\ AttemptInv /\ refused \subseteq disturbed
         /\ th[p].attempt \in Attempt /\ tab[th[p].attempt] = "done"
         /\ LoginKnows(p)
         /\ \A l \in LoginLabel : [th[p] EXCEPT !.pc = l] \in LoginLocals
         /\ \A l \in LoginLabel : [th EXCEPT ![p].pc = l] \in [Proc -> LoginLocals]
         /\ \A q \in Proc : q # p /\ th[q].pc # "idle" /\ th[q].attempt = th[p].attempt =>
              /\ ~(Consumed(p) /\ Consumed(q))
              /\ th[p].attempt \in disturbed
  <1>1. LoginTypes /\ AttemptInv /\ refused \subseteq disturbed /\ LoginKnows(p) /\ LoginAlone
    BY DEF LoginCore
  <1>2. \A l \in LoginLabel : [th[p] EXCEPT !.pc = l] \in LoginLocals
    BY TabLocals
  <1>3. \A l \in LoginLabel : [th EXCEPT ![p].pc = l] \in [Proc -> LoginLocals]
    BY <1>1, <1>2 DEF LoginTypes
  <1>4. th[p].attempt \in Attempt /\ tab[th[p].attempt] = "done"
    BY <1>1 DEF LoginKnows
  <1>5. ASSUME NEW q \in Proc, q # p, th[q].pc # "idle", th[q].attempt = th[p].attempt
        PROVE  ~(Consumed(p) /\ Consumed(q)) /\ th[p].attempt \in disturbed
    BY <1>1, <1>5 DEF LoginAlone
  <1> QED
    BY <1>1, <1>2, <1>3, <1>4, <1>5

\* A handler that goes on with its attempt.
LEMMA LoginGoesOn ==
  ASSUME LoginCore, NEW p \in Proc, th[p].pc # "idle",
         NEW l \in LoginLabel \ {"idle"}, th' = [th EXCEPT ![p].pc = l]
  PROVE  /\ th' \in [Proc -> LoginLocals]
         /\ th'[p].pc = l /\ th'[p].attempt = th[p].attempt /\ th'[p].jar = th[p].jar
         /\ \A q \in Proc : q # p => th'[q] = th[q]
         /\ \A q \in Proc : th'[q].attempt = th[q].attempt
         /\ \A q \in Proc : th'[q].pc # "idle" <=> th[q].pc # "idle"
         /\ \A q \in Proc : q # p => (Consumed(q)' <=> Consumed(q))
         /\ Logins!Fits(p)' <=> Logins!Fits(p)
  <1>1. th \in [Proc -> LoginLocals] /\ th[p] \in LoginLocals
    BY TabLocals
  <1>2. th' \in [Proc -> LoginLocals]
    BY LoginStart
  <1>3. th'[p] = [th[p] EXCEPT !.pc = l] /\ \A q \in Proc : q # p => th'[q] = th[q]
    BY <1>1
  <1>4. th'[p].pc = l /\ th'[p].attempt = th[p].attempt /\ th'[p].jar = th[p].jar
    BY <1>1, <1>3 DEF LoginLocals
  <1>5. \A q \in Proc : q # p => (Consumed(q)' <=> Consumed(q))
    BY <1>3 DEF Consumed
  <1>6. Logins!Fits(p)' <=> Logins!Fits(p)
    BY <1>4 DEF Logins!Fits
  <1> QED
    BY <1>2, <1>3, <1>4, <1>5, <1>6

\* Who consumes a state is the first, so that it stays alone.
LEMMA StaysAlone ==
  ASSUME LoginCore, NEW p \in Proc, th[p].pc # "idle",
         NEW l \in LoginLabel \ {"idle"}, th' = [th EXCEPT ![p].pc = l],
         disturbed \subseteq disturbed',
         Consumed(p)' => Consumed(p) \/ tflow[th[p].attempt] # "consumed"
  PROVE  LoginAlone'
  <1>1. /\ th'[p].attempt = th[p].attempt
        /\ \A q \in Proc : th'[q].attempt = th[q].attempt
        /\ \A q \in Proc : th'[q].pc # "idle" <=> th[q].pc # "idle"
        /\ \A q \in Proc : q # p => (Consumed(q)' <=> Consumed(q))
    BY LoginGoesOn
  <1>2. \A q \in Proc : LoginKnows(q)
    BY DEF LoginCore
  <1>3. \A q \in Proc : q # p /\ Consumed(q) /\ th[q].attempt = th[p].attempt =>
          tflow[th[p].attempt] = "consumed"
    BY <1>2 DEF LoginKnows, Consumed
  <1>4. LoginAlone
    BY DEF LoginCore
  <1>5. ASSUME NEW q \in Proc, NEW r \in Proc, q # r,
               th'[q].pc # "idle", th'[r].pc # "idle", th'[q].attempt = th'[r].attempt
        PROVE  ~(Consumed(q)' /\ Consumed(r)') /\ th'[q].attempt \in disturbed'
    <2>1. th[q].pc # "idle" /\ th[r].pc # "idle" /\ th[q].attempt = th[r].attempt
      BY <1>1, <1>5
    <2>2. ~(Consumed(q) /\ Consumed(r)) /\ th[q].attempt \in disturbed
      BY <1>4, <1>5, <2>1 DEF LoginAlone
    <2>3. th'[q].attempt \in disturbed'
      BY <1>1, <2>2
    <2>4. ~(Consumed(q)' /\ Consumed(r)')
      BY <1>1, <1>3, <1>5, <2>1, <2>2
    <2> QED
      BY <2>3, <2>4
  <1> QED
    BY <1>5 DEF LoginAlone

LEMMA CallbackCore ==
  ASSUME LoginCore, NEW p \in Proc, NEW a \in Attempt, Logins!SocialCallback(p, a)
  PROVE  LoginCore'
  <1> DEFINE g == Logins!CookieName(a)
  <1>n. WithIssuer \subseteq Attempt /\ None \notin Attempt
    BY InstanceAssumption DEF Logins!AttemptAssumption
  <1>c. g \in {"google", "facebook"} /\ (a \in WithIssuer => g = "google")
    BY DEF Logins!CookieName, Logins!ProviderOf
  <1>t. LoginTypes /\ AttemptInv /\ LoginAlone /\ refused \subseteq disturbed
    BY DEF LoginCore
  <1>1. /\ th[p].pc = "idle" /\ tab[a] \in {"back", "done"}
        /\ tab' = [tab EXCEPT ![a] = "done"]
        /\ disturbed' = (IF tab[a] = "done" THEN disturbed \cup {a} ELSE disturbed)
        /\ UNCHANGED <<cookie, tflow, code, logins>>
    BY DEF Logins!SocialCallback
  <1>2. PICK r \in LoginLocals :
          /\ th' = [th EXCEPT ![p] = r]
          /\ r.attempt = a
          /\ \/ /\ r.pc = "answer" /\ refused' = refused \cup {a}
                /\ a \in WithIssuer /\ cookie["google"] = None
             \/ /\ r.pc = (IF a \in WithIssuer THEN "state" ELSE "exchange")
                /\ r.jar = cookie[g] /\ refused' = refused
    <2>1. CASE a \in WithIssuer /\ cookie[g] = None
      <3> DEFINE r == [Logins!Idle EXCEPT !.pc = "answer", !.attempt = a]
      <3>1. th' = [th EXCEPT ![p] = r] /\ refused' = refused \cup {a}
        BY <2>1 DEF Logins!SocialCallback
      <3>2. r.pc = "answer" /\ r.attempt = a
        BY DEF Logins!Idle
      <3>3. r \in LoginLocals
        <4>1. Logins!Idle \in LoginLocals
          BY TabLocals
        <4>2. "answer" \in LoginLabel
          BY DEF LoginLabel
        <4> QED
          BY <4>1, <4>2 DEF LoginLocals
      <3> QED
        BY <1>c, <2>1, <3>1, <3>2, <3>3
    <2>2. CASE ~(a \in WithIssuer /\ cookie[g] = None)
      <3> DEFINE r == [pc |-> IF a \in WithIssuer THEN "state" ELSE "exchange",
                       attempt |-> a, jar |-> cookie[g]]
      <3>1. th' = [th EXCEPT ![p] = r] /\ refused' = refused
        BY <2>2 DEF Logins!SocialCallback
      <3>2. cookie[g] \in Attempt \cup {None}
        BY <1>c, <1>t DEF LoginTypes
      <3>3. r \in LoginLocals
        BY <3>2 DEF LoginLocals, LoginLabel
      <3> QED
        BY <3>1, <3>3
    <2> QED
      BY <2>1, <2>2
  <1>3. th'[p] = r /\ \A q \in Proc : q # p => th'[q] = th[q]
    BY <1>2, <1>t DEF LoginTypes
  <1>4. a \notin disturbed' =>
          /\ tab[a] = "back" /\ a \notin disturbed /\ tflow[a] = "open" /\ code[a] = "fresh"
          /\ a \in WithIssuer => cookie["google"] = a
    BY <1>1, <1>t DEF AttemptInv
  <1>5. refused' \subseteq disturbed'
    BY <1>1, <1>2, <1>4, <1>n, <1>t
  <1>6. LoginTypes'
    <2>1. tab' \in [Attempt -> Tab]
      BY <1>1, <1>t DEF LoginTypes, Tab
    <2>2. th' \in [Proc -> LoginLocals]
      BY <1>2, <1>t DEF LoginTypes
    <2> QED
      BY <1>1, <1>2, <2>1, <2>2, <1>t DEF LoginTypes
  <1>7. AttemptInv'
    BY <1>1, <1>t DEF LoginTypes, AttemptInv
  <1>8. LoginKnows(p)'
    <2>1. tab'[a] = "done"
      BY <1>1, <1>t DEF LoginTypes
    <2>2. th'[p].attempt = a /\ ~Consumed(p)'
      BY <1>2, <1>3 DEF Consumed
    <2>3. a \notin disturbed' /\ th'[p].pc \in {"state", "exchange"} => Logins!Fits(p)'
      BY <1>2, <1>3, <1>4, <1>c DEF Logins!Fits
    <2>4. th'[p].pc = "state" => a \in WithIssuer
      BY <1>2, <1>3
    <2> QED
      BY <1>1, <1>4, <2>1, <2>2, <2>3, <2>4 DEF LoginKnows
  <1>9. ASSUME NEW q \in Proc, q # p PROVE LoginKnows(q)'
    <2>1. \A b \in Attempt : tab[b] = "done" => tab'[b] = "done"
      BY <1>1, <1>t DEF LoginTypes
    <2> QED
      BY <1>1, <1>3, <1>9, <2>1, LoginFrame
  <1>10. LoginAlone'
    <2>1. ~Consumed(p)' /\ th'[p].attempt = a
      BY <1>2, <1>3 DEF Consumed
    <2>2. ASSUME NEW q \in Proc, q # p, th'[q].pc # "idle", th'[q].attempt = a
          PROVE  a \in disturbed'
      <3>1. LoginKnows(q) /\ th[q].attempt = a /\ th[q].pc # "idle"
        BY <1>3, <2>2 DEF LoginCore
      <3>2. tab[a] = "done"
        BY <3>1 DEF LoginKnows
      <3> QED
        BY <1>1, <3>2
    <2>3. ASSUME NEW q \in Proc, NEW s \in Proc, q # p, s # p, q # s,
                 th'[q].pc # "idle", th'[s].pc # "idle", th'[q].attempt = th'[s].attempt
          PROVE  ~(Consumed(q)' /\ Consumed(s)') /\ th'[q].attempt \in disturbed'
      BY <1>1, <1>3, <1>t, <2>3 DEF LoginAlone, Consumed
    <2> QED
      BY <2>1, <2>2, <2>3 DEF LoginAlone
  <1> QED
    BY <1>5, <1>6, <1>7, <1>8, <1>9, <1>10 DEF LoginCore

\* A refusal, whatever it has used up of an attempt that is spoilt.
LEMMA RefuseCore ==
  ASSUME LoginCore, NEW p \in Proc, th[p].pc # "idle", Logins!Refuse(p),
         UNCHANGED <<tab, cookie, tflow, logins>>,
         disturbed' = disturbed \/ disturbed' = disturbed \cup {th[p].attempt},
         th[p].attempt \in disturbed',
         code' = code \/ code' = [code EXCEPT ![th[p].attempt] = "used"]
  PROVE  LoginCore'
  <1> DEFINE a == th[p].attempt
  <1>1. /\ th' = [th EXCEPT ![p].pc = "answer"]
        /\ refused' = refused \cup {a}
    BY DEF Logins!Refuse
  <1>t. /\ LoginTypes /\ AttemptInv /\ refused \subseteq disturbed
        /\ a \in Attempt /\ tab[a] = "done"
    BY LoginStart
  <1>2. "answer" \in LoginLabel \ {"idle"}
    BY DEF LoginLabel
  <1>3. /\ th' \in [Proc -> LoginLocals]
        /\ th'[p].pc = "answer" /\ th'[p].attempt = a
        /\ \A q \in Proc : q # p => th'[q] = th[q]
    BY <1>1, <1>2, LoginGoesOn
  <1>4. disturbed \subseteq disturbed' /\ disturbed' \subseteq Attempt
    BY <1>t DEF LoginTypes
  <1>5. LoginTypes'
    BY <1>1, <1>3, <1>4, <1>t DEF LoginTypes
  <1>6. AttemptInv'
    BY <1>4, <1>t DEF LoginTypes, AttemptInv
  <1>7. LoginKnows(p)'
    BY <1>3, <1>t DEF LoginKnows, Consumed
  <1>8. ASSUME NEW q \in Proc, q # p PROVE LoginKnows(q)'
    <2>1. \A b \in Attempt : b # a => code'[b] = code[b]
      BY <1>t DEF LoginTypes
    <2> QED
      BY <1>3, <1>4, <1>8, <2>1, LoginFrame
  <1>9. LoginAlone'
    <2>1. ~Consumed(p)'
      BY <1>3 DEF Consumed
    <2> QED
      BY <1>1, <1>2, <1>4, <2>1, StaysAlone
  <1> QED
    BY <1>1, <1>4, <1>t, <1>5, <1>6, <1>7, <1>8, <1>9 DEF LoginCore

LEMMA ConsumeStateCore ==
  ASSUME LoginCore, NEW p \in Proc, Logins!ConsumeState(p)
  PROVE  LoginCore'
  <1> DEFINE a == th[p].attempt
  <1>1. th[p].pc = "state" /\ UNCHANGED <<tab, cookie, code, logins, disturbed>>
    BY DEF Logins!ConsumeState, Logins!browser
  <1>t. /\ LoginTypes /\ AttemptInv /\ refused \subseteq disturbed
        /\ a \in Attempt /\ tab[a] = "done" /\ LoginKnows(p)
    BY <1>1, LoginStart
  <1>2. a \notin disturbed => Logins!Fits(p) /\ tflow[a] = "open"
    BY <1>1, <1>t DEF LoginKnows
  <1>3. CASE tflow[a] = "open" /\ Logins!Fits(p)
    <2> DEFINE l == IF a \in WithIssuer THEN "exchange" ELSE "login"
    <2>1. /\ tflow' = [tflow EXCEPT ![a] = "consumed"]
          /\ th' = [th EXCEPT ![p].pc = l] /\ refused' = refused
      BY <1>3 DEF Logins!ConsumeState
    <2>2. l \in LoginLabel \ {"idle"}
      BY DEF LoginLabel
    <2> HIDE DEF l
    <2>3. /\ th' \in [Proc -> LoginLocals]
          /\ th'[p].pc = l /\ th'[p].attempt = a
          /\ \A q \in Proc : q # p => th'[q] = th[q]
          /\ Logins!Fits(p)' <=> Logins!Fits(p)
      BY <1>1, <2>1, <2>2, LoginGoesOn
    <2>4. LoginTypes'
      BY <1>1, <1>t, <2>1, <2>3 DEF LoginTypes
    <2>5. AttemptInv'
      BY <1>1, <1>t, <2>1 DEF LoginTypes, AttemptInv
    <2>6. tflow'[a] = "consumed" /\ logins[a] = 0
      BY <1>3, <1>t, <2>1 DEF LoginTypes, AttemptInv
    <2>7. LoginKnows(p)'
      BY <1>1, <1>3, <1>t, <2>3, <2>6 DEF LoginKnows, Consumed, l
    <2>8. ASSUME NEW q \in Proc, q # p PROVE LoginKnows(q)'
      <3>1. \A b \in Attempt : b # a => tflow'[b] = tflow[b]
        BY <2>1, <1>t DEF LoginTypes
      <3>2. th[q].pc # "idle" /\ th[q].attempt = a => a \in disturbed
        BY <1>1, <2>8, LoginStart
      <3> QED
        BY <1>1, <2>3, <2>6, <2>8, <3>1, <3>2, LoginFrame
    <2>9. LoginAlone'
      BY <1>1, <1>3, <2>1, <2>2, StaysAlone
    <2> QED
      BY <1>1, <1>t, <2>1, <2>4, <2>5, <2>7, <2>8, <2>9 DEF LoginCore
  <1>4. CASE ~(tflow[a] = "open" /\ Logins!Fits(p))
    <2>1. Logins!Refuse(p) /\ tflow' = tflow
      BY <1>4 DEF Logins!ConsumeState
    <2> QED
      BY <1>1, <1>2, <1>4, <2>1, RefuseCore
  <1> QED
    BY <1>3, <1>4

LEMMA ExchangeCodeCore ==
  ASSUME LoginCore, NEW p \in Proc, Logins!ExchangeCode(p)
  PROVE  LoginCore'
  <1> DEFINE a == th[p].attempt
  <1>1. /\ th[p].pc = "exchange" /\ UNCHANGED <<tab, cookie, tflow, logins, disturbed>>
        /\ code' = [code EXCEPT ![a] = "used"]
    BY DEF Logins!ExchangeCode, Logins!browser
  <1>t. /\ LoginTypes /\ AttemptInv /\ refused \subseteq disturbed
        /\ a \in Attempt /\ tab[a] = "done" /\ LoginKnows(p)
    BY <1>1, LoginStart
  <1>2. a \notin disturbed => Logins!Fits(p) /\ code[a] = "fresh"
    BY <1>1, <1>t DEF LoginKnows
  <1>3. CASE code[a] = "fresh" /\ Logins!Fits(p)
    <2> DEFINE l == IF a \in WithIssuer THEN "login" ELSE "state"
    <2>1. th' = [th EXCEPT ![p].pc = l] /\ refused' = refused
      BY <1>3 DEF Logins!ExchangeCode
    <2>2. l \in LoginLabel \ {"idle"}
      BY DEF LoginLabel
    <2> HIDE DEF l
    <2>3. /\ th' \in [Proc -> LoginLocals]
          /\ th'[p].pc = l /\ th'[p].attempt = a
          /\ \A q \in Proc : q # p => th'[q] = th[q]
          /\ Logins!Fits(p)' <=> Logins!Fits(p)
      BY <1>1, <2>1, <2>2, LoginGoesOn
    <2>4. LoginTypes'
      BY <1>1, <1>t, <2>1, <2>3 DEF LoginTypes
    <2>5. AttemptInv'
      BY <1>1, <1>t DEF LoginTypes, AttemptInv
    <2>6. Consumed(p)' <=> Consumed(p)
      BY <1>1, <2>3 DEF Consumed, l
    <2>7. LoginKnows(p)'
      BY <1>1, <1>3, <1>t, <2>3, <2>6 DEF LoginKnows, l
    <2>8. ASSUME NEW q \in Proc, q # p PROVE LoginKnows(q)'
      <3>1. \A b \in Attempt : b # a => code'[b] = code[b]
        BY <1>1, <1>t DEF LoginTypes
      <3>2. th[q].pc # "idle" /\ th[q].attempt = a => a \in disturbed
        BY <1>1, <2>8, LoginStart
      <3> QED
        BY <1>1, <2>3, <2>8, <3>1, <3>2, LoginFrame
    <2>9. LoginAlone'
      BY <1>1, <2>1, <2>2, <2>6, StaysAlone
    <2> QED
      BY <1>1, <1>t, <2>1, <2>4, <2>5, <2>7, <2>8, <2>9 DEF LoginCore
  <1>4. CASE ~(code[a] = "fresh" /\ Logins!Fits(p))
    <2>1. Logins!Refuse(p)
      BY <1>4 DEF Logins!ExchangeCode
    <2> QED
      BY <1>1, <1>2, <1>4, <2>1, RefuseCore
  <1> QED
    BY <1>3, <1>4

LEMMA LoginSucceeds ==
  ASSUME LoginCore, NEW p \in Proc, Logins!Login(p)
  PROVE  LoginCore'
  <1> DEFINE a == th[p].attempt
  <1>1. /\ th[p].pc = "login"
        /\ UNCHANGED <<tab, cookie, tflow, code, refused, disturbed>>
        /\ logins' = [logins EXCEPT ![a] = logins[a] + 1]
        /\ th' = [th EXCEPT ![p].pc = "answer"]
    BY DEF Logins!Login, Logins!browser
  <1>t. /\ LoginTypes /\ AttemptInv /\ refused \subseteq disturbed
        /\ a \in Attempt /\ tab[a] = "done" /\ LoginKnows(p)
    BY <1>1, LoginStart
  <1>2. Consumed(p) /\ tflow[a] = "consumed" /\ logins[a] = 0
    BY <1>1, <1>t DEF LoginKnows, Consumed
  <1>3. "answer" \in LoginLabel \ {"idle"}
    BY DEF LoginLabel
  <1>4. /\ th' \in [Proc -> LoginLocals]
        /\ th'[p].pc = "answer" /\ th'[p].attempt = a
        /\ \A q \in Proc : q # p => th'[q] = th[q]
    BY <1>1, <1>3, LoginGoesOn
  <1>5. logins' \in [Attempt -> Nat] /\ logins'[a] = 1
        /\ \A b \in Attempt : b # a => logins'[b] = logins[b]
    BY <1>1, <1>2, <1>t DEF LoginTypes
  <1>6. LoginTypes'
    BY <1>1, <1>t, <1>4, <1>5 DEF LoginTypes
  <1>7. AttemptInv'
    <2>1. \A b \in Attempt : logins'[b] <= 1 /\ (logins'[b] > 0 => tflow[b] = "consumed")
      BY <1>2, <1>5, <1>t DEF AttemptInv
    <2> QED
      BY <1>1, <1>t, <2>1 DEF AttemptInv
  <1>8. LoginKnows(p)'
    BY <1>1, <1>t, <1>4 DEF LoginKnows, Consumed
  <1>9. ASSUME NEW q \in Proc, q # p PROVE LoginKnows(q)'
    <2>1. ~(Consumed(q) /\ th[q].attempt = a)
      BY <1>1, <1>2, <1>9, LoginStart DEF Consumed
    <2> QED
      BY <1>1, <1>4, <1>5, <1>9, <2>1, LoginFrame
  <1>10. LoginAlone'
    <2>1. ~Consumed(p)'
      BY <1>4 DEF Consumed
    <2> QED
      BY <1>1, <1>3, <2>1, StaysAlone
  <1> QED
    BY <1>1, <1>t, <1>6, <1>7, <1>8, <1>9, <1>10 DEF LoginCore

LEMMA AnswerCore ==
  ASSUME LoginCore, NEW p \in Proc, Logins!Answer(p)
  PROVE  LoginCore'
  <1> DEFINE a == th[p].attempt
             g == Logins!CookieName(a)
  <1>1. /\ th[p].pc = "answer" /\ UNCHANGED <<tab, tflow, code, logins, refused>>
        /\ cookie' = [cookie EXCEPT ![g] = None]
        /\ disturbed' = disturbed \cup Logins!Waiting(Logins!ProviderOf(a))
        /\ th' = [th EXCEPT ![p] = Logins!Idle]
    BY DEF Logins!Answer
  <1>t. /\ LoginTypes /\ AttemptInv /\ refused \subseteq disturbed
        /\ a \in Attempt /\ LoginAlone
    BY <1>1, LoginStart DEF LoginCore
  <1>2. disturbed \subseteq disturbed' /\ disturbed' \subseteq Attempt
    BY <1>1, <1>t DEF LoginTypes, Logins!Waiting
  <1>3. th' \in [Proc -> LoginLocals] /\ th'[p].pc = "idle"
        /\ \A q \in Proc : q # p => th'[q] = th[q]
    <2>1. Logins!Idle \in LoginLocals /\ th \in [Proc -> LoginLocals]
      BY TabLocals
    <2> QED
      BY <1>1, <2>1 DEF Logins!Idle
  <1>4. LoginTypes'
    <2>1. cookie' \in [{"google", "facebook"} -> Attempt \cup {None}]
      BY <1>1, <1>t DEF LoginTypes
    <2> QED
      BY <1>1, <1>2, <1>3, <1>t, <2>1 DEF LoginTypes
  <1>5. AttemptInv'
    <2>1. ASSUME NEW b \in Attempt, b \in WithIssuer, b \notin disturbed',
                 tab[b] \in {"away", "back"}
          PROVE  cookie'["google"] = b
      <3>1. b \in Logins!Waiting("google") /\ cookie["google"] = b
        BY <1>1, <1>2, <1>t, <2>1 DEF Logins!Waiting, Logins!ProviderOf, AttemptInv
      <3>2. Logins!ProviderOf(a) # "google"
        BY <1>1, <2>1, <3>1
      <3>3. g # "google"
        BY <3>2 DEF Logins!CookieName
      <3> QED
        BY <1>1, <1>t, <3>1, <3>3 DEF LoginTypes
    <2> QED
      BY <1>1, <1>2, <1>t, <2>1 DEF AttemptInv
  <1>6. ASSUME NEW q \in Proc PROVE LoginKnows(q)'
    <2>1. CASE q = p
      BY <1>3, <2>1 DEF LoginKnows
    <2>2. CASE q # p
      BY <1>1, <1>2, <1>3, <2>2, LoginFrame
    <2> QED
      BY <2>1, <2>2
  <1>7. LoginAlone'
    BY <1>2, <1>3, <1>t DEF LoginAlone, Consumed
  <1> QED
    BY <1>1, <1>2, <1>t, <1>4, <1>5, <1>6, <1>7 DEF LoginCore
\* Every step of the social logins of the tabs.
LEMMA LoginNext ==
  ASSUME LoginCore, Logins!Next
  PROVE  LoginCore'
  <1>1. CASE \E a \in Attempt : AttemptStep(a)
    BY <1>1, AttemptStepCore
  <1>2. CASE \E p \in Proc, a \in Attempt : Logins!SocialCallback(p, a)
    BY <1>2, CallbackCore
  <1>3. CASE \E p \in Proc : Logins!ConsumeState(p)
    BY <1>3, ConsumeStateCore
  <1>4. CASE \E p \in Proc : Logins!ExchangeCode(p)
    BY <1>4, ExchangeCodeCore
  <1>5. ASSUME NEW p \in Proc, Logins!ExchangeFails(p)
        PROVE  LoginCore'
    BY <1>5, RefuseCore DEF Logins!ExchangeFails, Logins!browser
  <1>6. CASE \E p \in Proc : Logins!Login(p)
    BY <1>6, LoginSucceeds
  <1>7. CASE \E p \in Proc : Logins!Answer(p)
    BY <1>7, AnswerCore
  <1> QED
    BY <1>1, <1>2, <1>3, <1>4, <1>5, <1>6, <1>7 DEF Logins!Next, AttemptStep

LEMMA LoginInit == Logins!Init => LoginCore
  <1> SUFFICES ASSUME Logins!Init PROVE LoginCore
    OBVIOUS
  <1>1. Logins!Idle \in LoginLocals
    BY DEF Logins!Idle, LoginLocals, LoginLabel
  <1>2. LoginTypes
    BY <1>1 DEF Logins!Init, LoginTypes, Tab
  <1>3. \A p \in Proc : th[p].pc = "idle"
    BY DEF Logins!Init, Logins!Idle
  <1>4. LoginAlone /\ \A p \in Proc : LoginKnows(p)
    BY <1>3 DEF LoginAlone, LoginKnows
  <1>5. AttemptInv /\ refused \subseteq disturbed
    BY DEF Logins!Init, AttemptInv
  <1> QED
    BY <1>2, <1>4, <1>5 DEF LoginCore

\* The social logins of the tabs of a browser give one session each, however their
\* callbacks are repeated, and only an attempt that expired, was repeated or met
\* another one of the same provider is refused (social_start, social_callback).
THEOREM TabsDoNotDisturb == BrowserSpec => []TabsServe
  <1>1. BrowserInit => LoginCore
    BY LoginInit DEF BrowserInit
  <1>2. LoginCore /\ [BrowserNext]_<<part, vars, fvars, tvars, lvars>> => LoginCore'
    <2> SUFFICES ASSUME LoginCore, [BrowserNext]_<<part, vars, fvars, tvars, lvars>>
                 PROVE  LoginCore'
      OBVIOUS
    <2>1. CASE Logins!Next
      BY <2>1, LoginNext
    <2>2. CASE UNCHANGED tvars
      BY <2>2 DEF tvars, LoginCore, LoginTypes, AttemptInv, LoginAlone, LoginKnows, Consumed,
         Logins!Fits
    <2> QED
      BY <2>1, <2>2 DEF BrowserNext
  <1>3. LoginCore => TabsServe
    BY DEF LoginCore, AttemptInv, TabsServe, Logins!OthersAlone
  <1> QED
    BY <1>1, <1>2, <1>3, PTL DEF BrowserSpec
-----------------------------------------------------------------------------
(* The rate limiter *)

LoopProofs == INSTANCE RateLimitProofs WITH
  h <- lh, Window <- LoopWindow, MaxClock <- LoopTime
ThreadProofs == INSTANCE RateLimitProofs WITH
  h <- lh, Window <- ThreadWindow, MaxClock <- ThreadTime

OnLoop == part = "loop"
InThreads == part = "threads"

LEMMA LoopValues == LoopProofs!Parameters
  BY InstanceAssumption
  DEF LoopProofs!Parameters, Loop!IsFiniteSet, LoopProofs!IsFiniteSet,
      Loop!ConfigAssumption, LoopProofs!ConfigAssumption, Loop!SentinelAssumption,
      LoopProofs!SentinelAssumption, Loop!Bucket, LoopProofs!Bucket, Loop!Time,
      LoopProofs!Time

\* A behaviour about the limiter on an event loop is one of RateLimit; any other one
\* stays away from it.
LEMMA LoopBehaves ==
  BrowserSpec => (OnLoop /\ LoopProofs!Spec) \/ []~OnLoop
  <1>1. BrowserInit /\ OnLoop => LoopProofs!Init
    BY DEF BrowserInit, OnLoop,
      Loop!Init, LoopProofs!Init, Loop!Idle, LoopProofs!Idle, Loop!Time, LoopProofs!Time
  <1>2. Loop!Next => LoopProofs!Next
    <2>1. Loop!Stored = LoopProofs!Stored /\ Loop!Size = LoopProofs!Size
      BY DEF Loop!Stored, LoopProofs!Stored, Loop!Size, LoopProofs!Size, Loop!Cardinality,
         LoopProofs!Cardinality
    <2>2. ASSUME NEW p \in Proc, Loop!Step(p) PROVE LoopProofs!Step(p)
      <3>1. Loop!BeginCleanup(p) \/ Loop!CollectExpired(p) \/ Loop!PopExpired(p) \/ Loop!MakeRoom(p)
            \/ Loop!FindOldest(p) \/ Loop!EvictOldest(p) \/ Loop!Admit(p) \/ Loop!Refuse(p)
            \/ Loop!Count(p) \/ Loop!Raise(p)
        BY <2>2 DEF Loop!Step
      <3>2. Loop!BeginCleanup(p) => LoopProofs!BeginCleanup(p)
        BY <2>1 DEF Loop!BeginCleanup, LoopProofs!BeginCleanup
      <3>3. Loop!CollectExpired(p) => LoopProofs!CollectExpired(p)
        BY <2>1 DEF Loop!CollectExpired, LoopProofs!CollectExpired
      <3>4. Loop!PopExpired(p) => LoopProofs!PopExpired(p)
        BY <2>1 DEF Loop!PopExpired, LoopProofs!PopExpired, Loop!Pop, LoopProofs!Pop
      <3>5. Loop!MakeRoom(p) => LoopProofs!MakeRoom(p)
        BY <2>1 DEF Loop!MakeRoom, LoopProofs!MakeRoom, Loop!Full, LoopProofs!Full
      <3>6. Loop!FindOldest(p) => LoopProofs!FindOldest(p)
        BY <2>1 DEF Loop!FindOldest, LoopProofs!FindOldest
      <3>7. Loop!EvictOldest(p) => LoopProofs!EvictOldest(p)
        BY <2>1 DEF Loop!EvictOldest, LoopProofs!EvictOldest, Loop!Pop, LoopProofs!Pop
      <3>8. Loop!Admit(p) => LoopProofs!Admit(p)
        BY <2>1 DEF Loop!Admit, LoopProofs!Admit, Loop!Admits, LoopProofs!Admits,
           Loop!Current, LoopProofs!Current
      <3>9. Loop!Refuse(p) => LoopProofs!Refuse(p)
        BY <2>1 DEF Loop!Refuse, LoopProofs!Refuse, Loop!Admits, LoopProofs!Admits,
           Loop!Current, LoopProofs!Current, Loop!Finish, LoopProofs!Finish, Loop!Idle,
           LoopProofs!Idle
      <3>10. Loop!Count(p) => LoopProofs!Count(p)
        BY <2>1 DEF Loop!Count, LoopProofs!Count, Loop!Record, LoopProofs!Record,
           Loop!Finish, LoopProofs!Finish, Loop!Idle, LoopProofs!Idle
      <3>11. Loop!Raise(p) => LoopProofs!Raise(p)
        BY <2>1 DEF Loop!Raise, LoopProofs!Raise, Loop!Finish, LoopProofs!Finish,
           Loop!Idle, LoopProofs!Idle
      <3> QED
        BY <3>1, <3>2, <3>3, <3>4, <3>5, <3>6, <3>7, <3>8, <3>9, <3>10, <3>11 DEF LoopProofs!Step
    <2>3. ASSUME NEW p \in Proc, NEW k \in Key, Loop!Check(p, k) PROVE LoopProofs!Check(p, k)
      BY <2>3 DEF Loop!Check, LoopProofs!Check, Loop!Idle, LoopProofs!Idle
    <2>4. Loop!Tick => LoopProofs!Tick
      BY DEF Loop!Tick, LoopProofs!Tick
    <2> QED
      BY <2>2, <2>3, <2>4 DEF Loop!Next, LoopProofs!Next
  <1>3. [BrowserNext]_<<part, vars, fvars, tvars, lvars>> /\ OnLoop
          => OnLoop' /\ [LoopProofs!Next]_(LoopProofs!vars)
    BY <1>2 DEF BrowserNext, OnLoop, lvars, LoopProofs!vars
  <1>4. [BrowserNext]_<<part, vars, fvars, tvars, lvars>> /\ ~OnLoop => ~OnLoop'
    BY DEF BrowserNext, OnLoop
  <1> QED
    BY <1>1, <1>3, <1>4, PTL DEF BrowserSpec, LoopProofs!Spec

LEMMA ThreadsValues == ThreadProofs!Parameters
  BY InstanceAssumption
  DEF ThreadProofs!Parameters, Threads!IsFiniteSet, ThreadProofs!IsFiniteSet,
      Threads!ConfigAssumption, ThreadProofs!ConfigAssumption, Threads!SentinelAssumption,
      ThreadProofs!SentinelAssumption, Threads!Bucket, ThreadProofs!Bucket, Threads!Time,
      ThreadProofs!Time

\* A behaviour about the limiter in threads is one of RateLimit; any other one stays
\* away from it.
LEMMA ThreadsBehaves ==
  BrowserSpec => (InThreads /\ ThreadProofs!Spec) \/ []~InThreads
  <1>1. BrowserInit /\ InThreads => ThreadProofs!Init
    BY DEF BrowserInit, InThreads,
      Threads!Init, ThreadProofs!Init, Threads!Idle, ThreadProofs!Idle, Threads!Time,
      ThreadProofs!Time
  <1>2. Threads!Next => ThreadProofs!Next
    <2>1. Threads!Stored = ThreadProofs!Stored /\ Threads!Size = ThreadProofs!Size
      BY DEF Threads!Stored, ThreadProofs!Stored, Threads!Size, ThreadProofs!Size,
         Threads!Cardinality, ThreadProofs!Cardinality
    <2>2. ASSUME NEW p \in Proc, Threads!Step(p) PROVE ThreadProofs!Step(p)
      <3>1. Threads!BeginCleanup(p) \/ Threads!CollectExpired(p) \/ Threads!PopExpired(p) \/ Threads!MakeRoom(p)
            \/ Threads!FindOldest(p) \/ Threads!EvictOldest(p) \/ Threads!Admit(p) \/ Threads!Refuse(p)
            \/ Threads!Count(p) \/ Threads!Raise(p)
        BY <2>2 DEF Threads!Step
      <3>2. Threads!BeginCleanup(p) => ThreadProofs!BeginCleanup(p)
        BY <2>1 DEF Threads!BeginCleanup, ThreadProofs!BeginCleanup
      <3>3. Threads!CollectExpired(p) => ThreadProofs!CollectExpired(p)
        BY <2>1 DEF Threads!CollectExpired, ThreadProofs!CollectExpired
      <3>4. Threads!PopExpired(p) => ThreadProofs!PopExpired(p)
        BY <2>1 DEF Threads!PopExpired, ThreadProofs!PopExpired, Threads!Pop,
           ThreadProofs!Pop
      <3>5. Threads!MakeRoom(p) => ThreadProofs!MakeRoom(p)
        BY <2>1 DEF Threads!MakeRoom, ThreadProofs!MakeRoom, Threads!Full,
           ThreadProofs!Full
      <3>6. Threads!FindOldest(p) => ThreadProofs!FindOldest(p)
        BY <2>1 DEF Threads!FindOldest, ThreadProofs!FindOldest
      <3>7. Threads!EvictOldest(p) => ThreadProofs!EvictOldest(p)
        BY <2>1 DEF Threads!EvictOldest, ThreadProofs!EvictOldest, Threads!Pop,
           ThreadProofs!Pop
      <3>8. Threads!Admit(p) => ThreadProofs!Admit(p)
        BY <2>1 DEF Threads!Admit, ThreadProofs!Admit, Threads!Admits, ThreadProofs!Admits,
           Threads!Current, ThreadProofs!Current
      <3>9. Threads!Refuse(p) => ThreadProofs!Refuse(p)
        BY <2>1 DEF Threads!Refuse, ThreadProofs!Refuse, Threads!Admits,
           ThreadProofs!Admits, Threads!Current, ThreadProofs!Current, Threads!Finish,
           ThreadProofs!Finish, Threads!Idle, ThreadProofs!Idle
      <3>10. Threads!Count(p) => ThreadProofs!Count(p)
        BY <2>1 DEF Threads!Count, ThreadProofs!Count, Threads!Record, ThreadProofs!Record,
           Threads!Finish, ThreadProofs!Finish, Threads!Idle, ThreadProofs!Idle
      <3>11. Threads!Raise(p) => ThreadProofs!Raise(p)
        BY <2>1 DEF Threads!Raise, ThreadProofs!Raise, Threads!Finish, ThreadProofs!Finish,
           Threads!Idle, ThreadProofs!Idle
      <3> QED
        BY <3>1, <3>2, <3>3, <3>4, <3>5, <3>6, <3>7, <3>8, <3>9, <3>10, <3>11 DEF ThreadProofs!Step
    <2>3. ASSUME NEW p \in Proc, NEW k \in Key, Threads!Check(p, k) PROVE ThreadProofs!Check(p, k)
      BY <2>3 DEF Threads!Check, ThreadProofs!Check, Threads!Idle, ThreadProofs!Idle
    <2>4. Threads!Tick => ThreadProofs!Tick
      BY DEF Threads!Tick, ThreadProofs!Tick
    <2> QED
      BY <2>2, <2>3, <2>4 DEF Threads!Next, ThreadProofs!Next
  <1>3. [BrowserNext]_<<part, vars, fvars, tvars, lvars>> /\ InThreads
          => InThreads' /\ [ThreadProofs!Next]_(ThreadProofs!vars)
    BY <1>2 DEF BrowserNext, InThreads, lvars, ThreadProofs!vars
  <1>4. [BrowserNext]_<<part, vars, fvars, tvars, lvars>> /\ ~InThreads => ~InThreads'
    BY DEF BrowserNext, InThreads
  <1> QED
    BY <1>1, <1>3, <1>4, PTL DEF BrowserSpec, ThreadProofs!Spec

\* On an event loop at most limit requests of a key are admitted in a window, its
\* windows do not overlap, and there are no more than max_buckets buckets
\* (LimiterKept).
THEOREM LoopKeepsLimit == BrowserSpec => []LimiterKept
  <1>1. LoopProofs!Spec => []LoopProofs!AtMostLimit /\ []LoopProofs!MemoryBounded
    BY LoopValues, LoopProofs!LimitKept, LoopProofs!MemoryStaysBounded, PTL
  <1>2. LoopProofs!AtMostLimit /\ LoopProofs!MemoryBounded => LimiterKept
    BY DEF LimiterKept,
      Loop!AtMostLimit, LoopProofs!AtMostLimit, Loop!MemoryBounded,
      LoopProofs!MemoryBounded, Loop!Time, LoopProofs!Time, Loop!Size, LoopProofs!Size, Loop!Cardinality,
      LoopProofs!Cardinality,
      Loop!Stored, LoopProofs!Stored
  <1>3. ~OnLoop => LimiterKept
    BY DEF LimiterKept, OnLoop
  <1> QED
    BY <1>1, <1>2, <1>3, LoopBehaves, PTL

\* However many threads lose each other's updates, a request is refused only in a
\* window in which the limit has been admitted, and refusals end with that window
\* (RefusalsFollowLimit).
THEOREM ThreadsRefuseLate == BrowserSpec => []RefusalsFollowLimit
  <1>1. ThreadProofs!Spec => []ThreadProofs!RefusalJustified
    BY ThreadsValues, ThreadProofs!RefusalsJustified, PTL
  <1>2. ThreadProofs!RefusalJustified => RefusalsFollowLimit
    BY DEF RefusalsFollowLimit,
      Threads!RefusalJustified, ThreadProofs!RefusalJustified, Threads!Admits,
      ThreadProofs!Admits, Threads!Current, ThreadProofs!Current
  <1>3. ~InThreads => RefusalsFollowLimit
    BY DEF RefusalsFollowLimit, InThreads
  <1> QED
    BY <1>1, <1>2, <1>3, ThreadsBehaves, PTL
=============================================================================
