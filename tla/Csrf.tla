------------------------------- MODULE Csrf -------------------------------
(***************************************************************************)
(* Double-submit tokens and the cookies of a browser whose tabs use both   *)
(* front ends of the demo at the same time: the HTML forms, whose tokens   *)
(* are signed for anyone, and the JSON routes, whose tokens are signed for *)
(* the session.  Both keep their token in the same cookie.                 *)
(*                                                                         *)
(* A request carries the cookies the browser had when it was sent; an      *)
(* answer sets them when it arrives, in any order, or is lost.  One action *)
(* is a call of the service or a use of the tokens.  A signed token says   *)
(* what it was signed for and cannot be made by the browser.  Requests     *)
(* with a bearer token need no cookie and are left out.                    *)
(***************************************************************************)
EXTENDS Naturals

CONSTANTS
  Token, Sid, Proc,   \* tokens, sessions of one user, handlers
  None                \* sentinel

SentinelAssumption == None \notin Token \cup Sid \cup {"anonymous"}

VARIABLES
  jar,      \* the cookies of the browser
  held,     \* the tokens its open tabs hold, by front end
  signed,   \* what a token was signed for, or None
  sess,     \* the sessions: unused, live or revoked
  active,   \* whether the user is active
  h,        \* what each handler is at, and its locals
  bare,     \* history: how many pages were asked for without a good token, up to two
  mixed     \* history: whether the JSON routes have issued a token

vars == <<jar, held, signed, sess, active, h, bare, mixed>>

Front == {"form", "json"}
Context == {"anonymous"} \cup Sid
Label == {"idle", "context", "double", "bind", "do", "acted", "reply"}
Handler == [pc : Label, front : Front, req : {"page", "csrf", "login", "logout", "act"},
            session : Sid \cup {None}, cookie : Token \cup {None},
            token : Token \cup {None}, bound : BOOLEAN]

Idle == [pc |-> "idle", front |-> "form", req |-> "page", session |-> None,
         cookie |-> None, token |-> None, bound |-> FALSE]

Init ==
  /\ jar = [session |-> None, csrf |-> None]
  /\ held = {}
  /\ signed = [t \in Token |-> None]
  /\ sess = [s \in Sid |-> "unused"]
  /\ active = TRUE
  /\ h = [p \in Proc |-> Idle]
  /\ bare = 0 /\ mixed = FALSE

Local(p, r) == h' = [h EXCEPT ![p] = r]

\* A refusal sets no cookie: the handler is done.
Refuse(p) == Local(p, Idle)

\* verify_session finds the session live and its user active.
Usable(s) == s # None /\ active /\ sess[s] = "live"

-----------------------------------------------------------------------------
(* Tokens *)

Fresh(t) == signed[t] = None
Sign(t, c) == signed' = [signed EXCEPT ![t] = c]
VerifyFor(t, c) == t # None /\ signed[t] = c

\* What the JSON routes sign for: the session of the cookie if it is usable.
ContextKey(p) == IF Usable(h[p].session) THEN h[p].session ELSE "anonymous"

\* csrf_token_for_page: the token of the cookie if it is good.
RenderPage(p) ==
  /\ h[p].pc = "idle"
  /\ \E t \in Token :
       /\ IF VerifyFor(jar.csrf, "anonymous")
          THEN t = jar.csrf /\ UNCHANGED <<signed, bare>>
          ELSE /\ Fresh(t) /\ Sign(t, "anonymous")
               /\ bare' = IF bare = 2 THEN bare ELSE bare + 1
       /\ Local(p, [Idle EXCEPT !.pc = "reply", !.token = t])
  /\ UNCHANGED <<jar, held, sess, active, mixed>>

GetCsrf(p) ==
  /\ h[p].pc = "idle"
  /\ Local(p, [Idle EXCEPT !.pc = "context", !.front = "json", !.req = "csrf",
                           !.session = jar.session])
  /\ UNCHANGED <<jar, held, signed, sess, active, bare, mixed>>

IssueCsrf(p) ==
  /\ h[p].pc = "context"
  /\ \E t \in Token :
       /\ Fresh(t) /\ Sign(t, ContextKey(p))
       /\ Local(p, [Idle EXCEPT !.pc = "reply", !.front = "json", !.req = "csrf", !.token = t])
  /\ mixed' = TRUE
  /\ UNCHANGED <<jar, held, sess, active, bare>>

-----------------------------------------------------------------------------
(* Requests that change something *)

Post(p, req, front, t) ==
  /\ h[p].pc = "idle" /\ <<front, t>> \in held
  /\ Local(p, [Idle EXCEPT !.pc = IF front = "form" THEN "double" ELSE "bind",
                           !.front = front, !.req = req, !.session = jar.session,
                           !.cookie = jar.csrf, !.token = t])
  /\ UNCHANGED <<jar, held, signed, sess, active, bare, mixed>>

\* The token of the form or the header is the one of the cookie.
DoubleSubmitted(p) == h[p].token = h[p].cookie

\* demo_csrf_middleware; the token is of no more use.
CheckForm(p) ==
  /\ h[p].pc = "double"
  /\ IF DoubleSubmitted(p) /\ VerifyFor(h[p].token, "anonymous")
     THEN Local(p, [h[p] EXCEPT !.pc = "do", !.token = None, !.cookie = None])
     ELSE Refuse(p)
  /\ UNCHANGED <<jar, held, signed, sess, active, bare, mixed>>

\* Faulty variant (for ActsAreBound): a token for anyone will do.
CheckEither(p) ==
  /\ h[p].pc = "bind"
  /\ IF /\ DoubleSubmitted(p)
        /\ \/ VerifyFor(h[p].token, ContextKey(p))
           \/ VerifyFor(h[p].token, "anonymous")
     THEN Local(p, [h[p] EXCEPT !.pc = "do", !.cookie = None, !.bound = Usable(h[p].session)])
     ELSE Refuse(p)
  /\ UNCHANGED <<jar, held, signed, sess, active, bare, mixed>>

\* require_csrf of the JSON routes.
CheckContext(p) ==
  /\ h[p].pc = "bind"
  /\ IF DoubleSubmitted(p) /\ VerifyFor(h[p].token, ContextKey(p))
     THEN Local(p, [h[p] EXCEPT !.pc = "do", !.cookie = None, !.bound = Usable(h[p].session)])
     ELSE Refuse(p)
  /\ UNCHANGED <<jar, held, signed, sess, active, bare, mixed>>

\* The answer names the session of the cookie it will set.
Login(p) ==
  /\ h[p].pc = "do" /\ h[p].req = "login"
  /\ IF active
     THEN \E s \in Sid :
            /\ sess[s] = "unused"
            /\ sess' = [sess EXCEPT ![s] = "live"]
            /\ Local(p, [Idle EXCEPT !.pc = "reply", !.req = "login", !.session = s])
     ELSE Refuse(p) /\ UNCHANGED sess
  /\ UNCHANGED <<jar, held, signed, active, bare, mixed>>

Logout(p) ==
  /\ h[p].pc = "do" /\ h[p].req = "logout"
  /\ sess' = [s \in Sid |-> IF s = h[p].session THEN "revoked" ELSE sess[s]]
  /\ Local(p, [Idle EXCEPT !.pc = "reply", !.req = "logout"])
  /\ UNCHANGED <<jar, held, signed, active, bare, mixed>>

\* Any route that verifies the session and then does something as its user.
Act(p) ==
  /\ h[p].pc = "do" /\ h[p].req = "act"
  /\ IF Usable(h[p].session) THEN Local(p, [h[p] EXCEPT !.pc = "acted"]) ELSE Refuse(p)
  /\ UNCHANGED <<jar, held, signed, sess, active, bare, mixed>>

-----------------------------------------------------------------------------
(* Answers *)

SetCookies(p) ==
  /\ h[p].pc = "reply"
  /\ IF h[p].req \in {"page", "csrf"}
     THEN /\ jar' = [jar EXCEPT !.csrf = h[p].token]
          /\ held' = held \cup {<<h[p].front, h[p].token>>}
     ELSE /\ jar' = [jar EXCEPT !.session = h[p].session]
          /\ UNCHANGED held
  /\ Local(p, Idle)
  /\ UNCHANGED <<signed, sess, active, bare, mixed>>

\* An answer without cookies, one that is lost, a handler that dies.
Drop(p) ==
  /\ h[p].pc # "idle"
  /\ Local(p, Idle)
  /\ UNCHANGED <<jar, held, signed, sess, active, bare, mixed>>

\* An administrator revokes the session, bans the user or reinstates him.
Revoke(s) ==
  /\ sess[s] = "live"
  /\ sess' = [sess EXCEPT ![s] = "revoked"]
  /\ UNCHANGED <<jar, held, signed, active, h, bare, mixed>>

SetStatus ==
  /\ active' = ~active
  /\ UNCHANGED <<jar, held, signed, sess, h, bare, mixed>>

Step(p) ==
  \/ RenderPage(p) \/ GetCsrf(p) \/ IssueCsrf(p) \/ CheckForm(p) \/ CheckContext(p)
  \/ Login(p) \/ Logout(p) \/ Act(p) \/ SetCookies(p) \/ Drop(p)

Next ==
  \/ \E p \in Proc :
       \/ Step(p)
       \/ \E req \in {"login", "logout", "act"}, f \in Front, t \in Token : Post(p, req, f, t)
  \/ \E s \in Sid : Revoke(s)
  \/ SetStatus

Spec == Init /\ [][Next]_vars

-----------------------------------------------------------------------------
(* Properties *)

\* The cookies, the tables and the locals have their types.
TypeOK ==
  /\ jar \in [session : Sid \cup {None}, csrf : Token \cup {None}]
  /\ held \subseteq Front \X Token
  /\ signed \in [Token -> Context \cup {None}]
  /\ sess \in [Sid -> {"unused", "live", "revoked"}]
  /\ active \in BOOLEAN /\ mixed \in BOOLEAN /\ bare \in 0 .. 2
  /\ h \in [Proc -> Handler]

\* What a JSON request does as a session was asked for with a token signed for
\* that very session, whatever logins and logouts of other tabs change in
\* between; only a session that was not usable when the token was checked, and
\* was reinstated after that, acts on a token signed for anyone.
ActsAreBound ==
  \A p \in Proc : h[p].pc = "acted" /\ h[p].front = "json" =>
    signed[h[p].token] = IF h[p].bound THEN h[p].session ELSE "anonymous"

\* The forms of any number of tabs work at the same time, across logins and
\* logouts: one is refused for its token only after the browser asked for two
\* pages without having one, or used the JSON routes.
FormsAccepted ==
  \A p \in Proc : h[p].pc = "double" /\ bare < 2 /\ ~mixed =>
    DoubleSubmitted(p) /\ VerifyFor(h[p].token, "anonymous")
=============================================================================
