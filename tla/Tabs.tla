--------------------------------- MODULE Tabs ---------------------------------
(***************************************************************************)
(* Social logins in the tabs of one browser (social_start and              *)
(* social_callback of examples/saas_app.py).  An attempt is a state with   *)
(* its nonce and its PKCE verifier.  The state goes to the provider and    *)
(* comes back in the address of a tab; nonce and verifier of an OpenID     *)
(* provider wait in cookies, which the tabs share.                         *)
(*                                                                         *)
(* The provider, which gives out a code and exchanges it once against the  *)
(* verifier, and the browser are external.  What the account makes of the  *)
(* profile is in Social, the ID token in Oidc.                             *)
(***************************************************************************)
EXTENDS Naturals

CONSTANTS
  Attempt,
  WithIssuer,   \* the attempts at the OpenID provider; the others are at the other one
  Proc,
  None          \* sentinel

AttemptAssumption == WithIssuer \subseteq Attempt /\ None \notin Attempt

VARIABLES
  tab,        \* where the tab of an attempt is
  cookie,     \* the attempt the cookies of a name belong to, or None
  flow,       \* the login_flows row of an attempt
  code,       \* the code of an attempt at its provider
  h,          \* what each handler is at; jar is the cookie it was sent
  logins,     \* history: the sessions an attempt has given
  refused,    \* history: the attempts with a callback that was refused
  disturbed   \* history: the attempts that something else may have spoilt

browser == <<tab, cookie>>
vars == <<tab, cookie, flow, code, h, logins, refused, disturbed>>

ProviderOf(a) == IF a \in WithIssuer THEN "google" ELSE "facebook"

\* Faulty variant (for OthersAlone): the cookies have one name for all providers.
CookieOfAll(a) == "google"
\* _oauth_cookie_name
CookieName(a) == ProviderOf(a)

Idle == [pc |-> "idle", attempt |-> None, jar |-> None]

Init ==
  /\ tab = [a \in Attempt |-> "closed"]
  /\ cookie = [n \in {"google", "facebook"} |-> None]
  /\ flow = [a \in Attempt |-> "absent"]
  /\ code = [a \in Attempt |-> "none"]
  /\ h = [p \in Proc |-> Idle]
  /\ logins = [a \in Attempt |-> 0]
  /\ refused = {} /\ disturbed = {}

\* The attempts at a provider that wait for their callback.
Waiting(provider) ==
  {a \in Attempt : ProviderOf(a) = provider /\ tab[a] \in {"away", "back"}}

-----------------------------------------------------------------------------
(* Going to the provider and coming back *)

SocialStart(a) ==
  /\ tab[a] = "closed"
  /\ tab' = [tab EXCEPT ![a] = "leaving"]
  /\ flow' = [flow EXCEPT ![a] = "open"]
  /\ UNCHANGED <<cookie, code, h, logins, refused, disturbed>>

\* The browser stores the cookies of the answer over those of an earlier attempt.
Redirect(a) ==
  /\ tab[a] = "leaving"
  /\ tab' = [tab EXCEPT ![a] = "away"]
  /\ IF a \in WithIssuer
     THEN /\ cookie' = [cookie EXCEPT ![CookieName(a)] = a]
          /\ disturbed' = disturbed \cup Waiting(ProviderOf(a))
     ELSE UNCHANGED <<cookie, disturbed>>
  /\ UNCHANGED <<flow, code, h, logins, refused>>

Authorize(a) ==
  /\ tab[a] = "away"
  /\ tab' = [tab EXCEPT ![a] = "back"]
  /\ code' = [code EXCEPT ![a] = "fresh"]
  /\ UNCHANGED <<cookie, flow, h, logins, refused, disturbed>>

-----------------------------------------------------------------------------
(* The callback *)

\* The handler refuses: the answer deletes the cookies like any other.
Refuse(p) ==
  /\ h' = [h EXCEPT ![p].pc = "answer"]
  /\ refused' = refused \cup {h[p].attempt}

\* The tab asks for the address it was sent to, and again when it is reloaded.
SocialCallback(p, a) ==
  /\ h[p].pc = "idle" /\ tab[a] \in {"back", "done"}
  /\ tab' = [tab EXCEPT ![a] = "done"]
  /\ disturbed' = IF tab[a] = "done" THEN disturbed \cup {a} ELSE disturbed
  /\ LET jar == cookie[CookieName(a)] IN
       IF a \in WithIssuer /\ jar = None
       THEN /\ h' = [h EXCEPT ![p] = [Idle EXCEPT !.pc = "answer", !.attempt = a]]
            /\ refused' = refused \cup {a}
       ELSE /\ h' = [h EXCEPT ![p] = [pc |-> IF a \in WithIssuer THEN "state" ELSE "exchange",
                                      attempt |-> a, jar |-> jar]]
            /\ UNCHANGED refused
  /\ UNCHANGED <<cookie, flow, code, logins>>

Fits(p) == h[p].attempt \in WithIssuer => h[p].jar = h[p].attempt

\* consume_social_login_state, which the callback of the OpenID provider calls first.
ConsumeState(p) ==
  /\ h[p].pc = "state"
  /\ LET a == h[p].attempt IN
       IF flow[a] = "open" /\ Fits(p)
       THEN /\ flow' = [flow EXCEPT ![a] = "consumed"]
            /\ h' = [h EXCEPT ![p].pc = IF a \in WithIssuer THEN "exchange" ELSE "login"]
            /\ UNCHANGED refused
       ELSE Refuse(p) /\ UNCHANGED flow
  /\ UNCHANGED <<browser, code, logins, disturbed>>

\* exchange_code: whatever the provider answers, the code is of no more use.
ExchangeCode(p) ==
  /\ h[p].pc = "exchange"
  /\ LET a == h[p].attempt IN
       /\ code' = [code EXCEPT ![a] = "used"]
       /\ IF code[a] = "fresh" /\ Fits(p)
          THEN /\ h' = [h EXCEPT ![p].pc = IF a \in WithIssuer THEN "login" ELSE "state"]
               /\ UNCHANGED refused
          ELSE Refuse(p)
  /\ UNCHANGED <<browser, flow, logins, disturbed>>

\* The request fails, or the provider or the account refuses the login.
ExchangeFails(p) ==
  /\ h[p].pc \in {"exchange", "login"}
  /\ Refuse(p)
  /\ disturbed' = disturbed \cup {h[p].attempt}
  /\ UNCHANGED <<browser, flow, code, logins>>

Login(p) ==
  /\ h[p].pc = "login"
  /\ logins' = [logins EXCEPT ![h[p].attempt] = @ + 1]
  /\ h' = [h EXCEPT ![p].pc = "answer"]
  /\ UNCHANGED <<browser, flow, code, refused, disturbed>>

\* _delete_oauth_cookies, when the answer arrives.
Answer(p) ==
  /\ h[p].pc = "answer"
  /\ cookie' = [cookie EXCEPT ![CookieName(h[p].attempt)] = None]
  /\ disturbed' = disturbed \cup Waiting(ProviderOf(h[p].attempt))
  /\ h' = [h EXCEPT ![p] = Idle]
  /\ UNCHANGED <<tab, flow, code, logins, refused>>

-----------------------------------------------------------------------------
(* Time *)

\* The state expires, or the cookies, which are to live as long.
Lapse(a) ==
  /\ flow[a] = "open"
  /\ flow' = [flow EXCEPT ![a] = "absent"]
  /\ disturbed' = disturbed \cup {a}
  /\ UNCHANGED <<browser, code, h, logins, refused>>

Forget(a) ==
  /\ cookie[CookieName(a)] = a
  /\ cookie' = [cookie EXCEPT ![CookieName(a)] = None]
  /\ disturbed' = disturbed \cup {a}
  /\ UNCHANGED <<tab, flow, code, h, logins, refused>>

Next ==
  \/ \E a \in Attempt : SocialStart(a) \/ Redirect(a) \/ Authorize(a) \/ Lapse(a) \/ Forget(a)
  \/ \E p \in Proc :
       \/ \E a \in Attempt : SocialCallback(p, a)
       \/ ConsumeState(p) \/ ExchangeCode(p) \/ ExchangeFails(p) \/ Login(p) \/ Answer(p)

Spec == Init /\ [][Next]_vars

-----------------------------------------------------------------------------
(* Properties *)

\* An attempt logs in once, however its callback is repeated; and it is refused only
\* when it expired, was repeated or failed itself, or when, before its callback,
\* another attempt at the same provider was begun or ended: never for a login at the
\* other provider, although the cookies are set and deleted by all of them.
OthersAlone ==
  /\ \A a \in Attempt : logins[a] <= 1
  /\ refused \subseteq disturbed
===============================================================================
