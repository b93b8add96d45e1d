# Verification of coreline-auth

TLA+ models of the authentication core of coreline-auth (`src/coreline_auth`),
TLC runs that check them on small instances, and TLAPS proofs of the properties
that matter most for any number of handlers, tokens, users and sessions.

## The system

coreline-auth is a library a host application embeds. `CorelineAuthService`
(`service.py`) and its asyncio twin (`async_service.py`) implement logins,
mailed-token flows, sessions and second factors; `CorelineAdminService`
(`admin.py`) implements account administration on top of the former. All state
is behind a storage protocol with four implementations: in-memory, async
in-memory, SQLite, PostgreSQL. HTTP adapters (`fastapi_adapter.py`,
`fastapi_async_adapter.py`) translate requests into service calls.

The services hold no state and no lock of their own. A handler is a sequence of
storage calls with local variables in between; FastAPI runs sync handlers in a
thread pool, several processes may share one database, and the async service
yields at each storage call. So the interleaving of storage calls, a crash
between two of them, and rows that are stale by the time they are written back
are where this code can go wrong. There is no message passing and no retry
inside the library; clients present tokens again, and tabs submit twice.

| Part | State | Operations | What makes it correct |
| --- | --- | --- | --- |
| Mailed-token flows | `login_flows`, `users`, `identities`, credentials | request and consume a magic link, an e-mail verification, a password reset | a token is redeemed at most once and in time; nothing is done without a redemption; only the owner in `single_owner` |
| Sessions | `sessions` | issue, verify (throttled touch), step up, logout, revoke, cleanup | a revoked or expired session is never used or revived; AAL2 and revocation are monotone |
| Administration | `users`, `sessions`, credentials | role, ban, unban, disable, enable, password, revoke | an administrator remains; a change takes effect; nobody gains a role otherwise |
| Second factors | `mfa_factors`, vault, `recovery_codes` | enrol, verify, step up, generate codes | a code works once; a factor is proved before it counts |
| Social login | `login_flows` (oauth), `identities` | begin, consume state, log in and link | state used once; identity linked once, only by verified e-mail |
| Rate limiters | buckets or Redis keys | check, evict, expire | at most `limit` in a window; bounded memory |
| Permissions | none (pure) | role to permissions, wildcard and own/any matching | a grant reaches the rows it is for, and no others |
| Stores | the tables | the calls above | each call atomic; conditional updates |
| OIDC discovery, token verification | JWKS cache | fetch, cool down, verify | rotation is followed, in both directions, within the lifetime of an entry |
| CSRF | cookies of the browser, signed tokens | issue, check, act | an act is bound to the session its token was signed for; forms of many tabs work |
| Tabs of a browser | the cookies of an OAuth login, states, codes | start, call back, exchange, log in | an attempt logs in once and disturbs no other provider's |
| WebAuthn | challenges, sign counters (kept by the host) | register, assert | an assertion is accepted once; copies are noticed |
| Demo pages, board | `users`, `sessions`; posts and comments | account forms; create, edit, delete | a change cuts what it says; rows change as their authors and moderators may |
| Adapters, e-mail, vaults, observability | little or none | I/O | forward to the above |

`PROJECT.json` lists every component with its status and every hazard with the
line at which it bites and the properties that would show it going wrong.

## Modules

| Module | Models | Composed of |
| --- | --- | --- |
| `OneTimeToken` | what a mailed token or a social state promises: fresh, issued, redeemed once or lapsed | |
| `LoginFlows` | the mailed-token flows; `ImplementsOneTimeToken` is the refinement | `OneTimeToken` |
| `Sessions` | verification, touch, step-up, revocation and expiry of sessions | |
| `Accounts` | administration and the logins that run beside it | |
| `Mfa` | TOTP enrolment, TOTP and recovery-code step-up | |
| `Social` | the social state and the login that finds, links or creates an account; refines `OneTimeToken` as well | `OneTimeToken` |
| `Tabs` | the attempts of several tabs at several providers over one jar of cookies | |
| `Oidc` | the cache of the provider's keys, their rotation, and the verification of ID tokens | |
| `Csrf` | double-submit tokens of the HTML forms and of the JSON routes, which share a cookie | |
| `Passkey` | WebAuthn registration and assertions, challenges and sign counters | |
| `Permissions` | permission statements and `ResourceAuthorizer.can`, against the rows a grant reaches | |
| `Portal` | the account pages of the demo application | |
| `Board` | the message board demo: roles of its own, posts and comments | |
| `MemoryStore` | the in-memory store, dictionary access by dictionary access | |
| `RateLimit` | the in-process fixed-window limiter, in threads and on an event loop | |
| `Administration` | accounts one operation at a time, several at once, the pages, the single_owner profile, the board | `Accounts` (twice), `Portal`, `LoginFlows`, `Board` |
| `Elevation` | sessions and what goes beyond them | `Mfa` (twice: TOTP codes, recovery codes), `Sessions`, `MemoryStore`, `Permissions`, `Passkey` |
| `Browser` | what comes back through a browser, and the limiter that counts it | `Social`, `Csrf`, `Tabs`, `RateLimit` (twice: event loop, threads) |
| `Rotation` | logins while a provider changes its keys | `Oidc` (twice: threads that share a cache, one thread and two real keys) |
| the `*Proofs` | theorems | the module each is named for, TLAPS |
| the `MC*` | model values, definitions of constants and symmetry for TLC | the module each is named for |

The four composed modules put components side by side that share no row: a
variable `part`, chosen in the initial state, says which of them moves, so that
one run checks each of them alone. A component that is there twice is there with
different constants, where a run with both bounds at once would be too large.
Their constants are those of the components,
so that a theorem about them holds for every size of each part. A module that a
run reaches only through INSTANCE states its assumptions on constants as a
definition; `InstanceAssumption` of the composed module asserts them of the
instance, and TLC evaluates it in the run of that module.

### How state and actions correspond to the code

In every module `Proc` is the set of threads or tasks that run a handler, `pc`
(or the `pc` field of `h`) is where a handler stands between two storage calls,
and the other locals are the rows and clock readings it holds. **One action is
one storage call**, together with the computation up to the next one, because
SQLite and PostgreSQL execute a call as one statement under a lock or in a
transaction; the condition of a conditional `UPDATE` is part of the action
(`Consumable`, `TouchSession`, `MarkCounterUsed`, `MarkRecoveryCodeUsed`). A
handler that fails a check, raises, or dies goes back to `idle` with what it has
written still in the store (`Return`, `Finish`, `Crash`). `PROJECT.json` maps
each definition to its lines.

*LoginFlows.* A user is identified with its e-mail address. `link` is what the
mail said, `flow` the row, `redeemed` counts how many handlers the store handed
the flow to. `Request`/`CreateFlow` are the three requests, `Present` to
`ConsumeNothing` the shared prefix of the three consumers, then each consumer's
own writes, among them `RecordLogin`, which writes back a row read long before.
`SetStatus` stands for an administrator, `Cleanup(n)` for `cleanup_expired` with
a clock reading that may be old. Reading and marking the e-mail identity
(`MarkIdentity`) are two calls in the code and one action here: identities are
never deleted, so the pair behaves as if it ran at the read when the identity is
absent and at the write when it is there.

*Sessions.* A row has `expires`, `idle`, `seen`, `revoked`, `aal2`. A handler
reads the row, then the clock, then the user, then touches; `doomed` records on
arrival why it must not be accepted. Users are only active or not.

*Accounts.* Users have a role ("admin" for OWNER and ADMIN) and a status. The
permissions of a session are those of the role it was issued with, as
`issue_session` stores them. `ReadTarget`, `CheckOther`, `WriteTarget` and
`RevokeSessionsForUser` are the four calls of an administrative operation. Three
history variables serve the properties: `granted`, `ordered` (the rows as the
commands of administrators alone would make them) and `overtaken` (the handlers
whose copy of a row has seen others change the users). Time is left to Sessions.

*Mfa.* The clock counts 30-second periods, a TOTP code is a factor and a period,
so no two codes collide. Any number of handlers verify an enrolment at the same
time. The history variable `setback` counts how often the row that one of them
writes back (`EnableFactor`) lowers the counter of a factor, and `aal2` notes which
acceptance of which code raised a session.

*Social.* `begun` is what a state was begun with, `flow` its row, `identity` the
link of a provider's subject, `linked` how that link came about. The check of the
row (`ReadState`) and its conditional consumption (`ConsumeState`) are separate
calls; then `GetIdentity` decides between `LoadUser` and
`LookupUser`/`CreateUser`/`UpsertIdentity`. The clock is left to LoginFlows: an
open state may lapse at any moment. `OtherSignup` stands for the other flows that
create or verify a user. The provider's answer is one of the constant `Profile`,
in which a subject may have several addresses, verified or not, or none.
`contested` is the history of the subjects that two first logins with different
addresses were linking at the same time (`Rival`).

*RateLimit.* Here one action is one access to the dictionary `bucket`, as the
limiter has no lock. `loop` says which kind it is: the async service calls
`check` from its event loop, where it runs to its end (`Check` waits until no
other is under way), the sync service from its threads, where the steps
interleave. `CollectExpired` and `FindOldest` iterate over the dictionary and
`Raise` when its size has changed since they began. `served` counts the admitted
requests by the end of their window and stops at `MaxServed`, above `Limit`; the
clock counts whole seconds.

*MemoryStore.* The calls of `storage/memory.py`, one access to a dictionary per
action, with `lock` for the calls that take it; revocations, cleanups and the
creation of users do not. `loop` is chosen at the start: on an event loop
(`storage/async_memory.py`) one call ends before the next one begins.

*Oidc.* Both ways to ask `JWKSCache` are there: the social callback, which has no
key id yet, and a host that holds the token (`Naming`). An access to the cache is
one action, as the threads share it without a lock. Time is kept as what is left
of an entry or a cooldown, so that no clock is bounded; `MaxDelay` bounds how long
a call takes, as the requests of the cache have a timeout. The provider publishes
and retires keys; the claims of a token are a few records, with the times (`exp`,
`iat`, `nbf`, `auth_time`) as distances from the host's clock.

*Tabs.* An attempt is a state with its nonce and its PKCE verifier. The state
travels in the address, the other two in cookies named by provider. The OpenID
provider's callback consumes the state before the exchange of the code, the other
one's after it. Browser and provider are external. What the account makes of the
profile is in Social, what becomes of the ID token in Oidc.

*Csrf.* A token says for whom it was signed: anyone (the forms of
`examples/saas_demo/csrf.py`) or a session (`fastapi_adapter.py`). A request
carries the cookies of the moment it is sent, an answer sets them when it arrives.
`RenderPage` re-uses the token of the cookie if it is good, `IssueCsrf` always
makes a new one. Bearer tokens need no CSRF token and are left out.

*Passkey.* The library verifies, the host stores; `forgets` says whether the host
drops a challenge that was used, as it must. Origins are a scheme and the labels
of a host. The authenticator, a copy of it and the browser are external.

*Permissions.* A question is a set of at most two grants or a role of a profile, a
statement, and whether the actor owns the row and is active. `Can` translates the
code; `Access` says over the rows a grant reaches what the answer should be. A
statement requires any scope a host has, all of them or none. Of the role lists two
names are kept, one in both and one of viewers alone.

*Portal.* Signup, login, profile, password, ending a session and logout of one
account, one storage call per action, with an administrator who bans and
reinstates it. A password is the number of the change that set it.

*Board.* A handler has its session verified (`RequireActor`), reads the row and
decides (`Authorize`), and writes, each one call of a store. A restart seeds the
fixed ids again. A row keeps its author and who wrote its text.

Left out everywhere: wording of errors, audit events, metrics and mail
(best-effort by construction: their failures are swallowed), hashing (a token is
its own hash), rate limiting (it only refuses a request before any effect).

## Runs

| Run | Expected | Checks | Bounds |
| --- | --- | --- | --- |
| `LoginFlows_race` | pass | at-most-once and lapse as a refinement, no late redemption, no unjustified rejection, effects and verification traced to a token | one address, two tokens, two handlers, clock to 2, lifetime 1 |
| `Administration` | pass | `serial` and `race`: the last administrator, a command or the role of a session is lost only by a handler that another one has overtaken, or that died half-way; `race`: no escalation, completed changes cut sessions; `pages`: so does the password page; `owner`: the owner alone; `board`: rows change as their authors and moderators may change them | two users; one handler with every operation, two handlers with four of them; crashes in `race`, `pages` and `owner`; three sessions and two password changes in `pages`; two posts and two comments in `board` |
| `Elevation` | pass | `mfa`: a TOTP code accepted once more than the counter is put back, no good code refused, enabled means proved, AAL2 justified; `codes`: recovery codes, and codes for two sessions, as well; `sessions`: revocation honoured, security state monotone, no revival; `memory`: calls keep what others wrote; `grants`: decisions are those of the rows; `keys`: no assertion twice | two handlers everywhere; `mfa`: one factor, one session, two periods; `codes`: one factor, one recovery code, two sessions, one period; `sessions`: one session, clock to 3, lifetime 3, idle 2, touches 1 apart; `grants`: all questions over two resources, two actions, three scopes; `keys`: two challenges, two devices, three origins, two assertions |
| `Browser` | pass | `callbacks`: the state used once and by its provider and browser, links justified, and moved only by first logins with different addresses at once; `forms`: acts bound to their token, forms of many tabs; `logins`: attempts at other providers left alone; `loop`: the limit and `max_buckets` hold; `threads`: nobody is refused too early | two subjects of two providers, one of them with two verified addresses, the other one unverified or without; one state, two handlers; two tokens, two sessions; three attempts, two of them at one provider; two keys, limit 2, one bucket, window 2 and clock to 3 on the loop, 1 and 1 in threads |
| `Rotation` | pass | `shared`: a retired key fades, refusals fade, and logins succeed again beside a thread that names keys nobody publishes; `change`: logins succeed again after a change from one key to another | `shared`: a key of the provider and a foreign one, two threads; `change`: two keys of the provider, one thread; lifetime 2, cooldown 1, delay 1 |
| `Sessions_stepup_idle` | violation | a session in use stays alive (`KeepAlive`) | one handler, clock to 7 |
| `Accounts_last_admin` | violation | an administrator remains | two administrators banning each other |
| `Accounts_stale_role` | violation | roles up to date | a demotion beside a login |
| `Accounts_undone_ban` | violation | commands stand | a ban beside a login |
| `Mfa_enrolment_code` | violation | a code is accepted once, enrolment included | one factor, two handlers |
| `Mfa_enrolment_race` | violation | a code steps up once | one factor, two handlers |
| `Memory_threads` | violation | security state of the in-memory store is monotone | one session, two threads |

Two handlers and one contended object suffice for the races of this code: each
hazard is a read by one handler, a write by another, and a later write by the
first. Two tokens let two flows of the same address meet, two users let
administrators act on each other, two attempts at one provider take the cookie
from each other and a third one at another provider looks on, and a lifetime of
one tick puts the boundary `expires_at = now` inside every behaviour. The bounds
are constants of the modules (`MaxClock`, `MaxSessions`, `MaxPassword`,
`MaxServed`, `MaxDelay`, `MaxCount`, `MaxMade`); the guards they
appear in stop only the clock, the counters and the creation of new objects. What
needs more of one thing than of another is a part of its own: recovery codes for two
sessions in one period (`codes`) beside TOTP codes of two periods for one session
(`mfa`), the limiter on a loop with windows longer than a tick beside its threads, and
the key cache with two real keys beside the one that two threads share. `require_aal2`
is not run: it is `verify_session` and a look at the row it returned, about which
`SessionsProofs` has a theorem (`SensitiveIsAal2`). Two real keys in several threads
are covered, for safety, by the theorems of `OidcProofs`.

Deadlock is checked except in `Elevation`, where two parts may really come to an end:
the passkeys (a host whose relying party does not fit its origin refuses every answer,
and its challenges are spent), and the second factors, where a code is a factor and a
period, so that in the last period every session may have been raised or revoked, and
every code used.

### What the violations show

* `Accounts_last_admin`: `README.md:450` and `docs/security-checklist.md:28` say
  the last active administrator cannot be locked out. The check and the write
  are separate storage calls (`admin.py:101-105`, `admin.py:46`); two
  administrators who ban each other at once both pass the check. `LastAdminKept`
  says what the check does give, with any number of handlers.
* `Accounts_stale_role`: `docs/board-auth-integration-guide-20260529.md:594` says
  a role change takes effect at once. A login under way issues its session with
  the role it read, after the revocation (`service.py:337-344`).
* `Accounts_undone_ban`: `dev-plan/implement_20260523_223500.md:166` records that
  logins and permissions of a banned user are blocked. A login that read the row
  before the ban writes it back afterwards, status included (`record_login`,
  `service_support.py:40-41`), and the account is active again.
* `Mfa_enrolment_race`: `README.md:442` again (see below). A verification of an
  enrolment writes the whole factor row back (`service.py:435-436`): if another one
  has enabled the factor and a step-up has marked the counter meanwhile, the counter
  is lost and the code steps up again.
* `Sessions_stepup_idle`: the same guide, line 263, says activity extends the
  idle expiry. A step-up sets `last_seen_at` but not `idle_expires_at`
  (`storage/sqlite.py:406-418`), which the throttle of the touch goes by.
* `Mfa_enrolment_code`: `README.md:442` says TOTP codes cannot be replayed within
  their window. `verify_totp_enrollment` (`service.py:430-438`) does not record
  the counter of the code it accepts.
* `Memory_threads`: the comment at `storage/memory.py:148-149` says revocation and
  AAL upgrades are monotonic and a stale caller never clears a revocation.
  `revoke_session` (`storage/memory.py:180-183`) does not take the lock that
  `touch_session` and `set_session_assurance_level` hold, so that a touch in
  another thread writes back its copy of the row from before the revocation. On
  an event loop `MemoryKept` holds (`Elevation`).

The passing properties say how far these go, and no further: `LastAdminKept`,
`CommandsHold` and `RolesFit` (a handler that another one has overtaken, or for
`RolesFit` one that died before the revocation), `OneStepUpPerCode` (once more than
`setback`), `SessionsFollowIdentity` (only a contested subject).

A contested subject is one that two first logins with different addresses were linking
at once. Both find no identity, and the second `upsert_identity`
(`storage/sqlite.py:250-263`) moves the link, so that the session of the first is of
another user than the identity (`service.py:307-331`).
`dev-plan/implement_20260524_085212.md:68` puts the provider's identity first and the
e-mail after it, which each of the two logins, alone, does.

`LimiterKept` (`AtMostLimit` and `MemoryBounded` of RateLimit) is stated for an event
loop. In threads both fail: two checks that read the same count write the same count
(`rate_limit.py:46-51`), and two that evict the same bucket both add one
(`rate_limit.py:43-51`). `RefusalsFollowLimit` holds in threads. Nor does any
property exclude, in threads, a second user of one address in the in-memory store.

Modelled and not excluded by a property, as nothing promises otherwise: the loser of
two first magic links has to ask for another one (`CreateUserFails`); a touch with an
older clock reading moves the idle expiry of a live session back; a verification of
an address writes back a row like `record_login` does; a login that is refused for
its unverified address keeps the account and the link it made.

## Fairness and liveness

`Oidc` has the one liveness property, `RotationHeals`: when the provider goes on
publishing one key only, logins with it are accepted again and again. `Rotation`
checks it twice. In `ChangeHeals` that key may replace another one, and which of the
two it is differs from behaviour to behaviour; in `SharedHeals` another thread keeps
naming a key nobody publishes, and starts cooldowns and refetches for it. Only the
part that moves is fair. It needs

* weak fairness of `Tick`, and of a thread's own steps together with the failure
  of its request: threads run, requests have a timeout (`social/discovery.py`),
  and time passes;
* strong fairness of a user's new attempt and of each good answer of the
  provider: a provider that is asked again and again does answer some time, and
  users retry. Without it every request might fail, which no cache can mend.

It fails when a hit renews the entry (`LookUpSliding`): a cache that is asked often
enough would never fetch again.

All other properties are safety properties, and the other modules assume no
fairness. The library runs nothing in the background: cleanup is the host's to
schedule, a handler may die anywhere, and nothing in it waits for another handler,
so the code justifies no fairness beyond "a handler that does not die goes on",
and no document promises more.

## Proofs

`LoginFlowsProofs` proves, for all values of the constants that satisfy the
assumptions of `LoginFlows`:

* `TypeCorrect`: the type invariant;
* `AtMostOnce`: `RedeemedAtMostOnce`;
* `RejectionsJustified`: `RejectionJustified`;
* `NoLateRedemptions`: `NoLateRedemption`, an action property;
* `EffectsAreJustified` and `VerifiedOnlyByMail`: `EffectsJustified` and
  `VerifiedByMail`;
* `OwnerIsAlone`: `OnlyOwnerExists`, when the owner is the only account to begin
  with;
* `Refinement`: `ImplementsOneTimeToken`.

At-most-once is not inductive: `redeemed[t] <= 1` says nothing of why a second
`Consume` is impossible. The inductive invariant `Core` adds `FlowInv` (a flow
that is open has not been redeemed and has been mailed; one that was redeemed is
consumed or deleted, never open again; an absent flow that was mailed has
expired) and `HandlerInv` (what a handler holds at each label: the token it is
about to create is fresh and nobody else's, its clock reading is not in the
future, a handler past the consumption holds a redeemed token). The step lemmas
(`TypeStep`, `FlowStep`, `HandlerStep`) go action by action; `StepMonotone` and
`Frame` carry over what other handlers hold. `VerifiedByMail` is not inductive
either, because three handlers write back rows they read before: `RowsProved` adds
that the row in a handler's hands is verified only where that was proved by then,
and `ProofLasts` that what was proved stays so. `OwnerIsAlone` adds that links are
mailed only to addresses that the profile admits (`Admitted`). The refinement follows from `Core`:
each action that changes a token's status is one of `Issue`, `Redeem` or `Lapse`,
and all others stutter.

`SessionsProofs` proves `TypeCorrect`, `RevocationsHonoured`, `SecurityStateGrows`,
`SensitiveIsAal2` and `ExpiryIsFinal`, for `TypeOK`, `RevocationHonoured`,
`SecurityStateMonotone`, `SensitiveNeedsAal2` and `DeadStaysDead`. The assumptions on
the constants are a hypothesis of each (`Parameters`), as in `RateLimitProofs`: both
modules are instantiated, by `ElevationProofs` and `BrowserProofs`, which carry the
theorems over to the composed specifications.
`RevocationHonoured` speaks of the end of a request only; the inductive invariant
(`Knows`) says how far a doomed request can get: one whose session was dead on
arrival holds a copy that shows it and stops at the clock, one whose user was
inactive stops at the status check. It needs that the copy agrees with the table
in what the store never takes back (`Agrees`, from `Monotone`). `ExpiryIsFinal`
rests on two lemmas: only a handler that stands at the touch moves the idle
expiry (`OnlyRescuersTouch`), and nobody becomes one who could, once the session
has expired (`NoNewRescuer`).

`AccountsProofs` proves for any number of handlers `TypeCorrect`,
`RolesAreGranted` (`NoEscalation`) and `CompletedChangesCut`
(`ChangeCutsSessions`). `NoEscalation` is not inductive, as rows are written
back long after they were read: `InFlight` adds that a row in a handler's hands
with the admin role belongs to someone who was granted it. `CompletedChangesCut`
needs that a session, once issued, never becomes unissued again.

It also proves, for any number of handlers and wherever they die, `AdminRemains`
(`LastAdminKept`), `CommandsLast` (`CommandsHold`) and `SessionsCarryRole`
(`RolesFit`). The invariant is `Sure`: as long as no other handler has changed the
users since a handler read its row, that row is the one of the table, and the check
for another administrator still holds at the write. So the step that takes away the
last administrator, or writes anything but what was commanded, is one of an
overtaken handler (`AdminStep`, `UsersMove`); and the step after which a session
fits its user no more is that, or the end of a handler that was about to revoke
(`FitsStep`). The violation runs show that each of these exceptions happens.

`RateLimitProofs` proves `TypeCorrect`, `RefusalsJustified`, `LimitKept`
(`AtMostLimit`) and `MemoryStaysBounded` (`MemoryBounded`) for any number of keys
and threads. For refusals, `Core` relates what a bucket or a thread's copy of it
counts to the admissions of that very window (`Backed`, `Known`): a count is only
ever one more than a count read, so lost updates make it too small, never too
large. The other two hold on an event loop, where one check runs at a time:
`Serial` says that a bucket counts exactly its window's admissions, that all
earlier windows have ended before it began, and that a key without a bucket has
no window beyond the clock of the check under way; `Fits` that a check that may
add a bucket has room for it.
`LoopKeepsLimit` (`LimiterKept`) and `ThreadsRefuseLate` (`RefusalsFollowLimit`) of
`BrowserProofs` are these for the parts of `Browser`.

`BrowserProofs` proves for any number of states, subjects, users and handlers
`TypeCorrect`, `StatesAreUsedOnce` (`SessionsUseTheirState`), `LinksAreJustified`
(`LinkJustified`) and `Refinement` (`ImplementsOneTimeToken`). `FlowInv` relates
the row of a state to its redemption, as in `LoginFlowsProofs`. `Knows` says what a
handler has checked at each label: past the consumption, its state is redeemed and
was begun for its provider and nonce, and one that is about to link has created
the account or has an address that the provider verified. `Lasting`, that what was
begun and redeemed stays so, carries it over the steps of the other handlers.
`SessionsFollow` (`SessionsFollowIdentity`) holds whatever addresses the provider
reports: a handler that has not found the identity of its subject finds it later only
with the address that it got itself, unless the subject is contested (`Named`), so
that its own write does not move the link (`LinkStays`).

`TokensFitTheirUse` (`TokensFit`) is about the requests and pages in flight between
a browser and its host. `FormKnows` says what a handler has checked at each label: one
of the JSON front that acts holds a token signed for its request's session, or for
anyone where tokens are not bound. `TokenTables` says that the tokens of pages and of
the cookie jar are signed ones, and that no page has a token without a cookie;
`FewTokens`, that there is one token at most, for anyone, as long as the browser only
rendered pages and at most one of them without a good token.

`TabsDoNotDisturb` (`TabsServe`) rests on three invariants. `AttemptInv`: an attempt
logs in at most once and only with its state consumed, and an undisturbed one that is
at its provider has its state open and its cookie in the browser. `LoginKnows`: what a
handler has consumed and checked, and that an undisturbed attempt still fits it.
`LoginAlone`: one handler has consumed a state, and an undisturbed attempt has one
callback.

`ElevationProofs` is about second factors, sessions, the in-memory store, grants and
passkeys.

* *Second factors.* `SecondFactorTypes`, `EnabledIsProven` (`EnabledProven`),
  `CodesAreUsedOnce` (`OneStepUpPerCode`), `GoodCodesPass` (`GoodCodeAccepted`),
  `UpgradesAreJustified` (`Aal2Justified`) and `RecoveryCodeOnce` (the recovery codes
  of `OneStepUpPerCode`) hold for any number of handlers that enrol, verify and step
  up at once. `accepted[k] <= 1 + setback[f]` is not inductive: `Used` adds that a
  code accepted more often than the counter was put back is not above the counter
  of its factor. A counter, in the table or in a copy that is about to be written
  back, is one of a code that was accepted (`Counters`), so a code that a handler
  finds not fresh is not above one that was (`Answers`). `Raised`: the acceptances in
  the hands of handlers, and those that raised a session, are all different.
* *Sessions.* `RevocationsAreHonoured` (`RevocationsHold`), `SessionsTighten`
  (`SessionsOnlyTighten`) and `ExpiryIsFinal` (`ExpiryHolds`) are the theorems of
  `SessionsProofs`: a behaviour of the whole whose part is the sessions is one of
  `Sessions` (`RowsBehave`), whose constants satisfy what they assume (`RowsValues`).
* *The store.* `StoreKeepsState` (`MemoryKept`). In threads, a call of the locked ones
  that is under way holds the lock, and a flow that a consumption has found open has
  not been handed out, although cleanups take it away without the lock. On an event
  loop one call is under way, so that the rows it copied are still those of the table
  or have been raised by it. (`MemoryKnows`.)
* *Grants.* `GrantsReachRows` (`GrantsDecide`): `ReachIsMatch` shows for every statement
  and every question that it matches a candidate exactly when it reaches the rows asked
  for; the names and scopes are any that a host has.
* *Passkeys.* `AssertionsAreUsedOnce` (`PasskeysFresh`): the stored counter is at least
  that of every assertion accepted (`KeysCore`), so that an equal one is refused, and
  a challenge that is forgotten is done with.

`AdministrationProofs` is about the parts of `Administration`. `RacesSafe`
(`RacesAreSafe`), `RacesBounded` (`RacesAreBounded`) and `OwnerStaysAlone`
(`OwnerAlone`) are taken over from `AccountsProofs` and `LoginFlowsProofs`: a behaviour
of the whole is one of the part (`RaceBehaves`, `OwnedBehaves`), whose constants
satisfy what the theorems assume.
`PasswordChangesCut` (`PagesCut`) needs that the sessions which a password change is to
end, those live when the password was written, are not its own and were not unused,
and that no session is ever unused again (`PageKnows`, `SessionsLast`). `BoardIsKept`
(`BoardKept`): once a handler has decided, its row is one that was drawn, still has
the author it was decided for if it is there at all, and that author is one whose row
it may change (`BoardKnows`). A row that is gone does not come back to a handler, as
ids are never drawn twice and a start of the process, which seeds the fixed ids again,
ends all handlers (`RowsLast`).

`OidcProofs` proves `KeyTypes`, `RetiredKeysAreRefused` (`RetiredKeysFade`) and
`GoodTokensPass` (`RefusalsFade`). `CacheInv` relates what is cached to what the
provider publishes: where an entry, or the document in a thread's hands, differs from
that, the change is younger than the part of the lifetime that is used up, or than the
time that the thread has been late (`Good`, `Fetched`, `Looked`). The second theorem
needs `MissInv` as well, that a cooldown under way began when the key was not there,
and assumes `CooldownSet`: the cooldown is positive (the default is 60 seconds, and no
configuration check demands it) or no host names keys. With a cooldown of zero the
refetch for a key may be answered just before the key is published, and its token be
refused within the same tick, at an age of zero.

### Only model-checked

`SharedHeals` and `ChangeHeals` (`RotationHeals` of Oidc), the one liveness property:
liveness under fairness and ENABLED are out of the prover's reach, as is induction over
recursive definitions (the models use none). The `violation` runs show counterexamples,
which need no proof. All invariants and action properties of the passing runs are
proved. `CodesKept` has no theorem of its own: it is `OneStepUpPerCode` and
`Aal2Justified` for other constants, and the theorems about these two hold for all
of them. One theorem assumes more than its module does: `GoodTokensPass` assumes
`CooldownSet`, which the constants of `Rotation` satisfy. `LimitKept` and
`MemoryStaysBounded` are about an event loop, as the properties are.

## Not modelled

* The Redis limiter: one atomic script that counts and expires a key, without the
  steps that make the in-process one hard.
* The rest of the in-memory store: identities, credentials, factors, recovery codes
  and audit are written in one assignment each.
* Of the SQL stores: listing, audit, schema set-up. Their conditional statements are
  the atomic actions of the modules above.
* The formats of single providers (`social/connectors.py`), signatures of ID tokens,
  passkeys and CSRF tokens, TOTP arithmetic, password hashing, encryption: data that
  the models take as right or wrong.
* E-mail transport, vault back ends, observability, readiness checks: I/O, and no
  state that the flows depend on.
* The routes of the HTTP adapters beyond the order of cookie, CSRF token, session and
  act: they forward to a service and word its errors.
* Of the demo application the workspace, service and dashboard pages, which render
  what the demo seeds.

What is left: abstract specifications of sessions and of administration to refine, as
`OneTimeToken` is for the mailed tokens and the social states.
