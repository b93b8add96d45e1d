------------------------------- MODULE Oidc -------------------------------
(***************************************************************************)
(* The second half of an OpenID Connect login: the metadata of the issuer, *)
(* its signing keys from JWKSCache, the exchange of the code and the       *)
(* verification of the ID token.                                           *)
(*                                                                         *)
(* The social callback of the host asks the cache for the keys before it   *)
(* exchanges the code, so it cannot name the kid; a host that holds the    *)
(* token already can.  The threads share the cache without a lock: one     *)
(* action is one access to it or one answer of the provider, which         *)
(* publishes and retires its keys meanwhile.                               *)
(*                                                                         *)
(* Time is kept as what is left or has passed, and no clock is bounded: an *)
(* entry of the cache that is left -1 expired a tick ago.                  *)
(***************************************************************************)
EXTENDS Integers, FiniteSets

CONSTANTS
  Key, Proc,
  Foreign,       \* the keys that some token names and the provider never publishes
  Naming,        \* the threads of hosts that ask for the keys by kid
  Claims,        \* the claims the provider gives in a run
  Client,        \* config.client_id
  Leeway,        \* leeway_seconds
  MaxAge,        \* max_age_seconds, or None
  Ttl,           \* ttl_seconds
  Cooldown,      \* kid_miss_refetch_cooldown_seconds
  MaxDelay,      \* bound on the ticks from the reading of the clock to the outcome
  None           \* sentinel

ASSUME ConfigAssumption ==
  /\ Leeway \in Nat /\ MaxAge \in Nat \cup {None} /\ None \notin Nat
  /\ Ttl \in Nat \ {0} /\ Cooldown \in Nat /\ MaxDelay \in Nat
  /\ None \notin Key /\ Naming \subseteq Proc /\ Foreign \subseteq Key

VARIABLES
  status,   \* whether the provider will publish, publishes or has retired a key
  age,      \* the ticks since that has changed, up to Horizon
  cache,    \* the entry of the cache: what is left of its time, and the keys
  miss,     \* what is left of the cooldown of a kid
  h         \* what each thread is at, and its locals

vars == <<status, age, cache, miss, h>>

Horizon == (IF Ttl < Cooldown THEN Cooldown ELSE Ttl) + MaxDelay
Left(t) == (0 - MaxDelay) .. t
Entry == [left : Left(Ttl), doc : SUBSET Key]
ASSUME SentinelAssumption == None \notin Entry /\ None \notin Claims

Label == {"idle", "discover", "look", "miss", "fetch", "refetch", "store",
          "restore", "cooldown", "exchange", "verify", "accepted", "refused"}
Thread == [pc : Label, kid : Key \cup {None}, claims : Claims \cup {None},
           late : 0 .. MaxDelay, doc : SUBSET Key]

Idle == [pc |-> "idle", kid |-> None, claims |-> None, late |-> 0, doc |-> {}]

Init ==
  /\ status = [k \in Key |-> "unborn"]
  /\ age = [k \in Key |-> 0]
  /\ cache = None
  /\ miss = [k \in Key |-> 0 - MaxDelay]
  /\ h = [p \in Proc |-> Idle]

Published == {k \in Key : status[k] = "published"}
Goto(p, label) == h' = [h EXCEPT ![p].pc = label]
AfterKeys(p) == IF p \in Naming THEN "verify" ELSE "exchange"

-----------------------------------------------------------------------------
(* Provider and clock *)

Publish(k) ==
  /\ status[k] = "unborn" /\ k \notin Foreign
  /\ status' = [status EXCEPT ![k] = "published"]
  /\ age' = [age EXCEPT ![k] = 0]
  /\ UNCHANGED <<cache, miss, h>>

Retire(k) ==
  /\ status[k] = "published"
  /\ status' = [status EXCEPT ![k] = "retired"]
  /\ age' = [age EXCEPT ![k] = 0]
  /\ UNCHANGED <<cache, miss, h>>

Timed == {"look", "miss", "fetch", "refetch", "store", "restore", "cooldown",
          "exchange", "verify", "accepted", "refused"}
Less(t) == IF t > 0 - MaxDelay THEN t - 1 ELSE t

\* No call takes more than MaxDelay: requests to the provider have a timeout.
Tick ==
  /\ \A p \in Proc : h[p].pc \in Timed => h[p].late < MaxDelay
  /\ age' = [k \in Key |-> IF status[k] # "unborn" /\ age[k] < Horizon THEN age[k] + 1 ELSE age[k]]
  /\ cache' = IF cache = None THEN None ELSE [cache EXCEPT !.left = Less(@)]
  /\ miss' = [k \in Key |-> Less(miss[k])]
  /\ h' = [p \in Proc |-> IF h[p].pc \in Timed THEN [h[p] EXCEPT !.late = @ + 1] ELSE h[p]]
  /\ UNCHANGED status

-----------------------------------------------------------------------------
(* The keys *)

\* The state was consumed; the keys are asked for before the code is exchanged.
SocialCallback(p) ==
  /\ h[p].pc = "idle" /\ p \notin Naming
  /\ h' = [h EXCEPT ![p] = [Idle EXCEPT !.pc = "discover"]]
  /\ UNCHANGED <<status, age, cache, miss>>

\* A host that holds the token asks for the keys by the kid of its header, which
\* the provider may not have published yet, or may have retired.
VerifyWithKid(p, k) ==
  /\ h[p].pc = "idle" /\ p \in Naming
  /\ h' = [h EXCEPT ![p] = [Idle EXCEPT !.pc = "look", !.kid = k]]
  /\ UNCHANGED <<status, age, cache, miss>>

\* The issuer's document names the jwks_uri; get_jwks reads the clock.
DiscoverMetadata(p) ==
  /\ h[p].pc = "discover"
  /\ Goto(p, "look")
  /\ UNCHANGED <<status, age, cache, miss>>

HasKid(doc, k) == k \in doc

\* Faulty variant (for RefusalsFade): an entry is served when it expires.
ExpiredLater(p) == cache = None \/ cache.left < 0 - h[p].late

Expired(p) == cache = None \/ cache.left <= 0 - h[p].late

\* Faulty variant (for SharedHeals and ChangeHeals): a hit renews the entry.
LookUpSliding(p) ==
  /\ h[p].pc = "look"
  /\ IF Expired(p) THEN Goto(p, "fetch") /\ UNCHANGED cache
     ELSE /\ h' = [h EXCEPT ![p].doc = cache.doc, ![p].pc =
                     IF p \in Naming /\ ~HasKid(cache.doc, h[p].kid) THEN "miss"
                  ELSE AfterKeys(p)]
          /\ cache' = [cache EXCEPT !.left = Ttl - h[p].late]
  /\ UNCHANGED <<status, age, miss>>

LookUp(p) ==
  /\ h[p].pc = "look"
  /\ IF Expired(p) THEN Goto(p, "fetch")
     ELSE h' = [h EXCEPT ![p].doc = cache.doc, ![p].pc =
                  IF p \in Naming /\ ~HasKid(cache.doc, h[p].kid) THEN "miss"
                  ELSE AfterKeys(p)]
  /\ UNCHANGED <<status, age, cache, miss>>

\* The known keys will do until the cooldown of the kid is over.
KidMiss(p) ==
  /\ h[p].pc = "miss"
  /\ Goto(p, IF miss[h[p].kid] > 0 - h[p].late THEN "verify" ELSE "refetch")
  /\ UNCHANGED <<status, age, cache, miss>>

FetchKeys(p) ==
  /\ h[p].pc \in {"fetch", "refetch"}
  /\ h' = [h EXCEPT ![p].doc = Published,
                    ![p].pc = IF h[p].pc = "fetch" THEN "store" ELSE "restore"]
  /\ UNCHANGED <<status, age, cache, miss>>

\* Faulty variant (for RetiredKeysFade): the time of an entry counts from its storing.
StoreFromNow(p) ==
  /\ h[p].pc \in {"store", "restore"}
  /\ cache' = [left |-> Ttl, doc |-> h[p].doc]
  /\ Goto(p, IF h[p].pc = "store" THEN AfterKeys(p) ELSE "cooldown")
  /\ UNCHANGED <<status, age, miss>>

\* The time of an entry counts from the reading of the clock before the fetch;
\* a slow fetch overwrites the entry of a later one.
StoreKeys(p) ==
  /\ h[p].pc \in {"store", "restore"}
  /\ cache' = [left |-> Ttl - h[p].late, doc |-> h[p].doc]
  /\ Goto(p, IF h[p].pc = "store" THEN AfterKeys(p) ELSE "cooldown")
  /\ UNCHANGED <<status, age, miss>>

\* Faulty variant (for TypeOK): the cooldown lasts as long as an entry.
CooldownOfTtl(p) ==
  /\ h[p].pc = "cooldown"
  /\ miss' = [miss EXCEPT ![h[p].kid] =
       IF HasKid(h[p].doc, h[p].kid) THEN 0 - MaxDelay ELSE Ttl - h[p].late]
  /\ Goto(p, "verify")
  /\ UNCHANGED <<status, age, cache>>

SetCooldown(p) ==
  /\ h[p].pc = "cooldown"
  /\ miss' = [miss EXCEPT ![h[p].kid] =
       IF HasKid(h[p].doc, h[p].kid) THEN 0 - MaxDelay ELSE Cooldown - h[p].late]
  /\ Goto(p, "verify")
  /\ UNCHANGED <<status, age, cache>>

-----------------------------------------------------------------------------
(* The token *)

\* exchange_code: the provider signs with one of the keys it publishes.
ExchangeCode(p, k) ==
  /\ h[p].pc = "exchange" /\ k \in Published
  /\ h' = [h EXCEPT ![p].pc = "verify", ![p].kid = k]
  /\ UNCHANGED <<status, age, cache, miss>>

\* Several audiences need an authorized party; expected_azp is not given.
AudienceOk(c) ==
  /\ Client \in c.aud
  /\ Cardinality(c.aud) > 1 => c.azp = Client

\* exp, iat and nbf, as the ticks from the clock of the host to them.
TimesOk(c) ==
  /\ c.exp + Leeway >= 0
  /\ c.iat # None => c.iat - Leeway <= 0
  /\ c.nbf # None => c.nbf - Leeway <= 0
  /\ MaxAge # None => c.iat # None /\ 0 - c.iat <= MaxAge + Leeway

\* The nonce is the one of the login, or neither has one.
NonceOk(c) == c.fits

ClaimsOk(c) == AudienceOk(c) /\ TimesOk(c) /\ NonceOk(c)

\* verify_oidc_id_token with the keys at hand.
VerifyIdToken(p, c) ==
  /\ h[p].pc = "verify"
  /\ h' = [h EXCEPT ![p].claims = c, ![p].doc = {},
       ![p].pc = IF HasKid(h[p].doc, h[p].kid) /\ ClaimsOk(c) THEN "accepted" ELSE "refused"]
  /\ UNCHANGED <<status, age, cache, miss>>

Return(p) ==
  /\ h[p].pc \in {"accepted", "refused"}
  /\ h' = [h EXCEPT ![p] = Idle]
  /\ UNCHANGED <<status, age, cache, miss>>

\* The document names another issuer, lacks an endpoint or has an unsafe one.
DocumentRefused(p) ==
  /\ h[p].pc = "discover"
  /\ h' = [h EXCEPT ![p] = Idle]
  /\ UNCHANGED <<status, age, cache, miss>>

\* The provider answers with an error, too much or no JSON, or not in time.
RequestFails(p) ==
  /\ h[p].pc \in {"discover", "fetch", "refetch", "exchange"}
  /\ h' = [h EXCEPT ![p] = Idle]
  /\ UNCHANGED <<status, age, cache, miss>>

Answer(p) ==
  \/ DiscoverMetadata(p) \/ FetchKeys(p) \/ \E k \in Key : ExchangeCode(p, k)
Compute(p) ==
  \/ LookUp(p) \/ KidMiss(p) \/ StoreKeys(p) \/ SetCooldown(p)
  \/ Return(p) \/ \E c \in Claims : VerifyIdToken(p, c)

Next ==
  \/ \E k \in Key : Publish(k) \/ Retire(k)
  \/ Tick
  \/ \E p \in Proc :
       \/ SocialCallback(p) \/ Answer(p) \/ Compute(p)
       \/ DocumentRefused(p) \/ RequestFails(p)
       \/ \E k \in Key : VerifyWithKid(p, k)

Spec == Init /\ [][Next]_vars

\* The threads run, requests end, and time passes; a provider that is asked again
\* and again answers, with good claims, and its users keep logging in.
Fairness ==
  /\ WF_vars(Tick)
  /\ \A p \in Proc : WF_vars(Answer(p) \/ RequestFails(p) \/ Compute(p))
  /\ \A p \in Proc \ Naming :
       /\ SF_vars(SocialCallback(p))
       /\ SF_vars(DiscoverMetadata(p)) /\ SF_vars(FetchKeys(p))
       /\ SF_vars(\E k \in Key : ExchangeCode(p, k))
       /\ SF_vars(\E c \in Claims : ClaimsOk(c) /\ VerifyIdToken(p, c))

FairSpec == Spec /\ Fairness

-----------------------------------------------------------------------------
(* Properties *)

\* The keys, the cache and the locals of the threads have their types.
TypeOK ==
  /\ status \in [Key -> {"unborn", "published", "retired"}]
  /\ age \in [Key -> 0 .. Horizon]
  /\ cache \in Entry \cup {None}
  /\ miss \in [Key -> Left(Cooldown)]
  /\ h \in [Proc -> Thread]

\* A token of a retired key is accepted only when the key was retired less than
\* ttl_seconds before get_jwks read the clock, whatever fetches overlap and
\* whichever of them stores last.
RetiredKeysFade ==
  \A p \in Proc : h[p].pc = "accepted" =>
    /\ status[h[p].kid] # "unborn"
    /\ status[h[p].kid] = "retired" => age[h[p].kid] - h[p].late < Ttl

\* A good token of a published key is refused only while the key is younger than
\* the cache may be: the cooldown for a call that names the kid, ttl_seconds for
\* one that does not.
RefusalsFade ==
  \A p \in Proc :
    h[p].pc = "refused" /\ ClaimsOk(h[p].claims) /\ status[h[p].kid] = "published" =>
      age[h[p].kid] - h[p].late < IF p \in Naming THEN Cooldown ELSE Ttl

\* After a rotation the logins of those who try again succeed: when the provider
\* goes on publishing one key, a login with it is accepted again and again.
RotationHeals ==
  \A k \in Key :
    <>[](Published = {k}) => []<>(\E p \in Proc : h[p].pc = "accepted" /\ h[p].kid = k)
=============================================================================
