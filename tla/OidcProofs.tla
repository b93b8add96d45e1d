----------------------------- MODULE OidcProofs -----------------------------
(***************************************************************************)
(* Proofs about Oidc for every number of threads and keys and every time   *)
(* to live, cooldown and delay.  The inductive invariant bounds how old a  *)
(* difference between the keys somebody holds and the keys the provider    *)
(* publishes can be: in the cache by what has passed of the time of the    *)
(* entry (CacheInv), in a thread by what has passed since it read the      *)
(* clock (Good).                                                           *)
(***************************************************************************)
EXTENDS Oidc, TLAPS

Holding == {"store", "restore", "cooldown", "miss", "exchange", "verify"}
Fetched == {"store", "restore", "cooldown"}
Looked == {"miss", "exchange", "verify"}

\* The document does not say of k what the provider says.
Differs(doc, k) ==
  \/ k \in doc /\ status[k] = "retired"
  \/ k \notin doc /\ status[k] = "published"

\* What thread p has in its hands when its locals are x.
Good(p, x) ==
  /\ x \in Thread
  /\ p \in Naming /\ x.pc # "idle" => x.kid \in Key
  /\ x.pc \in {"miss", "refetch", "restore", "cooldown"} => p \in Naming
  /\ x.pc = "exchange" => p \notin Naming
  /\ x.pc \in {"verify", "accepted", "refused"} => x.kid \in Key
  /\ x.pc \in Holding => \A k \in x.doc : status[k] # "unborn"
  /\ x.pc \in Fetched => \A k \in Key : Differs(x.doc, k) => age[k] <= x.late
  /\ x.pc \in Looked => \A k \in Key : Differs(x.doc, k) => age[k] < Ttl + x.late
  /\ x.pc = "accepted" =>
       /\ status[x.kid] # "unborn"
       /\ status[x.kid] = "retired" => age[x.kid] < Ttl + x.late

CacheInv ==
  cache # None => \A k \in Key :
    /\ k \in cache.doc => status[k] # "unborn"
    /\ Differs(cache.doc, k) /\ cache.left > 0 - MaxDelay => age[k] + cache.left <= Ttl

Tables ==
  /\ status \in [Key -> {"unborn", "published", "retired"}]
  /\ age \in [Key -> 0 .. Horizon]
  /\ cache \in Entry \cup {None}
  /\ miss \in [Key -> Left(Cooldown)]

\* The locals are a function whose values are good.
Threads == h \in [Proc -> Thread] /\ \A p \in Proc : Good(p, h[p])

Core == Tables /\ CacheInv /\ Threads

-----------------------------------------------------------------------------
(* Time *)

LEMMA Horizons ==
  /\ Horizon \in Nat /\ Ttl + MaxDelay <= Horizon /\ Cooldown + MaxDelay <= Horizon
  BY ConfigAssumption DEF Horizon

LEMMA Leftover ==
  ASSUME NEW t \in {Ttl, Cooldown}, NEW n \in 0 .. MaxDelay
  PROVE  /\ t - n \in Left(t)
         /\ 0 - MaxDelay \in Left(t)
         /\ \A m \in Left(t) : /\ m \in Int /\ m <= t
                               /\ Less(m) \in Left(t)
                               /\ Less(m) > 0 - MaxDelay => m > 0 - MaxDelay /\ Less(m) = m - 1
  BY ConfigAssumption DEF Left, Less

LEMMA IdleGood == \A p \in Proc : Good(p, Idle)
  BY ConfigAssumption DEF Good, Idle, Thread, Label, Holding, Fetched, Looked

LEMMA InitCore == Init => Core
  <1> SUFFICES ASSUME Init PROVE Core
    OBVIOUS
  <1>1. 0 \in 0 .. Horizon /\ 0 - MaxDelay \in Left(Cooldown)
    BY Horizons, ConfigAssumption DEF Left
  <1>2. Tables
    BY <1>1 DEF Init, Tables
  <1>3. Idle \in Thread
    BY ConfigAssumption DEF Idle, Thread, Label
  <1>4. Threads
    BY <1>3, IdleGood DEF Init, Threads
  <1> QED
    BY <1>2, <1>4 DEF Core, CacheInv, Init

-----------------------------------------------------------------------------
(* The provider *)

\* A key changes its status now; nothing else changes.
Turns(k) ==
  /\ k \in Key
  /\ status'[k] # "unborn" /\ age'[k] = 0
  /\ \A j \in Key : j # k => status'[j] = status[j] /\ age'[j] = age[j]
  /\ UNCHANGED <<cache, miss, h>>

LEMMA ProviderTurns ==
  ASSUME Core, NEW k \in Key, Publish(k) \/ Retire(k)
  PROVE  Turns(k) /\ Tables'
  <1>1. Turns(k)
    BY DEF Core, Tables, Publish, Retire, Turns
  <1>2. status' \in [Key -> {"unborn", "published", "retired"}]
    BY DEF Core, Tables, Publish, Retire
  <1>3. 0 \in 0 .. Horizon
    BY Horizons
  <1>4. age' \in [Key -> 0 .. Horizon]
    BY <1>3 DEF Core, Tables, Publish, Retire
  <1> QED
    BY <1>1, <1>2, <1>4 DEF Core, Tables, Turns

LEMMA TurnsKeepsCore ==
  ASSUME Core, NEW k, Turns(k), Tables'
  PROVE  Core'
  <1>1. ASSUME NEW p \in Proc PROVE Good(p, h[p])'
    <2>1. Good(p, h[p]) /\ h'[p] = h[p]
      BY DEF Core, Threads, Turns
    <2>2. h[p].late \in Nat
      BY <2>1, ConfigAssumption DEF Good, Thread
    <2>3. 0 <= h[p].late /\ 0 < Ttl + h[p].late
      BY <2>2, ConfigAssumption
    <2>4. h[p].pc \in Holding => h[p].doc \subseteq Key
      BY <2>1 DEF Good, Thread
    <2>5. \A j \in Key : j # k => Differs(h[p].doc, j)' = Differs(h[p].doc, j)
      BY <2>1 DEF Differs, Turns
    <2>6. h[p].pc \in Holding => \A j \in h[p].doc : status'[j] # "unborn"
      BY <2>1, <2>4 DEF Good, Turns
    <2>7. h[p].pc \in Fetched => \A j \in Key : Differs(h[p].doc, j)' => age'[j] <= h[p].late
      BY <2>1, <2>3, <2>5 DEF Good, Turns
    <2>8. h[p].pc \in Looked => \A j \in Key : Differs(h[p].doc, j)' => age'[j] < Ttl + h[p].late
      BY <2>1, <2>3, <2>5 DEF Good, Turns
    <2>9. h[p].pc = "accepted" =>
            /\ status'[h[p].kid] # "unborn"
            /\ status'[h[p].kid] = "retired" => age'[h[p].kid] < Ttl + h[p].late
      BY <2>1, <2>3 DEF Good, Turns
    <2> QED
      BY <2>1, <2>6, <2>7, <2>8, <2>9 DEF Good, Differs
  <1>2. CacheInv'
    <2> SUFFICES ASSUME cache' # None, NEW j \in Key
                 PROVE  /\ j \in cache'.doc => status'[j] # "unborn"
                        /\ Differs(cache.doc, j)' /\ cache'.left > 0 - MaxDelay =>
                             age'[j] + cache'.left <= Ttl
      BY DEF CacheInv
    <2>1. cache' = cache /\ cache \in Entry
      BY DEF Turns, Core, Tables
    <2>2. cache.left \in Int /\ cache.left <= Ttl
      BY <2>1, ConfigAssumption DEF Entry, Left
    <2>3. CASE j = k
      BY <2>1, <2>2, <2>3 DEF Turns
    <2>4. CASE j # k
      BY <2>1, <2>4 DEF Turns, Core, CacheInv, Differs
    <2> QED
      BY <2>3, <2>4
  <1> QED
    BY <1>1, <1>2 DEF Core, Threads, Turns

-----------------------------------------------------------------------------
(* The clock *)

\* A tick makes everybody older by one, and no difference by more than one.
LEMMA TickAges ==
  ASSUME Core, Tick
  PROVE  /\ Tables'
         /\ status' = status
         /\ \A k \in Key : age'[k] \in Nat /\ age[k] \in Nat /\ age'[k] <= age[k] + 1
         /\ h' \in [Proc -> Thread]
         /\ \A p \in Proc :
              IF h[p].pc \in Timed
              THEN h'[p] = [h[p] EXCEPT !.late = h[p].late + 1] /\ h[p].late + 1 \in 0 .. MaxDelay
              ELSE h'[p] = h[p]
  <1>1. \A k \in Key : age'[k] \in 0 .. Horizon /\ age[k] \in Nat /\ age'[k] <= age[k] + 1
    BY Horizons DEF Core, Tables, Tick
  <1>2. age' \in [Key -> 0 .. Horizon]
    <2>1. age' = [k \in Key |-> IF status[k] # "unborn" /\ age[k] < Horizon
                                THEN age[k] + 1 ELSE age[k]]
      BY DEF Tick
    <2> QED
      BY <1>1, <2>1
  <1>3. miss' \in [Key -> Left(Cooldown)]
    <2>1. \A k \in Key : Less(miss[k]) \in Left(Cooldown)
      BY Leftover, ConfigAssumption DEF Core, Tables
    <2> QED
      BY <2>1 DEF Tick
  <1>4. cache' \in Entry \cup {None}
    <2>1. CASE cache = None
      BY <2>1 DEF Tick
    <2>2. CASE cache # None
      <3>1. cache \in Entry /\ cache' = [cache EXCEPT !.left = Less(cache.left)]
        BY <2>2 DEF Tick, Core, Tables
      <3>2. cache.left \in Left(Ttl)
        BY <3>1 DEF Entry
      <3>3. Less(cache.left) \in Left(Ttl)
        BY <3>2, Leftover, ConfigAssumption
      <3> QED
        BY <3>1, <3>3 DEF Entry
    <2> QED
      BY <2>1, <2>2
  <1>5. ASSUME NEW p \in Proc, h[p].pc \in Timed
        PROVE  /\ h'[p] = [h[p] EXCEPT !.late = h[p].late + 1]
               /\ h[p].late + 1 \in 0 .. MaxDelay
    <2>1. h'[p] = [h[p] EXCEPT !.late = h[p].late + 1]
      BY <1>5 DEF Tick
    <2>2. h[p].late \in 0 .. MaxDelay /\ h[p].late < MaxDelay
      BY <1>5 DEF Tick, Core, Threads, Thread
    <2> QED
      BY <2>1, <2>2, ConfigAssumption
  <1>6. ASSUME NEW p \in Proc, h[p].pc \notin Timed PROVE h'[p] = h[p]
    BY <1>6 DEF Tick
  <1>7. \A p \in Proc : h'[p] \in Thread
    <2> TAKE p \in Proc
    <2>1. h[p] \in Thread
      BY DEF Core, Threads
    <2>2. CASE h[p].pc \in Timed
      BY <1>5, <2>1, <2>2 DEF Thread
    <2> QED
      BY <1>6, <2>1, <2>2
  <1>8. h' \in [Proc -> Thread]
    <2>1. h' = [p \in Proc |-> IF h[p].pc \in Timed THEN [h[p] EXCEPT !.late = @ + 1] ELSE h[p]]
      BY DEF Tick
    <2> QED
      BY <1>7, <2>1
  <1> QED
    BY <1>1, <1>2, <1>3, <1>4, <1>5, <1>6, <1>8 DEF Tables, Core, Tick

LEMMA TickCore ==
  ASSUME Core, Tick
  PROVE  Core'
  <1>1. ASSUME NEW p \in Proc PROVE Good(p, h[p])'
    <2>1. Good(p, h[p]) /\ status' = status /\ h'[p] \in Thread
      BY TickAges DEF Core, Threads
    <2>2. CASE h[p].pc \in Timed
      <3>1. h'[p] = [h[p] EXCEPT !.late = h[p].late + 1]
        BY <2>2, TickAges
      <3>2. /\ h'[p].pc = h[p].pc /\ h'[p].kid = h[p].kid /\ h'[p].doc = h[p].doc
            /\ h'[p].late = h[p].late + 1 /\ h[p].late \in Nat
        BY <2>1, <3>1, ConfigAssumption DEF Good, Thread
      <3>3. \A k \in Key : Differs(h[p].doc, k)' = Differs(h[p].doc, k)
        BY <2>1, <3>2 DEF Differs
      <3>4. \A k \in Key : /\ age[k] <= h[p].late => age'[k] <= h'[p].late
                           /\ age[k] < Ttl + h[p].late => age'[k] < Ttl + h'[p].late
        BY <3>2, TickAges, ConfigAssumption
      <3> QED
        BY <2>1, <3>2, <3>3, <3>4 DEF Good, Differs
    <2>3. CASE h[p].pc \notin Timed
      <3>1. h'[p] = h[p] /\ h[p].pc \in {"idle", "discover"}
        BY <2>1, <2>3, TickAges DEF Good, Thread, Label, Timed
      <3> QED
        BY <2>1, <3>1 DEF Good, Holding, Fetched, Looked
    <2> QED
      BY <2>2, <2>3
  <1>2. CacheInv'
    <2> SUFFICES ASSUME cache' # None, NEW k \in Key
                 PROVE  /\ k \in cache'.doc => status'[k] # "unborn"
                        /\ Differs(cache.doc, k)' /\ cache'.left > 0 - MaxDelay =>
                             age'[k] + cache'.left <= Ttl
      BY DEF CacheInv
    <2>1. cache \in Entry /\ cache' = [cache EXCEPT !.left = Less(cache.left)]
      BY DEF Tick, Core, Tables
    <2>2. /\ cache.left \in Left(Ttl) /\ cache # None
          /\ cache'.left = Less(cache.left) /\ cache'.doc = cache.doc
      BY <2>1, SentinelAssumption DEF Entry
    <2>3. cache.left \in Int /\ (cache'.left > 0 - MaxDelay =>
            cache.left > 0 - MaxDelay /\ cache'.left = cache.left - 1)
      BY <2>2, Leftover, ConfigAssumption
    <2>4. age'[k] \in Nat /\ age[k] \in Nat /\ age'[k] <= age[k] + 1 /\ status' = status
      BY TickAges
    <2>5. /\ k \in cache.doc => status[k] # "unborn"
          /\ Differs(cache.doc, k) /\ cache.left > 0 - MaxDelay => age[k] + cache.left <= Ttl
      BY <2>2 DEF Core, CacheInv
    <2>6. Differs(cache.doc, k)' = Differs(cache.doc, k)
      BY <2>2, <2>4 DEF Differs
    <2> QED
      BY <2>2, <2>3, <2>4, <2>5, <2>6, ConfigAssumption
  <1> QED
    BY <1>1, <1>2, TickAges DEF Core, Threads

-----------------------------------------------------------------------------
(* The threads *)

ThreadStep(p) ==
  \/ SocialCallback(p) \/ Answer(p) \/ Compute(p)
  \/ DocumentRefused(p) \/ RequestFails(p)
  \/ \E k \in Key : VerifyWithKid(p, k)

LEMMA NextSplit ==
  Next <=> \/ \E k \in Key : Publish(k) \/ Retire(k)
           \/ Tick
           \/ \E p \in Proc : ThreadStep(p)
  BY DEF Next, ThreadStep

Assigns(p, x) == h' = [h EXCEPT ![p] = x]

\* The locals a step leaves a thread with.
LEMMA Moves ==
  ASSUME NEW x \in Thread
  PROVE  /\ \A l \in Label : [x EXCEPT !.pc = l] \in Thread
         /\ \A l \in Label, d \in SUBSET Key : [x EXCEPT !.doc = d, !.pc = l] \in Thread
         /\ \A l \in Label, k \in Key : [x EXCEPT !.pc = l, !.kid = k] \in Thread
         /\ \A l \in Label, c \in Claims :
              [x EXCEPT !.claims = c, !.doc = {}, !.pc = l] \in Thread
  BY DEF Thread

LEMMA Locals ==
  ASSUME Core, NEW p \in Proc
  PROVE  /\ h \in [Proc -> Thread] /\ Good(p, h[p]) /\ h[p] \in Thread
         /\ h[p].late \in 0 .. MaxDelay /\ h[p].late \in Nat /\ h[p].doc \subseteq Key
         /\ 0 <= h[p].late
  <1>1. h \in [Proc -> Thread] /\ Good(p, h[p]) /\ h[p] \in Thread
    BY DEF Core, Threads
  <1>2. h[p].late \in 0 .. MaxDelay /\ h[p].doc \subseteq Key
    BY <1>1 DEF Thread
  <1> QED
    BY <1>1, <1>2, ConfigAssumption

\* What an entry of the cache that is not expired says of a key is not too old.
LEMMA CacheIsYoung ==
  ASSUME Core, NEW p \in Proc, ~Expired(p)
  PROVE  /\ cache.doc \subseteq Key
         /\ \A k \in cache.doc : status[k] # "unborn"
         /\ \A k \in Key : Differs(cache.doc, k) => age[k] < Ttl + h[p].late
  <1>1. cache # None /\ cache \in Entry /\ cache.left > 0 - h[p].late
    <2>1. cache # None /\ ~(cache.left <= 0 - h[p].late)
      BY DEF Expired
    <2>2. cache \in Entry
      BY <2>1 DEF Core, Tables
    <2>3. cache.left \in Int
      BY <2>2, ConfigAssumption DEF Entry, Left
    <2> QED
      BY <2>1, <2>2, <2>3, Locals
  <1>2. cache.left \in Int /\ cache.doc \subseteq Key
    BY <1>1, ConfigAssumption DEF Entry, Left
  <1>3. cache.left > 0 - MaxDelay
    BY <1>1, <1>2, Locals, ConfigAssumption
  <1>4. \A k \in cache.doc : status[k] # "unborn"
    BY <1>1, <1>2 DEF Core, CacheInv
  <1>5. ASSUME NEW k \in Key, Differs(cache.doc, k) PROVE age[k] < Ttl + h[p].late
    <2>1. age[k] + cache.left <= Ttl
      BY <1>1, <1>3, <1>5 DEF Core, CacheInv
    <2>2. age[k] \in Nat
      BY Horizons DEF Core, Tables
    <2> QED
      BY <1>1, <1>2, <2>1, <2>2, Locals, ConfigAssumption
  <1> QED
    BY <1>2, <1>4, <1>5

\* A step of a thread leaves it with good locals.
LEMMA StepGood ==
  ASSUME Core, NEW p \in Proc, ThreadStep(p)
  PROVE  \E x : Assigns(p, x) /\ Good(p, x)
  <1> DEFINE y == h[p]
  <1>0. h \in [Proc -> Thread] /\ Good(p, y) /\ y \in Thread
    BY Locals
  <1>1. CASE SocialCallback(p)
    <2> DEFINE x == [Idle EXCEPT !.pc = "discover"]
    <2>1. Idle \in Thread
      BY IdleGood DEF Good
    <2>2. x \in Thread /\ x.pc = "discover"
      BY <2>1, Moves DEF Label, Idle
    <2>3. Good(p, x)
      BY <1>1, <2>2 DEF SocialCallback, Good, Holding, Fetched, Looked
    <2> QED
      BY <1>1, <2>3 DEF SocialCallback, Assigns
  <1>2. ASSUME NEW k \in Key, VerifyWithKid(p, k) PROVE \E x : Assigns(p, x) /\ Good(p, x)
    <2> DEFINE x == [Idle EXCEPT !.pc = "look", !.kid = k]
    <2>1. Idle \in Thread
      BY IdleGood DEF Good
    <2>2. x \in Thread /\ x.pc = "look" /\ x.kid = k
      BY <2>1, Moves DEF Label, Idle
    <2>3. Good(p, x)
      BY <2>2 DEF Good, Holding, Fetched, Looked
    <2> QED
      BY <1>2, <2>3 DEF VerifyWithKid, Assigns
  <1>3. CASE DiscoverMetadata(p)
    <2> DEFINE x == [y EXCEPT !.pc = "look"]
    <2>0. "look" \in Label
      BY DEF Label
    <2>1. x \in Thread /\ x.pc = "look" /\ x.kid = y.kid
      BY <1>0, <2>0, Moves DEF Thread
    <2>2. Good(p, x)
      BY <1>0, <1>3, <2>1 DEF DiscoverMetadata, Good, Holding, Fetched, Looked
    <2> QED
      BY <1>3, <2>2, <1>0 DEF DiscoverMetadata, Goto, Assigns
  <1>4. CASE LookUp(p)
    <2>1. CASE Expired(p)
      <3> DEFINE x == [y EXCEPT !.pc = "fetch"]
      <3>0. "fetch" \in Label
        BY DEF Label
      <3>1. x \in Thread /\ x.pc = "fetch" /\ x.kid = y.kid
        BY <1>0, <3>0, Moves DEF Thread
      <3>2. Good(p, x)
        BY <1>0, <1>4, <3>1 DEF LookUp, Good, Holding, Fetched, Looked
      <3> QED
        BY <1>0, <1>4, <2>1, <3>2 DEF LookUp, Goto, Assigns
    <2>2. CASE ~Expired(p)
      <3> DEFINE l == IF p \in Naming /\ ~HasKid(cache.doc, y.kid) THEN "miss" ELSE AfterKeys(p)
                 x == [y EXCEPT !.doc = cache.doc, !.pc = l]
      <3>1. /\ l \in {"miss", "verify", "exchange"} /\ l \in Label
            /\ l \in {"miss", "verify"} <=> p \in Naming
        BY DEF AfterKeys, Label
      <3>2. cache.doc \in SUBSET Key
        BY <2>2, CacheIsYoung
      <3> HIDE DEF l
      <3>3. /\ x \in Thread /\ x.pc = l /\ x.kid = y.kid /\ x.doc = cache.doc
            /\ x.late = y.late
        BY <1>0, <3>1, <3>2, Moves DEF Thread
      <3>4. y.pc # "idle"
        BY <1>4 DEF LookUp
      <3>5. Good(p, x)
        BY <1>0, <2>2, <3>1, <3>3, <3>4, CacheIsYoung DEF Good, Fetched, Looked
      <3>6. Assigns(p, x)
        BY <1>0, <1>4, <2>2 DEF l, LookUp, Assigns
      <3> QED
        BY <3>5, <3>6
    <2> QED
      BY <2>1, <2>2
  <1>5. CASE KidMiss(p)
    <2> DEFINE l == IF miss[y.kid] > 0 - y.late THEN "verify" ELSE "refetch"
               x == [y EXCEPT !.pc = l]
    <2>1. l \in {"verify", "refetch"} /\ l \in Label
      BY DEF Label
    <2> HIDE DEF l
    <2>2. x \in Thread /\ x.pc = l /\ x.kid = y.kid /\ x.doc = y.doc /\ x.late = y.late
      BY <1>0, <2>1, Moves DEF Thread
    <2>3. Good(p, x)
      BY <1>0, <1>5, <2>1, <2>2 DEF KidMiss, Good, Holding, Fetched, Looked
    <2> QED
      BY <1>0, <1>5, <2>3 DEF l, KidMiss, Goto, Assigns
  <1>6. CASE FetchKeys(p)
    <2> DEFINE l == IF y.pc = "fetch" THEN "store" ELSE "restore"
               x == [y EXCEPT !.doc = Published, !.pc = l]
    <2>1. l \in {"store", "restore"} /\ l \in Label /\ (l = "restore" => y.pc = "refetch")
      BY <1>6 DEF Label, FetchKeys
    <2>2. Published \in SUBSET Key
      BY DEF Published
    <2> HIDE DEF l
    <2>3. /\ x \in Thread /\ x.pc = l /\ x.kid = y.kid /\ x.doc = Published
          /\ x.late = y.late
      BY <1>0, <2>1, <2>2, Moves DEF Thread
    <2>4. \A k \in Key : ~Differs(Published, k)
      BY DEF Published, Differs
    <2>5. \A k \in Published : status[k] # "unborn"
      BY DEF Published
    <2>6. Good(p, x)
      BY <1>0, <1>6, <2>1, <2>3, <2>4, <2>5 DEF FetchKeys, Good, Looked
    <2> QED
      BY <1>0, <1>6, <2>6 DEF l, FetchKeys, Assigns
  <1>7. CASE StoreKeys(p)
    <2> DEFINE l == IF y.pc = "store" THEN AfterKeys(p) ELSE "cooldown"
               x == [y EXCEPT !.pc = l]
    <2>1. /\ l \in {"verify", "exchange", "cooldown"} /\ l \in Label
          /\ l = "verify" => p \in Naming
          /\ l = "exchange" => p \notin Naming
          /\ l = "cooldown" => y.pc = "restore"
      BY <1>7 DEF Label, StoreKeys, AfterKeys
    <2> HIDE DEF l
    <2>2. x \in Thread /\ x.pc = l /\ x.kid = y.kid /\ x.doc = y.doc /\ x.late = y.late
      BY <1>0, <2>1, Moves DEF Thread
    <2>3. \A k \in Key : Differs(y.doc, k) => age[k] <= y.late /\ age[k] < Ttl + y.late
      <3>1. \A k \in Key : age[k] \in Nat
        BY Horizons DEF Core, Tables
      <3>2. \A k \in Key : Differs(y.doc, k) => age[k] <= y.late
        BY <1>0, <1>7 DEF StoreKeys, Good, Fetched
      <3> QED
        BY <3>1, <3>2, Locals, ConfigAssumption
    <2>4. Good(p, x)
      BY <1>0, <1>7, <2>1, <2>2, <2>3 DEF StoreKeys, Good, Holding
    <2> QED
      BY <1>0, <1>7, <2>4 DEF l, StoreKeys, Goto, Assigns
  <1>8. CASE SetCooldown(p)
    <2> DEFINE x == [y EXCEPT !.pc = "verify"]
    <2>0. "verify" \in Label
      BY DEF Label
    <2>1. x \in Thread /\ x.pc = "verify" /\ x.kid = y.kid /\ x.doc = y.doc /\ x.late = y.late
      BY <1>0, <2>0, Moves DEF Thread
    <2>2. \A k \in Key : Differs(y.doc, k) => age[k] < Ttl + y.late
      <3>1. \A k \in Key : age[k] \in Nat
        BY Horizons DEF Core, Tables
      <3>2. \A k \in Key : Differs(y.doc, k) => age[k] <= y.late
        BY <1>0, <1>8 DEF SetCooldown, Good, Fetched
      <3> QED
        BY <3>1, <3>2, Locals, ConfigAssumption
    <2>3. Good(p, x)
      BY <1>0, <1>8, <2>1, <2>2 DEF SetCooldown, Good, Holding, Fetched
    <2> QED
      BY <1>0, <1>8, <2>3 DEF SetCooldown, Goto, Assigns
  <1>9. ASSUME NEW k \in Key, ExchangeCode(p, k) PROVE \E x : Assigns(p, x) /\ Good(p, x)
    <2> DEFINE x == [y EXCEPT !.pc = "verify", !.kid = k]
    <2>0. "verify" \in Label
      BY DEF Label
    <2>1. x \in Thread /\ x.pc = "verify" /\ x.kid = k /\ x.doc = y.doc /\ x.late = y.late
      BY <1>0, <2>0, Moves DEF Thread
    <2>2. Good(p, x)
      BY <1>0, <1>9, <2>1 DEF ExchangeCode, Good, Holding, Fetched, Looked
    <2> QED
      BY <1>0, <1>9, <2>2 DEF ExchangeCode, Assigns
  <1>10. ASSUME NEW c \in Claims, VerifyIdToken(p, c) PROVE \E x : Assigns(p, x) /\ Good(p, x)
    <2> DEFINE l == IF HasKid(y.doc, y.kid) /\ ClaimsOk(c) THEN "accepted" ELSE "refused"
               x == [y EXCEPT !.claims = c, !.doc = {}, !.pc = l]
    <2>1. /\ l \in {"accepted", "refused"} /\ l \in Label
          /\ l = "accepted" => y.kid \in y.doc
      BY DEF Label, HasKid
    <2> HIDE DEF l
    <2>2. x \in Thread /\ x.pc = l /\ x.kid = y.kid /\ x.late = y.late
      BY <1>0, <2>1, Moves DEF Thread
    <2>3. Good(p, x)
      BY <1>0, <1>10, <2>1, <2>2 DEF VerifyIdToken, Good, Holding, Fetched, Looked, Differs
    <2> QED
      BY <1>0, <1>10, <2>3 DEF l, VerifyIdToken, Assigns
  <1>11. CASE Return(p) \/ DocumentRefused(p) \/ RequestFails(p)
    BY <1>11, IdleGood DEF Return, DocumentRefused, RequestFails, Assigns
  <1> QED
    BY <1>1, <1>2, <1>3, <1>4, <1>5, <1>6, <1>7, <1>8, <1>9, <1>10, <1>11
    DEF ThreadStep, Answer, Compute

\* A step of a thread leaves the provider alone; what it stores is as old as its
\* reading of the clock.
LEMMA StepTables ==
  ASSUME Core, NEW p \in Proc, ThreadStep(p)
  PROVE  status' = status /\ age' = age /\ Tables' /\ CacheInv'
  <1>0. Tables /\ CacheInv /\ Good(p, h[p])
    BY Locals DEF Core
  <1>1. CASE UNCHANGED <<status, age, cache, miss>>
    BY <1>0, <1>1 DEF Tables, CacheInv, Differs
  <1>2. CASE StoreKeys(p)
    <2>1. /\ cache' = [left |-> Ttl - h[p].late, doc |-> h[p].doc]
          /\ status' = status /\ age' = age /\ miss' = miss
      BY <1>2 DEF StoreKeys
    <2>2. Ttl - h[p].late \in Left(Ttl) /\ h[p].doc \in SUBSET Key
      BY Leftover, Locals
    <2>3. cache' \in Entry
      BY <2>1, <2>2 DEF Entry
    <2>4. CacheInv'
      <3> SUFFICES ASSUME NEW k \in Key
                   PROVE  /\ k \in h[p].doc => status[k] # "unborn"
                          /\ Differs(h[p].doc, k) => age[k] + (Ttl - h[p].late) <= Ttl
        BY <2>1 DEF CacheInv, Differs
      <3>1. Differs(h[p].doc, k) => age[k] <= h[p].late
        BY <1>0, <1>2 DEF StoreKeys, Good, Fetched
      <3>2. k \in h[p].doc => status[k] # "unborn"
        BY <1>0, <1>2 DEF StoreKeys, Good, Holding
      <3>3. age[k] \in Nat
        BY Horizons DEF Core, Tables
      <3> QED
        BY <3>1, <3>2, <3>3, Locals, ConfigAssumption
    <2> QED
      BY <1>0, <2>1, <2>3, <2>4 DEF Tables
  <1>3. CASE SetCooldown(p)
    <2> DEFINE m == IF HasKid(h[p].doc, h[p].kid) THEN 0 - MaxDelay ELSE Cooldown - h[p].late
    <2>1. m \in Left(Cooldown)
      BY Leftover, Locals
    <2> HIDE DEF m
    <2>2. miss' = [miss EXCEPT ![h[p].kid] = m] /\ UNCHANGED <<status, age, cache>>
      BY <1>3 DEF SetCooldown, m
    <2>3. miss' \in [Key -> Left(Cooldown)]
      BY <1>0, <2>1, <2>2 DEF Tables
    <2> QED
      BY <1>0, <2>2, <2>3 DEF Tables, CacheInv, Differs
  <1>4. UNCHANGED <<status, age, cache, miss>> \/ StoreKeys(p) \/ SetCooldown(p)
    BY DEF ThreadStep, Answer, Compute, SocialCallback, VerifyWithKid, DiscoverMetadata,
       LookUp, KidMiss, FetchKeys, ExchangeCode, VerifyIdToken, Return, DocumentRefused,
       RequestFails
  <1> QED
    BY <1>1, <1>2, <1>3, <1>4

LEMMA ThreadCore ==
  ASSUME Core, NEW p \in Proc, ThreadStep(p)
  PROVE  Core'
  <1>1. PICK x : Assigns(p, x) /\ Good(p, x)
    BY StepGood
  <1>2. h \in [Proc -> Thread] /\ x \in Thread
    BY <1>1, Locals DEF Good
  <1>3. h' \in [Proc -> Thread] /\ \A q \in Proc : h'[q] = IF q = p THEN x ELSE h[q]
    BY <1>1, <1>2 DEF Assigns
  <1>4. \A q \in Proc : Good(q, h'[q])
    BY <1>1, <1>3 DEF Core, Threads
  <1>5. status' = status /\ age' = age
    BY StepTables
  <1>6. \A q \in Proc : Good(q, h[q])'
    BY <1>4, <1>5 DEF Good, Differs
  <1> QED
    BY <1>3, <1>6, StepTables DEF Core, Threads

LEMMA CoreStep == Core /\ [Next]_vars => Core'
  <1> SUFFICES ASSUME Core, [Next]_vars PROVE Core'
    OBVIOUS
  <1>1. CASE \E k \in Key : Publish(k) \/ Retire(k)
    BY <1>1, ProviderTurns, TurnsKeepsCore
  <1>2. CASE UNCHANGED vars
    BY <1>2 DEF vars, Core, Tables, CacheInv, Threads, Good, Differs
  <1> QED
    BY <1>1, <1>2, TickCore, ThreadCore, NextSplit

LEMMA CoreInvariant == Spec => []Core
  BY InitCore, CoreStep, PTL DEF Spec

\* The keys, the cache, the cooldowns and the locals have their types.
THEOREM KeyTypes == Spec => []TypeOK
  <1>1. Core => TypeOK
    BY DEF Core, Tables, Threads, TypeOK
  <1> QED
    BY <1>1, CoreInvariant, PTL

\* Whatever threads fetch, store and look up at a time, however often the provider
\* rotates its keys, and however slow it answers: no token of a key is accepted that
\* was retired ttl_seconds before the thread read the clock.
THEOREM RetiredKeysAreRefused == Spec => []RetiredKeysFade
  <1>1. ASSUME Core PROVE RetiredKeysFade
    <2> SUFFICES ASSUME NEW p \in Proc, h[p].pc = "accepted"
                 PROVE  /\ status[h[p].kid] # "unborn"
                        /\ status[h[p].kid] = "retired" => age[h[p].kid] - h[p].late < Ttl
      BY DEF RetiredKeysFade
    <2>1. Good(p, h[p]) /\ h[p].late \in Nat
      BY <1>1, Locals
    <2>2. h[p].kid \in Key
      BY <2>1 DEF Good
    <2>3. age[h[p].kid] \in Nat
      BY <1>1, <2>2, Horizons DEF Core, Tables
    <2> QED
      BY <2>1, <2>3, ConfigAssumption DEF Good
  <1> QED
    BY <1>1, CoreInvariant, PTL

-----------------------------------------------------------------------------
(* Good tokens *)

\* A cooldown is set, or no host asks by kid.
CooldownSet == Cooldown > 0 \/ Naming = {}

Patience(p) == IF p \in Naming THEN Cooldown ELSE Ttl

\* A key that thread p takes for unknown is younger than its patience.
Timely(p, x) ==
  /\ x.pc = "verify" /\ p \in Naming /\ x.kid \notin x.doc /\ status[x.kid] = "published" =>
       age[x.kid] < Cooldown + x.late
  /\ x.pc = "refused" /\ ClaimsOk(x.claims) /\ status[x.kid] = "published" =>
       age[x.kid] < Patience(p) + x.late

\* The cooldown of a kid began when its key was not there.
MissInv ==
  \A k \in Key : status[k] = "published" /\ miss[k] > 0 - MaxDelay => age[k] + miss[k] <= Cooldown

Prompt == MissInv /\ \A p \in Proc : Timely(p, h[p])

LEMMA TurnsPrompt ==
  ASSUME CooldownSet, Core, Prompt, NEW k, Turns(k)
  PROVE  Prompt'
  <1>1. MissInv'
    <2> SUFFICES ASSUME NEW j \in Key, status'[j] = "published", miss'[j] > 0 - MaxDelay
                 PROVE  age'[j] + miss'[j] <= Cooldown
      BY DEF MissInv
    <2>1. miss' = miss /\ miss[j] \in Left(Cooldown)
      BY DEF Turns, Core, Tables
    <2>2. miss[j] \in Int /\ miss[j] <= Cooldown
      BY <2>1, ConfigAssumption DEF Left
    <2>3. CASE j = k
      BY <2>1, <2>2, <2>3, ConfigAssumption DEF Turns
    <2>4. CASE j # k
      BY <2>1, <2>4 DEF Turns, Prompt, MissInv
    <2> QED
      BY <2>3, <2>4
  <1>2. ASSUME NEW p \in Proc PROVE Timely(p, h[p])'
    <2>1. Good(p, h[p]) /\ h'[p] = h[p] /\ h[p].late \in Nat
      BY Locals DEF Turns
    <2>2. p \in Naming => 0 < Cooldown + h[p].late
      BY <2>1, ConfigAssumption DEF CooldownSet
    <2>3. 0 < Patience(p) + h[p].late
      BY <2>1, <2>2, ConfigAssumption DEF Patience
    <2>4. Timely(p, h[p])
      BY DEF Prompt
    <2>5. h[p].pc \in {"verify", "refused"} => h[p].kid \in Key
      BY <2>1 DEF Good
    <2> QED
      BY <2>1, <2>2, <2>3, <2>4, <2>5 DEF Timely, Turns
  <1> QED
    BY <1>1, <1>2 DEF Prompt

LEMMA TickPrompt ==
  ASSUME Core, Prompt, Tick
  PROVE  Prompt'
  <1>1. MissInv'
    <2> SUFFICES ASSUME NEW k \in Key, status'[k] = "published", miss'[k] > 0 - MaxDelay
                 PROVE  age'[k] + miss'[k] <= Cooldown
      BY DEF MissInv
    <2>1. miss'[k] = Less(miss[k]) /\ miss[k] \in Left(Cooldown)
      BY DEF Tick, Core, Tables
    <2>2. miss[k] \in Int /\ miss[k] > 0 - MaxDelay /\ miss'[k] = miss[k] - 1
      BY <2>1, Leftover, ConfigAssumption
    <2>3. status' = status /\ age'[k] \in Nat /\ age[k] \in Nat /\ age'[k] <= age[k] + 1
      BY TickAges
    <2>4. age[k] + miss[k] <= Cooldown
      BY <2>2, <2>3 DEF Prompt, MissInv
    <2> QED
      BY <2>2, <2>3, <2>4, ConfigAssumption
  <1>2. ASSUME NEW p \in Proc PROVE Timely(p, h[p])'
    <2>1. Good(p, h[p]) /\ status' = status /\ h[p] \in Thread /\ h[p].late \in Nat
      BY TickAges, Locals
    <2>2. CASE h[p].pc \in Timed
      <3>1. h'[p] = [h[p] EXCEPT !.late = h[p].late + 1]
        BY <2>2, TickAges
      <3>2. /\ h'[p].pc = h[p].pc /\ h'[p].kid = h[p].kid /\ h'[p].doc = h[p].doc
            /\ h'[p].claims = h[p].claims /\ h'[p].late = h[p].late + 1
        BY <2>1, <3>1 DEF Thread
      <3>3. Patience(p) \in Nat
        BY ConfigAssumption DEF Patience
      <3>4. \A k \in Key : /\ age[k] < Cooldown + h[p].late => age'[k] < Cooldown + h'[p].late
                           /\ age[k] < Patience(p) + h[p].late =>
                                age'[k] < Patience(p) + h'[p].late
        BY <2>1, <3>2, <3>3, TickAges, ConfigAssumption
      <3>5. h[p].pc \in {"verify", "refused"} => h[p].kid \in Key
        BY <2>1 DEF Good
      <3> QED
        BY <2>1, <3>2, <3>4, <3>5 DEF Timely, Prompt, Patience
    <2>3. CASE h[p].pc \notin Timed
      <3>1. h'[p] = h[p] /\ h[p].pc \notin {"verify", "refused"}
        BY <2>3, TickAges DEF Timed
      <3> QED
        BY <3>1 DEF Timely
    <2> QED
      BY <2>2, <2>3
  <1> QED
    BY <1>1, <1>2 DEF Prompt

\* A thread that has fetched the keys itself knows all but the youngest.
LEMMA FetchedIsYoung ==
  ASSUME CooldownSet, Core, NEW p \in Naming, h[p].pc \in Fetched, NEW k \in Key,
         k \notin h[p].doc, status[k] = "published"
  PROVE  age[k] < Cooldown + h[p].late
  <1>1. p \in Proc
    BY ConfigAssumption
  <1>2. Good(p, h[p]) /\ h[p].late \in Nat
    BY <1>1, Locals
  <1>3. age[k] <= h[p].late
    BY <1>2 DEF Good, Differs
  <1>4. age[k] \in Nat
    BY Horizons DEF Core, Tables
  <1> QED
    BY <1>2, <1>3, <1>4, ConfigAssumption DEF CooldownSet

LEMMA ThreadTimely ==
  ASSUME CooldownSet, Core, Prompt, NEW p \in Proc, ThreadStep(p)
  PROVE  Timely(p, h'[p])
  <1> DEFINE y == h[p]
  <1>0. /\ h \in [Proc -> Thread] /\ Good(p, y) /\ y \in Thread
        /\ Timely(p, y) /\ y.late \in Nat
    BY Locals DEF Prompt
  <1>1. CASE h'[p].pc \notin {"verify", "refused"}
    BY <1>1 DEF Timely
  <1>2. CASE LookUp(p)
    <2>1. CASE Expired(p)
      BY <1>0, <1>1, <1>2, <2>1 DEF LookUp, Goto, Thread
    <2>2. CASE ~Expired(p)
      <3> DEFINE l == IF p \in Naming /\ ~HasKid(cache.doc, y.kid) THEN "miss" ELSE AfterKeys(p)
      <3>1. h'[p] = [y EXCEPT !.doc = cache.doc, !.pc = l]
        BY <1>0, <1>2, <2>2 DEF LookUp
      <3>2. h'[p].pc = l /\ h'[p].doc = cache.doc /\ h'[p].kid = y.kid
        BY <1>0, <3>1 DEF Thread
      <3>3. l # "refused" /\ (l = "verify" => y.kid \in cache.doc)
        BY DEF AfterKeys, HasKid
      <3> HIDE DEF l
      <3> QED
        BY <3>2, <3>3 DEF Timely
    <2> QED
      BY <2>1, <2>2
  <1>3. CASE KidMiss(p)
    <2>1. h'[p] = [y EXCEPT !.pc = IF miss[y.kid] > 0 - y.late THEN "verify" ELSE "refetch"]
      BY <1>0, <1>3 DEF KidMiss, Goto
    <2>2. /\ h'[p].kid = y.kid /\ h'[p].late = y.late /\ h'[p].pc \in {"verify", "refetch"}
          /\ h'[p].pc = "verify" => miss[y.kid] > 0 - y.late
      BY <1>0, <2>1 DEF Thread
    <2>3. ASSUME h'[p].pc = "verify", p \in Naming, status[y.kid] = "published"
          PROVE  age[y.kid] < Cooldown + y.late
      <3>1. y.kid \in Key
        BY <1>0, <1>3, <2>3 DEF Good, KidMiss
      <3>2. miss[y.kid] \in Int /\ age[y.kid] \in Nat /\ miss[y.kid] > 0 - y.late
        BY <2>2, <2>3, <3>1, Horizons, ConfigAssumption DEF Core, Tables, Left
      <3>3. y.late <= MaxDelay
        BY Locals, ConfigAssumption
      <3>4. miss[y.kid] > 0 - MaxDelay
        BY <1>0, <3>2, <3>3, ConfigAssumption
      <3>5. age[y.kid] + miss[y.kid] <= Cooldown
        BY <2>3, <3>1, <3>4 DEF Prompt, MissInv
      <3> QED
        BY <1>0, <3>2, <3>5, ConfigAssumption
    <2> QED
      BY <2>2, <2>3 DEF Timely
  <1>4. CASE StoreKeys(p)
    <2> DEFINE l == IF y.pc = "store" THEN AfterKeys(p) ELSE "cooldown"
    <2>1. h'[p] = [y EXCEPT !.pc = l] /\ y.pc \in Fetched
      BY <1>0, <1>4 DEF StoreKeys, Goto, Fetched
    <2>2. l # "refused"
      BY DEF AfterKeys
    <2> HIDE DEF l
    <2>3. h'[p].pc = l /\ h'[p].doc = y.doc /\ h'[p].kid = y.kid /\ h'[p].late = y.late
      BY <1>0, <2>1 DEF Thread
    <2>4. p \in Naming => y.kid \in Key
      BY <1>0, <2>1 DEF Good, Fetched
    <2> QED
      BY <2>1, <2>2, <2>3, <2>4, FetchedIsYoung DEF Timely
  <1>5. CASE SetCooldown(p)
    <2>1. h'[p] = [y EXCEPT !.pc = "verify"] /\ y.pc \in Fetched
      BY <1>0, <1>5 DEF SetCooldown, Goto, Fetched
    <2>2. h'[p].pc = "verify" /\ h'[p].doc = y.doc /\ h'[p].kid = y.kid /\ h'[p].late = y.late
      BY <1>0, <2>1 DEF Thread
    <2>3. p \in Naming => y.kid \in Key
      BY <1>0, <2>1 DEF Good, Fetched
    <2> QED
      BY <2>1, <2>2, <2>3, FetchedIsYoung DEF Timely
  <1>6. ASSUME NEW k \in Key, ExchangeCode(p, k) PROVE Timely(p, h'[p])
    <2>1. h'[p] = [y EXCEPT !.pc = "verify", !.kid = k] /\ p \notin Naming
      BY <1>0, <1>6 DEF ExchangeCode, Good
    <2>2. h'[p].pc = "verify"
      BY <1>0, <2>1 DEF Thread
    <2> QED
      BY <2>1, <2>2 DEF Timely
  <1>7. ASSUME NEW c \in Claims, VerifyIdToken(p, c) PROVE Timely(p, h'[p])
    <2> DEFINE l == IF HasKid(y.doc, y.kid) /\ ClaimsOk(c) THEN "accepted" ELSE "refused"
    <2>1. h'[p] = [y EXCEPT !.claims = c, !.doc = {}, !.pc = l]
      BY <1>0, <1>7 DEF VerifyIdToken
    <2>2. h'[p].pc = l /\ h'[p].claims = c /\ h'[p].kid = y.kid /\ h'[p].late = y.late
      BY <1>0, <2>1 DEF Thread
    <2>3. ASSUME y.kid \notin y.doc, status[y.kid] = "published"
          PROVE  age[y.kid] < Patience(p) + y.late
      <3>1. CASE p \in Naming
        BY <1>0, <1>7, <2>3, <3>1 DEF VerifyIdToken, Timely, Patience
      <3>2. CASE p \notin Naming
        BY <1>0, <1>7, <2>3, <3>2 DEF VerifyIdToken, Good, Looked, Differs, Patience
      <3> QED
        BY <3>1, <3>2
    <2>4. l # "verify" /\ (l = "refused" /\ ClaimsOk(c) => y.kid \notin y.doc)
      BY DEF HasKid
    <2> HIDE DEF l
    <2> QED
      BY <2>2, <2>3, <2>4 DEF Timely
  <1>8. CASE SocialCallback(p) \/ \E k \in Key : VerifyWithKid(p, k)
    <2>1. h'[p].pc \in {"discover", "look"}
      BY <1>0, <1>8 DEF SocialCallback, VerifyWithKid, Idle
    <2> QED
      BY <1>1, <2>1
  <1>9. CASE DiscoverMetadata(p) \/ FetchKeys(p)
    <2>1. h'[p].pc \in {"look", "store", "restore"}
      BY <1>0, <1>9 DEF DiscoverMetadata, FetchKeys, Goto, Thread
    <2> QED
      BY <1>1, <2>1
  <1>10. CASE Return(p) \/ DocumentRefused(p) \/ RequestFails(p)
    <2>1. h'[p].pc = "idle"
      BY <1>0, <1>10 DEF Return, DocumentRefused, RequestFails, Idle
    <2> QED
      BY <1>1, <2>1
  <1> QED
    BY <1>2, <1>3, <1>4, <1>5, <1>6, <1>7, <1>8, <1>9, <1>10
    DEF ThreadStep, Answer, Compute

LEMMA ThreadMiss ==
  ASSUME Core, Prompt, NEW p \in Proc, ThreadStep(p)
  PROVE  MissInv'
  <1>0. status' = status /\ age' = age
    BY StepTables
  <1>1. CASE SetCooldown(p)
    <2>1. /\ h[p].kid \in Key /\ Good(p, h[p]) /\ h[p].pc = "cooldown"
          /\ miss \in [Key -> Left(Cooldown)] /\ h[p].late \in Nat
      BY <1>1, Locals DEF SetCooldown, Good, Core, Tables
    <2>2. miss' = [miss EXCEPT ![h[p].kid] =
             IF HasKid(h[p].doc, h[p].kid) THEN 0 - MaxDelay ELSE Cooldown - h[p].late]
      BY <1>1 DEF SetCooldown
    <2> SUFFICES ASSUME NEW k \in Key, status[k] = "published", miss'[k] > 0 - MaxDelay
                 PROVE  age[k] + miss'[k] <= Cooldown
      BY <1>0 DEF MissInv
    <2>3. CASE k = h[p].kid
      <3>1. k \notin h[p].doc /\ miss'[k] = Cooldown - h[p].late
        BY <2>1, <2>2, <2>3, ConfigAssumption DEF HasKid
      <3>2. age[k] <= h[p].late
        BY <2>1, <3>1 DEF Good, Fetched, Differs
      <3>3. age[k] \in Nat
        BY Horizons DEF Core, Tables
      <3> QED
        BY <2>1, <3>1, <3>2, <3>3, ConfigAssumption
    <2>4. CASE k # h[p].kid
      BY <2>1, <2>2, <2>4 DEF Prompt, MissInv
    <2> QED
      BY <2>3, <2>4
  <1>2. CASE miss' = miss
    BY <1>0, <1>2 DEF Prompt, MissInv
  <1>3. miss' = miss \/ SetCooldown(p)
    BY DEF ThreadStep, Answer, Compute, SocialCallback, VerifyWithKid, DiscoverMetadata,
       LookUp, KidMiss, FetchKeys, StoreKeys, ExchangeCode, VerifyIdToken, Return,
       DocumentRefused, RequestFails
  <1> QED
    BY <1>1, <1>2, <1>3

LEMMA ThreadPrompt ==
  ASSUME CooldownSet, Core, Prompt, NEW p \in Proc, ThreadStep(p)
  PROVE  Prompt'
  <1>1. PICK x : Assigns(p, x) /\ Good(p, x)
    BY StepGood
  <1>2. h \in [Proc -> Thread] /\ \A q \in Proc : q # p => h'[q] = h[q]
    BY <1>1, Locals DEF Assigns
  <1>3. \A q \in Proc : Timely(q, h'[q])
    BY <1>2, ThreadTimely DEF Prompt
  <1>4. status' = status /\ age' = age
    BY StepTables
  <1>5. \A q \in Proc : Timely(q, h[q])'
    BY <1>3, <1>4 DEF Timely
  <1> QED
    BY <1>5, ThreadMiss DEF Prompt

\* However slow the provider and however the fetches of the threads overlap, a good
\* token of a key that has been published for longer than the time to live, or the
\* cooldown of its kid, is not refused.
THEOREM GoodTokensPass == ASSUME CooldownSet PROVE Spec => []RefusalsFade
  <1>1. Init => Core /\ Prompt
    <2> SUFFICES ASSUME Init PROVE Prompt
      BY InitCore
    <2> QED
      BY DEF Init, Prompt, MissInv, Timely, Idle
  <1>2. Core /\ Prompt /\ [Next]_vars => Core' /\ Prompt'
    <2> SUFFICES ASSUME Core, Prompt, [Next]_vars PROVE Prompt'
      BY CoreStep
    <2>1. CASE \E k \in Key : Publish(k) \/ Retire(k)
      BY <2>1, ProviderTurns, TurnsPrompt
    <2>2. CASE UNCHANGED vars
      BY <2>2 DEF vars, Prompt, MissInv, Timely
    <2> QED
      BY <2>1, <2>2, TickPrompt, ThreadPrompt, NextSplit
  <1>3. ASSUME Core, Prompt PROVE RefusalsFade
    <2> SUFFICES ASSUME NEW p \in Proc, h[p].pc = "refused", ClaimsOk(h[p].claims),
                        status[h[p].kid] = "published"
                 PROVE  age[h[p].kid] - h[p].late < Patience(p)
      BY DEF RefusalsFade, Patience
    <2>1. Timely(p, h[p]) /\ Good(p, h[p]) /\ h[p].late \in Nat
      BY <1>3, Locals DEF Prompt
    <2>2. h[p].kid \in Key /\ Patience(p) \in Nat
      BY <2>1, ConfigAssumption DEF Good, Patience
    <2>3. age[h[p].kid] \in Nat
      BY <1>3, <2>2, Horizons DEF Core, Tables
    <2> QED
      BY <2>1, <2>2, <2>3 DEF Timely
  <1> QED
    BY <1>1, <1>2, <1>3, PTL DEF Spec
=============================================================================
