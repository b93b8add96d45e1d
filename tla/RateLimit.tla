----------------------------- MODULE RateLimit -----------------------------
(***************************************************************************)
(* FixedWindowRateLimiter: one dictionary of buckets, read and written     *)
(* without a lock.                                                         *)
(*                                                                         *)
(* The sync service calls check from the threads that run its handlers;    *)
(* there one action is one access to the dictionary.  The async service    *)
(* calls it from its event loop, where a check runs to its end before the  *)
(* next one begins (loop = TRUE).  A dictionary that grows or shrinks      *)
(* while a thread iterates over it makes that thread raise.                *)
(***************************************************************************)
EXTENDS Naturals, FiniteSets

CONSTANTS
  Key, Proc,
  Limit, Window,   \* limit and window_seconds of the service
  MaxBuckets,      \* max_buckets
  MaxClock,        \* bound on the clock
  MaxServed,       \* where the history stops counting the requests of a window
  None             \* sentinel

ConfigAssumption ==
  /\ Limit \in Nat \ {0} /\ Window \in Nat \ {0} /\ MaxBuckets \in Nat \ {0}
  /\ MaxClock \in Nat
  /\ MaxServed \in Nat /\ MaxServed > Limit
  /\ IsFiniteSet(Key) /\ None \notin Key

VARIABLES
  loop,      \* whether the checks run on an event loop
  clock,     \* monotonic()
  bucket,    \* the bucket of a key, or None
  h,         \* what each thread is at, and its locals
  served,    \* history: the requests of a key admitted in the window that ends then
  evicted    \* history: the keys whose bucket was evicted

vars == <<loop, clock, bucket, h, served, evicted>>

Time == 0 .. MaxClock + Window
Bucket == [count : 1 .. Limit, reset : Time]
SentinelAssumption == None \notin Bucket

Label == {"idle", "clean", "scan", "sweep", "room", "oldest", "evict", "read", "write"}
Thread == [pc : Label, key : Key \cup {None}, now : 0 .. MaxClock, size : Nat,
           gone : SUBSET Key, victim : Key \cup {None},
           count : 0 .. Limit, reset : Time]

Idle == [pc |-> "idle", key |-> None, now |-> 0, size |-> 0, gone |-> {},
         victim |-> None, count |-> 0, reset |-> 0]

Init ==
  /\ loop \in BOOLEAN
  /\ clock = 0
  /\ bucket = [k \in Key |-> None]
  /\ h = [p \in Proc |-> Idle]
  /\ served = [k \in Key |-> [t \in Time |-> 0]]
  /\ evicted = {}

Stored == {k \in Key : bucket[k] # None}
Size == Cardinality(Stored)

Finish(p) == h' = [h EXCEPT ![p] = Idle]
Record(k, t) ==
  served' = [served EXCEPT ![k][t] = IF @ < MaxServed THEN @ + 1 ELSE @]
Pop(k) == bucket' = [bucket EXCEPT ![k] = None]

-----------------------------------------------------------------------------
(* The steps of a check *)

Check(p, k) ==
  /\ h[p].pc = "idle"
  /\ loop => \A q \in Proc : h[q].pc = "idle"
  /\ h' = [h EXCEPT ![p] = [Idle EXCEPT !.pc = "clean", !.key = k, !.now = clock]]
  /\ UNCHANGED <<loop, clock, bucket, served, evicted>>

\* cleanup_expired, with the clock of the check.
BeginCleanup(p) ==
  /\ h[p].pc = "clean"
  /\ h' = [h EXCEPT ![p].pc = "scan", ![p].size = Size]
  /\ UNCHANGED <<loop, clock, bucket, served, evicted>>

CollectExpired(p) ==
  /\ h[p].pc = "scan" /\ h[p].size = Size
  /\ LET gone == {k \in Stored : h[p].now >= bucket[k].reset} IN
       h' = [h EXCEPT ![p].gone = gone, ![p].size = 0,
                      ![p].pc = IF gone = {} THEN "room" ELSE "sweep"]
  /\ UNCHANGED <<loop, clock, bucket, served, evicted>>

PopExpired(p) ==
  /\ h[p].pc = "sweep"
  /\ \E k \in h[p].gone :
       /\ Pop(k)
       /\ h' = [h EXCEPT ![p].gone = @ \ {k},
                         ![p].pc = IF h[p].gone = {k} THEN "room" ELSE "sweep"]
  /\ UNCHANGED <<loop, clock, served, evicted>>

Full == Size >= MaxBuckets

MakeRoom(p) ==
  /\ h[p].pc = "room"
  /\ IF h[p].key \notin Stored /\ Full
     THEN h' = [h EXCEPT ![p].pc = "oldest", ![p].size = Size]
     ELSE h' = [h EXCEPT ![p].pc = "read"]
  /\ UNCHANGED <<loop, clock, bucket, served, evicted>>

FindOldest(p) ==
  /\ h[p].pc = "oldest" /\ h[p].size = Size
  /\ \E k \in Stored :
       /\ \A l \in Stored : bucket[k].reset <= bucket[l].reset
       /\ h' = [h EXCEPT ![p].pc = "evict", ![p].size = 0, ![p].victim = k]
  /\ UNCHANGED <<loop, clock, bucket, served, evicted>>

EvictOldest(p) ==
  /\ h[p].pc = "evict"
  /\ Pop(h[p].victim)
  /\ evicted' = evicted \cup {h[p].victim}
  /\ h' = [h EXCEPT ![p].pc = "read", ![p].victim = None]
  /\ UNCHANGED <<loop, clock, served>>

\* The window a request falls in: its bucket's, or one that begins now.
Current(p) ==
  LET b == bucket[h[p].key] IN
    IF b # None /\ h[p].now < b.reset
    THEN b ELSE [count |-> 0, reset |-> h[p].now + Window]

\* Faulty variant (for LimiterKept): the count may reach one more.
AdmitsOneMore(count) == count <= Limit

Admits(count) == count < Limit

Admit(p) ==
  /\ h[p].pc = "read" /\ Admits(Current(p).count)
  /\ h' = [h EXCEPT ![p].pc = "write", ![p].now = 0,
                    ![p].count = Current(p).count, ![p].reset = Current(p).reset]
  /\ UNCHANGED <<loop, clock, bucket, served, evicted>>

Refuse(p) ==
  /\ h[p].pc = "read" /\ ~Admits(Current(p).count)
  /\ Finish(p)
  /\ UNCHANGED <<loop, clock, bucket, served, evicted>>

\* Faulty variant (for RefusalsFollowLimit): every request prolongs the window.
CountProlonged(p) ==
  /\ h[p].pc = "write"
  /\ bucket' = [bucket EXCEPT ![h[p].key] =
       [count |-> h[p].count + 1, reset |-> clock + Window]]
  /\ Record(h[p].key, clock + Window)
  /\ Finish(p)
  /\ UNCHANGED <<loop, clock, evicted>>

Count(p) ==
  /\ h[p].pc = "write"
  /\ bucket' = [bucket EXCEPT ![h[p].key] =
       [count |-> h[p].count + 1, reset |-> h[p].reset]]
  /\ Record(h[p].key, h[p].reset)
  /\ Finish(p)
  /\ UNCHANGED <<loop, clock, evicted>>

\* The dictionary changed size during an iteration.
Raise(p) ==
  /\ h[p].pc \in {"scan", "oldest"} /\ h[p].size # Size
  /\ Finish(p)
  /\ UNCHANGED <<loop, clock, bucket, served, evicted>>

Tick ==
  /\ clock < MaxClock
  /\ clock' = clock + 1
  /\ UNCHANGED <<loop, bucket, h, served, evicted>>

Step(p) ==
  \/ BeginCleanup(p) \/ CollectExpired(p) \/ PopExpired(p) \/ MakeRoom(p)
  \/ FindOldest(p) \/ EvictOldest(p) \/ Admit(p) \/ Refuse(p) \/ Count(p) \/ Raise(p)

Next ==
  \/ \E p \in Proc : Step(p) \/ \E k \in Key : Check(p, k)
  \/ Tick

Spec == Init /\ [][Next]_vars

-----------------------------------------------------------------------------
(* Properties *)

\* The buckets, the locals of the threads and the history have their types;
\* a bucket never counts more than the limit.
TypeOK ==
  /\ loop \in BOOLEAN /\ clock \in 0 .. MaxClock
  /\ bucket \in [Key -> Bucket \cup {None}]
  /\ h \in [Proc -> Thread]
  /\ served \in [Key -> [Time -> 0 .. MaxServed]]
  /\ evicted \subseteq Key

\* On an event loop at most limit requests of a key are admitted in a window,
\* and its windows do not overlap, so that no period of window_seconds sees more
\* than twice the limit, as long as the key's bucket has not been evicted.
AtMostLimit ==
  loop => \A k \in Key \ evicted, r \in Time :
    /\ served[k][r] <= Limit
    /\ \A s \in Time : served[k][r] > 0 /\ served[k][s] > 0 /\ r < s => r + Window <= s

\* Whatever updates the threads lose, a request is refused only in a window in
\* which the limit has been admitted, and the refusals end with that window, at
\* most window_seconds later.
RefusalJustified ==
  \A p \in Proc : h[p].pc = "read" /\ ~Admits(Current(p).count) =>
    /\ served[h[p].key][Current(p).reset] >= Limit
    /\ Current(p).reset <= clock + Window

\* On an event loop there are never more than max_buckets buckets.
MemoryBounded == loop => Size <= MaxBuckets
=============================================================================
