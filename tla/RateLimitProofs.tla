-------------------------- MODULE RateLimitProofs --------------------------
(***************************************************************************)
(* Proofs about RateLimit for every number of keys, threads and buckets.   *)
(* Core is inductive for threads and for event loops; Serial adds what     *)
(* holds when one check runs at a time.                                    *)
(***************************************************************************)
EXTENDS RateLimit, FiniteSetTheorems, TLAPS

Parameters == ConfigAssumption /\ SentinelAssumption

\* What a thread knows at each label.
Known(p) ==
  /\ h[p].pc # "idle" => h[p].key \in Key
  /\ h[p].pc = "evict" => h[p].victim \in Key
  /\ h[p].now <= clock
  /\ h[p].pc = "write" =>
       /\ h[p].count < Limit
       /\ h[p].count <= served[h[p].key][h[p].reset]
       /\ h[p].reset <= clock + Window

\* What a bucket counts has been admitted, and its window is near its end.
Backed(k) ==
  bucket[k] # None =>
    /\ bucket[k].count <= served[k][bucket[k].reset]
    /\ bucket[k].reset <= clock + Window

Core == TypeOK /\ (\A k \in Key : Backed(k)) /\ \A p \in Proc : Known(p)

LEMMA SizeIsNat ==
  ASSUME Parameters
  PROVE  Size \in Nat
  <1>1. IsFiniteSet(Stored)
    BY FS_Subset DEF Parameters, ConfigAssumption, Stored
  <1> QED
    BY <1>1, FS_CardinalityType DEF Size

LEMMA BucketOfKey ==
  ASSUME Parameters, TypeOK, NEW k \in Key
  PROVE  bucket[k] = None \/ bucket[k] \in Bucket
  BY DEF TypeOK

LEMMA Numbers ==
  ASSUME Parameters
  PROVE  Limit \in Nat /\ Limit > 0 /\ Window \in Nat /\ Window > 0 /\ MaxClock \in Nat
  BY DEF Parameters, ConfigAssumption

\* The history of a window grows by one, until it stops counting.
LEMMA Recorded ==
  ASSUME Parameters, TypeOK, NEW k \in Key, NEW t \in Time, Record(k, t)
  PROVE  /\ served' \in [Key -> [Time -> 0 .. MaxServed]]
         /\ \A l \in Key, s \in Time : served'[l][s] >= served[l][s]
         /\ \A l \in Key, s \in Time :
              l # k \/ s # t => served'[l][s] = served[l][s]
         /\ \A n \in 0 .. Limit : n + 1 <= Limit /\ n <= served[k][t] => n + 1 <= served'[k][t]
         /\ served'[k][t] > 0
         /\ served[k][t] < MaxServed => served'[k][t] = served[k][t] + 1
  <1> DEFINE up == IF served[k][t] < MaxServed THEN served[k][t] + 1 ELSE served[k][t]
  <1>1. served \in [Key -> [Time -> 0 .. MaxServed]]
    BY DEF TypeOK
  <1>2. served' = [served EXCEPT ![k] = [served[k] EXCEPT ![t] = up]]
    BY <1>1 DEF Record
  <1>3. served[k][t] \in 0 .. MaxServed /\ MaxServed \in Nat /\ MaxServed > Limit /\ Limit \in Nat
    BY <1>1 DEF Parameters, ConfigAssumption
  <1>4. up \in 0 .. MaxServed /\ up >= served[k][t] /\ up > 0
    BY <1>3
  <1>5. \A l \in Key, s \in Time : served[l][s] \in 0 .. MaxServed
    BY <1>1
  <1>6. \A l \in Key, s \in Time :
          served'[l][s] = IF l = k /\ s = t THEN up ELSE served[l][s]
    BY <1>1, <1>2
  <1>7. served' \in [Key -> [Time -> 0 .. MaxServed]]
    <2>1. [served[k] EXCEPT ![t] = up] \in [Time -> 0 .. MaxServed]
      BY <1>1, <1>4
    <2> QED
      BY <1>1, <1>2, <2>1
  <1> HIDE DEF up
  <1>8. \A l \in Key, s \in Time : served'[l][s] >= served[l][s]
    BY <1>3, <1>4, <1>5, <1>6
  <1>9. \A n \in 0 .. Limit : n + 1 <= Limit /\ n <= served[k][t] => n + 1 <= served'[k][t]
    BY <1>3, <1>6 DEF up
  <1>10. served[k][t] < MaxServed => served'[k][t] = served[k][t] + 1
    BY <1>6 DEF up
  <1> QED
    BY <1>4, <1>6, <1>7, <1>8, <1>9, <1>10

LEMMA CurrentType ==
  ASSUME Parameters, Core, NEW p \in Proc, h[p].pc # "idle"
  PROVE  /\ Current(p).count \in 0 .. Limit /\ Current(p).reset \in Time
         /\ Current(p).count <= served[h[p].key][Current(p).reset]
         /\ Current(p).reset <= clock + Window
  <1>1. h[p].key \in Key /\ h[p].now <= clock /\ Backed(h[p].key)
    BY DEF Core, Known
  <1>2. h[p].now \in 0 .. MaxClock /\ clock \in 0 .. MaxClock
    BY DEF Core, TypeOK, Thread
  <1>3. bucket[h[p].key] = None \/ bucket[h[p].key] \in Bucket
    BY <1>1, BucketOfKey DEF Core
  <1>4. CASE bucket[h[p].key] # None /\ h[p].now < bucket[h[p].key].reset
    BY <1>1, <1>3, <1>4, Numbers DEF Current, Backed, Bucket
  <1>5. CASE ~(bucket[h[p].key] # None /\ h[p].now < bucket[h[p].key].reset)
    <2>1. Current(p) = [count |-> 0, reset |-> h[p].now + Window]
      BY <1>5 DEF Current
    <2>2. h[p].now + Window \in Time
      BY <1>2, Numbers DEF Time
    <2>3. served[h[p].key][h[p].now + Window] \in 0 .. MaxServed
      BY <1>1, <2>2 DEF Core, TypeOK
    <2> QED
      BY <1>1, <1>2, <2>1, <2>2, <2>3, Numbers DEF Parameters, ConfigAssumption
  <1> QED
    BY <1>4, <1>5

LEMMA InitCore ==
  ASSUME Parameters
  PROVE  Init => Core
  <1> SUFFICES ASSUME Init PROVE Core
    OBVIOUS
  <1>1. Idle \in Thread
    BY Numbers DEF Idle, Thread, Label, Time
  <1>2. TypeOK
    BY <1>1 DEF Parameters, ConfigAssumption, Init, TypeOK
  <1>3. \A k \in Key : Backed(k)
    BY DEF Init, Backed
  <1>4. \A p \in Proc : Known(p)
    BY DEF Init, Known, Idle
  <1> QED
    BY <1>2, <1>3, <1>4 DEF Core

\* What a step of p must show for Core to go on.
Locals(p) ==
  /\ h'[p] \in Thread
  /\ h' = [h EXCEPT ![p] = h'[p]]
  /\ Known(p)'
Shared ==
  /\ bucket' \in [Key -> Bucket \cup {None}]
  /\ \A k \in Key : Backed(k)'
  /\ served' \in [Key -> [Time -> 0 .. MaxServed]]
  /\ \A k \in Key, t \in Time : served'[k][t] >= served[k][t]
  /\ UNCHANGED <<loop, clock>> /\ evicted' \subseteq Key

\* Removing a bucket, or none, disturbs no other.
LEMMA SharedFrame ==
  ASSUME Parameters, Core, UNCHANGED <<loop, clock, served, evicted>>,
         UNCHANGED bucket \/ \E k \in Key : Pop(k)
  PROVE  Shared
  <1>1. bucket' \in [Key -> Bucket \cup {None}]
    BY DEF Core, TypeOK, Pop
  <1>2. \A l \in Key : bucket'[l] = bucket[l] \/ bucket'[l] = None
    BY DEF Core, TypeOK, Pop
  <1>3. \A k \in Key : Backed(k)'
    BY <1>2 DEF Core, Backed
  <1>4. \A k \in Key, t \in Time : served'[k][t] >= served[k][t]
    <2> SUFFICES ASSUME NEW k \in Key, NEW t \in Time PROVE served[k][t] >= served[k][t]
      OBVIOUS
    <2>1. served[k][t] \in 0 .. MaxServed
      BY DEF Core, TypeOK
    <2> QED
      BY <2>1 DEF Parameters, ConfigAssumption
  <1> QED
    BY <1>1, <1>3, <1>4 DEF Core, TypeOK, Shared

LEMMA FinishLocals ==
  ASSUME Parameters, Core, NEW p \in Proc, Finish(p), clock' = clock
  PROVE  Locals(p)
  <1>1. h'[p] = Idle /\ h' = [h EXCEPT ![p] = Idle]
    BY DEF Core, TypeOK, Finish
  <1>2. Idle \in Thread
    BY Numbers DEF Idle, Thread, Label, Time
  <1>3. clock \in Nat
    BY Numbers DEF Core, TypeOK
  <1> QED
    BY <1>1, <1>2, <1>3 DEF Locals, Known, Idle

LEMMA StepLocals ==
  ASSUME Parameters, Core, NEW p \in Proc, Step(p) \/ \E k \in Key : Check(p, k)
  PROVE  Locals(p) /\ Shared
  <1>1. h[p] \in Thread /\ Known(p) /\ h \in [Proc -> Thread] /\ clock \in 0 .. MaxClock
    BY DEF Core, TypeOK
  <1>2. ASSUME NEW k \in Key, Check(p, k) PROVE Locals(p) /\ Shared
    <2>1. Shared
      BY <1>2, SharedFrame DEF Check
    <2>2. h'[p] = [Idle EXCEPT !.pc = "clean", !.key = k, !.now = clock]
      BY <1>1, <1>2 DEF Check
    <2>3. h'[p] \in Thread
      <3>1. Idle \in Thread
        BY Numbers DEF Idle, Thread, Label, Time
      <3> QED
        BY <1>1, <2>2, <3>1 DEF Thread, Label
    <2>4. h' = [h EXCEPT ![p] = h'[p]]
      BY <1>1, <1>2, <2>2 DEF Check
    <2>5. Known(p)'
      <3>1. h'[p].pc = "clean" /\ h'[p].key = k /\ h'[p].now = clock
        BY <2>2 DEF Idle
      <3>2. UNCHANGED clock
        BY <1>2 DEF Check
      <3> QED
        BY <1>1, <3>1, <3>2, Numbers DEF Known
    <2> QED
      BY <2>1, <2>3, <2>4, <2>5 DEF Locals
  <1>3. CASE BeginCleanup(p)
    <2>1. Shared
      BY <1>3, SharedFrame DEF BeginCleanup
    <2> QED
      BY <1>1, <1>3, <2>1, SizeIsNat DEF BeginCleanup, Locals, Known, Thread, Label
  <1>4. CASE CollectExpired(p)
    <2>1. Shared
      BY <1>4, SharedFrame DEF CollectExpired
    <2>2. {k \in Stored : h[p].now >= bucket[k].reset} \subseteq Key
      BY DEF Stored
    <2> DEFINE gone == {k \in Stored : h[p].now >= bucket[k].reset}
               to == IF gone = {} THEN "room" ELSE "sweep"
    <2>3. h' = [h EXCEPT ![p] = [h[p] EXCEPT !.gone = gone, !.size = 0, !.pc = to]]
      BY <1>1, <1>4 DEF CollectExpired
    <2>4. to \in Label /\ to \in {"room", "sweep"} /\ gone \subseteq Key
      BY <2>2 DEF Label
    <2> HIDE DEF gone, to
    <2>5. h'[p] = [h[p] EXCEPT !.gone = gone, !.size = 0, !.pc = to]
      BY <1>1, <2>3
    <2>6. h'[p] \in Thread
      <3>1. [h[p] EXCEPT !.gone = gone, !.size = 0, !.pc = to] \in Thread
        BY <1>1, <2>4 DEF Thread
      <3> QED
        BY <3>1, <2>5
    <2>7. /\ h'[p].pc = to /\ h'[p].key = h[p].key /\ h'[p].now = h[p].now
          /\ h[p].pc = "scan" /\ clock' = clock
      BY <1>1, <1>4, <2>5 DEF Thread, CollectExpired
    <2>8. Known(p)'
      BY <1>1, <2>4, <2>7 DEF Known
    <2> QED
      BY <2>1, <2>3, <2>5, <2>6, <2>8 DEF Locals
  <1>5. CASE PopExpired(p)
    <2> PICK k \in h[p].gone :
          /\ Pop(k)
          /\ h' = [h EXCEPT ![p].gone = @ \ {k},
                            ![p].pc = IF h[p].gone = {k} THEN "room" ELSE "sweep"]
      BY <1>5 DEF PopExpired
    <2>1. k \in Key
      BY <1>1 DEF Thread
    <2>2. Shared
      BY <1>5, <2>1, SharedFrame DEF PopExpired
    <2> QED
      BY <1>1, <1>5, <2>2 DEF PopExpired, Locals, Known, Thread, Label
  <1>6. CASE MakeRoom(p)
    <2>1. Shared
      BY <1>6, SharedFrame DEF MakeRoom
    <2> QED
      BY <1>1, <1>6, <2>1, SizeIsNat DEF MakeRoom, Locals, Known, Thread, Label
  <1>7. CASE FindOldest(p)
    <2>1. Shared
      BY <1>7, SharedFrame DEF FindOldest
    <2>2. PICK k \in Stored : h' = [h EXCEPT ![p].pc = "evict", ![p].size = 0, ![p].victim = k]
      BY <1>7 DEF FindOldest
    <2>3. k \in Key
      BY DEF Stored
    <2>4. h'[p] = [h[p] EXCEPT !.pc = "evict", !.size = 0, !.victim = k]
      BY <1>1, <2>2
    <2>5. h'[p] \in Thread
      <3>1. [h[p] EXCEPT !.pc = "evict", !.size = 0, !.victim = k] \in Thread
        BY <1>1, <2>3 DEF Thread, Label
      <3> QED
        BY <3>1, <2>4
    <2>6. Known(p)'
      BY <1>1, <1>7, <2>3, <2>4 DEF Known, Thread, FindOldest
    <2> QED
      BY <1>1, <2>1, <2>2, <2>4, <2>5, <2>6 DEF Locals
  <1>8. CASE EvictOldest(p)
    <2>1. h[p].victim \in Key
      BY <1>1, <1>8 DEF Known, EvictOldest
    <2>2. Shared
      <3>1. bucket' \in [Key -> Bucket \cup {None}]
        BY <1>8 DEF Core, TypeOK, Pop, EvictOldest
      <3>2. \A k \in Key : bucket'[k] = bucket[k] \/ bucket'[k] = None
        BY <1>8 DEF Core, TypeOK, Pop, EvictOldest
      <3>3. \A k \in Key : Backed(k)'
        BY <1>8, <3>2 DEF Core, Backed, EvictOldest
      <3>4. \A k \in Key, t \in Time : served[k][t] \in 0 .. MaxServed
        BY DEF Core, TypeOK
      <3>5. \A k \in Key, t \in Time : served'[k][t] >= served[k][t]
        BY <1>8, <3>4 DEF Parameters, ConfigAssumption, EvictOldest
      <3> QED
        BY <1>8, <2>1, <3>1, <3>3, <3>5 DEF Core, TypeOK, Shared, EvictOldest
    <2> QED
      BY <1>1, <1>8, <2>2 DEF EvictOldest, Locals, Known, Thread, Label
  <1>9. CASE Admit(p)
    <2>1. Shared
      BY <1>9, SharedFrame DEF Admit
    <2> DEFINE c == Current(p)
    <2>2. /\ c.count \in 0 .. Limit /\ c.reset \in Time
          /\ c.count <= served[h[p].key][c.reset] /\ c.reset <= clock + Window
      BY <1>9, CurrentType DEF Admit
    <2>3. c.count < Limit
      BY <1>9 DEF Admit, Admits
    <2>4. h' = [h EXCEPT ![p] = [h[p] EXCEPT !.pc = "write", !.now = 0,
                                             !.count = c.count, !.reset = c.reset]]
      BY <1>1, <1>9 DEF Admit
    <2> HIDE DEF c
    <2>5. h'[p] = [h[p] EXCEPT !.pc = "write", !.now = 0, !.count = c.count, !.reset = c.reset]
      BY <1>1, <2>4
    <2>6. h'[p] \in Thread
      <3>1. 0 \in 0 .. MaxClock
        BY Numbers
      <3>2. ASSUME NEW n \in 0 .. Limit, NEW t \in Time
            PROVE  [h[p] EXCEPT !.pc = "write", !.now = 0, !.count = n, !.reset = t] \in Thread
        BY <1>1, <3>1 DEF Thread, Label
      <3> QED
        BY <2>2, <2>5, <3>2
    <2>7. h[p].key \in Key
      BY <1>1, <1>9 DEF Known, Admit
    <2>8. /\ h'[p].pc = "write" /\ h'[p].key = h[p].key /\ h'[p].now = 0
          /\ h'[p].count = c.count /\ h'[p].reset = c.reset
          /\ UNCHANGED <<clock, served>>
      BY <1>1, <1>9, <2>5 DEF Thread, Admit
    <2>9. Known(p)'
      BY <1>1, <2>2, <2>3, <2>7, <2>8, Numbers DEF Known
    <2> QED
      BY <2>1, <2>4, <2>5, <2>6, <2>9 DEF Locals
  <1>10. CASE Refuse(p)
    BY <1>10, SharedFrame, FinishLocals DEF Refuse
  <1>11. CASE Raise(p)
    BY <1>11, SharedFrame, FinishLocals DEF Raise
  <1>12. CASE Count(p)
    <2> DEFINE k == h[p].key
               t == h[p].reset
               n == h[p].count
    <2>1. /\ k \in Key /\ t \in Time /\ n \in 0 .. Limit /\ n < Limit
          /\ n <= served[k][t] /\ t <= clock + Window
      BY <1>1, <1>12 DEF Known, Count, Thread
    <2>2. bucket' = [bucket EXCEPT ![k] = [count |-> n + 1, reset |-> t]]
      BY <1>12 DEF Count
    <2>3. Record(k, t) /\ UNCHANGED <<loop, clock, evicted>> /\ Finish(p)
      BY <1>12 DEF Count
    <2> HIDE DEF k, t, n
    <2>4. n + 1 \in 1 .. Limit
      BY <2>1, Numbers
    <2>5. bucket' \in [Key -> Bucket \cup {None}]
      BY <2>1, <2>2, <2>4 DEF Core, TypeOK, Bucket
    <2>6. /\ served' \in [Key -> [Time -> 0 .. MaxServed]]
          /\ \A l \in Key, s \in Time : served'[l][s] >= served[l][s]
          /\ n + 1 <= served'[k][t]
      BY <2>1, <2>3, <2>4, Recorded DEF Core
    <2>7. ASSUME NEW l \in Key PROVE Backed(l)'
      <3>1. CASE l = k
        <4>1. bucket'[l] = [count |-> n + 1, reset |-> t]
          BY <2>1, <2>2, <3>1 DEF Core, TypeOK
        <4> QED
          BY <2>1, <2>3, <2>6, <3>1, <4>1 DEF Backed
      <3>2. CASE l # k
        <4>1. bucket'[l] = bucket[l]
          BY <2>1, <2>2, <3>2 DEF Core, TypeOK
        <4>2. Backed(l) /\ (bucket[l] = None \/ bucket[l] \in Bucket)
          BY BucketOfKey DEF Core
        <4>3. CASE bucket[l] # None
          <5>1. bucket[l].count \in 1 .. Limit /\ bucket[l].reset \in Time
            BY <4>2, <4>3 DEF Bucket
          <5>2. /\ served[l][bucket[l].reset] \in Nat
                /\ served'[l][bucket[l].reset] \in Nat
                /\ served'[l][bucket[l].reset] >= served[l][bucket[l].reset]
            <6>1. served \in [Key -> [Time -> 0 .. MaxServed]]
              BY DEF Core, TypeOK
            <6> QED
              BY <2>6, <5>1, <6>1 DEF Parameters, ConfigAssumption
          <5> QED
            BY <2>3, <4>1, <4>2, <4>3, <5>1, <5>2, Numbers DEF Backed
        <4> QED
          BY <4>1, <4>3 DEF Backed
      <3> QED
        BY <3>1, <3>2
    <2>8. Shared
      BY <2>3, <2>5, <2>6, <2>7 DEF Shared, Core, TypeOK
    <2> QED
      BY <2>3, <2>8, FinishLocals
  <1> QED
    BY <1>2, <1>3, <1>4, <1>5, <1>6, <1>7, <1>8, <1>9, <1>10, <1>11, <1>12 DEF Step

\* The other threads keep what they know.
LEMMA OthersKnow ==
  ASSUME Parameters, Core, NEW q \in Proc, h'[q] = h[q],
         served' \in [Key -> [Time -> 0 .. MaxServed]],
         \A k \in Key, t \in Time : served'[k][t] >= served[k][t],
         clock' \in Nat, clock' >= clock
  PROVE  Known(q)'
  <1>1. h[q] \in Thread /\ Known(q) /\ clock \in Nat
    BY Numbers DEF Core, TypeOK
  <1>2. h[q].now \in Nat /\ h[q].reset \in Time /\ h[q].reset \in Nat /\ h[q].count \in Nat
    BY <1>1, Numbers DEF Thread, Time
  <1>3. CASE h[q].pc = "write"
    <2>1. h[q].key \in Key
      BY <1>1, <1>3 DEF Known
    <2>2. /\ served[h[q].key][h[q].reset] \in Nat
          /\ served'[h[q].key][h[q].reset] \in Nat
          /\ served'[h[q].key][h[q].reset] >= served[h[q].key][h[q].reset]
      <3>1. served \in [Key -> [Time -> 0 .. MaxServed]]
        BY DEF Core, TypeOK
      <3> QED
        BY <1>2, <2>1, <3>1 DEF Parameters, ConfigAssumption
    <2> QED
      BY <1>1, <1>2, <1>3, <2>1, <2>2, Numbers DEF Known
  <1>4. CASE h[q].pc # "write"
    BY <1>1, <1>2, <1>4 DEF Known
  <1> QED
    BY <1>3, <1>4

LEMMA CoreInductive ==
  ASSUME Parameters
  PROVE  Core /\ [Next]_vars => Core'
  <1> SUFFICES ASSUME Core, [Next]_vars PROVE Core'
    OBVIOUS
  <1>1. ASSUME NEW p \in Proc, Step(p) \/ \E k \in Key : Check(p, k) PROVE Core'
    <2>1. Locals(p) /\ Shared
      BY <1>1, StepLocals
    <2>2. h' \in [Proc -> Thread]
      BY <2>1 DEF Locals, Core, TypeOK
    <2>3. TypeOK'
      BY <2>1, <2>2 DEF Shared, Core, TypeOK
    <2>4. ASSUME NEW q \in Proc PROVE Known(q)'
      <3>1. CASE q = p
        BY <2>1, <3>1 DEF Locals
      <3>2. CASE q # p
        <4>1. h'[q] = h[q]
          BY <2>1, <3>2 DEF Locals, Core, TypeOK
        <4>2. clock' \in Nat /\ clock' >= clock
          BY <2>1, Numbers DEF Shared, Core, TypeOK
        <4> QED
          BY <2>1, <4>1, <4>2, OthersKnow DEF Shared
      <3> QED
        BY <3>1, <3>2
    <2> QED
      BY <2>1, <2>3, <2>4 DEF Core, Shared
  <1>2. ASSUME UNCHANGED <<loop, bucket, h, served, evicted>>,
               clock' \in 0 .. MaxClock, clock' >= clock
        PROVE  Core'
    <2>1. clock \in Nat /\ clock' \in Nat
      BY <1>2, Numbers DEF Core, TypeOK
    <2>2. TypeOK'
      BY <1>2 DEF Core, TypeOK
    <2>3. \A k \in Key, t \in Time : served[k][t] \in 0 .. MaxServed
      BY DEF Core, TypeOK
    <2>4. \A k \in Key, t \in Time : served'[k][t] >= served[k][t]
      BY <1>2, <2>3 DEF Parameters, ConfigAssumption
    <2>5. \A q \in Proc : Known(q)'
      BY <1>2, <2>1, <2>2, <2>4, OthersKnow DEF TypeOK
    <2>6. ASSUME NEW k \in Key PROVE Backed(k)'
      <3>1. bucket[k] = None \/ bucket[k] \in Bucket
        BY BucketOfKey DEF Core
      <3>2. bucket[k] \in Bucket => bucket[k].reset \in Nat
        BY Numbers DEF Bucket, Time
      <3> QED
        BY <1>2, <2>1, <3>1, <3>2, Numbers DEF Core, Backed
    <2> QED
      BY <2>2, <2>5, <2>6 DEF Core
  <1>3. CASE Tick
    BY <1>2, <1>3, Numbers DEF Tick, Core, TypeOK
  <1>4. CASE UNCHANGED vars
    <2>1. clock \in 0 .. MaxClock /\ clock >= clock
      BY Numbers DEF Core, TypeOK
    <2> QED
      BY <1>2, <1>4, <2>1 DEF vars
  <1> QED
    BY <1>1, <1>3, <1>4 DEF Next

LEMMA CoreHolds ==
  ASSUME Parameters
  PROVE  Spec => []Core
  BY InitCore, CoreInductive, PTL DEF Spec

\* The type invariant.
THEOREM TypeCorrect ==
  ASSUME Parameters
  PROVE  Spec => []TypeOK
  <1>1. Core => TypeOK
    BY DEF Core
  <1> QED
    BY <1>1, CoreHolds, PTL

\* However the threads interleave, a request is refused only in a window in
\* which the limit has been admitted and which ends at most window_seconds later.
THEOREM RefusalsJustified ==
  ASSUME Parameters
  PROVE  Spec => []RefusalJustified
  <1>1. Core => RefusalJustified
    <2> SUFFICES ASSUME Core, NEW p \in Proc, h[p].pc = "read", ~Admits(Current(p).count)
                 PROVE  /\ served[h[p].key][Current(p).reset] >= Limit
                        /\ Current(p).reset <= clock + Window
      BY DEF RefusalJustified
    <2>1. /\ Current(p).count \in 0 .. Limit /\ Current(p).reset \in Time
          /\ Current(p).count <= served[h[p].key][Current(p).reset]
          /\ Current(p).reset <= clock + Window
      BY CurrentType
    <2>2. h[p].key \in Key
      BY DEF Core, Known
    <2>3. served[h[p].key][Current(p).reset] \in 0 .. MaxServed
      BY <2>1, <2>2 DEF Core, TypeOK
    <2>4. Current(p).count >= Limit
      BY <2>1, Numbers DEF Admits
    <2> QED
      BY <2>1, <2>3, <2>4, Numbers DEF Parameters, ConfigAssumption
  <1> QED
    BY <1>1, CoreHolds, PTL

-----------------------------------------------------------------------------
(* One check at a time *)

\* The windows of k end at t, in which n requests have been admitted, or before.
LastWindow(k, t, n) ==
  /\ served[k][t] = n
  /\ \A s \in Time : served[k][s] > 0 => s = t \/ s + Window <= t
OverBy(k, t) == \A s \in Time : served[k][s] > 0 => s <= t

Windows(k) ==
  /\ \A t \in Time : served[k][t] <= Limit
  /\ \A r, s \in Time : served[k][r] > 0 /\ served[k][s] > 0 /\ r < s => r + Window <= s
  /\ bucket[k] # None => LastWindow(k, bucket[k].reset, bucket[k].count)
  /\ bucket[k] = None => OverBy(k, clock)

Reading == {"clean", "scan", "sweep", "room", "oldest", "evict", "read"}

\* What the check under way knows: a key without a bucket has no window that
\* reaches beyond its clock.
Sees(p) ==
  /\ h[p].pc \in Reading =>
       \A k \in Key \ evicted : bucket[k] = None => OverBy(k, h[p].now)
  /\ h[p].pc = "sweep" =>
       \A k \in h[p].gone : bucket[k] # None /\ bucket[k].reset <= h[p].now
  /\ h[p].pc = "write" /\ h[p].key \notin evicted =>
       LastWindow(h[p].key, h[p].reset, h[p].count)

Serial ==
  loop =>
    /\ \A p, q \in Proc : h[p].pc # "idle" /\ h[q].pc # "idle" => p = q
    /\ \A k \in Key \ evicted : Windows(k)
    /\ \A p \in Proc : Sees(p)

LEMMA InitSerial ==
  ASSUME Parameters
  PROVE  Init => Serial
  <1> SUFFICES ASSUME Init PROVE Serial
    OBVIOUS
  <1>1. \A p \in Proc : h[p].pc = "idle"
    BY DEF Init, Idle
  <1>2. \A k \in Key, t \in Time : served[k][t] = 0
    BY DEF Init
  <1>3. ASSUME NEW k \in Key PROVE Windows(k)
    BY <1>2, Numbers DEF Init, Windows, OverBy
  <1> QED
    BY <1>1, <1>3 DEF Serial, Sees, Reading

LEMMA ServedIsNat ==
  ASSUME Parameters, TypeOK, NEW k \in Key, NEW t \in Time
  PROVE  served[k][t] \in Nat
  BY DEF Parameters, ConfigAssumption, TypeOK

LEMMA TimeIsNat ==
  ASSUME Parameters
  PROVE  \A t \in Time : t \in Nat
  BY Numbers DEF Time

\* A bucket whose window has ended by t may go.
LEMMA OverWhenExpired ==
  ASSUME Parameters, TypeOK, NEW k \in Key, Windows(k), bucket[k] # None,
         NEW t \in Nat, bucket[k].reset <= t
  PROVE  OverBy(k, t)
  <1>1. bucket[k].reset \in Nat
    BY BucketOfKey, TimeIsNat DEF Bucket
  <1> SUFFICES ASSUME NEW s \in Time, served[k][s] > 0 PROVE s <= t
    BY DEF OverBy
  <1>2. s \in Nat /\ (s = bucket[k].reset \/ s + Window <= bucket[k].reset)
    BY TimeIsNat DEF Windows, LastWindow
  <1> QED
    BY <1>1, <1>2, Numbers

\* While no request is counted, the windows of the keys that keep their bucket
\* stay as they are.
LEMMA WindowsStay ==
  ASSUME Parameters, NEW k \in Key, Windows(k), UNCHANGED <<served, clock>>,
         bucket'[k] = bucket[k]
  PROVE  Windows(k)'
  BY DEF Windows, LastWindow, OverBy

LEMMA AdmitSerial ==
  ASSUME Parameters, Core, NEW p \in Proc, Admit(p), Sees(p), \A k \in Key \ evicted : Windows(k)
  PROVE  Sees(p)'
  <1> DEFINE k == h[p].key
             c == Current(p)
  <1>1. h[p] \in Thread /\ k \in Key /\ h[p].now \in Nat /\ k \in Key /\ h[p].pc = "read"
    BY Numbers DEF Core, TypeOK, Known, Thread, Admit
  <1>2. /\ h'[p].pc = "write" /\ h'[p].key = k /\ h'[p].count = c.count
        /\ h'[p].reset = c.reset /\ UNCHANGED <<served, evicted>>
    BY DEF Core, TypeOK, Thread, Admit
  <1>3. c.reset \in Time /\ c.reset \in Nat
    BY <1>1, CurrentType, TimeIsNat
  <1>4. ASSUME k \notin evicted PROVE LastWindow(k, c.reset, c.count)
    <2>1. Windows(k)
      BY <1>1, <1>4
    <2>2. CASE bucket[k] # None /\ h[p].now < bucket[k].reset
      BY <2>1, <2>2 DEF Current, Windows
    <2>3. CASE ~(bucket[k] # None /\ h[p].now < bucket[k].reset)
      <3>1. c = [count |-> 0, reset |-> h[p].now + Window]
        BY <2>3 DEF Current
      <3>2. OverBy(k, h[p].now)
        <4>1. CASE bucket[k] = None
          BY <1>1, <1>4, <4>1 DEF Sees, Reading
        <4>2. CASE bucket[k] # None
          <5>1. bucket[k].reset \in Nat
            BY <1>1, <4>2, BucketOfKey, TimeIsNat DEF Core, Bucket
          <5>2. bucket[k].reset <= h[p].now
            BY <1>1, <2>3, <4>2, <5>1
          <5> QED
            BY <1>1, <2>1, <4>2, <5>2, OverWhenExpired DEF Core
        <4> QED
          BY <4>1, <4>2
      <3>3. \A s \in Time : served[k][s] > 0 => s + Window <= c.reset
        BY <1>1, <3>1, <3>2, TimeIsNat, Numbers DEF OverBy
      <3>4. served[k][c.reset] = 0
        BY <1>1, <1>3, <3>3, ServedIsNat, Numbers DEF Core
      <3> QED
        BY <3>1, <3>3, <3>4 DEF LastWindow
    <2> QED
      BY <2>2, <2>3
  <1> QED
    BY <1>2, <1>4 DEF Sees, Reading, LastWindow

LEMMA CountSerial ==
  ASSUME Parameters, Core, NEW p \in Proc, Count(p), Sees(p), NEW k \in Key \ evicted, Windows(k)
  PROVE  Windows(k)'
  <1> DEFINE t == h[p].reset
             n == h[p].count
  <1>1. /\ h[p].key \in Key /\ t \in Time /\ n \in 0 .. Limit /\ n < Limit
        /\ h[p].pc = "write"
    BY DEF Core, TypeOK, Known, Thread, Count
  <1>2. Record(h[p].key, t) /\ UNCHANGED <<clock, evicted>>
    BY DEF Count
  <1>3. CASE k # h[p].key
    <2>1. bucket'[k] = bucket[k]
      BY <1>3 DEF Core, TypeOK, Count
    <2>2. \A s \in Time : served'[k][s] = served[k][s]
      BY <1>1, <1>2, <1>3, Recorded DEF Core
    <2>3. bucket[k] # None => bucket[k].reset \in Time
      BY BucketOfKey DEF Core, Bucket
    <2> QED
      BY <1>2, <2>1, <2>2, <2>3 DEF Windows, LastWindow, OverBy
  <1>4. CASE k = h[p].key
    <2>1. LastWindow(k, t, n)
      BY <1>1, <1>4 DEF Sees
    <2>2. bucket'[k] = [count |-> n + 1, reset |-> t] /\ bucket'[k] # None
      <3>1. bucket'[k] = [count |-> n + 1, reset |-> t]
        BY <1>1, <1>4 DEF Core, TypeOK, Count
      <3>2. bucket'[k] \in Bucket
        BY <1>1, <3>1, Numbers DEF Bucket
      <3> QED
        BY <3>1, <3>2 DEF Parameters, SentinelAssumption
    <2>3. \A s \in Time : s # t => served'[k][s] = served[k][s]
      BY <1>1, <1>2, <1>4, Recorded DEF Core
    <2>4. served'[k][t] = n + 1
      <3>1. served[k][t] = n /\ n < MaxServed
        BY <1>1, <2>1, Numbers DEF Parameters, ConfigAssumption, LastWindow
      <3> QED
        BY <1>1, <1>2, <1>4, <3>1, Recorded DEF Core
    <2>5. \A s \in Time : served'[k][s] <= Limit
      BY <1>1, <2>3, <2>4, Numbers DEF Windows
    <2>6. \A s \in Time : served'[k][s] > 0 => s = t \/ s + Window <= t
      BY <2>1, <2>3 DEF LastWindow
    <2>7. \A r, s \in Time :
            served'[k][r] > 0 /\ served'[k][s] > 0 /\ r < s => r + Window <= s
      <3> SUFFICES ASSUME NEW r \in Time, NEW s \in Time, r < s,
                          served'[k][r] > 0, served'[k][s] > 0
                   PROVE  r + Window <= s
        OBVIOUS
      <3>1. r \in Nat /\ s \in Nat /\ t \in Nat
        BY <1>1, TimeIsNat
      <3>2. CASE s = t
        BY <2>6, <3>1, <3>2
      <3>3. CASE s # t
        <4>1. s + Window <= t
          BY <2>6, <3>3
        <4>2. r # t
          BY <3>1, <4>1, Numbers
        <4> QED
          BY <2>3, <3>3, <4>2 DEF Windows
      <3> QED
        BY <3>2, <3>3
    <2> QED
      BY <2>2, <2>4, <2>5, <2>6, <2>7 DEF Windows, LastWindow
  <1> QED
    BY <1>3, <1>4

LEMMA SerialStep ==
  ASSUME Parameters, Core, Serial, loop, NEW p \in Proc, Step(p) \/ \E k \in Key : Check(p, k)
  PROVE  Serial'
  <1>1. Locals(p) /\ Shared /\ h[p] \in Thread /\ h \in [Proc -> Thread]
    BY StepLocals DEF Core, TypeOK
  <1>2. /\ \A k \in Key \ evicted : Windows(k)
        /\ \A q \in Proc : Sees(q)
        /\ \A q \in Proc : q # p => h[q].pc = "idle"
    <2>1. \A q \in Proc : q # p => h[q].pc = "idle"
      <3>1. CASE Step(p)
        <4>1. h[p].pc # "idle"
          BY <3>1 DEF Step, BeginCleanup, CollectExpired, PopExpired, MakeRoom,
                      FindOldest, EvictOldest, Admit, Refuse, Count, Raise
        <4> QED
          BY <4>1 DEF Serial
      <3>2. CASE \E k \in Key : Check(p, k)
        BY <3>2 DEF Check
      <3> QED
        BY <3>1, <3>2
    <2> QED
      BY <2>1 DEF Serial
  <1>3. \A q \in Proc : q # p => h'[q] = h[q]
    BY <1>1 DEF Locals
  <1>4. ASSUME \A k \in Key \ evicted' : Windows(k)', Sees(p)' PROVE Serial'
    <2>1. ASSUME NEW q \in Proc, q # p PROVE Sees(q)' /\ h'[q].pc = "idle"
      BY <1>2, <1>3, <2>1 DEF Sees, Reading
    <2> QED
      BY <1>4, <2>1 DEF Serial
  <1>5. ASSUME UNCHANGED <<clock, bucket, served, evicted>>
        PROVE  \A k \in Key \ evicted' : Windows(k)'
    BY <1>2, <1>5, WindowsStay
  <1>6. ASSUME UNCHANGED <<bucket, served, evicted>>, h'[p].now = h[p].now,
               h[p].pc \in Reading, h'[p].pc \in Reading \ {"sweep"}
        PROVE  Sees(p)'
    BY <1>2, <1>6 DEF Sees, Reading, OverBy
  <1>7. ASSUME NEW k \in Key, Check(p, k) PROVE Serial'
    <2>1. UNCHANGED <<clock, bucket, served, evicted>> /\ h'[p].pc = "clean" /\ h'[p].now = clock
      BY <1>1, <1>7 DEF Check, Idle
    <2>2. Sees(p)'
      BY <1>2, <2>1 DEF Sees, Windows, OverBy
    <2> QED
      BY <1>4, <1>5, <2>1, <2>2
  <1>8. CASE BeginCleanup(p)
    <2>1. /\ UNCHANGED <<clock, bucket, served, evicted>> /\ h'[p].now = h[p].now
          /\ h[p].pc \in Reading /\ h'[p].pc \in Reading \ {"sweep"}
      BY <1>1, <1>8 DEF BeginCleanup, Reading, Thread
    <2> QED
      BY <1>4, <1>5, <1>6, <2>1
  <1>9. CASE CollectExpired(p)
    <2>1. /\ UNCHANGED <<clock, bucket, served, evicted>> /\ h'[p].now = h[p].now
          /\ h[p].pc = "scan" /\ h'[p].pc \in {"room", "sweep"}
          /\ h'[p].gone = {k \in Stored : h[p].now >= bucket[k].reset}
      BY <1>1, <1>9 DEF CollectExpired, Thread
    <2>2. \A k \in h'[p].gone : bucket[k] # None /\ bucket[k].reset <= h[p].now
      <3> SUFFICES ASSUME NEW k \in Stored, h[p].now >= bucket[k].reset
                   PROVE  bucket[k] # None /\ bucket[k].reset <= h[p].now
        BY <2>1
      <3>1. k \in Key /\ bucket[k] # None
        BY DEF Stored
      <3>2. bucket[k].reset \in Nat /\ h[p].now \in Nat
        BY <1>1, <3>1, BucketOfKey, TimeIsNat, Numbers DEF Core, Bucket, Thread
      <3> QED
        BY <3>1, <3>2
    <2>3. Sees(p)'
      BY <1>2, <2>1, <2>2 DEF Sees, Reading, OverBy
    <2> QED
      BY <1>4, <1>5, <2>1, <2>3
  <1>10. CASE PopExpired(p)
    <2> PICK g \in h[p].gone :
          /\ Pop(g)
          /\ h' = [h EXCEPT ![p].gone = @ \ {g},
                            ![p].pc = IF h[p].gone = {g} THEN "room" ELSE "sweep"]
      BY <1>10 DEF PopExpired
    <2>1. /\ UNCHANGED <<clock, served, evicted>> /\ h'[p].now = h[p].now
          /\ h[p].pc = "sweep" /\ h'[p].pc \in {"room", "sweep"}
          /\ h'[p].gone = h[p].gone \ {g}
      BY <1>1, <1>10 DEF PopExpired, Thread
    <2>2. h[p].gone \subseteq Key /\ g \in Key /\ h[p].now \in Nat /\ clock \in Nat /\ h[p].now <= clock
      BY <1>1, Numbers DEF Thread, Core, TypeOK, Known
    <2>3. bucket[g] # None /\ bucket[g].reset <= h[p].now
      BY <1>2, <2>1 DEF Sees
    <2>4. bucket'[g] = None /\ \A k \in Key : k # g => bucket'[k] = bucket[k]
      BY <2>2 DEF Pop, Core, TypeOK
    <2>5. g \notin evicted => OverBy(g, h[p].now) /\ OverBy(g, clock)
      <3>1. g \notin evicted => OverBy(g, h[p].now)
        BY <1>2, <2>2, <2>3, OverWhenExpired DEF Core
      <3> QED
        BY <2>2, <3>1, TimeIsNat DEF OverBy
    <2>6. ASSUME NEW k \in Key \ evicted' PROVE Windows(k)'
      <3>1. CASE k = g
        BY <1>2, <2>1, <2>4, <2>5, <3>1 DEF Windows, OverBy
      <3>2. CASE k # g
        BY <1>2, <2>1, <2>4, <3>2, WindowsStay
      <3> QED
        BY <3>1, <3>2
    <2>7. \A k \in Key \ evicted : bucket'[k] = None => OverBy(k, h[p].now)
      BY <1>2, <2>1, <2>4, <2>5 DEF Sees, Reading
    <2>8. Sees(p)'
      BY <1>2, <2>1, <2>2, <2>4, <2>7 DEF Sees, OverBy
    <2> QED
      BY <1>4, <2>6, <2>8
  <1>11. CASE MakeRoom(p)
    <2>1. /\ UNCHANGED <<clock, bucket, served, evicted>> /\ h'[p].now = h[p].now
          /\ h[p].pc \in Reading /\ h'[p].pc \in Reading \ {"sweep"}
      BY <1>1, <1>11 DEF MakeRoom, Reading, Thread
    <2> QED
      BY <1>4, <1>5, <1>6, <2>1
  <1>12. CASE FindOldest(p)
    <2>1. /\ UNCHANGED <<clock, bucket, served, evicted>> /\ h'[p].now = h[p].now
          /\ h[p].pc \in Reading /\ h'[p].pc \in Reading \ {"sweep"}
      BY <1>1, <1>12 DEF FindOldest, Reading, Thread
    <2> QED
      BY <1>4, <1>5, <1>6, <2>1
  <1>13. CASE EvictOldest(p)
    <2>1. /\ UNCHANGED <<clock, served>> /\ evicted' = evicted \cup {h[p].victim}
          /\ h[p].pc = "evict" /\ h'[p].pc = "read" /\ h'[p].now = h[p].now
      BY <1>1, <1>13 DEF EvictOldest, Thread
    <2>2. \A k \in Key \ evicted' : k \in Key \ evicted /\ bucket'[k] = bucket[k]
      BY <1>13, <2>1 DEF EvictOldest, Pop, Core, TypeOK
    <2>3. \A k \in Key \ evicted' : Windows(k)'
      BY <1>2, <2>1, <2>2, WindowsStay
    <2>4. Sees(p)'
      BY <1>2, <2>1, <2>2 DEF Sees, Reading, OverBy
    <2> QED
      BY <1>4, <2>3, <2>4
  <1>14. CASE Admit(p)
    BY <1>2, <1>4, <1>5, <1>14, AdmitSerial DEF Admit
  <1>15. CASE Count(p)
    <2>1. h'[p].pc = "idle" /\ evicted' = evicted
      BY <1>1, <1>15 DEF Count, Finish, Idle
    <2>2. Sees(p)'
      BY <2>1 DEF Sees, Reading
    <2> QED
      BY <1>2, <1>4, <1>15, <2>1, <2>2, CountSerial
  <1>16. CASE Refuse(p) \/ Raise(p)
    <2>1. h'[p].pc = "idle" /\ UNCHANGED <<clock, bucket, served, evicted>>
      <3>1. Finish(p) /\ UNCHANGED <<clock, bucket, served, evicted>>
        BY <1>16 DEF Refuse, Raise
      <3> QED
        BY <1>1, <3>1 DEF Finish, Idle
    <2>2. Sees(p)'
      BY <2>1 DEF Sees, Reading
    <2> QED
      BY <1>4, <1>5, <2>1, <2>2
  <1> QED
    BY <1>7, <1>8, <1>9, <1>10, <1>11, <1>12, <1>13, <1>14, <1>15, <1>16 DEF Step

LEMMA SerialInductive ==
  ASSUME Parameters
  PROVE  Core /\ Serial /\ [Next]_vars => Serial'
  <1> SUFFICES ASSUME Core, Serial, [Next]_vars PROVE Serial'
    OBVIOUS
  <1>1. CASE ~loop
    <2>1. loop' = loop
      <3>1. ASSUME NEW p \in Proc, Step(p) \/ \E k \in Key : Check(p, k) PROVE loop' = loop
        BY <3>1, StepLocals DEF Shared
      <3> QED
        BY <3>1 DEF Next, Tick, vars
    <2> QED
      BY <1>1, <2>1 DEF Serial
  <1>2. CASE loop
    <2>1. ASSUME NEW p \in Proc, Step(p) \/ \E k \in Key : Check(p, k) PROVE Serial'
      BY <1>2, <2>1, SerialStep
    <2>2. CASE Tick
      <3>1. /\ UNCHANGED <<loop, bucket, h, served, evicted>>
            /\ clock \in Nat /\ clock' \in Nat /\ clock <= clock'
        BY <2>2, Numbers DEF Tick, Core, TypeOK
      <3>2. ASSUME NEW k \in Key \ evicted PROVE Windows(k)'
        <4>1. Windows(k)
          BY <1>2 DEF Serial
        <4>2. bucket[k] = None => \A s \in Time : served[k][s] > 0 => s <= clock'
          BY <3>1, <4>1, TimeIsNat DEF Windows, OverBy
        <4> QED
          BY <3>1, <4>1, <4>2 DEF Windows, LastWindow, OverBy
      <3>3. ASSUME NEW p \in Proc PROVE Sees(p)'
        BY <1>2, <3>1 DEF Serial, Sees, OverBy, LastWindow
      <3> QED
        BY <1>2, <3>1, <3>2, <3>3 DEF Serial
    <2>3. CASE UNCHANGED vars
      BY <1>2, <2>3 DEF vars, Serial, Windows, Sees, LastWindow, OverBy
    <2> QED
      BY <2>1, <2>2, <2>3 DEF Next
  <1> QED
    BY <1>1, <1>2

\* On an event loop a key whose bucket stays is never admitted more often than
\* the limit in a window, and its windows do not overlap.
THEOREM LimitKept ==
  ASSUME Parameters
  PROVE  Spec => []AtMostLimit
  <1>1. Serial => AtMostLimit
    BY DEF Serial, Windows, AtMostLimit
  <1> QED
    BY <1>1, InitSerial, CoreHolds, SerialInductive, PTL DEF Spec

\* There is room for the bucket the check under way may add.
Fits ==
  loop =>
    /\ Size <= MaxBuckets
    /\ \A p \in Proc :
         /\ h[p].pc \in {"read", "write"} /\ h[p].key \notin Stored => Size < MaxBuckets
         /\ h[p].pc = "evict" => h[p].victim \in Stored

LEMMA StoredIsFinite ==
  ASSUME Parameters
  PROVE  IsFiniteSet(Stored) /\ IsFiniteSet(Stored')
  BY FS_Subset DEF Parameters, ConfigAssumption, Stored

LEMMA SizesAreNat ==
  ASSUME Parameters
  PROVE  Size \in Nat /\ Size' \in Nat /\ MaxBuckets \in Nat
  BY StoredIsFinite, FS_CardinalityType DEF Parameters, ConfigAssumption, Size

LEMMA FitsStep ==
  ASSUME Parameters, Core, Serial, Fits, loop, NEW p \in Proc,
         Step(p) \/ \E k \in Key : Check(p, k)
  PROVE  Fits'
  <1>1. Locals(p) /\ h[p] \in Thread /\ h \in [Proc -> Thread] /\ Known(p)
    BY StepLocals DEF Core, TypeOK
  <1>2. \A q \in Proc : q # p => h'[q] = h[q] /\ h[q].pc = "idle"
    <2>1. \A q \in Proc : q # p => h[q].pc = "idle"
      <3>1. CASE Step(p)
        <4>1. h[p].pc # "idle"
          BY <3>1 DEF Step, BeginCleanup, CollectExpired, PopExpired, MakeRoom,
                      FindOldest, EvictOldest, Admit, Refuse, Count, Raise
        <4> QED
          BY <4>1 DEF Serial
      <3>2. CASE \E k \in Key : Check(p, k)
        BY <3>2 DEF Check
      <3> QED
        BY <3>1, <3>2
    <2> QED
      BY <1>1, <2>1 DEF Locals
  <1>3. ASSUME Size' <= MaxBuckets,
               h'[p].pc \in {"read", "write"} /\ h'[p].key \notin Stored' => Size' < MaxBuckets,
               h'[p].pc = "evict" => h'[p].victim \in Stored'
        PROVE  Fits'
    BY <1>2, <1>3 DEF Fits
  <1>4. bucket' = bucket => Stored' = Stored /\ Size' = Size
    BY DEF Stored, Size
  <1>5. ASSUME bucket' = bucket, h'[p].pc \notin {"read", "write", "evict"} PROVE Fits'
    BY <1>3, <1>4, <1>5 DEF Fits
  <1>6. ASSUME NEW g \in Key, Pop(g)
        PROVE  /\ Stored' = Stored \ {g} /\ Size' <= Size
               /\ g \in Stored => Size' = Size - 1
    <2>1. Stored' = Stored \ {g}
      BY <1>6 DEF Stored, Pop, Core, TypeOK
    <2> QED
      BY <2>1, StoredIsFinite, FS_RemoveElement, SizesAreNat DEF Size
  <1>7. CASE \E k \in Key : Check(p, k)
    <2>1. bucket' = bucket /\ h'[p].pc = "clean"
      BY <1>1, <1>7 DEF Check, Idle
    <2> QED
      BY <1>5, <2>1
  <1>8. CASE BeginCleanup(p)
    <2>1. bucket' = bucket /\ h'[p].pc = "scan"
      BY <1>1, <1>8 DEF BeginCleanup, Thread
    <2> QED
      BY <1>5, <2>1
  <1>9. CASE CollectExpired(p)
    <2>1. bucket' = bucket /\ h'[p].pc \in {"room", "sweep"}
      BY <1>1, <1>9 DEF CollectExpired, Thread
    <2> QED
      BY <1>5, <2>1
  <1>10. CASE PopExpired(p)
    <2> PICK g \in h[p].gone :
          /\ Pop(g)
          /\ h' = [h EXCEPT ![p].gone = @ \ {g},
                            ![p].pc = IF h[p].gone = {g} THEN "room" ELSE "sweep"]
      BY <1>10 DEF PopExpired
    <2>1. g \in Key /\ h'[p].pc \in {"room", "sweep"}
      BY <1>1 DEF Thread
    <2>2. Size' <= Size /\ Size <= MaxBuckets
      BY <1>6, <2>1 DEF Fits
    <2>3. Size' <= MaxBuckets
      BY <2>2, SizesAreNat
    <2> QED
      BY <1>3, <2>1, <2>3
  <1>11. CASE MakeRoom(p)
    <2>1. /\ bucket' = bucket /\ h'[p].key = h[p].key /\ h'[p].pc \in {"oldest", "read"}
          /\ h'[p].pc = "read" => h[p].key \in Stored \/ ~Full
      BY <1>1, <1>11 DEF MakeRoom, Thread
    <2>2. h'[p].pc = "read" /\ h'[p].key \notin Stored' => Size' < MaxBuckets
      BY <1>4, <2>1, SizesAreNat DEF Full
    <2> QED
      BY <1>3, <1>4, <2>1, <2>2 DEF Fits
  <1>12. CASE FindOldest(p)
    <2>1. bucket' = bucket /\ h'[p].pc = "evict" /\ h'[p].victim \in Stored
      BY <1>1, <1>12 DEF FindOldest, Thread
    <2> QED
      BY <1>3, <1>4, <2>1 DEF Fits
  <1>13. CASE EvictOldest(p)
    <2>1. /\ Pop(h[p].victim) /\ h[p].victim \in Key /\ h[p].victim \in Stored
          /\ h'[p].pc = "read"
      BY <1>1, <1>13 DEF EvictOldest, Thread, Known, Fits
    <2>2. Size' = Size - 1
      BY <1>6, <2>1
    <2> QED
      BY <1>3, <2>1, <2>2, SizesAreNat DEF Fits
  <1>14. CASE Admit(p)
    <2>1. /\ bucket' = bucket /\ h'[p].pc = "write" /\ h'[p].key = h[p].key
          /\ h[p].pc = "read"
      BY <1>1, <1>14 DEF Admit, Thread
    <2> QED
      BY <1>3, <1>4, <2>1 DEF Fits
  <1>15. CASE Count(p)
    <2>1. /\ h[p].key \in Key /\ h[p].pc = "write" /\ h'[p].pc = "idle"
      BY <1>1, <1>15 DEF Count, Known, Finish, Idle
    <2>2. Stored' = Stored \cup {h[p].key}
      <3>1. [count |-> h[p].count + 1, reset |-> h[p].reset] \in Bucket
        BY <1>1, <2>1, Numbers DEF Known, Thread, Bucket
      <3>2. [count |-> h[p].count + 1, reset |-> h[p].reset] # None
        BY <3>1 DEF Parameters, SentinelAssumption
      <3> QED
        BY <1>15, <2>1, <3>2 DEF Stored, Count, Core, TypeOK
    <2>3. Size' = IF h[p].key \in Stored THEN Size ELSE Size + 1
      BY <2>2, StoredIsFinite, FS_AddElement DEF Size
    <2>4. Size' <= MaxBuckets
      BY <2>1, <2>3, SizesAreNat DEF Fits
    <2> QED
      BY <1>3, <2>1, <2>4
  <1>16. CASE Refuse(p) \/ Raise(p)
    <2>1. bucket' = bucket /\ Finish(p)
      BY <1>16 DEF Refuse, Raise
    <2>2. h'[p].pc = "idle"
      BY <1>1, <2>1 DEF Finish, Idle
    <2> QED
      BY <1>5, <2>1, <2>2
  <1> QED
    BY <1>7, <1>8, <1>9, <1>10, <1>11, <1>12, <1>13, <1>14, <1>15, <1>16 DEF Step

\* On an event loop there are never more than max_buckets buckets.
THEOREM MemoryStaysBounded ==
  ASSUME Parameters
  PROVE  Spec => []MemoryBounded
  <1>1. Init => Fits
    <2> SUFFICES ASSUME Init PROVE Fits
      OBVIOUS
    <2>1. Stored = {} /\ \A p \in Proc : h[p].pc = "idle"
      BY DEF Init, Stored, Idle
    <2> QED
      BY <2>1, FS_EmptySet DEF Parameters, ConfigAssumption, Fits, Size
  <1>2. Core /\ Serial /\ Fits /\ [Next]_vars => Fits'
    <2> SUFFICES ASSUME Core, Serial, Fits, [Next]_vars PROVE Fits'
      OBVIOUS
    <2>1. ASSUME NEW p \in Proc, Step(p) \/ \E k \in Key : Check(p, k) PROVE Fits'
      <3>1. loop' = loop
        BY <2>1, StepLocals DEF Shared
      <3> QED
        BY <2>1, <3>1, FitsStep DEF Fits
    <2>2. CASE UNCHANGED <<loop, bucket, h>>
      BY <2>2 DEF Fits, Size, Stored
    <2> QED
      BY <2>1, <2>2 DEF Next, Tick, vars
  <1>3. Fits => MemoryBounded
    BY DEF Fits, MemoryBounded
  <1> QED
    BY <1>1, <1>2, <1>3, InitSerial, CoreHolds, SerialInductive, PTL DEF Spec
=============================================================================
