------------------------------- MODULE Browser -------------------------------
(***************************************************************************)
(* What comes in from browsers: the callbacks of a social login, the       *)
(* cookies and tokens of a browser's tabs, the social logins of its tabs,  *)
(* and the rate limiter that counts them all, on an event loop or in       *)
(* threads.  None of the models reads what another one writes, so a        *)
(* behaviour is about one of them.                                         *)
(***************************************************************************)
EXTENDS Social

CONSTANTS
  Token, Sid,             \* Csrf: the tokens, and the sessions of a user
  Attempt, WithIssuer,    \* Tabs: the attempts, and those at an OpenID provider
  Key, Limit, MaxBuckets, MaxServed,   \* RateLimit, as there
  LoopWindow, LoopTime,                \* its window and bound on an event loop
  ThreadWindow, ThreadTime             \* and in threads

VARIABLES
  part,                 \* what the behaviour is about
  jar, held, signed, sess, active, fh, bare, mixed,
  tab, cookie, tflow, code, th, logins, refused, disturbed,
  loop, clock, bucket, lh, served, evicted

Forms == INSTANCE Csrf WITH h <- fh
fvars == <<jar, held, signed, sess, active, fh, bare, mixed>>

Logins == INSTANCE Tabs WITH flow <- tflow, h <- th
tvars == <<tab, cookie, tflow, code, th, logins, refused, disturbed>>

Loop == INSTANCE RateLimit WITH
  h <- lh, Window <- LoopWindow, MaxClock <- LoopTime
Threads == INSTANCE RateLimit WITH
  h <- lh, Window <- ThreadWindow, MaxClock <- ThreadTime
lvars == <<loop, clock, bucket, lh, served, evicted>>

ASSUME InstanceAssumption ==
  /\ Forms!SentinelAssumption /\ Logins!AttemptAssumption
  /\ Loop!ConfigAssumption /\ Loop!SentinelAssumption
  /\ Threads!ConfigAssumption /\ Threads!SentinelAssumption

BrowserInit ==
  /\ part \in {"callbacks", "forms", "logins", "loop", "threads"}
  /\ Init /\ Forms!Init /\ Logins!Init
  /\ CASE part = "loop"    -> Loop!Init /\ loop
       [] part = "threads" -> Threads!Init /\ ~loop
       [] OTHER -> /\ loop = None /\ clock = None /\ bucket = None
                    /\ lh = None /\ served = None /\ evicted = None
BrowserNext ==
  \/ part = "callbacks" /\ Next         /\ UNCHANGED <<part, fvars, tvars, lvars>>
  \/ part = "forms"     /\ Forms!Next   /\ UNCHANGED <<part, vars, tvars, lvars>>
  \/ part = "logins"    /\ Logins!Next  /\ UNCHANGED <<part, vars, fvars, lvars>>
  \/ part = "loop"      /\ Loop!Next    /\ UNCHANGED <<part, vars, fvars, tvars>>
  \/ part = "threads"   /\ Threads!Next /\ UNCHANGED <<part, vars, fvars, tvars>>
BrowserSpec == BrowserInit /\ [][BrowserNext]_<<part, vars, fvars, tvars, lvars>>

\* What is done through the JSON routes was asked for by a tab that had a token of
\* that session, and the forms of several tabs do not disturb each other.
TokensFit == Forms!ActsAreBound /\ Forms!FormsAccepted

\* The social logins of the tabs give one session each, and disturb only those at
\* the same provider.
TabsServe == Logins!OthersAlone

\* On an event loop a window admits no more than the limit, and there are no more
\* buckets than max_buckets.
LimiterKept == part = "loop" => Loop!AtMostLimit /\ Loop!MemoryBounded

\* Threads that lose each other's updates still refuse nobody before the limit.
RefusalsFollowLimit == part = "threads" => Threads!RefusalJustified
=============================================================================
