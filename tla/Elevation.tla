------------------------------ MODULE Elevation ------------------------------
(***************************************************************************)
(* Sessions and what an action may ask for beyond one, a part of it in     *)
(* each behaviour, chosen at the start: the sessions themselves, second    *)
(* factors (with TOTP codes, or with recovery codes), passkeys,            *)
(* permissions on a resource; and the store in memory under them.          *)
(***************************************************************************)
EXTENDS Mfa

CONSTANTS
  Recovery,                           \* codes: the recovery codes
  Several,                            \* codes, memory, keys: the sessions, or challenges
  Live, User, Ops, Ttl, IdleTtl, TouchInterval, MaxTime,
                                      \* sessions: as in Sessions
  Flow, Email,                        \* memory: as in MemoryStore
  Resource, Action, Scope, Malformed, \* grants: as in Permissions
  Device, Origin, RpId, LocalHost, MaxCount, MaxMade   \* keys: as in Passkey

VARIABLES
  part,
  cclock, cfactor, cvault, crecovery, crevoked, caal2, cenrolled, caccepted, csetback, ch,
  sclock, sactive, sess, suse, sdoomed, spc, sop, sid, scopy, snow,
  mloop, mexpired, msessions, mflows, mbyHash, musers, mbyEmail, mlock, mh, mhanded,
  ask, decision,
  korigin, krp, kverification, kforgets, kchallenge, kpasskey, kcounter, kmade,
  kaccepted, kagain

Codes == INSTANCE Mfa WITH
  Session <- Several, RecoveryCode <- Recovery, MaxClock <- 0,
  clock <- cclock, factor <- cfactor, vault <- cvault, recovery <- crecovery,
  revoked <- crevoked, aal2 <- caal2, enrolled <- cenrolled, accepted <- caccepted,
  setback <- csetback, h <- ch
cvars == <<cclock, cfactor, cvault, crecovery, crevoked, caal2, cenrolled, caccepted,
           csetback, ch>>

Rows == INSTANCE Sessions WITH
  Session <- Live, NoSession <- None, MaxClock <- MaxTime,
  clock <- sclock, active <- sactive, lastUse <- suse, doomed <- sdoomed,
  pc <- spc, op <- sop, copy <- scopy, now <- snow
svars == <<sclock, sactive, sess, suse, sdoomed, spc, sop, sid, scopy, snow>>

Memory == INSTANCE MemoryStore WITH
  Thread <- Proc, Session <- Several,
  loop <- mloop, expired <- mexpired, sessions <- msessions, flows <- mflows,
  byHash <- mbyHash, users <- musers, byEmail <- mbyEmail, lock <- mlock, h <- mh,
  handed <- mhanded
mvars == <<mloop, mexpired, msessions, mflows, mbyHash, musers, mbyEmail, mlock, mh, mhanded>>

Grants == INSTANCE Permissions
gvars == <<ask, decision>>

Keys == INSTANCE Passkey WITH
  Challenge <- Several,
  origin <- korigin, rp <- krp, verification <- kverification, forgets <- kforgets,
  challenge <- kchallenge, passkey <- kpasskey, counter <- kcounter, made <- kmade,
  accepted <- kaccepted, again <- kagain
kvars == <<korigin, krp, kverification, kforgets, kchallenge, kpasskey, kcounter, kmade,
           kaccepted, kagain>>

ASSUME InstanceAssumption ==
  /\ None \notin Recovery /\ Codes!Totp \cap Recovery = {}
  /\ Rows!ConfigAssumption /\ Rows!SentinelAssumption
  /\ Memory!SentinelAssumption /\ Grants!NamesAssumption /\ Keys!OriginAssumption
  /\ MaxCount \in Nat /\ MaxMade \in Nat /\ None \notin Nat

\* The inputs of a part that is not in play are of no interest.
ElevationInit ==
  /\ Init /\ Memory!Init
  /\ part \in {"mfa", "codes", "sessions", "memory", "grants", "keys"}
  /\ part # "memory" => mloop
  /\ IF part = "codes" THEN Codes!Init
     ELSE /\ cclock = None /\ cfactor = None /\ cvault = None /\ crecovery = None
          /\ crevoked = None /\ caal2 = None /\ cenrolled = None /\ caccepted = None
          /\ csetback = None /\ ch = None
  /\ IF part = "sessions" THEN Rows!Init
     ELSE /\ sclock = None /\ sactive = None /\ sess = None /\ suse = None
          /\ sdoomed = None /\ spc = None /\ sop = None /\ sid = None /\ scopy = None
          /\ snow = None
  /\ IF part = "grants" THEN Grants!Init ELSE ask = None /\ decision = None
  /\ IF part = "keys" THEN Keys!Init
     ELSE /\ korigin = None /\ krp = None /\ kverification = None /\ kforgets = None
          /\ kchallenge = None /\ kpasskey = None /\ kcounter = None /\ kmade = None
          /\ kaccepted = {} /\ kagain = {}

ElevationNext ==
  \/ part = "mfa"      /\ Next        /\ UNCHANGED <<part, cvars, svars, mvars, gvars, kvars>>
  \/ part = "codes"    /\ Codes!Next  /\ UNCHANGED <<part, vars, svars, mvars, gvars, kvars>>
  \/ part = "sessions" /\ Rows!Next   /\ UNCHANGED <<part, vars, cvars, mvars, gvars, kvars>>
  \/ part = "memory"   /\ Memory!Next /\ UNCHANGED <<part, vars, cvars, svars, gvars, kvars>>
  \/ part = "grants"   /\ Grants!Next /\ UNCHANGED <<part, vars, cvars, svars, mvars, kvars>>
  \/ part = "keys"     /\ Keys!Next   /\ UNCHANGED <<part, vars, cvars, svars, mvars, gvars>>

allvars == <<part, vars, cvars, svars, mvars, gvars, kvars>>
ElevationSpec == ElevationInit /\ [][ElevationNext]_allvars

\* Recovery codes, and codes of one period, are accepted once as well, and raise one
\* session each.
CodesKept == part = "codes" => Codes!OneStepUpPerCode /\ Codes!Aal2Justified

\* A request that came after its session was revoked, banned or expired is refused.
RevocationsHold == part = "sessions" => Rows!RevocationHonoured

\* No order of touches, upgrades and cleanups takes back a revocation or AAL2.
SessionsOnlyTighten == [][part = "sessions" => Rows!Tightens]_svars

\* An expired session comes back only by a request that read the clock before.
ExpiryHolds == [][part = "sessions" => Rows!StaysDead]_svars

\* The store in memory loses nothing on an event loop, and hands a flow out once in
\* any number of threads.
MemoryKept == Memory!CallsKeepState

\* Statements are matched with statements as the rows they stand for demand.
GrantsDecide == part = "grants" => Grants!CanIsAccess

\* Answers of a passkey are not accepted twice.
PasskeysFresh == part = "keys" => Keys!AssertionsAreFresh
=============================================================================
