--------------------------- MODULE Administration ---------------------------
(***************************************************************************)
(* Accounts and what is theirs, one of these in each behaviour, chosen at  *)
(* the start: all operations of the administration one at a time, some of  *)
(* them two at once with crashes, the pages of an account, the             *)
(* single_owner profile, and the message board.                            *)
(***************************************************************************)
EXTENDS Accounts

CONSTANTS
  Thread,                            \* the handlers of the other parts
  RaceAdmins, RaceOps, RaceSessions, \* race: the first admins, the operations, and
                                     \* a bound on the sessions of a user
  Session, MaxPageChanges,           \* pages: the sessions, a bound on the changes
  Email, Token, Owner, NoUser, NoLink, RequireVerified, Ttl, MaxClock,
                                     \* owner: as in LoginFlows
  Post, Comment, SeedPost, SeedComment, SeedAuthor, AdminPost, BoardRoles, AuthRoles
                                     \* board: as in Board

VARIABLES
  part,
  rusers, rpassword, rsess, rgranted, rordered, rovertaken, rh,
  status, word, psess, ph,
  oclock, ousers, oidentity, opassword, olink, oflow, osession, oredeemed,
  opc, okind, otok, oemail, onow, orow,
  posts, comments, drawn, bh

Race == INSTANCE Accounts WITH
  Proc <- Thread, Admins <- RaceAdmins, Ops <- RaceOps,
  MayCrash <- TRUE, MaxSessions <- RaceSessions,
  users <- rusers, password <- rpassword, sess <- rsess, granted <- rgranted,
  ordered <- rordered, overtaken <- rovertaken, h <- rh
rvars == <<rusers, rpassword, rsess, rgranted, rordered, rovertaken, rh>>

Pages == INSTANCE Portal WITH
  Proc <- Thread, MaxPassword <- MaxPageChanges, password <- word, sess <- psess, h <- ph
pvars == <<status, word, psess, ph>>

Owned == INSTANCE LoginFlows WITH
  Proc <- Thread, InitialUsers <- {}, SingleOwner <- TRUE,
  clock <- oclock, users <- ousers, identity <- oidentity, password <- opassword,
  link <- olink, flow <- oflow, session <- osession, redeemed <- oredeemed,
  pc <- opc, kind <- okind, tok <- otok, email <- oemail, now <- onow, row <- orow
ovars == <<oclock, ousers, oidentity, opassword, olink, oflow, osession, oredeemed,
           opc, okind, otok, oemail, onow, orow>>

Posts == INSTANCE Board WITH Proc <- Thread, h <- bh
bvars == <<posts, comments, drawn, bh>>

ASSUME InstanceAssumption ==
  /\ RaceAdmins \subseteq User /\ RaceAdmins # {} /\ RaceOps \subseteq Operation
  /\ RaceSessions \in Nat \ {0} /\ None \notin Race!SessionId
  /\ Pages!ConfigAssumption
  /\ Owner \in Email /\ RequireVerified \in BOOLEAN /\ Ttl \in Nat \ {0} /\ MaxClock \in Nat
  /\ None \notin Token \cup Email \cup Owned!Kind
  /\ NoUser \notin Owned!UserRow /\ NoLink \notin Owned!Link
  /\ Posts!SeedAssumption /\ Posts!SentinelAssumption

AdministrationInit ==
  /\ part \in {"serial", "race", "pages", "owner", "board"}
  /\ Init /\ Race!Init /\ Pages!Init /\ Owned!Init /\ Posts!Init
AdministrationNext ==
  \/ part = "serial" /\ Next       /\ UNCHANGED <<part, rvars, pvars, ovars, bvars>>
  \/ part = "race"   /\ Race!Next  /\ UNCHANGED <<part, vars, pvars, ovars, bvars>>
  \/ part = "pages"  /\ Pages!Next /\ UNCHANGED <<part, vars, rvars, ovars, bvars>>
  \/ part = "owner"  /\ Owned!Next /\ UNCHANGED <<part, vars, rvars, pvars, bvars>>
  \/ part = "board"  /\ Posts!Next /\ UNCHANGED <<part, vars, rvars, pvars, ovars>>
allvars == <<part, vars, rvars, pvars, ovars, bvars>>
AdministrationSpec == AdministrationInit /\ [][AdministrationNext]_allvars

\* Whatever whole rows two operations write back, and wherever they die, nobody becomes
\* an administrator unless made one, and a completed change has cut the sessions.
RacesAreSafe == Race!NoEscalation /\ Race!ChangeCutsSessions

\* They lose an administrator, a command or a role of a session only where one has
\* overtaken the other, or died before it revoked the sessions.
RacesAreBounded == Race!LastAdminKept /\ Race!CommandsHold /\ Race!RolesFit

\* The page of a password change does not lie about the other sessions.
PagesCut == Pages!PasswordChangeCuts

\* In the single_owner profile nobody but the owner ever gets an account.
OwnerAlone == Owned!OnlyOwnerExists

\* Rows of the board change only as their authors and moderators may change them, do
\* not come back when they are deleted, and comments do not outlive their posts.
BoardKept == []Posts!CommentsHavePosts /\ Posts!DeletedStaysDeleted /\ Posts!ChangesAuthorised
=============================================================================
