---------------------------- MODULE MemoryStore ----------------------------
(***************************************************************************)
(* The store that keeps its tables in dictionaries (storage/memory.py),    *)
(* read and written in separate steps.  Touches, step-ups, updates and     *)
(* consumptions hold its lock; revocations, cleanups and the creation of   *)
(* users do not.  The async store calls the same methods without a pause   *)
(* (storage/async_memory.py): on an event loop one call ends before the    *)
(* next one begins.  Rows of two sessions of one user, mailed flows that   *)
(* all expire at once, and users by their address.                         *)
(***************************************************************************)
EXTENDS Naturals, FiniteSets

CONSTANTS
  Session, Flow, Email, Thread,
  None            \* sentinel

SentinelAssumption ==
  None \notin Session \cup Flow \cup Email \cup Thread \cup {"open", "consumed"}

VARIABLES
  loop,       \* whether the calls run on an event loop
  expired,    \* whether the expiry of the flows has passed
  sessions,   \* the sessions: revoked and raised to AAL2
  flows,      \* the flows: open, consumed or None
  byHash,     \* the flows that the index of the state hashes has
  users,      \* the rows of an address
  byEmail,    \* the addresses that the index of the addresses has
  lock,       \* the thread that holds the lock, or None
  h,          \* what each thread is at, and its locals
  handed      \* history: how often a flow was handed out

tables == <<sessions, flows, byHash, users, byEmail>>
vars == <<loop, expired, tables, lock, h, handed>>

Row == [revoked : BOOLEAN, aal2 : BOOLEAN]
SessionCall == {"touch", "raise", "update", "revoke", "revoke_all", "cleanup"}
Locked == {"touch", "raise", "update", "consume"}

\* todo are the keys of the copy that are still to be written, late whether the call
\* came after the expiry.
Idle == [call |-> None, pc |-> "idle", key |-> None, copy |-> <<>>, todo |-> {}, late |-> FALSE]

Init ==
  /\ loop \in BOOLEAN /\ expired = FALSE
  /\ sessions = [s \in Session |-> [revoked |-> FALSE, aal2 |-> FALSE]]
  /\ flows = [f \in Flow |-> "open"] /\ byHash = Flow
  /\ users = [e \in Email |-> 0] /\ byEmail = {}
  /\ lock = None
  /\ h = [t \in Thread |-> Idle]
  /\ handed = [f \in Flow |-> 0]

Local(t, r) == h' = [h EXCEPT ![t] = r]

\* On an event loop nobody else is in a call.
MayRun(t) == loop => \A u \in Thread \ {t} : h[u].pc = "idle"
Release(t) == lock' = IF lock = t THEN None ELSE lock
Return(t) == Local(t, Idle) /\ Release(t)

\* A thread calls the store, and waits for the lock if the call takes it.  What the
\* caller of update_session read, it read before.
Call(t, call, key) ==
  /\ h[t].pc = "idle" /\ MayRun(t)
  /\ call \in Locked => lock = None
  /\ lock' = IF call \in Locked THEN t ELSE lock
  /\ \E copy \in IF call = "update" THEN [Session -> Row] ELSE {<<>>} :
       Local(t, [Idle EXCEPT !.call = call, !.pc = "read", !.key = key,
                             !.copy = copy, !.late = expired /\ call \in {"cleanup", "consume"}])
  /\ UNCHANGED <<loop, expired, tables, handed>>

-----------------------------------------------------------------------------
(* Sessions *)

\* The sessions a call means to write: those that it finds not revoked.
Meant(t) ==
  CASE h[t].call = "cleanup"    -> {s \in Session : ~sessions[s].revoked /\ h[t].late}
    [] h[t].call = "revoke_all" -> {s \in Session : ~sessions[s].revoked /\ s # h[t].key}
    [] h[t].call = "update"     -> {h[t].key}
    [] OTHER                    -> {s \in {h[t].key} : ~sessions[s].revoked}

\* The call has written its sessions; a cleanup goes on with the flows.
Written(t) ==
  IF h[t].call = "cleanup" /\ h[t].late
  THEN Local(t, [Idle EXCEPT !.call = "cleanup_flows", !.pc = "read"]) /\ UNCHANGED lock
  ELSE Return(t)

\* Faulty variant (for CallsKeepState): the row of the caller is written as it is.
MergeNothing(old, row) == row
\* update_session keeps a revocation and AAL2.
Merge(old, row) ==
  [revoked |-> old.revoked \/ row.revoked, aal2 |-> old.aal2 \/ row.aal2]

ReadSessions(t) ==
  /\ h[t].call \in SessionCall /\ h[t].pc = "read"
  /\ IF Meant(t) = {}
     THEN Written(t)
     ELSE /\ Local(t, [h[t] EXCEPT
                         !.pc = "write", !.todo = Meant(t),
                         !.copy = IF h[t].call = "update"
                                  THEN [s \in Session |-> Merge(sessions[s], h[t].copy[s])]
                                  ELSE sessions])
          /\ UNCHANGED lock
  /\ UNCHANGED <<loop, expired, tables, handed>>

\* The row the call writes from the row it read.
NewRow(t, s) ==
  CASE h[t].call \in {"revoke", "revoke_all", "cleanup"} -> [h[t].copy[s] EXCEPT !.revoked = TRUE]
    [] h[t].call = "raise"                               -> [h[t].copy[s] EXCEPT !.aal2 = TRUE]
    [] OTHER                                             -> h[t].copy[s]

WriteSession(t) ==
  /\ h[t].call \in SessionCall /\ h[t].pc = "write"
  /\ \E s \in h[t].todo :
       /\ sessions' = [sessions EXCEPT ![s] = NewRow(t, s)]
       /\ IF h[t].todo # {s}
          THEN Local(t, [h[t] EXCEPT !.todo = @ \ {s}]) /\ UNCHANGED lock
          ELSE Written(t)
  /\ UNCHANGED <<loop, expired, flows, byHash, users, byEmail, handed>>

-----------------------------------------------------------------------------
(* Flows and users *)

\* The rest of a cleanup: the expired flows, row and index, one after the other.
PopFlows(t) ==
  /\ h[t].call = "cleanup_flows" /\ h[t].pc = "read"
  /\ flows' = [f \in Flow |-> None]
  /\ Local(t, [h[t] EXCEPT !.pc = "write"])
  /\ UNCHANGED <<loop, expired, sessions, byHash, users, byEmail, lock, handed>>

PopIndex(t) ==
  /\ h[t].call = "cleanup_flows" /\ h[t].pc = "write"
  /\ byHash' = {}
  /\ Return(t)
  /\ UNCHANGED <<loop, expired, sessions, flows, users, byEmail, handed>>

FindFlow(t) ==
  /\ h[t].call = "consume" /\ h[t].pc = "read"
  /\ IF h[t].key \in byHash /\ flows[h[t].key] = "open" /\ ~h[t].late
     THEN Local(t, [h[t] EXCEPT !.pc = "write"]) /\ UNCHANGED lock
     ELSE Return(t)
  /\ UNCHANGED <<loop, expired, tables, handed>>

ConsumeFlow(t) ==
  /\ h[t].call = "consume" /\ h[t].pc = "write"
  /\ flows' = [flows EXCEPT ![h[t].key] = "consumed"]
  /\ handed' = [handed EXCEPT ![h[t].key] = @ + 1]
  /\ Return(t)
  /\ UNCHANGED <<loop, expired, sessions, byHash, users, byEmail>>

FindEmail(t) ==
  /\ h[t].call = "create_user" /\ h[t].pc = "read"
  /\ IF h[t].key \in byEmail THEN Return(t)
     ELSE Local(t, [h[t] EXCEPT !.pc = "write"]) /\ UNCHANGED lock
  /\ UNCHANGED <<loop, expired, tables, handed>>

InsertUser(t) ==
  /\ h[t].call = "create_user" /\ h[t].pc = "write"
  /\ users' = [users EXCEPT ![h[t].key] = @ + 1]
  /\ byEmail' = byEmail \cup {h[t].key}
  /\ Return(t)
  /\ UNCHANGED <<loop, expired, sessions, flows, byHash, handed>>

Expire ==
  /\ ~expired /\ expired' = TRUE
  /\ UNCHANGED <<loop, tables, lock, h, handed>>

Step(t) ==
  /\ MayRun(t)
  /\ \/ ReadSessions(t) \/ WriteSession(t) \/ PopFlows(t) \/ PopIndex(t)
     \/ FindFlow(t) \/ ConsumeFlow(t) \/ FindEmail(t) \/ InsertUser(t)

Next ==
  \/ \E t \in Thread :
       \/ \E c \in {"touch", "raise", "update", "revoke"}, s \in Session : Call(t, c, s)
       \/ \E s \in Session \cup {None} : Call(t, "revoke_all", s)
       \/ Call(t, "cleanup", None)
       \/ \E f \in Flow : Call(t, "consume", f)
       \/ \E e \in Email : Call(t, "create_user", e)
       \/ Step(t)
  \/ Expire

Spec == Init /\ [][Next]_vars

-----------------------------------------------------------------------------
(* Properties *)

\* "Revocation and AAL upgrades are monotonic security state. A stale caller must
\* never clear revocation or downgrade an AAL2 session."  In threads a revocation does
\* not take the lock: it can come between the read and the write of a touch, which
\* then clears it, or write back a row from before a step-up.
SecurityStateMonotone ==
  [][\A s \in Session : /\ sessions[s].revoked => sessions'[s].revoked
                        /\ sessions[s].aal2 => sessions'[s].aal2]_vars

\* What holds however the calls are mixed: a flow is handed out once, in threads too,
\* although a cleanup takes rows away from under the lock; and on an event loop
\* nothing is lost: revocations and step-ups stay, and an address has one user.
CallsKeepState ==
  [][/\ \A f \in Flow : handed'[f] <= 1
     /\ loop => /\ \A e \in Email : users'[e] <= 1
                /\ \A s \in Session : /\ sessions[s].revoked => sessions'[s].revoked
                                      /\ sessions[s].aal2 => sessions'[s].aal2]_vars
=============================================================================
