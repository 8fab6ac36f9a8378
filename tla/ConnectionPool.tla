--------------------------- MODULE ConnectionPool ---------------------------
(***************************************************************************)
(* The pool of temporary SSH+SFTP connections of app/connection_pool.py.   *)
(*                                                                         *)
(* The registry dictionary is guarded by the pool's lock; dialling a       *)
(* server and closing its resources happen outside it.  So one locked      *)
(* section is one action, and a connection passes through "dialling"       *)
(* (slot reserved, not in the dictionary) and "detached" (popped, being    *)
(* closed by the thread that popped it), where other threads interleave.   *)
(*                                                                         *)
(* Abstraction.  A connection id (uuid4) is used once.  Holders are the    *)
(* SourceHoldSet objects of app/file_sources.py, each of which releases    *)
(* its holds once; r.holders records who they are, the code only counts.   *)
(* r.idle says that last_used is further back than cleanup_interval.       *)
(***************************************************************************)
EXTENDS Naturals, FiniteSets

CONSTANTS Conns,         \* connection ids that may ever be drawn
          Users,
          Holders,       \* hold sets that may take a connection
          PerUserLimit,  \* QUOTA_QUICK_CONNECTION_PER_USER
          GlobalLimit    \* QUOTA_QUICK_CONNECTION_GLOBAL

ASSUME PoolFinite == IsFiniteSet(Conns) /\ IsFiniteSet(Holders)

ASSUME PoolLimits ==
    /\ PerUserLimit \in Nat \ {0}
    /\ GlobalLimit \in Nat
    /\ PerUserLimit < GlobalLimit

VARIABLES conn,       \* every connection ever attempted
          accepting,  \* lifecycle.accepting_work()
          loop,       \* _cleanup_loop: "running", "cancelled", "ended"
          revoked     \* users whose access was revoked

poolVars == <<conn, accepting, loop, revoked>>

Phases == {"none", "admitted", "dialling", "discarding", "open", "detached",
           "closed"}
NoUser == "no user"

Connection == [phase    : Phases,
               user     : Users \cup {NoUser},
               count    : Nat,              \* hold_count
               closeReq : BOOLEAN,          \* close_requested
               idle     : BOOLEAN,
               alive    : BOOLEAN,          \* transport.is_active()
               quota    : BOOLEAN,          \* quota_reservation not released
               holders  : SUBSET Holders]

NoConnection == [phase |-> "none", user |-> NoUser, count |-> 0,
                 closeReq |-> FALSE, idle |-> FALSE, alive |-> FALSE,
                 quota |-> FALSE, holders |-> {}]

Reserved == {c \in Conns : conn[c].quota}
ReservedBy(u) == {c \in Reserved : conn[c].user = u}

----------------------------------------------------------------------------
(* create_connection.                                                      *)

\* The first look at the lifecycle, before the slot is reserved.  Only a user
\* whose access stands reaches the handler (socket_login_required).
AdmitConnect(c, u) ==
    /\ conn[c].phase = "none"
    /\ accepting
    /\ u \notin revoked
    /\ conn' = [conn EXCEPT ![c].phase = "admitted", ![c].user = u]
    /\ UNCHANGED <<accepting, loop, revoked>>

\* quota_manager.reserve(QUICK_CONNECTION, user), or its refusal: SMB sources
\* take slots of the same kind, so it may come below this pool's own limit.
Reserve(c) ==
    /\ conn[c].phase = "admitted"
    /\ \/ /\ Cardinality(ReservedBy(conn[c].user)) < PerUserLimit
          /\ Cardinality(Reserved) < GlobalLimit
          /\ conn' = [conn EXCEPT ![c].phase = "dialling", ![c].quota = TRUE]
       \/ conn' = [conn EXCEPT ![c].phase = "closed"]
    /\ UNCHANGED <<accepting, loop, revoked>>

\* Mutant: the lifecycle is not looked at again under the lock.
StoreUnchecked(c) ==
    /\ conn[c].phase = "dialling"
    /\ conn' = [conn EXCEPT ![c].phase = "open", ![c].alive = TRUE]
    /\ UNCHANGED <<accepting, loop, revoked>>

\* The connection was established and, with the lock held, the runtime still
\* accepts work.
Store(c) ==
    /\ conn[c].phase = "dialling"
    /\ accepting
    /\ conn' = [conn EXCEPT ![c].phase = "open", ![c].alive = TRUE]
    /\ UNCHANGED <<accepting, loop, revoked>>

\* The dial failed, or the runtime stopped accepting meanwhile: the finally
\* block returns the slot ...
Abandon(c) ==
    /\ conn[c].phase = "dialling"
    /\ conn' = [conn EXCEPT ![c].phase = "discarding", ![c].quota = FALSE]
    /\ UNCHANGED <<accepting, loop, revoked>>

\* ... and then closes what was opened.
Discard(c) ==
    /\ conn[c].phase = "discarding"
    /\ conn' = [conn EXCEPT ![c].phase = "closed"]
    /\ UNCHANGED <<accepting, loop, revoked>>

----------------------------------------------------------------------------
(* Use.                                                                    *)

\* get_sftp_client and get_ssh_client on a live transport.  The pool itself does
\* not ask whether the user was revoked: its callers do, before each operation
\* (socket_login_required), and the guard stands for them here and in AcquireHold.
Touch(c) ==
    /\ conn[c].phase = "open"
    /\ conn[c].alive
    /\ conn[c].user \notin revoked
    /\ conn' = [conn EXCEPT ![c].idle = FALSE]
    /\ UNCHANGED <<accepting, loop, revoked>>

\* get_sftp_client on a dead transport detaches the connection, held or not.
DropStale(c) ==
    /\ conn[c].phase = "open"
    /\ ~conn[c].alive
    /\ conn' = [conn EXCEPT ![c].phase = "detached"]
    /\ UNCHANGED <<accepting, loop, revoked>>

\* acquire_hold, called by handlers whose user has just been found valid.
AcquireHold(c, h, u) ==
    /\ conn[c].phase = "open"
    /\ conn[c].user = u
    /\ ~conn[c].closeReq
    /\ u \notin revoked
    /\ h \notin conn[c].holders
    /\ conn' = [conn EXCEPT ![c].count = @ + 1, ![c].holders = @ \cup {h}]
    /\ UNCHANGED <<accepting, loop, revoked>>

\* Mutant: a hold on a closing connection is not counted down.
ReleasedIgnoresClosing(r, h) ==
    IF r.phase = "open" /\ r.count > 0 /\ ~r.closeReq
    THEN [r EXCEPT !.count = r.count - 1, !.holders = r.holders \ {h}]
    ELSE [r EXCEPT !.holders = r.holders \ {h}]

\* release_hold on the entry, and nothing but the caller's own memory of the
\* hold when the connection has already left the dictionary.
ReleasedConnection(r, h) ==
    IF r.phase = "open" /\ r.count > 0
    THEN [r EXCEPT !.count = r.count - 1,
                   !.holders = r.holders \ {h},
                   !.phase = IF r.count = 1 /\ r.closeReq
                             THEN "detached" ELSE "open"]
    ELSE [r EXCEPT !.holders = r.holders \ {h}]

ReleaseHold(c, h) ==
    /\ h \in conn[c].holders
    /\ conn' = [conn EXCEPT ![c] = ReleasedConnection(conn[c], h)]
    /\ UNCHANGED <<accepting, loop, revoked>>

----------------------------------------------------------------------------
(* Closing.                                                                *)

\* Mutant: holds are not looked at.
DetachAlways(r) == [r EXCEPT !.phase = "detached"]

\* request_close and the defer_held branch of _detach_connections.
DeferOrDetach(r) ==
    IF r.count > 0 THEN [r EXCEPT !.closeReq = TRUE]
                   ELSE [r EXCEPT !.phase = "detached"]

\* request_close, from quick_disconnect.
RequestClose(c) ==
    /\ conn[c].phase = "open"
    /\ conn' = [conn EXCEPT ![c] = DeferOrDetach(conn[c])]
    /\ UNCHANGED <<accepting, loop, revoked>>

\* _detach_connections without defer_held.
DetachAll(S) ==
    conn' = [c \in Conns |-> IF c \in S /\ conn[c].phase = "open"
                             THEN [conn[c] EXCEPT !.phase = "detached"]
                             ELSE conn[c]]

\* cleanup_expired, from the cleanup loop.
CleanupExpired ==
    /\ loop = "running"
    /\ conn' = [c \in Conns |-> IF conn[c].phase = "open" /\ conn[c].idle
                                THEN DeferOrDetach(conn[c])
                                ELSE conn[c]]
    /\ UNCHANGED <<accepting, loop, revoked>>

\* close_all_user_connections when the user's last socket disconnects.
CloseAllUserConnections(u) ==
    /\ DetachAll({c \in Conns : conn[c].user = u})
    /\ UNCHANGED <<accepting, loop, revoked>>

\* close_all_user_connections as a step of revoke_user_access.
RevokeUser(u) ==
    /\ DetachAll({c \in Conns : conn[c].user = u})
    /\ revoked' = revoked \cup {u}
    /\ UNCHANGED <<accepting, loop>>

\* _close_detached_connections: the resources, then the reservation.  The
\* reservation is what bounds the number of SSH connections.
CloseDetached(c) ==
    /\ conn[c].phase = "detached"
    /\ conn' = [conn EXCEPT ![c].phase = "closed", ![c].quota = FALSE]
    /\ UNCHANGED <<accepting, loop, revoked>>

----------------------------------------------------------------------------
(* Shutdown, as far as the pool sees it.                                   *)

\* begin_shutdown closes the admission of work.
StopAccepting ==
    /\ accepting
    /\ accepting' = FALSE
    /\ UNCHANGED <<conn, loop, revoked>>

\* The cleanup job's deferred cancel event, set after the callbacks.
CancelLoop ==
    /\ ~accepting
    /\ loop = "running"
    /\ loop' = "cancelled"
    /\ UNCHANGED <<conn, accepting, revoked>>

\* The finally block of _cleanup_loop: close_all_connections.
DrainPool ==
    /\ loop = "cancelled"
    /\ DetachAll(Conns)
    /\ loop' = "ended"
    /\ UNCHANGED <<accepting, revoked>>

----------------------------------------------------------------------------
(* Environment.                                                            *)

TransportDies(c) ==
    /\ conn[c].phase = "open"
    /\ conn[c].alive
    /\ conn' = [conn EXCEPT ![c].alive = FALSE]
    /\ UNCHANGED <<accepting, loop, revoked>>

GrowsIdle(c) ==
    /\ conn[c].phase = "open"
    /\ ~conn[c].idle
    /\ conn' = [conn EXCEPT ![c].idle = TRUE]
    /\ UNCHANGED <<accepting, loop, revoked>>

PoolInit ==
    /\ conn = [c \in Conns |-> NoConnection]
    /\ accepting = TRUE
    /\ loop = "running"
    /\ revoked = {}

PoolNext ==
    \/ CleanupExpired
    \/ StopAccepting
    \/ CancelLoop
    \/ DrainPool
    \/ \E u \in Users : CloseAllUserConnections(u) \/ RevokeUser(u)
    \/ \E c \in Conns :
         \/ Reserve(c)
         \/ Store(c)
         \/ Abandon(c)
         \/ Discard(c)
         \/ Touch(c)
         \/ DropStale(c)
         \/ RequestClose(c)
         \/ CloseDetached(c)
         \/ TransportDies(c)
         \/ GrowsIdle(c)
         \/ \E u \in Users : AdmitConnect(c, u)
         \/ \E h \in Holders : ReleaseHold(c, h)
         \/ \E h \in Holders, u \in Users : AcquireHold(c, h, u)

\* The threads of the server make progress: a dial ends (its socket has a
\* timeout), whoever pops a connection closes it, the cleanup loop wakes up
\* and drains the pool when cancelled.  Time passes.  A hold is returned when
\* its transfer ends, which TransferRequests is about.
PoolFairness ==
    /\ WF_poolVars(CleanupExpired)
    /\ WF_poolVars(DrainPool)
    /\ \A c \in Conns :
         /\ WF_poolVars(Reserve(c))
         /\ WF_poolVars(Store(c) \/ Abandon(c))
         /\ WF_poolVars(CloseDetached(c) \/ Discard(c))
         /\ WF_poolVars(GrowsIdle(c))
         /\ \A h \in Holders : WF_poolVars(ReleaseHold(c, h))

PoolSpec == PoolInit /\ [][PoolNext]_poolVars /\ PoolFairness

----------------------------------------------------------------------------
(* Properties.                                                             *)

\* Types; a connection that was attempted has an owner (create_connection
\* refuses an attempt without a user).
PoolTypeOK ==
    /\ conn \in [Conns -> Connection]
    /\ \A c \in Conns : conn[c].phase # "none" => conn[c].user \in Users
    /\ accepting \in BOOLEAN
    /\ loop \in {"running", "cancelled", "ended"}
    /\ revoked \subseteq Users

\* hold_count never drifts from the hold sets that really retain the
\* connection, whatever the order of acquire_hold, release_hold and closes.
HoldCountExact ==
    \A c \in Conns :
        conn[c].phase = "open" => conn[c].count = Cardinality(conn[c].holders)

\* A connection whose close was deferred is still held by somebody: a deferred
\* close cannot outlive the last hold (release_hold finishes it).
DeferredCloseIsHeld ==
    \A c \in Conns :
        (conn[c].phase = "open" /\ conn[c].closeReq) => conn[c].count > 0

\* A QUICK_CONNECTION slot is taken from the dial until a stored connection's
\* resources are closed or the dial is given up, on every path: a failed dial,
\* a refused store, a deferred close, a stale transport, a revocation, a drain.
SlotIffResources ==
    \A c \in Conns :
        conn[c].quota <=> conn[c].phase \in {"dialling", "open", "detached"}

\* Once the cleanup loop has drained the pool for shutdown no dial that was
\* under way can put a connection back (the second accepting_work check).
DrainedStaysEmpty ==
    loop = "ended" => \A c \in Conns : conn[c].phase # "open"

\* The SSH connections open at a time, those being dialled and closed included,
\* stay within the limits, since their slots do (quota_manager.reserve).
ConnectionsWithinLimits ==
    /\ Cardinality(Reserved) <= GlobalLimit
    /\ \A u \in Users : Cardinality(ReservedBy(u)) <= PerUserLimit

\* What the pool keeps true through dials, holds, closes, stale transports,
\* revocation and drain: exact hold counts, deferred closes with a holder, slots
\* that follow the resources and stay within the limits, and nothing stored after
\* the drain.
PoolSafe ==
    /\ PoolTypeOK
    /\ HoldCountExact
    /\ DeferredCloseIsHeld
    /\ SlotIffResources
    /\ DrainedStaysEmpty
    /\ ConnectionsWithinLimits

\* A held connection leaves the dictionary only because its transport died,
\* its user was cut off or the runtime drained it: never by quick_disconnect
\* or idle cleanup ("Close now, or defer until owned in-flight transfer holds
\* end").
HeldIsNotClosed ==
    [][\A c \in Conns :
        (/\ conn[c].phase = "open"
         /\ conn'[c].phase = "detached"
         /\ conn[c].holders \cap conn'[c].holders # {}) =>
             \/ ~conn[c].alive
             \/ DrainPool
             \/ CloseAllUserConnections(conn[c].user)
             \/ RevokeUser(conn[c].user)]_poolVars

\* After the close of a connection was requested nobody new can hold on to it,
\* and the request is never withdrawn (acquire_hold, Touch).
NoHoldAfterCloseRequest ==
    [][\A c \in Conns :
        (conn[c].phase = "open" /\ conn[c].closeReq) =>
            /\ conn'[c].holders \subseteq conn[c].holders
            /\ conn'[c].closeReq]_poolVars

\* A holder keeps its connection, and a close that waits for holders gets no new
\* ones.
HoldersProtected == HeldIsNotClosed /\ NoHoldAfterCloseRequest

\* A deferred close happens: the transfers that hold the connection end, and
\* then it is closed and its slot returned.
DeferredCloseHappens ==
    \A c \in Conns :
        (conn[c].phase = "open" /\ conn[c].closeReq) ~> conn[c].phase = "closed"

\* A revoked user is left with no pooled connection in the end, the one that
\* was being dialled while revoke_user_access ran included.
RevokedEndsUp ==
    \A u \in Users : u \in revoked ~>
        \A c \in Conns : conn[c].user = u => conn[c].phase = "closed"

\* What was asked to close is closed in the end: after its last hold, and for a
\* revoked user whatever was under way.
ClosesHappen == DeferredCloseHappens /\ RevokedEndsUp

=============================================================================
