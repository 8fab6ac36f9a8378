-------------------------- MODULE TransferRequests --------------------------
(***************************************************************************)
(* File transfers end to end: the socket handlers that prepare them, the   *)
(* HTTP requests and background jobs that carry them out, the registry     *)
(* (TransferManager), the connections they hold (ConnectionPool) and the   *)
(* shutdown that waits for them.                                           *)
(*                                                                         *)
(*   transfer_routes.py   prepare_transfer, _consume, download_transfer,   *)
(*                        download_folder_transfer, upload_transfer,       *)
(*                        _terminalize, _request_finalizer                 *)
(*   socket_events.py     the server-to-server handler and its job,        *)
(*                        handle_disconnect                                *)
(*   file_sources.py      acquire_transfer_holds, SourceHoldSet            *)
(*   user_lifecycle.py    revoke_user_access                               *)
(*   runtime_lifecycle.py begin_shutdown (RuntimeLifecycle has the rest)   *)
(*                                                                         *)
(* A thread takes one step per lock it takes.  The manager returns source  *)
(* holds while it owns its own lock; the pool's lock is taken inside, and  *)
(* nothing observes the registry in between, so both change in one step.   *)
(* The connections exist at the start: ConnectionPool covers the dialling  *)
(* and idle cleanup, which treats a held connection like quick_disconnect. *)
(***************************************************************************)
EXTENDS Naturals, FiniteSets

CONSTANTS Transfers, Requests, Conns, Users, Sids, Directions,
          PerUserLimit, GlobalLimit   \* TRANSFER limits

NoTransfer == "no transfer"

ASSUME RequestsAssumption ==
    /\ IsFiniteSet(Transfers) /\ NoTransfer \notin Transfers
    /\ Directions \subseteq {"upload", "download", "server_to_server"}

VARIABLES rec, open, binding,              \* the manager's state
          conn, accepting, loop, revoked,  \* the pool's and the lifecycle's
          prep,      \* what the socket handler is doing about a transfer
          req,       \* HTTP requests and server-to-server jobs
          jobSlots,  \* transfers with a BACKGROUND_JOB reservation
          done,      \* transfers whose request_done_event is set
          cutting,   \* users being disconnected or revoked
          shutdown,  \* begin_shutdown: "up", "closing", "waiting", "waited"
          waiters,   \* what close_and_cancel told the shutdown to wait for
          timedOut   \* the grace period ended before the waiters did

mgr  == <<rec, open, binding>>
pool == <<conn, accepting, loop, revoked>>
rest == <<prep, req, jobSlots, done, cutting, shutdown, waiters, timedOut>>
vars == <<mgr, pool, rest>>

M == INSTANCE TransferManager WITH accepting <- open, MaxBindings <- 1
P == INSTANCE ConnectionPool WITH Holders <- Transfers,
                                  PerUserLimit <- Cardinality(Conns),
                                  GlobalLimit <- Cardinality(Conns) + 1

Http == {"upload", "download"}
Idle == [pc |-> "idle", transfer |-> NoTransfer, endpoint |-> "none",
         outcome |-> "none"]

----------------------------------------------------------------------------
(* Holds.                                                                  *)

\* SourceHoldSet.release for each hold set in S: every connection it retains
\* gets its release_hold, the last of which finishes a deferred close (the
\* effect of P!ReleasedConnection for one after the other: the count of an open
\* connection is the number of its holders, so every release finds one to return).
ReturnedConnection(r, S) ==
    LET gone == S \cap r.holders
        left == r.count - Cardinality(gone) IN
    IF r.phase = "open" /\ gone # {}
    THEN [r EXCEPT !.count = left,
                   !.holders = r.holders \ gone,
                   !.phase = IF left = 0 /\ r.closeReq THEN "detached" ELSE "open"]
    ELSE [r EXCEPT !.holders = r.holders \ gone]

Returned(S) == [c \in Conns |-> ReturnedConnection(conn[c], S)]

\* The pool's part of a manager step: the holds that the step released.
FollowManager ==
    /\ conn' = Returned({t \in Transfers : rec[t].holds /\ ~rec'[t].holds})
    /\ UNCHANGED <<accepting, loop, revoked>>

----------------------------------------------------------------------------
(* Preparation, in a Socket.IO handler.                                    *)

\* prepare_transfer and the server-to-server handler: the request names one
\* source, or two for a copy between servers.
BeginPrepare(t, u, s, d, need) ==
    /\ prep[t].phase = "none"
    /\ u \notin revoked
    /\ d = "server_to_server" \/ Cardinality(need) = 1
    /\ prep' = [prep EXCEPT ![t] = [phase |-> "acquiring", user |-> u,
                                    sid |-> s, dir |-> d, need |-> need]]
    /\ UNCHANGED <<mgr, pool, req, jobSlots, done, cutting, shutdown, waiters,
                   timedOut>>

\* acquire_transfer_holds takes the holds one after the other.
AcquireNext(t) ==
    /\ prep[t].phase = "acquiring"
    /\ \E c \in prep[t].need : P!AcquireHold(c, t, prep[t].user)
    /\ UNCHANGED <<mgr, rest>>

\* Mutant: the holds already taken are kept.
AcquireFailsKeepsHolds(t) ==
    /\ prep[t].phase = "acquiring"
    /\ \E c \in prep[t].need : t \notin conn[c].holders
    /\ prep' = [prep EXCEPT ![t].phase = "refused"]
    /\ UNCHANGED <<mgr, pool, req, jobSlots, done, cutting, shutdown, waiters,
                   timedOut>>

\* A source is gone, closing or not this user's: the holds taken so far are
\* returned.
AcquireFails(t) ==
    /\ prep[t].phase = "acquiring"
    /\ \E c \in prep[t].need : /\ t \notin conn[c].holders
                               /\ \/ conn[c].phase # "open"
                                  \/ conn[c].closeReq
                                  \/ conn[c].user # prep[t].user
                                  \/ prep[t].user \in revoked
    /\ conn' = Returned({t})
    /\ prep' = [prep EXCEPT ![t].phase = "refused"]
    /\ UNCHANGED <<mgr, accepting, loop, revoked, req, jobSlots, done, cutting,
                   shutdown, waiters, timedOut>>

\* The handler holds all its sources and calls transfer_manager.create; a
\* copy reserves its BACKGROUND_JOB slot just before.
CreateTransfer(t) ==
    /\ prep[t].phase = "acquiring"
    /\ \A c \in prep[t].need : t \in conn[c].holders
    /\ M!Create(t, prep[t].user, prep[t].sid, prep[t].dir)
    /\ FollowManager
    /\ prep' = [prep EXCEPT ![t].phase = "created"]
    /\ jobSlots' = IF prep[t].dir = "server_to_server"
                   THEN jobSlots \cup {t} ELSE jobSlots
    /\ UNCHANGED <<req, done, cutting, shutdown, waiters, timedOut>>

\* Mutant: create raises and nobody returns the holds.
CreateRefusedKeepsHolds(t) ==
    /\ prep[t].phase = "acquiring"
    /\ \A c \in prep[t].need : t \in conn[c].holders
    /\ ~open \/ ~M!MayReserve(M!SweptRecords, prep[t].user)
    /\ IF open THEN M!CleanupExpired ELSE UNCHANGED mgr
    /\ FollowManager
    /\ prep' = [prep EXCEPT ![t].phase = "refused"]
    /\ UNCHANGED <<req, jobSlots, done, cutting, shutdown, waiters, timedOut>>

\* create raises, for the quota or because the manager is closed: its except
\* clause returns the holds.  A copy also returns its job slot.
CreateRefused(t) ==
    /\ prep[t].phase = "acquiring"
    /\ \A c \in prep[t].need : t \in conn[c].holders
    /\ ~open \/ ~M!MayReserve(M!SweptRecords, prep[t].user)
    /\ IF open THEN M!CleanupExpired ELSE UNCHANGED mgr
    /\ conn' = Returned({t} \cup {x \in Transfers : /\ rec[x].holds
                                                    /\ ~rec'[x].holds})
    /\ prep' = [prep EXCEPT ![t].phase = "refused"]
    /\ UNCHANGED <<accepting, loop, revoked, req, jobSlots, done, cutting,
                   shutdown, waiters, timedOut>>

----------------------------------------------------------------------------
(* Consumption.                                                            *)

\* An HTTP request presents the token of t at one of the two endpoints.
ConsumeHttp(q, t, endpoint) ==
    /\ req[q].pc = "idle"
    /\ rec[t].dir \in Http
    /\ M!ConsumeToken(t, rec[t].user)
    /\ FollowManager
    /\ req' = [req EXCEPT ![q] = [pc |-> "consumed", transfer |-> t,
                                  endpoint |-> endpoint, outcome |-> "none"]]
    /\ UNCHANGED <<prep, jobSlots, done, cutting, shutdown, waiters, timedOut>>

\* The source of t resolves: its connection is in the pool's dictionary and
\* its user still has access (_resolve_transfer_source).
Resolvable(t) ==
    /\ prep[t].user \notin revoked
    /\ \A c \in prep[t].need : conn[c].phase = "open"

\* _consume goes on to the route.
EnterRoute(q) ==
    LET t == req[q].transfer IN
    /\ req[q].pc = "consumed"
    /\ req[q].endpoint = rec[t].dir
    /\ Resolvable(t)
    /\ req' = [req EXCEPT ![q].pc = "serving"]
    /\ UNCHANGED <<mgr, pool, prep, jobSlots, done, cutting, shutdown, waiters,
                   timedOut>>

\* _consume finds the wrong endpoint or a vanished source, after the token is
\* gone: _unavailable fails the record and answers 404.
RejectConsumed(q) ==
    LET t == req[q].transfer IN
    /\ req[q].pc = "consumed"
    /\ req[q].endpoint # rec[t].dir \/ ~Resolvable(t)
    /\ M!Fail(t, rec[t].user)
    /\ FollowManager
    /\ req' = [req EXCEPT ![q].pc = "rejected"]
    /\ UNCHANGED <<prep, jobSlots, done, cutting, shutdown, waiters, timedOut>>

\* The server-to-server handler consumes the token of its own record.  It
\* reserved its job slot just before it created the record (CreateTransfer); where
\* that is refused the handler returns the holds as CreateRefused does, and the
\* limit of the slots themselves is QuotaManager's.
ConsumeCopy(q, t) ==
    /\ req[q].pc = "idle"
    /\ prep[t].dir = "server_to_server"
    /\ M!ConsumeToken(t, rec[t].user)
    /\ FollowManager
    /\ req' = [req EXCEPT ![q] = [pc |-> "starting", transfer |-> t,
                                  endpoint |-> rec[t].dir, outcome |-> "none"]]
    /\ UNCHANGED <<prep, jobSlots, done, cutting, shutdown, waiters, timedOut>>

\* consume_token refuses because the record was cancelled or the manager
\* closed meanwhile: the handler returns the job slot.
ConsumeCopyRefused(t) ==
    /\ t \in jobSlots
    /\ rec[t].state \in M!Terminal
    /\ \A q \in Requests : req[q].transfer # t
    /\ jobSlots' = jobSlots \ {t}
    /\ UNCHANGED <<mgr, pool, prep, req, done, cutting, shutdown, waiters,
                   timedOut>>

\* lifecycle.start_job, or its refusal once the runtime is shutting down.
StartCopy(q) ==
    /\ req[q].pc = "starting"
    /\ req' = IF accepting
              THEN [req EXCEPT ![q].pc = "serving"]
              ELSE [req EXCEPT ![q].pc = "ended", ![q].outcome = "failed"]
    /\ UNCHANGED <<mgr, pool, prep, jobSlots, done, cutting, shutdown, waiters,
                   timedOut>>

----------------------------------------------------------------------------
(* Carrying a transfer out.                                                *)

\* The I/O is over and its reader or writer is closed.  It can only complete
\* on connections that are still there; it is cancelled when the cancel event
\* is seen (a copy also sees the cancellation of its job at shutdown), or an
\* HTTP client goes away; it can fail at any time.
EndTransfer(q, outcome) ==
    LET t == req[q].transfer IN
    /\ req[q].pc = "serving"
    /\ outcome = "completed" =>
         \A c \in prep[t].need : conn[c].phase = "open" /\ conn[c].alive
    /\ outcome = "cancelled" =>
         \/ rec[t].cancel
         \/ rec[t].dir \in Http
         \/ shutdown \in {"waiting", "waited"}
    /\ req' = [req EXCEPT ![q].pc = "ended", ![q].outcome = outcome]
    /\ UNCHANGED <<mgr, pool, prep, jobSlots, done, cutting, shutdown, waiters,
                   timedOut>>

\* _terminalize asks the manager for the terminal state.
Terminalize(q) ==
    LET t == req[q].transfer IN
    /\ req[q].pc = "ended"
    /\ \/ req[q].outcome = "completed" /\ M!Complete(t, rec[t].user)
       \/ req[q].outcome = "failed"    /\ M!Fail(t, rec[t].user)
       \/ req[q].outcome = "cancelled" /\ M!FinishCancelled(t, rec[t].user)
    /\ FollowManager
    /\ req' = [req EXCEPT ![q].pc = "terminal"]
    /\ UNCHANGED <<prep, jobSlots, done, cutting, shutdown, waiters, timedOut>>

\* record.release_source_holds in the finalizer: nothing if the manager has
\* done it.
FinalizerReleasesHolds(q) ==
    LET t == req[q].transfer IN
    /\ req[q].pc = "terminal"
    /\ IF rec[t].holds THEN M!ReleaseSourceHolds(t) ELSE UNCHANGED mgr
    /\ FollowManager
    /\ req' = [req EXCEPT ![q].pc = "released"]
    /\ UNCHANGED <<prep, jobSlots, done, cutting, shutdown, waiters, timedOut>>

\* The last step of the finalizer: an HTTP request sets request_done_event, a
\* copy returns its job slot.
Finish(q) ==
    LET t == req[q].transfer IN
    /\ req[q].pc = "released"
    /\ req' = [req EXCEPT ![q].pc = "over"]
    /\ IF rec[t].dir \in Http
       THEN done' = done \cup {t} /\ UNCHANGED jobSlots
       ELSE jobSlots' = jobSlots \ {t} /\ UNCHANGED done
    /\ UNCHANGED <<mgr, pool, prep, cutting, shutdown, waiters, timedOut>>

----------------------------------------------------------------------------
(* Everybody else.                                                         *)

\* cancel_transfer by the owner.
UserCancels(t) ==
    /\ M!Cancel(t, rec[t].user)
    /\ FollowManager
    /\ UNCHANGED rest

\* The cleanup_loop of the manager.
ExpireTokens ==
    /\ M!CleanupExpired
    /\ FollowManager
    /\ UNCHANGED rest

TokenDeadline(t) ==
    /\ rec[t].state = "pending"
    /\ M!DeadlinePasses(t)
    /\ UNCHANGED <<pool, rest>>

\* handle_disconnect of the user's last socket and revoke_user_access both
\* cancel the user's transfers first ...
CutOffTransfers(u) ==
    /\ u \notin cutting
    /\ M!CancelAllForUser(u)
    /\ FollowManager
    /\ cutting' = cutting \cup {u}
    /\ UNCHANGED <<prep, req, jobSlots, done, shutdown, waiters, timedOut>>

\* ... and then close the user's connections, held or not.
CutOffConnections(u) ==
    /\ u \in cutting
    /\ P!CloseAllUserConnections(u) \/ P!RevokeUser(u)
    /\ cutting' = cutting \ {u}
    /\ UNCHANGED <<mgr, prep, req, jobSlots, done, shutdown, waiters, timedOut>>

\* quick_disconnect, a transport that dies and is noticed, and the threads
\* that close what was detached.
PoolStep(c) ==
    /\ P!RequestClose(c) \/ P!TransportDies(c) \/ P!DropStale(c)
         \/ P!CloseDetached(c)
    /\ UNCHANGED <<mgr, rest>>

----------------------------------------------------------------------------
(* Shutdown (begin_shutdown).                                              *)

BeginShutdown ==
    /\ shutdown = "up"
    /\ P!StopAccepting
    /\ shutdown' = "closing"
    /\ UNCHANGED <<mgr, prep, req, jobSlots, done, cutting, waiters, timedOut>>

\* The active_transfers callback.
CloseTransfers ==
    /\ shutdown = "closing"
    /\ M!CloseAndCancel(1)
    /\ FollowManager
    /\ waiters' = M!HttpWaiters
    /\ shutdown' = "waiting"
    /\ UNCHANGED <<prep, req, jobSlots, done, cutting, timedOut>>

WaitersDone ==
    /\ shutdown = "waiting"
    /\ waiters \subseteq done
    /\ shutdown' = "waited"
    /\ UNCHANGED <<mgr, pool, prep, req, jobSlots, done, cutting, waiters,
                   timedOut>>

GraceEnds ==
    /\ shutdown = "waiting"
    /\ ~(waiters \subseteq done)
    /\ shutdown' = "waited"
    /\ timedOut' = TRUE
    /\ UNCHANGED <<mgr, pool, prep, req, jobSlots, done, cutting, waiters>>

\* Only then are the deferred cleanup jobs cancelled, and the pool drained.
DrainConnections ==
    /\ shutdown = "waited"
    /\ P!CancelLoop \/ P!DrainPool
    /\ UNCHANGED <<mgr, rest>>

----------------------------------------------------------------------------

Init ==
    /\ rec = [t \in Transfers |-> M!NotCreated]
    /\ open = TRUE
    /\ binding = 1
    /\ \E owner \in [Conns -> Users] :
         conn = [c \in Conns |-> [P!NoConnection EXCEPT
                    !.phase = "open", !.user = owner[c], !.alive = TRUE,
                    !.quota = TRUE]]
    /\ accepting = TRUE
    /\ loop = "running"
    /\ revoked = {}
    /\ prep = [t \in Transfers |->
                 [phase |-> "none", user |-> M!NoUser, sid |-> M!NoSid,
                  dir |-> M!NoDirection, need |-> {}]]
    /\ req = [q \in Requests |-> Idle]
    /\ jobSlots = {}
    /\ done = {}
    /\ cutting = {}
    /\ shutdown = "up"
    /\ waiters = {}
    /\ timedOut = FALSE

Prepare(t) ==
    \/ \E u \in Users, s \in Sids, d \in Directions,
          need \in {S \in SUBSET Conns : Cardinality(S) \in 1..2} :
             BeginPrepare(t, u, s, d, need)
    \/ AcquireNext(t)
    \/ AcquireFails(t)
    \/ CreateTransfer(t)
    \/ CreateRefused(t)
    \/ ConsumeCopyRefused(t)

\* One thread of the server, from consumption to its last step.
Serve(q) ==
    \/ EnterRoute(q)
    \/ RejectConsumed(q)
    \/ StartCopy(q)
    \/ \E outcome \in {"completed", "failed", "cancelled"} :
          EndTransfer(q, outcome)
    \/ Terminalize(q)
    \/ FinalizerReleasesHolds(q)
    \/ Finish(q)

ShutDown ==
    CloseTransfers \/ WaitersDone \/ GraceEnds \/ DrainConnections

Next ==
    \/ \E t \in Transfers : Prepare(t) \/ UserCancels(t) \/ TokenDeadline(t)
    \/ \E q \in Requests, t \in Transfers :
         \/ \E e \in Http : ConsumeHttp(q, t, e)
         \/ ConsumeCopy(q, t)
    \/ \E q \in Requests : Serve(q)
    \/ \E u \in Users : CutOffTransfers(u) \/ CutOffConnections(u)
    \/ \E c \in Conns : PoolStep(c)
    \/ ExpireTokens
    \/ BeginShutdown
    \/ ShutDown

\* Handlers and workers run on; I/O ends, since every SFTP and socket
\* operation has a timeout and the files are finite; the cleanup loops wake
\* up; time passes; a shutdown that has begun goes on.
Fairness ==
    /\ \A t \in Transfers : /\ WF_vars(AcquireNext(t) \/ AcquireFails(t)
                                        \/ CreateTransfer(t) \/ CreateRefused(t))
                            /\ WF_vars(ConsumeCopyRefused(t))
                            /\ WF_vars(TokenDeadline(t))
    /\ \A q \in Requests : WF_vars(Serve(q))
    /\ \A c \in Conns : WF_vars(P!CloseDetached(c) /\ UNCHANGED <<mgr, rest>>)
    /\ WF_vars(ExpireTokens)
    /\ WF_vars(ShutDown)

Spec == Init /\ [][Next]_vars /\ Fairness

----------------------------------------------------------------------------
(* Properties.                                                             *)

\* The holds the pool counts are exactly those of prepared or registered
\* transfers: no path through handler, registry, request and finalizer leaks a
\* hold or returns one twice, although three parties may return it.
HoldLedger ==
    \A c \in Conns :
        conn[c].holders =
          {t \in Transfers : /\ c \in prep[t].need
                             /\ \/ rec[t].holds
                                \/ prep[t].phase = "acquiring"
                                     /\ t \in conn[c].holders}

\* While a request or job does I/O its sources are held, so neither
\* quick_disconnect nor idle cleanup can close them under it ("remain alive
\* while queued or active transfers still reference them").
ServingIsHeld ==
    \A q \in Requests : req[q].pc \in {"serving", "ended"} =>
        \A c \in prep[req[q].transfer].need : req[q].transfer \in conn[c].holders

\* One token serves one request, whatever races for it (consume_token).
OneRequestPerToken ==
    \A q, p \in Requests :
        (q # p /\ req[q].transfer # NoTransfer) =>
            req[q].transfer # req[p].transfer

\* A request that reports itself done has ended its record and returned its
\* holds: whoever waits for request_done_event may tear the pool down.
DoneIsFinal ==
    \A t \in done : rec[t].state \in M!Terminal /\ ~rec[t].holds

\* Unless the grace period runs out, the shutdown drains the pool only after
\* the last HTTP transfer has stopped using it, although requests start, are
\* cancelled and end while it takes its snapshot.
DrainWaitsForHttp ==
    (loop # "running" /\ ~timedOut) =>
        \A q \in Requests : req[q].endpoint \in Http =>
            req[q].pc \notin {"consumed", "serving", "ended"}

\* The handler, the registry, the requests and the pool together: holds balance,
\* I/O keeps its sources, a token serves once, done means done, and the pool
\* outlives the requests.
RequestsSafe ==
    /\ HoldLedger
    /\ ServingIsHeld
    /\ OneRequestPerToken
    /\ DoneIsFinal
    /\ DrainWaitsForHttp

\* Every preparation ends, refused or as a transfer that ends itself, and leaves
\* nothing behind: no slot, no hold, no background job.
TransfersEnd ==
    \A t \in Transfers : (prep[t].phase # "none") ~>
        /\ prep[t].phase = "refused" \/ rec[t].state \in M!Terminal
        /\ ~rec[t].holds
        /\ t \notin jobSlots
        /\ \A c \in Conns : t \notin conn[c].holders

=============================================================================
