----------------------------- MODULE ConnectJobs -----------------------------
(***************************************************************************)
(* The jobs that set up interactive SSH sessions, and all that may stop    *)
(* one: handle_ssh_connect with its job connect_ssh, create_ssh_connection,*)
(* the attempts of socket_events.py (direct) and of                        *)
(* ssh_connection_attempt.py (gateway), ssh_connect_cancel, the disconnect *)
(* of the socket, the revocation of the account, the deadline, shutdown.   *)
(*                                                                         *)
(* One socket of one user.  Its receiving thread handles one event at a    *)
(* time, a client's leaving included; the revocation runs in a thread of   *)
(* its own.  The clients, sockets and channels of a session are opened,    *)
(* owned, handed over and closed together.                                 *)
(***************************************************************************)
EXTENDS Naturals, FiniteSets

CONSTANTS Requests     \* client_request_ids the browser sends

VARIABLES job,         \* [Requests -> the attempt and its job]
          listed,      \* requests in _ssh_connect_attempts or SSHAttemptRegistry
          rowLive,     \* the socket has its SocketSession
          leaving,     \* how far handle_disconnect is, and who runs it
          ending,      \* how far revoke_user_access is
          shutdown     \* how far the shutdown is

jobVars == <<job, listed, rowLive, leaving, ending, shutdown>>

\* step: the handler and then the job; held: the handle is known to the attempt;
\* cancelSet, runtimeSet: cancel_event and the event of the lifecycle job; late:
\* the deadline passed; owned, open: the resources; quota, slot: the reservations
\* SSH_SESSION and BACKGROUND_JOB; acked: a cancel was acknowledged; ran: the
\* startup commands were sent; told: what the browser was sent.
Attempt == [step : {"none", "asked", "created", "queued", "reserving", "opening", "opened", "ready", "stored",
                "reading", "sending", "failing", "returned", "checking", "committing",
                "announcing", "ending", "finished", "done"},
        gateway : BOOLEAN, startup : BOOLEAN, held : BOOLEAN,
        state : {"pending", "cancelled", "committed", "finished"},
        cancelSet : BOOLEAN, runtimeSet : BOOLEAN, late : BOOLEAN,
        owned : BOOLEAN, open : BOOLEAN, quota : BOOLEAN, slot : BOOLEAN,
        session : BOOLEAN, failed : BOOLEAN, acked : BOOLEAN, ran : BOOLEAN,
        told : {"nothing", "connected", "error"}]

NoJob == [step |-> "none", gateway |-> FALSE, startup |-> FALSE, held |-> FALSE,
          state |-> "pending", cancelSet |-> FALSE, runtimeSet |-> FALSE, late |-> FALSE,
          owned |-> FALSE, open |-> FALSE, quota |-> FALSE, slot |-> FALSE, session |-> FALSE,
          failed |-> FALSE, acked |-> FALSE, ran |-> FALSE, told |-> "nothing"]

JobsTypeOK ==
    /\ job \in [Requests -> Attempt] /\ listed \subseteq Requests /\ rowLive \in BOOLEAN
    /\ leaving.step \in {"none", "attempts", "registry", "row", "left"}
    /\ ending.step \in {"none", "socket", "sessions", "closing", "returned"} /\ ending.todo \subseteq Requests
    /\ shutdown \in {"no", "signalled", "stopped"}

JobsInit ==
    /\ job = [r \in Requests |-> NoJob] /\ listed = {} /\ rowLive = TRUE
    /\ leaving = [step |-> "none", revoked |-> FALSE]
    /\ ending = [step |-> "none", todo |-> {}] /\ shutdown = "no"

----------------------------------------------------------------------------
(* Cancellation.                                                           *)

\* is_set of _CombinedCancellation and of SSHConnectionAttempt
IsSet(j) == \/ j.cancelSet \/ j.runtimeSet
            \/ j.gateway /\ (j.state = "finished" \/ (j.late /\ j.state # "committed"))

\* SSHConnectionAttempt.cancel, for a reason that a commit does not stop
Stopped(j) ==
    [j EXCEPT !.cancelSet = TRUE, !.state = IF @ = "committed" THEN @ ELSE "cancelled",
              !.runtimeSet = @ \/ j.held, !.open = @ /\ ~j.owned, !.owned = FALSE]

\* _force_cancel_ssh_attempt and its handle
Forced(j) == [j EXCEPT !.cancelSet = TRUE, !.runtimeSet = @ \/ j.held]

Cancelled(j) == IF j.gateway THEN Stopped(j) ELSE [Forced(j) EXCEPT !.state = "cancelled"]

\* commit_if_active
CommitIfActive(j) == IF IsSet(j) \/ j.state \in {"cancelled", "finished"} THEN j
                     ELSE [j EXCEPT !.state = "committed"]

\* close_session: the first to take the session out closes it.
ClosedSession(j) == IF j.session THEN [j EXCEPT !.session = FALSE, !.open = FALSE, !.quota = FALSE] ELSE j

----------------------------------------------------------------------------
(* handle_ssh_connect                                                      *)

JobIs(r, j) == job' = [job EXCEPT ![r] = j] /\ UNCHANGED <<listed, rowLive, leaving, ending, shutdown>>

\* The receiving thread is not in a handle_ssh_connect.
Free == \A q \in Requests : job[q].step # "none" => job[q].held

Ask(r) ==
    /\ job[r].step = "none" /\ rowLive /\ leaving.step = "none"
    /\ Free
    /\ \E g, s \in BOOLEAN : JobIs(r, [NoJob EXCEPT !.step = "asked", !.gateway = g, !.startup = s])

\* The attempt is listed, ...
CreateAttempt(r) ==
    /\ job[r].step = "asked" /\ ~(job[r].gateway /\ shutdown = "stopped")
    /\ job' = [job EXCEPT ![r].step = "created", ![r].slot = job[r].gateway]
    /\ listed' = listed \cup {r}
    /\ UNCHANGED <<rowLive, leaving, ending, shutdown>>

\* ... or the registry refuses it: it stops, or the user has no slot left.
RefuseAttempt(r) ==
    /\ job[r].step = "asked" /\ job[r].gateway
    /\ JobIs(r, [job[r] EXCEPT !.step = "done", !.told = "error", !.held = TRUE])

\* What finish leaves of an attempt
FinishedJob(j) ==
    IF j.gateway THEN [Stopped(j) EXCEPT !.state = "finished", !.slot = FALSE]
    ELSE [j EXCEPT !.state = "finished"]

\* start_job, refused once the shutdown has begun
StartJob(r) ==
    /\ job[r].step = "created"
    /\ IF shutdown = "no" THEN job' = [job EXCEPT ![r].step = "queued"] /\ UNCHANGED listed
       ELSE /\ job' = [job EXCEPT ![r] = [FinishedJob(@) EXCEPT !.step = "done", !.told = "error",
                                                                !.held = TRUE]]
            /\ listed' = listed \ {r}
    /\ UNCHANGED <<rowLive, leaving, ending, shutdown>>

\* attach_handle, while the job may already run
AttachHandle(r) ==
    /\ job[r].step \notin {"none", "asked", "created"} /\ ~job[r].held
    /\ JobIs(r, [job[r] EXCEPT !.held = TRUE, !.runtimeSet = @ \/ job[r].cancelSet])

----------------------------------------------------------------------------
(* connect_ssh and create_ssh_connection                                   *)

To(j, step) == [j EXCEPT !.step = step]

BeginJob(r) ==
    /\ job[r].step = "queued"
    /\ JobIs(r, To(job[r], IF IsSet(job[r]) THEN "ending" ELSE "reserving"))

\* QuotaExceeded, or the session has its reservation.
ReserveSession(r) ==
    LET j == job[r]
    IN  /\ j.step = "reserving"
        /\ \/ JobIs(r, [To(j, "returned") EXCEPT !.failed = TRUE])
           \/ JobIs(r, [To(j, "opening") EXCEPT !.quota = TRUE])

\* The sockets and clients are opened; an attempt that was cancelled meanwhile
\* closes what it is to own.
OpenResources(r) ==
    LET j == job[r]
    IN  /\ j.step = "opening"
        /\ JobIs(r, IF IsSet(j) THEN To(j, "failing")
                    ELSE [To(j, "opened") EXCEPT !.open = TRUE, !.owned = j.gateway])

\* client.connect and the channel: they succeed or raise, and a cancellation is
\* noticed or comes too late to be.
Connect(r) ==
    LET j == job[r]
    IN  /\ j.step = "opened"
        /\ \/ JobIs(r, To(j, "failing"))
           \/ ~IsSet(j) /\ JobIs(r, To(j, "ready"))

\* handoff and the session, under sessions_lock
StoreSession(r) ==
    LET j == job[r]
    IN  /\ j.step = "ready"
        /\ JobIs(r, IF j.gateway /\ IsSet(j) THEN To(j, "failing")
                    ELSE [To(j, "stored") EXCEPT !.session = TRUE, !.owned = FALSE])

\* The finally of create_ssh_connection, when no session was stored
ReleaseResources(r) ==
    /\ job[r].step = "failing"
    /\ JobIs(r, [To(job[r], "returned") EXCEPT !.failed = TRUE, !.quota = FALSE, !.open = FALSE])

GivesUp(j) == [To(ClosedSession(j), "returned") EXCEPT !.failed = TRUE]

\* The reader is started, or refused.
StartReader(r) ==
    LET j == job[r]
    IN  /\ j.step = "stored"
        /\ JobIs(r, IF IsSet(j) \/ shutdown # "no" THEN GivesUp(j) ELSE To(j, "reading"))

\* The last look at the cancellation; startup commands need the commit.
LastLook(r) ==
    LET j == job[r]
        c == CommitIfActive(j)
    IN  /\ j.step = "reading"
        /\ JobIs(r, IF IsSet(j) \/ (j.startup /\ c.state # "committed") THEN GivesUp(j)
                    ELSE IF j.startup THEN To(c, "sending") ELSE To(j, "returned"))

\* send_ssh_input, to a session that may have been closed meanwhile
SendStartup(r) ==
    LET j == job[r]
    IN  /\ j.step = "sending"
        /\ \/ j.session /\ JobIs(r, [To(j, "returned") EXCEPT !.ran = TRUE])
           \/ JobIs(r, GivesUp(j))

----------------------------------------------------------------------------
(* The rest of connect_ssh                                                 *)

Returned(r) ==
    LET j == job[r]
    IN  /\ j.step = "returned"
        /\ JobIs(r, IF IsSet(j) THEN To(ClosedSession(j), "ending")
                    ELSE IF j.failed THEN [To(j, "ending") EXCEPT !.told = "error"]
                    ELSE To(j, "checking"))

\* Mutant of CheckSocket: the socket is taken to be there.
CheckSocketNever(r) == job[r].step = "checking" /\ JobIs(r, To(job[r], "committing"))

\* The SocketSession is looked up.
CheckSocket(r) ==
    LET j == job[r]
    IN  /\ j.step = "checking"
        /\ JobIs(r, IF IsSet(j) \/ ~rowLive THEN To(ClosedSession(j), "ending")
                    ELSE To(j, "committing"))

Commit(r) ==
    LET j == CommitIfActive(job[r])
    IN  /\ j.step = "committing"
        /\ JobIs(r, IF IsSet(j) \/ j.state # "committed" THEN To(ClosedSession(j), "ending")
                    ELSE To(j, "announcing"))

\* get_session, the SSHSession and ssh_connected
Announce(r) ==
    LET j == job[r]
    IN  /\ j.step = "announcing"
        /\ JobIs(r, [To(j, "ending") EXCEPT !.told = IF j.session THEN "connected" ELSE "error"])

\* The finally: the attempt is finished, then no longer listed.
FinishAttempt(r) ==
    /\ job[r].step = "ending" /\ JobIs(r, To(FinishedJob(job[r]), "finished"))

Unlist(r) ==
    /\ job[r].step = "finished"
    /\ job' = [job EXCEPT ![r].step = "done"] /\ listed' = listed \ {r}
    /\ UNCHANGED <<rowLive, leaving, ending, shutdown>>

----------------------------------------------------------------------------
(* What may stop it.                                                       *)

\* handle_ssh_connect_cancel: acknowledged unless a commit or the end was first.
UserCancels(r) ==
    /\ r \in listed /\ rowLive /\ leaving.step = "none"
    /\ Free
    /\ job[r].state \notin {"committed", "finished"} /\ ~job[r].acked
    /\ JobIs(r, [Cancelled(job[r]) EXCEPT !.acked = TRUE])

\* The deadline of a gateway, and the timer that cancels then
GatewayExpires(r) ==
    /\ job[r].gateway /\ job[r].step \notin {"none", "asked", "done"} /\ ~job[r].late
    /\ JobIs(r, [job[r] EXCEPT !.late = TRUE])
GuardFires(r) ==
    /\ job[r].late /\ job[r].state = "pending" /\ ~job[r].cancelSet
    /\ JobIs(r, Stopped(job[r]))

\* handle_disconnect: the direct attempts, the registry, and the row.
CancelDirect ==
    /\ leaving.step = "attempts"
    /\ job' = [r \in Requests |-> IF r \in listed /\ ~job[r].gateway THEN Forced(job[r]) ELSE job[r]]
    /\ leaving' = [leaving EXCEPT !.step = "registry"]
    /\ UNCHANGED <<listed, rowLive, ending, shutdown>>
CancelGateways ==
    /\ leaving.step = "registry"
    /\ job' = [r \in Requests |-> IF r \in listed /\ job[r].gateway /\ job[r].state # "finished"
                                  THEN Stopped(job[r]) ELSE job[r]]
    /\ leaving' = [leaving EXCEPT !.step = "row"]
    /\ UNCHANGED <<listed, rowLive, ending, shutdown>>
DeleteRow ==
    /\ leaving.step = "row" /\ rowLive' = FALSE
    /\ leaving' = [leaving EXCEPT !.step = "left"]
    /\ UNCHANGED <<job, listed, ending, shutdown>>

ClientGoes ==
    /\ leaving.step = "none" /\ Free
    /\ leaving' = [leaving EXCEPT !.step = "attempts"]
    /\ UNCHANGED <<job, listed, rowLive, ending, shutdown>>

\* revoke_user_access: the socket is disconnected, then the sessions stored at
\* that time are closed.  A client's own disconnect that is under way is taken
\* to be over: server.disconnect does not wait for it.
RevokeAccount ==
    /\ ending.step = "none" /\ leaving.step \in {"none", "left"}
    /\ ending' = [ending EXCEPT !.step = "socket"]
    /\ leaving' = IF leaving.step = "none" THEN [step |-> "attempts", revoked |-> TRUE] ELSE leaving
    /\ UNCHANGED <<job, listed, rowLive, shutdown>>
ListSessions ==
    /\ ending.step = "socket" /\ leaving.step = "left"
    /\ ending' = [step |-> "closing", todo |-> {r \in Requests : job[r].session}]
    /\ UNCHANGED <<job, listed, rowLive, leaving, shutdown>>
CloseListed ==
    /\ ending.step = "closing"
    /\ IF ending.todo = {} THEN ending' = [ending EXCEPT !.step = "returned"] /\ UNCHANGED job
       ELSE \E r \in ending.todo : /\ job' = [job EXCEPT ![r] = ClosedSession(@)]
                                   /\ ending' = [ending EXCEPT !.todo = @ \ {r}]
    /\ UNCHANGED <<listed, rowLive, leaving, shutdown>>

\* begin_shutdown signals the jobs, its callback stops the registry.
SignalShutdown ==
    /\ shutdown = "no" /\ shutdown' = "signalled"
    /\ job' = [r \in Requests |-> IF job[r].step \in {"none", "asked", "created", "done"} THEN job[r]
                                  ELSE [job[r] EXCEPT !.runtimeSet = TRUE]]
    /\ UNCHANGED <<listed, rowLive, leaving, ending>>
StopRegistry ==
    /\ shutdown = "signalled" /\ shutdown' = "stopped"
    /\ job' = [r \in Requests |-> IF r \in listed /\ job[r].gateway /\ job[r].state # "finished"
                                  THEN Stopped(job[r]) ELSE job[r]]
    /\ UNCHANGED <<listed, rowLive, leaving, ending>>

----------------------------------------------------------------------------
JobStep(r) ==
    \/ CreateAttempt(r) \/ RefuseAttempt(r) \/ StartJob(r) \/ AttachHandle(r) \/ BeginJob(r) \/ ReserveSession(r)
    \/ OpenResources(r) \/ Connect(r) \/ StoreSession(r) \/ ReleaseResources(r) \/ StartReader(r)
    \/ LastLook(r) \/ SendStartup(r) \/ Returned(r) \/ CheckSocket(r) \/ Commit(r) \/ Announce(r)
    \/ FinishAttempt(r) \/ Unlist(r)
StopStep == CancelDirect \/ CancelGateways \/ DeleteRow \/ ListSessions \/ CloseListed \/ StopRegistry

JobsNext ==
    \/ \E r \in Requests : Ask(r) \/ JobStep(r) \/ UserCancels(r) \/ GatewayExpires(r) \/ GuardFires(r)
    \/ ClientGoes \/ RevokeAccount \/ SignalShutdown \/ StopStep

JobsSpec == JobsInit /\ [][JobsNext]_jobVars

\* Threads run; no network operation of the setup waits for ever.
JobsProgress == StopStep \/ \E r \in Requests : JobStep(r)

----------------------------------------------------------------------------
\* An acknowledged cancel is kept: no ssh_connected, no startup command, and no
\* session that stays (commit_if_active against cancel).
CancelIsKept ==
    \A r \in Requests : job[r].acked =>
        /\ job[r].told # "connected" /\ ~job[r].ran
        /\ job[r].step = "done" => ~job[r].session

\* When a job has ended, its resources and its reservation belong to a stored
\* session the browser was told of, or all of them were given back.
NothingLeaks ==
    \A r \in Requests : job[r].step = "done" =>
        /\ r \notin listed /\ ~job[r].slot /\ ~job[r].owned
        /\ job[r].open = job[r].session /\ job[r].quota = job[r].session
        /\ job[r].session => job[r].told = "connected"

\* Once revoke_user_access returned, no session of the account stays, although
\* jobs went on meanwhile.
RevokedHasNone ==
    ending.step = "returned" =>
        \A r \in Requests : job[r].step = "done" => ~job[r].session

AttemptSafe == JobsTypeOK /\ CancelIsKept /\ NothingLeaks /\ RevokedHasNone

\* Every job that was asked for ends.
JobsOver == \A r \in Requests : job[r].step \in {"none", "done"}
=============================================================================
