------------------------ MODULE BinaryTransferClient ------------------------
(***************************************************************************)
(* The browser's coordinator of uploads and downloads                      *)
(* (static/js/binary-transfer-client.js): one operation at a time, each an *)
(* asynchronous function that awaits a Socket.IO acknowledgement, an HTTP  *)
(* response and the user's answer to a conflict, while cancellation, the   *)
(* transfer_finished event and the cancellation's acknowledgement arrive   *)
(* in whatever order the server produced them.                             *)
(*                                                                         *)
(* A transfer is prepared at most twice: attempt 1 with the conflict       *)
(* policy "error", attempt 2 with "replace".  The server identifies an     *)
(* attempt, so transferId is the attempt's number, 0 for null.             *)
(***************************************************************************)
EXTENDS Naturals, Sequences, FiniteSets, SequencesExt

CONSTANTS Uploads,    \* uploads, of the file workspace or dropped on a terminal
          Downloads,  \* downloads by native navigation
          None        \* no transfer

VARIABLES client,  \* the coordinator: transfers, queue, active operation, sent requests
          server,  \* the server's record of each attempt
          http,    \* the HTTP response of the running attempt, not yet seen by the client
          wire     \* Socket.IO messages to the client, in order

vars == <<client, server, http, wire>>

Transfers == Uploads \cup Downloads
IsUpload(t) == t \in Uploads
Attempts == 1..2

Terminal == {"completed", "cancelled", "skipped", "error"}
Phases == {"absent", "waiting", "called", "preparing", "fetching", "asking",
           "streaming", "returned"}
ServerEnds == {"completed", "failed", "conflict", "cancelled"}

Absent == [status |-> "queued", phase |-> "absent", transferId |-> 0,
           policy |-> 1, prepareStarted |-> FALSE, cancelRequested |-> FALSE,
           cancelSent |-> FALSE, serverFinished |-> FALSE,
           slotReleased |-> FALSE, aborted |-> FALSE]

Terminalized(c, t) == c.tr[t].status \in Terminal

Created(t) == client.tr[t].phase # "absent"

----------------------------------------------------------------------------
(* The coordinator's own steps, as functions of its state.                 *)

\* Sets fields of the transfer's object.
Put(c, t, r) == [c EXCEPT !.tr[t] = r]

\* drainQueue: shifts the queue to the next operation that has not ended, which
\* becomes the active one; its function is called in a later microtask.
DrainQueue(c) ==
    LET first == SelectInSeq(c.queue, LAMBDA t : ~Terminalized(c, t))
    IN  IF c.active # None \/ first = 0 THEN c
        ELSE [c EXCEPT !.active = c.queue[first],
                       !.queue = SubSeq(@, first + 1, Len(@)),
                       !.tr[c.queue[first]].phase = "called"]

\* releaseSlot: once per transfer, which the queue holds at most once.
ReleaseSlot(c, t) ==
    IF c.tr[t].slotReleased THEN c
    ELSE DrainQueue([c EXCEPT !.tr[t].slotReleased = TRUE,
                              !.queue = RemoveFirst(@, t),
                              !.active = IF @ = t THEN None ELSE @])

\* Mutant of Finalize: without the check that the transfer has already ended.
FinalizeAgain(c, t, status, deferRelease) ==
    LET d == [c EXCEPT !.tr[t].status = status]
    IN  IF deferRelease THEN d ELSE ReleaseSlot(d, t)

\* finalize: the first terminal status wins; a deferred release waits for the
\* server to confirm that it has stopped.
Finalize(c, t, status, deferRelease) ==
    IF Terminalized(c, t) THEN c
    ELSE LET d == [c EXCEPT !.tr[t].status = status]
         IN  IF deferRelease THEN d ELSE ReleaseSlot(d, t)

\* cancelPreparedTransfer: asks the server at most once to cancel the attempt.
CancelPreparedTransfer(c, t) ==
    IF c.tr[t].transferId = 0 \/ c.tr[t].cancelSent THEN c
    ELSE [c EXCEPT !.tr[t].cancelSent = TRUE,
                   !.outbox = @ \cup {[ask |-> "cancel", transfer |-> t,
                                       attempt |-> c.tr[t].transferId]}]

\* Mutant of FailOperation: the slot is released although the server may still serve.
FailAndRelease(c, t) == Finalize(c, t, "error", FALSE)

\* failOperation: the slot of a prepared attempt that the server may still be
\* serving is kept until the server answers the cancellation.
FailOperation(c, t) ==
    LET deferRelease == /\ c.active = t
                        /\ c.tr[t].transferId # 0
                        /\ ~c.tr[t].serverFinished
        d == Finalize(c, t, "error", deferRelease)
    IN  IF deferRelease THEN CancelPreparedTransfer(d, t) ELSE d

\* The catch block of upload() and download().
Caught(c, t) ==
    LET d == [c EXCEPT !.tr[t].phase = "returned"]
        unprepared == c.tr[t].transferId = 0
    IN  CASE Terminalized(c, t) -> IF unprepared THEN ReleaseSlot(d, t) ELSE d
          [] ~Terminalized(c, t) /\ c.tr[t].cancelRequested ->
                IF unprepared THEN Finalize(d, t, "cancelled", FALSE) ELSE d
          [] OTHER -> FailOperation(d, t)

\* One turn of upload()'s loop, or download(): the request for a token.
Prepare(c, t) ==
    [c EXCEPT !.tr[t].status = "preparing",
              !.tr[t].phase = "preparing",
              !.tr[t].prepareStarted = TRUE,
              !.tr[t].serverFinished = FALSE,
              !.tr[t].transferId = 0,
              !.outbox = @ \cup {[ask |-> "prepare", transfer |-> t,
                                  attempt |-> c.tr[t].policy]}]

----------------------------------------------------------------------------
(* Operations of the coordinator.                                          *)

\* uploadFile, downloadFile and downloadFolder: createTransfer and enqueue.
Enqueue(t) ==
    /\ ~Created(t)
    /\ client' = DrainQueue([client EXCEPT !.tr[t].phase = "waiting",
                                          !.queue = Append(@, t)])
    /\ UNCHANGED <<server, http, wire>>

\* The microtask that calls the operation of the active slot.  A size above
\* a known limit fails before anything is asked of the server.
RunOperation(t) ==
    /\ client.tr[t].phase = "called"
    /\ client' \in
         IF Terminalized(client, t)
         THEN {ReleaseSlot(Put(client, t, [client.tr[t] EXCEPT !.phase = "returned"]), t)}
         ELSE {Prepare(client, t), Caught(client, t)}
    /\ UNCHANGED <<server, http, wire>>

\* The acknowledgement of prepare_transfer reaches the awaiting function.
OnPrepared(t) ==
    /\ wire # <<>> /\ Head(wire).event = "prepared" /\ Head(wire).transfer = t
    /\ LET c == client
           accepted == [c EXCEPT !.tr[t].transferId = Head(wire).attempt]
           stop == Terminalized(c, t) \/ c.tr[t].cancelRequested
       IN  client' =
             CASE ~Head(wire).ok -> Caught(c, t)
               [] Head(wire).ok /\ stop ->
                    CancelPreparedTransfer(
                        [accepted EXCEPT !.tr[t].phase = "returned"], t)
               [] OTHER ->
                    [accepted EXCEPT
                        !.tr[t].status = IF IsUpload(t) THEN "uploading"
                                                        ELSE "downloading",
                        !.tr[t].phase = IF IsUpload(t) THEN "fetching"
                                                       ELSE "streaming"]
    /\ wire' = Tail(wire)
    /\ UNCHANGED <<server, http>>

\* The upload's HTTP response.  A conflict under the policy "error" is the
\* user's to resolve; every other failure ends the operation.
OnResponse(t) ==
    /\ client.tr[t].phase = "fetching" /\ http[t] # "none"
    /\ ~client.tr[t].aborted
    /\ client' =
         CASE http[t] = "ok" ->
                Finalize([client EXCEPT !.tr[t].phase = "returned"], t, "completed", FALSE)
           [] http[t] = "conflict" /\ client.tr[t].policy = 1 ->
                [client EXCEPT !.tr[t].phase = "asking"]
           [] OTHER -> Caught(client, t)
    /\ http' = [http EXCEPT ![t] = "none"]
    /\ UNCHANGED <<server, wire>>

\* The fetch rejects: the transfer's AbortController was triggered, or the
\* network failed, whatever the server has done or will do.
OnRejected(t) ==
    /\ client.tr[t].phase = "fetching"
    /\ client' = Caught(client, t)
    /\ http' = [http EXCEPT ![t] = "none"]
    /\ UNCHANGED <<server, wire>>

\* The answer to the conflict question.  "replace" asks for a new token with
\* the policy "replace", unless the transfer ended while the question was open.
Decide(t, decision) ==
    /\ client.tr[t].phase = "asking"
    /\ LET c == [client EXCEPT !.tr[t].phase = "returned"]
           again == [c EXCEPT !.tr[t].policy = 2, !.tr[t].transferId = 0,
                              !.tr[t].serverFinished = FALSE]
       IN  client' =
             CASE decision = "replace" /\ ~Terminalized(c, t) -> Prepare(again, t)
               [] decision = "replace" /\ Terminalized(c, t) -> again
               [] decision = "skip" -> Finalize(c, t, "skipped", FALSE)
               [] OTHER -> Finalize(c, t, "cancelled", FALSE)
    /\ UNCHANGED <<server, http, wire>>

\* cancelTransfer: at once when the server knows nothing of the transfer or
\* has finished with it, otherwise a request that the server must answer.
CancelTransfer(t) ==
    LET asked == [client EXCEPT !.tr[t].cancelRequested = TRUE,
                                !.tr[t].aborted = IsUpload(t)]
    IN  /\ Created(t) /\ ~client.tr[t].slotReleased
        /\ ~Terminalized(client, t) /\ ~client.tr[t].cancelRequested
        /\ client' =
             IF ~client.tr[t].prepareStarted \/ client.tr[t].serverFinished
             THEN Finalize(asked, t, "cancelled", FALSE)
             ELSE CancelPreparedTransfer([asked EXCEPT !.tr[t].status = "cancelling"], t)
        /\ UNCHANGED <<server, http, wire>>

\* Mutant of OnCancelAck: an acknowledgement for an ended transfer is ignored.
OnCancelAckIfRunning(t) ==
    /\ wire # <<>> /\ Head(wire).event = "cancelAck" /\ Head(wire).transfer = t
    /\ client' =
         CASE Terminalized(client, t) -> client
           [] ~Terminalized(client, t) /\ Head(wire).state \in {"cancelled", "unavailable"} ->
                Finalize(client, t, "error", FALSE)
           [] OTHER -> client
    /\ wire' = Tail(wire)
    /\ UNCHANGED <<server, http>>

\* The acknowledgement of cancel_transfer.  Only "cancelled" and "unavailable"
\* end a transfer here; every other state waits for transfer_finished.
OnCancelAck(t) ==
    /\ wire # <<>> /\ Head(wire).event = "cancelAck" /\ Head(wire).transfer = t
    /\ client' =
         CASE Terminalized(client, t) -> ReleaseSlot(client, t)
           [] ~Terminalized(client, t) /\ Head(wire).state = "cancelled" ->
                Finalize([client EXCEPT !.tr[t].aborted = IsUpload(t)], t, "cancelled", FALSE)
           [] ~Terminalized(client, t) /\ Head(wire).state = "unavailable" ->
                Finalize(client, t, "error", FALSE)
           [] OTHER -> client
    /\ wire' = Tail(wire)
    /\ UNCHANGED <<server, http>>

\* transfer_finished, for the attempt the transfer is bound to.  A conflict of
\* an upload only records that the server has finished: the HTTP response
\* carries the question.
OnFinished(t) ==
    /\ wire # <<>> /\ Head(wire).event = "finished" /\ Head(wire).transfer = t
    /\ LET m == Head(wire)
           abort == [client EXCEPT !.tr[t].aborted = IsUpload(t)]
           ignored == \/ client.tr[t].transferId # m.attempt
                      \/ client.tr[t].slotReleased
                      \/ Terminalized(client, t)
       IN  client' =
             IF ignored THEN client
             ELSE CASE m.status = "completed" -> Finalize(client, t, "completed", FALSE)
                    [] m.status = "cancelled" -> Finalize(abort, t, "cancelled", FALSE)
                    [] m.status = "conflict" /\ IsUpload(t) ->
                         [client EXCEPT !.tr[t].serverFinished = TRUE]
                    [] OTHER -> Finalize(abort, t, "error", FALSE)
    /\ wire' = Tail(wire)
    /\ UNCHANGED <<server, http>>

----------------------------------------------------------------------------
(* The server (transfer_manager.py and transfer_routes.py, modelled in     *)
(* TransferManager and TransferRequests), as far as the client sees it.    *)

Message(e, t, n) == [event |-> e, transfer |-> t, attempt |-> n, ok |-> TRUE,
                     state |-> "none", status |-> "none"]

\* prepare_transfer creates a record or refuses.
ServePrepare(t) ==
    \E m \in client.outbox, ok \in BOOLEAN :
        /\ m.ask = "prepare" /\ m.transfer = t
        /\ client' = [client EXCEPT !.outbox = @ \ {m}]
        /\ server' = [server EXCEPT ![t][m.attempt] = IF ok THEN "pending" ELSE @]
        /\ wire' = Append(wire, [Message("prepared", t, m.attempt) EXCEPT !.ok = ok])
        /\ UNCHANGED http

\* cancel_with_result and the handler of cancel_transfer: a record nobody
\* serves is cancelled, a running one is asked to stop, a finished one keeps
\* its state.  "unavailable": the request was not admitted, nothing changes.
ServeCancel(t) ==
    \E m \in client.outbox :
        /\ m.ask = "cancel" /\ m.transfer = t
        /\ client' = [client EXCEPT !.outbox = @ \ {m}]
        /\ LET was == server[t][m.attempt]
               now == CASE was = "pending" -> "cancelled"
                        [] was = "running" -> "cancelling"
                        [] OTHER -> was
               ack(s) == [Message("cancelAck", t, m.attempt) EXCEPT !.state = s]
               finished == [Message("finished", t, m.attempt) EXCEPT !.status = "cancelled"]
           IN  \/ /\ server' = [server EXCEPT ![t][m.attempt] = now]
                  /\ wire' = IF was = "pending" THEN wire \o <<finished, ack(now)>>
                             ELSE Append(wire, ack(now))
               \/ /\ wire' = Append(wire, ack("unavailable"))
                  /\ UNCHANGED server
        /\ UNCHANGED http

\* The HTTP request claims the token; a cancelled one is refused.
ServeRequest(t) ==
    /\ client.tr[t].phase \in {"fetching", "streaming"} /\ http[t] = "none"
    /\ LET n == client.tr[t].transferId
       IN  \/ /\ server[t][n] = "pending"
              /\ server' = [server EXCEPT ![t][n] = "running"]
              /\ UNCHANGED http
           \/ /\ server[t][n] = "cancelled" /\ IsUpload(t) /\ ~client.tr[t].aborted
              /\ http' = [http EXCEPT ![t] = "failed"]
              /\ UNCHANGED server
    /\ UNCHANGED <<client, wire>>

\* The request ends: the record is finished first, then transfer_finished is
\* emitted and the response returned.
ServeEnd(t, n) ==
    /\ server[t][n] \in {"running", "cancelling"}
    /\ \E end \in {"completed", "failed"}
                  \cup (IF IsUpload(t) /\ n = 1 THEN {"conflict"} ELSE {})
                  \cup (IF server[t][n] = "cancelling" \/ ~IsUpload(t)
                        THEN {"cancelled"} ELSE {}) :
         /\ server' = [server EXCEPT ![t][n] = end]
         /\ wire' = Append(wire, [Message("finished", t, n) EXCEPT !.status = end])
         /\ http' = IF client.tr[t].phase # "fetching" \/ client.tr[t].transferId # n
                    THEN http
                    ELSE [http EXCEPT ![t] = CASE end = "completed" -> "ok"
                                               [] end = "conflict" -> "conflict"
                                               [] OTHER -> "failed"]
    /\ UNCHANGED client

----------------------------------------------------------------------------
ClientInit ==
    /\ client = [tr |-> [t \in Transfers |-> Absent], queue |-> <<>>,
                 active |-> None, outbox |-> {}]
    /\ server = [t \in Transfers |-> [n \in Attempts |-> "none"]]
    /\ http = [t \in Transfers |-> "none"]
    /\ wire = <<>>

Decisions == {"replace", "skip", "cancel"}

ClientStep(t) ==
    \/ RunOperation(t) \/ OnPrepared(t) \/ OnResponse(t) \/ OnRejected(t)
    \/ OnCancelAck(t) \/ OnFinished(t)

ServerStep(t) ==
    \/ ServePrepare(t) \/ ServeCancel(t) \/ ServeRequest(t)
    \/ \E n \in Attempts : ServeEnd(t, n)

ClientNext ==
    \E t \in Transfers : \/ Enqueue(t) \/ CancelTransfer(t)
                         \/ \E d \in Decisions : Decide(t, d)
                         \/ ClientStep(t) \/ ServerStep(t)

ClientSpec == ClientInit /\ [][ClientNext]_vars

\* The browser runs its microtasks and handlers, the server answers.  The user
\* need neither cancel nor answer.
Progress == \E t \in Transfers : ClientStep(t) \/ ServerStep(t)

FairSpec == ClientSpec /\ WF_vars(Progress)

----------------------------------------------------------------------------
\* The coordinator's phases and ids and the server's states stay in their sets.
ClientTypeOK ==
    /\ client.active \in Transfers \cup {None}
    /\ \A t \in Transfers : /\ client.tr[t].phase \in Phases
                             /\ client.tr[t].transferId \in {0} \cup Attempts
                             /\ \A n \in Attempts : server[t][n] \in
                                   {"none", "pending", "running", "cancelling"} \cup ServerEnds

\* The server never runs two transfers of this client at once, except when one of
\* them has ended for the user and its cancellation is on its way: the slot of
\* drainQueue is held until the server confirms that it has stopped.
OneAtATime ==
    \A t, u \in Transfers : \A n, k \in Attempts :
        server[t][n] = "running" /\ server[u][k] = "running" =>
            \/ t = u /\ n = k
            \/ \E x \in {t, u} : Terminalized(client, x) /\ client.tr[x].cancelSent

\* What the file workspace is promised of each transfer, read off the
\* coordinator's state.
PromiseFor(c, t) ==
    LET created == c.tr[t].phase # "absent"
        ended == Terminalized(c, t)
        asking == c.tr[t].phase = "asking"
    IN  [phase |-> CASE ~created -> "absent"
                     [] created /\ ended -> "ended"
                     [] created /\ ~ended /\ asking -> "asking"
                     [] OTHER -> "running",
         result |-> IF ended THEN c.tr[t].status ELSE "none",
         asked |-> ~ended /\ (c.tr[t].policy = 2 \/ asking),
         cancelling |-> c.tr[t].cancelRequested /\ ~ended]
PromiseNow == [t \in Transfers |-> PromiseFor(client, t)]

P == INSTANCE TransferPromise WITH promise <- PromiseNow

\* The coordinator implements TransferPromise: one question at most, one terminal
\* event, no way back from Cancelling, whatever the order of acknowledgements,
\* responses and transfer_finished.
KeepsPromise == P!PromiseSpec

\* A cancelled upload whose attempt ended in a conflict: transfer_finished is
\* only recorded, the aborted fetch returns silently and the acknowledgement
\* names a state that ends nothing.
Jammed == \E t \in Transfers : client.tr[t].cancelRequested /\ server[t][1] = "conflict"
\* A conflict question is open: the user may take any time.
Asking == \E t \in Transfers : client.tr[t].phase = "asking"

\* A transfer was started and has not given its slot back.
Holding == \E t \in Transfers : Created(t) /\ ~client.tr[t].slotReleased

\* Every transfer ends and gives its slot back, so that the queue behind it
\* starts (releaseSlot), unless the user is being asked or the client is jammed.
SlotsComeFree == Holding ~> (~Holding \/ Asking \/ Jammed)

\* What the coordinator keeps at every moment: its records are of their types
\* and one transfer runs at a time (drainQueue, releaseSlot).
CoordinatorSafe == ClientTypeOK /\ OneAtATime

=============================================================================
