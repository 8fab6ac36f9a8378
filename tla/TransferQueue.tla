--------------------------- MODULE TransferQueue ---------------------------
(***************************************************************************)
(* The transfer queue of the file workspace                                *)
(* (static/js/sftp-file-manager.js): the rows a user sees, the serial      *)
(* execution of server-to-server copies and of moves, the conflict         *)
(* question with its "apply to all" memory, and the holds that keep a      *)
(* temporary connection open while a transfer uses it.  Uploads and        *)
(* downloads are what TransferPromise says of them; its events settle      *)
(* their rows.                                                             *)
(***************************************************************************)
EXTENDS TransferPromise, Naturals, Sequences, FiniteSets, SequencesExt

CONSTANTS Drops,       \* uploads dropped on a terminal, which have no row
          Copies,      \* server-to-server copies
          None,        \* no row
          BatchOf,     \* the selection a copy was started with
          Quick,       \* temporary connections
          Uses,        \* [items -> SUBSET Quick]: the connections an item names
          MoveSource,  \* the temporary connection of the moves
          MoveItems,   \* bound: the items of one move
          MaxActs      \* bound: how often the user acts

VARIABLES transferQueue, \* items in the order they were queued
          status,        \* [items -> status of the row], "settled" once it has ended
          cancelFlags,   \* [items -> SUBSET {"requested", "wasActive"}]
          activeTransfers, isTransferring,
          drain,         \* drainQueuedServerTransfers with transferSSHtoSSH
          move,          \* moveItemsWithinSource
          timer,         \* a processTransferQueue is scheduled
          remembered,    \* conflictAction while applyToAll is set, "none" otherwise
          prompts,       \* who asks about a conflict: "dialog", or the remembered answer
          holds, pendingQuickDisconnects, tabs, connected,
          copy,          \* the server's state of each copy
          inflight,      \* answers and events of copies and moves
          early,         \* terminal events buffered before the acknowledgement
          batch,         \* the upload batch
          lapses,        \* history: the known lapses that have happened
          acts           \* how often the user has acted

queueVars == <<transferQueue, status, cancelFlags, activeTransfers, isTransferring,
               drain, move, timer, remembered, prompts, holds,
               pendingQuickDisconnects, tabs, connected, copy, inflight, early, batch, lapses>>
vars == <<promise, queueVars, acts>>

Files == Uploads \ Drops
Rows == Files \cup Downloads \cup Copies
Unsettled == {"pending", "active", "cancelling"}

\* The rows are finitely many, and a copy is no upload or download.
ASSUME QueueAssumption ==
    IsFiniteSet(Rows) /\ None \notin Rows /\ Copies \cap Transfers = {}

Decisions == {"replace", "skip", "cancel"}

\* transferExecutionInProgress: a drain or a move is under way.
Executing == drain.pc # "idle" \/ move.pc # "idle"

\* updateWorkspaceActions: copies may be queued while another operation executes,
\* everything else waits for its end.
Offered(operation) == operation = "copy" \/ ~Executing

\* The first pending row, None when there is none.
FirstPending(queue, st) ==
    LET k == SelectInSeq(queue, LAMBDA i : st[i] = "pending")
    IN  IF k = 0 THEN None ELSE queue[k]

----------------------------------------------------------------------------
(* Temporary connections.                                                  *)

\* retainTransferSources and releaseTransferSources.
Retained(h, i) == [s \in Quick |-> IF s \in Uses[i] THEN h[s] + 1 ELSE h[s]]
Released(h, S) ==
    [s \in Quick |-> IF h[s] > Cardinality({i \in S : s \in Uses[i]})
                     THEN h[s] - Cardinality({i \in S : s \in Uses[i]}) ELSE 0]

\* hasOutstandingTransferForSource
Outstanding(s, h, st) ==
    h[s] > 0 \/ \E i \in Rows : st[i] \in Unsettled /\ s \in Uses[i]

\* flushPendingQuickDisconnects after holds and rows changed: every pending
\* connection that no tab shows and no transfer uses is disconnected.
Flush(h, st) ==
    LET drop == {s \in pendingQuickDisconnects :
                    s \notin tabs /\ ~Outstanding(s, h, st)}
    IN  /\ pendingQuickDisconnects' = pendingQuickDisconnects \ drop
        /\ connected' = connected \ drop

\* releaseQuickConnectionIfUnused: at once, or when its transfers are over.
ReleaseQuickConnectionIfUnused(s) ==
    IF Outstanding(s, holds, status)
    THEN /\ pendingQuickDisconnects' = pendingQuickDisconnects \cup {s}
         /\ UNCHANGED connected
    ELSE /\ pendingQuickDisconnects' = pendingQuickDisconnects \ {s}
         /\ connected' = connected \ {s}

\* closeSourceTab
CloseSourceTab(s) ==
    /\ s \in tabs
    /\ tabs' = tabs \ {s}
    /\ ReleaseQuickConnectionIfUnused(s)
    /\ UNCHANGED <<promise, transferQueue, status, cancelFlags, activeTransfers,
                   isTransferring, drain, move, timer, remembered, prompts, holds, copy,
                   inflight, early, batch, lapses>>

\* openWorkspaceSource for a connection still in the catalog.
OpenWorkspaceSource(s) ==
    /\ s \in connected \ tabs
    /\ tabs' = tabs \cup {s}
    /\ UNCHANGED <<promise, transferQueue, status, cancelFlags, activeTransfers,
                   isTransferring, drain, move, timer, remembered, prompts, holds,
                   pendingQuickDisconnects, connected, copy, inflight, early, batch, lapses>>

----------------------------------------------------------------------------
(* Rows.                                                                   *)

WasActive(i) ==
    status[i] = "active" \/ (status[i] = "cancelling" /\ "wasActive" \in cancelFlags[i])

\* recordUploadTerminal: an upload counts once in its batch, which closes with
\* its last file.
Recorded(b, S) ==
    LET U == S \cap Files
        done == b.completed + Cardinality(U)
    IN  [b EXCEPT !.completed = done,
                  !.open = @ /\ done < Cardinality(Files)]

\* finalizeTransferById for the rows S, given the running state of the drain
\* and of the move: rows already settled are left alone, the holds are given
\* back, and a scheduled processTransferQueue follows the last active row.
FinalizeRows(S) ==
    LET F == {i \in S : status[i] \in Unsettled}
        st == [i \in Rows |-> IF i \in F THEN "settled" ELSE status[i]]
        h == Released(holds, F)
        act == activeTransfers \ F
        hit == \E i \in F : WasActive(i)
    IN  /\ status' = st
        /\ activeTransfers' = act
        /\ isTransferring' = IF hit THEN act # {} ELSE isTransferring
        /\ timer' = (timer \/ (hit /\ act = {} /\ ~Executing))
        /\ holds' = h
        /\ batch' = Recorded(batch, F)
        /\ Flush(h, st)

\* A promise step's effect on the queue: 'cancelling', and the events complete,
\* error, cancel and skip, for a transfer that has a row.
OnEvents(t) ==
    LET ended == promise[t].phase # "ended" /\ promise'[t].phase = "ended"
        announced == /\ ~promise[t].cancelling /\ promise'[t].cancelling
                     /\ t \in Rows /\ status[t] = "active"
    IN  /\ IF ended /\ t \in Rows
           THEN FinalizeRows({t}) /\ UNCHANGED cancelFlags
           ELSE /\ status' = IF announced THEN [status EXCEPT ![t] = "cancelling"] ELSE status
                /\ cancelFlags' = IF announced
                                  THEN [cancelFlags EXCEPT ![t] = @ \cup {"wasActive"}]
                                  ELSE cancelFlags
                /\ UNCHANGED <<activeTransfers, isTransferring, timer, holds,
                               pendingQuickDisconnects, connected, batch>>
        /\ UNCHANGED <<transferQueue, drain, move, tabs, copy, inflight, early, lapses>>

\* processTransferQueue with the given queue and rows, when nothing is
\* transferring: a queued copy starts the drain, any other row becomes active.
Idle == [pc |-> "idle", item |-> None, batch |-> None]

ProcessQueue(queue, st, running) ==
    LET first == FirstPending(queue, st)
        blocked == isTransferring \/ running \/ first = None
    IN  /\ status' = IF blocked \/ first \in Copies THEN st ELSE [st EXCEPT ![first] = "active"]
        /\ activeTransfers' = IF blocked \/ first \in Copies THEN activeTransfers
                              ELSE activeTransfers \cup {first}
        /\ isTransferring' = (isTransferring \/ (~blocked /\ first \notin Copies))
        /\ drain' = IF ~blocked /\ first \in Copies
                    THEN [pc |-> "loop", item |-> None, batch |-> None]
                    ELSE IF running THEN drain ELSE Idle
        /\ remembered' = IF ~blocked /\ first \in Copies THEN "none" ELSE remembered

\* The timer set when the last active row settled.
ProcessTimer ==
    /\ timer
    /\ timer' = FALSE
    /\ ProcessQueue(transferQueue, status, Executing)
    /\ UNCHANGED <<promise, transferQueue, cancelFlags, move, prompts, holds,
                   pendingQuickDisconnects, tabs, connected, copy, inflight, early, batch, lapses>>

----------------------------------------------------------------------------
(* Uploads and downloads.                                                  *)

\* startUploadBatch, from a drop on a pane or the mobile file input: refused
\* while a copy or a move executes; the remembered answer is forgotten.
StartUploadBatch ==
    /\ ~batch.open /\ batch.completed = 0 /\ Files # {} /\ Offered("upload")
    /\ \A t \in Files : Uses[t] \subseteq tabs
    /\ batch' = [batch EXCEPT !.open = TRUE]
    /\ remembered' = "none"
    /\ UNCHANGED <<promise, transferQueue, status, cancelFlags, activeTransfers,
                   isTransferring, drain, move, timer, prompts, holds,
                   pendingQuickDisconnects, tabs, connected, copy, inflight, early, lapses>>

\* queueTransfer of a client transfer: the client has already queued it.
Queue(t) ==
    /\ status[t] = "absent"
    /\ Begin(t)
    /\ transferQueue' = Append(transferQueue, t)
    /\ holds' = Retained(holds, t)
    /\ ProcessQueue(Append(transferQueue, t), [status EXCEPT ![t] = "pending"], Executing)
    /\ UNCHANGED <<cancelFlags, move, timer, prompts,
                   pendingQuickDisconnects, tabs, connected, copy, inflight, early, batch, lapses>>

\* uploadSingleFileToSSH: the files of a dropped entry arrive one by one.
UploadFile(t) == t \in Files /\ batch.open /\ Queue(t)

\* downloadFileToBrowser and downloadFolderToBrowser, from a selection or as
\* the recovery of a failed download: refused while a copy or move executes.
DownloadFile(t) == t \in Downloads /\ Uses[t] \subseteq tabs /\ Offered("download") /\ Queue(t)

\* FileTransferManager.uploadFile: a file dropped on a terminal; no row.
DropFile(t) ==
    /\ t \in Drops /\ Begin(t)
    /\ UNCHANGED queueVars

\* resolveUploadConflict is called: a remembered answer that is allowed is
\* taken, otherwise a dialog opens.
Ask(memory, allowed) == IF memory \in allowed THEN memory ELSE "dialog"

\* The promise resolves: with the remembered answer, or with the user's, who
\* may ask to apply it to all.
Resolve(by, decision, allowed) ==
    /\ \/ prompts[by] = decision /\ UNCHANGED remembered
       \/ /\ prompts[by] = "dialog" /\ decision \in allowed
          /\ remembered' \in {remembered, decision}
    /\ prompts' = [prompts EXCEPT ![by] = "none"]

\* The answer for an upload, of the workspace or of a terminal.
AnswerUpload(t, decision) ==
    /\ Resolve("upload", decision, Decisions)
    /\ Answer(t, decision)
    /\ OnEvents(t)

\* The upload meets an existing destination.
UploadConflict(t) ==
    /\ \A u \in Uploads : promise[u].phase # "asking"
    /\ AskUser(t)
    /\ prompts' = [prompts EXCEPT !["upload"] = Ask(remembered, Decisions)]
    /\ OnEvents(t)
    /\ UNCHANGED remembered

\* A transfer ends by itself; a question it had asked no longer matters.
TransferEnds(t) ==
    /\ promise[t].phase = "running" /\ End(t)
    /\ OnEvents(t)
    /\ UNCHANGED <<remembered, prompts>>

\* cancelQueuedTransfer of an upload or download row.
CancelRow(t) ==
    /\ t \in Rows /\ status[t] \in {"pending", "active"}
    /\ promise[t].phase = "running" /\ Cancel(t)
    /\ OnEvents(t)
    /\ UNCHANGED <<remembered, prompts>>

----------------------------------------------------------------------------
(* Server-to-server copies.                                                *)

Reply(i, what, n) == [item |-> i, what |-> what, attempt |-> n]

\* executeTransfer with the operation "copy": one row for each selected item,
\* then drainQueuedServerTransfers.  It is offered while another transfer or
\* move executes; the rows then wait.
ExecuteTransfer(b) ==
    LET items == {i \in Copies : BatchOf[i] = b}
        queue == transferQueue \o SetToSeq(items)
        starts == ~Executing /\ ~isTransferring
    IN  /\ items # {} /\ Offered("copy")
        /\ \A i \in items : status[i] = "absent" /\ Uses[i] \subseteq tabs
        /\ transferQueue' = queue
        /\ status' = [i \in Rows |-> IF i \in items THEN "pending" ELSE status[i]]
        /\ holds' = [s \in Quick |->
                        holds[s] + Cardinality({i \in items : s \in Uses[i]})]
        /\ drain' = IF starts THEN [Idle EXCEPT !.pc = "loop"] ELSE drain
        /\ remembered' = IF starts THEN "none" ELSE remembered
        /\ UNCHANGED <<promise, cancelFlags, activeTransfers, isTransferring,
                       move, timer, prompts, pendingQuickDisconnects, tabs,
                       connected, copy, inflight, early, batch, lapses>>

\* The request that transferSSHtoSSH sends, and awaits the acknowledgement of.
Sent(i, n) ==
    /\ copy' = [copy EXCEPT ![i] = [state |-> "asked", attempt |-> n, cancel |-> FALSE]]
    /\ drain' = [pc |-> "ack", item |-> i, batch |-> BatchOf[i]]

\* The loop of drainQueuedServerTransfers: the first pending row, when it is a
\* copy.  A new batch forgets the remembered answer; a file above the known
\* limit fails at once.
DrainNext ==
    LET i == FirstPending(transferQueue, status)
    IN  /\ drain.pc = "loop" /\ i \in Copies
        /\ remembered' = IF BatchOf[i] # drain.batch THEN "none" ELSE remembered
        /\ \/ /\ Sent(i, 1)
              /\ UNCHANGED <<status, activeTransfers, isTransferring, timer, holds,
                             batch, pendingQuickDisconnects, connected>>
           \/ /\ FinalizeRows({i})
              /\ drain' = [drain EXCEPT !.batch = BatchOf[i]]
              /\ UNCHANGED copy
        /\ UNCHANGED <<promise, transferQueue, cancelFlags, move, prompts, tabs,
                       inflight, early, lapses>>

\* The loop ends, and its finally block processes what is left.
DrainEnd ==
    /\ drain.pc = "loop" /\ FirstPending(transferQueue, status) \notin Copies
    /\ ProcessQueue(transferQueue, status, FALSE)
    /\ UNCHANGED <<promise, transferQueue, cancelFlags, move, timer, prompts,
                   holds, pendingQuickDisconnects, tabs, connected, copy, inflight,
                   early, batch, lapses>>

\* After the terminal status of the current copy: the conflict of a first
\* attempt is asked about, everything else returns to the loop.
AfterTerminal(i, end, n) ==
    LET ask == end = "conflict" /\ n = 1
    IN  /\ drain' = [drain EXCEPT !.pc = IF ask THEN "asking" ELSE "loop"]
        /\ prompts' = IF ask THEN [prompts EXCEPT !["copy"] = Ask(remembered, Decisions)]
                      ELSE prompts

\* The acknowledgement of the request.  An early terminal event settles the
\* row at once; a cancellation asked for while it was starting is sent now.
OnCopyAck(i) ==
    \E m \in inflight :
        LET n == m.attempt
            refused == m.what = "refused"
            settles == refused \/ early[i] # "none"
            end == IF refused THEN "over" ELSE early[i]
            cancel == ~settles /\ "requested" \in cancelFlags[i]
        IN  /\ drain.pc = "ack" /\ drain.item = i
            /\ m.item = i /\ m.what \in {"accepted", "refused"}
            /\ inflight' = inflight \ {m}
            /\ early' = [early EXCEPT ![i] = "none"]
            /\ IF settles
               THEN /\ FinalizeRows({i})
                    /\ AfterTerminal(i, end, n)
                    /\ UNCHANGED <<cancelFlags, copy>>
               ELSE /\ status' = [status EXCEPT ![i] = IF cancel THEN "cancelling" ELSE "active"]
                    /\ activeTransfers' = activeTransfers \cup {i}
                    /\ isTransferring' = TRUE
                    /\ cancelFlags' = [cancelFlags EXCEPT ![i] =
                                         IF cancel THEN @ \cup {"wasActive"} ELSE @]
                    /\ copy' = [copy EXCEPT ![i].cancel = cancel]
                    /\ drain' = [drain EXCEPT !.pc = "terminal"]
                    /\ UNCHANGED <<timer, holds, batch, pendingQuickDisconnects,
                                   connected, prompts>>
            /\ UNCHANGED <<promise, transferQueue, move, remembered, tabs, lapses>>

\* Mutant of OnCopyEnd: a terminal event before the acknowledgement is not kept.
OnCopyEndUnbuffered(i) ==
    \E m \in inflight :
        LET mine == drain.item = i /\ m.attempt = copy[i].attempt
        IN  /\ m.item = i /\ m.what \in {"over", "conflict"}
            /\ inflight' = inflight \ {m}
            /\ IF mine /\ drain.pc = "terminal"
               THEN FinalizeRows({i}) /\ AfterTerminal(i, m.what, m.attempt)
               ELSE UNCHANGED <<status, activeTransfers, isTransferring, timer, holds,
                                batch, pendingQuickDisconnects, connected, drain, prompts>>
            /\ UNCHANGED <<promise, transferQueue, cancelFlags, move, remembered,
                           tabs, copy, early, lapses>>

\* s2s_transfer_complete and s2s_transfer_error of the current attempt, before
\* or after its acknowledgement; any other one matches no request.
OnCopyEnd(i) ==
    \E m \in inflight :
        LET mine == drain.item = i /\ m.attempt = copy[i].attempt
        IN  /\ m.item = i /\ m.what \in {"over", "conflict"}
            /\ inflight' = inflight \ {m}
            /\ early' = IF mine /\ drain.pc = "ack" THEN [early EXCEPT ![i] = m.what] ELSE early
            /\ IF mine /\ drain.pc = "terminal"
               THEN FinalizeRows({i}) /\ AfterTerminal(i, m.what, m.attempt)
               ELSE UNCHANGED <<status, activeTransfers, isTransferring, timer, holds,
                                batch, pendingQuickDisconnects, connected, drain, prompts>>
            /\ UNCHANGED <<promise, transferQueue, cancelFlags, move, remembered,
                           tabs, copy, lapses>>

\* The acknowledgement of a copy's cancellation; it speaks of whatever attempt
\* the row is bound to by then.
OnCopyCancelAck(i) ==
    \E m \in inflight :
        LET ends == m.what \in {"ackCancelled", "ackUnavailable"} /\ status[i] \in Unsettled
        IN  /\ m.item = i /\ m.what \in {"ackCancelled", "ackUnavailable", "ackOther"}
            /\ inflight' = inflight \ {m}
            /\ IF ends
               THEN /\ FinalizeRows({i})
                    /\ drain' = IF drain.pc = "terminal" /\ drain.item = i
                                THEN [drain EXCEPT !.pc = "loop"] ELSE drain
               ELSE UNCHANGED <<status, activeTransfers, isTransferring, timer, holds,
                                batch, pendingQuickDisconnects, connected, drain>>
            /\ UNCHANGED <<promise, transferQueue, cancelFlags, move, remembered,
                           prompts, tabs, copy, early>>
            /\ lapses' = IF ends /\ m.attempt # copy[i].attempt
                         THEN lapses \cup {"stray answer"} ELSE lapses

\* cancelQueuedTransfer of a copy: a waiting one is settled, a starting one is
\* marked, a running one is asked to stop (requestS2SCancellation).
CancelCopy(i) ==
    LET starting == drain.pc = "ack" /\ drain.item = i
        running == drain.pc = "terminal" /\ drain.item = i
    IN  /\ status[i] \in {"pending", "active"}
        /\ IF starting \/ running
           THEN /\ status' = [status EXCEPT ![i] = "cancelling"]
                /\ cancelFlags' = [cancelFlags EXCEPT ![i] =
                        @ \cup {IF starting THEN "requested" ELSE "wasActive"}]
                /\ copy' = IF running THEN [copy EXCEPT ![i].cancel = TRUE] ELSE copy
                /\ UNCHANGED <<activeTransfers, isTransferring, timer, holds, batch,
                               pendingQuickDisconnects, connected>>
           ELSE FinalizeRows({i}) /\ UNCHANGED <<cancelFlags, copy>>
        /\ UNCHANGED <<promise, transferQueue, drain, move, remembered, prompts,
                       tabs, inflight, early, lapses>>

\* Mutant of AnswerCopy: the second attempt does not retain the sources again.
AnswerCopyUnheld(decision) ==
    LET i == drain.item
    IN  /\ drain.pc = "asking"
        /\ Resolve("copy", decision, Decisions)
        /\ IF decision = "replace"
           THEN Sent(i, 2) /\ status' = [status EXCEPT ![i] = "pending"]
           ELSE drain' = [drain EXCEPT !.pc = "loop"] /\ UNCHANGED <<status, copy>>
        /\ UNCHANGED <<promise, transferQueue, cancelFlags, move, tabs, inflight, early,
                       holds, activeTransfers, isTransferring, timer, batch,
                       pendingQuickDisconnects, connected, lapses>>

\* The answer for a copy: "replace" retains the sources again and sends a
\* second request; "cancel" settles the rest of the batch too.
AnswerCopy(decision) ==
    LET i == drain.item
        rest == {j \in Copies : status[j] = "pending" /\ BatchOf[j] = BatchOf[i]}
    IN  /\ drain.pc = "asking"
        /\ Resolve("copy", decision, Decisions)
        /\ IF decision = "replace"
           THEN /\ Sent(i, 2)
                /\ status' = [status EXCEPT ![i] = "pending"]
                /\ holds' = Retained(holds, i)
                /\ UNCHANGED <<activeTransfers, isTransferring, timer, batch,
                               pendingQuickDisconnects, connected>>
           ELSE LET S == IF decision = "cancel" THEN rest ELSE {}
                    st == [j \in Rows |-> IF j \in S THEN "settled" ELSE status[j]]
                IN  /\ status' = st
                    /\ holds' = Released(holds, S)
                    /\ Flush(Released(holds, S), st)
                    /\ drain' = [drain EXCEPT !.pc = "loop"]
                    /\ UNCHANGED <<activeTransfers, isTransferring, timer, batch, copy>>
        /\ UNCHANGED <<promise, transferQueue, cancelFlags, move, tabs, inflight, early, lapses>>

\* The server: the handler accepts or refuses, the job ends, a cancellation is
\* answered.  An answer may also be "unavailable": the request was not admitted.
ServeCopy(i) ==
    LET c == copy[i]
    IN  /\ \/ /\ c.state = "asked"
              /\ \/ /\ copy' = [copy EXCEPT ![i].state = "running"]
                    /\ inflight' = inflight \cup {Reply(i, "accepted", c.attempt)}
                 \/ /\ copy' = [copy EXCEPT ![i].state = "ended"]
                    /\ inflight' = inflight \cup {Reply(i, "refused", c.attempt)}
           \/ /\ c.state \in {"running", "cancelling"}
              /\ copy' = [copy EXCEPT ![i].state = "ended"]
              /\ \E end \in {"over"} \cup (IF c.attempt = 1 THEN {"conflict"} ELSE {}) :
                    inflight' = inflight \cup {Reply(i, end, c.attempt)}
           \/ /\ c.cancel
              /\ \/ /\ copy' = [copy EXCEPT ![i].cancel = FALSE, ![i].state =
                                     IF @ = "running" THEN "cancelling" ELSE @]
                    /\ inflight' = inflight \cup {Reply(i, "ackOther", c.attempt)}
                 \/ /\ copy' = [copy EXCEPT ![i].cancel = FALSE]
                    /\ inflight' = inflight \cup {Reply(i, "ackUnavailable", c.attempt)}
                 \/ /\ c.state = "running"
                    /\ copy' = [copy EXCEPT ![i].cancel = FALSE, ![i].state = "ended"]
                    /\ inflight' = inflight \cup {Reply(i, "ackCancelled", c.attempt)}
        /\ UNCHANGED <<promise, transferQueue, status, cancelFlags, activeTransfers,
                       isTransferring, drain, move, timer, remembered, prompts, holds,
                       pendingQuickDisconnects, tabs, connected, early, batch, lapses>>

----------------------------------------------------------------------------
(* Moves within one source.                                                *)

moveKept == <<promise, transferQueue, status, cancelFlags, activeTransfers,
              isTransferring, drain, timer, tabs, copy, inflight, early, batch>>

\* moveItemsWithinSource, from the other pane, a folder drop or the picker.
StartMove ==
    /\ Offered("move") /\ MoveSource \in tabs
    /\ move' = [pc |-> "ack", left |-> MoveItems]
    /\ holds' = [holds EXCEPT ![MoveSource] = @ + 1]
    /\ remembered' = "none"
    /\ UNCHANGED <<moveKept, prompts, pendingQuickDisconnects, connected, lapses>>

\* The next item, or the finally block: the source is released and pending
\* disconnects are flushed; the transfer queue is not processed.
MoveOn(stop) ==
    IF ~stop /\ move.left > 1
    THEN /\ move' = [pc |-> "ack", left |-> move.left - 1]
         /\ UNCHANGED <<holds, pendingQuickDisconnects, connected, lapses>>
    ELSE LET h == [holds EXCEPT ![MoveSource] = IF @ > 0 THEN @ - 1 ELSE 0]
         IN  /\ move' = [pc |-> "idle", left |-> 0]
             /\ holds' = h
             /\ Flush(h, status)
             /\ lapses' = IF FirstPending(transferQueue, status) = None THEN lapses
                          ELSE lapses \cup {"move ended over a waiting row"}

\* The acknowledgement of rename_file, or its timeout: success, a conflict
\* that is asked about without "replace", or a failure that stops the move.
OnMoveReply ==
    /\ move.pc = "ack"
    /\ \/ (\E failed \in BOOLEAN : MoveOn(failed)) /\ UNCHANGED prompts
       \/ /\ move' = [move EXCEPT !.pc = "asking"]
          /\ prompts' = [prompts EXCEPT !["move"] = Ask(remembered, {"skip", "cancel"})]
          /\ UNCHANGED <<holds, pendingQuickDisconnects, connected, lapses>>
    /\ UNCHANGED <<moveKept, remembered>>

AnswerMove(decision) ==
    /\ move.pc = "asking"
    /\ Resolve("move", decision, {"skip", "cancel"})
    /\ MoveOn(decision = "cancel")
    /\ UNCHANGED moveKept

----------------------------------------------------------------------------
Init ==
    /\ PromiseInit
    /\ transferQueue = <<>>
    /\ status = [i \in Rows |-> "absent"]
    /\ cancelFlags = [i \in Rows |-> {}]
    /\ activeTransfers = {} /\ isTransferring = FALSE
    /\ drain = Idle /\ move = [pc |-> "idle", left |-> 0] /\ timer = FALSE
    /\ remembered = "none"
    /\ prompts = [by \in {"upload", "copy", "move"} |-> "none"]
    /\ holds = [s \in Quick |-> 0] /\ pendingQuickDisconnects = {}
    /\ tabs = Quick /\ connected = Quick
    /\ copy = [i \in Copies |-> [state |-> "none", attempt |-> 0, cancel |-> FALSE]]
    /\ inflight = {} /\ early = [i \in Copies |-> "none"]
    /\ lapses = {} /\ acts = 0
    /\ batch = [open |-> FALSE, completed |-> 0]

\* What the user does, answers apart.
User ==
    /\ acts < MaxActs /\ acts' = acts + 1
    /\ \/ \E s \in Quick : CloseSourceTab(s) \/ OpenWorkspaceSource(s)
       \/ StartUploadBatch
       \/ \E t \in Transfers : DownloadFile(t) \/ DropFile(t) \/ CancelRow(t)
       \/ \E b \in Range(BatchOf) : ExecuteTransfer(b)
       \/ \E i \in Copies : CancelCopy(i)
       \/ StartMove

\* The answers to open questions; a remembered one needs no user.
Answered(d) ==
    \/ \E t \in Transfers : AnswerUpload(t, d)
    \/ AnswerCopy(d)
    \/ AnswerMove(d)

\* The browser's own continuations, and the server.
Queued == ProcessTimer \/ DrainNext \/ DrainEnd \/ OnMoveReply
Transferring(t) == UploadFile(t) \/ UploadConflict(t) \/ TransferEnds(t)
Copying(i) == OnCopyAck(i) \/ OnCopyEnd(i) \/ OnCopyCancelAck(i) \/ ServeCopy(i)

System ==
    /\ UNCHANGED acts
    /\ \/ Queued
       \/ \E d \in Decisions : Answered(d)
       \/ \E t \in Transfers : Transferring(t)
       \/ \E i \in Copies : Copying(i)

Next == User \/ System

Spec == Init /\ [][Next]_vars

\* The browser and the server go on as long as they can, and a remembered
\* answer is taken; the user owes nothing.
TakeRemembered(d) ==
    \/ prompts["upload"] = d /\ \E t \in Transfers : AnswerUpload(t, d)
    \/ prompts["copy"] = d /\ AnswerCopy(d)
    \/ prompts["move"] = d /\ AnswerMove(d)

Progress ==
    /\ UNCHANGED acts
    /\ \/ Queued
       \/ \E d \in Decisions : TakeRemembered(d)
       \/ \E t \in Transfers : Transferring(t)
       \/ \E i \in Copies : Copying(i)

Fairness == WF_vars(Progress)

FairSpec == Spec /\ Fairness

----------------------------------------------------------------------------
\* Every hold on a temporary connection belongs to a row that has not ended or to
\* the running move, and each of those has its hold: the ledger that
\* retainTransferSources, finalizeTransferById and the moves keep together.  The
\* exempted lapse: a late answer to a cancellation ends the row's second attempt.
HoldsExact ==
    "stray answer" \in lapses \/ \A s \in Quick :
        holds[s] = Cardinality({i \in Rows : status[i] \in Unsettled /\ s \in Uses[i]})
                   + (IF move.pc # "idle" /\ MoveSource = s THEN 1 ELSE 0)

\* A temporary connection whose tab was closed is disconnected as soon as no
\* transfer needs it: whichever row, move or answer was the last to use it,
\* flushPendingQuickDisconnects follows.
UnusedIsDisconnected ==
    \A s \in connected \ tabs : Outstanding(s, holds, status)

\* The connections of the transfers: exact holds, and no connection kept for
\* nobody.
HoldsBalance == HoldsExact /\ UnusedIsDisconnected

Asking == \E by \in DOMAIN prompts : prompts[by] = "dialog"
Waiting == \E i \in Rows : status[i] \in Unsettled

\* The queue runs dry: every row ends, or the user is being asked.  The exempted
\* lapses are the stray answer and a move that ends over a waiting row.
QueueDrains == Waiting ~> (~Waiting \/ Asking \/ lapses # {})

\* What the tests say of queued copies: they start after earlier work is
\* terminal.  A move is earlier work too, and its end processes no queue.
CopiesStart == Waiting ~> (~Waiting \/ Asking \/ "stray answer" \in lapses)

=============================================================================
