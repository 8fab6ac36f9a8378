# A TLA+ verification of WebSSH

WebSSH (`src/`) is a browser SSH and file client: a Flask/Socket.IO server in
one threaded worker process, a JavaScript front end, and persistent state in one
data directory. This project models the parts of both in which threads, requests,
callbacks, messages, crashes and restarts meet shared state, checks them with TLC
on small instances, and proves the safety of the server's parts and of most of the
browser's with TLAPS for every value of the constants.

`PROJECT.json` is the index: components, runs, mutants, the map from definitions
to source lines, findings, hazards and theorems.

## 1. Inventory

### The server

One Gunicorn worker. Inside it run HTTP request threads, the handlers of
Socket.IO events (in order within one socket: `SOCKETIO_ASYNC_HANDLERS` is off),
reader threads of SSH sessions, jobs of the runtime lifecycle's executor, the main
thread with the signal handlers, and the restore thread. What they share is
protected by a lock per component, and locks are not held across remote I/O: state
read under a lock is regularly used after it.

| Component | State | Operations | Talks to |
|---|---|---|---|
| Quotas `quota_manager.py` | counters per kind, per kind and user | `reserve`, `Reservation.release` | everything that costs something |
| Transfer registry `transfer_manager.py` | records with token, state, cancel event, reservation, holds; runtime binding | create, consume, complete, fail, cancel (one, socket, user, all), expire, close | quotas, source holds, lifecycle |
| Source holds `file_sources.py` | once-released sets of hold callbacks | `acquire_transfer_holds`, `release` | pools |
| Connection pool `connection_pool.py` | connections with owner, hold count, deferred close, quota slot | dial, store, hold, release, close, revoke, idle cleanup, drain | lifecycle, quotas |
| Transfer routes `transfer_routes.py`, `socket_events.py` | running requests and copy jobs | prepare, consume, serve, finalize | registry, holds, lifecycle |
| Runtime lifecycle `runtime_lifecycle.py` | jobs, callbacks, shutdown report | `start_job`, `begin_shutdown`, signals | all background work |
| Restore `restore_service.py`, `maintenance_mode.py`, `backup_manager.py` | data directory, durable status, emergency archive | restore, roll back, recover at start-up, CLI restore | lifecycle, backup operations |
| Backup coordination `backup_coordination.py`, `storage_utils.py` | snapshot barrier, operation lock, storage locks | `persistent_write`, `snapshot`, `operation_lock` | every writer of the data directory |
| SSH attempts `ssh_connection_attempt.py` | attempt state, owned resources | own, hand off, commit, cancel, finish | sessions, quotas, lifecycle |
| SSH output flow `ssh_output_flow.py` | reservations per socket, user, process | reserve, acknowledge, expire, disconnect | reader threads, sockets |
| SSH input budget `ssh_input_budget.py` | two levels of token buckets | `allow` | socket events |
| Socket capacity `socket_capacity.py` | owners, terminal marks, admission locks | reserve, release, terminate, admit | Engine.IO, user lifecycle |
| Backup operations, SMB pool, users, step-up, rate limits, host keys, stores, authentication | rows, grants, windows, files | see `PROJECT.json` | |

### The browser

One thread; what interleaves are user actions, timers, acknowledgements, Socket.IO
events, HTTP responses and a socket that drops. Nothing is atomic over an
acknowledgement, and an answer may belong to something that is gone.

| Component | State | Hard because |
|---|---|---|
| Binary transfers `binary-transfer.js` | one-slot queue, phase, policy and cancellation of a transfer | acknowledgement, HTTP response and `transfer_finished` come in any order |
| Transfer queue, panes, quick sources `sftp-file-manager.js`, `app.js` | rows, moves, conflict dialog, holds on temporary connections; tabs, listings with cursors, picker | a tab is closed, a layout changed or a socket lost while requests are out |
| Connection attempts `app.js`, `session-manager.js` | current request, sessions, banners, candidates | late success against cancellation and time-out |
| Terminals `session-manager.js`, `terminal-manager.js`, `ssh-input.js` | panes, numbered output, input queues | rebuilds, hidden panes, lost acknowledgements |
| Session tools, folder synchronisation, commands, layout | what is shown for which session | answers for a session no longer selected |
| Saved connections, editor, source dialogs, administration, account security | copies of the server's lists, forms, confirmations | another answer, or another user action, comes first |

What correctness means:

* **Who releases what.** A transfer owns a quota slot, holds on one or two
  connections and a token; expiry, cancellation by four parties, the finalizer of
  a request and shutdown all end it. Each resource is returned exactly once, and
  not while a request still uses it.
* **Closing what is in use.** A connection closed by its user while a copy runs is
  closed after the last hold: never earlier, and eventually.
* **Work that begins while everything stops.** Dials in flight, jobs being
  started, transfers being prepared, a second signal, a socket bound while its
  account is revoked: nothing escapes, and the shutdown returns.
* **Replacing or copying the data directory.** A mixture is never served and
  always recoverable; a backup never contains half a write.
* **Limits.** Windows, budgets, slots and sockets are never exceeded, and never
  leak.
* **Answers that come late.** What the page shows, sends or destroys belongs to
  what the user asked for last.

## 2. Modules

| Module | Models |
|---|---|
| `Quota` | the promise of the quotas: what is outstanding stays within the limits |
| `QuotaManager` | the dictionaries of counters; refines `Quota` |
| `TransferManager` | the transfer registry |
| `ConnectionPool` | the pool of temporary SSH connections |
| `TransferRequests` | routes, copy jobs, holds, disconnect, revocation and shutdown; composes `TransferManager` and `ConnectionPool` |
| `RuntimeLifecycle` | jobs and the one shutdown |
| `Restore` | restore, maintenance status, start-up recovery, CLI restore |
| `BackupCoordination` | snapshot barrier, storage locks, operation lock |
| `TransportAdmission` | slots of transports, seats of namespaces, revocation |
| `ConnectJobs` | attempts to connect, from the event to the stored session |
| `OutputFlow` | windows of terminal output and their watchdog |
| `InputBudget` | token buckets of terminal input |
| `TransferPromise` | the promise of one browser transfer: one question at most, one end |
| `BinaryTransferClient` | the transfer coordinator of the page; refines `TransferPromise` |
| `TransferQueue` | rows, copies, moves, conflicts, holds; uses `TransferPromise` for each binary row |
| `FilePanes` | source tabs, listings, cursors, the move picker |
| `ConnectionAttempts` | attempts, cancellation, banners, candidates, restoration |
| `SessionPanes`, `TerminalOutput`, `SshInput` | terminals: panes, output, input |
| `SessionTools`, `DirectorySync`, `CommandTools`, `WorkspaceLayout` | what surrounds a session |
| `SavedHosts`, `FileEditor`, `SourceDialogs`, `AdminConsole`, `AccountSecurity` | lists, forms and confirmations |
| `MC*` | instances for TLC. `MCPromises`, `MCRecovery`, `MCServer`, `MCPages` and `MCClient` put parts that share no state side by side: the initial state chooses the part that runs |
| `*Proofs` | theorems about the modules they extend |

How state and actions correspond to the code:

* **One lock, one action.** A method that does its work under one lock is one
  action, calls it makes under that lock included. A method that leaves the lock
  is several: dialling is `AdmitConnect`, `Reserve`, `Store` or `Abandon`,
  `Discard`. In the browser, one callback is one action.
* **QuotaManager.** `userCounts` and `globalCounts` are the two dictionaries, an
  absent key included (`StoreOrDelete` is the deletion at zero). `Release` is
  idempotent as in the code, so `ReleaseAgain` changes nothing.
* **TransferManager.** `rec[t]` is a record, removed ones included as `Terminal`
  states. Every public method sweeps expired records first (`Swept`). Time is the
  flag `due` that `DeadlinePasses` sets.
* **ConnectionPool.** `conn[c]` goes from the admission check to the closed
  client. The transport, which may die at any moment, and the idle clock are
  external. SMB sources take slots of the same kind, so `Reserve` may be refused
  below the pool's own limit.
* **TransferRequests.** A request or copy job takes one step per lock it takes.
  The registry releases holds under its own lock and nothing can look at it
  meanwhile, so registry and pool move together there.
* **RuntimeLifecycle.** The leader of a shutdown runs through callbacks, first
  cancellation, the wait for the callbacks' waiters, second cancellation and the
  joins; `expired` is the deadline. Signals are handled on the thread `main`.
* **Restore.** `data` gives each file a version, `disk` is the durable status,
  `cache` the process's copy of it, `archive` the emergency archive. One file is
  replaced per step. Faults are counted; their kinds are listed in the module.
* **BackupCoordination.** `Plans` are the sequences of storage keys a handler
  writes under; `Plain` is a write without a key. `readers`, `waiting` and
  `writer` are the barrier's fields, and a nested write passes it.
* **TransportAdmission.** `peer[t]` is what the server knows of one Engine.IO
  transport. Acceptance, admission lock, binding, rejection, disconnect and the
  two passes of `revoke_user_access` are steps of their own.
* **ConnectJobs.** `job[r]` is one attempt with its resources. The executor never
  interrupts a job; a cancellation sets its event.
* **OutputFlow, InputBudget.** Bytes are counted in events and small numbers, time
  in ticks. A thread of `InputBudget` reads the clock before it has the lock.
* **Browser modules.** Messages under way are sets or sequences, according to
  whether the channel keeps their order; a dropped socket empties them. The server
  is modelled as far as its answers depend on it.

Definitions with the comment `Mutant` are deliberate mistakes. They are part of
no specification: each shows that a property notices that mistake.

## 3. Runs

Every bound is a CONSTANT. Deadlock is not checked where the system may stop: an
idle server, or a user who does nothing more, is no error.

| Run | Properties | Instance |
|---|---|---|
| `promises` | `QuotaSafe`, `ImplementsPromise`: exact counters within both limits, `Quota` implemented. `CoordinatorSafe`, `KeepsPromise`, `SlotsComeFree`: one transfer at a time, one end each, the slot comes back | 3 reservations of 1 or 2 units, 2 users, 2 kinds; an upload and a download |
| `pool_and_restore` | `PoolSafe`, `HoldersProtected`, `ClosesHappen`: exact holds, slots that follow resources, no ordinary close under a holder, closes happen. `Transactional`, `FailedMeansOriginal`, `ServiceReturns`: no mixture served, outcomes true, the service comes back | 2 connections, 2 holders, 1 user; 2 files, 3 restores, 4 faults of every kind |
| `transfer_requests` | `RequestsSafe`: the ledger of holds, one request per token, nothing released under a running request, shutdown waits for requests | 2 transfers, 2 requests, 1 connection |
| `transfer_copies` | `TransfersEnd`: every preparation ends and leaves nothing, one whose token nobody uses included | 1 transfer, 1 request, 2 connections |
| `runtime_lifecycle` | `LifecycleSafe`, `ShutdownReturns`: one leader, a report that is true, everyone told, deferred jobs last; callers return although jobs may hang | 3 jobs, 2 workers, 2 callers, 2 callbacks, 1 waiter |
| `server_components` | `RegistrySafe`, `ForwardOnly`, `SnapshotIsWhole`, `FlowCounts`, `CapacitySafe`, `AttemptSafe`, `BudgetHonest`, `ServerSettles` | 2 transfers; 2 writers, 2 copiers; 2 streams, 2 browsers; 3 transports, 2 accounts; 1 attempt of either kind; 2 input sessions, 2 threads, 4 ticks |
| `transfer_queue` | `HoldsBalance`, `QueueDrains`: holds equal the unsettled rows and the move; an unused connection is disconnected; the queue runs dry | 2 copies in a batch, upload, drop, download, move of 2 items |
| `files_and_administration` | `ListingsTrue`: no cursor left open, a pane shows the folder it names, a move moves what was shown, spinners end. `AdminSafe`: dialogs show their user, one action, what is restored is what was seen | 2 tabs, 2 sources; 2 users, 2 archives |
| `connections` | `ConnectionsAgree`, `BusyEnds`: tabs and server sessions agree, a reported cancellation holds, no dead question stays, the form becomes usable again | an attempt, a reconnect, a candidate, 1 lost socket |
| `client_components` | one invariant for each of eleven parts of the page | see `Client.cfg` |
| `backup_pauses` | *violation*, see Findings | 2 handlers, 2 backups |
| `copies_start` | *violation*, see Findings | as `transfer_queue` |

Why the bounds are enough. Two users tell a per-user limit from a global one;
three reservations, or three transports, reach a global limit of two with one
request over. Two holders are the least with a last one and another before it. Two
runtime bindings let a stale one close the registry. Two files are the least that
can be mixed, three restores include one after a failed and one after a recovered
one, and four faults include a kill during the recovery from a kill after a failed
write. Three jobs of which one is deferred, on two workers, leave one queued. Two
writers whose plans use the two storage keys in opposite ways, and a second copier,
are what a deadlock of the barrier needs. In the browser two sessions, tabs or
targets are the least in which an answer can be for the wrong one, and the bounds
on user actions (`Max...Acts`) leave room for: begin, disturb, begin again, and the
late answer to the first.

Symmetry is used in `transfer_requests` and `files_and_administration` only, over
interchangeable sets and without liveness.

### Fairness

* `TransferManager`: the cleanup job runs until the runtime is shut down, which
  cancels every transfer.
* `ConnectionPool`: dials and closes have time-outs (`SSH_CONNECT_TIMEOUT`), the
  cleanup loop runs periodically, a connection nobody touches grows idle, and a
  transfer releases its hold (which `TransferRequests` establishes).
* `TransferRequests`: a request thread goes on (reads and writes have time-outs),
  tokens reach their deadline, the shutdown thread goes on.
* `RuntimeLifecycle`: the deadline passes and a caller that can proceed does.
  No fairness for jobs, callbacks' waiters or signals.
* `Restore`: the thread is not a daemon and goes on; a service manager starts a
  process that ended. The number of faults is bounded, no operator is assumed.
* `BackupCoordination`, `OutputFlow`, `TransportAdmission`, `ConnectJobs`
  (`CoordinationProgress`, `FlowProgress`, `ServerStep`, `JobsProgress`): threads of
  the server go on, deadlines and time-outs pass. A browser need not acknowledge.
* `BinaryTransferClient`, `TransferQueue`, `ConnectionAttempts` (`Progress`):
  messages that are not lost arrive, timers fire, the server answers.

Users, browsers, administrators and operators are never assumed to act.

## 4. Proofs

| Module | Theorems | Assumptions on the constants |
|---|---|---|
| `TransferRequestsProofs` | `RequestsAreSafe` | finite transfers; the three directions of the registry |
| `CoordinationProofs` | `SnapshotsAreWhole`, `AdmissionIsSafe`, `LifecycleIsSafe` | finite, disjoint writers and copiers, any plans; finite transports, any limits; finite jobs, a worker, the main thread is a caller |
| `SessionProofs` | `PoolIsSafe`, `HoldersAreProtected` | finite connections and holders; the same rule on limits |
| | `FlowIsCounted`, `AttemptsAreSafe`, `BudgetIsHonest` | windows, rates and capacities are numbers; finite input sessions |
| | `RestoreIsTransactional` and its parts, `FailureIsHarmless`, `OnlyOperatorEndsRecovery` | finite, non-empty set of files; the first and the last for faults of the kinds io, lost and crash, `FailureIsHarmless` for every kind |
| `CoordinatorProofs` | `CoordinatorStaysSafe`, `CoordinatorKeepsPromise` (refinement of `TransferPromise`) | "none" is no transfer |
| | `AdminStaysSafe` | "nobody" is no administrator and no archive; the bounds are numbers |
| | `QuotaIsSafe` and its parts, `PromiseKept` (refinement of `Quota`) | the constructor's rules on limits; finitely many reservations |
| `TransferQueueProofs` | `HoldsStayBalanced` | finitely many rows; a copy is no upload or download; "no row" is no row |
| `ClientProofs` | `LayoutIsSafe`, `AccountIsSafe`, `CommandsAreSafe`, `InputIsInOrder` | "no flow" and "no factor" are none of the flows and factors; finitely many consoles |
| | `PanesStaySafe` | "no session" is no session; layouts of one to four panes, that of one among them |
| | `SourcesStaySafe` | none |
| | `RegistryIsSafe` and its parts, `RecordsMoveForward`, of the server's registry of transfers | finite transfers; 0 < per-user limit < global limit |
| `ConnectionProofs` | `ConnectionsStayTrue` | finitely many identifiers; those of requests, reconnects and persistent sessions differ, and "none" is none of them |
| `PageProofs` | `ToolsStayHeld`, `EditsStaySafe`, `SyncStaysSafe`, `ScreenStaysInOrder` | "no target" is no target; the marks for keys and line ends are no folders; the lengths of transcripts and queues are numbers |

Every invariant was checked by TLC before it was proved, and TLC evaluates every
assumption on the instances of the runs.

*QuotaManager.* A sum over reservations is the cardinality of the set of units
`<<reservation, i>>` outstanding. Adding a reservation adds a disjoint set of as
many units as its amount, releasing removes it; with these two lemmas
`CountsExact` is inductive, the limits follow, and the guard of `reserve` over
counters is the guard of the abstract `Grant` over reservations, which gives the
refinement.

*TransferManager.* The invariant is pointwise. `RecordInv(r)` relates the fields
of one record; every operation applies a few functions to single records
(`Swept`, `CancelledRecord`, `FinalizedRecord`), and one lemma per function says
that it keeps `RecordInv` and what it does to the state. What concerns the whole
registry is little: a closed registry contains nothing pending, and the set of
records with a slot grows only by a record that the limits admitted.

*ConnectionPool.* Pointwise again: `ConnInv` relates the hold count, the holders,
the deferred close, the slot and the resources of one connection. The limits need
the set of slots, which grows by one connection and only below both limits.

*TransferRequests.* The composition has its own invariant, `LedgerInv`, because what
makes the parts safe together is between them. `RequestInv` says for each place of a
request which states its record can be in; `Passes` is all that operations of others
(cancellation, expiry, disconnect, revocation, shutdown) may do to a record, and a
lemma shows that each request tolerates it. `HoldsInv` is the ledger in both
directions: a transfer is a holder of exactly the connections that its preparation or
its record still keeps, and the count of an open connection is the number of its
holders, so that a release finds the count it takes from and a deferred close finds no
holder left. `DoneInv` and `ShutdownInv` tie the events that
`close_and_cancel` waits for to the requests that set them. The hold sets that end in
one step are returned together (`ReturnedConnection`).

*RuntimeLifecycle.* `LcInv` says for each place of `begin_shutdown` which jobs
have been told, whether callbacks are still due and who is leader. That no job
escapes needs both directions: a job admitted before the flag is in the leader's
snapshot, one after it is refused.

*Restore.* `ServesConsistent` is not inductive: whether the next start may serve
depends on what the status on disk says about the data. `DiskInv` states that for
each status, and is all that a crash preserves. `RunInv` describes
`restore_backup` half way, so that a completed run leaves one version and no
pending follow-up. `PlaceInv` ties each place of `_perform_restore`, of the
recovery and of the CLI to the status, so that the next write of it is true.
`FailedMeansOriginal` also holds when the status is torn from the data by a fault
outside the ones above; its invariant `OutcomeInv` is separate and weaker.

*BackupCoordination.* `BarrierInv`: `readers` and `waiting` are the numbers of
threads that are within a write and of copiers that announced themselves; a copier
past the lock owns the operation; while one copies it is the barrier's writer and
nobody is within. The counters are cardinalities, so that each step adds or removes
one thread.

*TransportAdmission.* `PeerInv` for one transport; `RevocationInv` for the
revocation, which must say who can still slip in at each of its places (`Late`,
`Targeted`, `Leaving`): a handler that read the account before it was barred is
found by the second pass or refuses itself. The limits follow from `RoomIsLeft`,
what an admission left free.

*ConnectJobs.* `JobInv` is pointwise: a commit and an acknowledged cancel exclude
each other, every resource has the owner its place says, and a session outlives its
job only while the account's row was live when it was stored.

*OutputFlow.* `FlowInv`: identifiers are unique and below the counter, each window
is the cardinality of the set of events out, and an armed deadline has a watchdog
that will wake for it.

*InputBudget.* What was let through cannot be bounded directly, since a bucket may
be dropped as stale and made again full, and a thread that read the clock early
may set it back. The invariant is a potential: for every start of a stretch, what
passed since, together with what the bucket holds now, is at most the capacity plus
the rate for the ticks passed and for the ticks threads came late.

*WorkspaceLayout.* `LayInv` and `ViewInv` are over the two records of the
controllers, and each operator on them (`OpenContext`, `MoreMenu`, ...) has a lemma. An
action is a composition of operators, so that its proof composes lemmas.

*AccountSecurity.* `FactorInv` says that what a change found inside its lock is still
so: a checked deletion leaves a factor, a checked enabling has a passkey, and one change
at most is inside unless the history says otherwise. The first attempt failed, rightly:
with a deletion that has been checked, a disabling of MFA and an enrollment, the new
authenticator can have the identity that the deletion removes. Two flows, as in the run
`client_components`, cannot reach it. The history `raced` now covers this overlap as
well, and the accounts of the run may begin with authenticators.

*CommandTools.* A form with a callback is open for the step that was promoted last
(`FormInv`); the list and the request have the same set (`StartInv`); an answer is of
one of four kinds (`AnswersInv`).

*SshInput.* `ConsoleInv` is per console, so that a step about one console leaves the
others (`OthersKeep`). A later piece on its way is the first message to its shell and
follows what the shell was given last; the acknowledgement that is waited for says that
nothing is on its way and whether the piece was given; a pause keeps that knowledge
until the piece is sent again; and what waits behind the first send was never sent, so
it may be given up.

*BinaryTransferClient.* Three layers, each used by the next. `Waits` and `Slots`: the
queue holds each waiting transfer once, and one that was called and has not ended has
the slot. `AttemptInv` ties the two attempts of a transfer, at the server and in the
pending response, to its phase: an ended transfer has nothing at the server that was
not finished or asked to stop. `OutboxInv` and `WireInv` say of each message that
crosses the wire what still waits for it. For the refinement each action is shown to
move the promise of at most one transfer (`Moves`), by one step of `TransferPromise`,
while every other is at most called from the queue, which its promise does not see.

*TransferQueue.* `Ledger` is the property and what it needs: the holds are the
cardinalities of the sets of rows that name a connection (`Users`), one more for the
move, and a connection without a tab is in the set of pending disconnects, so that
`Flush` finds it. It is not inductive without the drain: an answer "replace" brings a row
back, which is right only if the row was settled, and a row is settled only once if an
answer about the first attempt does not meet the second unnoticed. `DrainInv`,
`FirstInv` and `FlightInv` say so: no message is ahead of the attempt of its copy, a
request is answered once, and while its answer is due no cancellation of it is on its
way. `FinalizeRows` is shown once to keep the ledger. For this proof `FirstPending` is
the row at the first pending index, as `find` gives it, in place of the head of a filter;
that a first index exists is the one induction of the proofs, by a least element
(`LeastExists`).

*AdminConsole.* `DialogCall`, `BackupCall` and `FormInv` say for each call in flight
whom it was made for and what the dialog may have become since. A token is for an
archive the server has (`Known`), while an upload in flight is of one that it does not
have yet, so that the token is never for it; one upload is in flight at a time, and an
action holds its channel until it is over.

*ConnectionAttempts.* The property speaks of moments when nothing is under way, and is
inductive only with what the two queues will bring about. The invariant names classes of
messages and says that one is in a queue (`In`), at most once (`Once`), or with another
behind or before it (`Followed`, `Preceded`). `SessionInv`: a session the page shows and
the server does not run has its end on the way, one that only the server runs has its
success, its restoration or its disconnect on the way, and a session the page gave back
has no success left that could open it. `PendingInv`: an attempt the page waits for is
still in its request or came over the socket that is up, and if it is recorded its
success is on the way; a cancellation is behind the request it cancels. `CancelInv`: an
answer "not found" to the cancellation that is waited for, for an attempt that did not
end, is behind the success of that attempt, so that the page has marked it as completed
when the answer ends nothing. `BannerInv`: a question is on its way, on the screen or
answered, once; behind the question of an attempt that no longer waits comes the
attempt's outcome, unless the page had stopped waiting (`late`). Taking and adding a
message have one lemma each (`TakenQueue`, `LongerQueue`), and most steps leave three of
the four parts alone (`SessionsUntouched`, `PendingUntouched`, `CancelsUntouched`,
`BannersUntouched`).

*SessionPanes.* `Sound` (a terminal is in the document exactly while its session is
open, and hangs in the pane assigned to it), `Focus` (input goes to the active pane) and
`Neat` (each session has one pane, and hangs there), the last where no assignment was
`sloppy`. A pane is drawn only where nothing hangs, and each operator on workspaces has
a lemma.

*SourceDialogs.* Queues are taken as the sets of their messages (`QueueFits`). Request
numbers are fresh, so that an answer of a save that the form still waits for brings the
definition that it asked to save (`MessageFits`); a pending attempt was made for the side
of its dialog and was neither given up nor answered (`AttemptInv`). That no connection is
an orphan is then kept by each step: what takes an owner away (a report that is
received) puts another in its place (a listing, or a return under way). The handler of
an ordinary quick connect has no such owner to give once its socket is gone: `adrift`
records those attempts, and the theorem excepts exactly them.

*SessionTools.* That a tool which wants an answer waits for something is not inductive
with requests alone, since the next answer may be the last word. The invariant demands
more: `ProbeInv` a pending probe or a retry as long as SFTP of the selected session is
not settled, `PollInv` a timer as long as its figures are watched.

*FileEditor.* Requests and answers are in the order of their identifiers
(`WireInOrder`); the saves of one edit are in the order of their texts (`SavesInv`); and
while a file is edited everything under way is younger than the request that loaded it
(`YoungerInv`). A revision the editor was given is `Known`: if the file still has it,
its text is one the editor has loaded or written.

*DirectorySync.* Of a user who does not type ahead, `LineInv`: while the line is in use
the browser takes it to be dirty and no prompt is on its way that could clear the mark.
An answer of the probe attests an idle shell only if it was asked after output of the
submitted line (`AskedInv`). A step either replaces a probe or makes it no fresher
(`ComesFrom`), and brings no new line into use (`Eased`).

*TerminalOutput.* What is on the screen, in the writes xterm has not finished and in the
hidden batch is one run of consecutive numbers that ends with the last number seen
(`OneRun`), so that a step moves a boundary inside the run. That the next piece
continues it is a fact about the wire: its pieces are consecutive up to the last one
sent, around the restored event (`WireInv`), and `NothingLost` says that what is not on
its way has been seen or is in the snapshot. When the restored event arrives, the pieces
above the snapshot are an unbroken end of the numbered ones, or there are so many that
the snapshot does not reach into the transcript (`NumberedInv`). For this proof
`Newer` is stated as an end of the sequence in place of a filter.

### Only model-checked

* Every liveness property (`SlotsComeFree`, `ClosesHappen`, `ServiceReturns`,
  `TransfersEnd`, `ShutdownReturns`, `ServerSettles`, `QueueDrains`, `BusyEnds`):
  fairness and ENABLED are out of the prover's reach. The safety part of
  `ServiceReturns` is `OnlyOperatorEndsRecovery`.
* Two invariants of the browser: `ListingsTrue` and `HostsInPlace`. The first relates
  answers in flight, of some sixty actions, to the panes and sources they were asked
  for; the second is about lists that the code sorts and filters, and what a filter or
  a sort computes for every list needs induction over data.

## 5. Findings

1. `backup_pauses`: a write takes its storage lock before it waits for a waiting
   snapshot (`storage_utils.py:37`). The snapshot waits for a writer that is
   within, and that writer may need the same storage lock: all three wait for ever,
   and every later write with them.
2. `copies_start`: `moveItemsWithinSource` ends without processing the queue
   (`sftp-file-manager.js:4910`). A copy queued while a move executes stays
   pending until some other transfer ends.

The quoted lines are in `PROJECT.json`.

### Exempted and noted behaviour

Where the code gives a promise up knowingly, or in a corner that no doc speaks
about, the property names the exemption and the model keeps the behaviour:

* Transfers: a cancellation that crosses a conflict ends nothing (`Jammed`); a
  late acknowledgement of a cancellation is applied to the second attempt of the
  row (`stray answer`); "apply to all" survives the batch.
* Connections: an acknowledgement after more than five seconds leaves the form
  occupied (`late`); a session that ended while the socket was down stays shown
  (`missed`); an ordinary quick connection has no request identity, so its late
  success is opened.
* Sources: the handler of an ordinary quick connect connects for seconds and then
  stores and reports the source without asking whether its socket is still there
  (`socket_events.py:4402`). If the disconnect cleanup (`:1406`) runs meanwhile, the
  source stays open with nobody who lists it (`adrift`), until the cleanup of idle
  connections or the loss of the user's last socket closes it. Attempts
  through a gateway are jobs that the disconnect cancels; they leave nothing.
* Saved connections: a move is answered with the places of the whole list, and a
  connection without one is answered as 0 (`socket_events.py:2548`, `:2575`). The page
  stores that 0, so until the next full list it can sort such a connection elsewhere
  than the server does. `ListsAgree` asks for the same connections in the same groups,
  and for the server's place or that 0.
* Panes: answers for a hidden tab are lost (`missed`); the assignment dialog can be
  applied with a session twice or with one that ended (`sloppy`).
* Forms: the Escape key drops unsaved text (`escaped`) and leaves a callback behind
  (`leftover`), as does a form that is submitted twice before its first answer: the
  second acknowledgement reads whatever callback is set by then; the chosen command
  set diverges from the listed one after creating or deleting it in the dialog
  (`diverged`); a user who types ahead of the prompt
  can have `cd` typed into the line.
* Account security: deleting the last factor and enabling MFA take different locks;
  and MFA can be disabled while a deletion of an authenticator is between its check
  and its commit, after which a new authenticator may be given the same identity and
  be deleted in its place (`raced`). The second was found by the proof, see section 4.
* Restore: `write_status` can raise after it replaced the status
  (`maintenance_mode.py:99`), `public_status` unlinks an expired status without a
  lock (`maintenance_mode.py:227`), and a raising `finally` clause keeps the process
  from restarting (`restore_service.py:167`). These are the fault kinds that the
  theorems with fewer kinds exclude.
* Routes: a request that consumed a token and then finds the wrong direction leaves
  without setting the event a shutdown waits for (`transfer_routes.py:293`); the
  shutdown then waits for its grace period.
* Input: a thread that comes late to the lock sets a bucket's clock back; the bound
  of `BudgetHonest` has a term for it.

## 6. Not modelled

Remote file I/O and protocol translation (SFTP, SMB), cryptography, archive
formats, authentication providers, database schema, audit formatting, translations,
templates and presentation in the browser. Of the layout, low screens with a coarse
pointer in another mode than the phone's, and of the SFTP panel, narrow screens, are
left out; pieces of terminal output are of one size, so that none is cut. The check of a
user's login that callers of the pool make before each call is a guard of `AcquireHold`
and `Touch`. The list of identities that an OIDC action loads again replaces the action
at once, where the code keeps the action's channel until the list has come. The SMB pool is a second instance of the
connection pool's bookkeeping. Requests in flight while a restore replaces files are
not threads of `Restore`. The single-use token of a restore is in `AdminConsole` as
far as the page sees it. `PROJECT.json` lists every component with its reason.

## 7. What is left

1. The proof of `ListingsTrue`.
2. The composition of `TerminalOutput` with `DirectorySync`: a second
   resynchronisation within a replay (`terminal-manager.js:817`) disturbs the count
   of replays that the controller of folders looks at.
3. The transfer between servers, whose rows `TransferQueue` sees from the browser only.
