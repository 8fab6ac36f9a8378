-------------------------- MODULE RuntimeLifecycle --------------------------
(***************************************************************************)
(* The owner of background work, app/runtime_lifecycle.py: job admission,  *)
(* cooperative cancellation and the one shutdown of the process, which a   *)
(* signal handler and the restore thread may begin at the same time.       *)
(*                                                                         *)
(* What runs under the lifecycle's lock is one action.  The first caller   *)
(* of begin_shutdown leads it through callbacks, cancellation and two      *)
(* bounded waits; the others sleep on the condition until the report is    *)
(* there.  Python delivers signals on the main thread, so the handler is   *)
(* the caller Main.                                                        *)
(*                                                                         *)
(* Abstraction.  Names, owners and the printed report are left out, the    *)
(* clock is the flag expired.  A callback is bounded, as the code asks.    *)
(***************************************************************************)
EXTENDS Naturals, FiniteSets

CONSTANTS Jobs,            \* jobs that may ever be started
          Deferred,        \* those with defer_cancel_until_callbacks
          MaxWorkers,      \* workers of the executor
          Callers,         \* threads that call begin_shutdown
          Main,            \* the one of them that runs signal handlers
          Callbacks,       \* registered shutdown callbacks
          Waiters,         \* events the callbacks may ask to be waited for
          WaitersOf        \* [Callbacks -> SUBSET Waiters]

ASSUME LifecycleAssumption ==
    /\ IsFiniteSet(Jobs)
    /\ Deferred \subseteq Jobs
    /\ MaxWorkers \in Nat \ {0}
    /\ Main \in Callers
    /\ WaitersOf \in [Callbacks -> SUBSET Waiters]

VARIABLES job,        \* what became of each job
          accepting,  \* _accepting_jobs
          started,    \* _shutdown_started
          report,     \* _shutdown_report
          execDown,   \* how often executor.shutdown was called
          execFlag,   \* _executor_shutdown
          pc,         \* where each caller of begin_shutdown is
          snap,       \* handles, as the leader saw them
          toCall,     \* callbacks the leader has not run yet
          asked,      \* callback_waiters
          fired,      \* events that are set
          expired,    \* the deadline has passed
          guard,      \* the signal handler's lock is taken
          exited      \* os._exit, or the previous handler ended the process

lcVars == <<job, accepting, started, report, execDown, execFlag, pc, snap,
            toCall, asked, fired, expired, guard, exited>>

NoJob == [state  |-> "none",       \* or rejected, queued, running, done
          listed |-> FALSE,        \* in _jobs
          cancel |-> FALSE]        \* cancel_event
NoReport == {}                     \* otherwise {what remains}

Leading == {"callbacks", "cancel", "await", "cancelDeferred", "join"}

Unfinished == {j \in Jobs : job[j].state \in {"queued", "running"}}

shutdownVars == <<accepting, started, report, execDown, execFlag, pc, snap,
                  toCall, asked, expired, guard>>

----------------------------------------------------------------------------
(* Jobs.                                                                   *)

\* Mutant: admission is not looked at under the lock.
StartJobAnyway(j) ==
    /\ ~exited
    /\ job[j].state = "none"
    /\ job' = [job EXCEPT ![j].state = "queued", ![j].listed = TRUE]
    /\ UNCHANGED <<shutdownVars, fired, exited>>

\* start_job: registered and submitted, or refused with RuntimeShuttingDown.
StartJob(j) ==
    /\ ~exited
    /\ job[j].state = "none"
    /\ IF accepting
       THEN job' = [job EXCEPT ![j].state = "queued", ![j].listed = TRUE]
       ELSE job' = [job EXCEPT ![j].state = "rejected"]
    /\ UNCHANGED <<shutdownVars, fired, exited>>

\* The executor has a free worker: run sets the worker's job id.
RunJob(j) ==
    /\ ~exited
    /\ job[j].state = "queued"
    /\ Cardinality({i \in Jobs : job[i].state = "running"}) < MaxWorkers
    /\ job' = [job EXCEPT ![j].state = "running"]
    /\ UNCHANGED <<shutdownVars, fired, exited>>

\* target returned or raised.
FinishJob(j) ==
    /\ ~exited
    /\ job[j].state = "running"
    /\ job' = [job EXCEPT ![j].state = "done"]
    /\ UNCHANGED <<shutdownVars, fired, exited>>

\* The future's done callback.
RemoveJob(j) ==
    /\ ~exited
    /\ job[j].state = "done"
    /\ job[j].listed
    /\ job' = [job EXCEPT ![j].listed = FALSE]
    /\ UNCHANGED <<shutdownVars, fired, exited>>

\* The owner of a job cancels it.  The pools keep the handles of the deferred
\* cleanup loops to themselves.
CancelByOwner(j) ==
    /\ ~exited
    /\ j \notin Deferred
    /\ job[j].state \in {"queued", "running", "done"}
    /\ ~job[j].cancel
    /\ job' = [job EXCEPT ![j].cancel = TRUE]
    /\ UNCHANGED <<shutdownVars, fired, exited>>

----------------------------------------------------------------------------
(* begin_shutdown.                                                         *)

\* tuple(self._jobs.values())
Snapshot == {j \in Jobs : job[j].listed}

\* The flag is taken under the lock, by whoever sees it first.
TakesExecutor(c) ==
    /\ execFlag' = TRUE
    /\ pc' = [pc EXCEPT ![c] = IF execFlag THEN "returned" ELSE "closing"]

\* The first locked section: lead, sleep until the report is there, or take it.
Enter(c) ==
    /\ ~exited
    /\ pc[c] = "outside"
    /\ c = Main => guard
    /\ \/ /\ ~started
          /\ started' = TRUE
          /\ accepting' = FALSE
          /\ snap' = Snapshot
          /\ toCall' = Callbacks
          /\ pc' = [pc EXCEPT ![c] = "callbacks"]
          /\ UNCHANGED execFlag
       \/ /\ started /\ report = NoReport
          /\ pc' = [pc EXCEPT ![c] = "asleep"]
          /\ UNCHANGED <<started, accepting, snap, toCall, execFlag>>
       \/ /\ report # NoReport
          /\ TakesExecutor(c)
          /\ UNCHANGED <<started, accepting, snap, toCall>>
    /\ UNCHANGED <<job, report, execDown, asked, fired, expired, guard, exited>>

\* A callback returns its waiters, or raises and is logged.
RunCallback(c, b) ==
    /\ ~exited
    /\ pc[c] = "callbacks"
    /\ b \in toCall
    /\ toCall' = toCall \ {b}
    /\ asked' \in {asked, asked \cup WaitersOf[b]}
    /\ UNCHANGED <<job, accepting, started, report, execDown, execFlag, pc, snap,
                   fired, expired, guard, exited>>

\* The immediate handles are cancelled after the callbacks, the deferred ones
\* after the waiters.
CancelWhen(c, j) ==
    \/ pc[c] = "cancel" /\ j \in snap \ Deferred
    \/ pc[c] = "cancelDeferred" /\ j \in snap \cap Deferred

\* handle.cancel, one handle at a time.
CancelHandle(c, j) ==
    /\ ~exited
    /\ CancelWhen(c, j)
    /\ ~job[j].cancel
    /\ job' = [job EXCEPT ![j].cancel = TRUE]
    /\ UNCHANGED <<shutdownVars, fired, exited>>

\* The events asked for have happened, or the deadline has passed.  They stay
\* set, so waiting for one after the other is waiting for all.
AwaitOver == expired \/ asked \subseteq fired

DeferredTold == \A j \in snap \cap Deferred : job[j].cancel

\* Mutant: the joins have no timeout.
JoinForever == snap \cap Unfinished = {}

\* Every job was joined, or the deadline has passed.
JoinOver == expired \/ snap \cap Unfinished = {}

\* When the leader goes on to its next phase.
PhaseOver(c) ==
    CASE pc[c] = "callbacks"      -> toCall = {}
      [] pc[c] = "cancel"         -> \A j \in snap \ Deferred : job[j].cancel
      [] pc[c] = "await"          -> AwaitOver
      [] pc[c] = "cancelDeferred" -> DeferredTold
      [] pc[c] = "join"           -> JoinOver

Following == [callbacks |-> "cancel", cancel |-> "await",
              await |-> "cancelDeferred", cancelDeferred |-> "join"]

Advance(c) ==
    /\ ~exited
    /\ pc[c] \in Leading \ {"join"}
    /\ PhaseOver(c)
    /\ pc' = [pc EXCEPT ![c] = Following[pc[c]]]
    /\ UNCHANGED <<job, accepting, started, report, execDown, execFlag, snap,
                   toCall, asked, fired, expired, guard, exited>>

\* remaining_jobs + remaining_callbacks
Remaining == (snap \cap Unfinished) \cup (asked \ fired)

\* The last locked section: the report, and everybody is woken.
Report(c) ==
    /\ ~exited
    /\ pc[c] = "join"
    /\ PhaseOver(c)
    /\ report' = {Remaining}
    /\ TakesExecutor(c)
    /\ UNCHANGED <<job, accepting, started, execDown, snap, toCall, asked, fired,
                   expired, guard, exited>>

WakeUp(c) ==
    /\ ~exited
    /\ pc[c] = "asleep"
    /\ report # NoReport
    /\ TakesExecutor(c)
    /\ UNCHANGED <<job, accepting, started, report, execDown, snap, toCall, asked,
                   fired, expired, guard, exited>>

\* executor.shutdown(wait=False, cancel_futures=False): queued jobs still run.
ShutExecutor(c) ==
    /\ ~exited
    /\ pc[c] = "closing"
    /\ execDown' = execDown + 1
    /\ pc' = [pc EXCEPT ![c] = "returned"]
    /\ UNCHANGED <<job, accepting, started, report, execFlag, snap, toCall, asked,
                   fired, expired, guard, exited>>

----------------------------------------------------------------------------
(* Signals.                                                                *)

\* A SIGTERM or SIGINT.  The first one takes the guard; one that interrupts
\* the handler ends the process at once.
Signal ==
    /\ ~exited
    /\ IF guard THEN exited' = TRUE /\ UNCHANGED guard
                ELSE guard' = TRUE /\ UNCHANGED exited
    /\ UNCHANGED <<job, accepting, started, report, execDown, execFlag, pc, snap,
                   toCall, asked, fired, expired>>

\* The handler ends: os._exit when something remains; otherwise the default
\* action ends the process, or the server's own handler has taken note of the
\* signal and the main thread goes on.
HandlerEnds ==
    /\ ~exited
    /\ guard
    /\ pc[Main] = "returned"
    /\ exited' \in IF report = {{}} THEN BOOLEAN ELSE {TRUE}
    /\ guard' = FALSE
    /\ pc' = [pc EXCEPT ![Main] = "outside"]
    /\ UNCHANGED <<job, accepting, started, report, execDown, execFlag, snap,
                   toCall, asked, fired, expired>>

----------------------------------------------------------------------------
(* Environment.                                                            *)

\* An event a callback returned is set: its transfer has come to its end.
Fire(w) ==
    /\ ~exited
    /\ fired' = fired \cup {w}
    /\ UNCHANGED <<job, shutdownVars, exited>>

DeadlinePasses ==
    /\ ~exited
    /\ started
    /\ ~expired
    /\ expired' = TRUE
    /\ UNCHANGED <<job, accepting, started, report, execDown, execFlag, pc, snap,
                   toCall, asked, fired, guard, exited>>

Init ==
    /\ job = [j \in Jobs |-> NoJob]
    /\ accepting = TRUE
    /\ started = FALSE
    /\ report = NoReport
    /\ execDown = 0
    /\ execFlag = FALSE
    /\ pc = [c \in Callers |-> "outside"]
    /\ snap = {} /\ toCall = {} /\ asked = {} /\ fired = {}
    /\ expired = FALSE
    /\ guard = FALSE
    /\ exited = FALSE

Next ==
    \/ \E j \in Jobs : \/ StartJob(j)
                       \/ RunJob(j)
                       \/ FinishJob(j)
                       \/ RemoveJob(j)
                       \/ CancelByOwner(j)
    \/ \E c \in Callers : \/ Enter(c)
                          \/ Advance(c)
                          \/ Report(c)
                          \/ WakeUp(c)
                          \/ ShutExecutor(c)
                          \/ \E b \in Callbacks : RunCallback(c, b)
                          \/ \E j \in Jobs : CancelHandle(c, j)
    \/ Signal
    \/ HandlerEnds
    \/ DeadlinePasses
    \/ \E w \in Waiters : Fire(w)

\* The threads in begin_shutdown keep running and time passes.  Nothing is
\* assumed of the jobs, which may ignore their cancel event, nor of the events
\* the callbacks ask for.
Fairness ==
    /\ WF_lcVars(DeadlinePasses)
    /\ \A c \in Callers :
         /\ WF_lcVars(Advance(c) \/ Report(c) \/ WakeUp(c) \/ ShutExecutor(c)
                       \/ \E b \in Callbacks : RunCallback(c, b))
         /\ \A j \in Jobs : WF_lcVars(CancelHandle(c, j))

Spec == Init /\ [][Next]_lcVars /\ Fairness

----------------------------------------------------------------------------
(* Properties.                                                             *)

\* No job slips between the closing of the admission and the snapshot: once
\* shutdown has begun, whatever is queued or runs is known to its leader.
NoJobEscapes == started => Unfinished \subseteq snap

\* There is one shutdown however many ask for it: one thread at most leads it,
\* only until the report exists, and the executor is shut down once, by the
\* leader or by a later caller (_executor_shutdown).
OneShutdown ==
    /\ Cardinality({c \in Callers : pc[c] \in Leading}) <= 1
    /\ report # NoReport => \A c \in Callers : pc[c] \notin Leading
    /\ execDown + Cardinality({c \in Callers : pc[c] = "closing"}) <= 1

\* An empty report is a promise restore_service builds on: no job runs any
\* more, none will, and every event the callbacks asked for has happened.
EmptyReportMeansQuiet ==
    report = {{}} => Unfinished = {} /\ asked \subseteq fired

\* When begin_shutdown returns, every job it found has been told to stop, also
\* when the grace period was too short.
EveryoneTold ==
    report # NoReport => \A j \in snap : job[j].cancel

\* A deferred job (the pools' cleanup loops, which close the connections) is
\* cancelled only after the transfers waited for have ended or the grace period
\* is over.
DeferredComesLast ==
    \A j \in Deferred : job[j].cancel => expired \/ asked \subseteq fired

\* One shutdown, told to every job, that ends with a truthful report: whatever the
\* callers, the jobs and the clock do meanwhile.
LifecycleSafe ==
    /\ NoJobEscapes
    /\ OneShutdown
    /\ EmptyReportMeansQuiet
    /\ EveryoneTold
    /\ DeferredComesLast

\* Whoever calls begin_shutdown returns within the grace period, however many
\* callers there are and however stuck the jobs, unless the process is gone.
ShutdownReturns ==
    \A c \in Callers : pc[c] # "outside" ~> (pc[c] = "returned" \/ exited)

=============================================================================
