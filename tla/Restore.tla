------------------------------ MODULE Restore ------------------------------
(***************************************************************************)
(* The transactional web restore: _perform_restore of restore_service.py,  *)
(* the restart-surviving status of maintenance_mode.py, restore_backup of  *)
(* backup_manager.py, the start-up sequence of create_app that recovers an *)
(* interrupted restore, and the CLI restore that leaves recovery           *)
(* maintenance.                                                            *)
(*                                                                         *)
(* The data directory is a set of files, each with the version it was last *)
(* given; restore k of the web installs version k.  A file is replaced     *)
(* atomically, the set of them is not: that is what the emergency archive  *)
(* and the status on disk are for.  The process may be killed between any  *)
(* two steps; the status file, the data and the archive survive, memory    *)
(* (the cached status included) does not.                                  *)
(*                                                                         *)
(* Abstraction.  The archive's format and its verification are left out,   *)
(* as are messages and time stamps: an archive is a version, a bad one a   *)
(* failing restore.  Faults are counted against MaxFaults; the kinds are:  *)
(*   io        a step of the restore raises                                *)
(*   lost      writing the status raises before os.replace                 *)
(*   unsynced  the status is replaced, then fsync_parent_directory raises  *)
(*   cleanup   removing an operation directory raises                      *)
(*   poll      a status request is slow between its read and its unlink    *)
(*   crash     the process is killed                                       *)
(***************************************************************************)
EXTENDS Naturals, FiniteSets

CONSTANTS Files,         \* persistent files of DATA_DIR
          MaxRestores,   \* bound: web restores that may be begun
          MaxFaults      \* bound: faults that may happen

\* The kinds of fault, and those that the restore is written to survive.
AllFaults == {"io", "lost", "unsynced", "cleanup", "poll", "crash"}
Survivable == {"io", "lost", "crash"}
FaultRecord == [number : 0 .. MaxFaults, beyond : SUBSET AllFaults]

ASSUME RestoreAssumption ==
    /\ IsFiniteSet(Files) /\ Files # {}
    /\ Files \cap {"sanitize", "rotate"} = {}
    /\ MaxRestores \in Nat
    /\ MaxFaults \in Nat

VARIABLES data,      \* version of each file in DATA_DIR
          pending,   \* follow-up work the last replaced file made necessary
          disk,      \* state in restore-status.json
          diskOp,    \* operation_id in it: the number of the restore
          cache,     \* _state: what this process last read or wrote of it
          archive,   \* what rollback.zip of the current operation holds
          pc,        \* where the process is
          todo,      \* what restore_backup and its follow-up have left to do
          before,    \* data when restore_backup began
          stopped,   \* runtime_stopped: begin_shutdown has returned
          rbFailed,  \* rollback_failed
          poll,      \* a status request has read an expired status
          count,     \* restores begun so far
          prior,     \* history: the data when the last one began
          faults     \* faults so far: their number and the kinds not survivable

memory == <<cache, todo, before, stopped, rbFailed, poll>>
rsVars == <<data, pending, disk, diskOp, archive, pc, count, prior, faults, memory>>

All(v) == [f \in Files |-> v]
NoArchive == <<>>
FollowUp == {"sanitize", "rotate"}      \* after every file is in place
Rescue == MaxRestores + 1               \* version of the operator's own backup
Versions == 0 .. Rescue

Active == {"preparing", "in_progress", "rollback_failed"}
Status == Active \cup {"none", "succeeded", "failed"}

\* Runs of restore_backup followed by the sanitizer and a new session epoch.
Jobs == {"replace", "rollback", "recover", "cli"}
\* Places of _perform_restore in which begin_preparing has succeeded.
Restoring == {"shutdown", "snapshot", "mark", "replace", "succeed", "rollback"}
\* Places in which the web process answers requests.
Up == {"idle", "prepare", "fail", "clean", "stuck", "maintenance"} \cup Restoring
Booting == {"boot", "untouched", "recover", "recovered", "giveup", "settle"}
Places == Up \cup Booting \cup {"down", "cli", "clear"}

\* _read: the process's memory first, then the file.
Read == IF cache = "unset" THEN disk ELSE cache
IsActive == Read \in Active

Fault(kind) ==
    /\ faults.number < MaxFaults
    /\ faults' = [number |-> faults.number + 1,
                  beyond |-> faults.beyond \cup ({kind} \ Survivable)]

-----------------------------------------------------------------------------
(* Writing the status: _write. *)

\* A recovering process reports on the operation it found in the status.
Operation == IF pc \in Booting THEN diskOp ELSE count

\* The status becomes s and the process goes on at next; when the write raises
\* it goes on at err.  os.replace is the moment the file changes, the memory
\* follows only when the directory was synced as well.
Write(s, next, err) ==
    \/ /\ disk' = s /\ diskOp' = Operation
       /\ cache' = s
       /\ pc' = next
       /\ UNCHANGED faults
    \/ /\ Fault("lost")
       /\ pc' = err
       /\ UNCHANGED <<disk, diskOp, cache>>
    \/ /\ Fault("unsynced")
       /\ disk' = s /\ diskOp' = Operation
       /\ pc' = err
       /\ UNCHANGED cache

\* What a status write leaves alone, the job that may begin after it aside.
Untouched == <<data, pending, archive, stopped, rbFailed, poll, count, prior>>

\* A run of restore_backup begins whenever the process moves to one of Jobs.
BeginsJob ==
    IF pc' \in Jobs /\ pc' # pc
    THEN todo' = Files \cup FollowUp /\ before' = data
    ELSE UNCHANGED <<todo, before>>

-----------------------------------------------------------------------------
(* restore_backup, the sanitizer and the epoch, wherever they are called *)

Source == CASE pc = "replace" -> All(count)
            [] pc \in {"rollback", "recover"} -> archive
            [] pc = "cli" -> All(Rescue)

\* Where the caller goes when the run is complete, and when it raises.
AfterJob == CASE pc = "replace" -> "succeed"
              [] pc = "rollback" -> "fail"
              [] pc = "recover" -> "recovered"
              [] pc = "cli" -> "clear"
HandlerOfJob == CASE pc = "replace" -> "rollback"
                  [] pc = "rollback" -> "fail"
                  [] pc = "recover" -> "giveup"
                  [] pc = "cli" -> "down"

\* _restore_staged_files replaces one file.
CopyFile(f) ==
    /\ pc \in Jobs
    /\ f \in todo \cap Files
    /\ Source # NoArchive
    /\ data' = [data EXCEPT ![f] = Source[f]]
    /\ pending' = IF data[f] = Source[f] THEN pending ELSE FollowUp
    /\ todo' = todo \ {f}
    /\ UNCHANGED <<disk, diskOp, cache, archive, pc, before, stopped, rbFailed, poll,
                   count, prior, faults>>

\* sanitize_restored_authentication_state, then reset_cache and rotate_epoch;
\* after the second the caller goes on.
DoFollowUp(w) ==
    /\ pc \in Jobs
    /\ todo \cap Files = {}
    /\ w \in todo
    /\ w = "rotate" => "sanitize" \notin todo
    /\ pending' = pending \ {w}
    /\ todo' = todo \ {w}
    /\ pc' = IF todo = {w} THEN AfterJob ELSE pc
    /\ UNCHANGED <<data, disk, diskOp, cache, archive, before, stopped, rbFailed,
                   poll, count, prior, faults>>

\* The run raises: the archive is not there, or a step of it fails.  While files
\* are being replaced restore_backup undoes what it did, and each undo may fail.
JobFails ==
    /\ pc \in Jobs
    /\ IF Source = NoArchive THEN UNCHANGED faults ELSE Fault("io")
    /\ \E undone \in SUBSET Files :
         /\ todo \cap Files = {} => undone = {}
         /\ data' = [f \in Files |-> IF f \in undone THEN before[f] ELSE data[f]]
    /\ rbFailed' = (rbFailed \/ pc = "rollback")
    /\ pc' = HandlerOfJob
    /\ todo' = IF pc = "replace" THEN Files \cup FollowUp ELSE todo
    /\ before' = IF pc = "replace" THEN data' ELSE before
    /\ cache' = IF pc = "cli" THEN "unset" ELSE cache
    /\ UNCHANGED <<pending, disk, diskOp, archive, stopped, poll, count, prior>>

-----------------------------------------------------------------------------
(* _perform_restore *)

\* The route has claimed the verified upload and starts the restore thread.
\* The operation's directory is new, so it holds no rollback archive yet.
StartRestore ==
    /\ pc \in {"idle", "stuck"}
    /\ ~IsActive
    /\ count < MaxRestores
    /\ count' = count + 1
    /\ prior' = data
    /\ archive' = NoArchive
    /\ rbFailed' = FALSE
    /\ pc' = "prepare"
    /\ UNCHANGED <<data, pending, disk, diskOp, cache, todo, before, stopped, poll,
                   faults>>

\* Where an exception of the try block leads.
Handler == IF archive # NoArchive THEN "rollback" ELSE "fail"

BeginPreparing ==
    /\ pc = "prepare"
    /\ Write("preparing", "shutdown", "fail")
    /\ UNCHANGED <<Untouched, todo, before>>

\* begin_shutdown returns; runtime_stopped is set even if activity remains, in
\* which case the restore gives up.
StopRuntime ==
    /\ pc = "shutdown"
    /\ stopped' = TRUE
    /\ pc' \in {"snapshot", "fail"}
    /\ UNCHANGED <<data, pending, disk, diskOp, cache, archive, todo, before,
                   rbFailed, poll, count, prior, faults>>

\* create_online_backup writes the emergency archive.
TakeSnapshot ==
    /\ pc = "snapshot"
    /\ archive' = data
    /\ pc' = "mark"
    /\ UNCHANGED <<data, pending, disk, diskOp, count, prior, faults, memory>>

\* operation_lock, closing the connections or the snapshot raises.
PreparationFails ==
    /\ pc \in {"prepare", "snapshot"}
    /\ Fault("io")
    /\ pc' = "fail"
    /\ UNCHANGED <<data, pending, disk, diskOp, archive, count, prior, memory>>

MarkInProgress ==
    /\ pc = "mark"
    /\ Write("in_progress", "replace", Handler)
    /\ BeginsJob
    /\ UNCHANGED Untouched

MarkSucceeded ==
    /\ pc = "succeed"
    /\ Write("succeeded", "clean", Handler)
    /\ BeginsJob
    /\ UNCHANGED Untouched

\* Mutant: a failed rollback is reported as an ordinary failure.
MarkFailedAlways ==
    /\ pc = "fail"
    /\ Write("failed", "clean", "clean")
    /\ UNCHANGED <<Untouched, todo, before>>

\* mark_failed in the exception handler.  The finally clause runs even if it
\* raises.
MarkFailed ==
    /\ pc = "fail"
    /\ Write(IF rbFailed THEN "rollback_failed" ELSE "failed", "clean", "clean")
    /\ UNCHANGED <<Untouched, todo, before>>

\* The finally clause: the operation's directory goes, unless it is needed, and
\* the process ends if its runtime was stopped.
Finally ==
    /\ pc = "clean"
    /\ archive' = IF rbFailed THEN archive ELSE NoArchive
    /\ pc' = IF stopped THEN "down" ELSE "idle"
    /\ cache' = IF stopped THEN "unset" ELSE cache
    /\ stopped' = FALSE
    /\ rbFailed' = FALSE
    /\ poll' = (poll /\ ~stopped)
    /\ UNCHANGED <<data, pending, disk, diskOp, todo, before, count, prior, faults>>

\* Removing the directory raises: the thread ends there, and restart_callback is
\* not called.
FinallyRaises ==
    /\ pc = "clean"
    /\ ~rbFailed
    /\ Fault("cleanup")
    /\ pc' = IF stopped THEN "stuck" ELSE "idle"
    /\ UNCHANGED <<data, pending, disk, diskOp, archive, count, prior, memory>>

-----------------------------------------------------------------------------
(* public_status, which forgets a finished restore after a while *)

\* Mutant: a failed rollback expires as well.
ExpireAny ==
    /\ pc \in Up
    /\ Read \in {"succeeded", "failed", "rollback_failed"}
    /\ disk' = "none"
    /\ cache' = "unset"
    /\ UNCHANGED <<data, pending, diskOp, archive, pc, todo, before, stopped,
                   rbFailed, poll, count, prior, faults>>

\* The common case: nobody writes the status between the read and the unlink.
ExpireStatus ==
    /\ pc \in Up
    /\ Read \in {"succeeded", "failed"}
    /\ disk' = "none"
    /\ cache' = "unset"
    /\ UNCHANGED <<data, pending, diskOp, archive, pc, todo, before, stopped,
                   rbFailed, poll, count, prior, faults>>

\* A slow request: the module's _lock is not taken, so the status may be
\* written between the two.
PollReads ==
    /\ pc \in Up
    /\ ~poll
    /\ Read \in {"succeeded", "failed"}
    /\ Fault("poll")
    /\ poll' = TRUE
    /\ UNCHANGED <<data, pending, disk, diskOp, cache, archive, pc, todo, before,
                   stopped, rbFailed, count, prior>>

PollUnlinks ==
    /\ pc \in Up
    /\ poll
    /\ poll' = FALSE
    /\ disk' = "none"
    /\ cache' = "unset"
    /\ UNCHANGED <<data, pending, diskOp, archive, pc, todo, before, stopped,
                   rbFailed, count, prior, faults>>

-----------------------------------------------------------------------------
(* Start-up: recover_interrupted_restore and create_app *)

\* Mutant: an interrupted restore is assumed to have changed nothing.
BootAssumesUntouched ==
    /\ pc = "down"
    /\ pc' = IF disk \in {"preparing", "in_progress"} THEN "untouched" ELSE "settle"
    /\ cache' = IF disk = "none" THEN "unset" ELSE disk
    /\ UNCHANGED <<data, pending, disk, diskOp, archive, todo, before, stopped,
                   rbFailed, poll, count, prior, faults>>

\* The service manager starts a process; it reads the status.
Boot ==
    /\ pc = "down"
    /\ pc' = CASE disk = "preparing" -> "untouched"
               [] disk = "in_progress" -> "recover"
               [] OTHER -> "settle"
    /\ cache' = IF disk = "none" THEN "unset" ELSE disk
    /\ BeginsJob
    /\ UNCHANGED <<data, pending, disk, diskOp, archive, stopped, rbFailed, poll,
                   count, prior, faults>>

\* Interrupted before in_progress was written: nothing had been replaced.
MarkUntouched ==
    /\ pc = "untouched"
    /\ Write("failed", "settle", "boot")
    /\ UNCHANGED <<Untouched, todo, before>>

MarkRecovered ==
    /\ pc = "recovered"
    /\ Write("failed", "settle", "giveup")
    /\ UNCHANGED <<Untouched, todo, before>>

MarkGivenUp ==
    /\ pc = "giveup"
    /\ Write("rollback_failed", "settle", "boot")
    /\ UNCHANGED <<Untouched, todo, before>>

\* An exception out of create_app ends the new process.
BootAborts ==
    /\ \/ pc = "boot" /\ UNCHANGED faults
       \/ pc = "settle" /\ ~IsActive /\ Fault("cleanup")
    /\ pc' = "down"
    /\ cache' = "unset"
    /\ UNCHANGED <<data, pending, disk, diskOp, archive, todo, before, stopped,
                   rbFailed, poll, count, prior>>

\* In maintenance nothing is started; otherwise cleanup_orphans removes every
\* operation directory and the runtime starts.
Settle ==
    /\ pc = "settle"
    /\ IF IsActive
       THEN pc' = "maintenance" /\ UNCHANGED archive
       ELSE pc' = "idle" /\ archive' = NoArchive
    /\ UNCHANGED <<data, pending, disk, diskOp, count, prior, faults, memory>>

-----------------------------------------------------------------------------
(* The operator's way out: flask backup restore, with the service stopped *)

CliRestore ==
    /\ pc \in {"maintenance", "down"}
    /\ disk = "rollback_failed"
    /\ pc' = "cli"
    /\ cache' = "unset"
    /\ poll' = FALSE
    /\ BeginsJob
    /\ UNCHANGED <<data, pending, disk, diskOp, archive, stopped, rbFailed, count,
                   prior, faults>>

\* clear_failed_status_after_cli_restore unlinks the status.
CliClears ==
    /\ pc = "clear"
    /\ \/ disk' = "none" /\ UNCHANGED faults
       \/ disk' = disk /\ Fault("lost")
    /\ pc' = "down"
    /\ cache' = "unset"
    /\ UNCHANGED <<data, pending, diskOp, archive, todo, before, stopped, rbFailed,
                   poll, count, prior>>

-----------------------------------------------------------------------------
\* The process, serving, starting or at the command line, is killed.
Crash ==
    /\ pc # "down"
    /\ Fault("crash")
    /\ pc' = "down"
    /\ cache' = "unset"
    /\ stopped' = FALSE
    /\ rbFailed' = FALSE
    /\ poll' = FALSE
    /\ UNCHANGED <<data, pending, disk, diskOp, archive, todo, before, count, prior>>

Init ==
    /\ data = All(0)
    /\ pending = {}
    /\ disk = "none" /\ diskOp = 0
    /\ cache = "unset"
    /\ archive = NoArchive
    /\ pc = "idle"
    /\ todo = {}
    /\ before = data
    /\ stopped = FALSE
    /\ rbFailed = FALSE
    /\ poll = FALSE
    /\ count = 0
    /\ prior = data
    /\ faults = [number |-> 0, beyond |-> {}]

Job == (\E f \in Files : CopyFile(f)) \/ (\E w \in FollowUp : DoFollowUp(w))

Perform ==
    \/ BeginPreparing \/ StopRuntime \/ TakeSnapshot \/ MarkInProgress
    \/ MarkSucceeded \/ MarkFailed \/ Finally

StartUp ==
    \/ Boot \/ MarkUntouched \/ MarkRecovered \/ MarkGivenUp
    \/ BootAborts \/ Settle

Next ==
    \/ StartRestore \/ Perform \/ PreparationFails \/ FinallyRaises
    \/ Job \/ JobFails
    \/ ExpireStatus \/ PollReads \/ PollUnlinks
    \/ StartUp
    \/ CliRestore \/ CliClears
    \/ Crash

\* The restore thread is not a daemon and is never waited on, so it goes on as
\* long as its process lives; the service manager starts a process that ended.
\* Nothing makes an administrator restore, or an operator use the command line.
Fairness ==
    /\ WF_rsVars(Perform) /\ WF_rsVars(Job)
    /\ WF_rsVars(JobFails /\ UNCHANGED faults)
    /\ WF_rsVars(StartUp) /\ WF_rsVars(CliClears)

Spec == Init /\ [][Next]_rsVars
FairSpec == Spec /\ Fairness

-----------------------------------------------------------------------------
(* Properties *)

TypeOK ==
    /\ data \in [Files -> Versions] /\ before \in [Files -> Versions]
    /\ prior \in [Files -> Versions]
    /\ archive \in [Files -> Versions] \cup {NoArchive}
    /\ pending \subseteq FollowUp
    /\ disk \in Status /\ cache \in Status \cup {"unset"}
    /\ diskOp \in 0 .. MaxRestores
    /\ pc \in Places
    /\ todo \subseteq Files \cup FollowUp
    /\ stopped \in BOOLEAN /\ rbFailed \in BOOLEAN /\ poll \in BOOLEAN
    /\ count \in 0 .. MaxRestores
    /\ faults \in FaultRecord

\* Every file of one version, authentication state sanitized, a new epoch.
Whole(d) == \E v \in Versions : d = All(v)
Consistent == Whole(data) /\ pending = {}

\* So far a status write happened or did not (no directory sync failed after
\* os.replace), no directory refused to go and no status request was slow.
Survived == faults.beyond = {}

\* Requests are answered only from consistent data: no crash, failed copy, failed
\* rollback or failed status write lets the process serve a mixture of two
\* backups, restored login sessions or an old session epoch (is_active as
\* checked before every request).
ServesConsistent == (pc \in Up /\ ~IsActive) => Consistent

\* From begin_preparing until the outcome is decided the process is in
\* maintenance, whatever the status requests of the admin page do meanwhile.
MaintenanceWhileRestoring == pc \in Restoring => IsActive

\* Whenever a kill would leave the data mixed or unsanitized, the next start
\* finds out and can act: either it finds in_progress and the archive of the
\* state before, or it stays in maintenance (recover_interrupted_restore).
MixIsRecoverable ==
    ~Consistent => \/ disk = "rollback_failed"
                   \/ disk = "in_progress" /\ archive = prior

\* A restore reported as succeeded is completely in place.
SucceededMeansNew == disk = "succeeded" => data = All(diskOp) /\ pending = {}

\* The restore as a transaction: through kills, failing copies and failing status
\* writes nothing mixed is served, the process stays in maintenance, a mixture
\* can be undone, and success is reported only of a complete restore.
Transactional ==
    Survived => /\ ServesConsistent
                /\ MaintenanceWhileRestoring
                /\ MixIsRecoverable
                /\ SucceededMeansNew

\* A restore reported as failed left the files as they were before it began,
\* through every path that ends in mark_failed and whatever faults happened, a
\* status that is active although its write raised included.
FailedMeansOriginal == (disk = "failed" /\ diskOp = count) => data = prior

\* Recovery maintenance ends with a CLI restore and in no other way: not by a
\* restart, an expired status or another web restore.
OperatorEndsRecovery ==
    [][Survived' /\ disk = "rollback_failed" /\ disk' # disk => pc = "clear"]_rsVars

\* A process whose runtime was stopped for a restore ends, so that the service
\* manager starts a clean one.
RuntimeComesBack == (stopped /\ Survived) ~> (~stopped \/ ~Survived)

\* However often it is interrupted, the service ends up serving again or in
\* maintenance for the operator: it neither hangs in the restore nor restarts
\* forever.
RestoreSettles ==
    (pc \notin {"idle", "maintenance"} /\ Survived)
      ~> (pc \in {"idle", "maintenance"} \/ ~Survived)

\* Whatever interrupts it, a restore comes to its end: the stopped process ends,
\* the next one serves or waits in maintenance, and only the operator's own
\* restore ends that maintenance.
ServiceReturns == OperatorEndsRecovery /\ RuntimeComesBack /\ RestoreSettles

=============================================================================
