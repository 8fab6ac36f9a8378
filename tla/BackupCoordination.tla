------------------------- MODULE BackupCoordination -------------------------
(***************************************************************************)
(* The coordination of persistent writes with online backups               *)
(* (backup_coordination.py, with the storage locks of storage_utils.py):   *)
(* many writers at a time or one snapshot, a waiting snapshot holding new  *)
(* writers back; a thread that already writes passes without waiting.  A   *)
(* storage lock is first the lock of its key and then such a write, and a  *)
(* handler takes several of them nested.                                   *)
(***************************************************************************)
EXTENDS Naturals, FiniteSets, Sequences

CONSTANTS Writers,       \* threads of handlers that change persistent data
          Copiers,       \* threads that make an online backup
          Keys,          \* keys of storage locks
          Plain,         \* a write without a storage lock: a commit, a file
          Nobody,        \* no owner
          Plans,         \* what a handler nests: sequences over Keys and Plain
          MaxRuns        \* bound: handlers and backups run in all

ASSUME CoordinationAssumption ==
    /\ IsFiniteSet(Writers) /\ IsFiniteSet(Copiers) /\ Writers \cap Copiers = {}
    /\ Nobody \notin Writers \cup Copiers /\ Plain \notin Keys
    /\ MaxRuns \in Nat
    /\ Plans \subseteq Seq(Keys \cup {Plain})

VARIABLES plan,      \* [Writers -> the sections of the thread's handler]
          at,        \* [Writers -> how many of them it is in]
          step,      \* [Writers \cup Copiers -> what the thread does]
          depth,     \* [Writers -> write_depth of its thread]
          keyOwner,  \* [Keys -> the thread that has the lock of the key]
          readers, writer, waiting,   \* _readers, _writer, _waiting_writers
          asleep,    \* threads in _condition.wait
          operation, \* the copier that has the operation lock
          runs       \* handlers and backups run

barrierVars == <<readers, writer, waiting, asleep>>
coordinationVars == <<plan, at, step, depth, keyOwner, barrierVars, operation, runs>>

CoordinationTypeOK ==
    /\ plan \in [Writers -> Plans \cup {<<>>}] /\ at \in [Writers -> Nat] /\ depth \in [Writers -> Nat]
    /\ step \in [Writers \cup Copiers ->
                   {"idle", "next", "entering", "inside", "leaving", "locked", "copying", "copied"}]
    /\ keyOwner \in [Keys -> Writers \cup {Nobody}]
    /\ readers \in Nat /\ writer \in BOOLEAN /\ waiting \in Nat
    /\ asleep \subseteq Writers \cup Copiers
    /\ operation \in Copiers \cup {Nobody} /\ runs \in 0 .. MaxRuns

CoordinationInit ==
    /\ plan = [t \in Writers |-> <<>>] /\ at = [t \in Writers |-> 0]
    /\ step = [t \in Writers \cup Copiers |-> "idle"] /\ depth = [t \in Writers |-> 0]
    /\ keyOwner = [k \in Keys |-> Nobody]
    /\ readers = 0 /\ writer = FALSE /\ waiting = 0 /\ asleep = {}
    /\ operation = Nobody /\ runs = 0

----------------------------------------------------------------------------
(* A handler and the sections it nests.                                    *)

Section(t) == plan[t][at[t] + 1]   \* the one it is about to take
Innermost(t) == plan[t][at[t]]

\* A handler begins: add_user_command, load_user_commands, a commit.
StartHandler(t) ==
    /\ step[t] = "idle" /\ runs < MaxRuns
    /\ \E p \in Plans : plan' = [plan EXCEPT ![t] = p]
    /\ step' = [step EXCEPT ![t] = "next"] /\ runs' = runs + 1
    /\ UNCHANGED <<at, depth, keyOwner, barrierVars, operation>>

\* _CoordinatedStorageLock.acquire takes the lock of the key first.
TakeKey(t) ==
    /\ step[t] = "next" /\ at[t] < Len(plan[t])
    /\ IF Section(t) = Plain THEN UNCHANGED keyOwner
       ELSE /\ keyOwner[Section(t)] = Nobody
            /\ keyOwner' = [keyOwner EXCEPT ![Section(t)] = t]
    /\ step' = [step EXCEPT ![t] = "entering"]
    /\ UNCHANGED <<plan, at, depth, barrierVars, operation, runs>>

\* The guard of the while loop of persistent_write.
HeldBack == writer \/ waiting > 0

\* persistent_write: a nested one only counts; an outer one waits while a
\* snapshot is copied or waits.
EnterWrite(t) ==
    /\ step[t] = "entering" /\ t \notin asleep
    /\ IF depth[t] = 0 /\ HeldBack
       THEN asleep' = asleep \cup {t} /\ UNCHANGED <<at, step, depth, readers>>
       ELSE /\ readers' = IF depth[t] = 0 THEN readers + 1 ELSE readers
            /\ depth' = [depth EXCEPT ![t] = @ + 1]
            /\ at' = [at EXCEPT ![t] = @ + 1]
            /\ step' = [step EXCEPT ![t] = IF at'[t] < Len(plan[t]) THEN "next" ELSE "inside"]
            /\ UNCHANGED asleep
    /\ UNCHANGED <<plan, keyOwner, writer, waiting, operation, runs>>

\* The innermost write ends: the last writer out wakes everyone who waits.
LeaveWrite(t) ==
    /\ step[t] \in {"inside", "leaving"} /\ at[t] > 0 /\ depth[t] = at[t]
    /\ depth' = [depth EXCEPT ![t] = @ - 1]
    /\ readers' = IF depth[t] = 1 THEN readers - 1 ELSE readers
    /\ asleep' = IF depth[t] = 1 /\ readers = 1 THEN {} ELSE asleep
    /\ step' = [step EXCEPT ![t] = "leaving"]
    /\ UNCHANGED <<plan, at, keyOwner, writer, waiting, operation, runs>>

\* _CoordinatedStorageLock.release gives the lock of the key back after it.
GiveKey(t) ==
    /\ step[t] = "leaving" /\ depth[t] < at[t]
    /\ keyOwner' = IF Innermost(t) = Plain THEN keyOwner
                   ELSE [keyOwner EXCEPT ![Innermost(t)] = Nobody]
    /\ at' = [at EXCEPT ![t] = @ - 1]
    /\ step' = [step EXCEPT ![t] = IF at[t] = 1 THEN "idle" ELSE "leaving"]
    /\ plan' = [plan EXCEPT ![t] = IF at[t] = 1 THEN <<>> ELSE @]
    /\ UNCHANGED <<depth, barrierVars, operation, runs>>

----------------------------------------------------------------------------
(* An online backup.                                                       *)

\* operation_lock of create_online_backup; OperationBusyError after the timeout
\* leaves everything as it was.
TakeOperation(c) ==
    /\ step[c] = "idle" /\ operation = Nobody /\ runs < MaxRuns
    /\ operation' = c /\ step' = [step EXCEPT ![c] = "locked"] /\ runs' = runs + 1
    /\ UNCHANGED <<plan, at, depth, keyOwner, barrierVars>>

\* snapshot: announced at once, it begins when nobody writes.
Begin(c) ==
    /\ writer' = TRUE /\ step' = [step EXCEPT ![c] = "copying"]
    /\ UNCHANGED asleep
Wait(c) == asleep' = asleep \cup {c} /\ UNCHANGED writer

\* Mutant of AnnounceSnapshot: only another snapshot is waited for.
AnnounceAmongWriters(c) ==
    /\ step[c] = "locked"
    /\ IF writer
       THEN Wait(c) /\ waiting' = waiting + 1 /\ step' = [step EXCEPT ![c] = "entering"]
       ELSE Begin(c) /\ UNCHANGED waiting
    /\ UNCHANGED <<plan, at, depth, keyOwner, readers, operation, runs>>

AnnounceSnapshot(c) ==
    /\ step[c] = "locked"
    /\ IF writer \/ readers > 0
       THEN Wait(c) /\ waiting' = waiting + 1 /\ step' = [step EXCEPT ![c] = "entering"]
       ELSE Begin(c) /\ UNCHANGED waiting
    /\ UNCHANGED <<plan, at, depth, keyOwner, readers, operation, runs>>

BeginSnapshot(c) ==
    /\ step[c] = "entering" /\ c \notin asleep
    /\ IF writer \/ readers > 0
       THEN Wait(c) /\ UNCHANGED <<waiting, step>>
       ELSE Begin(c) /\ waiting' = waiting - 1
    /\ UNCHANGED <<plan, at, depth, keyOwner, readers, operation, runs>>

EndSnapshot(c) ==
    /\ step[c] = "copying"
    /\ writer' = FALSE /\ asleep' = {} /\ step' = [step EXCEPT ![c] = "copied"]
    /\ UNCHANGED <<plan, at, depth, keyOwner, readers, waiting, operation, runs>>

GiveOperation(c) ==
    /\ step[c] = "copied"
    /\ operation' = Nobody /\ step' = [step EXCEPT ![c] = "idle"]
    /\ UNCHANGED <<plan, at, depth, keyOwner, barrierVars, runs>>

----------------------------------------------------------------------------
\* A thread inside a handler or a backup goes on; no one need start one.
WriterStep(t) == TakeKey(t) \/ EnterWrite(t) \/ LeaveWrite(t) \/ GiveKey(t)
CopierStep(c) == AnnounceSnapshot(c) \/ BeginSnapshot(c) \/ EndSnapshot(c) \/ GiveOperation(c)

CoordinationNext ==
    \/ \E t \in Writers : StartHandler(t) \/ WriterStep(t)
    \/ \E c \in Copiers : TakeOperation(c) \/ CopierStep(c)

CoordinationSpec == CoordinationInit /\ [][CoordinationNext]_coordinationVars

\* Threads run: a file is written and a snapshot copied in a finite time.
CoordinationProgress == (\E t \in Writers : WriterStep(t)) \/ (\E c \in Copiers : CopierStep(c))

\* The same of every thread on its own.
CoordinationFairSpec ==
    /\ CoordinationSpec
    /\ \A t \in Writers : WF_coordinationVars(WriterStep(t))
    /\ \A c \in Copiers : WF_coordinationVars(CopierStep(c))

----------------------------------------------------------------------------
Inside(t) == depth[t] > 0

\* A snapshot is copied while no mutation is halfway, nested and outermost ones
\* alike, and only one at a time; the count of writers is the threads that write
\* (persistent_write, snapshot).
SnapshotIsWhole ==
    /\ CoordinationTypeOK
    /\ readers = Cardinality({t \in Writers : Inside(t)})
    /\ \A c \in Copiers : step[c] = "copying" =>
          /\ writer /\ operation = c /\ \A t \in Writers : ~Inside(t)
    /\ waiting = Cardinality({c \in Copiers : step[c] = "entering"})

\* The circle the storage locks close: a writer waits for the lock of a key whose
\* owner is held back by the snapshot that waits for the writer.
Jammed ==
    \E t, u \in Writers :
        /\ Inside(t) /\ step[t] = "next" /\ Section(t) \in Keys /\ keyOwner[Section(t)] = u
        /\ u \in asleep /\ waiting > 0

\* Nobody waits, but in that circle: every handler that began and every backup
\* that was announced has ended, although writers hold snapshots back and snapshots
\* writers.
WaitsOver == Jammed \/ \A t \in Writers \cup Copiers : step[t] = "idle"

\* "Pause coordinated writes while a consistent snapshot is captured"
\* (snapshot_barrier): the pause ends, and the write comes through.
PausesEnd == \A t \in Writers : (t \in asleep) ~> Inside(t)
=============================================================================
