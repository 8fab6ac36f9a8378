------------------------- MODULE CoordinationProofs -------------------------
(***************************************************************************)
(* Safety of the three places where threads of the server wait for and     *)
(* make room for each other: persistent writes against online backups      *)
(* (BackupCoordination), for any threads, keys and nesting of writes;      *)
(* transports against the socket limits and revocation                     *)
(* (TransportAdmission), for any transports, accounts and limits; and the  *)
(* one shutdown (RuntimeLifecycle), for any jobs, workers, callbacks,      *)
(* events and callers of begin_shutdown.                                   *)
(***************************************************************************)
EXTENDS BackupCoordination, TransportAdmission, RuntimeLifecycle, FiniteSetTheorems, TLAPS

\* A finite set that gains or loses one element.
LEMMA CountByOne ==
    ASSUME NEW S, IsFiniteSet(S), NEW x
    PROVE  /\ Cardinality(S) \in Nat
           /\ (Cardinality(S) = 0) <=> (S = {})
           /\ IsFiniteSet(S \cup {x}) /\ IsFiniteSet(S \ {x})
           /\ x \notin S => Cardinality(S \cup {x}) = Cardinality(S) + 1
           /\ x \in S => Cardinality(S) > 0 /\ Cardinality(S \ {x}) = Cardinality(S) - 1
<1>1. Cardinality(S) \in Nat
  BY FS_CardinalityType
<1>2. (Cardinality(S) = 0) <=> (S = {})
  BY FS_EmptySet
<1>3. IsFiniteSet(S \cup {x}) /\ (x \notin S => Cardinality(S \cup {x}) = Cardinality(S) + 1)
  BY FS_AddElement
<1>4. IsFiniteSet(S \ {x}) /\ (x \in S => Cardinality(S \ {x}) = Cardinality(S) - 1)
  BY FS_RemoveElement
<1>5. x \in S => Cardinality(S) > 0
  BY <1>1, <1>2
<1>6. QED
  BY <1>1, <1>2, <1>3, <1>4, <1>5

----------------------------------------------------------------------------
(* Writes and snapshots *)

Within == {t \in Writers : depth[t] > 0}
Announced == {c \in Copiers : step[c] = "entering"}

\* The operation lock admits one backup, so what is announced or copied is its.
BarrierInv ==
    /\ CoordinationTypeOK
    /\ readers = Cardinality(Within)
    /\ waiting = Cardinality(Announced)
    /\ \A c \in Copiers : step[c] # "idle" => operation = c
    /\ \A c \in Copiers : step[c] = "copying" => writer /\ Within = {}

LEMMA BarrierSets == IsFiniteSet(Within) /\ IsFiniteSet(Announced)
  BY CoordinationAssumption, FS_Subset DEF Within, Announced

LEMMA BarrierInit == CoordinationInit => BarrierInv
<1> SUFFICES ASSUME CoordinationInit PROVE BarrierInv
  OBVIOUS
<1>1. CoordinationTypeOK
  <2>1. /\ plan \in [Writers -> Plans \cup {<<>>}] /\ at \in [Writers -> Nat] /\ depth \in [Writers -> Nat]
        /\ keyOwner \in [Keys -> Writers \cup {Nobody}]
    BY DEF CoordinationInit
  <2>2. /\ step \in [Writers \cup Copiers ->
                   {"idle", "next", "entering", "inside", "leaving", "locked", "copying", "copied"}]
        /\ readers \in Nat /\ waiting \in Nat /\ asleep \subseteq Writers \cup Copiers
        /\ operation \in Copiers \cup {Nobody} /\ runs \in 0 .. MaxRuns
    BY CoordinationAssumption DEF CoordinationInit
  <2>3. writer \in BOOLEAN
    BY DEF CoordinationInit
  <2>4. QED
    BY <2>1, <2>2, <2>3 DEF CoordinationTypeOK
<1>2. Within = {} /\ Announced = {}
  BY DEF CoordinationInit, Within, Announced
<1>3. QED
  BY <1>1, <1>2, FS_EmptySet DEF BarrierInv, CoordinationInit

\* A handler's steps change no copier.
LEMMA WriterLeavesCopiers ==
    ASSUME CoordinationTypeOK, NEW t \in Writers, NEW s, step' = [step EXCEPT ![t] = s]
    PROVE  (\A c \in Copiers : step'[c] = step[c]) /\ Announced' = Announced
  BY CoordinationAssumption DEF CoordinationTypeOK, Announced

\* A handler begins or takes the lock of a key.
LEMMA BeginKeeps ==
    ASSUME BarrierInv, NEW t \in Writers, StartHandler(t) \/ TakeKey(t)
    PROVE  BarrierInv'
<1> USE DEF BarrierInv
<1>1. /\ UNCHANGED <<at, depth, readers, writer, waiting, asleep, operation>>
      /\ \E s \in {"next", "entering"} : step' = [step EXCEPT ![t] = s]
  BY DEF StartHandler, TakeKey, barrierVars
<1>2. CoordinationTypeOK'
  <2>1. plan' \in [Writers -> Plans \cup {<<>>}]
    BY DEF StartHandler, TakeKey, CoordinationTypeOK
  <2>2. keyOwner' \in [Keys -> Writers \cup {Nobody}]
    BY DEF StartHandler, TakeKey, CoordinationTypeOK
  <2>3. runs' \in 0 .. MaxRuns
    BY CoordinationAssumption DEF StartHandler, TakeKey, CoordinationTypeOK
  <2>4. QED
    BY <1>1, <2>1, <2>2, <2>3 DEF CoordinationTypeOK
<1>3. Within' = Within /\ Announced' = Announced /\ \A c \in Copiers : step'[c] = step[c]
  BY <1>1, WriterLeavesCopiers DEF Within
<1>4. QED
  BY <1>1, <1>2, <1>3

\* persistent_write begins: nested, outermost, or it waits.
LEMMA EnterWriteKeeps ==
    ASSUME BarrierInv, NEW t \in Writers, EnterWrite(t)
    PROVE  BarrierInv'
<1> USE DEF BarrierInv
<1>1. CASE depth[t] = 0 /\ HeldBack
  <2>1. asleep' = asleep \cup {t}
        /\ UNCHANGED <<plan, at, step, depth, keyOwner, readers, writer, waiting, operation, runs>>
    BY <1>1 DEF EnterWrite
  <2>2. QED
    BY <2>1 DEF CoordinationTypeOK, Within, Announced
<1>2. CASE ~(depth[t] = 0 /\ HeldBack)
  <2>0. /\ readers' = IF depth[t] = 0 THEN readers + 1 ELSE readers
        /\ depth' = [depth EXCEPT ![t] = @ + 1]
        /\ at' = [at EXCEPT ![t] = @ + 1]
        /\ \E s \in {"next", "inside"} : step' = [step EXCEPT ![t] = s]
        /\ UNCHANGED <<plan, keyOwner, writer, waiting, asleep, operation, runs>>
    BY <1>2 DEF EnterWrite
  <2>1. depth[t] \in Nat
    BY DEF CoordinationTypeOK
  <2>2. CoordinationTypeOK'
    <3>1. depth' \in [Writers -> Nat] /\ at' \in [Writers -> Nat] /\ readers' \in Nat
      BY <2>0 DEF CoordinationTypeOK
    <3>2. QED
      BY <2>0, <3>1 DEF CoordinationTypeOK
  <2>3. Announced' = Announced /\ \A c \in Copiers : step'[c] = step[c]
    BY <2>0, WriterLeavesCopiers
  <2>4. Within' = Within \cup {t} /\ (t \in Within <=> depth[t] # 0)
    BY <2>0, <2>1 DEF Within, CoordinationTypeOK
  <2>5. readers' = Cardinality(Within')
    <3>1. CASE depth[t] = 0
      BY <2>0, <2>4, <3>1, CountByOne, BarrierSets
    <3>2. CASE depth[t] # 0
      <4>1. Within' = Within
        BY <2>4, <3>2
      <4>2. QED
        BY <2>0, <3>2, <4>1
    <3>3. QED
      BY <3>1, <3>2
  <2>6. ASSUME NEW c \in Copiers, step'[c] = "copying" PROVE FALSE
    <3>1. writer /\ Within = {}
      BY <2>3, <2>6
    <3>2. QED
      BY <1>2, <2>4, <3>1 DEF HeldBack
  <2>7. QED
    BY <2>0, <2>2, <2>3, <2>5, <2>6
<1>3. QED
  BY <1>1, <1>2

\* persistent_write ends.
LEMMA LeaveWriteKeeps ==
    ASSUME BarrierInv, NEW t \in Writers, LeaveWrite(t)
    PROVE  BarrierInv'
<1> USE DEF BarrierInv
<1>0. /\ at[t] > 0 /\ depth[t] = at[t]
      /\ depth' = [depth EXCEPT ![t] = @ - 1]
      /\ readers' = IF depth[t] = 1 THEN readers - 1 ELSE readers
      /\ asleep' \in {{}, asleep}
      /\ step' = [step EXCEPT ![t] = "leaving"]
      /\ UNCHANGED <<plan, at, keyOwner, writer, waiting, operation, runs>>
  BY DEF LeaveWrite
<1>1. depth[t] \in Nat /\ depth[t] > 0 /\ t \in Within
  BY <1>0 DEF CoordinationTypeOK, Within
<1>2. Announced' = Announced /\ \A c \in Copiers : step'[c] = step[c]
  BY <1>0, WriterLeavesCopiers
<1>3. Within' = IF depth[t] = 1 THEN Within \ {t} ELSE Within
  BY <1>0, <1>1 DEF Within, CoordinationTypeOK
<1>4. readers' = Cardinality(Within') /\ readers' \in Nat
  <2>1. readers \in Nat /\ Cardinality(Within) > 0 /\ Cardinality(Within \ {t}) = Cardinality(Within) - 1
    BY <1>1, CountByOne, BarrierSets DEF CoordinationTypeOK
  <2>2. QED
    BY <1>0, <1>3, <2>1
<1>5. CoordinationTypeOK'
  <2>1. depth' \in [Writers -> Nat]
    BY <1>0, <1>1 DEF CoordinationTypeOK
  <2>2. QED
    BY <1>0, <1>4, <2>1 DEF CoordinationTypeOK
<1>6. QED
  BY <1>0, <1>1, <1>2, <1>4, <1>5

\* The lock of the key goes back.
LEMMA GiveKeyKeeps ==
    ASSUME BarrierInv, NEW t \in Writers, GiveKey(t)
    PROVE  BarrierInv'
<1> USE DEF BarrierInv
<1>0. /\ depth[t] < at[t]
      /\ at' = [at EXCEPT ![t] = @ - 1]
      /\ \E s \in {"idle", "leaving"} : step' = [step EXCEPT ![t] = s]
      /\ UNCHANGED <<depth, readers, writer, waiting, asleep, operation, runs>>
  BY DEF GiveKey, barrierVars
<1>1. CoordinationTypeOK'
  <2>1. at' \in [Writers -> Nat]
    BY <1>0 DEF CoordinationTypeOK
  <2>2. plan' \in [Writers -> Plans \cup {<<>>}]
    BY DEF GiveKey, CoordinationTypeOK
  <2>3. keyOwner' \in [Keys -> Writers \cup {Nobody}]
    BY DEF GiveKey, CoordinationTypeOK
  <2>4. QED
    BY <1>0, <2>1, <2>2, <2>3 DEF CoordinationTypeOK
<1>2. Within' = Within /\ Announced' = Announced /\ \A c \in Copiers : step'[c] = step[c]
  BY <1>0, WriterLeavesCopiers DEF Within
<1>3. QED
  BY <1>0, <1>1, <1>2

\* A backup, which has the operation lock from its first step to its last.
LEMMA CopierKeeps ==
    ASSUME BarrierInv, NEW c \in Copiers, TakeOperation(c) \/ CopierStep(c)
    PROVE  BarrierInv'
<1> USE DEF BarrierInv
<1>0. /\ UNCHANGED <<plan, at, depth, keyOwner, readers>>
      /\ Within' = Within
      /\ c \notin Writers
  BY CoordinationAssumption
  DEF TakeOperation, CopierStep, AnnounceSnapshot, BeginSnapshot, EndSnapshot, GiveOperation,
      barrierVars, Within
<1>1. PICK s \in {"locked", "entering", "copying", "copied", "idle"} :
         step' = [step EXCEPT ![c] = s]
  <2>1. step[c] = "entering" => step = [step EXCEPT ![c] = "entering"]
    BY DEF CoordinationTypeOK
  <2>2. QED
    BY <2>1 DEF TakeOperation, CopierStep, AnnounceSnapshot, BeginSnapshot, EndSnapshot, GiveOperation, Begin
<1>2. /\ step'[c] = s /\ \A d \in Copiers \ {c} : step'[d] = step[d]
      /\ Announced' = IF s = "entering" THEN Announced \cup {c} ELSE Announced \ {c}
      /\ c \in Announced <=> step[c] = "entering"
  BY <1>1 DEF CoordinationTypeOK, Announced
<1>3. /\ operation' = IF s = "idle" THEN Nobody ELSE c
      /\ \A d \in Copiers \ {c} : step[d] = "idle"
  <2>1. CASE TakeOperation(c)
    <3>1. s = "locked"
      BY <1>1, <1>2, <2>1 DEF TakeOperation, CoordinationTypeOK
    <3>2. QED
      BY <2>1, <3>1, CoordinationAssumption DEF TakeOperation
  <2>2. CASE GiveOperation(c)
    <3>1. s = "idle" /\ operation = c /\ operation' = Nobody
      BY <1>1, <1>2, <2>2 DEF GiveOperation, CoordinationTypeOK
    <3>2. QED
      BY <3>1
  <2>3. CASE AnnounceSnapshot(c) \/ BeginSnapshot(c) \/ EndSnapshot(c)
    <3>1. s # "idle" /\ operation = c /\ operation' = operation
      BY <1>1, <1>2, <2>3
      DEF AnnounceSnapshot, BeginSnapshot, EndSnapshot, Begin, CoordinationTypeOK
    <3>2. QED
      BY <3>1
  <2>4. QED
    BY <2>1, <2>2, <2>3 DEF CopierStep
<1>4. waiting' = Cardinality(Announced') /\ waiting' \in Nat
  <2>1. CASE s = "entering"
    <3>1. CASE step[c] = "entering"
      <4>1. waiting' = waiting
        BY <1>2, <2>1, <3>1
        DEF TakeOperation, CopierStep, AnnounceSnapshot, BeginSnapshot, EndSnapshot, GiveOperation, Begin,
            CoordinationTypeOK
      <4>2. Announced' = Announced
        BY <1>2, <2>1, <3>1
      <4>3. QED
        BY <4>1, <4>2 DEF CoordinationTypeOK
    <3>2. CASE step[c] # "entering"
      <4>1. waiting' = waiting + 1
        BY <1>2, <2>1, <3>2
        DEF TakeOperation, CopierStep, AnnounceSnapshot, BeginSnapshot, EndSnapshot, GiveOperation, Begin,
            CoordinationTypeOK
      <4>2. Cardinality(Announced \cup {c}) = Cardinality(Announced) + 1 /\ waiting \in Nat
        BY <1>2, <3>2, CountByOne, BarrierSets DEF CoordinationTypeOK
      <4>3. QED
        BY <1>2, <2>1, <4>1, <4>2
    <3>3. QED
      BY <3>1, <3>2
  <2>2. CASE s # "entering"
    <3>1. CASE step[c] = "entering"
      <4>1. waiting' = waiting - 1
        BY <1>2, <2>2, <3>1
        DEF TakeOperation, CopierStep, AnnounceSnapshot, BeginSnapshot, EndSnapshot, GiveOperation, Begin,
            CoordinationTypeOK
      <4>2. /\ Cardinality(Announced) > 0 /\ waiting \in Nat
            /\ Cardinality(Announced \ {c}) = Cardinality(Announced) - 1
        BY <1>2, <3>1, CountByOne, BarrierSets DEF CoordinationTypeOK
      <4>3. QED
        BY <1>2, <2>2, <4>1, <4>2
    <3>2. CASE step[c] # "entering"
      <4>1. waiting' = waiting
        BY <1>2, <2>2, <3>2
        DEF TakeOperation, CopierStep, AnnounceSnapshot, BeginSnapshot, EndSnapshot, GiveOperation, Begin,
            CoordinationTypeOK, barrierVars
      <4>2. Announced' = Announced
        BY <1>2, <2>2, <3>2
      <4>3. QED
        BY <4>1, <4>2 DEF CoordinationTypeOK
    <3>3. QED
      BY <3>1, <3>2
  <2>3. QED
    BY <2>1, <2>2
<1>5. s = "copying" => writer' /\ Within = {}
  <2>1. ASSUME s = "copying" PROVE writer' /\ readers = 0
    <3>1. AnnounceSnapshot(c) \/ BeginSnapshot(c)
      BY <1>2, <2>1 DEF TakeOperation, CopierStep, EndSnapshot, GiveOperation, CoordinationTypeOK
    <3>2. ~(writer \/ readers > 0) /\ writer' = TRUE
      BY <1>2, <2>1, <3>1 DEF AnnounceSnapshot, BeginSnapshot, Begin, CoordinationTypeOK
    <3>3. QED
      BY <3>2 DEF CoordinationTypeOK
  <2>2. readers = 0 => Within = {}
    BY CountByOne, BarrierSets
  <2>3. QED
    BY <2>1, <2>2
<1>6. CoordinationTypeOK'
  <2>1. step' \in [Writers \cup Copiers ->
                   {"idle", "next", "entering", "inside", "leaving", "locked", "copying", "copied"}]
    BY <1>1 DEF CoordinationTypeOK
  <2>2. asleep' \subseteq Writers \cup Copiers
    BY DEF TakeOperation, CopierStep, AnnounceSnapshot, BeginSnapshot, EndSnapshot, GiveOperation, Begin, Wait,
       barrierVars, CoordinationTypeOK
  <2>3. runs' \in 0 .. MaxRuns
    BY CoordinationAssumption
    DEF TakeOperation, CopierStep, AnnounceSnapshot, BeginSnapshot, EndSnapshot, GiveOperation, CoordinationTypeOK
  <2>4. writer' \in BOOLEAN
    BY DEF TakeOperation, CopierStep, AnnounceSnapshot, BeginSnapshot, EndSnapshot, GiveOperation, Begin, Wait,
       barrierVars, CoordinationTypeOK
  <2>5. operation' \in Copiers \cup {Nobody}
    BY <1>3
  <2>6. QED
    BY <1>0, <1>4, <2>1, <2>2, <2>3, <2>4, <2>5 DEF CoordinationTypeOK
<1>7. \A d \in Copiers : step'[d] # "idle" => operation' = d
  BY <1>2, <1>3
<1>8. \A d \in Copiers : step'[d] = "copying" => writer' /\ Within' = {}
  BY <1>0, <1>2, <1>3, <1>5
<1>9. QED
  BY <1>0, <1>4, <1>6, <1>7, <1>8

LEMMA BarrierStep == BarrierInv /\ [CoordinationNext]_coordinationVars => BarrierInv'
<1> SUFFICES ASSUME BarrierInv, [CoordinationNext]_coordinationVars PROVE BarrierInv'
  OBVIOUS
<1>1. ASSUME NEW t \in Writers, StartHandler(t) \/ WriterStep(t) PROVE BarrierInv'
  BY <1>1, BeginKeeps, EnterWriteKeeps, LeaveWriteKeeps, GiveKeyKeeps DEF WriterStep
<1>2. ASSUME NEW c \in Copiers, TakeOperation(c) \/ CopierStep(c) PROVE BarrierInv'
  BY <1>2, CopierKeeps
<1>3. CASE UNCHANGED coordinationVars
  BY <1>3 DEF coordinationVars, barrierVars, BarrierInv, CoordinationTypeOK, Within, Announced
<1>4. QED
  BY <1>1, <1>2, <1>3 DEF CoordinationNext

\* A backup is copied while no persistent write is halfway, however writes nest
\* and however many threads write, and only one at a time; _readers and
\* _waiting_writers count exactly the threads they are meant to.
THEOREM SnapshotsAreWhole == CoordinationSpec => []SnapshotIsWhole
<1>1. CoordinationSpec => []BarrierInv
  BY BarrierInit, BarrierStep, PTL DEF CoordinationSpec
<1>2. BarrierInv => SnapshotIsWhole
  <2> SUFFICES ASSUME BarrierInv PROVE SnapshotIsWhole
    OBVIOUS
  <2>1. \A c \in Copiers : step[c] = "copying" =>
          writer /\ operation = c /\ \A t \in Writers : ~Inside(t)
    BY DEF BarrierInv, Within, Inside
  <2>2. QED
    BY <2>1 DEF BarrierInv, SnapshotIsWhole, Within, Announced, Inside
<1>3. QED
  BY <1>1, <1>2, PTL

----------------------------------------------------------------------------
(* Transports *)

\* What each transport satisfies by itself.  Its opening only goes forward: a slot
\* is taken once, and a namespace bound only after the opening is done.
PeerInv(p) ==
    /\ p \in Peer
    /\ p.seat \/ p.row => p.bind # "no"
    /\ p.bind # "no" => p.slot /\ p.socket /\ p.opening = "opened" /\ p.done
    /\ p.bind \notin {"no", "bound"} => ~p.terminal
    /\ p.opening \in {"out", "inserted", "asked", "refused", "gone"} => ~p.slot
    /\ p.opening \in {"inserted", "asked", "reserved"} => p.socket
    /\ p.opening \in {"out", "inserted", "asked", "reserved", "refused"} => ~p.done
    /\ p.opening = "gone" => ~p.socket
    /\ p.slot => p.socket
    /\ p.terminal => p.slot

\* A transport that will be refused or is to go, and one that has no namespace as
\* well.
Leaving(p) == p.slot => p.terminal \/ p.opening = "reserved"
OutP(p) == Leaving(p) /\ p.bind = "no" /\ ~p.seat /\ ~p.row

\* What the steps of a transport may do to it, once its account is barred or not.
PeerMove(p, q) ==
    /\ q.account = p.account
    /\ q.terminal => q.cleanup \/ (p.terminal /\ q.cleanup = p.cleanup)
    /\ q.terminal => q.bind = "no" \/ (p.terminal /\ q.bind = p.bind)
    /\ p.account \in barred => /\ Leaving(p) => Leaving(q)
                               /\ OutP(p) => OutP(q)

RevocationRecord ==
    [at : {"none", "listing", "row", "sid", "kick", "returned"}, of : SUBSET Accounts,
     todo : SUBSET Transports,
     current : [on : SUBSET Transports, back : {"none", "row", "sid"}, mine : BOOLEAN]]

\* The second list has been made.
Late == \/ revocation.at \in {"sid", "returned"}
        \/ revocation.at = "kick" /\ revocation.current.back = "sid"
Targeted == revocation.todo \cup revocation.current.on

RevocationInv ==
    /\ revocation \in RevocationRecord
    /\ barred = revocation.of
    /\ revocation.at = "none" => revocation.of = {}
    /\ revocation.at # "kick" => revocation.current.on = {}
    /\ revocation.at = "kick" => /\ revocation.current.back \in {"row", "sid"}
                                 /\ \E t \in Transports : revocation.current.on = {t}
    /\ revocation.at = "returned" => revocation.todo = {}
    /\ \A t \in Targeted : peer[t].account \in revocation.of
    /\ \A t \in revocation.current.on : Leaving(peer[t])
    /\ Late => \A t \in Transports :
                 peer[t].account \in revocation.of => OutP(peer[t]) \/ t \in Targeted

\* A transport that is marked is somebody's to clean up, and unbound but for the
\* one the revocation has marked and not yet disconnected.
MarksInv ==
    \A t \in Transports : peer[t].terminal =>
        /\ peer[t].cleanup \/ (t \in revocation.current.on /\ revocation.current.mine)
        /\ t \in revocation.current.on \/ peer[t].bind = "no"

PeersInv == peer \in [Transports -> Peer] /\ \A t \in Transports : PeerInv(peer[t])

AdmissionInv == PeersInv /\ RevocationInv /\ MarksInv /\ LimitsHold

----------------------------------------------------------------------------
(* The functions on transports. *)

LEMMA UnslottedIs ==
    ASSUME NEW p \in Peer
    PROVE  LET q == Unslotted(p) IN
           /\ q \in Peer /\ ~q.slot /\ ~q.terminal
           /\ q.opening = p.opening /\ q.account = p.account /\ q.socket = p.socket
           /\ q.done = p.done /\ q.bind = p.bind /\ q.seat = p.seat /\ q.row = p.row
           /\ q.cleanup = p.cleanup
  BY DEF Unslotted, Peer

LEMMA UnboundIs ==
    ASSUME NEW p \in Peer
    PROVE  LET q == Unbound(p) IN
           /\ q \in Peer /\ q.bind = "no" /\ ~q.seat /\ ~q.row
           /\ q.opening = p.opening /\ q.account = p.account /\ q.socket = p.socket
           /\ q.done = p.done /\ q.slot = p.slot /\ q.terminal = p.terminal
           /\ q.cleanup = p.cleanup
  BY DEF Unbound, Peer

LEMMA MarkedIs ==
    ASSUME NEW p \in Peer
    PROVE  LET q == Marked(p) IN
           /\ q \in Peer /\ q.terminal
           /\ q.opening = p.opening /\ q.account = p.account /\ q.socket = p.socket
           /\ q.done = p.done /\ q.slot = p.slot /\ q.bind = p.bind /\ q.seat = p.seat
           /\ q.row = p.row
           /\ p.slot /\ ~p.terminal => q.cleanup
           /\ p.cleanup => q.cleanup
<1> DEFINE b == p.cleanup \/ (p.slot /\ ~p.terminal)
<1>1. Marked(p) = [p EXCEPT !.terminal = TRUE, !.cleanup = b]
  BY DEF Marked
<1>2. b \in BOOLEAN
  OBVIOUS
<1>5. (p.slot /\ ~p.terminal => b) /\ (p.cleanup => b)
  OBVIOUS
<1> HIDE DEF b
<1>3. /\ Marked(p) \in Peer /\ Marked(p).terminal = TRUE /\ Marked(p).cleanup = b
      /\ Marked(p).opening = p.opening /\ Marked(p).account = p.account
      /\ Marked(p).socket = p.socket /\ Marked(p).done = p.done /\ Marked(p).slot = p.slot
      /\ Marked(p).bind = p.bind /\ Marked(p).seat = p.seat /\ Marked(p).row = p.row
  BY <1>1, <1>2 DEF Peer
<1>4. QED
  BY <1>3, <1>5

\* A namespace that is refused gives everything back and its transport is to go.
LEMMA RejectedMoves ==
    ASSUME NEW p, PeerInv(p), p.bind \notin {"no", "bound"}
    PROVE  /\ PeerInv(Rejected(p)) /\ PeerMove(p, Rejected(p))
           /\ Rejected(p).slot = p.slot /\ ~Rejected(p).seat
<1> DEFINE r == Unbound(p)
           q == Marked(r)
<1>1. p \in Peer /\ Rejected(p) = q
  BY DEF PeerInv, Rejected
<1>2. /\ r \in Peer /\ r.bind = "no" /\ ~r.seat /\ ~r.row
      /\ r.opening = p.opening /\ r.account = p.account /\ r.socket = p.socket
      /\ r.done = p.done /\ r.slot = p.slot /\ r.terminal = p.terminal
      /\ r.cleanup = p.cleanup
  BY <1>1, UnboundIs
<1> HIDE DEF r
<1>3. /\ q \in Peer /\ q.terminal
      /\ q.opening = r.opening /\ q.account = r.account /\ q.socket = r.socket
      /\ q.done = r.done /\ q.slot = r.slot /\ q.bind = r.bind /\ q.seat = r.seat
      /\ q.row = r.row
      /\ r.slot /\ ~r.terminal => q.cleanup
  BY <1>2, MarkedIs
<1> HIDE DEF q
<1>4. PeerInv(q) /\ PeerMove(p, q)
  BY <1>2, <1>3 DEF PeerInv, PeerMove, Leaving, OutP
<1>5. QED
  BY <1>1, <1>2, <1>3, <1>4

----------------------------------------------------------------------------
(* One transport moves and the revocation rests. *)

Moves(t, q) ==
    /\ peer' = [peer EXCEPT ![t] = q] /\ UNCHANGED <<barred, revocation>>
    /\ PeerInv(q) /\ PeerMove(peer[t], q)

LEMMA MoveKeeps ==
    ASSUME AdmissionInv, NEW t \in Transports, NEW q, Moves(t, q)
    PROVE  PeersInv' /\ RevocationInv' /\ MarksInv'
<1> USE DEF AdmissionInv
<1>1. /\ peer' = [peer EXCEPT ![t] = q] /\ UNCHANGED <<barred, revocation>>
      /\ q \in Peer /\ PeerInv(q) /\ PeerMove(peer[t], q)
  BY DEF Moves, PeerInv
<1>2. peer'[t] = q /\ \A x \in Transports \ {t} : peer'[x] = peer[x]
  BY <1>1 DEF PeersInv
<1>3. PeersInv'
  BY <1>1, <1>2 DEF PeersInv
<1>4. /\ \A x \in Transports : peer'[x].account = peer[x].account
      /\ \A x \in Transports : peer[x].account \in barred =>
            /\ Leaving(peer[x]) => Leaving(peer'[x])
            /\ OutP(peer[x]) => OutP(peer'[x])
  BY <1>1, <1>2 DEF PeerMove
<1>5. Targeted' = Targeted /\ Late' = Late /\ Targeted \subseteq Transports
  BY <1>1 DEF Targeted, Late, RevocationInv, RevocationRecord
<1>6. RevocationInv'
  <2>1. \A x \in Targeted : peer'[x].account \in revocation.of
    BY <1>4, <1>5 DEF RevocationInv
  <2>2. \A x \in revocation.current.on : Leaving(peer'[x])
    BY <1>4, <1>5 DEF RevocationInv, Targeted
  <2>3. Late => \A x \in Transports :
                 peer'[x].account \in revocation.of => OutP(peer'[x]) \/ x \in Targeted
    BY <1>4 DEF RevocationInv
  <2>4. QED
    BY <1>1, <1>5, <2>1, <2>2, <2>3 DEF RevocationInv
<1>7. MarksInv'
  BY <1>1, <1>2 DEF MarksInv, PeerMove
<1>8. QED
  BY <1>3, <1>6, <1>7

\* A transport takes a slot or a seat only where the registry has room.
Admitted(t, q) ==
    /\ q.slot => peer[t].slot \/ RoomIn(Slots, t)
    /\ q.seat => peer[t].seat \/ RoomIn(Seats, t)

LEMMA RoomIsLeft ==
    ASSUME NEW S \in SUBSET Transports, NEW T \in SUBSET Transports, NEW t \in Transports,
           NEW limit \in Nat, Cardinality(S) =< limit, T \subseteq S \cup {t},
           T \subseteq S \/ Cardinality(S) < limit
    PROVE  Cardinality(T) =< limit
<1>1. /\ IsFiniteSet(S) /\ Cardinality(S) \in Nat /\ IsFiniteSet(S \cup {t})
      /\ Cardinality(S \cup {t}) =< Cardinality(S) + 1 /\ Cardinality(S \cup {t}) \in Nat
  <2>1. IsFiniteSet(S) /\ Cardinality(S) \in Nat
    BY AdmissionAssumption, FS_Subset, FS_CardinalityType
  <2>2. /\ IsFiniteSet(S \cup {t})
        /\ Cardinality(S \cup {t}) = IF t \in S THEN Cardinality(S) ELSE Cardinality(S) + 1
    BY <2>1, FS_AddElement
  <2>3. QED
    BY <2>1, <2>2
<1>2. CASE T \subseteq S
  <2>1. Cardinality(T) =< Cardinality(S) /\ Cardinality(T) \in Nat
    BY <1>1, <1>2, FS_Subset, FS_CardinalityType
  <2>2. QED
    BY <1>1, <2>1
<1>3. CASE Cardinality(S) < limit
  <2>1. Cardinality(T) =< Cardinality(S \cup {t}) /\ Cardinality(T) \in Nat
    BY <1>1, FS_Subset, FS_CardinalityType
  <2>2. QED
    BY <1>1, <1>3, <2>1
<1>4. QED
  BY <1>2, <1>3

LEMMA LimitsKept ==
    ASSUME PeersInv, LimitsHold, NEW t \in Transports, NEW q,
           peer' = [peer EXCEPT ![t] = q], q.account = peer[t].account, Admitted(t, q)
    PROVE  LimitsHold'
<1>1. peer'[t] = q /\ \A x \in Transports \ {t} : peer'[x] = peer[x]
  BY DEF PeersInv
<1>2. \A x \in Transports : peer'[x].account = peer[x].account
  BY <1>1
<1>3. /\ Slots' \subseteq Slots \cup {t} /\ (Slots' \subseteq Slots \/ RoomIn(Slots, t))
      /\ Seats' \subseteq Seats \cup {t} /\ (Seats' \subseteq Seats \/ RoomIn(Seats, t))
  BY <1>1 DEF Slots, Seats, Admitted
<1>4. /\ Slots \in SUBSET Transports /\ Slots' \in SUBSET Transports
      /\ Seats \in SUBSET Transports /\ Seats' \in SUBSET Transports
  BY DEF Slots, Seats
<1>5. ASSUME NEW S \in SUBSET Transports, NEW T \in SUBSET Transports,
             Cardinality(S) =< MaxSockets,
             \A u \in Accounts : Cardinality(OfAccount(S, u)) =< MaxPerAccount,
             T \subseteq S \cup {t}, T \subseteq S \/ RoomIn(S, t)
      PROVE  /\ Cardinality(T) =< MaxSockets
             /\ \A u \in Accounts : Cardinality({x \in T : peer'[x].account = u}) =< MaxPerAccount
  <2>1. Cardinality(T) =< MaxSockets
    BY <1>5, RoomIsLeft, AdmissionAssumption DEF RoomIn
  <2>2. ASSUME NEW u \in Accounts
        PROVE  Cardinality({x \in T : peer'[x].account = u}) =< MaxPerAccount
    <3> DEFINE A == OfAccount(S, u)
               B == {x \in T : peer'[x].account = u}
    <3>1. A \in SUBSET Transports /\ B \in SUBSET Transports /\ Cardinality(A) =< MaxPerAccount
      BY <1>5 DEF OfAccount
    <3>2. B \subseteq A \cup {t}
      BY <1>2, <1>5 DEF OfAccount
    <3>3. B \subseteq A \/ Cardinality(A) < MaxPerAccount
      <4>1. CASE T \subseteq S
        BY <1>2, <4>1 DEF OfAccount
      <4>2. CASE RoomIn(S, t) /\ peer[t].account = u
        BY <4>2 DEF RoomIn
      <4>3. CASE peer[t].account # u
        BY <1>2, <1>5, <4>3 DEF OfAccount
      <4>4. QED
        BY <1>5, <4>1, <4>2, <4>3
    <3> HIDE DEF A, B
    <3>4. Cardinality(B) =< MaxPerAccount
      BY <3>1, <3>2, <3>3, RoomIsLeft, AdmissionAssumption
    <3>5. QED
      BY <3>4 DEF B
  <2>3. QED
    BY <2>1, <2>2
<1>6. /\ Cardinality(Slots) =< MaxSockets /\ Cardinality(Seats) =< MaxSockets
      /\ \A u \in Accounts : Cardinality(OfAccount(Slots, u)) =< MaxPerAccount
      /\ \A u \in Accounts : Cardinality(OfAccount(Seats, u)) =< MaxPerAccount
  BY DEF LimitsHold
<1>7. /\ Cardinality(Slots') =< MaxSockets
      /\ \A u \in Accounts : Cardinality({x \in Slots' : peer'[x].account = u}) =< MaxPerAccount
  BY <1>3, <1>4, <1>5, <1>6
<1>8. /\ Cardinality(Seats') =< MaxSockets
      /\ \A u \in Accounts : Cardinality({x \in Seats' : peer'[x].account = u}) =< MaxPerAccount
  BY <1>3, <1>4, <1>5, <1>6
<1>9. QED
  BY <1>7, <1>8 DEF LimitsHold, OfAccount

----------------------------------------------------------------------------
(* The steps of one transport. *)

LEMMA InsertMoves ==
    ASSUME PeersInv, NEW t \in Transports, Insert(t)
    PROVE  \E q : Moves(t, q) /\ Admitted(t, q)
<1> DEFINE p == peer[t]
<1>1. PeerInv(p) /\ p \in Peer
  BY DEF PeersInv
<1> DEFINE q == [p EXCEPT !.opening = "inserted", !.socket = TRUE]
<1>2. /\ p.opening = "out"
      /\ peer' = [peer EXCEPT ![t] = q] /\ UNCHANGED <<barred, revocation>>
  BY DEF Insert, Becomes
<1> HIDE DEF p
<1>3. /\ q \in Peer /\ q.opening = "inserted" /\ q.account = p.account
      /\ q.socket = TRUE /\ q.done = p.done /\ q.slot = p.slot
      /\ q.terminal = p.terminal /\ q.bind = p.bind /\ q.seat = p.seat
      /\ q.row = p.row /\ q.cleanup = p.cleanup
  BY <1>1 DEF Peer
<1> HIDE DEF q
<1>4. PeerInv(q) /\ PeerMove(p, q) /\ Admitted(t, q)
  BY <1>1, <1>2, <1>3 DEF p, PeerInv, PeerMove, Leaving, OutP, Admitted
<1>5. QED
  BY <1>2, <1>4 DEF Moves, p

LEMMA AskMoves ==
    ASSUME PeersInv, NEW t \in Transports, AskAdmission(t)
    PROVE  \E q : Moves(t, q) /\ Admitted(t, q)
<1> DEFINE p == peer[t]
<1>1. PeerInv(p) /\ p \in Peer
  BY DEF PeersInv
<1>2. CASE p.account \in barred
  <2> DEFINE q == [p EXCEPT !.opening = "refused"]
  <2>1. /\ p.opening = "inserted"
        /\ peer' = [peer EXCEPT ![t] = q] /\ UNCHANGED <<barred, revocation>>
    BY <1>2 DEF AskAdmission, Becomes
  <2> HIDE DEF p
  <2>2. /\ q \in Peer /\ q.opening = "refused" /\ q.account = p.account
        /\ q.socket = p.socket /\ q.done = p.done /\ q.slot = p.slot
        /\ q.terminal = p.terminal /\ q.bind = p.bind /\ q.seat = p.seat
        /\ q.row = p.row /\ q.cleanup = p.cleanup
    BY <1>1 DEF Peer
  <2> HIDE DEF q
  <2>3. PeerInv(q) /\ PeerMove(p, q) /\ Admitted(t, q)
    BY <1>1, <1>2, <2>1, <2>2 DEF p, PeerInv, PeerMove, Leaving, OutP, Admitted
  <2>4. QED
    BY <2>1, <2>3 DEF Moves, p
<1>3. CASE p.account \notin barred
  <2> DEFINE q == [p EXCEPT !.opening = "asked"]
  <2>1. /\ p.opening = "inserted"
        /\ peer' = [peer EXCEPT ![t] = q] /\ UNCHANGED <<barred, revocation>>
    BY <1>3 DEF AskAdmission, Becomes
  <2> HIDE DEF p
  <2>2. /\ q \in Peer /\ q.opening = "asked" /\ q.account = p.account
        /\ q.socket = p.socket /\ q.done = p.done /\ q.slot = p.slot
        /\ q.terminal = p.terminal /\ q.bind = p.bind /\ q.seat = p.seat
        /\ q.row = p.row /\ q.cleanup = p.cleanup
    BY <1>1 DEF Peer
  <2> HIDE DEF q
  <2>3. PeerInv(q) /\ PeerMove(p, q) /\ Admitted(t, q)
    BY <1>1, <1>3, <2>1, <2>2 DEF p, PeerInv, PeerMove, Leaving, OutP, Admitted
  <2>4. QED
    BY <2>1, <2>3 DEF Moves, p
<1>4. QED
  BY <1>2, <1>3

LEMMA ReserveMoves ==
    ASSUME PeersInv, NEW t \in Transports, ReserveSlot(t)
    PROVE  \E q : Moves(t, q) /\ Admitted(t, q)
<1> DEFINE p == peer[t]
<1>1. PeerInv(p) /\ p \in Peer
  BY DEF PeersInv
<1>2. CASE RoomIn(Slots, t)
  <2> DEFINE q == [p EXCEPT !.opening = "reserved", !.slot = TRUE]
  <2>1. /\ p.opening = "asked"
        /\ peer' = [peer EXCEPT ![t] = q] /\ UNCHANGED <<barred, revocation>>
    BY <1>2 DEF ReserveSlot, Becomes
  <2> HIDE DEF p
  <2>2. /\ q \in Peer /\ q.opening = "reserved" /\ q.account = p.account
        /\ q.socket = p.socket /\ q.done = p.done /\ q.slot = TRUE
        /\ q.terminal = p.terminal /\ q.bind = p.bind /\ q.seat = p.seat
        /\ q.row = p.row /\ q.cleanup = p.cleanup
    BY <1>1 DEF Peer
  <2> HIDE DEF q
  <2>3. PeerInv(q) /\ PeerMove(p, q) /\ Admitted(t, q)
    BY <1>1, <1>2, <2>1, <2>2 DEF p, PeerInv, PeerMove, Leaving, OutP, Admitted
  <2>4. QED
    BY <2>1, <2>3 DEF Moves, p
<1>3. CASE ~RoomIn(Slots, t)
  <2> DEFINE q == [p EXCEPT !.opening = "refused"]
  <2>1. /\ p.opening = "asked"
        /\ peer' = [peer EXCEPT ![t] = q] /\ UNCHANGED <<barred, revocation>>
    BY <1>3 DEF ReserveSlot, Becomes
  <2> HIDE DEF p
  <2>2. /\ q \in Peer /\ q.opening = "refused" /\ q.account = p.account
        /\ q.socket = p.socket /\ q.done = p.done /\ q.slot = p.slot
        /\ q.terminal = p.terminal /\ q.bind = p.bind /\ q.seat = p.seat
        /\ q.row = p.row /\ q.cleanup = p.cleanup
    BY <1>1 DEF Peer
  <2> HIDE DEF q
  <2>3. PeerInv(q) /\ PeerMove(p, q) /\ Admitted(t, q)
    BY <1>1, <1>3, <2>1, <2>2 DEF p, PeerInv, PeerMove, Leaving, OutP, Admitted
  <2>4. QED
    BY <2>1, <2>3 DEF Moves, p
<1>4. QED
  BY <1>2, <1>3

LEMMA RecheckMoves ==
    ASSUME PeersInv, NEW t \in Transports, RecheckAdmission(t)
    PROVE  \E q : Moves(t, q) /\ Admitted(t, q)
<1> DEFINE p == peer[t]
<1>1. PeerInv(p) /\ p \in Peer
  BY DEF PeersInv
<1>2. CASE p.account \in barred \/ ~p.slot \/ p.terminal
  <2> DEFINE q == [Unslotted(p) EXCEPT !.opening = "refused"]
  <2>1. /\ p.opening = "reserved"
        /\ peer' = [peer EXCEPT ![t] = q] /\ UNCHANGED <<barred, revocation>>
    BY <1>2 DEF RecheckAdmission, Becomes
  <2> HIDE DEF p
  <2>2. /\ q \in Peer /\ q.opening = "refused" /\ q.account = p.account
        /\ q.socket = p.socket /\ q.done = p.done /\ q.slot = FALSE
        /\ q.terminal = FALSE /\ q.bind = p.bind /\ q.seat = p.seat /\ q.row = p.row
        /\ q.cleanup = p.cleanup
    BY <1>1 DEF Peer, Unslotted
  <2> HIDE DEF q
  <2>3. PeerInv(q) /\ PeerMove(p, q) /\ Admitted(t, q)
    BY <1>1, <1>2, <2>1, <2>2 DEF p, PeerInv, PeerMove, Leaving, OutP, Admitted
  <2>4. QED
    BY <2>1, <2>3 DEF Moves, p
<1>3. CASE ~(p.account \in barred \/ ~p.slot \/ p.terminal)
  <2> DEFINE q == [p EXCEPT !.opening = "opened"]
  <2>1. /\ p.opening = "reserved" /\ p.account \notin barred /\ p.slot /\ ~p.terminal
        /\ peer' = [peer EXCEPT ![t] = q] /\ UNCHANGED <<barred, revocation>>
    BY <1>3 DEF RecheckAdmission, Becomes
  <2> HIDE DEF p
  <2>2. /\ q \in Peer /\ q.opening = "opened" /\ q.account = p.account
        /\ q.socket = p.socket /\ q.done = p.done /\ q.slot = p.slot
        /\ q.terminal = p.terminal /\ q.bind = p.bind /\ q.seat = p.seat
        /\ q.row = p.row /\ q.cleanup = p.cleanup
    BY <1>1 DEF Peer
  <2> HIDE DEF q
  <2>3. PeerInv(q) /\ PeerMove(p, q) /\ Admitted(t, q)
    BY <1>1, <1>3, <2>1, <2>2 DEF p, PeerInv, PeerMove, Leaving, OutP, Admitted
  <2>4. QED
    BY <2>1, <2>3 DEF Moves, p
<1>4. QED
  BY <1>2, <1>3

LEMMA RefusedMoves ==
    ASSUME PeersInv, NEW t \in Transports, RemoveRefused(t)
    PROVE  \E q : Moves(t, q) /\ Admitted(t, q)
<1> DEFINE p == peer[t]
<1>1. PeerInv(p) /\ p \in Peer
  BY DEF PeersInv
<1> DEFINE q == [p EXCEPT !.opening = "gone", !.socket = FALSE, !.done = TRUE]
<1>2. /\ p.opening = "refused"
      /\ peer' = [peer EXCEPT ![t] = q] /\ UNCHANGED <<barred, revocation>>
  BY DEF RemoveRefused, Becomes
<1> HIDE DEF p
<1>3. /\ q \in Peer /\ q.opening = "gone" /\ q.account = p.account
      /\ q.socket = FALSE /\ q.done = TRUE /\ q.slot = p.slot
      /\ q.terminal = p.terminal /\ q.bind = p.bind /\ q.seat = p.seat
      /\ q.row = p.row /\ q.cleanup = p.cleanup
  BY <1>1 DEF Peer
<1> HIDE DEF q
<1>4. PeerInv(q) /\ PeerMove(p, q) /\ Admitted(t, q)
  BY <1>1, <1>2, <1>3 DEF p, PeerInv, PeerMove, Leaving, OutP, Admitted
<1>5. QED
  BY <1>2, <1>4 DEF Moves, p

LEMMA OpenedMoves ==
    ASSUME PeersInv, NEW t \in Transports, Opened(t)
    PROVE  \E q : Moves(t, q) /\ Admitted(t, q)
<1> DEFINE p == peer[t]
<1>1. PeerInv(p) /\ p \in Peer
  BY DEF PeersInv
<1>2. CASE Becomes(t, [p EXCEPT !.done = TRUE])
  <2> DEFINE q == [p EXCEPT !.done = TRUE]
  <2>1. /\ p.opening = "opened" /\ ~p.done
        /\ peer' = [peer EXCEPT ![t] = q] /\ UNCHANGED <<barred, revocation>>
    BY <1>2 DEF Opened, Becomes
  <2> HIDE DEF p
  <2>2. /\ q \in Peer /\ q.opening = p.opening /\ q.account = p.account
        /\ q.socket = p.socket /\ q.done = TRUE /\ q.slot = p.slot
        /\ q.terminal = p.terminal /\ q.bind = p.bind /\ q.seat = p.seat
        /\ q.row = p.row /\ q.cleanup = p.cleanup
    BY <1>1 DEF Peer
  <2> HIDE DEF q
  <2>3. PeerInv(q) /\ PeerMove(p, q) /\ Admitted(t, q)
    BY <1>1, <1>2, <2>1, <2>2 DEF p, PeerInv, PeerMove, Leaving, OutP, Admitted
  <2>4. QED
    BY <2>1, <2>3 DEF Moves, p
<1>3. CASE Becomes(t, [Unslotted(p) EXCEPT !.opening = "gone", !.socket = FALSE, !.done = TRUE])
  <2> DEFINE q == [Unslotted(p) EXCEPT !.opening = "gone", !.socket = FALSE, !.done = TRUE]
  <2>1. /\ p.opening = "opened" /\ ~p.done
        /\ peer' = [peer EXCEPT ![t] = q] /\ UNCHANGED <<barred, revocation>>
    BY <1>3 DEF Opened, Becomes
  <2> HIDE DEF p
  <2>2. /\ q \in Peer /\ q.opening = "gone" /\ q.account = p.account
        /\ q.socket = FALSE /\ q.done = TRUE /\ q.slot = FALSE /\ q.terminal = FALSE
        /\ q.bind = p.bind /\ q.seat = p.seat /\ q.row = p.row
        /\ q.cleanup = p.cleanup
    BY <1>1 DEF Peer, Unslotted
  <2> HIDE DEF q
  <2>3. PeerInv(q) /\ PeerMove(p, q) /\ Admitted(t, q)
    BY <1>1, <1>3, <2>1, <2>2 DEF p, PeerInv, PeerMove, Leaving, OutP, Admitted
  <2>4. QED
    BY <2>1, <2>3 DEF Moves, p
<1>4. QED
  BY <1>2, <1>3 DEF Opened

LEMMA EnterMoves ==
    ASSUME PeersInv, NEW t \in Transports, EnterBind(t)
    PROVE  \E q : Moves(t, q) /\ Admitted(t, q)
<1> DEFINE p == peer[t]
<1>1. PeerInv(p) /\ p \in Peer
  BY DEF PeersInv
<1> DEFINE q == [p EXCEPT !.bind = "entered"]
<1>2. /\ p.opening = "opened" /\ p.done /\ p.socket /\ p.bind = "no" /\ p.slot /\ ~p.terminal
      /\ peer' = [peer EXCEPT ![t] = q] /\ UNCHANGED <<barred, revocation>>
  BY DEF EnterBind, Becomes, Receiving
<1> HIDE DEF p
<1>3. /\ q \in Peer /\ q.opening = p.opening /\ q.account = p.account
      /\ q.socket = p.socket /\ q.done = p.done /\ q.slot = p.slot
      /\ q.terminal = p.terminal /\ q.bind = "entered" /\ q.seat = p.seat
      /\ q.row = p.row /\ q.cleanup = p.cleanup
  BY <1>1 DEF Peer
<1> HIDE DEF q
<1>4. PeerInv(q) /\ PeerMove(p, q) /\ Admitted(t, q)
  BY <1>1, <1>2, <1>3 DEF p, PeerInv, PeerMove, Leaving, OutP, Admitted
<1>5. QED
  BY <1>2, <1>4 DEF Moves, p

LEMMA CheckMoves ==
    ASSUME PeersInv, NEW t \in Transports, CheckBind(t)
    PROVE  \E q : Moves(t, q) /\ Admitted(t, q)
<1> DEFINE p == peer[t]
<1>1. PeerInv(p) /\ p \in Peer
  BY DEF PeersInv
<1>2. CASE p.account \notin barred
  <2> DEFINE q == [p EXCEPT !.bind = "checked"]
  <2>1. /\ p.bind = "entered"
        /\ peer' = [peer EXCEPT ![t] = q] /\ UNCHANGED <<barred, revocation>>
    BY <1>2 DEF CheckBind, Becomes
  <2> HIDE DEF p
  <2>2. /\ q \in Peer /\ q.opening = p.opening /\ q.account = p.account
        /\ q.socket = p.socket /\ q.done = p.done /\ q.slot = p.slot
        /\ q.terminal = p.terminal /\ q.bind = "checked" /\ q.seat = p.seat
        /\ q.row = p.row /\ q.cleanup = p.cleanup
    BY <1>1 DEF Peer
  <2> HIDE DEF q
  <2>3. PeerInv(q) /\ PeerMove(p, q) /\ Admitted(t, q)
    BY <1>1, <1>2, <2>1, <2>2 DEF p, PeerInv, PeerMove, Leaving, OutP, Admitted
  <2>4. QED
    BY <2>1, <2>3 DEF Moves, p
<1>3. CASE p.account \in barred
  <2>1. /\ p.bind \notin {"no", "bound"}
        /\ peer' = [peer EXCEPT ![t] = Rejected(p)] /\ UNCHANGED <<barred, revocation>>
    BY <1>3 DEF CheckBind, Becomes
  <2>2. Moves(t, Rejected(p)) /\ Admitted(t, Rejected(p))
    BY <1>1, <2>1, RejectedMoves DEF Moves, Admitted
  <2>3. QED
    BY <2>2
<1>4. QED
  BY <1>2, <1>3

LEMMA SeatMoves ==
    ASSUME PeersInv, NEW t \in Transports, TakeSeat(t)
    PROVE  \E q : Moves(t, q) /\ Admitted(t, q)
<1> DEFINE p == peer[t]
<1>1. PeerInv(p) /\ p \in Peer
  BY DEF PeersInv
<1>2. CASE RoomIn(Seats, t)
  <2> DEFINE q == [p EXCEPT !.bind = "seated", !.seat = TRUE]
  <2>1. /\ p.bind = "checked"
        /\ peer' = [peer EXCEPT ![t] = q] /\ UNCHANGED <<barred, revocation>>
    BY <1>2 DEF TakeSeat, Becomes
  <2> HIDE DEF p
  <2>2. /\ q \in Peer /\ q.opening = p.opening /\ q.account = p.account
        /\ q.socket = p.socket /\ q.done = p.done /\ q.slot = p.slot
        /\ q.terminal = p.terminal /\ q.bind = "seated" /\ q.seat = TRUE
        /\ q.row = p.row /\ q.cleanup = p.cleanup
    BY <1>1 DEF Peer
  <2> HIDE DEF q
  <2>3. PeerInv(q) /\ PeerMove(p, q) /\ Admitted(t, q)
    BY <1>1, <1>2, <2>1, <2>2 DEF p, PeerInv, PeerMove, Leaving, OutP, Admitted
  <2>4. QED
    BY <2>1, <2>3 DEF Moves, p
<1>3. CASE ~RoomIn(Seats, t)
  <2>1. /\ p.bind \notin {"no", "bound"}
        /\ peer' = [peer EXCEPT ![t] = Rejected(p)] /\ UNCHANGED <<barred, revocation>>
    BY <1>3 DEF TakeSeat, Becomes
  <2>2. Moves(t, Rejected(p)) /\ Admitted(t, Rejected(p))
    BY <1>1, <2>1, RejectedMoves DEF Moves, Admitted
  <2>3. QED
    BY <2>2
<1>4. QED
  BY <1>2, <1>3

LEMMA ListMoves ==
    ASSUME PeersInv, NEW t \in Transports, ListSocket(t)
    PROVE  \E q : Moves(t, q) /\ Admitted(t, q)
<1> DEFINE p == peer[t]
<1>1. PeerInv(p) /\ p \in Peer
  BY DEF PeersInv
<1>2. CASE Becomes(t, [p EXCEPT !.bind = "listed", !.row = TRUE])
  <2> DEFINE q == [p EXCEPT !.bind = "listed", !.row = TRUE]
  <2>1. /\ p.bind = "seated"
        /\ peer' = [peer EXCEPT ![t] = q] /\ UNCHANGED <<barred, revocation>>
    BY <1>2 DEF ListSocket, Becomes
  <2> HIDE DEF p
  <2>2. /\ q \in Peer /\ q.opening = p.opening /\ q.account = p.account
        /\ q.socket = p.socket /\ q.done = p.done /\ q.slot = p.slot
        /\ q.terminal = p.terminal /\ q.bind = "listed" /\ q.seat = p.seat
        /\ q.row = TRUE /\ q.cleanup = p.cleanup
    BY <1>1 DEF Peer
  <2> HIDE DEF q
  <2>3. PeerInv(q) /\ PeerMove(p, q) /\ Admitted(t, q)
    BY <1>1, <1>2, <2>1, <2>2 DEF p, PeerInv, PeerMove, Leaving, OutP, Admitted
  <2>4. QED
    BY <2>1, <2>3 DEF Moves, p
<1>3. CASE Becomes(t, Rejected(p))
  <2>1. /\ p.bind \notin {"no", "bound"}
        /\ peer' = [peer EXCEPT ![t] = Rejected(p)] /\ UNCHANGED <<barred, revocation>>
    BY <1>3 DEF ListSocket, Becomes
  <2>2. Moves(t, Rejected(p)) /\ Admitted(t, Rejected(p))
    BY <1>1, <2>1, RejectedMoves DEF Moves, Admitted
  <2>3. QED
    BY <2>2
<1>4. QED
  BY <1>2, <1>3 DEF ListSocket

LEMMA FinishMoves ==
    ASSUME PeersInv, NEW t \in Transports, FinishBind(t)
    PROVE  \E q : Moves(t, q) /\ Admitted(t, q)
<1> DEFINE p == peer[t]
<1>1. PeerInv(p) /\ p \in Peer
  BY DEF PeersInv
<1>2. CASE Becomes(t, [p EXCEPT !.bind = "bound"])
  <2> DEFINE q == [p EXCEPT !.bind = "bound"]
  <2>1. /\ p.bind = "listed"
        /\ peer' = [peer EXCEPT ![t] = q] /\ UNCHANGED <<barred, revocation>>
    BY <1>2 DEF FinishBind, Becomes
  <2> HIDE DEF p
  <2>2. /\ q \in Peer /\ q.opening = p.opening /\ q.account = p.account
        /\ q.socket = p.socket /\ q.done = p.done /\ q.slot = p.slot
        /\ q.terminal = p.terminal /\ q.bind = "bound" /\ q.seat = p.seat
        /\ q.row = p.row /\ q.cleanup = p.cleanup
    BY <1>1 DEF Peer
  <2> HIDE DEF q
  <2>3. PeerInv(q) /\ PeerMove(p, q) /\ Admitted(t, q)
    BY <1>1, <1>2, <2>1, <2>2 DEF p, PeerInv, PeerMove, Leaving, OutP, Admitted
  <2>4. QED
    BY <2>1, <2>3 DEF Moves, p
<1>3. CASE Becomes(t, Rejected(p))
  <2>1. /\ p.bind \notin {"no", "bound"}
        /\ peer' = [peer EXCEPT ![t] = Rejected(p)] /\ UNCHANGED <<barred, revocation>>
    BY <1>3 DEF FinishBind, Becomes
  <2>2. Moves(t, Rejected(p)) /\ Admitted(t, Rejected(p))
    BY <1>1, <2>1, RejectedMoves DEF Moves, Admitted
  <2>3. QED
    BY <2>2
<1>4. QED
  BY <1>2, <1>3 DEF FinishBind

LEMMA LeaveMoves ==
    ASSUME PeersInv, NEW t \in Transports, ClientLeaves(t)
    PROVE  \E q : Moves(t, q) /\ Admitted(t, q)
<1> DEFINE p == peer[t]
<1>1. PeerInv(p) /\ p \in Peer
  BY DEF PeersInv
<1> DEFINE q == Unslotted(Unbound(p))
<1>2. /\ p.opening = "opened" /\ p.done /\ p.socket /\ p.slot
      /\ peer' = [peer EXCEPT ![t] = q] /\ UNCHANGED <<barred, revocation>>
  BY DEF ClientLeaves, Becomes, Receiving
<1> HIDE DEF p
<1>3. /\ q \in Peer /\ q.opening = p.opening /\ q.account = p.account
      /\ q.socket = p.socket /\ q.done = p.done /\ q.slot = FALSE
      /\ q.terminal = FALSE /\ q.bind = "no" /\ q.seat = FALSE /\ q.row = FALSE
      /\ q.cleanup = p.cleanup
  BY <1>1 DEF Peer, Unslotted, Unbound
<1> HIDE DEF q
<1>4. PeerInv(q) /\ PeerMove(p, q) /\ Admitted(t, q)
  BY <1>1, <1>2, <1>3 DEF p, PeerInv, PeerMove, Leaving, OutP, Admitted
<1>5. QED
  BY <1>2, <1>4 DEF Moves, p

LEMMA DropMoves ==
    ASSUME PeersInv, NEW t \in Transports, DropSocket(t)
    PROVE  \E q : Moves(t, q) /\ Admitted(t, q)
<1> DEFINE p == peer[t]
<1>1. PeerInv(p) /\ p \in Peer
  BY DEF PeersInv
<1> DEFINE q == [p EXCEPT !.opening = "gone", !.socket = FALSE]
<1>2. /\ p.opening = "opened" /\ p.done /\ p.socket /\ ~p.slot
      /\ peer' = [peer EXCEPT ![t] = q] /\ UNCHANGED <<barred, revocation>>
  BY DEF DropSocket, Becomes, Receiving
<1> HIDE DEF p
<1>3. /\ q \in Peer /\ q.opening = "gone" /\ q.account = p.account
      /\ q.socket = FALSE /\ q.done = p.done /\ q.slot = p.slot
      /\ q.terminal = p.terminal /\ q.bind = p.bind /\ q.seat = p.seat
      /\ q.row = p.row /\ q.cleanup = p.cleanup
  BY <1>1 DEF Peer
<1> HIDE DEF q
<1>4. PeerInv(q) /\ PeerMove(p, q) /\ Admitted(t, q)
  BY <1>1, <1>2, <1>3 DEF p, PeerInv, PeerMove, Leaving, OutP, Admitted
<1>5. QED
  BY <1>2, <1>4 DEF Moves, p

LEMMA CleanupMoves ==
    ASSUME PeersInv, NEW t \in Transports, Cleanup(t)
    PROVE  \E q : Moves(t, q) /\ Admitted(t, q)
<1> DEFINE p == peer[t]
<1>1. PeerInv(p) /\ p \in Peer
  BY DEF PeersInv
<1>2. CASE ~p.slot
  <2> DEFINE q == [p EXCEPT !.cleanup = FALSE]
  <2>1. /\ p.cleanup /\ (p.done \/ ~p.socket)
        /\ peer' = [peer EXCEPT ![t] = q] /\ UNCHANGED <<barred, revocation>>
    BY <1>1, <1>2 DEF Cleanup, Becomes, Peer
  <2> HIDE DEF p
  <2>2. /\ q \in Peer /\ q.opening = p.opening /\ q.account = p.account
        /\ q.socket = p.socket /\ q.done = p.done /\ q.slot = p.slot
        /\ q.terminal = p.terminal /\ q.bind = p.bind /\ q.seat = p.seat
        /\ q.row = p.row /\ q.cleanup = FALSE
    BY <1>1 DEF Peer
  <2> HIDE DEF q
  <2>3. PeerInv(q) /\ PeerMove(p, q) /\ Admitted(t, q)
    BY <1>1, <1>2, <2>1, <2>2 DEF p, PeerInv, PeerMove, Leaving, OutP, Admitted
  <2>4. QED
    BY <2>1, <2>3 DEF Moves, p
<1>3. CASE p.slot
  <2> DEFINE q == [Unslotted(Unbound([p EXCEPT !.cleanup = FALSE])) EXCEPT !.socket = FALSE, !.opening = "gone"]
  <2>1. /\ p.cleanup /\ (p.done \/ ~p.socket)
        /\ peer' = [peer EXCEPT ![t] = q] /\ UNCHANGED <<barred, revocation>>
    BY <1>1, <1>3 DEF Cleanup, Becomes, Peer
  <2> HIDE DEF p
  <2>2. /\ q \in Peer /\ q.opening = "gone" /\ q.account = p.account
        /\ q.socket = FALSE /\ q.done = p.done /\ q.slot = FALSE /\ q.terminal = FALSE
        /\ q.bind = "no" /\ q.seat = FALSE /\ q.row = FALSE /\ q.cleanup = FALSE
    BY <1>1 DEF Peer, Unslotted, Unbound
  <2> HIDE DEF q
  <2>3. PeerInv(q) /\ PeerMove(p, q) /\ Admitted(t, q)
    BY <1>1, <1>3, <2>1, <2>2 DEF p, PeerInv, PeerMove, Leaving, OutP, Admitted
  <2>4. QED
    BY <2>1, <2>3 DEF Moves, p
<1>4. QED
  BY <1>1, <1>2, <1>3 DEF Peer

----------------------------------------------------------------------------
(* The steps of revoke_user_access. *)

LEMMA BarKeeps ==
    ASSUME AdmissionInv, NEW u \in Accounts, Bar(u)
    PROVE  AdmissionInv'
<1>1. /\ revocation \in RevocationRecord /\ revocation.at = "none" /\ revocation.of = {}
      /\ revocation.current.on = {} /\ barred = {} /\ peer' = peer
      /\ \A t \in Targeted : peer[t].account \in revocation.of
  BY DEF AdmissionInv, RevocationInv, Bar
<1>2. revocation.todo = {}
  BY <1>1 DEF Targeted
<1>3. /\ revocation' \in RevocationRecord /\ revocation'.at = "listing" /\ revocation'.of = {u}
      /\ revocation'.todo = revocation.todo /\ revocation'.current = revocation.current
      /\ barred' = {u}
  BY <1>1 DEF Bar, RevocationRecord
<1>4. RevocationInv'
  BY <1>1, <1>2, <1>3 DEF RevocationInv, Targeted, Late
<1>5. PeersInv' /\ MarksInv' /\ LimitsHold'
  BY <1>1, <1>3 DEF AdmissionInv, PeersInv, MarksInv, LimitsHold, Slots, Seats, OfAccount
<1>6. QED
  BY <1>4, <1>5 DEF AdmissionInv

LEMMA ListKeeps ==
    ASSUME AdmissionInv, ListRows
    PROVE  AdmissionInv'
<1> DEFINE rows == {t \in Transports : peer[t].row /\ peer[t].account \in revocation.of}
           slots == {t \in Slots : peer[t].account \in revocation.of}
<1>1. /\ revocation \in RevocationRecord /\ revocation.current.on = {} /\ peer' = peer
      /\ barred' = barred /\ barred = revocation.of
      /\ \/ revocation.at = "listing"
         \/ revocation.at = "row"
         \/ revocation.at = "sid" /\ revocation.todo = {}
  BY DEF AdmissionInv, RevocationInv, ListRows, Revoking
<1>2. PICK place, todo : /\ revocation' = [revocation EXCEPT !.at = place, !.todo = todo]
                         /\ \/ place = "row" /\ todo = rows
                            \/ place = "sid" /\ todo = slots
                            \/ place = "returned" /\ todo = {} /\ revocation.at = "sid" /\ revocation.todo = {}
  BY DEF ListRows, Revoking
<1>3. todo \subseteq Transports /\ \A t \in todo : peer[t].account \in revocation.of
  BY <1>2 DEF Slots
<1>4. /\ revocation' \in RevocationRecord /\ revocation'.at = place /\ revocation'.of = revocation.of
      /\ revocation'.todo = todo /\ revocation'.current = revocation.current
  BY <1>1, <1>2, <1>3 DEF RevocationRecord
<1>5. ASSUME Late', NEW t \in Transports, peer[t].account \in revocation.of
      PROVE  OutP(peer[t]) \/ t \in todo
  <2>1. CASE place = "sid"
    <3>1. t \notin slots => ~peer[t].slot
      BY <1>5 DEF Slots
    <3>2. PeerInv(peer[t])
      BY DEF AdmissionInv, PeersInv
    <3>3. QED
      BY <1>2, <2>1, <3>1, <3>2 DEF PeerInv, OutP, Leaving
  <2>2. CASE place = "returned"
    BY <1>1, <1>2, <1>5, <2>2 DEF AdmissionInv, RevocationInv, Late, Targeted
  <2>3. QED
    BY <1>1, <1>2, <1>4, <1>5, <2>1, <2>2 DEF Late
<1>6. RevocationInv'
  BY <1>1, <1>2, <1>3, <1>4, <1>5 DEF RevocationInv, Targeted
<1>7. PeersInv' /\ MarksInv' /\ LimitsHold'
  BY <1>1, <1>4 DEF AdmissionInv, PeersInv, MarksInv, LimitsHold, Slots, Seats, OfAccount
<1>8. QED
  BY <1>6, <1>7 DEF AdmissionInv

LEMMA MarkKeeps ==
    ASSUME AdmissionInv, NEW t \in Transports, MarkOne(t)
    PROVE  AdmissionInv'
<1> DEFINE p == peer[t]
           first == p.slot /\ p.socket /\ ~p.terminal
           q == [p EXCEPT !.terminal = p.terminal \/ first]
           todo == revocation.todo \ {t}
<1>1. /\ p \in Peer /\ PeerInv(p) /\ revocation \in RevocationRecord
      /\ revocation.at \in {"row", "sid"} /\ revocation.current.on = {} /\ barred = revocation.of
      /\ t \in revocation.todo /\ p.account \in revocation.of
      /\ p.bind \in {"no", "bound"}
      /\ barred' = barred /\ peer' = [peer EXCEPT ![t] = q]
  BY DEF AdmissionInv, PeersInv, RevocationInv, MarkOne, Guarded, Targeted, PeerInv, Peer
<1>2. p.terminal => p.cleanup /\ p.bind = "no"
  BY <1>1 DEF AdmissionInv, MarksInv
<1>3. /\ revocation' = IF first \/ revocation.at = "row"
                       THEN [revocation EXCEPT !.todo = todo, !.at = "kick",
                               !.current = [on |-> {t}, back |-> revocation.at, mine |-> first]]
                       ELSE [revocation EXCEPT !.todo = todo]
      /\ first \in BOOLEAN
  BY DEF MarkOne
<1>4. /\ q \in Peer /\ q.account = p.account /\ q.opening = p.opening /\ q.socket = p.socket
      /\ q.done = p.done /\ q.slot = p.slot /\ q.bind = p.bind /\ q.seat = p.seat
      /\ q.row = p.row /\ q.cleanup = p.cleanup
      /\ q.terminal = (p.terminal \/ first)
  BY <1>1 DEF Peer
<1>5. (first => p.slot /\ ~p.terminal) /\ (~first => ~p.slot \/ p.terminal)
  BY <1>1 DEF PeerInv
<1>6. peer'[t] = q /\ \A x \in Transports \ {t} : peer'[x] = peer[x]
  BY <1>1 DEF AdmissionInv, PeersInv
<1>7. peer \in [Transports -> Peer] /\ todo \in SUBSET Transports
  BY <1>1 DEF AdmissionInv, PeersInv, RevocationRecord
<1> HIDE DEF first, q, todo
<1>8. PeerInv(q) /\ Leaving(q)
  BY <1>1, <1>4, <1>5 DEF PeerInv, Leaving
<1>9. PeersInv'
  BY <1>1, <1>4, <1>6, <1>7, <1>8 DEF AdmissionInv, PeersInv
<1>10. \A x \in Transports : peer'[x].account = peer[x].account
  BY <1>4, <1>6
<1>11. \A x \in Transports \ {t} : /\ peer[x].terminal => peer[x].cleanup /\ peer[x].bind = "no"
                                   /\ x \in Targeted => x \in todo
  BY <1>1 DEF AdmissionInv, MarksInv, Targeted, todo
<1>12. ASSUME first \/ revocation.at = "row" PROVE RevocationInv' /\ MarksInv'
  <2>1. /\ revocation' \in RevocationRecord /\ revocation'.at = "kick"
        /\ revocation'.todo = todo /\ revocation'.of = revocation.of
        /\ revocation'.current.on = {t} /\ revocation'.current.back = revocation.at
        /\ revocation'.current.mine = first
    BY <1>1, <1>3, <1>7, <1>12 DEF RevocationRecord
  <2>2. Targeted' = todo \cup {t} /\ Targeted' \subseteq Transports
    BY <1>7, <2>1 DEF Targeted
  <2>3. \A x \in Targeted' : peer'[x].account \in revocation.of
    BY <1>1, <1>10, <2>2 DEF AdmissionInv, RevocationInv, Targeted, todo
  <2>4. Late' => \A x \in Transports :
                   peer'[x].account \in revocation.of => OutP(peer'[x]) \/ x \in Targeted'
    BY <1>1, <1>6, <1>11, <2>1, <2>2 DEF AdmissionInv, RevocationInv, Late
  <2>5. RevocationInv'
    BY <1>1, <1>6, <1>8, <2>1, <2>2, <2>3, <2>4 DEF RevocationInv
  <2>6. MarksInv'
    BY <1>2, <1>4, <1>6, <1>11, <2>1 DEF MarksInv
  <2>7. QED
    BY <2>5, <2>6
<1>13. ASSUME ~(first \/ revocation.at = "row") PROVE RevocationInv' /\ MarksInv'
  <2>1. /\ revocation' \in RevocationRecord /\ revocation'.at = revocation.at
        /\ revocation'.todo = todo /\ revocation'.of = revocation.of
        /\ revocation'.current = revocation.current
    BY <1>1, <1>3, <1>7, <1>13 DEF RevocationRecord
  <2>2. Targeted' = todo /\ Late' = Late
    BY <1>1, <2>1 DEF Targeted, Late
  <2>3. OutP(q)
    BY <1>1, <1>2, <1>4, <1>5, <1>8, <1>13 DEF OutP, PeerInv
  <2>4. \A x \in todo : x \in Transports /\ peer'[x].account \in revocation.of
    BY <1>7, <1>10 DEF AdmissionInv, RevocationInv, Targeted, todo
  <2>5. Late => \A x \in Transports :
                  peer'[x].account \in revocation.of => OutP(peer'[x]) \/ x \in todo
    BY <1>6, <1>11, <2>3 DEF AdmissionInv, RevocationInv
  <2>6. RevocationInv'
    BY <1>1, <2>1, <2>2, <2>4, <2>5 DEF RevocationInv
  <2>7. MarksInv'
    BY <1>2, <1>4, <1>6, <1>11, <1>13, <2>1 DEF MarksInv
  <2>8. QED
    BY <2>6, <2>7
<1>14. LimitsHold'
  <2>1. Admitted(t, q) /\ q.account = peer[t].account
    BY <1>4 DEF Admitted, p
  <2>2. PeersInv /\ LimitsHold
    BY DEF AdmissionInv
  <2>3. QED
    BY <1>1, <2>1, <2>2, LimitsKept
<1>15. QED
  BY <1>9, <1>12, <1>13, <1>14 DEF AdmissionInv

LEMMA KickKeeps ==
    ASSUME AdmissionInv, KickOne
    PROVE  AdmissionInv'
<1>1. PICK t \in revocation.current.on :
        peer' = [peer EXCEPT ![t] = [Unbound(peer[t]) EXCEPT !.cleanup = @ \/ revocation.current.mine]]
  BY DEF KickOne
<1> DEFINE p == peer[t]
           r == Unbound(p)
           mine == revocation.current.mine
           done == r.cleanup \/ mine
           q == [r EXCEPT !.cleanup = done]
<1>2. /\ revocation \in RevocationRecord /\ revocation.at = "kick"
      /\ revocation.current.back \in {"row", "sid"} /\ revocation.current.on = {t}
      /\ t \in Transports /\ barred' = barred /\ barred = revocation.of
      /\ p \in Peer /\ PeerInv(p) /\ Leaving(p) /\ p.account \in revocation.of
  BY <1>1 DEF AdmissionInv, PeersInv, RevocationInv, RevocationRecord, KickOne, Targeted
<1>3. peer' = [peer EXCEPT ![t] = q]
  BY <1>1
<1>4. /\ r \in Peer /\ r.bind = "no" /\ ~r.seat /\ ~r.row
      /\ r.opening = p.opening /\ r.account = p.account /\ r.socket = p.socket
      /\ r.done = p.done /\ r.slot = p.slot /\ r.terminal = p.terminal
      /\ r.cleanup = p.cleanup
  BY <1>2, UnboundIs
<1>5. done \in BOOLEAN
  OBVIOUS
<1>6. (p.cleanup => done) /\ (mine => done)
  BY <1>4
<1> HIDE DEF r, done
<1>7. /\ q \in Peer /\ q.bind = "no" /\ ~q.seat /\ ~q.row
      /\ q.opening = p.opening /\ q.account = p.account /\ q.socket = p.socket
      /\ q.done = p.done /\ q.slot = p.slot /\ q.terminal = p.terminal
      /\ q.cleanup = done
  BY <1>4, <1>5 DEF Peer
<1>8. peer'[t] = q /\ \A x \in Transports \ {t} : peer'[x] = peer[x]
  BY <1>2, <1>3 DEF AdmissionInv, PeersInv
<1> HIDE DEF q
<1>9. PeerInv(q) /\ OutP(q)
  BY <1>2, <1>7 DEF PeerInv, OutP, Leaving
<1>10. PeersInv'
  BY <1>2, <1>3, <1>7, <1>8, <1>9 DEF AdmissionInv, PeersInv
<1>11. /\ revocation' \in RevocationRecord /\ revocation'.at = revocation.current.back
       /\ revocation'.todo = revocation.todo /\ revocation'.of = revocation.of
       /\ revocation'.current.on = {}
  BY <1>2 DEF KickOne, RevocationRecord, NoTransport
<1>12. /\ Targeted' = revocation.todo /\ Targeted = revocation.todo \cup {t}
       /\ (Late' <=> Late) /\ revocation.todo \subseteq Transports
  BY <1>2, <1>11 DEF Targeted, Late, RevocationRecord
<1>13. RevocationInv'
  <2>1. \A x \in revocation.todo : peer'[x].account \in revocation.of
    BY <1>7, <1>8, <1>12 DEF AdmissionInv, RevocationInv
  <2>2. Late => \A x \in Transports :
                  peer'[x].account \in revocation.of => OutP(peer'[x]) \/ x \in revocation.todo
    BY <1>8, <1>9, <1>12 DEF AdmissionInv, RevocationInv
  <2>3. QED
    BY <1>2, <1>11, <1>12, <2>1, <2>2 DEF RevocationInv
<1>14. MarksInv'
  <2>1. p.terminal => q.cleanup
    BY <1>2, <1>6, <1>7 DEF AdmissionInv, MarksInv
  <2>2. \A x \in Transports \ {t} : peer[x].terminal => peer[x].cleanup /\ peer[x].bind = "no"
    BY <1>2 DEF AdmissionInv, MarksInv
  <2>3. QED
    BY <1>7, <1>8, <1>11, <2>1, <2>2 DEF MarksInv
<1>15. LimitsHold'
  <2>1. Admitted(t, q) /\ q.account = peer[t].account
    BY <1>7 DEF Admitted, p
  <2>2. PeersInv /\ LimitsHold
    BY DEF AdmissionInv
  <2>3. QED
    BY <1>2, <1>3, <2>1, <2>2, LimitsKept
<1>16. QED
  BY <1>10, <1>13, <1>14, <1>15 DEF AdmissionInv

----------------------------------------------------------------------------

LEMMA AdmissionStarts == AdmissionInit => AdmissionInv
<1> SUFFICES ASSUME AdmissionInit PROVE AdmissionInv
  OBVIOUS
<1>1. PICK owner \in [Transports -> Accounts] :
        peer = [t \in Transports |->
                  [opening |-> "out", account |-> owner[t], socket |-> FALSE, done |-> FALSE,
                   slot |-> FALSE, terminal |-> FALSE, bind |-> "no",
                   seat |-> FALSE, row |-> FALSE, cleanup |-> FALSE]]
  BY DEF AdmissionInit
<1>2. PeersInv /\ \A t \in Transports : ~peer[t].slot /\ ~peer[t].seat /\ ~peer[t].terminal
  BY <1>1 DEF PeersInv, PeerInv, Peer
<1>3. /\ revocation \in RevocationRecord /\ revocation.at = "none" /\ revocation.of = {}
      /\ revocation.todo = {} /\ revocation.current.on = {} /\ barred = {}
  BY DEF AdmissionInit, NoTransport, RevocationRecord
<1>4. RevocationInv /\ MarksInv
  BY <1>2, <1>3 DEF RevocationInv, MarksInv, Targeted, Late
<1>5. LimitsHold
  <2>1. Slots = {} /\ Seats = {}
    BY <1>2 DEF Slots, Seats
  <2>2. \A u \in Accounts : OfAccount({}, u) = {}
    BY DEF OfAccount
  <2>3. Cardinality({}) = 0
    BY FS_EmptySet
  <2>4. MaxSockets >= 0 /\ MaxPerAccount >= 0
    BY AdmissionAssumption
  <2>5. \A S \in {Slots, Seats} : S = {}
    BY <2>1
  <2>6. QED
    BY <2>2, <2>3, <2>4, <2>5 DEF LimitsHold
<1>6. QED
  BY <1>2, <1>4, <1>5 DEF AdmissionInv

LEMMA AdmissionStep == AdmissionInv /\ [AdmissionNext]_admissionVars => AdmissionInv'
<1> SUFFICES ASSUME AdmissionInv, [AdmissionNext]_admissionVars PROVE AdmissionInv'
  OBVIOUS
<1>1. PeersInv /\ LimitsHold
  BY DEF AdmissionInv
<1>2. ASSUME NEW t \in Transports, NEW q, Moves(t, q), Admitted(t, q) PROVE AdmissionInv'
  <2>1. peer' = [peer EXCEPT ![t] = q] /\ q.account = peer[t].account
    BY <1>2 DEF Moves, PeerMove
  <2>2. LimitsHold'
    BY <1>1, <1>2, <2>1, LimitsKept
  <2>3. QED
    BY <1>2, <2>2, MoveKeeps DEF AdmissionInv
<1>3. ASSUME NEW t \in Transports, Insert(t) \/ EnterBind(t) \/ ClientLeaves(t) PROVE AdmissionInv'
  BY <1>1, <1>2, <1>3, InsertMoves, EnterMoves, LeaveMoves
<1>4. ASSUME NEW t \in Transports, Connecting(t) PROVE AdmissionInv'
  BY <1>1, <1>2, <1>4, AskMoves, ReserveMoves, RecheckMoves, RefusedMoves, OpenedMoves DEF Connecting
<1>5. ASSUME NEW t \in Transports, Binding(t) PROVE AdmissionInv'
  BY <1>1, <1>2, <1>5, CheckMoves, SeatMoves, ListMoves, FinishMoves DEF Binding
<1>6. ASSUME NEW t \in Transports, DropSocket(t) \/ Cleanup(t) PROVE AdmissionInv'
  BY <1>1, <1>2, <1>6, DropMoves, CleanupMoves
<1>7. CASE UNCHANGED admissionVars
  <2>1. peer' = peer /\ barred' = barred /\ revocation' = revocation
    BY <1>7 DEF admissionVars
  <2>2. PeersInv' /\ MarksInv' /\ LimitsHold'
    BY <2>1 DEF AdmissionInv, PeersInv, MarksInv, LimitsHold, Slots, Seats, OfAccount
  <2>3. RevocationInv'
    BY <2>1 DEF AdmissionInv, RevocationInv, Late, Targeted
  <2>4. QED
    BY <2>2, <2>3 DEF AdmissionInv
<1>8. QED
  BY <1>3, <1>4, <1>5, <1>6, <1>7, BarKeeps, ListKeeps, MarkKeeps, KickKeeps
  DEF AdmissionNext, ServerStep

\* Whatever transports connect, bind, leave and are revoked at once: the registries
\* stay within the socket limits, nothing a transport held outlives it, and once
\* revoke_user_access has returned the account has no namespace and can get none.
THEOREM AdmissionIsSafe == AdmissionSpec => []CapacitySafe
<1>1. AdmissionSpec => []AdmissionInv
  BY AdmissionStarts, AdmissionStep, PTL DEF AdmissionSpec
<1>2. AdmissionInv => CapacitySafe
  <2> SUFFICES ASSUME AdmissionInv PROVE CapacitySafe
    OBVIOUS
  <2>1. AdmissionTypeOK
    BY DEF AdmissionInv, PeersInv, RevocationInv, RevocationRecord, AdmissionTypeOK
  <2>2. NothingLeft
    BY DEF AdmissionInv, PeersInv, PeerInv, Peer, MarksInv, NothingLeft, Guarded
  <2>3. RevokedIsOut
    BY DEF AdmissionInv, RevocationInv, Late, Targeted, OutP, Leaving, RevokedIsOut
  <2>4. QED
    BY <2>1, <2>2, <2>3 DEF AdmissionInv, CapacitySafe
<1>3. QED
  BY <1>1, <1>2, PTL

----------------------------------------------------------------------------
(* The shutdown.  Three things make it one: who leads is alone (LeadInv),   *)
(* what is unfinished was listed when the leader looked (JobsInv), and what *)
(* the leader has told so far follows from the phase it is in (ToldInv).    *)
(* The executor has its own flag (ExecInv), which outlives the leader.      *)

JobStates == {"none", "rejected", "queued", "running", "done"}
JobRecord == [state : JobStates, listed : BOOLEAN, cancel : BOOLEAN]
CallerPlaces == Leading \cup {"outside", "asleep", "closing", "returned"}

LcTypes ==
    /\ job \in [Jobs -> JobRecord]
    /\ pc \in [Callers -> CallerPlaces]
    /\ snap \subseteq Jobs
    /\ execDown \in {0, 1}

\* Whatever is queued or runs is listed, and was when the shutdown began.
JobsInv ==
    /\ \A j \in Unfinished : job[j].listed
    /\ started => ~accepting /\ Unfinished \subseteq snap
    /\ report = {{}} => snap \cap Unfinished = {} /\ asked \subseteq fired

LeadInv ==
    /\ ~started => report = NoReport /\ \A c \in Callers : pc[c] \notin Leading
    /\ report # NoReport => \A c \in Callers : pc[c] \notin Leading
    /\ \A c, d \in Callers : pc[c] \in Leading /\ pc[d] \in Leading => c = d

ExecInv ==
    /\ \A c \in Callers : pc[c] = "closing" => execFlag /\ execDown = 0
    /\ \A c, d \in Callers : pc[c] = "closing" /\ pc[d] = "closing" => c = d
    /\ ~execFlag => execDown = 0

\* Nobody has told a deferred job to stop.
DeferredUntold == \A j \in Deferred : ~job[j].cancel

ToldInv ==
    /\ ~started => DeferredUntold
    /\ \A c \in Callers :
         /\ pc[c] \in {"callbacks", "cancel", "await"} => DeferredUntold
         /\ pc[c] \in {"await", "cancelDeferred", "join"} =>
              \A j \in snap \ Deferred : job[j].cancel
         /\ pc[c] \in {"cancelDeferred", "join"} => AwaitOver
         /\ pc[c] = "join" => DeferredTold
    /\ report # NoReport => \A j \in snap : job[j].cancel
    /\ DeferredUntold \/ AwaitOver

LcInv == LcTypes /\ JobsInv /\ LeadInv /\ ExecInv /\ ToldInv

----------------------------------------------------------------------------
(* Steps of jobs *)

\* What the steps of jobs have in common: no order to stop is withdrawn, nothing
\* starts unless it is admitted, and what starts is listed.
JobsMove ==
    /\ UNCHANGED <<shutdownVars, fired>>
    /\ job' \in [Jobs -> JobRecord]
    /\ \A j \in Jobs :
         /\ job[j].cancel => job'[j].cancel
         /\ j \in Unfinished' => (j \in Unfinished \/ accepting) /\ job'[j].listed

\* One record of a job changes.
LEMMA JobStep ==
    ASSUME LcInv, NEW j \in Jobs,
           StartJob(j) \/ RunJob(j) \/ FinishJob(j) \/ RemoveJob(j) \/ CancelByOwner(j)
    PROVE  JobsMove /\ \A i \in Deferred : job'[i].cancel = job[i].cancel
<1> USE DEF LcInv
<1>0. job \in [Jobs -> JobRecord] /\ job[j] \in JobRecord /\ Deferred \subseteq Jobs
  BY LifecycleAssumption DEF LcTypes
<1>1. UNCHANGED <<shutdownVars, fired>>
  BY DEF StartJob, RunJob, FinishJob, RemoveJob, CancelByOwner
<1>2. PICK q : /\ job' = [job EXCEPT ![j] = q] /\ q \in JobRecord
               /\ job[j].cancel => q.cancel
               /\ j \in Deferred => q.cancel = job[j].cancel
               /\ q.state \in {"queued", "running"} =>
                     q.listed /\ (job[j].state \in {"queued", "running"} \/ accepting)
  <2>1. CASE StartJob(j)
    <3>1. CASE accepting
      <4> DEFINE q == [job[j] EXCEPT !.state = "queued", !.listed = TRUE]
      <4>1. job' = [job EXCEPT ![j] = q]
        BY <1>0, <2>1, <3>1 DEF StartJob
      <4>2. q \in JobRecord /\ q.state = "queued" /\ q.listed /\ q.cancel = job[j].cancel
        BY <1>0 DEF JobRecord, JobStates
      <4> HIDE DEF q
      <4>3. QED
        BY <3>1, <4>1, <4>2
    <3>2. CASE ~accepting
      <4> DEFINE q == [job[j] EXCEPT !.state = "rejected"]
      <4>1. job' = [job EXCEPT ![j] = q]
        BY <1>0, <2>1, <3>2 DEF StartJob
      <4>2. q \in JobRecord /\ q.state = "rejected" /\ q.cancel = job[j].cancel
        BY <1>0 DEF JobRecord, JobStates
      <4> HIDE DEF q
      <4>3. QED
        BY <4>1, <4>2
    <3>3. QED
      BY <3>1, <3>2
  <2>2. CASE RunJob(j)
    <3> DEFINE q == [job[j] EXCEPT !.state = "running"]
    <3>1. job' = [job EXCEPT ![j] = q] /\ job[j].state = "queued"
      BY <1>0, <2>2 DEF RunJob
    <3>2. job[j].listed
      BY <3>1 DEF JobsInv, Unfinished
    <3>3. q \in JobRecord /\ q.state = "running" /\ q.listed = job[j].listed /\ q.cancel = job[j].cancel
      BY <1>0 DEF JobRecord, JobStates
    <3> HIDE DEF q
    <3>4. QED
      BY <3>1, <3>2, <3>3
  <2>3. CASE FinishJob(j)
    <3> DEFINE q == [job[j] EXCEPT !.state = "done"]
    <3>1. job' = [job EXCEPT ![j] = q]
      BY <1>0, <2>3 DEF FinishJob
    <3>2. q \in JobRecord /\ q.state = "done" /\ q.cancel = job[j].cancel
      BY <1>0 DEF JobRecord, JobStates
    <3> HIDE DEF q
    <3>3. QED
      BY <3>1, <3>2
  <2>4. CASE RemoveJob(j)
    <3> DEFINE q == [job[j] EXCEPT !.listed = FALSE]
    <3>1. job' = [job EXCEPT ![j] = q] /\ job[j].state = "done"
      BY <1>0, <2>4 DEF RemoveJob
    <3>2. q \in JobRecord /\ q.state = job[j].state /\ q.cancel = job[j].cancel
      BY <1>0 DEF JobRecord
    <3> HIDE DEF q
    <3>3. QED
      BY <3>1, <3>2
  <2>5. CASE CancelByOwner(j)
    <3> DEFINE q == [job[j] EXCEPT !.cancel = TRUE]
    <3>1. job' = [job EXCEPT ![j] = q] /\ j \notin Deferred
      BY <1>0, <2>5 DEF CancelByOwner
    <3>2. q \in JobRecord /\ q.state = job[j].state /\ q.listed = job[j].listed /\ q.cancel
      BY <1>0 DEF JobRecord
    <3>3. q.state \in {"queued", "running"} => job[j].listed
      BY <3>2 DEF JobsInv, Unfinished
    <3> HIDE DEF q
    <3>4. QED
      BY <3>1, <3>2, <3>3
  <2>6. QED
    BY <2>1, <2>2, <2>3, <2>4, <2>5
<1>3. job' \in [Jobs -> JobRecord] /\ job'[j] = q /\ \A i \in Jobs \ {j} : job'[i] = job[i]
  BY <1>0, <1>2
<1>4. \A i \in Jobs : i \in Unfinished' => (i \in Unfinished \/ accepting) /\ job'[i].listed
  BY <1>2, <1>3 DEF Unfinished, JobsInv
<1>5. QED
  BY <1>0, <1>1, <1>2, <1>3, <1>4 DEF JobsMove

\* The leader tells one job to stop.
LEMMA CancelStep ==
    ASSUME LcInv, NEW c \in Callers, NEW j \in Jobs, CancelHandle(c, j)
    PROVE  JobsMove /\ (j \notin Deferred => \A i \in Deferred : job'[i].cancel = job[i].cancel)
<1> USE DEF LcInv
<1>0. job \in [Jobs -> JobRecord] /\ job[j] \in JobRecord /\ Deferred \subseteq Jobs
  BY LifecycleAssumption DEF LcTypes
<1> DEFINE q == [job[j] EXCEPT !.cancel = TRUE]
<1>1. job' = [job EXCEPT ![j] = q] /\ UNCHANGED <<shutdownVars, fired>>
  BY <1>0 DEF CancelHandle
<1>2. q \in JobRecord /\ q.state = job[j].state /\ q.listed = job[j].listed /\ q.cancel
  BY <1>0 DEF JobRecord
<1> HIDE DEF q
<1>3. job' \in [Jobs -> JobRecord] /\ job'[j] = q /\ \A i \in Jobs \ {j} : job'[i] = job[i]
  BY <1>0, <1>1, <1>2
<1>4. \A i \in Jobs : i \in Unfinished' => (i \in Unfinished \/ accepting) /\ job'[i].listed
  BY <1>2, <1>3 DEF Unfinished, JobsInv
<1>5. QED
  BY <1>0, <1>1, <1>2, <1>3, <1>4 DEF JobsMove

\* Steps of jobs keep the invariant, if deferred jobs are told in time.
LEMMA JobsMoveKeeps ==
    ASSUME LcInv, JobsMove,
           \/ \A i \in Deferred : job'[i].cancel = job[i].cancel
           \/ \E c \in Callers : pc[c] = "cancelDeferred"
    PROVE  LcInv'
<1> USE DEF LcInv
<1>1. /\ UNCHANGED <<accepting, started, report, execDown, execFlag, pc, snap, asked, expired, fired>>
      /\ Deferred \subseteq Jobs
  BY LifecycleAssumption DEF JobsMove, shutdownVars
<1>2. LcTypes' /\ LeadInv' /\ ExecInv'
  BY <1>1 DEF JobsMove, LcTypes, LeadInv, ExecInv
<1>3. JobsInv'
  <2>1. started => Unfinished' \subseteq Unfinished
    BY DEF JobsMove, JobsInv, Unfinished
  <2>2. report # NoReport => started
    BY DEF LeadInv
  <2>3. report = {{}} => report # NoReport
    BY DEF NoReport
  <2>4. \A j \in Unfinished' : job'[j].listed
    BY DEF JobsMove, Unfinished
  <2>5. QED
    BY <1>1, <2>1, <2>2, <2>3, <2>4 DEF JobsInv
<1>4. ToldInv'
  <2>1. \A j \in Jobs : job[j].cancel => job'[j].cancel
    BY DEF JobsMove
  <2>2. AwaitOver' = AwaitOver
    BY <1>1 DEF AwaitOver
  <2>3. CASE \A i \in Deferred : job'[i].cancel = job[i].cancel
    <3>1. DeferredUntold' = DeferredUntold
      BY <2>3 DEF DeferredUntold
    <3>2. QED
      BY <1>1, <2>1, <2>2, <3>1 DEF ToldInv, DeferredTold, LcTypes
  <2>4. CASE \E c \in Callers : pc[c] = "cancelDeferred"
    <3>1. PICK c \in Callers : pc[c] = "cancelDeferred"
      BY <2>4
    <3>2. started /\ AwaitOver /\ \A d \in Callers : pc[d] \in Leading => d = c
      BY <3>1 DEF LeadInv, ToldInv, Leading
    <3>3. QED
      BY <1>1, <2>1, <2>2, <3>1, <3>2 DEF ToldInv, DeferredTold, LcTypes, Leading
  <2>5. QED
    BY <2>3, <2>4
<1>5. QED
  BY <1>2, <1>3, <1>4

----------------------------------------------------------------------------
(* begin_shutdown *)

LEMMA EnterKeeps ==
    ASSUME LcInv, NEW c \in Callers, Enter(c)
    PROVE  LcInv'
<1> USE DEF LcInv
<1>0. pc[c] = "outside" /\ UNCHANGED <<job, report, execDown, asked, fired, expired>>
  BY DEF Enter
<1>1. CASE /\ ~started /\ started' = TRUE /\ accepting' = FALSE
           /\ snap' = Snapshot
           /\ pc' = [pc EXCEPT ![c] = "callbacks"]
           /\ UNCHANGED execFlag
  <2>1. LcTypes' /\ LeadInv' /\ ExecInv'
    BY <1>0, <1>1 DEF LcTypes, LeadInv, ExecInv, CallerPlaces, Leading, Snapshot
  <2>2. JobsInv'
    BY <1>0, <1>1 DEF JobsInv, LeadInv, Unfinished, Snapshot, NoReport
  <2>3. ToldInv'
    BY <1>0, <1>1 DEF LcTypes, ToldInv, LeadInv, DeferredUntold, AwaitOver, DeferredTold, Leading
  <2>4. QED
    BY <2>1, <2>2, <2>3
<1>2. CASE /\ pc' = [pc EXCEPT ![c] = "asleep"]
           /\ UNCHANGED <<started, accepting, snap, toCall, execFlag>>
  <2>1. LcTypes' /\ LeadInv' /\ ExecInv'
    BY <1>0, <1>2 DEF LcTypes, LeadInv, ExecInv, CallerPlaces, Leading
  <2>2. JobsInv' /\ ToldInv'
    BY <1>0, <1>2 DEF LcTypes, JobsInv, ToldInv, Unfinished, DeferredUntold, AwaitOver, DeferredTold
  <2>3. QED
    BY <2>1, <2>2
<1>3. CASE TakesExecutor(c) /\ UNCHANGED <<started, accepting, snap, toCall>>
  <2>0. pc' = [pc EXCEPT ![c] = IF execFlag THEN "returned" ELSE "closing"] /\ execFlag' = TRUE
    BY <1>3 DEF TakesExecutor
  <2>1. LcTypes' /\ LeadInv' /\ ExecInv'
    BY <1>0, <1>3, <2>0 DEF LcTypes, LeadInv, ExecInv, CallerPlaces, Leading
  <2>2. JobsInv' /\ ToldInv'
    BY <1>0, <1>3, <2>0 DEF LcTypes, JobsInv, ToldInv, Unfinished, DeferredUntold, AwaitOver, DeferredTold
  <2>3. QED
    BY <2>1, <2>2
<1>4. QED
  BY <1>1, <1>2, <1>3 DEF Enter

LEMMA CallbackKeeps ==
    ASSUME LcInv, NEW c \in Callers, NEW b \in Callbacks, RunCallback(c, b)
    PROVE  LcInv'
<1> USE DEF LcInv
<1>0. /\ pc[c] = "callbacks"
      /\ UNCHANGED <<job, accepting, started, report, execDown, execFlag, pc, snap, fired, expired>>
  BY DEF RunCallback
<1>1. started /\ report = NoReport /\ DeferredUntold /\ \A d \in Callers : pc[d] \in Leading => d = c
  BY <1>0 DEF LeadInv, ToldInv, Leading
<1>2. LcTypes' /\ LeadInv' /\ ExecInv'
  BY <1>0 DEF LcTypes, LeadInv, ExecInv
<1>3. JobsInv'
  BY <1>0, <1>1 DEF JobsInv, Unfinished, NoReport
<1>4. ToldInv'
  BY <1>0, <1>1 DEF ToldInv, DeferredUntold, DeferredTold, Leading
<1>5. QED
  BY <1>2, <1>3, <1>4

LEMMA AdvanceKeeps ==
    ASSUME LcInv, NEW c \in Callers, Advance(c)
    PROVE  LcInv'
<1> USE DEF LcInv
<1>0. /\ pc' = [pc EXCEPT ![c] = Following[pc[c]]]
      /\ UNCHANGED <<job, accepting, started, report, execDown, execFlag, snap, asked, fired, expired>>
      /\ pc[c] \in {"callbacks", "cancel", "await", "cancelDeferred"}
      /\ PhaseOver(c)
  BY DEF Advance, Leading
<1>1. /\ pc[c] = "callbacks" => pc'[c] = "cancel"
      /\ pc[c] = "cancel" => pc'[c] = "await"
      /\ pc[c] = "await" => pc'[c] = "cancelDeferred"
      /\ pc[c] = "cancelDeferred" => pc'[c] = "join"
      /\ \A d \in Callers \ {c} : pc'[d] = pc[d]
      /\ DOMAIN pc' = Callers
  BY <1>0 DEF LcTypes, Following
<1>2. /\ pc[c] = "cancel" => \A j \in snap \ Deferred : job[j].cancel
      /\ pc[c] = "await" => AwaitOver
      /\ pc[c] = "cancelDeferred" => DeferredTold
  BY <1>0 DEF PhaseOver
<1>3. pc'[c] \in Leading /\ pc[c] \in Leading
  BY <1>0, <1>1 DEF Leading
<1>4. LcTypes' /\ LeadInv' /\ ExecInv'
  <2>1. pc' \in [Callers -> CallerPlaces]
    BY <1>0, <1>1, <1>3 DEF LcTypes, CallerPlaces
  <2>2. pc'[c] # "closing"
    BY <1>0, <1>1
  <2>3. QED
    BY <1>0, <1>1, <1>3, <2>1, <2>2 DEF LcTypes, LeadInv, ExecInv
<1>5. JobsInv'
  BY <1>0 DEF JobsInv, Unfinished
<1>6. ToldInv'
  <2>1. /\ AwaitOver' = AwaitOver /\ DeferredUntold' = DeferredUntold /\ DeferredTold' = DeferredTold
    BY <1>0 DEF AwaitOver, DeferredUntold, DeferredTold
  <2>2. QED
    BY <1>0, <1>1, <1>2, <2>1 DEF ToldInv
<1>7. QED
  BY <1>4, <1>5, <1>6

LEMMA ReportKeeps ==
    ASSUME LcInv, NEW c \in Callers, Report(c)
    PROVE  LcInv'
<1> USE DEF LcInv
<1>0. /\ pc[c] = "join" /\ report' = {Remaining} /\ execFlag' = TRUE
      /\ pc' = [pc EXCEPT ![c] = IF execFlag THEN "returned" ELSE "closing"]
      /\ UNCHANGED <<job, accepting, started, execDown, snap, asked, fired, expired>>
  BY DEF Report, TakesExecutor
<1>1. started /\ \A d \in Callers : pc[d] \in Leading => d = c
  BY <1>0 DEF LeadInv, Leading
<1>2. LcTypes' /\ ExecInv'
  BY <1>0 DEF LcTypes, ExecInv, CallerPlaces
<1>3. LeadInv'
  BY <1>0, <1>1 DEF LcTypes, LeadInv, Leading
<1>4. JobsInv'
  <2>1. report' = {{}} => Remaining = {}
    BY <1>0
  <2>2. Remaining = {} => snap \cap Unfinished = {} /\ asked \subseteq fired
    BY DEF Remaining
  <2>3. QED
    BY <1>0, <2>1, <2>2 DEF JobsInv, Unfinished
<1>5. ToldInv'
  <2>1. \A j \in snap : job[j].cancel
    BY <1>0 DEF ToldInv, DeferredTold
  <2>2. \A d \in Callers : pc'[d] \notin Leading
    BY <1>0, <1>1 DEF LcTypes, Leading
  <2>3. QED
    BY <1>0, <1>1, <2>1, <2>2 DEF ToldInv, AwaitOver, DeferredUntold, Leading
<1>6. QED
  BY <1>2, <1>3, <1>4, <1>5

\* Callers that do not lead, and signals.
LEMMA OthersKeep ==
    ASSUME LcInv,
           \/ \E c \in Callers : WakeUp(c) \/ ShutExecutor(c)
           \/ Signal \/ HandlerEnds \/ DeadlinePasses \/ \E w \in Waiters : Fire(w)
    PROVE  LcInv'
<1> USE DEF LcInv
<1>1. CASE \E c \in Callers : WakeUp(c)
  <2>1. PICK c \in Callers :
          /\ pc[c] = "asleep" /\ execFlag' = TRUE
          /\ pc' = [pc EXCEPT ![c] = IF execFlag THEN "returned" ELSE "closing"]
          /\ UNCHANGED <<job, accepting, started, report, execDown, snap, asked, fired, expired>>
    BY <1>1 DEF WakeUp, TakesExecutor
  <2>2. LcTypes' /\ LeadInv' /\ ExecInv'
    BY <2>1 DEF LcTypes, LeadInv, ExecInv, CallerPlaces, Leading
  <2>3. JobsInv' /\ ToldInv'
    BY <2>1 DEF LcTypes, JobsInv, ToldInv, Unfinished, DeferredUntold, AwaitOver, DeferredTold
  <2>4. QED
    BY <2>2, <2>3
<1>2. CASE \E c \in Callers : ShutExecutor(c)
  <2>1. PICK c \in Callers :
          /\ pc[c] = "closing" /\ execDown' = execDown + 1
          /\ pc' = [pc EXCEPT ![c] = "returned"]
          /\ UNCHANGED <<job, accepting, started, report, execFlag, snap, asked, fired, expired>>
    BY <1>2 DEF ShutExecutor
  <2>2. execDown' = 1 /\ execFlag
    BY <2>1 DEF ExecInv
  <2>3. LcTypes' /\ LeadInv' /\ ExecInv'
    BY <2>1, <2>2 DEF LcTypes, LeadInv, ExecInv, CallerPlaces, Leading
  <2>4. JobsInv' /\ ToldInv'
    BY <2>1 DEF LcTypes, JobsInv, ToldInv, Unfinished, DeferredUntold, AwaitOver, DeferredTold
  <2>5. QED
    BY <2>3, <2>4
<1>3. CASE HandlerEnds
  <2>1. /\ pc[Main] = "returned" /\ pc' = [pc EXCEPT ![Main] = "outside"]
        /\ UNCHANGED <<job, accepting, started, report, execDown, execFlag, snap, asked, fired, expired>>
    BY <1>3 DEF HandlerEnds
  <2>2. LcTypes' /\ LeadInv' /\ ExecInv'
    BY <2>1, LifecycleAssumption DEF LcTypes, LeadInv, ExecInv, CallerPlaces, Leading
  <2>3. JobsInv' /\ ToldInv'
    BY <2>1, LifecycleAssumption
    DEF LcTypes, JobsInv, ToldInv, Unfinished, DeferredUntold, AwaitOver, DeferredTold
  <2>4. QED
    BY <2>2, <2>3
<1>4. CASE Signal \/ DeadlinePasses \/ \E w \in Waiters : Fire(w)
  <2>1. /\ UNCHANGED <<job, accepting, started, report, execDown, execFlag, pc, snap, asked>>
        /\ fired \subseteq fired' /\ (expired => expired')
    BY <1>4 DEF Signal, DeadlinePasses, Fire, shutdownVars
  <2>2. LcTypes' /\ LeadInv' /\ ExecInv'
    BY <2>1 DEF LcTypes, LeadInv, ExecInv
  <2>3. JobsInv'
    BY <2>1 DEF JobsInv, Unfinished
  <2>4. ToldInv'
    <3>1. AwaitOver => AwaitOver'
      BY <2>1 DEF AwaitOver
    <3>2. QED
      BY <2>1, <3>1 DEF ToldInv, DeferredUntold, DeferredTold
  <2>5. QED
    BY <2>2, <2>3, <2>4
<1>5. QED
  BY <1>1, <1>2, <1>3, <1>4

----------------------------------------------------------------------------
(* The result *)

LEMMA LcInit == Init => LcInv
<1> SUFFICES ASSUME Init PROVE LcInv
  OBVIOUS
<1>1. NoJob \in JobRecord /\ NoJob.state = "none" /\ NoJob.cancel = FALSE
  BY DEF NoJob, JobRecord, JobStates
<1>2. \A j \in Jobs : job[j] = NoJob
  BY DEF Init
<1>3. LcTypes
  BY <1>1 DEF Init, LcTypes, CallerPlaces
<1>4. Unfinished = {} /\ DeferredUntold
  BY <1>1, <1>2, LifecycleAssumption DEF Unfinished, DeferredUntold
<1>5. JobsInv /\ LeadInv /\ ExecInv /\ ToldInv
  BY <1>4 DEF Init, JobsInv, LeadInv, ExecInv, ToldInv, Leading, NoReport
<1>6. QED
  BY <1>3, <1>5 DEF LcInv

LEMMA LcStep == LcInv /\ [Next]_lcVars => LcInv'
<1> SUFFICES ASSUME LcInv, [Next]_lcVars PROVE LcInv'
  OBVIOUS
<1>1. ASSUME NEW j \in Jobs,
             StartJob(j) \/ RunJob(j) \/ FinishJob(j) \/ RemoveJob(j) \/ CancelByOwner(j)
      PROVE  LcInv'
  BY <1>1, JobStep, JobsMoveKeeps
<1>2. ASSUME NEW c \in Callers, NEW j \in Jobs, CancelHandle(c, j)
      PROVE  LcInv'
  <2>1. j \in Deferred => pc[c] = "cancelDeferred"
    BY <1>2 DEF CancelHandle, CancelWhen
  <2>2. QED
    BY <1>2, <2>1, CancelStep, JobsMoveKeeps
<1>3. ASSUME NEW c \in Callers,
             Enter(c) \/ Advance(c) \/ Report(c) \/ \E b \in Callbacks : RunCallback(c, b)
      PROVE  LcInv'
  BY <1>3, EnterKeeps, AdvanceKeeps, ReportKeeps, CallbackKeeps
<1>4. CASE \/ \E c \in Callers : WakeUp(c) \/ ShutExecutor(c)
           \/ Signal \/ HandlerEnds \/ DeadlinePasses \/ \E w \in Waiters : Fire(w)
  BY <1>4, OthersKeep
<1>5. CASE UNCHANGED lcVars
  BY <1>5 DEF lcVars, LcInv, LcTypes, JobsInv, LeadInv, ExecInv, ToldInv, Unfinished,
     DeferredUntold, AwaitOver, DeferredTold
<1>6. QED
  BY <1>1, <1>2, <1>3, <1>4, <1>5 DEF Next

\* At most one of what is unique.
LEMMA AtMostOne ==
    ASSUME NEW S, \A c, d \in S : c = d
    PROVE  /\ Cardinality(S) \in Nat /\ Cardinality(S) <= 1
           /\ S = {} => Cardinality(S) = 0
<1>1. CASE S = {}
  BY <1>1, FS_EmptySet
<1>2. CASE S # {}
  <2>1. PICK c \in S : S = {c}
    BY <1>2
  <2>2. QED
    BY <2>1, FS_Singleton
<1>3. QED
  BY <1>1, <1>2

\* However many threads call begin_shutdown, and whatever jobs, callbacks and
\* signals do meanwhile: one of them leads, no job escapes it, deferred jobs are
\* told last, everybody is told by the time it returns, the executor is shut
\* down once, and an empty report is true.
THEOREM LifecycleIsSafe == Spec => []LifecycleSafe
<1>1. Spec => []LcInv
  BY LcInit, LcStep, PTL DEF Spec
<1>2. LcInv => LifecycleSafe
  <2> SUFFICES ASSUME LcInv PROVE LifecycleSafe
    OBVIOUS
  <2> USE DEF LcInv
  <2>1. NoJobEscapes
    BY DEF JobsInv, NoJobEscapes
  <2>2. OneShutdown
    <3> DEFINE L == {c \in Callers : pc[c] \in Leading}
               K == {c \in Callers : pc[c] = "closing"}
    <3>1. (\A c, d \in L : c = d) /\ (\A c, d \in K : c = d) /\ (K = {} \/ execDown = 0)
      BY DEF LeadInv, ExecInv
    <3>2. report # NoReport => \A c \in Callers : pc[c] \notin Leading
      BY DEF LeadInv
    <3>3. execDown \in {0, 1}
      BY DEF LcTypes
    <3> HIDE DEF L, K
    <3>4. Cardinality(L) <= 1 /\ Cardinality(K) \in Nat /\ Cardinality(K) <= 1 /\ (K = {} => Cardinality(K) = 0)
      BY <3>1, AtMostOne
    <3>5. execDown + Cardinality(K) <= 1
      BY <3>1, <3>3, <3>4
    <3>6. QED
      BY <3>2, <3>4, <3>5 DEF OneShutdown, L, K
  <2>3. EmptyReportMeansQuiet
    <3>1. report = {{}} => started
      BY DEF LeadInv, NoReport
    <3>2. QED
      BY <3>1 DEF JobsInv, EmptyReportMeansQuiet
  <2>4. EveryoneTold /\ DeferredComesLast
    BY DEF ToldInv, EveryoneTold, DeferredComesLast, DeferredUntold, AwaitOver
  <2>5. QED
    BY <2>1, <2>2, <2>3, <2>4 DEF LifecycleSafe
<1>3. QED
  BY <1>1, <1>2, PTL

=============================================================================
