------------------------- MODULE TransferQueueProofs -------------------------
(***************************************************************************)
(* The holds of the transfer queue (TransferQueue), for any transfers,     *)
(* copies, batches and connections, and any number of actions of the user. *)
(*                                                                         *)
(* The ledger (Ledger) relates the holds to the rows, and the connections  *)
(* to the holds.  It needs to know when a copy's row may come back to the  *)
(* queue: an answer "replace" finds the row settled, which rests on what   *)
(* the answers on their way say of the attempt they belong to (DrainInv,   *)
(* FirstInv, FlightInv).  FinalizeRows, which most actions perform, is     *)
(* shown once to keep the ledger; so is everything that leaves holds and   *)
(* rows alone.                                                             *)
(***************************************************************************)
EXTENDS TransferQueue, FiniteSetTheorems, WellFoundedInduction, TLAPS

----------------------------------------------------------------------------
(* The invariant.                                                          *)

Statuses == Unsettled \cup {"absent", "settled"}

QueueTypes ==
    /\ status \in [Rows -> Statuses]
    /\ holds \in [Quick -> Nat]
    /\ transferQueue \in Seq(Rows)
    /\ tabs \subseteq Quick /\ connected \subseteq Quick
    /\ DOMAIN move = {"pc", "left"} /\ (move.pc # "idle" => MoveSource \in Quick)
    /\ DOMAIN drain = {"pc", "item", "batch"}
    /\ drain.pc \in {"ack", "asking", "terminal"} => drain.item \in Copies
    /\ DOMAIN copy = Copies
    /\ \A i \in Copies : DOMAIN copy[i] = {"state", "attempt", "cancel"} /\ copy[i].attempt \in Nat

\* The rows that have not ended and name a connection, and the hold of the move.
Users(st, s) == {i \in Rows : st[i] \in Unsettled /\ s \in Uses[i]}
Naming(I, s) == {i \in I : s \in Uses[i]}
MoveHold(s) == IF move.pc # "idle" /\ MoveSource = s THEN 1 ELSE 0
Stray == "stray answer" \in lapses

\* The ledger, and: a connection that lost its tab waits to be disconnected.
Ledger ==
    /\ ~Stray => \A s \in Quick : holds[s] = Cardinality(Users(status, s)) + MoveHold(s)
    /\ \A s \in connected \ tabs : s \in pendingQuickDisconnects
    /\ \A s \in connected \ tabs : Outstanding(s, holds, status)

\* The row whose request is out, or whose conflict is asked about.
Due(i) == drain.pc = "ack" /\ drain.item = i

DrainInv ==
    /\ drain.pc \in {"ack", "terminal"} => status[drain.item] # "absent"
    /\ drain.pc = "ack" /\ ~Stray => status[drain.item] \in Unsettled
    /\ drain.pc = "ack" => copy[drain.item].cancel = FALSE
    /\ drain.pc = "asking" => status[drain.item] = "settled" /\ copy[drain.item].attempt = 1

\* A copy whose turn has not come has made no attempt.
FirstInv ==
    \A i \in Copies : status[i] \in {"absent", "pending"} /\ ~Due(i) => copy[i].attempt = 0

\* What is on its way speaks of an attempt that was made; a request is answered
\* once, and while its answer is due no cancellation of it is answered.
Answers == {"accepted", "refused"}
CancelAnswers == {"ackCancelled", "ackUnavailable", "ackOther"}

FlightInv ==
    /\ \A m \in inflight :
          /\ m.item \in Copies /\ m.attempt \in Nat /\ m.attempt <= copy[m.item].attempt
          /\ m.what \in Answers => /\ Due(m.item) /\ m.attempt = copy[m.item].attempt
                                   /\ copy[m.item].state # "asked"
          /\ m.what \in CancelAnswers /\ Due(m.item) => m.attempt # copy[m.item].attempt
    /\ \A m, n \in inflight : m.what \in Answers /\ n.what \in Answers => m = n
    /\ \A i \in Copies : copy[i].state = "asked" => Due(i)

Attempted == DrainInv /\ FirstInv /\ FlightInv
BalanceInv == QueueTypes /\ Ledger /\ Attempted

----------------------------------------------------------------------------
(* Numbers and sequences.                                                  *)

\* A set of numbers that is not empty has a least element.
LEMMA LeastExists ==
    ASSUME NEW T, T \subseteq Nat, T # {}
    PROVE  \E x \in T : \A y \in T : x <= y
<1> DEFINE R == {p \in Nat \X Nat : p[1] < p[2]}
<1>1. IsWellFoundedOn(R, Nat)
  BY NatLessThanWellFounded DEF OpToRel
<1>2. PICK x \in T : \A y \in T : ~ (<<y, x>> \in R)
  <2>1. \A Q, S, P : IsWellFoundedOn(Q, S) /\ P \subseteq S /\ P # {} =>
             \E x \in P : \A y \in P : ~ (<<y, x>> \in Q)
    BY WFMin, Zenon
  <2> HIDE DEF R
  <2> QED
    BY <1>1, <2>1
<1>3. \A y \in T : ~ (y < x)
  BY <1>2
<1> QED
  BY <1>3

\* The first pending row of a queue is pending.
LEMMA FirstIsPending ==
    ASSUME NEW queue \in Seq(Rows), NEW st, FirstPending(queue, st) # None
    PROVE  st[FirstPending(queue, st)] = "pending"
<1> DEFINE I == {k \in 1 .. Len(queue) : st[queue[k]] = "pending"}
           k == IF I # {} THEN Min(I) ELSE 0
<1>1. FirstPending(queue, st) = IF k = 0 THEN None ELSE queue[k]
  BY DEF FirstPending, SelectInSeq
<1>2. k # 0 => k \in I
  <2>1. I \subseteq Nat
    OBVIOUS
  <2>2. I # {} => \E x \in I : \A y \in I : x <= y
    <3> HIDE DEF I
    <3> QED
      BY <2>1, LeastExists
  <2> QED
    BY <2>2 DEF Min
<1>3. k # 0
  BY <1>1
<1> QED
  BY <1>1, <1>2, <1>3

\* The rows of a finite set can be queued one after the other.
LEMMA SetIsQueued ==
    ASSUME NEW S \in SUBSET Rows
    PROVE  SetToSeq(S) \in Seq(Rows)
<1>1. IsFiniteSet(S)
  BY QueueAssumption, FS_Subset
<1>2. Cardinality(S) \in Nat /\ ExistsBijection(1 .. Cardinality(S), S)
  BY <1>1, FS_CardinalityType
<1>3. \E f \in [1 .. Cardinality(S) -> S] : IsInjective(f)
  BY <1>2 DEF ExistsBijection, Bijection, Injection, IsInjective
<1>4. SetToSeq(S) \in [1 .. Cardinality(S) -> S]
  BY <1>3 DEF SetToSeq
<1>5. SetToSeq(S) \in Seq(S)
  BY <1>2, <1>4
<1> QED
  BY <1>5

----------------------------------------------------------------------------
(* Holds and rows.                                                         *)

\* The rows that name a connection are finitely many.
LEMMA UsersAreFinite ==
    ASSUME NEW st, NEW s
    PROVE  IsFiniteSet(Users(st, s)) /\ Cardinality(Users(st, s)) \in Nat
<1>1. Users(st, s) \in SUBSET Rows
  BY DEF Users
<1>2. IsFiniteSet(Users(st, s))
  BY <1>1, QueueAssumption, FS_Subset
<1> QED
  BY <1>2, FS_CardinalityType

\* Rows that end give their holds back.
LEMMA ReleaseKeeps ==
    ASSUME NEW st, NEW st2, NEW F \in SUBSET Rows, NEW h \in [Quick -> Nat],
           NEW s \in Quick, NEW e \in Nat,
           \A i \in F : st[i] \in Unsettled,
           \A i \in Rows : st2[i] \in Unsettled <=> st[i] \in Unsettled /\ i \notin F,
           h[s] = Cardinality(Users(st, s)) + e
    PROVE  Released(h, F)[s] = Cardinality(Users(st2, s)) + e
<1> DEFINE U == Users(st, s)
           V == Users(st2, s)
           D == {i \in F : s \in Uses[i]}
<1>1. IsFiniteSet(U) /\ Cardinality(U) \in Nat /\ IsFiniteSet(V) /\ Cardinality(V) \in Nat
  BY UsersAreFinite
<1>2. V = U \ D /\ U \cap D = D
  BY DEF Users
<1>3. D \in SUBSET U
  BY DEF Users
<1>4. Cardinality(V) = Cardinality(U) - Cardinality(D)
  <2> HIDE DEF U, V, D
  <2>1. Cardinality(U \ D) = Cardinality(U) - Cardinality(U \cap D)
    BY <1>1, FS_Difference
  <2> QED
    BY <1>2, <2>1
<1>5. Cardinality(D) \in Nat
  <2> HIDE DEF U, D
  <2>1. IsFiniteSet(D)
    BY <1>1, <1>3, FS_Subset
  <2> QED
    BY <2>1, FS_CardinalityType
<1>6. Released(h, F)[s] = IF h[s] > Cardinality(D) THEN h[s] - Cardinality(D) ELSE 0
  BY DEF Released
<1> HIDE DEF U, V, D
<1>7. h[s] = Cardinality(U) + e
  BY DEF U
<1>8. Released(h, F)[s] = Cardinality(V) + e
  BY <1>1, <1>4, <1>5, <1>6, <1>7
<1> QED
  BY <1>8 DEF V

\* Rows that join bring their holds with them.
LEMMA RetainKeeps ==
    ASSUME NEW st, NEW st2, NEW I \in SUBSET Rows, NEW s, NEW n, NEW e \in Nat,
           \A i \in I : st[i] \notin Unsettled,
           \A i \in Rows : st2[i] \in Unsettled <=> st[i] \in Unsettled \/ i \in I,
           n = Cardinality(Users(st, s)) + e
    PROVE  n + Cardinality(Naming(I, s)) = Cardinality(Users(st2, s)) + e
<1> DEFINE U == Users(st, s)
           V == Users(st2, s)
           D == {i \in I : s \in Uses[i]}
<1>1. IsFiniteSet(U) /\ Cardinality(U) \in Nat /\ IsFiniteSet(V) /\ Cardinality(V) \in Nat
  BY UsersAreFinite
<1>2. V = U \cup D /\ U \cap D = {}
  BY DEF Users
<1>3. D \in SUBSET V
  BY DEF Users
<1>4. IsFiniteSet(D) /\ Cardinality(D) \in Nat
  <2> HIDE DEF V, D
  <2>1. IsFiniteSet(D)
    BY <1>1, <1>3, FS_Subset
  <2> QED
    BY <2>1, FS_CardinalityType
<1>5. Cardinality(V) = Cardinality(U) + Cardinality(D)
  <2> HIDE DEF U, V, D
  <2>1. Cardinality(U \cup D) = Cardinality(U) + Cardinality(D) - Cardinality(U \cap D)
    BY <1>1, <1>4, FS_Union
  <2>2. Cardinality(U \cap D) = 0
    BY <1>2, FS_EmptySet
  <2>3. Cardinality(V) = Cardinality(U) + Cardinality(D) - 0
    BY <1>2, <2>1, <2>2
  <2> QED
    BY <1>1, <1>4, <2>3
<1> HIDE DEF U, V, D
<1>6. n = Cardinality(U) + e
  BY DEF U
<1>7. n + Cardinality(D) = Cardinality(V) + e
  BY <1>1, <1>4, <1>5, <1>6
<1> QED
  BY <1>7 DEF V, D, Naming

\* Holds are numbers whatever is released or retained.
LEMMA HoldsAreNumbers ==
    ASSUME NEW h \in [Quick -> Nat], NEW F \in SUBSET Rows
    PROVE  Released(h, F) \in [Quick -> Nat]
<1> SUFFICES ASSUME NEW s \in Quick
             PROVE  Released(h, F)[s] \in Nat
  BY DEF Released
<1> DEFINE D == {i \in F : s \in Uses[i]}
<1>1. Cardinality(D) \in Nat
  <2>1. D \in SUBSET Rows
    OBVIOUS
  <2> HIDE DEF D
  <2>2. IsFiniteSet(D)
    BY <2>1, QueueAssumption, FS_Subset
  <2> QED
    BY <2>2, FS_CardinalityType
<1>2. Released(h, F)[s] = IF h[s] > Cardinality(D) THEN h[s] - Cardinality(D) ELSE 0
  BY DEF Released
<1> HIDE DEF D
<1> QED
  BY <1>1, <1>2

----------------------------------------------------------------------------
(* The ledger, whatever the action.                                        *)

MoreLapses == lapses \subseteq lapses'

\* A connection stays outstanding while no hold and no row is given up.
LEMMA OutstandingStays ==
    ASSUME QueueTypes, NEW s \in Quick, Outstanding(s, holds, status),
           NEW h, NEW st, h[s] \in Nat, h[s] >= holds[s],
           \A i \in Rows : status[i] \in Unsettled => st[i] \in Unsettled
    PROVE  Outstanding(s, h, st)
<1>1. holds[s] \in Nat
  BY DEF QueueTypes
<1>2. CASE holds[s] > 0
  <2>1. h[s] > 0
    BY <1>1, <1>2
  <2> QED
    BY <2>1 DEF Outstanding
<1>3. CASE ~(holds[s] > 0)
  <2>1. PICK i \in Rows : status[i] \in Unsettled /\ s \in Uses[i]
    BY <1>3 DEF Outstanding
  <2>2. st[i] \in Unsettled /\ s \in Uses[i]
    BY <2>1
  <2> QED
    BY <2>2 DEF Outstanding
<1> QED
  BY <1>2, <1>3

\* An action that leaves the holds alone and ends no row keeps the ledger, if it
\* leaves a closed connection either in use or waiting.
LEMMA LedgerSteady ==
    ASSUME QueueTypes, Ledger, UNCHANGED holds, MoreLapses,
           move'.pc # "idle" <=> move.pc # "idle",
           \A i \in Rows : status'[i] \in Unsettled <=> status[i] \in Unsettled,
           connected' \subseteq connected,
           \A s \in connected' \ tabs' :
               /\ s \in pendingQuickDisconnects'
               /\ s \in connected \ tabs \/ Outstanding(s, holds, status)
    PROVE  Ledger'
<1>1. \A s : Users(status', s) = Users(status, s)
  BY DEF Users
<1>2. \A s : MoveHold(s)' = MoveHold(s)
  BY DEF MoveHold
<1>3. Stray => Stray'
  BY DEF Stray, MoreLapses
<1>4. (~Stray => \A s \in Quick : holds[s] = Cardinality(Users(status, s)) + MoveHold(s))'
  <2> SUFFICES ASSUME ~Stray', NEW s \in Quick
               PROVE  holds'[s] = Cardinality(Users(status', s)) + MoveHold(s)'
    OBVIOUS
  <2>1. holds[s] = Cardinality(Users(status, s)) + MoveHold(s)
    BY <1>3 DEF Ledger
  <2> QED
    BY <2>1, <1>1, <1>2
<1>5. \A s \in connected' \ tabs' : Outstanding(s, holds', status')
  <2> SUFFICES ASSUME NEW s \in connected' \ tabs'
               PROVE  Outstanding(s, holds', status')
    OBVIOUS
  <2>1. s \in Quick /\ Outstanding(s, holds, status)
    BY DEF Ledger, QueueTypes
  <2>2. holds'[s] \in Nat /\ holds'[s] >= holds[s]
    BY <2>1 DEF QueueTypes
  <2> QED
    BY <2>1, <2>2, OutstandingStays
<1> QED
  BY <1>4, <1>5 DEF Ledger

\* Flush leaves no closed connection that nobody uses.
LEMMA FlushKeeps ==
    ASSUME QueueTypes, Ledger, NEW h, NEW st, Flush(h, st), UNCHANGED tabs
    PROVE  /\ connected' \subseteq Quick
           /\ \A s \in connected' \ tabs' :
                 s \in pendingQuickDisconnects' /\ Outstanding(s, h, st)
<1> DEFINE drop == {s \in pendingQuickDisconnects :
                       s \notin tabs /\ ~Outstanding(s, h, st)}
<1>1. pendingQuickDisconnects' = pendingQuickDisconnects \ drop /\ connected' = connected \ drop
  BY DEF Flush
<1>2. ASSUME NEW s \in connected' \ tabs'
      PROVE  s \in pendingQuickDisconnects' /\ Outstanding(s, h, st)
  <2>1. s \in connected \ tabs /\ s \notin drop
    BY <1>1
  <2>2. s \in pendingQuickDisconnects
    BY <2>1 DEF Ledger
  <2> QED
    BY <1>1, <2>1, <2>2
<1> QED
  BY <1>1, <1>2 DEF QueueTypes

\* Rows end, their holds are given back, and what nobody uses is disconnected.
LEMMA LedgerReleased ==
    ASSUME QueueTypes, Ledger, MoreLapses, UNCHANGED tabs,
           move'.pc # "idle" <=> move.pc # "idle",
           NEW F \in SUBSET Rows, \A i \in F : status[i] \in Unsettled,
           holds' = Released(holds, F),
           \A i \in Rows : status'[i] \in Unsettled <=> status[i] \in Unsettled /\ i \notin F,
           NEW st, st = status', Flush(Released(holds, F), st)
    PROVE  Ledger' /\ holds' \in [Quick -> Nat] /\ connected' \subseteq Quick
<1>1. /\ connected' \subseteq Quick
      /\ \A s \in connected' \ tabs' :
            s \in pendingQuickDisconnects' /\ Outstanding(s, holds', status')
  BY FlushKeeps
<1>2. \A s : MoveHold(s)' = MoveHold(s) /\ MoveHold(s) \in Nat
  BY DEF MoveHold
<1>3. holds \in [Quick -> Nat]
  BY DEF QueueTypes
<1>4. (~Stray => \A s \in Quick : holds[s] = Cardinality(Users(status, s)) + MoveHold(s))'
  <2> SUFFICES ASSUME ~Stray', NEW s \in Quick
               PROVE  holds'[s] = Cardinality(Users(status', s)) + MoveHold(s)'
    OBVIOUS
  <2>1. holds[s] = Cardinality(Users(status, s)) + MoveHold(s)
    BY DEF Ledger, Stray, MoreLapses
  <2>2. Released(holds, F)[s] = Cardinality(Users(status', s)) + MoveHold(s)
    BY <1>2, <1>3, <2>1, ReleaseKeeps
  <2> QED
    BY <1>2, <2>2
<1>5. holds' \in [Quick -> Nat]
  BY <1>3, HoldsAreNumbers
<1>6. Ledger'
  BY <1>1, <1>4 DEF Ledger
<1> QED
  BY <1>1, <1>5, <1>6

\* Rows join, each with a hold on the connections it names.
LEMMA LedgerRetained ==
    ASSUME QueueTypes, Ledger, UNCHANGED <<tabs, connected, pendingQuickDisconnects, move, lapses>>,
           NEW I \in SUBSET Rows, \A i \in I : status[i] \notin Unsettled,
           \A i \in Rows : status'[i] \in Unsettled <=> status[i] \in Unsettled \/ i \in I,
           holds' = [s \in Quick |-> holds[s] + Cardinality({i \in I : s \in Uses[i]})]
    PROVE  Ledger' /\ holds' \in [Quick -> Nat]
<1>1. \A s : MoveHold(s)' = MoveHold(s) /\ MoveHold(s) \in Nat
  BY DEF MoveHold
<1>2. holds \in [Quick -> Nat]
  BY DEF QueueTypes
<1>3. ASSUME NEW s \in Quick
      PROVE  holds'[s] \in Nat /\ holds'[s] >= holds[s]
  <2> DEFINE D == {i \in I : s \in Uses[i]}
  <2>1. D \in SUBSET Rows
    OBVIOUS
  <2>2. holds'[s] = holds[s] + Cardinality(D)
    OBVIOUS
  <2> HIDE DEF D
  <2>3. IsFiniteSet(D)
    BY <2>1, QueueAssumption, FS_Subset
  <2>4. Cardinality(D) \in Nat
    BY <2>3, FS_CardinalityType
  <2> QED
    BY <1>2, <2>2, <2>4
<1>4. (~Stray => \A s \in Quick : holds[s] = Cardinality(Users(status, s)) + MoveHold(s))'
  <2> SUFFICES ASSUME ~Stray', NEW s \in Quick
               PROVE  holds'[s] = Cardinality(Users(status', s)) + MoveHold(s)'
    OBVIOUS
  <2>1. holds[s] = Cardinality(Users(status, s)) + MoveHold(s)
    BY DEF Ledger, Stray
  <2>2. holds[s] + Cardinality(Naming(I, s)) = Cardinality(Users(status', s)) + MoveHold(s)
    BY <1>1, <2>1, RetainKeeps
  <2>3. holds'[s] = holds[s] + Cardinality(Naming(I, s))
    BY DEF Naming
  <2> QED
    BY <1>1, <2>2, <2>3
<1>5. \A s \in connected' \ tabs' :
          s \in pendingQuickDisconnects' /\ Outstanding(s, holds', status')
  <2> SUFFICES ASSUME NEW s \in connected \ tabs
               PROVE  s \in pendingQuickDisconnects /\ Outstanding(s, holds', status')
    OBVIOUS
  <2>1. s \in Quick /\ s \in pendingQuickDisconnects /\ Outstanding(s, holds, status)
    BY DEF Ledger, QueueTypes
  <2> QED
    BY <1>3, <2>1, OutstandingStays
<1>6. Ledger'
  BY <1>4, <1>5 DEF Ledger
<1>7. holds' \in [Quick -> Nat]
  BY <1>3
<1> QED
  BY <1>6, <1>7

\* One row joins, or joins again.
LEMMA RetainedOne ==
    ASSUME NEW i, NEW h
    PROVE  Retained(h, i) = [s \in Quick |-> h[s] + Cardinality({j \in {i} : s \in Uses[j]})] \/
           h \notin [Quick -> Nat]
<1> SUFFICES ASSUME h \in [Quick -> Nat], NEW s \in Quick
             PROVE  (IF s \in Uses[i] THEN h[s] + 1 ELSE h[s])
                        = h[s] + Cardinality({j \in {i} : s \in Uses[j]})
  BY DEF Retained
<1>1. CASE s \in Uses[i]
  <2>1. {j \in {i} : s \in Uses[j]} = {i}
    BY <1>1
  <2>2. Cardinality({i}) = 1
    BY FS_Singleton
  <2> QED
    BY <1>1, <2>1, <2>2
<1>2. CASE s \notin Uses[i]
  <2>1. {j \in {i} : s \in Uses[j]} = {}
    BY <1>2
  <2>2. Cardinality({j \in {i} : s \in Uses[j]}) = 0
    BY <2>1, FS_EmptySet
  <2> QED
    BY <1>2, <2>2
<1> QED
  BY <1>1, <1>2

\* What FinalizeRows does, whoever performs it.
LEMMA FinalizeKeeps ==
    ASSUME QueueTypes, Ledger, MoreLapses, UNCHANGED tabs,
           move'.pc # "idle" <=> move.pc # "idle",
           NEW S \in SUBSET Rows, FinalizeRows(S)
    PROVE  /\ Ledger' /\ holds' \in [Quick -> Nat] /\ connected' \subseteq Quick
           /\ status' \in [Rows -> Statuses]
           /\ \A i \in Rows : status'[i] = IF i \in S /\ status[i] \in Unsettled THEN "settled"
                                           ELSE status[i]
<1> DEFINE F == {i \in S : status[i] \in Unsettled}
           st == [i \in Rows |-> IF i \in F THEN "settled" ELSE status[i]]
<1>1. status' = st /\ holds' = Released(holds, F) /\ Flush(Released(holds, F), st)
  BY DEF FinalizeRows
<1>2. F \in SUBSET Rows /\ \A i \in F : status[i] \in Unsettled
  OBVIOUS
<1>3. \A i \in Rows : status'[i] = IF i \in S /\ status[i] \in Unsettled THEN "settled"
                                   ELSE status[i]
  BY <1>1
<1>4. status' \in [Rows -> Statuses]
  BY <1>1 DEF QueueTypes, Statuses
<1>5. \A i \in Rows : status'[i] \in Unsettled <=> status[i] \in Unsettled /\ i \notin F
  BY <1>3 DEF Unsettled
<1>6. Ledger' /\ holds' \in [Quick -> Nat] /\ connected' \subseteq Quick
  <2> HIDE DEF F, st
  <2> QED
    BY <1>1, <1>2, <1>5, LedgerReleased
<1> QED
  BY <1>3, <1>4, <1>6

----------------------------------------------------------------------------
(* The attempts of a copy, whatever the action.                            *)

\* The drain stays where it is, or goes on to the loop or to its end.
DrainGoesOn ==
    \/ drain'.pc = drain.pc /\ drain'.item = drain.item
    \/ drain.pc # "ack" /\ drain'.pc \notin {"ack", "asking", "terminal"}

\* A copy's row is queued, cancelled or settled, or stays as it is; only a stray
\* answer settles the row whose request is out.
RowGoesOn(i) ==
    \/ status'[i] = status[i]
    \/ status[i] = "absent" /\ status'[i] = "pending"
    \/ status[i] \in Unsettled /\ status'[i] = "cancelling"
    \/ status[i] \in Unsettled /\ status'[i] = "settled" /\ (Due(i) => Stray')

SameAttempt(i) ==
    /\ copy'[i].attempt = copy[i].attempt /\ copy'[i].state = copy[i].state
    /\ Due(i) => copy'[i].cancel = copy[i].cancel

\* An action that sends, answers and asks nothing keeps what is known of attempts.
LEMMA AttemptedKept ==
    ASSUME QueueTypes, Attempted, DrainGoesOn, inflight' \subseteq inflight, MoreLapses,
           \A i \in Copies : SameAttempt(i) /\ RowGoesOn(i)
    PROVE  Attempted'
<1>1. \A i \in Copies : Due(i)' <=> Due(i)
  BY DEF DrainGoesOn, Due
<1>2. DrainInv'
  <2>1. CASE drain'.pc = drain.pc /\ drain'.item = drain.item
    <3>1. drain.pc \in {"ack", "asking", "terminal"} => drain.item \in Copies
      BY DEF QueueTypes
    <3>2. drain.pc \in {"ack", "terminal"} => status'[drain.item] # "absent"
      BY <3>1 DEF Attempted, DrainInv, RowGoesOn
    <3>5. drain.pc = "ack" /\ ~Stray' => status'[drain.item] \in Unsettled
      <4>1. ~Stray' => ~Stray
        BY DEF Stray, MoreLapses
      <4>2. SUFFICES ASSUME drain.pc = "ack", ~Stray'
                     PROVE  status'[drain.item] \in Unsettled
        OBVIOUS
      <4>3. status[drain.item] \in Unsettled /\ Due(drain.item)
        BY <4>1, <4>2 DEF Attempted, DrainInv, Due
      <4>4. RowGoesOn(drain.item)
        BY <3>1, <4>2
      <4> QED
        BY <4>2, <4>3, <4>4 DEF RowGoesOn, Unsettled
    <3>3. drain.pc = "ack" => copy'[drain.item].cancel = FALSE
      BY <3>1 DEF Attempted, DrainInv, SameAttempt, Due
    <3>4. drain.pc = "asking" =>
              status'[drain.item] = "settled" /\ copy'[drain.item].attempt = 1
      BY <3>1 DEF Attempted, DrainInv, SameAttempt, RowGoesOn, Unsettled
    <3> QED
      BY <2>1, <3>2, <3>3, <3>4, <3>5 DEF DrainInv
  <2>2. CASE drain'.pc \notin {"ack", "asking", "terminal"}
    BY <2>2 DEF DrainInv
  <2> QED
    BY <2>1, <2>2 DEF DrainGoesOn
<1>3. FirstInv'
  <2> SUFFICES ASSUME NEW i \in Copies, status'[i] \in {"absent", "pending"}, ~Due(i)'
               PROVE  copy'[i].attempt = 0
    BY DEF FirstInv
  <2>1. status[i] \in {"absent", "pending"} /\ ~Due(i)
    BY <1>1 DEF RowGoesOn
  <2> QED
    BY <2>1 DEF Attempted, FirstInv, SameAttempt
<1>4. FlightInv'
  <2>1. ASSUME NEW m \in inflight'
        PROVE  /\ m.item \in Copies /\ m.attempt \in Nat /\ m.attempt <= copy'[m.item].attempt
               /\ m.what \in Answers => /\ Due(m.item)' /\ m.attempt = copy'[m.item].attempt
                                        /\ copy'[m.item].state # "asked"
               /\ m.what \in CancelAnswers /\ Due(m.item)' => m.attempt # copy'[m.item].attempt
    BY <1>1 DEF Attempted, FlightInv, SameAttempt
  <2>2. \A m, n \in inflight' : m.what \in Answers /\ n.what \in Answers => m = n
    BY DEF Attempted, FlightInv
  <2>3. \A i \in Copies : copy'[i].state = "asked" => Due(i)'
    BY <1>1 DEF Attempted, FlightInv, SameAttempt
  <2> QED
    BY <2>1, <2>2, <2>3 DEF FlightInv
<1> QED
  BY <1>2, <1>3, <1>4 DEF Attempted

\* The request of attempt n goes out for a row that waits: the attempt is newer
\* than anything on its way.
LEMMA AttemptedSent ==
    ASSUME QueueTypes, Attempted, NEW i \in Copies, NEW n \in Nat, Sent(i, n),
           drain.pc # "ack", n > copy[i].attempt, UNCHANGED inflight, status' \in [Rows -> Statuses],
           status'[i] = "pending", \A j \in Copies \ {i} : status'[j] = status[j]
    PROVE  Attempted' /\ DOMAIN copy' = Copies /\ DOMAIN drain' = {"pc", "item", "batch"} /\
           drain'.item \in Copies /\
           \A j \in Copies : DOMAIN copy'[j] = {"state", "attempt", "cancel"} /\
                             copy'[j].attempt \in Nat
<1>1. copy' = [copy EXCEPT ![i] = [state |-> "asked", attempt |-> n, cancel |-> FALSE]] /\
      drain' = [pc |-> "ack", item |-> i, batch |-> BatchOf[i]]
  BY DEF Sent
<1>2. DOMAIN copy' = Copies /\ copy'[i] = [state |-> "asked", attempt |-> n, cancel |-> FALSE] /\
      \A j \in Copies \ {i} : copy'[j] = copy[j]
  BY <1>1 DEF QueueTypes
<1>3. drain'.pc = "ack" /\ drain'.item = i /\ DOMAIN drain' = {"pc", "item", "batch"}
  BY <1>1
<1>4. \A j : Due(j)' <=> j = i
  BY <1>3 DEF Due
<1>5. \A j : ~Due(j)
  BY DEF Due
<1>6. \A j \in Copies : DOMAIN copy'[j] = {"state", "attempt", "cancel"} /\
                        copy'[j].attempt \in Nat /\ copy[j].attempt \in Nat
  BY <1>2 DEF QueueTypes
<1>7. DrainInv'
  BY <1>2, <1>3 DEF DrainInv, Unsettled
<1>8. FirstInv'
  <2> SUFFICES ASSUME NEW j \in Copies, status'[j] \in {"absent", "pending"}, ~Due(j)'
               PROVE  copy'[j].attempt = 0
    BY DEF FirstInv
  <2>1. j # i
    BY <1>4
  <2> QED
    BY <1>2, <1>5, <2>1 DEF Attempted, FirstInv
<1>9. FlightInv'
  <2>1. ASSUME NEW m \in inflight
        PROVE  /\ m.item \in Copies /\ m.attempt \in Nat /\ m.attempt <= copy'[m.item].attempt
               /\ m.what \notin Answers
               /\ m.item = i => m.attempt # copy'[m.item].attempt
    <3>1. m.item \in Copies /\ m.attempt \in Nat /\ m.attempt <= copy[m.item].attempt /\
          m.what \notin Answers
      BY <1>5 DEF Attempted, FlightInv
    <3>2. CASE m.item = i
      <4>1. copy'[m.item].attempt = n
        BY <1>2, <3>2
      <4>2. copy[m.item].attempt \in Nat /\ n > copy[m.item].attempt
        BY <1>6, <3>2
      <4> DEFINE a == copy[m.item].attempt
                 b == m.attempt
      <4>3. b \in Nat /\ a \in Nat /\ b <= a /\ n > a
        BY <3>1, <4>2
      <4>4. b <= n /\ b # n
        <5> HIDE DEF a, b
        <5> QED
          BY <4>3
      <4> QED
        BY <3>1, <4>1, <4>4
    <3>3. CASE m.item # i
      BY <1>2, <3>1, <3>3
    <3> QED
      BY <3>2, <3>3
  <2>2. \A j \in Copies : copy'[j].state = "asked" => Due(j)'
    BY <1>2, <1>4, <1>5 DEF Attempted, FlightInv
  <2> QED
    BY <1>4, <2>1, <2>2 DEF FlightInv
<1> QED
  BY <1>2, <1>3, <1>6, <1>7, <1>8, <1>9 DEF Attempted

----------------------------------------------------------------------------
(* The user's actions, and the processing of the queue.                    *)

\* processTransferQueue marks at most one pending row active, which is no copy, or
\* starts the drain when none is under way.
LEMMA ProcessKeeps ==
    ASSUME QueueTypes, NEW queue \in Seq(Rows), NEW st \in [Rows -> Statuses],
           NEW running \in BOOLEAN, ProcessQueue(queue, st, running)
    PROVE  /\ status' \in [Rows -> Statuses]
           /\ \A i \in Rows : status'[i] \in Unsettled <=> st[i] \in Unsettled
           /\ \A i \in Copies : status'[i] = st[i]
           /\ \/ drain' = drain
              \/ /\ ~running /\ drain'.pc \notin {"ack", "asking", "terminal"}
                 /\ DOMAIN drain' = {"pc", "item", "batch"}
<1> DEFINE first == FirstPending(queue, st)
           blocked == isTransferring \/ running \/ first = None
<1>1. first # None => st[first] = "pending"
  BY FirstIsPending
<1>2. Copies \subseteq Rows
  BY DEF Rows
<1>3. status' = IF blocked \/ first \in Copies THEN st ELSE [st EXCEPT ![first] = "active"]
  BY DEF ProcessQueue
<1>4. status' \in [Rows -> Statuses]
  BY <1>3 DEF Statuses, Unsettled
<1>5. \A i \in Rows : status'[i] = st[i] \/ (st[i] = "pending" /\ status'[i] = "active" /\ i \notin Copies)
  <2> HIDE DEF first
  <2> QED
    BY <1>1, <1>3
<1>6. \A i \in Rows : status'[i] \in Unsettled <=> st[i] \in Unsettled
  BY <1>5 DEF Unsettled
<1>7. \A i \in Copies : status'[i] = st[i]
  BY <1>2, <1>5
<1>8. drain' = IF ~blocked /\ first \in Copies
               THEN [pc |-> "loop", item |-> None, batch |-> None]
               ELSE IF running THEN drain ELSE Idle
  BY DEF ProcessQueue
<1>9. \/ drain' = drain
      \/ /\ ~running /\ drain'.pc \notin {"ack", "asking", "terminal"}
         /\ DOMAIN drain' = {"pc", "item", "batch"}
  <2> HIDE DEF first
  <2> QED
    BY <1>8 DEF Idle
<1> QED
  BY <1>4, <1>6, <1>7, <1>9

\* The scheduled processTransferQueue.
LEMMA TimerKeeps ==
    ASSUME BalanceInv, ProcessTimer
    PROVE  BalanceInv'
<1>1. QueueTypes /\ Ledger /\ Attempted
  BY DEF BalanceInv
<1>2. transferQueue \in Seq(Rows) /\ status \in [Rows -> Statuses] /\ Executing \in BOOLEAN
  BY <1>1 DEF QueueTypes, Executing
<1>3. ProcessQueue(transferQueue, status, Executing) /\
      UNCHANGED <<transferQueue, move, holds, pendingQuickDisconnects, tabs, connected, copy,
                  inflight, lapses>>
  BY DEF ProcessTimer
<1>4. /\ status' \in [Rows -> Statuses]
      /\ \A i \in Rows : status'[i] \in Unsettled <=> status[i] \in Unsettled
      /\ \A i \in Copies : status'[i] = status[i]
      /\ \/ drain' = drain
         \/ /\ ~Executing /\ drain'.pc \notin {"ack", "asking", "terminal"}
            /\ DOMAIN drain' = {"pc", "item", "batch"}
  BY <1>1, <1>2, <1>3, ProcessKeeps
<1>5. Ledger'
  <2>1. MoreLapses /\ \A s \in connected' \ tabs' :
            s \in pendingQuickDisconnects' /\ s \in connected \ tabs
    BY <1>1, <1>3 DEF MoreLapses, Ledger
  <2> QED
    BY <1>1, <1>3, <1>4, <2>1, LedgerSteady
<1>6. Attempted'
  <2>1. DrainGoesOn
    BY <1>4 DEF DrainGoesOn, Executing
  <2>2. \A i \in Copies : SameAttempt(i) /\ RowGoesOn(i)
    BY <1>3, <1>4 DEF SameAttempt, RowGoesOn
  <2> QED
    BY <1>1, <1>3, <2>1, <2>2, AttemptedKept DEF MoreLapses
<1>7. QueueTypes'
  BY <1>1, <1>3, <1>4 DEF QueueTypes
<1> QED
  BY <1>5, <1>6, <1>7 DEF BalanceInv

\* The drain ends and what is left in the queue is processed.
LEMMA DrainEndKeeps ==
    ASSUME BalanceInv, DrainEnd
    PROVE  BalanceInv'
<1>1. QueueTypes /\ Ledger /\ Attempted
  BY DEF BalanceInv
<1>2. transferQueue \in Seq(Rows) /\ status \in [Rows -> Statuses]
  BY <1>1 DEF QueueTypes
<1>3. ProcessQueue(transferQueue, status, FALSE) /\ drain.pc = "loop" /\
      UNCHANGED <<transferQueue, move, holds, pendingQuickDisconnects, tabs, connected, copy,
                  inflight, lapses>>
  BY DEF DrainEnd
<1>4. /\ status' \in [Rows -> Statuses]
      /\ \A i \in Rows : status'[i] \in Unsettled <=> status[i] \in Unsettled
      /\ \A i \in Copies : status'[i] = status[i]
      /\ \/ drain' = drain
         \/ /\ drain'.pc \notin {"ack", "asking", "terminal"}
            /\ DOMAIN drain' = {"pc", "item", "batch"}
  BY <1>1, <1>2, <1>3, ProcessKeeps
<1>5. Ledger'
  <2>1. MoreLapses /\ \A s \in connected' \ tabs' :
            s \in pendingQuickDisconnects' /\ s \in connected \ tabs
    BY <1>1, <1>3 DEF MoreLapses, Ledger
  <2> QED
    BY <1>1, <1>3, <1>4, <2>1, LedgerSteady
<1>6. Attempted'
  <2>1. DrainGoesOn
    BY <1>3, <1>4 DEF DrainGoesOn
  <2>2. \A i \in Copies : SameAttempt(i) /\ RowGoesOn(i)
    BY <1>3, <1>4 DEF SameAttempt, RowGoesOn
  <2> QED
    BY <1>1, <1>3, <2>1, <2>2, AttemptedKept DEF MoreLapses
<1>7. QueueTypes'
  BY <1>1, <1>3, <1>4 DEF QueueTypes
<1> QED
  BY <1>5, <1>6, <1>7 DEF BalanceInv

Untouched == <<transferQueue, status, holds, move, drain, copy, inflight, lapses>>

\* What leaves rows, holds, the drain and the copies alone and opens or closes a tab.
LEMMA UntouchedKeeps ==
    ASSUME BalanceInv, UNCHANGED Untouched, tabs' \subseteq Quick, connected' \subseteq connected,
           \A s \in connected' \ tabs' :
               /\ s \in pendingQuickDisconnects'
               /\ s \in connected \ tabs \/ Outstanding(s, holds, status)
    PROVE  BalanceInv'
<1>1. QueueTypes /\ Ledger /\ Attempted
  BY DEF BalanceInv
<1>2. UNCHANGED transferQueue /\ UNCHANGED status /\ UNCHANGED holds /\ UNCHANGED move /\
      UNCHANGED drain /\ UNCHANGED copy /\ UNCHANGED inflight /\ UNCHANGED lapses
  BY DEF Untouched
<1>3. Ledger'
  BY <1>1, <1>2, LedgerSteady DEF MoreLapses
<1>4. Attempted'
  <2>1. DrainGoesOn /\ \A i \in Copies : SameAttempt(i) /\ RowGoesOn(i)
    BY <1>2 DEF DrainGoesOn, SameAttempt, RowGoesOn
  <2> QED
    BY <1>1, <1>2, <2>1, AttemptedKept DEF MoreLapses
<1>5. QueueTypes'
  BY <1>1, <1>2 DEF QueueTypes
<1> QED
  BY <1>3, <1>4, <1>5 DEF BalanceInv

\* A tab is closed or opened: a closed connection that is in use waits for its transfers.
LEMMA TabsKeep ==
    ASSUME BalanceInv, NEW s \in Quick, CloseSourceTab(s) \/ OpenWorkspaceSource(s)
    PROVE  BalanceInv'
<1>1. QueueTypes /\ Ledger
  BY DEF BalanceInv
<1>2. CASE CloseSourceTab(s)
  <2>1. UNCHANGED Untouched /\ tabs' = tabs \ {s} /\ ReleaseQuickConnectionIfUnused(s)
    BY <1>2 DEF CloseSourceTab, Untouched
  <2>2. CASE Outstanding(s, holds, status)
    <3>1. pendingQuickDisconnects' = pendingQuickDisconnects \cup {s} /\ connected' = connected
      BY <2>1, <2>2 DEF ReleaseQuickConnectionIfUnused
    <3>2. \A r \in connected' \ tabs' :
               /\ r \in pendingQuickDisconnects'
               /\ r \in connected \ tabs \/ Outstanding(r, holds, status)
      BY <1>1, <2>1, <2>2, <3>1 DEF Ledger
    <3>3. tabs' \subseteq Quick /\ connected' \subseteq connected
      BY <1>1, <2>1, <3>1 DEF QueueTypes
    <3> QED
      BY <2>1, <3>2, <3>3, UntouchedKeeps
  <2>3. CASE ~Outstanding(s, holds, status)
    <3>1. pendingQuickDisconnects' = pendingQuickDisconnects \ {s} /\ connected' = connected \ {s}
      BY <2>1, <2>3 DEF ReleaseQuickConnectionIfUnused
    <3>2. \A r \in connected' \ tabs' :
               /\ r \in pendingQuickDisconnects'
               /\ r \in connected \ tabs \/ Outstanding(r, holds, status)
      BY <1>1, <2>1, <3>1 DEF Ledger
    <3>3. tabs' \subseteq Quick /\ connected' \subseteq connected
      BY <1>1, <2>1, <3>1 DEF QueueTypes
    <3> QED
      BY <2>1, <3>2, <3>3, UntouchedKeeps
  <2> QED
    BY <2>2, <2>3
<1>3. CASE OpenWorkspaceSource(s)
  <2>1. UNCHANGED Untouched /\ tabs' = tabs \cup {s} /\ UNCHANGED <<pendingQuickDisconnects, connected>>
    BY <1>3 DEF OpenWorkspaceSource, Untouched
  <2>2. \A r \in connected' \ tabs' : r \in pendingQuickDisconnects' /\ r \in connected \ tabs
    BY <1>1, <2>1 DEF Ledger
  <2>3. tabs' \subseteq Quick /\ connected' \subseteq connected
    BY <1>1, <2>1 DEF QueueTypes
  <2> QED
    BY <2>1, <2>2, <2>3, UntouchedKeeps
<1> QED
  BY <1>2, <1>3

\* Actions that touch neither connections nor rows.
LEMMA OthersKeep ==
    ASSUME BalanceInv, UNCHANGED <<Untouched, tabs, connected, pendingQuickDisconnects>>
    PROVE  BalanceInv'
<1>1. UNCHANGED Untouched /\ UNCHANGED tabs /\ UNCHANGED connected /\
      UNCHANGED pendingQuickDisconnects
  OBVIOUS
<1>2. tabs' \subseteq Quick /\ connected' \subseteq connected
  BY <1>1 DEF BalanceInv, QueueTypes
<1>3. \A r \in connected' \ tabs' : r \in pendingQuickDisconnects' /\ r \in connected \ tabs
  BY <1>1 DEF BalanceInv, Ledger
<1> QED
  BY <1>1, <1>2, <1>3, UntouchedKeeps

\* An upload batch starts before it has any row.
LEMMA BatchKeeps ==
    ASSUME BalanceInv, StartUploadBatch
    PROVE  BalanceInv'
BY OthersKeep DEF StartUploadBatch, Untouched

\* A file dropped on a terminal has no row.
LEMMA DropKeeps ==
    ASSUME BalanceInv, NEW t, DropFile(t)
    PROVE  BalanceInv'
BY OthersKeep DEF DropFile, queueVars, Untouched

\* queueTransfer: the new row brings its holds, and the queue is processed.
LEMMA QueueKeeps ==
    ASSUME BalanceInv, NEW t \in Rows, t \notin Copies, Queue(t)
    PROVE  BalanceInv'
<1> DEFINE queue == Append(transferQueue, t)
           st == [status EXCEPT ![t] = "pending"]
<1>1. QueueTypes /\ Ledger /\ Attempted
  BY DEF BalanceInv
<1>2. status[t] = "absent" /\ transferQueue' = queue /\ holds' = Retained(holds, t) /\
      ProcessQueue(queue, st, Executing) /\
      UNCHANGED <<move, pendingQuickDisconnects, tabs, connected, copy, inflight, lapses>>
  BY DEF Queue
<1>3. queue \in Seq(Rows) /\ st \in [Rows -> Statuses] /\ Executing \in BOOLEAN
  BY <1>1 DEF QueueTypes, Executing, Statuses, Unsettled
<1>4. /\ status' \in [Rows -> Statuses]
      /\ \A i \in Rows : status'[i] \in Unsettled <=> st[i] \in Unsettled
      /\ \A i \in Copies : status'[i] = st[i]
      /\ \/ drain' = drain
         \/ /\ ~Executing /\ drain'.pc \notin {"ack", "asking", "terminal"}
            /\ DOMAIN drain' = {"pc", "item", "batch"}
  <2> HIDE DEF queue, st
  <2> QED
    BY <1>1, <1>2, <1>3, ProcessKeeps
<1>5. \A i \in Rows : st[i] = IF i = t THEN "pending" ELSE status[i]
  BY <1>1 DEF QueueTypes
<1>6. Ledger' /\ holds' \in [Quick -> Nat]
  <2>1. \A i \in {t} : status[i] \notin Unsettled
    BY <1>2 DEF Unsettled
  <2>2. \A i \in Rows : status'[i] \in Unsettled <=> status[i] \in Unsettled \/ i \in {t}
    BY <1>4, <1>5 DEF Unsettled
  <2>3. holds' = [s \in Quick |-> holds[s] + Cardinality({j \in {t} : s \in Uses[j]})]
    BY <1>1, <1>2, RetainedOne DEF QueueTypes
  <2>4. {t} \in SUBSET Rows
    OBVIOUS
  <2> HIDE DEF queue, st
  <2> QED
    BY <1>1, <1>2, <2>1, <2>2, <2>3, <2>4, LedgerRetained
<1>7. Attempted'
  <2>1. DrainGoesOn
    BY <1>4 DEF DrainGoesOn, Executing
  <2>2. Copies \subseteq Rows
    BY DEF Rows
  <2>3. \A i \in Copies : SameAttempt(i) /\ RowGoesOn(i)
    BY <1>2, <1>4, <1>5, <2>2 DEF SameAttempt, RowGoesOn
  <2> QED
    BY <1>1, <1>2, <2>1, <2>3, AttemptedKept DEF MoreLapses
<1>8. QueueTypes'
  BY <1>1, <1>2, <1>3, <1>4, <1>6 DEF QueueTypes
<1> QED
  BY <1>6, <1>7, <1>8 DEF BalanceInv

\* An upload or a download is no copy.
LEMMA TransfersAreNoCopies == \A t \in Transfers : t \notin Copies
BY QueueAssumption

\* A file of a dropped entry, and a download, are queued.
LEMMA UploadKeeps ==
    ASSUME BalanceInv, NEW t \in Transfers, UploadFile(t) \/ DownloadFile(t)
    PROVE  BalanceInv'
<1>1. t \in Rows /\ t \notin Copies /\ Queue(t)
  BY TransfersAreNoCopies DEF UploadFile, DownloadFile, Rows
<1> QED
  BY <1>1, QueueKeeps

----------------------------------------------------------------------------
(* Rows that end.                                                          *)

\* FinalizeRows in an action that leaves the move alone and sends nothing.
LEMMA FinalizingKeeps ==
    ASSUME BalanceInv, NEW S \in SUBSET Rows, FinalizeRows(S),
           UNCHANGED <<transferQueue, tabs, move, copy>>, MoreLapses, DrainGoesOn,
           DOMAIN drain' = {"pc", "item", "batch"}, inflight' \subseteq inflight,
           \A i \in S : Due(i) => Stray'
    PROVE  BalanceInv'
<1>1. QueueTypes /\ Ledger /\ Attempted
  BY DEF BalanceInv
<1>2. /\ Ledger' /\ holds' \in [Quick -> Nat] /\ connected' \subseteq Quick
      /\ status' \in [Rows -> Statuses]
      /\ \A i \in Rows : status'[i] = IF i \in S /\ status[i] \in Unsettled THEN "settled"
                                      ELSE status[i]
  BY <1>1, FinalizeKeeps
<1>3. Attempted'
  <2>1. Copies \subseteq Rows
    BY DEF Rows
  <2>2. \A i \in Copies : SameAttempt(i) /\ RowGoesOn(i)
    BY <1>2, <2>1 DEF SameAttempt, RowGoesOn
  <2> QED
    BY <1>1, <2>2, AttemptedKept DEF MoreLapses
<1>4. QueueTypes'
  BY <1>1, <1>2 DEF QueueTypes, DrainGoesOn
<1> QED
  BY <1>2, <1>3, <1>4 DEF BalanceInv

\* The events of an upload or a download.
LEMMA EventsKeep ==
    ASSUME BalanceInv, NEW t \in Transfers, OnEvents(t)
    PROVE  BalanceInv'
<1> DEFINE ended == promise[t].phase # "ended" /\ promise'[t].phase = "ended"
           announced == /\ ~promise[t].cancelling /\ promise'[t].cancelling
                        /\ t \in Rows /\ status[t] = "active"
<1>1. QueueTypes /\ Ledger /\ Attempted
  BY DEF BalanceInv
<1>2. UNCHANGED transferQueue /\ UNCHANGED drain /\ UNCHANGED move /\ UNCHANGED tabs /\
      UNCHANGED copy /\ UNCHANGED inflight /\ UNCHANGED lapses
  BY DEF OnEvents
<1>3. MoreLapses /\ DrainGoesOn /\ DOMAIN drain' = {"pc", "item", "batch"}
  BY <1>1, <1>2 DEF MoreLapses, DrainGoesOn, QueueTypes
<1>4. CASE ended /\ t \in Rows
  <2>1. FinalizeRows({t})
    BY <1>4 DEF OnEvents
  <2>2. {t} \in SUBSET Rows /\ \A i \in {t} : ~Due(i)
    BY <1>1, <1>4, TransfersAreNoCopies DEF Due, QueueTypes
  <2> QED
    BY <1>2, <1>3, <2>1, <2>2, FinalizingKeeps
<1>5. CASE ~(ended /\ t \in Rows)
  <2>1. /\ status' = IF announced THEN [status EXCEPT ![t] = "cancelling"] ELSE status
        /\ UNCHANGED holds /\ UNCHANGED pendingQuickDisconnects /\ UNCHANGED connected
    BY <1>5 DEF OnEvents
  <2>2. status' \in [Rows -> Statuses]
    BY <1>1, <2>1 DEF QueueTypes, Statuses, Unsettled
  <2>3. \A i \in Rows : status'[i] = status[i] \/
                        (i = t /\ status[i] = "active" /\ status'[i] = "cancelling")
    BY <1>1, <2>1 DEF QueueTypes
  <2>4. \A i \in Rows : status'[i] \in Unsettled <=> status[i] \in Unsettled
    BY <2>3 DEF Unsettled
  <2>5. Ledger'
    <3>1. connected' \subseteq connected /\ \A s \in connected' \ tabs' :
              s \in pendingQuickDisconnects' /\ s \in connected \ tabs
      BY <1>1, <1>2, <2>1 DEF Ledger
    <3> QED
      BY <1>1, <1>2, <1>3, <2>1, <2>4, <3>1, LedgerSteady
  <2>6. Attempted'
    <3>1. Copies \subseteq Rows /\ t \notin Copies
      BY TransfersAreNoCopies DEF Rows
    <3>2. \A i \in Copies : SameAttempt(i) /\ RowGoesOn(i)
      BY <1>2, <2>3, <3>1 DEF SameAttempt, RowGoesOn
    <3> QED
      BY <1>1, <1>2, <1>3, <3>2, AttemptedKept DEF MoreLapses
  <2>7. QueueTypes'
    BY <1>1, <1>2, <2>1, <2>2 DEF QueueTypes
  <2> QED
    BY <2>5, <2>6, <2>7 DEF BalanceInv
<1> QED
  BY <1>4, <1>5

\* Whatever the coordinator reports or is asked about an upload or a download.
LEMMA TransferEventsKeep ==
    ASSUME BalanceInv, NEW t \in Transfers,
           \/ \E d \in Decisions : AnswerUpload(t, d)
           \/ UploadConflict(t)
           \/ TransferEnds(t)
           \/ CancelRow(t)
    PROVE  BalanceInv'
<1>1. OnEvents(t)
  BY DEF AnswerUpload, UploadConflict, TransferEnds, CancelRow
<1> QED
  BY <1>1, EventsKeep

\* executeTransfer: the rows of a selection join with their holds; the drain may start.
LEMMA ExecuteKeeps ==
    ASSUME BalanceInv, NEW b, ExecuteTransfer(b)
    PROVE  BalanceInv'
<1> DEFINE items == {i \in Copies : BatchOf[i] = b}
           starts == ~Executing /\ ~isTransferring
<1>1. QueueTypes /\ Ledger /\ Attempted
  BY DEF BalanceInv
<1>2. /\ \A i \in items : status[i] = "absent"
      /\ transferQueue' = transferQueue \o SetToSeq(items)
      /\ status' = [i \in Rows |-> IF i \in items THEN "pending" ELSE status[i]]
      /\ holds' = [s \in Quick |-> holds[s] + Cardinality({i \in items : s \in Uses[i]})]
      /\ drain' = IF starts THEN [Idle EXCEPT !.pc = "loop"] ELSE drain
      /\ UNCHANGED move /\ UNCHANGED pendingQuickDisconnects /\ UNCHANGED tabs
      /\ UNCHANGED connected /\ UNCHANGED copy /\ UNCHANGED inflight /\ UNCHANGED lapses
  BY DEF ExecuteTransfer
<1>3. items \in SUBSET Rows /\ Copies \subseteq Rows
  BY DEF Rows
<1>4. transferQueue' \in Seq(Rows)
  <2> HIDE DEF items
  <2>1. SetToSeq(items) \in Seq(Rows)
    BY <1>3, SetIsQueued
  <2> QED
    BY <1>1, <1>2, <2>1 DEF QueueTypes
<1>5. status' \in [Rows -> Statuses]
  BY <1>1, <1>2 DEF QueueTypes, Statuses, Unsettled
<1>6. \A i \in Rows : status'[i] = IF i \in items THEN "pending" ELSE status[i]
  BY <1>2
<1>7. Ledger' /\ holds' \in [Quick -> Nat]
  <2>1. \A i \in items : status[i] \notin Unsettled
    BY <1>2 DEF Unsettled
  <2>2. \A i \in Rows : status'[i] \in Unsettled <=> status[i] \in Unsettled \/ i \in items
    BY <1>6 DEF Unsettled
  <2> HIDE DEF items, starts
  <2> QED
    BY <1>1, <1>2, <1>3, <2>1, <2>2, LedgerRetained
<1>8. drain' = drain \/ (drain.pc # "ack" /\ drain'.pc = "loop" /\
                         DOMAIN drain' = {"pc", "item", "batch"})
  BY <1>2 DEF Executing, Idle
<1>9. Attempted'
  <2>1. DrainGoesOn
    BY <1>8 DEF DrainGoesOn
  <2>2. \A i \in Copies : SameAttempt(i) /\ RowGoesOn(i)
    BY <1>2, <1>3, <1>6 DEF SameAttempt, RowGoesOn
  <2>3. inflight' \subseteq inflight /\ MoreLapses
    BY <1>2 DEF MoreLapses
  <2> HIDE DEF items, starts
  <2> QED
    BY <1>1, <2>1, <2>2, <2>3, AttemptedKept
<1>10. QueueTypes'
  <2> HIDE DEF items, starts
  <2> QED
    BY <1>1, <1>2, <1>4, <1>5, <1>7, <1>8 DEF QueueTypes
<1> QED
  BY <1>7, <1>9, <1>10 DEF BalanceInv

\* cancelQueuedTransfer of a copy.
LEMMA CancelCopyKeeps ==
    ASSUME BalanceInv, NEW i \in Copies, CancelCopy(i)
    PROVE  BalanceInv'
<1> DEFINE starting == drain.pc = "ack" /\ drain.item = i
           running == drain.pc = "terminal" /\ drain.item = i
<1>1. QueueTypes /\ Ledger /\ Attempted
  BY DEF BalanceInv
<1>2. status[i] \in {"pending", "active"} /\ UNCHANGED transferQueue /\ UNCHANGED drain /\
      UNCHANGED move /\ UNCHANGED tabs /\ UNCHANGED inflight /\ UNCHANGED lapses
  BY DEF CancelCopy
<1>3. MoreLapses /\ DrainGoesOn /\ DOMAIN drain' = {"pc", "item", "batch"}
  BY <1>1, <1>2 DEF MoreLapses, DrainGoesOn, QueueTypes
<1>4. i \in Rows /\ Copies \subseteq Rows
  BY DEF Rows
<1>5. CASE starting \/ running
  <2>1. /\ status' = [status EXCEPT ![i] = "cancelling"]
        /\ copy' = IF running THEN [copy EXCEPT ![i].cancel = TRUE] ELSE copy
        /\ UNCHANGED holds /\ UNCHANGED pendingQuickDisconnects /\ UNCHANGED connected
    BY <1>5 DEF CancelCopy
  <2>2. status' \in [Rows -> Statuses]
    BY <1>1, <2>1 DEF QueueTypes, Statuses, Unsettled
  <2>3. \A j \in Rows : status'[j] = IF j = i THEN "cancelling" ELSE status[j]
    BY <1>1, <2>1 DEF QueueTypes
  <2>4. \A j \in Rows : status'[j] \in Unsettled <=> status[j] \in Unsettled
    BY <1>2, <2>3 DEF Unsettled
  <2>5. Ledger'
    <3>1. connected' \subseteq connected /\ \A s \in connected' \ tabs' :
              s \in pendingQuickDisconnects' /\ s \in connected \ tabs
      BY <1>1, <1>2, <2>1 DEF Ledger
    <3> QED
      BY <1>1, <1>2, <1>3, <2>1, <2>4, <3>1, LedgerSteady
  <2>6. /\ DOMAIN copy' = Copies
        /\ \A j \in Copies : /\ DOMAIN copy'[j] = {"state", "attempt", "cancel"}
                             /\ copy'[j].attempt = copy[j].attempt
                             /\ copy'[j].state = copy[j].state
                             /\ ~(running /\ j = i) => copy'[j].cancel = copy[j].cancel
    BY <1>1, <2>1 DEF QueueTypes
  <2>7. Attempted'
    <3>1. \A j \in Copies : SameAttempt(j)
      BY <2>6 DEF SameAttempt, Due
    <3>2. \A j \in Copies : RowGoesOn(j)
      BY <1>2, <1>4, <2>3 DEF RowGoesOn, Unsettled
    <3> QED
      BY <1>1, <1>2, <1>3, <3>1, <3>2, AttemptedKept DEF MoreLapses
  <2>8. QueueTypes'
    BY <1>1, <1>2, <2>1, <2>2, <2>6 DEF QueueTypes
  <2> QED
    BY <2>5, <2>7, <2>8 DEF BalanceInv
<1>6. CASE ~(starting \/ running)
  <2>1. FinalizeRows({i}) /\ UNCHANGED copy
    BY <1>6 DEF CancelCopy
  <2>2. {i} \in SUBSET Rows /\ ~Due(i)
    BY <1>4, <1>6 DEF Due
  <2> QED
    BY <1>2, <1>3, <2>1, <2>2, FinalizingKeeps
<1> QED
  BY <1>5, <1>6

----------------------------------------------------------------------------
(* Moves.                                                                  *)

\* A move starts: its source is held.
LEMMA StartMoveKeeps ==
    ASSUME BalanceInv, StartMove
    PROVE  BalanceInv'
<1>1. QueueTypes /\ Ledger /\ Attempted
  BY DEF BalanceInv
<1>2. /\ move.pc = "idle" /\ MoveSource \in Quick
      /\ move' = [pc |-> "ack", left |-> MoveItems]
      /\ holds' = [holds EXCEPT ![MoveSource] = @ + 1]
      /\ UNCHANGED transferQueue /\ UNCHANGED status /\ UNCHANGED drain /\ UNCHANGED tabs
      /\ UNCHANGED copy /\ UNCHANGED inflight /\ UNCHANGED pendingQuickDisconnects
      /\ UNCHANGED connected /\ UNCHANGED lapses
  BY <1>1 DEF StartMove, Offered, Executing, moveKept, QueueTypes
<1>3. holds' \in [Quick -> Nat] /\
      \A s \in Quick : /\ holds'[s] = IF s = MoveSource THEN holds[s] + 1 ELSE holds[s]
                       /\ holds[s] \in Nat
  BY <1>1, <1>2 DEF QueueTypes
<1>4. Ledger'
  <2>1. (~Stray => \A s \in Quick : holds[s] = Cardinality(Users(status, s)) + MoveHold(s))'
    <3> SUFFICES ASSUME ~Stray, NEW s \in Quick
                 PROVE  holds'[s] = Cardinality(Users(status, s)) + MoveHold(s)'
      BY <1>2 DEF Stray
    <3>1. holds[s] = Cardinality(Users(status, s)) + MoveHold(s) /\
          Cardinality(Users(status, s)) \in Nat
      BY <1>1, UsersAreFinite DEF Ledger
    <3>2. MoveHold(s) = 0 /\ MoveHold(s)' = IF s = MoveSource THEN 1 ELSE 0
      BY <1>2 DEF MoveHold
    <3> QED
      BY <1>3, <3>1, <3>2
  <2>2. \A s \in connected' \ tabs' :
            s \in pendingQuickDisconnects' /\ Outstanding(s, holds', status')
    <3> SUFFICES ASSUME NEW s \in connected \ tabs
                 PROVE  s \in pendingQuickDisconnects /\ Outstanding(s, holds', status')
      BY <1>2
    <3>1. s \in Quick /\ s \in pendingQuickDisconnects /\ Outstanding(s, holds, status)
      BY <1>1 DEF Ledger, QueueTypes
    <3>2. holds'[s] \in Nat /\ holds'[s] >= holds[s]
      BY <1>3, <3>1
    <3> QED
      BY <1>1, <1>2, <3>1, <3>2, OutstandingStays
  <2> QED
    BY <2>1, <2>2 DEF Ledger
<1>5. Attempted'
  <2>1. DrainGoesOn /\ \A i \in Copies : SameAttempt(i) /\ RowGoesOn(i)
    BY <1>2 DEF DrainGoesOn, SameAttempt, RowGoesOn
  <2> QED
    BY <1>1, <1>2, <2>1, AttemptedKept DEF MoreLapses
<1>6. QueueTypes'
  BY <1>1, <1>2, <1>3 DEF QueueTypes
<1> QED
  BY <1>4, <1>5, <1>6 DEF BalanceInv

\* The move goes on, or ends and gives its hold back.
LEMMA MoveOnKeeps ==
    ASSUME BalanceInv, move.pc # "idle", NEW stop \in BOOLEAN, MoveOn(stop), UNCHANGED moveKept
    PROVE  BalanceInv'
<1>1. QueueTypes /\ Ledger /\ Attempted
  BY DEF BalanceInv
<1>2. UNCHANGED transferQueue /\ UNCHANGED status /\ UNCHANGED drain /\ UNCHANGED tabs /\
      UNCHANGED copy /\ UNCHANGED inflight
  BY DEF moveKept
<1>3. MoveSource \in Quick /\ holds \in [Quick -> Nat]
  BY <1>1 DEF QueueTypes
<1>4. Attempted'
  <2>1. DrainGoesOn /\ \A i \in Copies : SameAttempt(i) /\ RowGoesOn(i)
    BY <1>2 DEF DrainGoesOn, SameAttempt, RowGoesOn
  <2>2. MoreLapses
    BY DEF MoveOn, MoreLapses
  <2> QED
    BY <1>1, <1>2, <2>1, <2>2, AttemptedKept
<1>5. CASE ~stop /\ move.left > 1
  <2>1. move' = [pc |-> "ack", left |-> move.left - 1] /\ UNCHANGED holds /\
        UNCHANGED pendingQuickDisconnects /\ UNCHANGED connected /\ UNCHANGED lapses
    BY <1>5 DEF MoveOn
  <2>2. Ledger'
    <3>1. connected' \subseteq connected /\ MoreLapses /\ \A s \in connected' \ tabs' :
              s \in pendingQuickDisconnects' /\ s \in connected \ tabs
      BY <1>1, <1>2, <2>1 DEF Ledger, MoreLapses
    <3>2. move'.pc # "idle" <=> move.pc # "idle"
      BY <2>1
    <3> QED
      BY <1>1, <1>2, <2>1, <3>1, <3>2, LedgerSteady
  <2>3. QueueTypes'
    BY <1>1, <1>2, <1>3, <2>1 DEF QueueTypes
  <2> QED
    BY <1>4, <2>2, <2>3 DEF BalanceInv
<1>6. CASE ~(~stop /\ move.left > 1)
  <2> DEFINE h == [holds EXCEPT ![MoveSource] = IF @ > 0 THEN @ - 1 ELSE 0]
  <2>1. move' = [pc |-> "idle", left |-> 0] /\ holds' = h /\ Flush(h, status) /\ MoreLapses
    BY <1>6 DEF MoveOn, MoreLapses
  <2>2. h \in [Quick -> Nat] /\
        \A s \in Quick : /\ h[s] = IF s = MoveSource THEN IF holds[s] > 0 THEN holds[s] - 1 ELSE 0
                                   ELSE holds[s]
                         /\ holds[s] \in Nat
    BY <1>3
  <2>3. /\ connected' \subseteq Quick
        /\ \A s \in connected' \ tabs' :
              s \in pendingQuickDisconnects' /\ Outstanding(s, h, status)
    <3> HIDE DEF h
    <3> QED
      BY <1>1, <1>2, <2>1, FlushKeeps
  <2> HIDE DEF h
  <2>4. (~Stray => \A s \in Quick : holds[s] = Cardinality(Users(status, s)) + MoveHold(s))'
    <3> SUFFICES ASSUME ~Stray, NEW s \in Quick
                 PROVE  h[s] = Cardinality(Users(status, s)) + MoveHold(s)'
      BY <1>2, <2>1 DEF Stray, MoreLapses
    <3>1. holds[s] = Cardinality(Users(status, s)) + MoveHold(s) /\
          Cardinality(Users(status, s)) \in Nat
      BY <1>1, UsersAreFinite DEF Ledger
    <3>2. MoveHold(s)' = 0 /\ MoveHold(s) = IF s = MoveSource THEN 1 ELSE 0
      BY <2>1 DEF MoveHold
    <3> QED
      BY <2>2, <3>1, <3>2
  <2>5. Ledger'
    BY <1>2, <2>1, <2>3, <2>4 DEF Ledger
  <2>6. QueueTypes'
    BY <1>1, <1>2, <2>1, <2>2, <2>3 DEF QueueTypes
  <2> QED
    BY <1>4, <2>5, <2>6 DEF BalanceInv
<1> QED
  BY <1>5, <1>6

\* The conflict of a move is asked about.
LEMMA MoveAskKeeps ==
    ASSUME BalanceInv, move.pc = "ack", move' = [move EXCEPT !.pc = "asking"],
           UNCHANGED <<holds, pendingQuickDisconnects, connected, lapses>>, UNCHANGED moveKept
    PROVE  BalanceInv'
<1>1. QueueTypes /\ Ledger /\ Attempted
  BY DEF BalanceInv
<1>2. UNCHANGED transferQueue /\ UNCHANGED status /\ UNCHANGED drain /\ UNCHANGED tabs /\
      UNCHANGED copy /\ UNCHANGED inflight
  BY DEF moveKept
<1>3. DOMAIN move' = {"pc", "left"} /\ move'.pc = "asking"
  BY <1>1 DEF QueueTypes
<1>4. Attempted'
  <2>1. DrainGoesOn /\ \A i \in Copies : SameAttempt(i) /\ RowGoesOn(i)
    BY <1>2 DEF DrainGoesOn, SameAttempt, RowGoesOn
  <2> QED
    BY <1>1, <1>2, <2>1, AttemptedKept DEF MoreLapses
<1>5. Ledger'
  <2>1. connected' \subseteq connected /\ MoreLapses /\ \A s \in connected' \ tabs' :
            s \in pendingQuickDisconnects' /\ s \in connected \ tabs
    BY <1>1, <1>2 DEF Ledger, MoreLapses
  <2>2. move'.pc # "idle" <=> move.pc # "idle"
    BY <1>3
  <2> QED
    BY <1>1, <1>2, <2>1, <2>2, LedgerSteady
<1>6. QueueTypes'
  BY <1>1, <1>2, <1>3 DEF QueueTypes
<1> QED
  BY <1>4, <1>5, <1>6 DEF BalanceInv

\* The reply to a move's item and the answer about its conflict.
LEMMA MovesKeep ==
    ASSUME BalanceInv, OnMoveReply \/ \E d \in Decisions : AnswerMove(d)
    PROVE  BalanceInv'
<1>1. CASE OnMoveReply
  <2>1. move.pc = "ack" /\ UNCHANGED moveKept
    BY <1>1 DEF OnMoveReply
  <2>2. CASE \E failed \in BOOLEAN : MoveOn(failed)
    BY <2>1, <2>2, MoveOnKeeps
  <2>3. CASE move' = [move EXCEPT !.pc = "asking"] /\
             UNCHANGED <<holds, pendingQuickDisconnects, connected, lapses>>
    BY <2>1, <2>3, MoveAskKeeps
  <2> QED
    BY <1>1, <2>2, <2>3 DEF OnMoveReply
<1>2. CASE \E d \in Decisions : AnswerMove(d)
  <2>1. PICK d \in Decisions : AnswerMove(d)
    BY <1>2
  <2>2. move.pc = "asking" /\ MoveOn(d = "cancel") /\ UNCHANGED moveKept
    BY <2>1 DEF AnswerMove
  <2>3. (d = "cancel") \in BOOLEAN
    OBVIOUS
  <2> QED
    BY <2>2, <2>3, MoveOnKeeps
<1> QED
  BY <1>1, <1>2

----------------------------------------------------------------------------
(* Copies.                                                                 *)

\* The loop of the drain: a request goes out, or the row fails at once.
LEMMA DrainNextKeeps ==
    ASSUME BalanceInv, DrainNext
    PROVE  BalanceInv'
<1> DEFINE i == FirstPending(transferQueue, status)
<1>1. QueueTypes /\ Ledger /\ Attempted
  BY DEF BalanceInv
<1>2. drain.pc = "loop" /\ i \in Copies /\ UNCHANGED <<transferQueue, move, tabs, inflight, lapses>>
  BY DEF DrainNext
<1>3. i \in Rows /\ i # None /\ status[i] = "pending"
  <2>1. i \in Rows /\ i # None
    BY <1>2, QueueAssumption DEF Rows
  <2>2. transferQueue \in Seq(Rows)
    BY <1>1 DEF QueueTypes
  <2> QED
    BY <2>1, <2>2, FirstIsPending
<1>4. CASE Sent(i, 1) /\ UNCHANGED <<status, holds, pendingQuickDisconnects, connected>>
  <2> HIDE DEF i
  <2>1. copy[i].attempt = 0 /\ ~Due(i) /\ 1 > copy[i].attempt
    <3>1. copy[i].attempt = 0 /\ ~Due(i)
      BY <1>1, <1>2, <1>3 DEF Attempted, FirstInv, Due
    <3> QED
      BY <3>1
  <2>2. status' \in [Rows -> Statuses] /\ status'[i] = "pending" /\
        \A j \in Copies \ {i} : status'[j] = status[j]
    BY <1>1, <1>3, <1>4 DEF QueueTypes
  <2>3. /\ Attempted' /\ DOMAIN copy' = Copies /\ DOMAIN drain' = {"pc", "item", "batch"}
        /\ drain'.item \in Copies
        /\ \A j \in Copies : DOMAIN copy'[j] = {"state", "attempt", "cancel"} /\
                             copy'[j].attempt \in Nat
    BY <1>1, <1>2, <1>4, <2>1, <2>2, AttemptedSent
  <2>4. Ledger'
    <3>1. connected' \subseteq connected /\ MoreLapses /\ \A s \in connected' \ tabs' :
              s \in pendingQuickDisconnects' /\ s \in connected \ tabs
      BY <1>1, <1>2, <1>4 DEF Ledger, MoreLapses
    <3> QED
      BY <1>1, <1>2, <1>4, <3>1, LedgerSteady
  <2>5. QueueTypes'
    BY <1>1, <1>2, <1>4, <2>3 DEF QueueTypes
  <2> QED
    BY <2>3, <2>4, <2>5 DEF BalanceInv
<1>5. CASE FinalizeRows({i}) /\ drain' = [drain EXCEPT !.batch = BatchOf[i]] /\ UNCHANGED copy
  <2> HIDE DEF i
  <2>1. {i} \in SUBSET Rows /\ ~Due(i)
    BY <1>2, <1>3 DEF Due
  <2>2. drain'.pc = drain.pc /\ drain'.item = drain.item /\
        DOMAIN drain' = {"pc", "item", "batch"}
    BY <1>1, <1>5 DEF QueueTypes
  <2>3. DrainGoesOn /\ MoreLapses
    BY <1>2, <2>2 DEF DrainGoesOn, MoreLapses
  <2> QED
    BY <1>2, <1>5, <2>1, <2>2, <2>3, FinalizingKeeps
<1> QED
  BY <1>4, <1>5 DEF DrainNext

\* The answer for a copy: a second request for the settled row, or the end of it and
\* perhaps of its batch.
LEMMA AnswerCopyKeeps ==
    ASSUME BalanceInv, NEW d, AnswerCopy(d)
    PROVE  BalanceInv'
<1> DEFINE i == drain.item
           rest == {j \in Copies : status[j] = "pending" /\ BatchOf[j] = BatchOf[i]}
<1>1. QueueTypes /\ Ledger /\ Attempted
  BY DEF BalanceInv
<1>2. drain.pc = "asking" /\ UNCHANGED <<transferQueue, move, tabs, inflight, lapses>>
  BY DEF AnswerCopy
<1>3. i \in Copies /\ i \in Rows /\ Copies \subseteq Rows /\ status[i] = "settled" /\
      copy[i].attempt = 1
  BY <1>1, <1>2 DEF QueueTypes, Attempted, DrainInv, Rows
<1>4. CASE d = "replace"
  <2>1. Sent(i, 2) /\ status' = [status EXCEPT ![i] = "pending"] /\ holds' = Retained(holds, i) /\
        UNCHANGED <<pendingQuickDisconnects, connected>>
    BY <1>4 DEF AnswerCopy
  <2> HIDE DEF i
  <2>2. status' \in [Rows -> Statuses] /\
        \A j \in Rows : status'[j] = IF j = i THEN "pending" ELSE status[j]
    BY <1>1, <1>3, <2>1 DEF QueueTypes, Statuses, Unsettled
  <2>3. /\ Attempted' /\ DOMAIN copy' = Copies /\ DOMAIN drain' = {"pc", "item", "batch"}
        /\ drain'.item \in Copies
        /\ \A j \in Copies : DOMAIN copy'[j] = {"state", "attempt", "cancel"} /\
                             copy'[j].attempt \in Nat
    <3>1. 2 > copy[i].attempt /\ 2 \in Nat
      BY <1>3
    <3>2. status'[i] = "pending" /\ \A j \in Copies \ {i} : status'[j] = status[j]
      BY <1>3, <2>2
    <3> QED
      BY <1>1, <1>2, <1>3, <2>1, <2>2, <3>1, <3>2, AttemptedSent
  <2>4. Ledger' /\ holds' \in [Quick -> Nat]
    <3>1. \A j \in {i} : status[j] \notin Unsettled
      BY <1>3 DEF Unsettled
    <3>2. \A j \in Rows : status'[j] \in Unsettled <=> status[j] \in Unsettled \/ j \in {i}
      BY <2>2 DEF Unsettled
    <3>3. holds' = [s \in Quick |-> holds[s] + Cardinality({j \in {i} : s \in Uses[j]})]
      BY <1>1, <2>1, RetainedOne DEF QueueTypes
    <3>4. {i} \in SUBSET Rows
      BY <1>3
    <3> QED
      BY <1>1, <1>2, <2>1, <3>1, <3>2, <3>3, <3>4, LedgerRetained
  <2>5. QueueTypes'
    BY <1>1, <1>2, <2>1, <2>2, <2>3, <2>4 DEF QueueTypes
  <2> QED
    BY <2>3, <2>4, <2>5 DEF BalanceInv
<1>5. CASE d # "replace"
  <2>1. PICK S : S = IF d = "cancel" THEN rest ELSE {}
    OBVIOUS
  <2>2. /\ status' = [j \in Rows |-> IF j \in S THEN "settled" ELSE status[j]]
        /\ holds' = Released(holds, S)
        /\ Flush(Released(holds, S), [j \in Rows |-> IF j \in S THEN "settled" ELSE status[j]])
        /\ drain' = [drain EXCEPT !.pc = "loop"] /\ UNCHANGED copy
    BY <1>5, <2>1 DEF AnswerCopy
  <2>3. S \in SUBSET Rows /\ \A j \in S : status[j] = "pending"
    BY <1>3, <2>1
  <2> HIDE DEF i, rest
  <2>4. status' \in [Rows -> Statuses] /\
        \A j \in Rows : status'[j] = IF j \in S THEN "settled" ELSE status[j]
    BY <1>1, <2>2 DEF QueueTypes, Statuses
  <2>5. \A j \in S : status[j] \in Unsettled
    BY <2>3 DEF Unsettled
  <2>6. Ledger' /\ holds' \in [Quick -> Nat] /\ connected' \subseteq Quick
    <3>1. \A j \in Rows : status'[j] \in Unsettled <=> status[j] \in Unsettled /\ j \notin S
      BY <2>4, <2>5 DEF Unsettled
    <3>2. MoreLapses
      BY <1>2 DEF MoreLapses
    <3>3. Flush(Released(holds, S), status')
      BY <2>2
    <3> QED
      BY <1>1, <1>2, <2>2, <2>3, <2>5, <3>1, <3>2, <3>3, LedgerReleased
  <2>7. drain'.pc = "loop" /\ drain'.item = drain.item /\ DOMAIN drain' = {"pc", "item", "batch"}
    BY <1>1, <2>2 DEF QueueTypes
  <2>8. Attempted'
    <3>1. \A j \in Copies : ~Due(j)
      BY <1>2 DEF Due
    <3>2. \A j \in Copies : SameAttempt(j) /\ RowGoesOn(j)
      BY <1>3, <2>2, <2>4, <2>5, <3>1 DEF SameAttempt, RowGoesOn
    <3>3. DrainGoesOn /\ MoreLapses
      BY <1>2, <2>7 DEF DrainGoesOn, MoreLapses
    <3> QED
      BY <1>1, <1>2, <3>2, <3>3, AttemptedKept
  <2>9. QueueTypes'
    BY <1>1, <1>2, <2>2, <2>4, <2>6, <2>7 DEF QueueTypes
  <2> QED
    BY <2>6, <2>8, <2>9 DEF BalanceInv
<1> QED
  BY <1>4, <1>5

\* The current copy's request has been answered, or was before: its row is settled
\* and the drain asks or returns to the loop.
LEMMA TerminalKeeps ==
    ASSUME BalanceInv, NEW i \in Copies, drain.pc \in {"ack", "terminal"}, drain.item = i,
           FinalizeRows({i}), UNCHANGED <<transferQueue, tabs, move, copy, lapses>>,
           NEW ask \in BOOLEAN, ask => copy[i].attempt = 1,
           drain' = [drain EXCEPT !.pc = IF ask THEN "asking" ELSE "loop"],
           inflight' \subseteq inflight, \A m \in inflight' : m.what \notin Answers,
           \A j \in Copies : copy[j].state # "asked"
    PROVE  BalanceInv'
<1>1. QueueTypes /\ Ledger /\ Attempted
  BY DEF BalanceInv
<1>2. {i} \in SUBSET Rows /\ Copies \subseteq Rows /\ i \in Rows /\ MoreLapses
  BY DEF Rows, MoreLapses
<1>3. /\ Ledger' /\ holds' \in [Quick -> Nat] /\ connected' \subseteq Quick
      /\ status' \in [Rows -> Statuses]
      /\ \A j \in Rows : status'[j] = IF j \in {i} /\ status[j] \in Unsettled THEN "settled"
                                      ELSE status[j]
  BY <1>1, <1>2, FinalizeKeeps
<1>4. drain'.pc = (IF ask THEN "asking" ELSE "loop") /\ drain'.item = i /\
      DOMAIN drain' = {"pc", "item", "batch"}
  BY <1>1 DEF QueueTypes
<1>5. status'[i] = "settled"
  <2>1. status[i] # "absent" /\ status[i] \in Statuses
    BY <1>1, <1>2 DEF Attempted, DrainInv, QueueTypes
  <2> QED
    BY <1>2, <1>3, <2>1 DEF Statuses
<1>6. DrainInv'
  BY <1>4, <1>5 DEF DrainInv
<1>7. \A j : ~Due(j)'
  BY <1>4 DEF Due
<1>8. FirstInv'
  <2> SUFFICES ASSUME NEW j \in Copies, status'[j] \in {"absent", "pending"}
               PROVE  copy[j].attempt = 0
    BY DEF FirstInv
  <2>1. j # i /\ status'[j] = status[j]
    BY <1>2, <1>3, <1>5
  <2>2. ~Due(j)
    BY <2>1 DEF Due
  <2> QED
    BY <1>1, <2>1, <2>2 DEF Attempted, FirstInv
<1>9. FlightInv'
  <2>1. \A m \in inflight' : m.item \in Copies /\ m.attempt \in Nat /\ m.attempt <= copy[m.item].attempt
    BY <1>1 DEF Attempted, FlightInv
  <2> QED
    BY <1>7, <2>1 DEF FlightInv
<1>10. QueueTypes'
  BY <1>1, <1>3, <1>4 DEF QueueTypes
<1> QED
  BY <1>3, <1>6, <1>8, <1>9, <1>10 DEF BalanceInv, Attempted

\* The acknowledgement of the request.
LEMMA CopyAckKeeps ==
    ASSUME BalanceInv, NEW i \in Copies, OnCopyAck(i)
    PROVE  BalanceInv'
<1>1. QueueTypes /\ Ledger /\ Attempted
  BY DEF BalanceInv
<1>2. PICK m \in inflight :
        LET n == m.attempt
            refused == m.what = "refused"
            settles == refused \/ early[i] # "none"
            end == IF refused THEN "over" ELSE early[i]
            cancel == ~settles /\ "requested" \in cancelFlags[i]
        IN  /\ drain.pc = "ack" /\ drain.item = i
            /\ m.item = i /\ m.what \in {"accepted", "refused"}
            /\ inflight' = inflight \ {m}
            /\ IF settles
               THEN /\ FinalizeRows({i})
                    /\ AfterTerminal(i, end, n)
                    /\ UNCHANGED <<cancelFlags, copy>>
               ELSE /\ status' = [status EXCEPT ![i] = IF cancel THEN "cancelling" ELSE "active"]
                    /\ copy' = [copy EXCEPT ![i].cancel = cancel]
                    /\ drain' = [drain EXCEPT !.pc = "terminal"]
                    /\ UNCHANGED <<holds, pendingQuickDisconnects, connected>>
            /\ UNCHANGED <<transferQueue, move, tabs, lapses>>
  BY DEF OnCopyAck
<1> DEFINE settles == m.what = "refused" \/ early[i] # "none"
           cancel == ~settles /\ "requested" \in cancelFlags[i]
<1>3. /\ drain.pc = "ack" /\ drain.item = i /\ m.item = i /\ m.what \in Answers
      /\ inflight' = inflight \ {m}
      /\ UNCHANGED transferQueue /\ UNCHANGED move /\ UNCHANGED tabs /\ UNCHANGED lapses
  BY <1>2 DEF Answers
<1>4. /\ m.attempt = copy[i].attempt
      /\ \A k \in inflight' : k.what \notin Answers
      /\ \A j \in Copies : copy[j].state # "asked"
  BY <1>1, <1>3 DEF Attempted, FlightInv, Due
<1>5. CASE settles
  <2>1. PICK end : FinalizeRows({i}) /\ AfterTerminal(i, end, m.attempt) /\ UNCHANGED copy
    BY <1>2, <1>5
  <2>2. PICK ask \in BOOLEAN : /\ ask <=> end = "conflict" /\ m.attempt = 1
                               /\ drain' = [drain EXCEPT !.pc = IF ask THEN "asking" ELSE "loop"]
    BY <2>1 DEF AfterTerminal
  <2> QED
    BY <1>3, <1>4, <2>1, <2>2, TerminalKeeps
<1>6. CASE ~settles
  <2>1. /\ status' = [status EXCEPT ![i] = IF cancel THEN "cancelling" ELSE "active"]
        /\ copy' = [copy EXCEPT ![i].cancel = cancel]
        /\ drain' = [drain EXCEPT !.pc = "terminal"]
        /\ UNCHANGED holds /\ UNCHANGED pendingQuickDisconnects /\ UNCHANGED connected
    BY <1>2, <1>6
  <2> HIDE DEF settles, cancel
  <2>2. i \in Rows /\ Copies \subseteq Rows
    BY DEF Rows
  <2>3. status' \in [Rows -> Statuses] /\ status'[i] \in {"active", "cancelling"} /\
        \A j \in Rows \ {i} : status'[j] = status[j]
    BY <1>1, <2>1, <2>2 DEF QueueTypes, Statuses, Unsettled
  <2>4. drain'.pc = "terminal" /\ drain'.item = i /\ DOMAIN drain' = {"pc", "item", "batch"}
    BY <1>1, <1>3, <2>1 DEF QueueTypes
  <2>5. /\ DOMAIN copy' = Copies
        /\ \A j \in Copies : /\ DOMAIN copy'[j] = {"state", "attempt", "cancel"}
                             /\ copy'[j].attempt = copy[j].attempt
                             /\ copy'[j].state = copy[j].state
    BY <1>1, <2>1 DEF QueueTypes
  <2>6. Ledger'
    <3>1. CASE Stray
      <4>1. \A j \in Rows : status[j] \in Unsettled => status'[j] \in Unsettled
        BY <2>3 DEF Unsettled
      <4>2. \A s \in connected' \ tabs' :
                s \in pendingQuickDisconnects' /\ Outstanding(s, holds', status')
        <5> SUFFICES ASSUME NEW s \in connected \ tabs
                     PROVE  s \in pendingQuickDisconnects /\ Outstanding(s, holds, status')
          BY <1>3, <2>1
        <5>1. s \in Quick /\ s \in pendingQuickDisconnects /\ Outstanding(s, holds, status)
          BY <1>1 DEF Ledger, QueueTypes
        <5>2. holds[s] \in Nat /\ holds[s] >= holds[s]
          BY <1>1, <5>1 DEF QueueTypes
        <5> QED
          BY <1>1, <4>1, <5>1, <5>2, OutstandingStays
      <4>3. Stray'
        BY <1>3, <3>1 DEF Stray
      <4> QED
        BY <4>2, <4>3 DEF Ledger
    <3>2. CASE ~Stray
      <4>1. status[i] \in Unsettled
        BY <1>1, <1>3, <3>2 DEF Attempted, DrainInv
      <4>2. \A j \in Rows : status'[j] \in Unsettled <=> status[j] \in Unsettled
        BY <2>3, <4>1 DEF Unsettled
      <4>3. connected' \subseteq connected /\ MoreLapses /\ \A s \in connected' \ tabs' :
                s \in pendingQuickDisconnects' /\ s \in connected \ tabs
        BY <1>1, <1>3, <2>1 DEF Ledger, MoreLapses
      <4> QED
        BY <1>1, <1>3, <2>1, <4>2, <4>3, LedgerSteady
    <3> QED
      BY <3>1, <3>2
  <2>7. DrainInv'
    BY <2>3, <2>4 DEF DrainInv
  <2>8. \A j : ~Due(j)'
    BY <2>4 DEF Due
  <2>9. FirstInv'
    <3> SUFFICES ASSUME NEW j \in Copies, status'[j] \in {"absent", "pending"}
                 PROVE  copy'[j].attempt = 0
      BY DEF FirstInv
    <3>1. j # i /\ status'[j] = status[j]
      BY <2>2, <2>3
    <3>2. ~Due(j)
      BY <1>3, <3>1 DEF Due
    <3> QED
      BY <1>1, <2>5, <3>1, <3>2 DEF Attempted, FirstInv
  <2>10. FlightInv'
    <3>1. \A k \in inflight' : k.item \in Copies /\ k.attempt \in Nat /\
                               k.attempt <= copy'[k.item].attempt
      BY <1>1, <1>3, <2>5 DEF Attempted, FlightInv
    <3> QED
      BY <1>4, <2>5, <2>8, <3>1 DEF FlightInv
  <2>11. QueueTypes'
    BY <1>1, <1>3, <2>1, <2>3, <2>4, <2>5 DEF QueueTypes
  <2> QED
    BY <2>6, <2>7, <2>9, <2>10, <2>11 DEF BalanceInv, Attempted
<1> QED
  BY <1>5, <1>6

\* A terminal event of a copy.
LEMMA CopyEndKeeps ==
    ASSUME BalanceInv, NEW i \in Copies, OnCopyEnd(i)
    PROVE  BalanceInv'
<1>1. QueueTypes /\ Ledger /\ Attempted
  BY DEF BalanceInv
<1>2. PICK m \in inflight :
        LET mine == drain.item = i /\ m.attempt = copy[i].attempt
        IN  /\ m.item = i /\ m.what \in {"over", "conflict"}
            /\ inflight' = inflight \ {m}
            /\ IF mine /\ drain.pc = "terminal"
               THEN FinalizeRows({i}) /\ AfterTerminal(i, m.what, m.attempt)
               ELSE UNCHANGED <<status, holds, pendingQuickDisconnects, connected, drain>>
            /\ UNCHANGED <<transferQueue, move, tabs, copy, lapses>>
  BY DEF OnCopyEnd
<1> DEFINE mine == drain.item = i /\ m.attempt = copy[i].attempt
<1>3. /\ inflight' \subseteq inflight
      /\ UNCHANGED transferQueue /\ UNCHANGED move /\ UNCHANGED tabs /\ UNCHANGED copy
      /\ UNCHANGED lapses
  BY <1>2
<1>4. CASE mine /\ drain.pc = "terminal"
  <2>1. FinalizeRows({i}) /\ AfterTerminal(i, m.what, m.attempt)
    BY <1>2, <1>4
  <2>2. PICK ask \in BOOLEAN : /\ ask <=> m.what = "conflict" /\ m.attempt = 1
                               /\ drain' = [drain EXCEPT !.pc = IF ask THEN "asking" ELSE "loop"]
    BY <2>1 DEF AfterTerminal
  <2>3. /\ \A k \in inflight' : k.what \notin Answers
        /\ \A j \in Copies : copy[j].state # "asked"
    BY <1>1, <1>3, <1>4 DEF Attempted, FlightInv, Due
  <2>4. ask => copy[i].attempt = 1
    BY <1>4, <2>2
  <2> QED
    BY <1>3, <1>4, <2>1, <2>2, <2>3, <2>4, TerminalKeeps
<1>5. CASE ~(mine /\ drain.pc = "terminal")
  <2>1. UNCHANGED status /\ UNCHANGED holds /\ UNCHANGED pendingQuickDisconnects /\
        UNCHANGED connected /\ UNCHANGED drain
    BY <1>2, <1>5
  <2>2. MoreLapses /\ DrainGoesOn /\ \A j \in Copies : SameAttempt(j) /\ RowGoesOn(j)
    BY <1>3, <2>1 DEF MoreLapses, DrainGoesOn, SameAttempt, RowGoesOn
  <2>3. Attempted'
    BY <1>1, <1>3, <2>2, AttemptedKept
  <2>4. Ledger'
    <3>1. connected' \subseteq connected /\ \A s \in connected' \ tabs' :
              s \in pendingQuickDisconnects' /\ s \in connected \ tabs
      BY <1>1, <1>3, <2>1 DEF Ledger
    <3> QED
      BY <1>1, <1>3, <2>1, <2>2, <3>1, LedgerSteady
  <2>5. QueueTypes'
    BY <1>1, <1>3, <2>1 DEF QueueTypes
  <2> QED
    BY <2>3, <2>4, <2>5 DEF BalanceInv
<1> QED
  BY <1>4, <1>5

\* The answer to a cancellation.
LEMMA CopyCancelAckKeeps ==
    ASSUME BalanceInv, NEW i \in Copies, OnCopyCancelAck(i)
    PROVE  BalanceInv'
<1>1. QueueTypes /\ Ledger /\ Attempted
  BY DEF BalanceInv
<1>2. PICK m \in inflight :
        LET ends == m.what \in {"ackCancelled", "ackUnavailable"} /\ status[i] \in Unsettled
        IN  /\ m.item = i /\ m.what \in {"ackCancelled", "ackUnavailable", "ackOther"}
            /\ inflight' = inflight \ {m}
            /\ IF ends
               THEN /\ FinalizeRows({i})
                    /\ drain' = IF drain.pc = "terminal" /\ drain.item = i
                                THEN [drain EXCEPT !.pc = "loop"] ELSE drain
               ELSE UNCHANGED <<status, holds, pendingQuickDisconnects, connected, drain>>
            /\ UNCHANGED <<transferQueue, move, tabs, copy>>
            /\ lapses' = IF ends /\ m.attempt # copy[i].attempt
                         THEN lapses \cup {"stray answer"} ELSE lapses
  BY DEF OnCopyCancelAck
<1> DEFINE ends == m.what \in {"ackCancelled", "ackUnavailable"} /\ status[i] \in Unsettled
<1>3. /\ inflight' \subseteq inflight /\ m.item = i /\ m.what \in CancelAnswers
      /\ UNCHANGED transferQueue /\ UNCHANGED move /\ UNCHANGED tabs /\ UNCHANGED copy
      /\ lapses' = IF ends /\ m.attempt # copy[i].attempt
                   THEN lapses \cup {"stray answer"} ELSE lapses
  BY <1>2 DEF CancelAnswers
<1>4. MoreLapses
  <2> HIDE DEF ends
  <2> QED
    BY <1>3 DEF MoreLapses
<1>5. CASE ends
  <2>1. FinalizeRows({i}) /\
        drain' = IF drain.pc = "terminal" /\ drain.item = i THEN [drain EXCEPT !.pc = "loop"]
                 ELSE drain
    BY <1>2, <1>5
  <2>2. {i} \in SUBSET Rows
    BY DEF Rows
  <2>3. DrainGoesOn /\ DOMAIN drain' = {"pc", "item", "batch"}
    BY <1>1, <2>1 DEF DrainGoesOn, QueueTypes
  <2>4. Due(i) => Stray'
    <3>1. Due(i) => m.attempt # copy[i].attempt
      BY <1>1, <1>3 DEF Attempted, FlightInv
    <3> QED
      BY <1>3, <1>5, <3>1 DEF Stray
  <2> QED
    BY <1>3, <1>4, <2>1, <2>2, <2>3, <2>4, FinalizingKeeps
<1>6. CASE ~ends
  <2>1. UNCHANGED status /\ UNCHANGED holds /\ UNCHANGED pendingQuickDisconnects /\
        UNCHANGED connected /\ UNCHANGED drain
    BY <1>2, <1>6
  <2>2. DrainGoesOn /\ \A j \in Copies : SameAttempt(j) /\ RowGoesOn(j)
    BY <1>3, <2>1 DEF DrainGoesOn, SameAttempt, RowGoesOn
  <2>3. Attempted'
    BY <1>1, <1>3, <1>4, <2>2, AttemptedKept
  <2>4. Ledger'
    <3>1. connected' \subseteq connected /\ \A s \in connected' \ tabs' :
              s \in pendingQuickDisconnects' /\ s \in connected \ tabs
      BY <1>1, <1>3, <2>1 DEF Ledger
    <3> QED
      BY <1>1, <1>3, <1>4, <2>1, <3>1, LedgerSteady
  <2>5. QueueTypes'
    BY <1>1, <1>3, <2>1 DEF QueueTypes
  <2> QED
    BY <2>3, <2>4, <2>5 DEF BalanceInv
<1> QED
  BY <1>5, <1>6

\* A message of the server about the current attempt of a copy.
LEMMA ServedKeeps ==
    ASSUME BalanceInv, NEW i \in Copies, NEW r, inflight' = inflight \cup {r},
           r.item = i, r.attempt = copy[i].attempt,
           UNCHANGED <<transferQueue, status, drain, move, holds, pendingQuickDisconnects,
                       tabs, connected, lapses>>,
           DOMAIN copy' = Copies, DOMAIN copy'[i] = {"state", "attempt", "cancel"},
           copy'[i].attempt = copy[i].attempt, \A j \in Copies \ {i} : copy'[j] = copy[j],
           r.what \in Answers => copy[i].state = "asked" /\ copy'[i].state # "asked",
           r.what \in CancelAnswers => copy[i].cancel,
           copy'[i].state = "asked" => copy[i].state = "asked",
           copy'[i].cancel = copy[i].cancel \/ copy'[i].cancel = FALSE
    PROVE  BalanceInv'
<1>1. QueueTypes /\ Ledger /\ Attempted
  BY DEF BalanceInv
<1>2. UNCHANGED transferQueue /\ UNCHANGED status /\ UNCHANGED drain /\ UNCHANGED move /\
      UNCHANGED holds /\ UNCHANGED pendingQuickDisconnects /\ UNCHANGED tabs /\
      UNCHANGED connected /\ UNCHANGED lapses
  OBVIOUS
<1>3. \A j \in Copies : /\ copy'[j].attempt = copy[j].attempt /\ copy[j].attempt \in Nat
                        /\ copy'[j].state = "asked" => copy[j].state = "asked"
                        /\ copy'[j].cancel = copy[j].cancel \/ copy'[j].cancel = FALSE
                        /\ DOMAIN copy'[j] = {"state", "attempt", "cancel"}
  BY <1>1 DEF QueueTypes
<1>4. \A j : Due(j)' <=> Due(j)
  BY <1>2 DEF Due
<1>5. DrainInv'
  <2>1. drain.pc \in {"ack", "asking"} => drain.item \in Copies
    BY <1>1 DEF QueueTypes
  <2>2. (drain.pc \in {"ack", "terminal"} => status[drain.item] # "absent")'
    BY <1>1, <1>2 DEF Attempted, DrainInv
  <2>3. (drain.pc = "ack" /\ ~Stray => status[drain.item] \in Unsettled)'
    BY <1>1, <1>2 DEF Attempted, DrainInv, Stray
  <2>4. (drain.pc = "ack" => copy[drain.item].cancel = FALSE)'
    BY <1>1, <1>2, <1>3, <2>1 DEF Attempted, DrainInv
  <2>5. (drain.pc = "asking" => status[drain.item] = "settled" /\ copy[drain.item].attempt = 1)'
    BY <1>1, <1>2, <1>3, <2>1 DEF Attempted, DrainInv
  <2> QED
    BY <2>2, <2>3, <2>4, <2>5 DEF DrainInv
<1>6. FirstInv'
  BY <1>1, <1>2, <1>3, <1>4 DEF Attempted, FirstInv
<1>7. r.what \in Answers => Due(i) /\ \A m \in inflight : m.what \notin Answers
  BY <1>1 DEF Attempted, FlightInv, Due
<1>8. r.what \in CancelAnswers => ~Due(i)
  BY <1>1 DEF Attempted, DrainInv, Due
<1>9. FlightInv'
  <2>1. ASSUME NEW m \in inflight
        PROVE  /\ m.item \in Copies /\ m.attempt \in Nat /\ m.attempt <= copy'[m.item].attempt
               /\ m.what \in Answers => /\ Due(m.item)' /\ m.attempt = copy'[m.item].attempt
                                        /\ copy'[m.item].state # "asked"
               /\ m.what \in CancelAnswers /\ Due(m.item)' => m.attempt # copy'[m.item].attempt
    BY <1>1, <1>3, <1>4 DEF Attempted, FlightInv
  <2>2. /\ r.item \in Copies /\ r.attempt \in Nat /\ r.attempt <= copy'[r.item].attempt
        /\ r.what \in Answers => /\ Due(r.item)' /\ r.attempt = copy'[r.item].attempt
                                 /\ copy'[r.item].state # "asked"
        /\ r.what \in CancelAnswers /\ Due(r.item)' => r.attempt # copy'[r.item].attempt
    BY <1>3, <1>4, <1>7, <1>8
  <2>3. \A m, n \in inflight' : m.what \in Answers /\ n.what \in Answers => m = n
    BY <1>1, <1>7 DEF Attempted, FlightInv
  <2>4. \A j \in Copies : copy'[j].state = "asked" => Due(j)'
    BY <1>1, <1>3, <1>4 DEF Attempted, FlightInv
  <2>5. \A m \in inflight' : m \in inflight \/ m = r
    OBVIOUS
  <2> QED
    BY <2>1, <2>2, <2>3, <2>4, <2>5 DEF FlightInv
<1>10. Ledger'
  <2>1. connected' \subseteq connected /\ MoreLapses /\ \A s \in connected' \ tabs' :
            s \in pendingQuickDisconnects' /\ s \in connected \ tabs
    BY <1>1, <1>2 DEF Ledger, MoreLapses
  <2> QED
    BY <1>1, <1>2, <2>1, LedgerSteady
<1>11. QueueTypes'
  BY <1>1, <1>2, <1>3 DEF QueueTypes
<1> QED
  BY <1>5, <1>6, <1>9, <1>10, <1>11 DEF BalanceInv, Attempted

\* The server accepts or refuses, ends the job, or answers a cancellation.
LEMMA ServeKeeps ==
    ASSUME BalanceInv, NEW i \in Copies, ServeCopy(i)
    PROVE  BalanceInv'
<1> DEFINE c == copy[i]
<1>1. QueueTypes /\ Ledger /\ Attempted
  BY DEF BalanceInv
<1>2. UNCHANGED <<transferQueue, status, drain, move, holds, pendingQuickDisconnects,
                  tabs, connected, lapses>>
  BY DEF ServeCopy
<1>3. DOMAIN copy = Copies /\ DOMAIN copy[i] = {"state", "attempt", "cancel"}
  BY <1>1 DEF QueueTypes
<1>4. \A what : /\ Reply(i, what, c.attempt).item = i /\ Reply(i, what, c.attempt).what = what
                /\ Reply(i, what, c.attempt).attempt = copy[i].attempt
  BY DEF Reply
<1>5. CASE /\ c.state = "asked"
           /\ \/ /\ copy' = [copy EXCEPT ![i].state = "running"]
                 /\ inflight' = inflight \cup {Reply(i, "accepted", c.attempt)}
              \/ /\ copy' = [copy EXCEPT ![i].state = "ended"]
                 /\ inflight' = inflight \cup {Reply(i, "refused", c.attempt)}
  <2>1. PICK what \in {"accepted", "refused"}, state \in {"running", "ended"} :
            copy' = [copy EXCEPT ![i].state = state] /\
            inflight' = inflight \cup {Reply(i, what, c.attempt)}
    BY <1>5
  <2>2. PICK r : r = Reply(i, what, c.attempt)
    OBVIOUS
  <2>3. r.item = i /\ r.what = what /\ r.attempt = copy[i].attempt /\
        inflight' = inflight \cup {r}
    BY <1>4, <2>1, <2>2
  <2>4. /\ DOMAIN copy' = Copies /\ DOMAIN copy'[i] = {"state", "attempt", "cancel"}
        /\ copy'[i].attempt = copy[i].attempt /\ copy'[i].cancel = copy[i].cancel
        /\ copy'[i].state = state /\ \A j \in Copies \ {i} : copy'[j] = copy[j]
    BY <1>3, <2>1
  <2>5. r.what \notin CancelAnswers
    BY <2>3 DEF CancelAnswers
  <2> QED
    BY <1>2, <1>5, <2>3, <2>4, <2>5, ServedKeeps
<1>6. CASE /\ c.state \in {"running", "cancelling"}
           /\ copy' = [copy EXCEPT ![i].state = "ended"]
           /\ \E end \in {"over"} \cup (IF c.attempt = 1 THEN {"conflict"} ELSE {}) :
                 inflight' = inflight \cup {Reply(i, end, c.attempt)}
  <2>1. PICK what \in {"over", "conflict"} :
            inflight' = inflight \cup {Reply(i, what, c.attempt)}
    BY <1>6
  <2>2. PICK r : r = Reply(i, what, c.attempt)
    OBVIOUS
  <2>3. r.item = i /\ r.what = what /\ r.attempt = copy[i].attempt /\
        inflight' = inflight \cup {r}
    BY <1>4, <2>1, <2>2
  <2>4. /\ DOMAIN copy' = Copies /\ DOMAIN copy'[i] = {"state", "attempt", "cancel"}
        /\ copy'[i].attempt = copy[i].attempt /\ copy'[i].cancel = copy[i].cancel
        /\ copy'[i].state = "ended" /\ \A j \in Copies \ {i} : copy'[j] = copy[j]
    BY <1>3, <1>6
  <2>5. r.what \notin CancelAnswers /\ r.what \notin Answers
    BY <2>3 DEF CancelAnswers, Answers
  <2> QED
    BY <1>2, <2>3, <2>4, <2>5, ServedKeeps
<1>7. CASE /\ c.cancel
           /\ \/ /\ copy' = [copy EXCEPT ![i].cancel = FALSE, ![i].state =
                                  IF @ = "running" THEN "cancelling" ELSE @]
                 /\ inflight' = inflight \cup {Reply(i, "ackOther", c.attempt)}
              \/ /\ copy' = [copy EXCEPT ![i].cancel = FALSE]
                 /\ inflight' = inflight \cup {Reply(i, "ackUnavailable", c.attempt)}
              \/ /\ c.state = "running"
                 /\ copy' = [copy EXCEPT ![i].cancel = FALSE, ![i].state = "ended"]
                 /\ inflight' = inflight \cup {Reply(i, "ackCancelled", c.attempt)}
  <2>1. PICK what \in CancelAnswers : inflight' = inflight \cup {Reply(i, what, c.attempt)}
    BY <1>7 DEF CancelAnswers
  <2>2. PICK r : r = Reply(i, what, c.attempt)
    OBVIOUS
  <2>3. r.item = i /\ r.what = what /\ r.attempt = copy[i].attempt /\
        inflight' = inflight \cup {r}
    BY <1>4, <2>1, <2>2
  <2>4. /\ DOMAIN copy' = Copies /\ DOMAIN copy'[i] = {"state", "attempt", "cancel"}
        /\ copy'[i].attempt = copy[i].attempt /\ copy'[i].cancel = FALSE
        /\ copy'[i].state = "asked" => copy[i].state = "asked"
        /\ \A j \in Copies \ {i} : copy'[j] = copy[j]
    BY <1>3, <1>7
  <2>5. r.what \notin Answers
    BY <2>3 DEF CancelAnswers, Answers
  <2>6. copy[i].cancel
    BY <1>7, Zenon
  <2>7. copy'[i].cancel = copy[i].cancel \/ copy'[i].cancel = FALSE
    BY <2>4, Zenon
  <2> QED
    BY <1>2, <2>3, <2>4, <2>5, <2>6, <2>7, ServedKeeps
<1> QED
  BY <1>5, <1>6, <1>7 DEF ServeCopy

----------------------------------------------------------------------------
(* The theorem.                                                            *)

\* The page starts with no rows, no holds and every connection in a tab.
LEMMA InitBalances == Init => BalanceInv
<1> SUFFICES ASSUME Init
             PROVE  BalanceInv
  OBVIOUS
<1>1. /\ status = [i \in Rows |-> "absent"] /\ holds = [s \in Quick |-> 0] /\ transferQueue = <<>>
      /\ drain = Idle /\ move = [pc |-> "idle", left |-> 0] /\ tabs = Quick /\ connected = Quick
      /\ copy = [i \in Copies |-> [state |-> "none", attempt |-> 0, cancel |-> FALSE]]
      /\ inflight = {}
  BY DEF Init
<1>2. QueueTypes
  BY <1>1 DEF QueueTypes, Statuses, Idle
<1>3. Ledger
  <2>1. ASSUME NEW s \in Quick
        PROVE  holds[s] = Cardinality(Users(status, s)) + MoveHold(s)
    <3>1. Users(status, s) = {}
      BY <1>1 DEF Users, Unsettled
    <3>2. Cardinality(Users(status, s)) = 0
      BY <3>1, FS_EmptySet
    <3>3. MoveHold(s) = 0 /\ holds[s] = 0
      BY <1>1 DEF MoveHold
    <3> QED
      BY <3>2, <3>3
  <2> QED
    BY <1>1, <2>1 DEF Ledger
<1>4. Attempted
  BY <1>1 DEF Attempted, DrainInv, FirstInv, FlightInv, Due, Idle
<1> QED
  BY <1>2, <1>3, <1>4 DEF BalanceInv

\* Every step keeps the invariant.
LEMMA NextBalances == BalanceInv /\ [Next]_vars => BalanceInv'
<1> SUFFICES ASSUME BalanceInv, [Next]_vars
             PROVE  BalanceInv'
  OBVIOUS
<1>1. CASE UNCHANGED vars
  BY <1>1, OthersKeep DEF vars, queueVars, Untouched
<1>2. CASE User
  <2>1. CASE \E s \in Quick : CloseSourceTab(s) \/ OpenWorkspaceSource(s)
    BY <2>1, TabsKeep
  <2>2. CASE StartUploadBatch
    BY <2>2, BatchKeeps
  <2>3. CASE \E t \in Transfers : DownloadFile(t) \/ DropFile(t) \/ CancelRow(t)
    BY <2>3, UploadKeeps, DropKeeps, TransferEventsKeep
  <2>4. CASE \E b \in Range(BatchOf) : ExecuteTransfer(b)
    BY <2>4, ExecuteKeeps
  <2>5. CASE \E i \in Copies : CancelCopy(i)
    BY <2>5, CancelCopyKeeps
  <2>6. CASE StartMove
    BY <2>6, StartMoveKeeps
  <2> QED
    BY <1>2, <2>1, <2>2, <2>3, <2>4, <2>5, <2>6 DEF User
<1>3. CASE System
  <2>1. CASE Queued
    BY <2>1, TimerKeeps, DrainNextKeeps, DrainEndKeeps, MovesKeep DEF Queued
  <2>2. CASE \E d \in Decisions : Answered(d)
    BY <2>2, TransferEventsKeep, AnswerCopyKeeps, MovesKeep DEF Answered
  <2>3. CASE \E t \in Transfers : Transferring(t)
    BY <2>3, UploadKeeps, TransferEventsKeep DEF Transferring
  <2>4. CASE \E i \in Copies : Copying(i)
    BY <2>4, CopyAckKeeps, CopyEndKeeps, CopyCancelAckKeeps, ServeKeeps DEF Copying
  <2> QED
    BY <1>3, <2>1, <2>2, <2>3, <2>4 DEF System
<1> QED
  BY <1>1, <1>2, <1>3 DEF Next

\* The invariant says what HoldsBalance says.
LEMMA BalanceImpliesHolds == BalanceInv => HoldsBalance
BY DEF BalanceInv, Ledger, HoldsBalance, HoldsExact, UnusedIsDisconnected, Stray, Users, MoveHold

\* Whatever uploads, downloads, copies and moves use a temporary connection, every hold
\* on it belongs to a row that has not ended or to the running move and each of those has
\* its hold, but for the stray answer of a cancellation; and a connection without a tab is
\* kept only while a transfer needs it.
THEOREM HoldsStayBalanced == Spec => []HoldsBalance
<1>1. Init => BalanceInv
  BY InitBalances
<1>2. BalanceInv /\ [Next]_vars => BalanceInv'
  BY NextBalances
<1>3. BalanceInv => HoldsBalance
  BY BalanceImpliesHolds
<1> QED
  BY <1>1, <1>2, <1>3, PTL DEF Spec

=============================================================================
