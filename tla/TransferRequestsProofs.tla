----------------------- MODULE TransferRequestsProofs -----------------------
(***************************************************************************)
(* RequestsSafe for any finite set of transfers and any requests,          *)
(* connections, users, sockets and limits.                                 *)
(*                                                                         *)
(* Most of what the registry does is done to all records at once, by       *)
(* others than the request that serves a record.  Passes says what that    *)
(* may do to one record; every operation of the registry is Passes for all *)
(* records but the one it is called for.  The ledger of holds then follows *)
(* from two facts: the pool removes exactly the holds whose record lost    *)
(* them, and only the handler that acquires adds any.                      *)
(***************************************************************************)
EXTENDS TransferRequests, FiniteSetTheorems, TLAPS

Phases == {"none", "acquiring", "created", "refused"}
Working == {"consumed", "starting", "serving", "ended"}
Places == Working \cup {"idle", "rejected", "terminal", "released", "over"}
Running == {"running", "cancelling"}
Outcomes == {"none", "completed", "failed", "cancelled"}

PrepRecord == [phase : Phases, user : Users \cup {M!NoUser}, sid : Sids \cup {M!NoSid},
               dir : Directions \cup {M!NoDirection}, need : SUBSET Conns]
RequestRecord == [pc : Places, transfer : Transfers \cup {NoTransfer},
                  endpoint : Http \cup {"server_to_server", "none"}, outcome : Outcomes]

\* One record of the registry.
RecordInv(r) ==
    /\ r \in M!Record
    /\ r.state \in M!Active => r.holds
    /\ r.holds => r.state \in M!Active \cup {"cancelled"}
    /\ r.token <=> r.state = "pending"

\* What happens to a record by an operation that is not its own request's.
Passes(r, s) ==
    /\ RecordInv(s)
    /\ s.dir = r.dir
    /\ s.state = "none" <=> r.state = "none"
    /\ s.state = "pending" => r.state = "pending"
    /\ s.state \in Running <=> r.state \in Running
    /\ r.state \in M!Terminal => s.state \in M!Terminal
    /\ s.holds => r.holds

\* A handler and the record it made.
PrepInv(p, r) ==
    /\ p.phase = "created" <=> r.state # "none"
    /\ p.phase = "created" => r.dir = p.dir

\* A request and the record whose token it consumed.
RequestInv(w, r) ==
    /\ w.pc = "idle" <=> w.transfer = NoTransfer
    /\ w.pc = "idle" => w.endpoint = "none"
    /\ w.pc = "starting" => w.endpoint \notin Http
    /\ w.pc # "idle" =>
         /\ w.endpoint \in Http <=> r.dir \in Http
         /\ w.pc \in Working => r.state \in Running
         /\ w.pc \notin Working => r.state \in M!Terminal
         /\ w.pc \in {"rejected", "released", "over"} => ~r.holds

RecordsInv == rec \in [Transfers -> M!Record] /\ \A t \in Transfers : RecordInv(rec[t])
\* The count of holds of one connection.
ConnInv(r) == r.phase = "open" => r.count = Cardinality(r.holders)
ConnsInv == conn \in [Conns -> P!Connection] /\ \A c \in Conns : ConnInv(conn[c])
PrepsInv == prep \in [Transfers -> PrepRecord] /\ \A t \in Transfers : PrepInv(prep[t], rec[t])
RequestsInv ==
    /\ req \in [Requests -> RequestRecord]
    /\ \A q \in Requests : RequestInv(req[q], rec[req[q].transfer])

\* The ledger, in both directions.
HoldsInv ==
    \A c \in Conns, t \in Transfers :
        /\ t \in conn[c].holders =>
             c \in prep[t].need /\ (rec[t].holds \/ prep[t].phase = "acquiring")
        /\ c \in prep[t].need /\ rec[t].holds => t \in conn[c].holders

\* Whoever sets request_done_event is past everything else.
DoneInv ==
    \A t \in done : \E q \in Requests : req[q].transfer = t /\ req[q].pc = "over"

\* An HTTP request that may use the pool.
UsesPool(w) == w.endpoint \in Http /\ w.pc \in {"consumed", "serving", "ended"}

ShutdownInv ==
    /\ loop # "running" => shutdown = "waited"
    /\ shutdown \in {"waiting", "waited"} =>
         ~open /\ \A q \in Requests : UsesPool(req[q]) => req[q].transfer \in waiters
    /\ shutdown = "waited" /\ ~timedOut => waiters \subseteq done

LedgerInv ==
    /\ RecordsInv /\ ConnsInv /\ PrepsInv /\ RequestsInv /\ HoldsInv
    /\ OneRequestPerToken /\ DoneInv /\ ShutdownInv

----------------------------------------------------------------------------
(* Records.                                                                *)

\* A pending record that ends returns its holds (_release_for_terminal).
LEMMA PendingEnds ==
    ASSUME NEW r, RecordInv(r), r.state = "pending", NEW target \in M!Terminal
    PROVE  /\ Passes(r, M!FinalizedRecord(r, target, TRUE, TRUE))
           /\ M!FinalizedRecord(r, target, TRUE, TRUE).user = r.user
  <1> DEFINE s == M!FinalizedRecord(r, target, TRUE, TRUE)
  <1>1. s = [r EXCEPT !.state = target, !.token = FALSE, !.cancel = TRUE, !.quota = FALSE,
                      !.holds = FALSE, !.due = FALSE, !.kept = TRUE]
    BY DEF M!FinalizedRecord
  <1> HIDE DEF s
  <1>2. /\ s \in M!Record /\ s.state = target /\ s.dir = r.dir /\ s.user = r.user
        /\ s.token = FALSE /\ s.holds = FALSE
    BY <1>1 DEF RecordInv, M!Record, M!States, M!Terminal
  <1>3. RecordInv(s)
    BY <1>2 DEF RecordInv, M!Active, M!Terminal
  <1>4. Passes(r, s)
    BY <1>2, <1>3 DEF Passes, M!Terminal, Running
  <1> QED BY <1>2, <1>4 DEF s

\* _cleanup_expired_locked touches no record that a request serves.
LEMMA SweptPasses ==
    ASSUME NEW r, RecordInv(r)
    PROVE  Passes(r, M!Swept(r)) /\ M!Swept(r).user = r.user
  <1>1. CASE r.state = "pending" /\ r.token /\ r.due
    BY <1>1, PendingEnds DEF M!Swept, M!Terminal
  <1>2. CASE ~(r.state = "pending" /\ r.token /\ r.due)
    <2> DEFINE s == M!Swept(r)
    <2>1. /\ s \in M!Record /\ s.state = r.state /\ s.dir = r.dir /\ s.user = r.user
          /\ s.token = r.token /\ s.holds = r.holds
      BY <1>2 DEF M!Swept, RecordInv, M!Record
    <2> HIDE DEF s
    <2>2. RecordInv(s)
      BY <2>1 DEF RecordInv
    <2>3. Passes(r, s)
      BY <2>1, <2>2 DEF Passes
    <2> QED BY <2>1, <2>3 DEF s
  <1> QED BY <1>1, <1>2

\* _cancel_records_locked tells a running record to stop and keeps its holds.
LEMMA CancelledPasses ==
    ASSUME NEW r, RecordInv(r)
    PROVE  Passes(r, M!CancelledRecord(r))
  <1>1. CASE r.state = "pending"
    BY <1>1, PendingEnds DEF M!CancelledRecord, M!Terminal
  <1>2. CASE r.state = "running"
    <2> DEFINE s == M!CancelledRecord(r)
    <2>1. /\ s \in M!Record /\ s.state = "cancelling" /\ s.dir = r.dir
          /\ s.token = r.token /\ s.holds = r.holds
      BY <1>2 DEF M!CancelledRecord, RecordInv, M!Record, M!States, M!Active
    <2> HIDE DEF s
    <2>2. RecordInv(s)
      BY <1>2, <2>1 DEF RecordInv, M!Active
    <2>3. Passes(r, s)
      BY <1>2, <2>1, <2>2 DEF Passes, Running, M!Terminal
    <2> QED BY <2>3 DEF s
  <1>3. CASE r.state \notin {"pending", "running"}
    BY <1>3 DEF M!CancelledRecord, Passes
  <1> QED BY <1>1, <1>2, <1>3

\* Two operations of others in a row.
LEMMA PassesTwice ==
    ASSUME NEW r, NEW s, NEW w, Passes(r, s), Passes(s, w)
    PROVE  Passes(r, w)
  BY DEF Passes

\* Every record after the sweep that each operation begins with.
LEMMA SweepPasses ==
    ASSUME RecordsInv
    PROVE  /\ M!SweptRecords \in [Transfers -> M!Record]
           /\ \A t \in Transfers : /\ M!SweptRecords[t] = M!Swept(rec[t])
                                   /\ Passes(rec[t], M!SweptRecords[t])
                                   /\ RecordInv(M!SweptRecords[t])
                                   /\ M!SweptRecords[t].user = rec[t].user
  <1>1. \A t \in Transfers : M!SweptRecords[t] = M!Swept(rec[t])
    BY DEF M!SweptRecords
  <1>2. \A t \in Transfers : Passes(rec[t], M!Swept(rec[t])) /\ M!Swept(rec[t]).user = rec[t].user
    BY SweptPasses DEF RecordsInv
  <1>3. \A t \in Transfers : RecordInv(M!Swept(rec[t])) /\ M!Swept(rec[t]) \in M!Record
    BY <1>2 DEF Passes, RecordInv
  <1> QED BY <1>1, <1>2, <1>3 DEF M!SweptRecords

\* What a finished _transition leaves (complete, fail, finish_cancelled).
LEMMA TransitionStep ==
    ASSUME RecordsInv, NEW t \in Transfers, NEW u, NEW allowed, allowed \subseteq M!Active,
           NEW target \in M!Terminal, M!Transition(t, u, allowed, target)
    PROVE  /\ RecordsInv' /\ open' = open
           /\ \A x \in Transfers \ {t} : Passes(rec[x], rec'[x])
           /\ rec'[t].state = target /\ rec'[t].dir = rec[t].dir
           /\ rec'[t].holds => rec[t].holds
           /\ target # "cancelled" => ~rec'[t].holds
           /\ rec[t].state # "none"
  <1> DEFINE f == M!SweptRecords
             rel == ~(target = "cancelled" /\ f[t].state \in {"running", "cancelling"})
             s == M!FinalizedRecord(f[t], target, target = "cancelled", rel)
  <1>1. /\ f[t].state \in allowed /\ rec' = [f EXCEPT ![t] = s] /\ open' = open
    BY DEF M!Transition
  <1>2. /\ f \in [Transfers -> M!Record]
        /\ \A x \in Transfers : Passes(rec[x], f[x]) /\ RecordInv(f[x])
    BY SweepPasses
  <1>3. /\ s \in M!Record /\ s.state = target /\ s.dir = f[t].dir
        /\ s.token = FALSE /\ (rel => ~s.holds) /\ (s.holds => f[t].holds)
    <2> DEFINE r == f[t]
    <2>1. r \in M!Record
      BY <1>2
    <2> HIDE DEF r, rel
    <2> DEFINE c == r.cancel \/ target = "cancelled"
               h == r.holds /\ ~rel
    <2>2. c \in BOOLEAN /\ h \in BOOLEAN
      OBVIOUS
    <2>3. s = [r EXCEPT !.state = target, !.token = FALSE, !.cancel = c, !.quota = FALSE,
                        !.holds = h, !.due = FALSE, !.kept = TRUE]
      BY DEF M!FinalizedRecord, r
    <2>4. h => r.holds /\ ~rel
      OBVIOUS
    <2> HIDE DEF s, c, h
    <2>5. s \in M!Record
      <3>1. target \in M!States
        BY DEF M!States, M!Terminal
      <3> HIDE DEF M!States
      <3>2. s = [r EXCEPT !.state = target, !.token = FALSE, !.cancel = c, !.quota = FALSE,
                          !.holds = h, !.due = FALSE, !.kept = TRUE]
        BY <2>3
      <3> QED BY <2>1, <2>2, <3>1, <3>2 DEF M!Record
    <2>6. s.state = target /\ s.dir = r.dir /\ s.token = FALSE /\ s.holds = h
      BY <2>1, <2>3 DEF M!Record
    <2> QED BY <2>4, <2>5, <2>6 DEF r
  <1>4. rel \/ target = "cancelled"
    OBVIOUS
  <1> HIDE DEF s, rel, f
  <1>5. RecordInv(s)
    BY <1>2, <1>3, <1>4 DEF RecordInv, M!Active, M!Terminal
  <1>6. rec' \in [Transfers -> M!Record] /\ rec'[t] = s /\ \A x \in Transfers \ {t} : rec'[x] = f[x]
    BY <1>1, <1>2, <1>3
  <1>7. RecordsInv'
    BY <1>2, <1>5, <1>6 DEF RecordsInv
  <1>8. s.dir = rec[t].dir /\ (s.holds => rec[t].holds) /\ rec[t].state # "none"
    BY <1>1, <1>2, <1>3 DEF Passes, M!Active
  <1> QED BY <1>1, <1>2, <1>3, <1>4, <1>6, <1>7, <1>8

\* consume_token turns a pending record into a running one, which nobody serves.
LEMMA ConsumeStep ==
    ASSUME RecordsInv, NEW t \in Transfers, NEW u, M!ConsumeToken(t, u)
    PROVE  /\ RecordsInv' /\ open /\ open' = open
           /\ \A x \in Transfers \ {t} : Passes(rec[x], rec'[x])
           /\ rec[t].state = "pending" /\ rec'[t].state = "running"
           /\ rec'[t].dir = rec[t].dir /\ rec[t].holds /\ rec'[t].holds
  <1> DEFINE f == M!SweptRecords
             s == [f[t] EXCEPT !.state = "running", !.token = FALSE]
  <1>1. /\ open /\ open' = open /\ f[t].state = "pending"
        /\ rec' = [f EXCEPT ![t].state = "running", ![t].token = FALSE]
    BY DEF M!ConsumeToken
  <1>2. /\ f \in [Transfers -> M!Record]
        /\ \A x \in Transfers : Passes(rec[x], f[x]) /\ RecordInv(f[x])
    BY SweepPasses
  <1> HIDE DEF f
  <1>3. rec' = [f EXCEPT ![t] = s]
    BY <1>1, <1>2
  <1>4. /\ s \in M!Record /\ s.state = "running" /\ s.dir = f[t].dir
        /\ s.token = FALSE /\ s.holds = f[t].holds
    BY <1>2 DEF M!Record, M!States, M!Active
  <1> HIDE DEF s
  <1>5. f[t].holds
    BY <1>1, <1>2 DEF RecordInv, M!Active
  <1>6. RecordInv(s)
    BY <1>4, <1>5 DEF RecordInv, M!Active
  <1>7. rec' \in [Transfers -> M!Record] /\ rec'[t] = s /\ \A x \in Transfers \ {t} : rec'[x] = f[x]
    BY <1>2, <1>3, <1>4
  <1>8. RecordsInv'
    BY <1>2, <1>6, <1>7 DEF RecordsInv
  <1>9. rec[t].state = "pending" /\ rec[t].dir = f[t].dir /\ rec[t].holds
    BY <1>1, <1>2, <1>5 DEF Passes
  <1> QED BY <1>1, <1>2, <1>4, <1>5, <1>7, <1>8, <1>9

----------------------------------------------------------------------------
(* Connections.                                                            *)

\* SourceHoldSet.release removes exactly the holds it is given and keeps the
\* count right.
LEMMA ReturnedConnections ==
    ASSUME ConnsInv, NEW S, S \subseteq Transfers, conn' = Returned(S)
    PROVE  ConnsInv' /\ \A c \in Conns : conn'[c].holders = conn[c].holders \ S
  <1> SUFFICES ASSUME NEW c \in Conns
               PROVE  /\ conn'[c] \in P!Connection
                      /\ conn'[c].holders = conn[c].holders \ S
                      /\ conn'[c].phase = "open" => conn'[c].count = Cardinality(conn'[c].holders)
    BY DEF ConnsInv, ConnInv, Returned
  <1> DEFINE r == conn[c]
             gone == S \cap r.holders
             left == r.count - Cardinality(gone)
             s == ReturnedConnection(r, S)
  <1>1. r \in P!Connection /\ (r.phase = "open" => r.count = Cardinality(r.holders))
    BY DEF ConnsInv, ConnInv
  <1>2. conn'[c] = s
    BY DEF Returned
  <1>3. IsFiniteSet(r.holders) /\ IsFiniteSet(gone) /\ Cardinality(gone) \in Nat
    <2>1. r.holders \subseteq Transfers
      BY <1>1 DEF P!Connection
    <2>2. IsFiniteSet(r.holders) /\ IsFiniteSet(gone)
      BY <2>1, RequestsAssumption, FS_Subset
    <2> QED BY <2>2, FS_CardinalityType
  <1>4. /\ r.holders \ gone = r.holders \ S
        /\ Cardinality(r.holders \ gone) \in Nat
        /\ Cardinality(r.holders \ gone) = Cardinality(r.holders) - Cardinality(gone)
    <2>1. r.holders \ gone = r.holders \ S /\ r.holders \cap gone = gone
      OBVIOUS
    <2>2. Cardinality(r.holders \ gone) = Cardinality(r.holders) - Cardinality(r.holders \cap gone)
      BY <1>3, FS_Difference
    <2>3. IsFiniteSet(r.holders \ gone)
      BY <1>3, FS_Subset
    <2> QED BY <2>1, <2>2, <2>3, FS_CardinalityType
  <1>5. r.phase \in P!Phases /\ r.count \in Nat /\ (r.holders \ gone) \in SUBSET Transfers
    BY <1>1 DEF P!Connection
  <1>6. CASE r.phase = "open" /\ gone # {}
    <2> DEFINE phase == IF left = 0 /\ r.closeReq THEN "detached" ELSE "open"
    <2>1. s = [r EXCEPT !.count = left, !.holders = r.holders \ gone, !.phase = phase]
      BY <1>6 DEF ReturnedConnection
    <2>2. left \in Nat /\ left = Cardinality(r.holders \ gone) /\ phase \in P!Phases
      BY <1>1, <1>4, <1>6 DEF P!Phases
    <2> HIDE DEF s, left, phase, gone, P!Phases
    <2>3. s \in P!Connection /\ s.holders = r.holders \ gone /\ s.count = left
      BY <1>1, <1>5, <2>1, <2>2 DEF P!Connection
    <2> QED BY <1>2, <1>4, <2>2, <2>3
  <1>7. CASE ~(r.phase = "open" /\ gone # {})
    <2>1. s = [r EXCEPT !.holders = r.holders \ gone]
      BY <1>7 DEF ReturnedConnection
    <2>2. r.phase = "open" => r.holders \ gone = r.holders
      BY <1>7
    <2> HIDE DEF s, left, gone, P!Phases
    <2>3. s \in P!Connection /\ s.holders = r.holders \ gone /\ s.count = r.count /\ s.phase = r.phase
      BY <1>1, <1>5, <2>1 DEF P!Connection
    <2> QED BY <1>1, <1>2, <1>4, <2>2, <2>3
  <1> QED BY <1>6, <1>7

\* When the pool follows the registry, the ledger stays balanced as long as no
\* record is given holds.
LEMMA LedgerFollows ==
    ASSUME LedgerInv, FollowManager, prep' = prep,
           \A t \in Transfers : rec'[t].holds => rec[t].holds
    PROVE  ConnsInv' /\ HoldsInv'
  <1> DEFINE S == {t \in Transfers : rec[t].holds /\ ~rec'[t].holds}
  <1>1. ConnsInv' /\ \A c \in Conns : conn'[c].holders = conn[c].holders \ S
    BY ReturnedConnections DEF LedgerInv, FollowManager
  <1>2. HoldsInv'
    BY <1>1 DEF LedgerInv, HoldsInv
  <1> QED BY <1>1, <1>2

\* Others leave what a handler and a request know of their records true.
LEMMA OthersPass ==
    ASSUME LedgerInv, \A t \in Transfers : Passes(rec[t], rec'[t]), prep' = prep, req' = req
    PROVE  PrepsInv' /\ RequestsInv' /\ OneRequestPerToken'
  <1>1. PrepsInv'
    BY DEF LedgerInv, PrepsInv, PrepInv, Passes
  <1>2. ASSUME NEW q \in Requests PROVE RequestInv(req[q], rec'[req[q].transfer])
    <2>1. RequestInv(req[q], rec[req[q].transfer]) /\ req[q] \in RequestRecord
      BY DEF LedgerInv, RequestsInv
    <2>2. req[q].pc # "idle" => req[q].transfer \in Transfers
      BY <2>1 DEF RequestInv, RequestRecord
    <2> QED BY <2>1, <2>2 DEF RequestInv, Passes
  <1>3. RequestsInv' /\ OneRequestPerToken'
    BY <1>2 DEF LedgerInv, RequestsInv, OneRequestPerToken
  <1> QED BY <1>1, <1>3

\* A request that goes on with its own record.
LEMMA RequestMoves ==
    ASSUME LedgerInv, NEW q \in Requests, NEW w \in RequestRecord, req' = [req EXCEPT ![q] = w],
           prep' = prep, req[q].pc \notin {"idle", "over"}, w.pc # "idle",
           w.transfer = req[q].transfer, w.endpoint = req[q].endpoint,
           UsesPool(w) => UsesPool(req[q]),
           \A x \in Transfers \ {w.transfer} : Passes(rec[x], rec'[x]),
           RequestInv(w, rec'[w.transfer]),
           rec'[w.transfer].dir = rec[w.transfer].dir
    PROVE  /\ PrepsInv' /\ RequestsInv' /\ OneRequestPerToken'
           /\ \A x \in done : \E p \in Requests : req'[p].transfer = x /\ req'[p].pc = "over"
           /\ \A p \in Requests : UsesPool(req'[p]) =>
                 UsesPool(req[p]) /\ req'[p].transfer = req[p].transfer
  <1> DEFINE t == w.transfer
  <1>1. /\ req \in [Requests -> RequestRecord] /\ req'[q] = w
        /\ \A p \in Requests \ {q} : req'[p] = req[p]
    BY DEF LedgerInv, RequestsInv
  <1>2. t \in Transfers /\ t # NoTransfer
    BY <1>1, RequestsAssumption DEF LedgerInv, RequestsInv, RequestInv, RequestRecord
  <1>3. rec[t].state # "none" /\ rec'[t].state # "none"
    <2>1. RequestInv(req[q], rec[t])
      BY DEF LedgerInv, RequestsInv
    <2> QED BY <2>1 DEF RequestInv, M!Terminal, Running
  <1>4. PrepsInv'
    BY <1>2, <1>3 DEF LedgerInv, PrepsInv, PrepInv, Passes
  <1>5. OneRequestPerToken'
    BY <1>1 DEF LedgerInv, OneRequestPerToken
  <1>6. ASSUME NEW p \in Requests PROVE RequestInv(req'[p], rec'[req'[p].transfer])
    <2>1. CASE p = q
      BY <1>1, <2>1
    <2>2. CASE p # q
      <3>1. RequestInv(req[p], rec[req[p].transfer]) /\ req'[p] = req[p] /\ req[p] \in RequestRecord
        BY <1>1, <2>2 DEF LedgerInv, RequestsInv
      <3>2. req[p].transfer # t
        BY <1>2, <2>2 DEF LedgerInv, OneRequestPerToken
      <3>3. req[p].pc # "idle" => req[p].transfer \in Transfers \ {t}
        BY <3>1, <3>2 DEF RequestInv, RequestRecord
      <3> QED BY <3>1, <3>3 DEF RequestInv, Passes
    <2> QED BY <2>1, <2>2
  <1>7. RequestsInv'
    BY <1>1, <1>6 DEF RequestsInv
  <1>8. \A x \in done : \E p \in Requests : req'[p].transfer = x /\ req'[p].pc = "over"
    BY <1>1 DEF LedgerInv, DoneInv
  <1> QED BY <1>1, <1>4, <1>5, <1>7, <1>8

\* Shutdown is not concerned by who goes on or ends.
LEMMA ShutdownStays ==
    ASSUME LedgerInv, loop' = loop, shutdown' = shutdown, open' = open, waiters' = waiters,
           timedOut' = timedOut, done \subseteq done',
           \A p \in Requests : UsesPool(req'[p]) => UsesPool(req[p]) /\ req'[p].transfer = req[p].transfer
    PROVE  ShutdownInv'
  BY DEF LedgerInv, ShutdownInv

\* An operation of the registry that is nobody's in particular.
LEMMA OthersStep ==
    ASSUME LedgerInv, RecordsInv', \A t \in Transfers : Passes(rec[t], rec'[t]),
           FollowManager, open' = open,
           prep' = prep, req' = req, done' = done, shutdown' = shutdown, waiters' = waiters,
           timedOut' = timedOut
    PROVE  LedgerInv'
  <1>1. ConnsInv' /\ HoldsInv'
    BY LedgerFollows DEF Passes
  <1>2. PrepsInv' /\ RequestsInv' /\ OneRequestPerToken'
    BY OthersPass
  <1>3. DoneInv'
    BY DEF LedgerInv, DoneInv
  <1>4. ShutdownInv'
    BY DEF LedgerInv, ShutdownInv, FollowManager
  <1> QED BY <1>1, <1>2, <1>3, <1>4 DEF LedgerInv

\* An operation of the registry by the request that consumed the token.
LEMMA OwnStep ==
    ASSUME LedgerInv, RecordsInv', FollowManager, open' = open,
           NEW q \in Requests, NEW w \in RequestRecord, req' = [req EXCEPT ![q] = w],
           req[q].pc \notin {"idle", "over"}, w.pc # "idle",
           w.transfer = req[q].transfer, w.endpoint = req[q].endpoint,
           UsesPool(w) => UsesPool(req[q]),
           \A x \in Transfers \ {w.transfer} : Passes(rec[x], rec'[x]),
           RequestInv(w, rec'[w.transfer]),
           rec'[w.transfer].dir = rec[w.transfer].dir,
           rec'[w.transfer].holds => rec[w.transfer].holds,
           prep' = prep, shutdown' = shutdown, waiters' = waiters, timedOut' = timedOut,
           done' = done
    PROVE  LedgerInv'
  <1>1. /\ PrepsInv' /\ RequestsInv' /\ OneRequestPerToken'
        /\ \A x \in done : \E p \in Requests : req'[p].transfer = x /\ req'[p].pc = "over"
        /\ \A p \in Requests : UsesPool(req'[p]) =>
              UsesPool(req[p]) /\ req'[p].transfer = req[p].transfer
    BY RequestMoves
  <1>2. \A x \in Transfers : rec'[x].holds => rec[x].holds
    BY DEF Passes
  <1>3. ConnsInv' /\ HoldsInv'
    BY <1>2, LedgerFollows
  <1>4. DoneInv'
    BY <1>1 DEF DoneInv
  <1>5. ShutdownInv'
    BY <1>1, ShutdownStays DEF FollowManager
  <1> QED BY <1>1, <1>3, <1>4, <1>5 DEF LedgerInv

\* A request that goes on without the registry.
LEMMA QuietStep ==
    ASSUME LedgerInv, NEW q \in Requests, NEW w \in RequestRecord, req' = [req EXCEPT ![q] = w],
           req[q].pc \notin {"idle", "over"}, w.pc # "idle",
           w.transfer = req[q].transfer, w.endpoint = req[q].endpoint,
           UsesPool(w) => UsesPool(req[q]),
           RequestInv(w, rec[w.transfer]),
           UNCHANGED <<mgr, pool, prep, shutdown, waiters, timedOut>>,
           done' = done \/ (done' = done \cup {w.transfer} /\ w.pc = "over")
    PROVE  LedgerInv'
  <1>1. \A x \in Transfers : Passes(rec[x], rec'[x])
    BY DEF LedgerInv, RecordsInv, Passes, mgr
  <1>2. rec' = rec /\ conn' = conn /\ loop' = loop /\ open' = open
    BY DEF mgr, pool
  <1>3. /\ PrepsInv' /\ RequestsInv' /\ OneRequestPerToken'
        /\ \A x \in done : \E p \in Requests : req'[p].transfer = x /\ req'[p].pc = "over"
        /\ \A p \in Requests : UsesPool(req'[p]) =>
              UsesPool(req[p]) /\ req'[p].transfer = req[p].transfer
    BY <1>1, <1>2, RequestMoves
  <1>4. req'[q] = w
    BY DEF LedgerInv, RequestsInv
  <1>5. DoneInv'
    BY <1>3, <1>4 DEF DoneInv
  <1>6. ShutdownInv'
    BY <1>2, <1>3, ShutdownStays
  <1>7. RecordsInv' /\ ConnsInv' /\ HoldsInv'
    BY <1>2 DEF LedgerInv, RecordsInv, ConnsInv, HoldsInv
  <1> QED BY <1>3, <1>5, <1>6, <1>7 DEF LedgerInv

----------------------------------------------------------------------------
(* Preparation.                                                            *)

\* A new request holds nothing yet (prepare_transfer).
LEMMA BeginPrepareKeeps ==
    ASSUME LedgerInv, NEW t \in Transfers, NEW u \in Users, NEW s \in Sids, NEW d \in Directions,
           NEW need \in SUBSET Conns, BeginPrepare(t, u, s, d, need)
    PROVE  LedgerInv'
  <1> DEFINE p == [phase |-> "acquiring", user |-> u, sid |-> s, dir |-> d, need |-> need]
  <1>1. /\ prep[t].phase = "none" /\ prep' = [prep EXCEPT ![t] = p]
        /\ rec' = rec /\ open' = open /\ conn' = conn /\ loop' = loop /\ req' = req /\ done' = done
        /\ shutdown' = shutdown /\ waiters' = waiters /\ timedOut' = timedOut
    BY DEF BeginPrepare, mgr, pool
  <1>2. p \in PrepRecord /\ p.phase = "acquiring" /\ p.need = need
    BY DEF PrepRecord, Phases
  <1> HIDE DEF p
  <1>3. /\ prep' \in [Transfers -> PrepRecord] /\ prep'[t] = p
        /\ \A x \in Transfers \ {t} : prep'[x] = prep[x]
    BY <1>1, <1>2 DEF LedgerInv, PrepsInv
  <1>4. rec[t].state = "none" /\ ~rec[t].holds
    BY <1>1 DEF LedgerInv, PrepsInv, PrepInv, RecordsInv, RecordInv, M!Active
  <1>5. \A c \in Conns : t \notin conn[c].holders
    BY <1>1, <1>4 DEF LedgerInv, HoldsInv
  <1>6. PrepsInv'
    BY <1>1, <1>2, <1>3, <1>4 DEF LedgerInv, PrepsInv, PrepInv
  <1>7. HoldsInv'
    BY <1>1, <1>3, <1>4, <1>5 DEF LedgerInv, HoldsInv
  <1>8. RecordsInv' /\ ConnsInv' /\ RequestsInv' /\ OneRequestPerToken' /\ DoneInv' /\ ShutdownInv'
    BY <1>1 DEF LedgerInv, RecordsInv, ConnsInv, RequestsInv, OneRequestPerToken, DoneInv, ShutdownInv
  <1> QED BY <1>6, <1>7, <1>8 DEF LedgerInv

\* One more hold for the handler (acquire_transfer_holds).
LEMMA AcquireNextKeeps ==
    ASSUME LedgerInv, NEW t \in Transfers, AcquireNext(t)
    PROVE  LedgerInv'
  <1>1. PICK c \in prep[t].need : P!AcquireHold(c, t, prep[t].user)
    BY DEF AcquireNext
  <1>2. c \in Conns
    BY DEF LedgerInv, PrepsInv, PrepRecord
  <1> DEFINE r == conn[c]
             s == [r EXCEPT !.count = r.count + 1, !.holders = r.holders \cup {t}]
  <1>3. r \in P!Connection /\ ConnInv(r) /\ r.phase = "open" /\ t \notin r.holders
    BY <1>1, <1>2 DEF LedgerInv, ConnsInv, P!AcquireHold
  <1>4. /\ prep[t].phase = "acquiring"
        /\ rec' = rec /\ open' = open /\ loop' = loop /\ prep' = prep /\ req' = req /\ done' = done
        /\ shutdown' = shutdown /\ waiters' = waiters /\ timedOut' = timedOut
    BY <1>1 DEF AcquireNext, P!AcquireHold, mgr, rest
  <1>5. conn' = [conn EXCEPT ![c] = s]
    BY <1>1, <1>2 DEF P!AcquireHold, LedgerInv, ConnsInv
  <1>6. /\ s \in P!Connection /\ s.holders = r.holders \cup {t} /\ s.count = r.count + 1
    <2>1. r.count \in Nat /\ r.holders \in SUBSET Transfers
      BY <1>3 DEF P!Connection
    <2>2. r.count + 1 \in Nat /\ r.holders \cup {t} \in SUBSET Transfers
      BY <2>1
    <2> HIDE DEF r
    <2> QED BY <1>3, <2>2 DEF P!Connection
  <1>7. s.count = Cardinality(s.holders)
    <2>1. r.holders \subseteq Transfers
      BY <1>3 DEF P!Connection
    <2>2. IsFiniteSet(r.holders)
      BY <2>1, RequestsAssumption, FS_Subset
    <2>3. Cardinality(r.holders \cup {t}) = Cardinality(r.holders) + 1
      BY <1>3, <2>2, FS_AddElement
    <2> QED BY <1>3, <1>6, <2>3 DEF ConnInv
  <1> HIDE DEF s
  <1>8. /\ conn' \in [Conns -> P!Connection] /\ conn'[c] = s
        /\ \A x \in Conns \ {c} : conn'[x] = conn[x]
    BY <1>2, <1>5, <1>6 DEF LedgerInv, ConnsInv
  <1>9. ConnsInv'
    BY <1>7, <1>8 DEF LedgerInv, ConnsInv, ConnInv
  <1>10. ~rec[t].holds
    BY <1>4 DEF LedgerInv, PrepsInv, PrepInv, RecordsInv, RecordInv, M!Active
  <1>11. HoldsInv'
    BY <1>1, <1>4, <1>6, <1>8, <1>10 DEF LedgerInv, HoldsInv
  <1>12. RecordsInv' /\ PrepsInv' /\ RequestsInv' /\ OneRequestPerToken' /\ DoneInv' /\ ShutdownInv'
    BY <1>4 DEF LedgerInv, RecordsInv, PrepsInv, RequestsInv, OneRequestPerToken, DoneInv, ShutdownInv
  <1> QED BY <1>9, <1>11, <1>12 DEF LedgerInv

\* A refusal changes the phase of its own handler only.
LEMMA RefusedPrep ==
    ASSUME LedgerInv, NEW t \in Transfers, prep[t].phase = "acquiring",
           prep' = [prep EXCEPT ![t].phase = "refused"]
    PROVE  /\ prep' \in [Transfers -> PrepRecord]
           /\ prep'[t].phase = "refused" /\ prep'[t].need = prep[t].need /\ prep'[t].dir = prep[t].dir
           /\ \A x \in Transfers \ {t} : prep'[x] = prep[x]
           /\ rec[t].state = "none" /\ ~rec[t].holds
  <1>1. prep \in [Transfers -> PrepRecord]
    BY DEF LedgerInv, PrepsInv
  <1>2. prep' \in [Transfers -> PrepRecord]
    BY <1>1 DEF PrepRecord, Phases
  <1>3. /\ prep'[t].phase = "refused" /\ prep'[t].need = prep[t].need /\ prep'[t].dir = prep[t].dir
        /\ \A x \in Transfers \ {t} : prep'[x] = prep[x]
    BY <1>1 DEF PrepRecord
  <1>4. rec[t].state = "none" /\ ~rec[t].holds
    BY DEF LedgerInv, PrepsInv, PrepInv, RecordsInv, RecordInv, M!Active
  <1> QED BY <1>2, <1>3, <1>4

\* A source that cannot be held: the others are given back
\* (acquire_transfer_holds).
LEMMA AcquireFailsKeeps ==
    ASSUME LedgerInv, NEW t \in Transfers, AcquireFails(t)
    PROVE  LedgerInv'
  <1>1. /\ prep[t].phase = "acquiring" /\ prep' = [prep EXCEPT ![t].phase = "refused"]
        /\ conn' = Returned({t})
        /\ rec' = rec /\ open' = open /\ loop' = loop /\ req' = req /\ done' = done
        /\ shutdown' = shutdown /\ waiters' = waiters /\ timedOut' = timedOut
    BY DEF AcquireFails, mgr
  <1>2. /\ prep' \in [Transfers -> PrepRecord]
        /\ prep'[t].phase = "refused" /\ prep'[t].need = prep[t].need
        /\ \A x \in Transfers \ {t} : prep'[x] = prep[x]
        /\ rec[t].state = "none" /\ ~rec[t].holds
    BY <1>1, RefusedPrep
  <1>3. ConnsInv' /\ \A c \in Conns : conn'[c].holders = conn[c].holders \ {t}
    BY <1>1, ReturnedConnections DEF LedgerInv
  <1>4. HoldsInv'
    BY <1>1, <1>2, <1>3 DEF LedgerInv, HoldsInv
  <1>5. PrepsInv'
    BY <1>1, <1>2 DEF LedgerInv, PrepsInv, PrepInv
  <1>6. RecordsInv' /\ RequestsInv' /\ OneRequestPerToken' /\ DoneInv' /\ ShutdownInv'
    BY <1>1 DEF LedgerInv, RecordsInv, RequestsInv, OneRequestPerToken, DoneInv, ShutdownInv
  <1> QED BY <1>3, <1>4, <1>5, <1>6 DEF LedgerInv

\* create raises: its except clause gives the holds back.
LEMMA CreateRefusedKeeps ==
    ASSUME LedgerInv, NEW t \in Transfers, CreateRefused(t)
    PROVE  LedgerInv'
  <1> DEFINE S == {t} \cup {x \in Transfers : rec[x].holds /\ ~rec'[x].holds}
  <1>1. /\ prep[t].phase = "acquiring" /\ prep' = [prep EXCEPT ![t].phase = "refused"]
        /\ conn' = Returned(S)
        /\ loop' = loop /\ req' = req /\ done' = done
        /\ shutdown' = shutdown /\ waiters' = waiters /\ timedOut' = timedOut
    BY DEF CreateRefused
  <1>2. /\ prep' \in [Transfers -> PrepRecord]
        /\ prep'[t].phase = "refused" /\ prep'[t].need = prep[t].need
        /\ \A x \in Transfers \ {t} : prep'[x] = prep[x]
        /\ rec[t].state = "none" /\ ~rec[t].holds
    BY <1>1, RefusedPrep
  <1>3. RecordsInv' /\ open' = open /\ \A x \in Transfers : Passes(rec[x], rec'[x])
    <2>1. RecordsInv
      BY DEF LedgerInv
    <2>2. CASE open
      <3>1. rec' = M!SweptRecords /\ open' = open
        BY <2>2 DEF CreateRefused, M!CleanupExpired
      <3> QED BY <2>1, <3>1, SweepPasses DEF RecordsInv
    <2>3. CASE ~open
      <3>1. rec' = rec /\ open' = open
        BY <2>3 DEF CreateRefused, mgr
      <3> QED BY <2>1, <3>1 DEF RecordsInv, Passes
    <2> QED BY <2>2, <2>3
  <1>4. ConnsInv' /\ \A c \in Conns : conn'[c].holders = conn[c].holders \ S
    BY <1>1, ReturnedConnections DEF LedgerInv
  <1>5. ~rec'[t].holds /\ rec'[t].state = "none" /\ \A x \in Transfers : rec'[x].holds => rec[x].holds
    BY <1>2, <1>3 DEF Passes
  <1>6. HoldsInv'
    BY <1>1, <1>2, <1>4, <1>5 DEF LedgerInv, HoldsInv
  <1>7. PrepsInv'
    BY <1>2, <1>3, <1>5 DEF LedgerInv, PrepsInv, PrepInv, Passes
  <1>8. ASSUME NEW q \in Requests PROVE RequestInv(req[q], rec'[req[q].transfer])
    <2>1. RequestInv(req[q], rec[req[q].transfer]) /\ req[q] \in RequestRecord
      BY DEF LedgerInv, RequestsInv
    <2>2. req[q].pc # "idle" => req[q].transfer \in Transfers
      BY <2>1 DEF RequestInv, RequestRecord
    <2> QED BY <1>3, <2>1, <2>2 DEF RequestInv, Passes
  <1>9. RequestsInv' /\ OneRequestPerToken' /\ DoneInv' /\ ShutdownInv'
    BY <1>1, <1>3, <1>8 DEF LedgerInv, RequestsInv, OneRequestPerToken, DoneInv, ShutdownInv
  <1> QED BY <1>3, <1>4, <1>6, <1>7, <1>9 DEF LedgerInv

\* create: the holds of the handler become the record's.
LEMMA CreateTransferKeeps ==
    ASSUME LedgerInv, NEW t \in Transfers, CreateTransfer(t)
    PROVE  LedgerInv'
  <1> DEFINE f == M!SweptRecords
             n == M!NewRecord(prep[t].user, prep[t].sid, prep[t].dir)
             S == {x \in Transfers : rec[x].holds /\ ~rec'[x].holds}
  <1>1. /\ prep[t].phase = "acquiring" /\ prep' = [prep EXCEPT ![t].phase = "created"]
        /\ \A c \in prep[t].need : t \in conn[c].holders
        /\ rec' = [f EXCEPT ![t] = n] /\ open' = open
        /\ conn' = Returned(S)
        /\ loop' = loop /\ req' = req /\ done' = done
        /\ shutdown' = shutdown /\ waiters' = waiters /\ timedOut' = timedOut
    BY DEF CreateTransfer, FollowManager, M!Create
  <1>2. prep \in [Transfers -> PrepRecord]
    BY DEF LedgerInv, PrepsInv
  <1>3. /\ prep' \in [Transfers -> PrepRecord]
        /\ prep'[t].phase = "created" /\ prep'[t].need = prep[t].need /\ prep'[t].dir = prep[t].dir
        /\ \A x \in Transfers \ {t} : prep'[x] = prep[x]
    BY <1>1, <1>2 DEF PrepRecord, Phases
  <1>4. rec[t].state = "none" /\ ~rec[t].holds
    BY <1>1 DEF LedgerInv, PrepsInv, PrepInv, RecordsInv, RecordInv, M!Active
  <1>5. /\ n \in M!Record /\ n.state = "pending" /\ n.dir = prep[t].dir
        /\ n.token = TRUE /\ n.holds = TRUE
    <2>1. prep[t].user \in Users \cup {M!NoUser} /\ prep[t].sid \in Sids \cup {M!NoSid}
          /\ prep[t].dir \in Directions \cup {M!NoDirection}
      BY <1>2 DEF PrepRecord
    <2>2. M!NotCreated \in M!Record
      BY DEF M!NotCreated, M!Record, M!States
    <2>3. "pending" \in M!States
      BY DEF M!States, M!Active
    <2>4. n = [M!NotCreated EXCEPT !.state = "pending", !.user = prep[t].user, !.sid = prep[t].sid,
                                   !.dir = prep[t].dir, !.token = TRUE, !.quota = TRUE, !.holds = TRUE]
      BY DEF M!NewRecord
    <2> HIDE DEF n
    <2> QED BY <2>1, <2>2, <2>3, <2>4 DEF M!Record
  <1>6. f \in [Transfers -> M!Record] /\ \A x \in Transfers : Passes(rec[x], f[x]) /\ RecordInv(f[x])
    BY SweepPasses DEF LedgerInv
  <1> HIDE DEF f, n
  <1>7. /\ rec' \in [Transfers -> M!Record] /\ rec'[t] = n
        /\ \A x \in Transfers \ {t} : rec'[x] = f[x] /\ Passes(rec[x], rec'[x])
    BY <1>1, <1>5, <1>6
  <1>8. RecordsInv'
    BY <1>5, <1>6, <1>7 DEF RecordsInv, RecordInv, M!Active
  <1>9. ConnsInv' /\ \A c \in Conns : conn'[c].holders = conn[c].holders \ S
    BY <1>1, ReturnedConnections DEF LedgerInv
  <1>10. rec'[t].holds /\ t \notin S /\ \A x \in Transfers \ {t} : rec'[x].holds => rec[x].holds
    BY <1>4, <1>5, <1>7 DEF Passes
  <1>11. HoldsInv'
    BY <1>1, <1>3, <1>4, <1>9, <1>10 DEF LedgerInv, HoldsInv
  <1>12. PrepsInv'
    BY <1>3, <1>5, <1>7 DEF LedgerInv, PrepsInv, PrepInv, Passes
  <1>13. ASSUME NEW q \in Requests PROVE RequestInv(req[q], rec'[req[q].transfer])
    <2>1. RequestInv(req[q], rec[req[q].transfer]) /\ req[q] \in RequestRecord
      BY DEF LedgerInv, RequestsInv
    <2>2. req[q].pc # "idle" => req[q].transfer \in Transfers \ {t}
      BY <1>4, <2>1 DEF RequestInv, RequestRecord, M!Terminal, Running
    <2> QED BY <1>7, <2>1, <2>2 DEF RequestInv, Passes
  <1>14. RequestsInv' /\ OneRequestPerToken' /\ DoneInv' /\ ShutdownInv'
    BY <1>1, <1>13 DEF LedgerInv, RequestsInv, OneRequestPerToken, DoneInv, ShutdownInv
  <1> QED BY <1>8, <1>9, <1>11, <1>12, <1>14 DEF LedgerInv

----------------------------------------------------------------------------
(* Requests.                                                               *)

\* A request that wins a token (consume_token).
LEMMA ConsumedKeeps ==
    ASSUME LedgerInv, NEW q \in Requests, NEW t \in Transfers, NEW u, req[q].pc = "idle",
           M!ConsumeToken(t, u), FollowManager,
           NEW w \in RequestRecord, req' = [req EXCEPT ![q] = w],
           w.transfer = t, w.pc \in {"consumed", "starting"}, w.endpoint \in Http <=> rec[t].dir \in Http,
           w.pc = "starting" => w.endpoint \notin Http,
           prep' = prep, done' = done, shutdown' = shutdown, waiters' = waiters, timedOut' = timedOut
    PROVE  LedgerInv'
  <1>1. /\ RecordsInv' /\ open /\ open' = open
        /\ \A x \in Transfers \ {t} : Passes(rec[x], rec'[x])
        /\ rec[t].state = "pending" /\ rec'[t].state = "running"
        /\ rec'[t].dir = rec[t].dir /\ rec[t].holds /\ rec'[t].holds
    BY ConsumeStep DEF LedgerInv
  <1>2. /\ req \in [Requests -> RequestRecord] /\ req'[q] = w
        /\ \A p \in Requests \ {q} : req'[p] = req[p]
    BY DEF LedgerInv, RequestsInv
  <1>3. \A p \in Requests : req[p].transfer # t
    <2> SUFFICES ASSUME NEW p \in Requests, req[p].transfer = t PROVE FALSE
      OBVIOUS
    <2>1. RequestInv(req[p], rec[t])
      BY DEF LedgerInv, RequestsInv
    <2>2. req[p].pc # "idle"
      BY <2>1, RequestsAssumption DEF RequestInv
    <2> QED BY <1>1, <2>1, <2>2 DEF RequestInv, Running, M!Terminal
  <1>4. OneRequestPerToken'
    BY <1>2, <1>3 DEF LedgerInv, OneRequestPerToken
  <1>5. ASSUME NEW p \in Requests PROVE RequestInv(req'[p], rec'[req'[p].transfer])
    <2>1. CASE p = q
      BY <1>1, <1>2, <2>1, RequestsAssumption DEF RequestInv, Running, Working
    <2>2. CASE p # q
      <3>1. RequestInv(req[p], rec[req[p].transfer]) /\ req'[p] = req[p] /\ req[p] \in RequestRecord
        BY <1>2, <2>2 DEF LedgerInv, RequestsInv
      <3>2. req[p].pc # "idle" => req[p].transfer \in Transfers \ {t}
        BY <1>3, <3>1 DEF RequestInv, RequestRecord
      <3> QED BY <1>1, <3>1, <3>2 DEF RequestInv, Passes
    <2> QED BY <2>1, <2>2
  <1>6. RequestsInv'
    BY <1>2, <1>5 DEF RequestsInv
  <1>7. PrepsInv'
    BY <1>1 DEF LedgerInv, PrepsInv, PrepInv, Passes
  <1>8. ConnsInv' /\ HoldsInv'
    BY <1>1, LedgerFollows DEF Passes
  <1>9. DoneInv'
    BY <1>2 DEF LedgerInv, DoneInv
  <1>10. ShutdownInv'
    BY <1>1 DEF LedgerInv, ShutdownInv, FollowManager
  <1> QED BY <1>1, <1>4, <1>6, <1>7, <1>8, <1>9, <1>10 DEF LedgerInv

\* An HTTP request that presents a live token gets the record to itself.
LEMMA ConsumeHttpKeeps ==
    ASSUME LedgerInv, NEW q \in Requests, NEW t \in Transfers, NEW e \in Http, ConsumeHttp(q, t, e)
    PROVE  LedgerInv'
  <1> DEFINE w == [pc |-> "consumed", transfer |-> t, endpoint |-> e, outcome |-> "none"]
  <1>1. w \in RequestRecord /\ w.transfer = t /\ w.pc = "consumed" /\ w.endpoint \in Http
    BY DEF RequestRecord, Places, Working, Outcomes
  <1>2. /\ req[q].pc = "idle" /\ rec[t].dir \in Http /\ M!ConsumeToken(t, rec[t].user) /\ FollowManager
        /\ req' = [req EXCEPT ![q] = w]
        /\ prep' = prep /\ done' = done /\ shutdown' = shutdown /\ waiters' = waiters /\ timedOut' = timedOut
    BY DEF ConsumeHttp
  <1> HIDE DEF w
  <1> QED BY <1>1, <1>2, ConsumedKeeps

\* So does the copy job of the socket handler, whose record has its direction.
LEMMA ConsumeCopyKeeps ==
    ASSUME LedgerInv, NEW q \in Requests, NEW t \in Transfers, ConsumeCopy(q, t)
    PROVE  LedgerInv'
  <1> DEFINE w == [pc |-> "starting", transfer |-> t, endpoint |-> rec[t].dir, outcome |-> "none"]
  <1>1. /\ req[q].pc = "idle" /\ M!ConsumeToken(t, rec[t].user) /\ FollowManager
        /\ prep[t].dir = "server_to_server" /\ req' = [req EXCEPT ![q] = w]
        /\ prep' = prep /\ done' = done /\ shutdown' = shutdown /\ waiters' = waiters /\ timedOut' = timedOut
    BY DEF ConsumeCopy
  <1>2. rec[t].state = "pending"
    BY <1>1, ConsumeStep DEF LedgerInv
  <1>3. rec[t].dir = "server_to_server"
    BY <1>1, <1>2 DEF LedgerInv, PrepsInv, PrepInv
  <1>4. /\ w \in RequestRecord /\ w.transfer = t /\ w.pc = "starting"
        /\ w.endpoint = rec[t].dir /\ w.endpoint \notin Http
    BY <1>3 DEF RequestRecord, Places, Working, Outcomes, Http
  <1> HIDE DEF w
  <1> QED BY <1>1, <1>4, ConsumedKeeps

\* What is known of a request that is under way.
LEMMA UnderWay ==
    ASSUME LedgerInv, NEW q \in Requests, req[q].pc # "idle"
    PROVE  /\ req[q] \in RequestRecord /\ req[q].transfer \in Transfers
           /\ RequestInv(req[q], rec[req[q].transfer]) /\ RecordInv(rec[req[q].transfer])
  <1>1. req[q] \in RequestRecord /\ RequestInv(req[q], rec[req[q].transfer])
    BY DEF LedgerInv, RequestsInv
  <1>2. req[q].transfer \in Transfers
    BY <1>1 DEF RequestInv, RequestRecord
  <1> QED BY <1>1, <1>2 DEF LedgerInv, RecordsInv

\* Steps of a request outside the registry.
LEMMA QuietSteps ==
    ASSUME LedgerInv, NEW q \in Requests,
           \/ EnterRoute(q) \/ StartCopy(q) \/ Finish(q)
           \/ \E outcome \in {"completed", "failed", "cancelled"} : EndTransfer(q, outcome)
    PROVE  LedgerInv'
  <1> DEFINE w == req'[q]
             t == req[q].transfer
  <1>1. req \in [Requests -> RequestRecord]
    BY DEF LedgerInv, RequestsInv
  <1>2. CASE EnterRoute(q)
    <2> DEFINE v == [req[q] EXCEPT !.pc = "serving"]
    <2>1. /\ req[q].pc = "consumed" /\ req' = [req EXCEPT ![q] = v] /\ done' = done
          /\ UNCHANGED <<mgr, pool, prep, shutdown, waiters, timedOut>>
      BY <1>1, <1>2 DEF EnterRoute
    <2>2. req[q] \in RequestRecord /\ RequestInv(req[q], rec[t])
      BY <2>1, UnderWay
    <2>3. v \in RequestRecord /\ v.pc = "serving" /\ v.transfer = t /\ v.endpoint = req[q].endpoint
      BY <2>2 DEF RequestRecord, Places, Working
    <2> HIDE DEF v
    <2>4. RequestInv(v, rec[t]) /\ (UsesPool(v) => UsesPool(req[q]))
      BY <2>1, <2>2, <2>3 DEF RequestInv, Working, UsesPool
    <2> QED BY <2>1, <2>3, <2>4, QuietStep
  <1>3. CASE StartCopy(q)
    <2> DEFINE v == IF accepting THEN [req[q] EXCEPT !.pc = "serving"]
                                 ELSE [req[q] EXCEPT !.pc = "ended", !.outcome = "failed"]
    <2>1. /\ req[q].pc = "starting" /\ req' = [req EXCEPT ![q] = v] /\ done' = done
          /\ UNCHANGED <<mgr, pool, prep, shutdown, waiters, timedOut>>
      BY <1>1, <1>3 DEF StartCopy
    <2>2. req[q] \in RequestRecord /\ RequestInv(req[q], rec[t])
      BY <2>1, UnderWay
    <2>3. v \in RequestRecord /\ v.pc \in {"serving", "ended"} /\ v.transfer = t /\ v.endpoint = req[q].endpoint
      BY <2>2 DEF RequestRecord, Places, Working, Outcomes
    <2> HIDE DEF v
    <2>4. req[q].endpoint \notin Http
      BY <2>1, <2>2 DEF RequestInv
    <2>5. RequestInv(v, rec[t]) /\ (UsesPool(v) => UsesPool(req[q]))
      BY <2>1, <2>2, <2>3, <2>4 DEF RequestInv, Working, UsesPool
    <2> QED BY <2>1, <2>3, <2>5, QuietStep
  <1>4. CASE Finish(q)
    <2> DEFINE v == [req[q] EXCEPT !.pc = "over"]
    <2>1. /\ req[q].pc = "released" /\ req' = [req EXCEPT ![q] = v]
          /\ done' = done \/ done' = done \cup {t}
          /\ UNCHANGED <<mgr, pool, prep, shutdown, waiters, timedOut>>
      BY <1>1, <1>4 DEF Finish
    <2>2. req[q] \in RequestRecord /\ RequestInv(req[q], rec[t])
      BY <2>1, UnderWay
    <2>3. v \in RequestRecord /\ v.pc = "over" /\ v.transfer = t /\ v.endpoint = req[q].endpoint
      BY <2>2 DEF RequestRecord, Places, Working
    <2> HIDE DEF v
    <2>4. RequestInv(v, rec[t]) /\ ~UsesPool(v)
      BY <2>1, <2>2, <2>3 DEF RequestInv, Working, UsesPool
    <2> QED BY <2>1, <2>3, <2>4, QuietStep
  <1>5. ASSUME NEW outcome \in {"completed", "failed", "cancelled"}, EndTransfer(q, outcome)
        PROVE  LedgerInv'
    <2> DEFINE v == [req[q] EXCEPT !.pc = "ended", !.outcome = outcome]
    <2>1. /\ req[q].pc = "serving" /\ req' = [req EXCEPT ![q] = v] /\ done' = done
          /\ UNCHANGED <<mgr, pool, prep, shutdown, waiters, timedOut>>
      BY <1>1, <1>5 DEF EndTransfer
    <2>2. req[q] \in RequestRecord /\ RequestInv(req[q], rec[t])
      BY <2>1, UnderWay
    <2>3. v \in RequestRecord /\ v.pc = "ended" /\ v.transfer = t /\ v.endpoint = req[q].endpoint
      BY <2>2 DEF RequestRecord, Places, Working, Outcomes
    <2> HIDE DEF v
    <2>4. RequestInv(v, rec[t]) /\ (UsesPool(v) => UsesPool(req[q]))
      BY <2>1, <2>2, <2>3 DEF RequestInv, Working, UsesPool
    <2> QED BY <2>1, <2>3, <2>4, QuietStep
  <1> QED BY <1>2, <1>3, <1>4, <1>5

\* _unavailable ends the record and its holds after the token is gone.
LEMMA RejectConsumedKeeps ==
    ASSUME LedgerInv, NEW q \in Requests, RejectConsumed(q)
    PROVE  LedgerInv'
  <1> DEFINE t == req[q].transfer
             w == [req[q] EXCEPT !.pc = "rejected"]
  <1>1. /\ req[q].pc = "consumed" /\ req' = [req EXCEPT ![q] = w] /\ FollowManager
        /\ M!Transition(t, rec[t].user, M!Active, "failed")
        /\ prep' = prep /\ done' = done /\ shutdown' = shutdown /\ waiters' = waiters /\ timedOut' = timedOut
    BY DEF RejectConsumed, M!Fail, LedgerInv, RequestsInv
  <1>2. req[q] \in RequestRecord /\ t \in Transfers /\ RequestInv(req[q], rec[t])
    BY <1>1, UnderWay
  <1>3. /\ RecordsInv' /\ open' = open
        /\ \A x \in Transfers \ {t} : Passes(rec[x], rec'[x])
        /\ rec'[t].state = "failed" /\ rec'[t].dir = rec[t].dir /\ ~rec'[t].holds
    BY <1>1, <1>2, TransitionStep DEF LedgerInv, M!Terminal
  <1>4. w \in RequestRecord /\ w.pc = "rejected" /\ w.transfer = t /\ w.endpoint = req[q].endpoint
    BY <1>2 DEF RequestRecord, Places, Working
  <1> HIDE DEF w
  <1>5. RequestInv(w, rec'[t]) /\ ~UsesPool(w)
    BY <1>1, <1>2, <1>3, <1>4 DEF RequestInv, Working, UsesPool, M!Terminal
  <1> QED BY <1>1, <1>3, <1>4, <1>5, OwnStep

\* _terminalize ends the record; a cancelled one keeps its holds for the
\* finalizer.
LEMMA TerminalizeKeeps ==
    ASSUME LedgerInv, NEW q \in Requests, Terminalize(q)
    PROVE  LedgerInv'
  <1> DEFINE t == req[q].transfer
             w == [req[q] EXCEPT !.pc = "terminal"]
  <1>1. /\ req[q].pc = "ended" /\ req' = [req EXCEPT ![q] = w] /\ FollowManager
        /\ prep' = prep /\ done' = done /\ shutdown' = shutdown /\ waiters' = waiters /\ timedOut' = timedOut
    BY DEF Terminalize, LedgerInv, RequestsInv
  <1>2. req[q] \in RequestRecord /\ t \in Transfers /\ RequestInv(req[q], rec[t])
    BY <1>1, UnderWay
  <1>3. RecordsInv /\ "completed" \in M!Terminal /\ "failed" \in M!Terminal /\ "cancelled" \in M!Terminal
        /\ {"running", "cancelling"} \subseteq M!Active /\ M!Active \subseteq M!Active
    BY DEF LedgerInv, M!Active, M!Terminal
  <1>4. /\ RecordsInv' /\ open' = open
        /\ \A x \in Transfers \ {t} : Passes(rec[x], rec'[x])
        /\ rec'[t].state \in M!Terminal /\ rec'[t].dir = rec[t].dir /\ (rec'[t].holds => rec[t].holds)
    <2> HIDE DEF t
    <2>1. CASE M!Transition(t, rec[t].user, {"running", "cancelling"}, "completed")
      BY <1>2, <1>3, <2>1, TransitionStep
    <2>2. CASE M!Transition(t, rec[t].user, M!Active, "failed")
      BY <1>2, <1>3, <2>2, TransitionStep
    <2>3. CASE M!Transition(t, rec[t].user, {"running", "cancelling"}, "cancelled")
      BY <1>2, <1>3, <2>3, TransitionStep
    <2>4. \/ M!Transition(t, rec[t].user, {"running", "cancelling"}, "completed")
          \/ M!Transition(t, rec[t].user, M!Active, "failed")
          \/ M!Transition(t, rec[t].user, {"running", "cancelling"}, "cancelled")
      BY DEF Terminalize, M!Complete, M!Fail, M!FinishCancelled, t
    <2> QED BY <2>1, <2>2, <2>3, <2>4
  <1>5. w \in RequestRecord /\ w.pc = "terminal" /\ w.transfer = t /\ w.endpoint = req[q].endpoint
    BY <1>2 DEF RequestRecord, Places, Working
  <1> HIDE DEF w
  <1>6. RequestInv(w, rec'[t]) /\ ~UsesPool(w)
    BY <1>1, <1>2, <1>4, <1>5 DEF RequestInv, Working, UsesPool
  <1> QED BY <1>1, <1>4, <1>5, <1>6, OwnStep

\* The finalizer gives back what _terminalize left.
LEMMA FinalizerKeeps ==
    ASSUME LedgerInv, NEW q \in Requests, FinalizerReleasesHolds(q)
    PROVE  LedgerInv'
  <1> DEFINE t == req[q].transfer
             w == [req[q] EXCEPT !.pc = "released"]
             r == [rec[t] EXCEPT !.holds = FALSE]
  <1>1. /\ req[q].pc = "terminal" /\ req' = [req EXCEPT ![q] = w] /\ FollowManager
        /\ prep' = prep /\ done' = done /\ shutdown' = shutdown /\ waiters' = waiters /\ timedOut' = timedOut
    BY DEF FinalizerReleasesHolds, LedgerInv, RequestsInv
  <1>2. /\ req[q] \in RequestRecord /\ t \in Transfers /\ RequestInv(req[q], rec[t]) /\ RecordInv(rec[t])
        /\ rec[t].state \in M!Terminal
    BY <1>1, UnderWay DEF RequestInv, Working
  <1>3. r \in M!Record /\ r.state = rec[t].state /\ r.dir = rec[t].dir /\ r.token = rec[t].token /\ r.holds = FALSE
    BY <1>2 DEF RecordInv, M!Record
  <1>4. RecordInv(r)
    BY <1>2, <1>3 DEF RecordInv, M!Active, M!Terminal
  <1>5. /\ RecordsInv' /\ open' = open
        /\ \A x \in Transfers \ {t} : Passes(rec[x], rec'[x])
        /\ rec'[t].state = rec[t].state /\ rec'[t].dir = rec[t].dir /\ ~rec'[t].holds
    <2>1. CASE rec[t].holds
      <3>1. rec' = [rec EXCEPT ![t] = r] /\ open' = open
        BY <1>2, <2>1 DEF FinalizerReleasesHolds, M!ReleaseSourceHolds, LedgerInv, RecordsInv
      <3> HIDE DEF r
      <3>2. rec'[t] = r /\ \A x \in Transfers \ {t} : rec'[x] = rec[x]
        BY <1>2, <3>1 DEF LedgerInv, RecordsInv
      <3> QED BY <1>2, <1>3, <1>4, <3>1, <3>2 DEF LedgerInv, RecordsInv, Passes
    <2>2. CASE ~rec[t].holds
      <3>1. rec' = rec /\ open' = open
        BY <2>2 DEF FinalizerReleasesHolds, mgr
      <3> QED BY <2>2, <3>1 DEF LedgerInv, RecordsInv, Passes
    <2> QED BY <2>1, <2>2
  <1>6. w \in RequestRecord /\ w.pc = "released" /\ w.transfer = t /\ w.endpoint = req[q].endpoint
    BY <1>2 DEF RequestRecord, Places, Working
  <1> HIDE DEF w, r
  <1>7. RequestInv(w, rec'[t]) /\ ~UsesPool(w)
    BY <1>1, <1>2, <1>5, <1>6 DEF RequestInv, Working, UsesPool
  <1> QED BY <1>1, <1>5, <1>6, <1>7, OwnStep

----------------------------------------------------------------------------
(* Everybody else.                                                         *)

\* Cancellation by the owner, expiry, and the cancellation of all of a user's
\* transfers.
LEMMA OthersKeep ==
    ASSUME LedgerInv,
           \/ ExpireTokens
           \/ \E t \in Transfers : UserCancels(t)
           \/ \E u \in Users : CutOffTransfers(u)
    PROVE  LedgerInv'
  <1> DEFINE f == M!SweptRecords
  <1>1. /\ f \in [Transfers -> M!Record]
        /\ \A x \in Transfers : f[x] = M!Swept(rec[x]) /\ Passes(rec[x], f[x]) /\ RecordInv(f[x])
    BY SweepPasses DEF LedgerInv
  <1>2. \A x \in Transfers : Passes(rec[x], M!CancelledRecord(f[x]))
    BY <1>1, CancelledPasses, PassesTwice
  <1>3. \A x \in Transfers : \A r : Passes(rec[x], r) => r \in M!Record /\ RecordInv(r)
    BY DEF Passes, RecordInv
  <1>4. CASE ExpireTokens
    <2>1. /\ rec' = f /\ open' = open /\ FollowManager /\ prep' = prep /\ req' = req /\ done' = done
          /\ shutdown' = shutdown /\ waiters' = waiters /\ timedOut' = timedOut
      BY <1>4 DEF ExpireTokens, M!CleanupExpired, rest
    <2>2. RecordsInv' /\ \A x \in Transfers : Passes(rec[x], rec'[x])
      BY <1>1, <2>1 DEF RecordsInv
    <2> QED BY <2>1, <2>2, OthersStep
  <1>5. ASSUME NEW t \in Transfers, UserCancels(t) PROVE LedgerInv'
    <2>1. /\ rec' = [f EXCEPT ![t] = M!CancelledRecord(f[t])] /\ open' = open /\ FollowManager
          /\ prep' = prep /\ req' = req /\ done' = done
          /\ shutdown' = shutdown /\ waiters' = waiters /\ timedOut' = timedOut
      BY <1>5 DEF UserCancels, M!Cancel, rest
    <2> HIDE DEF f
    <2>2. \A x \in Transfers : Passes(rec[x], rec'[x])
      BY <1>1, <1>2, <2>1
    <2>3. RecordsInv'
      BY <1>1, <1>3, <2>1, <2>2 DEF RecordsInv
    <2> QED BY <2>1, <2>2, <2>3, OthersStep
  <1>6. ASSUME NEW u \in Users, CutOffTransfers(u) PROVE LedgerInv'
    <2>1. /\ rec' = [x \in Transfers |-> IF M!Swept(rec[x]).user = u THEN M!CancelledRecord(M!Swept(rec[x]))
                                         ELSE M!Swept(rec[x])]
          /\ open' = open /\ FollowManager
          /\ prep' = prep /\ req' = req /\ done' = done
          /\ shutdown' = shutdown /\ waiters' = waiters /\ timedOut' = timedOut
      BY <1>6 DEF CutOffTransfers, M!CancelAllForUser
    <2>2. \A x \in Transfers : Passes(rec[x], rec'[x])
      BY <1>1, <1>2, <2>1
    <2>3. RecordsInv'
      BY <1>3, <2>1, <2>2 DEF RecordsInv
    <2> QED BY <2>1, <2>2, <2>3, OthersStep
  <1> QED BY <1>4, <1>5, <1>6

\* The deadline of a token passes.
LEMMA TokenDeadlineKeeps ==
    ASSUME LedgerInv, NEW t \in Transfers, TokenDeadline(t)
    PROVE  LedgerInv'
  <1> DEFINE r == [rec[t] EXCEPT !.due = TRUE]
  <1>1. /\ rec' = [rec EXCEPT ![t] = r] /\ open' = open /\ conn' = conn /\ loop' = loop
        /\ prep' = prep /\ req' = req /\ done' = done
        /\ shutdown' = shutdown /\ waiters' = waiters /\ timedOut' = timedOut
    BY DEF TokenDeadline, M!DeadlinePasses, pool, rest, LedgerInv, RecordsInv
  <1>2. /\ r \in M!Record /\ r.state = rec[t].state /\ r.dir = rec[t].dir
        /\ r.token = rec[t].token /\ r.holds = rec[t].holds
    BY DEF LedgerInv, RecordsInv, M!Record
  <1> HIDE DEF r
  <1>3. RecordInv(r)
    BY <1>2 DEF LedgerInv, RecordsInv, RecordInv
  <1>4. rec'[t] = r /\ \A x \in Transfers \ {t} : rec'[x] = rec[x]
    BY <1>1 DEF LedgerInv, RecordsInv
  <1>5. RecordsInv' /\ \A x \in Transfers : Passes(rec[x], rec'[x]) /\ rec'[x].holds = rec[x].holds
    BY <1>1, <1>2, <1>3, <1>4 DEF LedgerInv, RecordsInv, Passes
  <1>6. PrepsInv' /\ RequestsInv' /\ OneRequestPerToken'
    BY <1>1, <1>5, OthersPass
  <1>7. ConnsInv' /\ HoldsInv' /\ DoneInv' /\ ShutdownInv'
    BY <1>1, <1>5 DEF LedgerInv, ConnsInv, HoldsInv, DoneInv, ShutdownInv
  <1> QED BY <1>5, <1>6, <1>7 DEF LedgerInv

\* The pool's own steps hold and release nothing.
LEMMA PoolKeeps ==
    ASSUME LedgerInv, conn' \in [Conns -> P!Connection],
           \A c \in Conns : /\ conn'[c].holders = conn[c].holders /\ conn'[c].count = conn[c].count
                            /\ conn'[c].phase = "open" => conn[c].phase = "open",
           rec' = rec, open' = open, prep' = prep, req' = req, done' = done, waiters' = waiters,
           timedOut' = timedOut, shutdown' = shutdown, loop' = loop \/ shutdown = "waited"
    PROVE  LedgerInv'
  <1>1. ConnsInv' /\ HoldsInv'
    BY DEF LedgerInv, ConnsInv, ConnInv, HoldsInv
  <1>2. RecordsInv' /\ PrepsInv' /\ RequestsInv' /\ OneRequestPerToken' /\ DoneInv'
    BY DEF LedgerInv, RecordsInv, PrepsInv, RequestsInv, OneRequestPerToken, DoneInv
  <1>3. ShutdownInv'
    BY DEF LedgerInv, ShutdownInv
  <1> QED BY <1>1, <1>2, <1>3 DEF LedgerInv

\* One connection that is closed, marked or found dead.
LEMMA OneConnection ==
    ASSUME LedgerInv, NEW c \in Conns, NEW s \in P!Connection, conn' = [conn EXCEPT ![c] = s],
           s.holders = conn[c].holders, s.count = conn[c].count,
           s.phase = "open" => conn[c].phase = "open"
    PROVE  /\ conn' \in [Conns -> P!Connection]
           /\ \A x \in Conns : /\ conn'[x].holders = conn[x].holders /\ conn'[x].count = conn[x].count
                               /\ conn'[x].phase = "open" => conn[x].phase = "open"
  BY DEF LedgerInv, ConnsInv

\* The pool's own operations (deferred closes, idle and failed connections) leave
\* holders and counts alone and never open a connection again.
LEMMA PoolStepKeeps ==
    ASSUME LedgerInv, NEW c \in Conns, PoolStep(c)
    PROVE  LedgerInv'
  <1>1. /\ rec' = rec /\ open' = open /\ prep' = prep /\ req' = req /\ done' = done
        /\ waiters' = waiters /\ timedOut' = timedOut /\ shutdown' = shutdown
    BY DEF PoolStep, mgr, rest
  <1>2. conn[c] \in P!Connection /\ conn \in [Conns -> P!Connection]
    BY DEF LedgerInv, ConnsInv
  <1>3. PICK s \in P!Connection :
          /\ conn' = [conn EXCEPT ![c] = s] /\ loop' = loop
          /\ s.holders = conn[c].holders /\ s.count = conn[c].count
          /\ s.phase = "open" => conn[c].phase = "open"
    <2>1. CASE P!RequestClose(c)
      <3> DEFINE s == P!DeferOrDetach(conn[c])
      <3>1. conn' = [conn EXCEPT ![c] = s] /\ loop' = loop /\ conn[c].phase = "open"
        BY <2>1 DEF P!RequestClose
      <3>2. s \in P!Connection /\ s.holders = conn[c].holders /\ s.count = conn[c].count
        BY <1>2 DEF P!DeferOrDetach, P!Connection, P!Phases
      <3> QED BY <3>1, <3>2
    <2>2. CASE P!TransportDies(c)
      <3> DEFINE s == [conn[c] EXCEPT !.alive = FALSE]
      <3>1. conn' = [conn EXCEPT ![c] = s] /\ loop' = loop /\ conn[c].phase = "open"
        BY <1>2, <2>2 DEF P!TransportDies
      <3>2. s \in P!Connection /\ s.holders = conn[c].holders /\ s.count = conn[c].count
        BY <1>2 DEF P!Connection
      <3> QED BY <3>1, <3>2
    <2>3. CASE P!DropStale(c)
      <3> DEFINE s == [conn[c] EXCEPT !.phase = "detached"]
      <3>1. conn' = [conn EXCEPT ![c] = s] /\ loop' = loop /\ conn[c].phase = "open"
        BY <1>2, <2>3 DEF P!DropStale
      <3>2. s \in P!Connection /\ s.holders = conn[c].holders /\ s.count = conn[c].count
        BY <1>2 DEF P!Connection, P!Phases
      <3> QED BY <3>1, <3>2
    <2>4. CASE P!CloseDetached(c)
      <3> DEFINE s == [conn[c] EXCEPT !.phase = "closed", !.quota = FALSE]
      <3>1. conn' = [conn EXCEPT ![c] = s] /\ loop' = loop
        BY <1>2, <2>4 DEF P!CloseDetached
      <3>2. /\ s \in P!Connection /\ s.holders = conn[c].holders /\ s.count = conn[c].count
            /\ s.phase = "closed"
        BY <1>2 DEF P!Connection, P!Phases
      <3> QED BY <3>1, <3>2
    <2> QED BY <2>1, <2>2, <2>3, <2>4 DEF PoolStep
  <1>4. /\ conn' \in [Conns -> P!Connection]
        /\ \A x \in Conns : /\ conn'[x].holders = conn[x].holders /\ conn'[x].count = conn[x].count
                            /\ conn'[x].phase = "open" => conn[x].phase = "open"
    BY <1>3, OneConnection
  <1> QED BY <1>1, <1>3, <1>4, PoolKeeps

\* Connections taken out of the dictionary at once keep the holds on them, which
\* their holders give back later.
LEMMA DetachAllKeeps ==
    ASSUME LedgerInv, NEW S, P!DetachAll(S)
    PROVE  /\ conn' \in [Conns -> P!Connection]
           /\ \A c \in Conns : /\ conn'[c].holders = conn[c].holders /\ conn'[c].count = conn[c].count
                               /\ conn'[c].phase = "open" => conn[c].phase = "open"
  <1> SUFFICES ASSUME NEW c \in Conns
               PROVE  /\ conn'[c] \in P!Connection
                      /\ conn'[c].holders = conn[c].holders /\ conn'[c].count = conn[c].count
                      /\ conn'[c].phase = "open" => conn[c].phase = "open"
    BY DEF P!DetachAll
  <1>1. conn[c] \in P!Connection
    BY DEF LedgerInv, ConnsInv
  <1>2. conn'[c] = [conn[c] EXCEPT !.phase = "detached"] \/ conn'[c] = conn[c]
    BY DEF P!DetachAll
  <1> QED BY <1>1, <1>2 DEF P!Connection, P!Phases

\* close_all_user_connections and revoke_user take connections away from their
\* holders, whose later release finds nothing.
LEMMA CutOffConnectionsKeeps ==
    ASSUME LedgerInv, NEW u \in Users, CutOffConnections(u)
    PROVE  LedgerInv'
  <1>1. /\ rec' = rec /\ open' = open /\ prep' = prep /\ req' = req /\ done' = done
        /\ waiters' = waiters /\ timedOut' = timedOut /\ shutdown' = shutdown /\ loop' = loop
    BY DEF CutOffConnections, P!CloseAllUserConnections, P!RevokeUser, mgr
  <1>2. P!DetachAll({c \in Conns : conn[c].user = u})
    BY DEF CutOffConnections, P!CloseAllUserConnections, P!RevokeUser
  <1> QED BY <1>1, <1>2, DetachAllKeeps, PoolKeeps

----------------------------------------------------------------------------
(* Shutdown.                                                               *)

\* close_and_cancel names every HTTP request that may still use the pool.
LEMMA CloseTransfersKeeps ==
    ASSUME LedgerInv, CloseTransfers
    PROVE  LedgerInv'
  <1>1. /\ shutdown = "closing" /\ shutdown' = "waiting" /\ open' = FALSE /\ FollowManager
        /\ rec' = [t \in Transfers |-> M!CancelledRecord(M!Swept(rec[t]))]
        /\ waiters' = M!HttpWaiters
        /\ prep' = prep /\ req' = req /\ done' = done /\ timedOut' = timedOut
    BY DEF CloseTransfers, M!CloseAndCancel
  <1>2. \A t \in Transfers : Passes(rec[t], rec'[t])
    <2>1. \A t \in Transfers : Passes(rec[t], M!Swept(rec[t])) /\ RecordInv(M!Swept(rec[t]))
      BY SweptPasses DEF LedgerInv, RecordsInv, Passes
    <2>2. \A t \in Transfers : Passes(rec[t], M!CancelledRecord(M!Swept(rec[t])))
      BY <2>1, CancelledPasses, PassesTwice
    <2> QED BY <1>1, <2>2
  <1>3. RecordsInv'
    BY <1>1, <1>2 DEF RecordsInv, Passes, RecordInv
  <1>4. ConnsInv' /\ HoldsInv'
    BY <1>1, <1>2, LedgerFollows DEF Passes
  <1>5. PrepsInv' /\ RequestsInv' /\ OneRequestPerToken'
    BY <1>1, <1>2, OthersPass
  <1>6. DoneInv'
    BY <1>1 DEF LedgerInv, DoneInv
  <1>7. loop' = "running"
    BY <1>1 DEF LedgerInv, ShutdownInv, FollowManager
  <1>8. ASSUME NEW q \in Requests, UsesPool(req[q]) PROVE req[q].transfer \in M!HttpWaiters
    <2>1. req[q].pc # "idle"
      BY <1>8 DEF UsesPool
    <2>2. req[q].transfer \in Transfers /\ RequestInv(req[q], rec[req[q].transfer])
      BY <2>1, UnderWay
    <2> QED BY <1>8, <2>2 DEF UsesPool, RequestInv, Working, M!HttpWaiters, Running, Http
  <1>9. ShutdownInv'
    BY <1>1, <1>7, <1>8 DEF ShutdownInv
  <1> QED BY <1>3, <1>4, <1>5, <1>6, <1>9 DEF LedgerInv

\* The other steps of the shutdown.
LEMMA ShutdownKeeps ==
    ASSUME LedgerInv, BeginShutdown \/ WaitersDone \/ GraceEnds \/ DrainConnections
    PROVE  LedgerInv'
  <1>1. CASE BeginShutdown
    <2>1. /\ rec' = rec /\ open' = open /\ conn' = conn /\ loop' = loop /\ prep' = prep /\ req' = req
          /\ done' = done /\ waiters' = waiters /\ timedOut' = timedOut
          /\ shutdown = "up" /\ shutdown' = "closing"
      BY <1>1 DEF BeginShutdown, P!StopAccepting, mgr
    <2> QED BY <2>1 DEF LedgerInv, RecordsInv, ConnsInv, PrepsInv, RequestsInv, HoldsInv,
                        OneRequestPerToken, DoneInv, ShutdownInv
  <1>2. CASE WaitersDone \/ GraceEnds
    <2>1. /\ rec' = rec /\ open' = open /\ conn' = conn /\ loop' = loop /\ prep' = prep /\ req' = req
          /\ done' = done /\ waiters' = waiters
          /\ shutdown = "waiting" /\ shutdown' = "waited"
          /\ timedOut' \/ waiters \subseteq done
      BY <1>2 DEF WaitersDone, GraceEnds, mgr, pool
    <2>2. ShutdownInv'
      BY <2>1 DEF LedgerInv, ShutdownInv
    <2> QED BY <2>1, <2>2 DEF LedgerInv, RecordsInv, ConnsInv, PrepsInv, RequestsInv, HoldsInv,
                              OneRequestPerToken, DoneInv
  <1>3. CASE DrainConnections
    <2>1. /\ shutdown = "waited" /\ shutdown' = shutdown
          /\ rec' = rec /\ open' = open /\ prep' = prep /\ req' = req
          /\ done' = done /\ waiters' = waiters /\ timedOut' = timedOut
      BY <1>3 DEF DrainConnections, mgr, rest
    <2>2. CASE P!CancelLoop
      <3>1. conn' = conn
        BY <2>2 DEF P!CancelLoop
      <3> QED BY <2>1, <3>1, PoolKeeps DEF LedgerInv, ConnsInv
    <2>3. CASE P!DrainPool
      <3>1. P!DetachAll(Conns)
        BY <2>3 DEF P!DrainPool
      <3> QED BY <2>1, <3>1, DetachAllKeeps, PoolKeeps
    <2> QED BY <1>3, <2>2, <2>3 DEF DrainConnections
  <1> QED BY <1>1, <1>2, <1>3

\* A copy whose token was withdrawn returns its job slot and nothing else.
LEMMA ConsumeCopyRefusedKeeps ==
    ASSUME LedgerInv, NEW t \in Transfers, ConsumeCopyRefused(t)
    PROVE  LedgerInv'
  <1>1. /\ rec' = rec /\ open' = open /\ conn' = conn /\ loop' = loop /\ prep' = prep /\ req' = req
        /\ done' = done /\ waiters' = waiters /\ timedOut' = timedOut /\ shutdown' = shutdown
    BY DEF ConsumeCopyRefused, mgr, pool
  <1> QED BY <1>1 DEF LedgerInv, RecordsInv, ConnsInv, PrepsInv, RequestsInv, HoldsInv,
                      OneRequestPerToken, DoneInv, ShutdownInv

----------------------------------------------------------------------------
(* The theorems.                                                           *)

\* At the start no transfer, request or hold exists.
LEMMA LedgerBegins == Init => LedgerInv
  <1> SUFFICES ASSUME Init PROVE LedgerInv
    OBVIOUS
  <1>1. \A t \in Transfers : rec[t] = M!NotCreated
    BY DEF Init
  <1>2. M!NotCreated \in M!Record /\ RecordInv(M!NotCreated) /\ M!NotCreated.state = "none" /\ ~M!NotCreated.holds
    BY DEF M!NotCreated, M!Record, M!States, RecordInv, M!Active
  <1>3. RecordsInv
    BY <1>1, <1>2 DEF Init, RecordsInv
  <1>4. ConnsInv /\ \A c \in Conns : conn[c].holders = {}
    <2>1. PICK owner \in [Conns -> Users] :
             conn = [c \in Conns |-> [P!NoConnection EXCEPT !.phase = "open", !.user = owner[c],
                                                            !.alive = TRUE, !.quota = TRUE]]
      BY DEF Init
    <2>2. Cardinality({}) = 0
      BY FS_EmptySet
    <2>3. P!NoConnection \in P!Connection /\ P!NoConnection.holders = {} /\ P!NoConnection.count = 0
      BY DEF P!NoConnection, P!Connection, P!Phases
    <2>4. ASSUME NEW c \in Conns
          PROVE  conn[c] \in P!Connection /\ conn[c].holders = {} /\ conn[c].count = 0
      <3>1. owner[c] \in Users \cup {P!NoUser} /\ "open" \in P!Phases
        BY DEF P!Phases
      <3>2. conn[c] = [P!NoConnection EXCEPT !.phase = "open", !.user = owner[c],
                                             !.alive = TRUE, !.quota = TRUE]
        BY <2>1
      <3> QED BY <2>3, <3>1, <3>2 DEF P!Connection
    <2>5. conn \in [Conns -> P!Connection]
      BY <2>1, <2>4
    <2> QED BY <2>2, <2>4, <2>5 DEF ConnsInv, ConnInv
  <1>5. PrepsInv
    <2>1. \A t \in Transfers : prep[t] = [phase |-> "none", user |-> M!NoUser, sid |-> M!NoSid,
                                          dir |-> M!NoDirection, need |-> {}]
      BY DEF Init
    <2>2. prep \in [Transfers -> PrepRecord]
      BY DEF Init, PrepRecord, Phases
    <2> QED BY <1>1, <1>2, <2>1, <2>2 DEF PrepsInv, PrepInv
  <1>6. RequestsInv /\ OneRequestPerToken
    <2>1. Idle \in RequestRecord /\ Idle.pc = "idle" /\ Idle.transfer = NoTransfer /\ Idle.endpoint = "none"
      BY DEF Idle, RequestRecord, Places, Working, Outcomes
    <2>2. req = [q \in Requests |-> Idle]
      BY DEF Init
    <2> HIDE DEF Idle
    <2> QED BY <2>1, <2>2 DEF RequestsInv, RequestInv, OneRequestPerToken
  <1>7. HoldsInv
    BY <1>1, <1>2, <1>4 DEF HoldsInv
  <1>8. DoneInv /\ ShutdownInv
    BY DEF Init, DoneInv, ShutdownInv
  <1> QED BY <1>3, <1>4, <1>5, <1>6, <1>7, <1>8 DEF LedgerInv

\* Every step keeps the ledger.
LEMMA LedgerKept == LedgerInv /\ [Next]_vars => LedgerInv'
  <1> SUFFICES ASSUME LedgerInv, [Next]_vars PROVE LedgerInv'
    OBVIOUS
  <1>1. ASSUME NEW t \in Transfers, Prepare(t) PROVE LedgerInv'
    BY <1>1, BeginPrepareKeeps, AcquireNextKeeps, AcquireFailsKeeps, CreateTransferKeeps,
       CreateRefusedKeeps, ConsumeCopyRefusedKeeps DEF Prepare
  <1>2. ASSUME NEW t \in Transfers, UserCancels(t) \/ TokenDeadline(t) PROVE LedgerInv'
    BY <1>2, OthersKeep, TokenDeadlineKeeps
  <1>3. ASSUME NEW q \in Requests, NEW t \in Transfers,
               (\E e \in Http : ConsumeHttp(q, t, e)) \/ ConsumeCopy(q, t)
        PROVE  LedgerInv'
    BY <1>3, ConsumeHttpKeeps, ConsumeCopyKeeps
  <1>4. ASSUME NEW q \in Requests, Serve(q) PROVE LedgerInv'
    BY <1>4, QuietSteps, RejectConsumedKeeps, TerminalizeKeeps, FinalizerKeeps DEF Serve
  <1>5. ASSUME NEW u \in Users, CutOffTransfers(u) \/ CutOffConnections(u) PROVE LedgerInv'
    BY <1>5, OthersKeep, CutOffConnectionsKeeps
  <1>6. ASSUME NEW c \in Conns, PoolStep(c) PROVE LedgerInv'
    BY <1>6, PoolStepKeeps
  <1>7. CASE ExpireTokens \/ BeginShutdown \/ ShutDown
    BY <1>7, OthersKeep, ShutdownKeeps, CloseTransfersKeeps DEF ShutDown
  <1>8. CASE UNCHANGED vars
    <2>1. /\ rec' = rec /\ open' = open /\ conn' = conn /\ loop' = loop /\ prep' = prep /\ req' = req
          /\ done' = done /\ waiters' = waiters /\ timedOut' = timedOut /\ shutdown' = shutdown
      BY <1>8 DEF vars, mgr, pool, rest
    <2> QED BY <2>1 DEF LedgerInv, RecordsInv, ConnsInv, PrepsInv, RequestsInv, HoldsInv,
                        OneRequestPerToken, DoneInv, ShutdownInv
  <1> QED BY <1>1, <1>2, <1>3, <1>4, <1>5, <1>6, <1>7, <1>8 DEF Next

\* What the invariant says of the parts of RequestsSafe.
LEMMA LedgerSuffices == LedgerInv => RequestsSafe
  <1> SUFFICES ASSUME LedgerInv PROVE RequestsSafe
    OBVIOUS
  <1>1. HoldLedger
    <2>1. \A c \in Conns : conn[c].holders \subseteq Transfers
      BY DEF LedgerInv, ConnsInv, P!Connection
    <2> QED BY <2>1 DEF LedgerInv, HoldsInv, HoldLedger
  <1>2. ServingIsHeld
    <2> SUFFICES ASSUME NEW q \in Requests, req[q].pc \in {"serving", "ended"},
                        NEW c \in prep[req[q].transfer].need
                 PROVE  req[q].transfer \in conn[c].holders
      BY DEF ServingIsHeld
    <2>1. /\ req[q].transfer \in Transfers /\ RequestInv(req[q], rec[req[q].transfer])
          /\ RecordInv(rec[req[q].transfer])
      BY UnderWay
    <2>2. rec[req[q].transfer].holds
      BY <2>1 DEF RequestInv, RecordInv, Working, Running, M!Active
    <2>3. c \in Conns
      BY <2>1 DEF LedgerInv, PrepsInv, PrepRecord
    <2> QED BY <2>1, <2>2, <2>3 DEF LedgerInv, HoldsInv
  <1>3. DoneIsFinal
    <2> SUFFICES ASSUME NEW t \in done PROVE rec[t].state \in M!Terminal /\ ~rec[t].holds
      BY DEF DoneIsFinal
    <2>1. PICK q \in Requests : req[q].transfer = t /\ req[q].pc = "over"
      BY DEF LedgerInv, DoneInv
    <2>2. RequestInv(req[q], rec[t])
      BY <2>1 DEF LedgerInv, RequestsInv
    <2> QED BY <2>1, <2>2 DEF RequestInv, Working
  <1>4. DrainWaitsForHttp
    <2> SUFFICES ASSUME loop # "running", ~timedOut, NEW q \in Requests, UsesPool(req[q]) PROVE FALSE
      BY DEF DrainWaitsForHttp, UsesPool
    <2>1. req[q].transfer \in done
      BY DEF LedgerInv, ShutdownInv
    <2>2. PICK p \in Requests : req[p].transfer = req[q].transfer /\ req[p].pc = "over"
      BY <2>1 DEF LedgerInv, DoneInv
    <2>3. req[q].transfer # NoTransfer /\ req[q].pc # "over"
      <3>1. req[q].pc # "idle" /\ req[q].pc # "over"
        BY DEF UsesPool
      <3> QED BY <3>1, UnderWay, RequestsAssumption
    <2> QED BY <2>2, <2>3 DEF LedgerInv, OneRequestPerToken
  <1>5. OneRequestPerToken
    BY DEF LedgerInv
  <1> QED BY <1>1, <1>2, <1>3, <1>4, <1>5 DEF RequestsSafe

\* Handlers, registry, requests, pool and shutdown together: no path leaks a hold
\* or returns one twice, I/O keeps its sources, a token serves one request, done
\* means done, and the pool outlives the requests (prepare_transfer, consume_token,
\* _request_finalizer, close_and_cancel).
THEOREM RequestsAreSafe == Spec => []RequestsSafe
  <1>1. Spec => []LedgerInv
    BY LedgerBegins, LedgerKept, PTL DEF Spec
  <1> QED BY <1>1, LedgerSuffices, PTL

=============================================================================
