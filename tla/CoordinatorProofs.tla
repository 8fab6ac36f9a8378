-------------------------- MODULE CoordinatorProofs --------------------------
(***************************************************************************)
(* The two coordinators of the page's requests.  First, safety of          *)
(* BinaryTransferClient for any sets of uploads and downloads, and its     *)
(* refinement of TransferPromise; then the requests of the administration  *)
(* page (AdminConsole), for any users, archives and calls; last, what      *)
(* transfers and sessions reserve from the server (QuotaManager), for any  *)
(* limits, users and amounts.                                              *)
(*                                                                         *)
(* CoordinatorInv has three layers.  Waits and Slots are about the         *)
(* coordinator alone: what is in the queue waits and has not ended, and a  *)
(* transfer that was called and has not ended has the slot.  AttemptInv    *)
(* relates one transfer's object to the server's record and the pending    *)
(* response.  OutboxInv and WireInv say what the messages on their way     *)
(* mean when they arrive, above all that an acknowledgement of             *)
(* prepare_transfer finds its function still waiting for it.  Every action *)
(* is shown once to keep the invariant and to move the promise of at most  *)
(* one transfer (Moves); both theorems follow.                             *)
(***************************************************************************)
EXTENDS BinaryTransferClient, AdminConsole, QuotaManager, SequenceTheorems, FiniteSetTheorems, TLAPS

\* The values of a transfer's object, of a request to the server and of the coordinator.
TransferRecord ==
    [status : {"queued", "preparing", "uploading", "downloading", "cancelling"} \cup Terminal,
     phase : Phases, transferId : {0} \cup Attempts, policy : Attempts,
     prepareStarted : BOOLEAN, cancelRequested : BOOLEAN, cancelSent : BOOLEAN,
     serverFinished : BOOLEAN, slotReleased : BOOLEAN, aborted : BOOLEAN]

Asked == [ask : {"prepare", "cancel"}, transfer : Transfers, attempt : Attempts]
ClientRecord == [tr : [Transfers -> TransferRecord], queue : Seq(Transfers),
                 active : Transfers \cup {None}, outbox : SUBSET Asked]

ServerStates == {"none", "pending", "running", "cancelling"} \cup ServerEnds
WireMessage == [event : {"prepared", "cancelAck", "finished"}, transfer : Transfers,
                attempt : Attempts, ok : BOOLEAN,
                state : ServerStates \cup {"unavailable"},
                status : ServerEnds \cup {"none"}]

ClientTypes ==
    /\ client \in ClientRecord
    /\ server \in [Transfers -> [Attempts -> ServerStates]]
    /\ http \in [Transfers -> {"none", "ok", "conflict", "failed"}]
    /\ wire \in Seq(WireMessage)

\* The queue holds transfers that wait and have not ended, each once.
Waits(c) ==
    /\ \A k \in DOMAIN c.queue : c.tr[c.queue[k]].phase = "waiting" /\ ~Terminalized(c, c.queue[k])
    /\ \A j, k \in DOMAIN c.queue : c.queue[j] = c.queue[k] => j = k

\* A transfer that was called and has not ended has the slot.
Slots(c) ==
    \A t \in Transfers : ~Terminalized(c, t) =>
        ~c.tr[t].slotReleased /\ (c.tr[t].phase \notin {"absent", "waiting"} => c.active = t)

\* What the fields of one object say of each other.
LocalInv(r) ==
    /\ r.phase = "absent" => r = Absent
    /\ r.phase \in {"absent", "waiting", "called"} =>
          /\ r.transferId = 0 /\ r.prepareStarted = FALSE /\ r.cancelSent = FALSE
          /\ r.policy = 1
    /\ r.prepareStarted = FALSE => r.transferId = 0
    /\ r.phase = "preparing" => r.transferId = 0 /\ r.prepareStarted = TRUE
    /\ r.phase \in {"fetching", "streaming", "asking"} => r.transferId = r.policy
    /\ r.phase = "asking" => r.policy = 1
    /\ r.serverFinished = TRUE => r.transferId # 0

\* The server has finished with the attempt, or was asked to cancel it.
Stops(r, s) == r.transferId = 0 \/ s[r.transferId] \in ServerEnds \/ r.cancelSent = TRUE

\* What the server and the pending response know of a transfer.
AttemptOK(t, r, s, h) ==
    /\ LocalInv(r)
    /\ r.phase \in {"fetching", "asking"} => IsUpload(t)
    /\ r.phase = "streaming" => ~IsUpload(t)
    /\ r.phase \in {"absent", "waiting", "called"} => s[1] = "none"
    /\ r.phase = "asking" \/ r.policy = 2 => s[1] = "conflict"
    /\ r.policy = 1 => s[2] = "none"
    /\ \A n \in Attempts : s[n] \in {"running", "cancelling"} => r.transferId = n
    /\ r.status \in Terminal => Stops(r, s)
    /\ r.serverFinished = TRUE => s[r.transferId] \in ServerEnds
    /\ h # "none" => r.phase = "fetching"
    /\ h = "ok" => s[r.transferId] = "completed"
    /\ h = "conflict" => s[r.transferId] = "conflict" /\ r.transferId = 1

AttemptInv(t) == AttemptOK(t, client.tr[t], server[t], http[t])

\* A request for a token is awaited and new to the server; a cancellation was noted.
OutboxInv ==
    \A m \in client.outbox :
        /\ m.ask = "prepare" => /\ client.tr[m.transfer].phase = "preparing"
                                /\ client.tr[m.transfer].policy = m.attempt
                                /\ server[m.transfer][m.attempt] = "none"
        /\ m.ask = "cancel" => client.tr[m.transfer].cancelSent = TRUE

\* An acknowledgement of prepare_transfer is awaited and the only one; transfer_finished is true.
WireInv ==
    \A k \in DOMAIN wire :
        LET m == wire[k] t == wire[k].transfer IN
        /\ m.event = "prepared" =>
              /\ client.tr[t].phase = "preparing" /\ client.tr[t].policy = m.attempt
              /\ \A q \in client.outbox : q.transfer = t => q.ask # "prepare"
              /\ \A j \in DOMAIN wire : wire[j].event = "prepared" /\ wire[j].transfer = t => j = k
        /\ m.event = "finished" => server[t][m.attempt] \in ServerEnds
        /\ m.event = "cancelAck" => client.tr[t].cancelSent = TRUE

\* The inductive invariant.
CoordinatorInv ==
    /\ ClientTypes /\ Waits(client) /\ Slots(client)
    /\ \A t \in Transfers : AttemptInv(t)
    /\ OutboxInv /\ WireInv

Good(c) == c \in ClientRecord /\ Waits(c) /\ Slots(c)

\* drainQueue calls a waiting transfer that has not ended.
Called(r, s) ==
    \/ s = r
    \/ r.phase = "waiting" /\ r.status \notin Terminal /\ s = [r EXCEPT !.phase = "called"]

----------------------------------------------------------------------------
(* Sequences.                                                              *)

\* A sequence without its first element.
LEMMA AfterFirst ==
    ASSUME NEW T, NEW q \in Seq(T), q # <<>>
    PROVE  /\ 1 \in DOMAIN q /\ SubSeq(q, 2, Len(q)) \in Seq(T)
           /\ \A k \in DOMAIN SubSeq(q, 2, Len(q)) :
                 k + 1 \in DOMAIN q /\ SubSeq(q, 2, Len(q))[k] = q[k + 1]
  OBVIOUS

\* The part of a sequence from one position to another.
LEMMA PartOf ==
    ASSUME NEW T, NEW q \in Seq(T), NEW m \in Nat, NEW n \in Nat, m >= 1, n <= Len(q), m <= n + 1
    PROVE  /\ SubSeq(q, m, n) \in Seq(T) /\ Len(SubSeq(q, m, n)) = (n + 1) - m
           /\ \A k \in 1 .. (n + 1) - m : SubSeq(q, m, n)[k] = q[(m - 1) + k]
<1>1. Len(q) \in Nat /\ \A k \in 1 .. Len(q) : q[k] \in T
    OBVIOUS
<1>2. m \in Int /\ n \in Int /\ \A k \in m .. n : q[k] \in T
    BY <1>1
<1> DEFINE b == SubSeq(q, m, n)
<1>3. /\ b \in Seq(T) /\ Len(b) = IF m <= n THEN n - m + 1 ELSE 0
      /\ \A k \in 1 .. n - m + 1 : b[k] = q[m + k - 1]
    BY <1>2, SubSeqProperties
<1> HIDE DEF b
<1>4. Len(b) = (n + 1) - m
    BY <1>3
<1>5. ASSUME NEW k \in 1 .. (n + 1) - m
      PROVE  b[k] = q[(m - 1) + k]
  BY <1>3
<1> QED  BY <1>3, <1>4, <1>5 DEF b

\* RemoveAt takes out one position.
LEMMA RemovedAt ==
    ASSUME NEW T, NEW q \in Seq(T), NEW i \in 1 .. Len(q)
    PROVE  LET p == RemoveAt(q, i) IN
           /\ p \in Seq(T) /\ DOMAIN p = 1 .. Len(q) - 1
           /\ \A k \in DOMAIN p : /\ k < i => p[k] = q[k]
                                  /\ k >= i => p[k] = q[k + 1]
<1> DEFINE a == SubSeq(q, 1, i - 1)
           b == SubSeq(q, i + 1, Len(q))
           p == a \o b
<1>n. Len(q) \in Nat /\ i \in Nat /\ i >= 1 /\ i <= Len(q) /\ i - 1 \in Nat /\ i + 1 \in Nat
    OBVIOUS
<1>1. a \in Seq(T) /\ Len(a) = i - 1 /\ \A k \in 1 .. i - 1 : a[k] = q[k]
  <2>1. /\ a \in Seq(T) /\ Len(a) = ((i - 1) + 1) - 1
        /\ \A k \in 1 .. ((i - 1) + 1) - 1 : a[k] = q[(1 - 1) + k]
      BY <1>n, PartOf
  <2> HIDE DEF a
  <2>2. ((i - 1) + 1) - 1 = i - 1 /\ \A k \in 1 .. i - 1 : (1 - 1) + k = k
      BY <1>n
  <2> QED  BY <2>1, <2>2
<1>2. b \in Seq(T) /\ Len(b) = Len(q) - i /\ \A k \in 1 .. Len(q) - i : b[k] = q[i + k]
  <2>0. Len(q) <= Len(q) /\ i + 1 <= Len(q) + 1 /\ i + 1 >= 1
      BY <1>n
  <2>1. /\ b \in Seq(T) /\ Len(b) = (Len(q) + 1) - (i + 1)
        /\ \A k \in 1 .. (Len(q) + 1) - (i + 1) : b[k] = q[((i + 1) - 1) + k]
      BY <1>n, <2>0, PartOf
  <2> HIDE DEF b
  <2>2. (Len(q) + 1) - (i + 1) = Len(q) - i /\ (i + 1) - 1 = i
      BY <1>n
  <2> QED  BY <2>1, <2>2
<1> HIDE DEF a, b
<1>3. /\ p \in Seq(T) /\ Len(p) = Len(a) + Len(b)
      /\ \A k \in 1 .. Len(a) + Len(b) : p[k] = IF k <= Len(a) THEN a[k] ELSE b[k - Len(a)]
    BY <1>1, <1>2, ConcatProperties
<1>4. RemoveAt(q, i) = p
    BY DEF RemoveAt, a, b
<1> HIDE DEF p
<1>5. Len(p) = Len(q) - 1 /\ Len(a) + Len(b) = Len(q) - 1
    BY <1>1, <1>2, <1>3, <1>n
<1>6. DOMAIN p = 1 .. Len(q) - 1
    BY <1>3, <1>5
<1>7. ASSUME NEW k \in 1 .. Len(q) - 1
      PROVE  (k < i => p[k] = q[k]) /\ (k >= i => p[k] = q[k + 1])
  <2>1. p[k] = IF k <= i - 1 THEN a[k] ELSE b[k - (i - 1)]
      BY <1>3, <1>5, <1>1
  <2>2. CASE k < i
    BY <1>n, <2>2, <2>1, <1>1
  <2>3. CASE k >= i
    <3> DEFINE j == k - (i - 1)
    <3>1. ~(k <= i - 1) /\ ~(k < i) /\ j \in 1 .. Len(q) - i /\ i + j = k + 1
        BY <1>n, <2>3
    <3>2. p[k] = b[j]
        BY <2>1, <3>1
    <3> HIDE DEF j
    <3>3. b[j] = q[i + j]
        BY <3>1, <1>2
    <3> QED  BY <3>1, <3>2, <3>3
  <2>4. k < i \/ k >= i
      BY <1>n
  <2> QED  BY <2>2, <2>3, <2>4
<1> QED  BY <1>3, <1>4, <1>6, <1>7

\* RemoveFirst takes out the one occurrence of an element, if there is one.
LEMMA RemovedFirst ==
    ASSUME NEW T, NEW q \in Seq(T), NEW t,
           \A j, k \in DOMAIN q : q[j] = q[k] => j = k
    PROVE  LET p == RemoveFirst(q, t) IN
           /\ p \in Seq(T)
           /\ \A k \in DOMAIN p : p[k] # t /\ \E j \in DOMAIN q : q[j] = p[k]
           /\ \A j, k \in DOMAIN p : p[j] = p[k] => j = k
<1> DEFINE p == RemoveFirst(q, t)
<1>n. Len(q) \in Nat /\ DOMAIN q = 1 .. Len(q)
    OBVIOUS
<1>1. CASE ~\E i \in 1 .. Len(q) : q[i] = t
  <2>1. p = q
      BY <1>1 DEF RemoveFirst
  <2> QED  BY <1>1, <1>n, <2>1
<1>2. CASE \E i \in 1 .. Len(q) : q[i] = t
  <2>1. PICK i \in 1 .. Len(q) : q[i] = t
      BY <1>2
  <2>2. {k \in 1 .. Len(q) : q[k] = t} = {i}
      BY <1>n, <2>1
  <2>3. Min({i}) = i
      BY <2>1 DEF Min
  <2>4. SelectInSeq(q, LAMBDA v : v = t) = i
      BY <2>2, <2>3 DEF SelectInSeq
  <2>5. p = RemoveAt(q, i)
      BY <1>2, <2>4 DEF RemoveFirst
  <2>6. /\ p \in Seq(T) /\ DOMAIN p = 1 .. Len(q) - 1
        /\ \A k \in DOMAIN p : /\ k < i => p[k] = q[k]
                               /\ k >= i => p[k] = q[k + 1]
      BY <2>5, RemovedAt
  <2> HIDE DEF p
  <2>7. ASSUME NEW k \in DOMAIN p
        PROVE  /\ k \in DOMAIN q /\ k + 1 \in DOMAIN q /\ k \in Nat
               /\ \E j \in DOMAIN q : j # i /\ q[j] = p[k] /\ j = IF k < i THEN k ELSE k + 1
    BY <1>n, <2>6
  <2>8. \A k \in DOMAIN p : p[k] # t /\ \E j \in DOMAIN q : q[j] = p[k]
      BY <2>1, <2>7, <1>n
  <2>9. ASSUME NEW j \in DOMAIN p, NEW k \in DOMAIN p, p[j] = p[k]
        PROVE  j = k
    BY <2>7, <2>9, <1>n
  <2> QED  BY <2>6, <2>8, <2>9 DEF p
<1> QED  BY <1>1, <1>2

----------------------------------------------------------------------------
(* The coordinator's own steps.                                            *)

\* drainQueue keeps the coordinator's own state in order and only calls a transfer that waits.
LEMMA DrainKeeps ==
    ASSUME None \notin Transfers, NEW c, Good(c)
    PROVE  LET d == DrainQueue(c) IN
           /\ Good(d) /\ d.outbox = c.outbox
           /\ \A u \in Transfers : Called(c.tr[u], d.tr[u])
<1> DEFINE first == SelectInSeq(c.queue, LAMBDA t : ~Terminalized(c, t))
           d == DrainQueue(c)
<1>t. /\ c \in ClientRecord /\ c.queue \in Seq(Transfers) /\ c.tr \in [Transfers -> TransferRecord]
      /\ Waits(c) /\ Slots(c)
    BY DEF Good, ClientRecord
<1>1. CASE c.active # None \/ c.queue = <<>>
  <2>1. c.queue = <<>> => first = 0
    BY DEF SelectInSeq
  <2>2. d = c
      BY <1>1, <2>1 DEF DrainQueue
  <2> QED  BY <2>2 DEF Called
<1>2. CASE c.active = None /\ c.queue # <<>>
  <2> DEFINE h == c.queue[1]
             rest == SubSeq(c.queue, 2, Len(c.queue))
  <2>1. /\ 1 \in DOMAIN c.queue /\ rest \in Seq(Transfers)
        /\ \A k \in DOMAIN rest : k + 1 \in DOMAIN c.queue /\ rest[k] = c.queue[k + 1]
      BY <1>t, <1>2, AfterFirst
  <2>2. first = 1
    BY <1>t, <2>1 DEF Waits, Min, SelectInSeq
  <2>3. h \in Transfers /\ c.tr[h].phase = "waiting" /\ ~Terminalized(c, h)
      BY <1>t, <2>1 DEF Waits
  <2>4. d = [c EXCEPT !.active = h, !.queue = rest, !.tr[h].phase = "called"]
    <3>1. d = [c EXCEPT !.active = c.queue[first], !.queue = SubSeq(@, first + 1, Len(@)),
                        !.tr[c.queue[first]].phase = "called"]
        BY <1>2, <2>2 DEF DrainQueue
    <3>2. first + 1 = 2
        BY <2>2
    <3> HIDE DEF first, d
    <3> QED  BY <3>1, <3>2, <2>2
  <2> HIDE DEF first, d, rest, h
  <2>5. /\ d.active = h /\ d.queue = rest /\ d.outbox = c.outbox
        /\ d.tr = [c.tr EXCEPT ![h].phase = "called"] /\ d \in ClientRecord
    <3>1. /\ d.active = h /\ d.queue = rest /\ d.outbox = c.outbox
          /\ d.tr = [c.tr EXCEPT ![h].phase = "called"]
        BY <1>t, <2>4 DEF ClientRecord
    <3>2. d.tr \in [Transfers -> TransferRecord]
        BY <1>t, <2>3, <3>1 DEF TransferRecord, Phases
    <3> QED  BY <1>t, <2>1, <2>3, <2>4, <3>1, <3>2 DEF ClientRecord
  <2>6. /\ d.tr[h] = [c.tr[h] EXCEPT !.phase = "called"]
        /\ \A u \in Transfers : u # h => d.tr[u] = c.tr[u]
      BY <1>t, <2>3, <2>5
  <2>r. c.tr[h] \in TransferRecord
      BY <1>t, <2>3
  <2>7. /\ d.tr[h].phase = "called" /\ d.tr[h].status = c.tr[h].status
        /\ d.tr[h].slotReleased = c.tr[h].slotReleased
      BY <2>6, <2>r DEF TransferRecord
  <2>8. Waits(d)
    BY <2>1, <1>t, <2>6, <2>5 DEF Waits, h, Terminalized
  <2>9. Slots(d)
    BY <1>t, <2>3, <2>5, <2>7, <2>6, <1>2 DEF Slots, Terminalized
  <2>10. \A u \in Transfers : Called(c.tr[u], d.tr[u])
      BY <2>3, <2>6 DEF Called, Terminalized
  <2> QED  BY <2>5, <2>8, <2>9, <2>10 DEF Good, d
<1>3. c.active # None \/ c.queue = <<>> \/ (c.active = None /\ c.queue # <<>>)
    OBVIOUS
<1> QED  BY <1>1, <1>2, <1>3

\* A change of one transfer's object, outside the queue or within its place there.
Touch(c, d, t) ==
    /\ d.queue = c.queue /\ d.active = c.active
    /\ \A u \in Transfers : u # t => d.tr[u] = c.tr[u]
    /\ \/ d.tr[t].phase = c.tr[t].phase /\ (Terminalized(d, t) <=> Terminalized(c, t))
       \/ /\ c.tr[t].phase \notin {"absent", "waiting"}
          /\ d.tr[t].phase \notin {"absent", "waiting"}
    /\ ~Terminalized(d, t) =>
          ~Terminalized(c, t) /\ d.tr[t].slotReleased = c.tr[t].slotReleased

\* A change of one object keeps the coordinator's own state in order.
LEMMA TouchKeeps ==
    ASSUME NEW c, Good(c), NEW t \in Transfers, NEW d \in ClientRecord, Touch(c, d, t)
    PROVE  Good(d)
<1> USE DEF Touch
<1>1. Waits(d)
  BY DEF Good, ClientRecord, Waits, Terminalized
<1>2. Slots(d)
  BY DEF Slots, Good, Terminalized
<1> QED  BY <1>1, <1>2 DEF Good

\* releaseSlot of a transfer that has ended, whose place in the queue is then free.
LEMMA ReleaseKeeps ==
    ASSUME None \notin Transfers, NEW c \in ClientRecord, NEW t \in Transfers, Slots(c),
           Terminalized(c, t),
           \A k \in DOMAIN c.queue : c.queue[k] # t =>
               c.tr[c.queue[k]].phase = "waiting" /\ ~Terminalized(c, c.queue[k]),
           \A j, k \in DOMAIN c.queue : c.queue[j] = c.queue[k] => j = k,
           c.tr[t].slotReleased => Waits(c)
    PROVE  LET d == ReleaseSlot(c, t) IN
           /\ Good(d) /\ d.outbox = c.outbox
           /\ \A u \in Transfers : u # t => Called(c.tr[u], d.tr[u])
           /\ d.tr[t] = [c.tr[t] EXCEPT !.slotReleased = TRUE]
<1>t. /\ c.queue \in Seq(Transfers) /\ c.tr \in [Transfers -> TransferRecord] /\ c.tr[t] \in TransferRecord
      /\ c.active \in Transfers \cup {None}
    BY DEF ClientRecord
<1>1. CASE c.tr[t].slotReleased
  BY <1>1, <1>t DEF ReleaseSlot, TransferRecord, Called, Good
<1>2. CASE ~c.tr[t].slotReleased
  <2> DEFINE e == [c EXCEPT !.tr[t].slotReleased = TRUE, !.queue = RemoveFirst(@, t),
                            !.active = IF @ = t THEN None ELSE @]
             q == RemoveFirst(c.queue, t)
             d == DrainQueue(e)
  <2>1. ReleaseSlot(c, t) = d
      BY <1>2 DEF ReleaseSlot
  <2>2. /\ q \in Seq(Transfers)
        /\ \A k \in DOMAIN q : q[k] # t /\ \E j \in DOMAIN c.queue : c.queue[j] = q[k]
        /\ \A j, k \in DOMAIN q : q[j] = q[k] => j = k
      BY <1>t, RemovedFirst
  <2> HIDE DEF q
  <2>3. /\ e.queue = q /\ e.outbox = c.outbox /\ e.active = IF c.active = t THEN None ELSE c.active
        /\ e.tr = [c.tr EXCEPT ![t].slotReleased = TRUE]
      BY DEF ClientRecord, q
  <2>4. /\ e.tr[t] = [c.tr[t] EXCEPT !.slotReleased = TRUE]
        /\ \A u \in Transfers : u # t => e.tr[u] = c.tr[u]
        /\ e.tr \in [Transfers -> TransferRecord]
    <3>1. [c.tr[t] EXCEPT !.slotReleased = TRUE] \in TransferRecord
        BY <1>t DEF TransferRecord
    <3> QED  BY <1>t, <2>3, <3>1
  <2>5. e \in ClientRecord
      BY <2>2, <2>3, <2>4, <1>t DEF ClientRecord
  <2> HIDE DEF e, d
  <2>6. e.tr[t].status = c.tr[t].status /\ e.tr[t].phase = c.tr[t].phase
      BY <2>4, <1>t DEF TransferRecord
  <2>7. Waits(e)
    BY <2>2, <2>4, <2>3 DEF Terminalized, Waits
  <2>8. Slots(e)
    BY <2>6, <2>4, <2>3 DEF Slots, Terminalized
  <2>9. Good(e)
      BY <2>5, <2>7, <2>8 DEF Good
  <2>10. Good(d) /\ d.outbox = e.outbox /\ \A u \in Transfers : Called(e.tr[u], d.tr[u])
      BY <2>9, DrainKeeps DEF d
  <2>11. d.tr[t] = e.tr[t]
      BY <2>6, <2>10 DEF Called, Terminalized
  <2> QED  BY <2>1, <2>3, <2>4, <2>10, <2>11
<1> QED  BY <1>1, <1>2

\* finalize without deferRelease.
Finalized(c, t, status) == Finalize(c, t, status, FALSE)

EndsAs(r, status) == [r EXCEPT !.status = status, !.slotReleased = TRUE]

\* finalize with its release: the first end of a transfer stays.
LEMMA FinalizeKeeps ==
    ASSUME None \notin Transfers, NEW c, Good(c), NEW t \in Transfers, NEW status \in Terminal
    PROVE  LET d == Finalized(c, t, status) IN
           /\ Good(d) /\ d.outbox = c.outbox
           /\ \A u \in Transfers : u # t => Called(c.tr[u], d.tr[u])
           /\ Terminalized(c, t) => d.tr[t] = c.tr[t]
           /\ ~Terminalized(c, t) => d.tr[t] = EndsAs(c.tr[t], status)
<1>1. CASE Terminalized(c, t)
    BY <1>1 DEF Finalize, Finalized, Called
<1>2. CASE ~Terminalized(c, t)
  <2> DEFINE e == [c EXCEPT !.tr[t].status = status]
             d == ReleaseSlot(e, t)
  <2>t. c \in ClientRecord /\ c.tr \in [Transfers -> TransferRecord] /\ c.tr[t] \in TransferRecord
      BY DEF Good, ClientRecord
  <2>1. Finalized(c, t, status) = d
      BY <1>2 DEF Finalize, Finalized
  <2>2. /\ e.queue = c.queue /\ e.outbox = c.outbox /\ e.active = c.active
        /\ e.tr = [c.tr EXCEPT ![t].status = status]
      BY <2>t DEF ClientRecord
  <2>3. /\ e.tr[t] = [c.tr[t] EXCEPT !.status = status]
        /\ \A u \in Transfers : u # t => e.tr[u] = c.tr[u]
        /\ e.tr \in [Transfers -> TransferRecord]
    BY <2>t, <2>2 DEF TransferRecord
  <2>4. e \in ClientRecord
      BY <2>2, <2>3, <2>t DEF ClientRecord
  <2> HIDE DEF e
  <2>5. e.tr[t].status = status /\ e.tr[t].slotReleased = c.tr[t].slotReleased
      BY <2>3, <2>t DEF TransferRecord
  <2>6. Terminalized(e, t) /\ ~e.tr[t].slotReleased
      BY <1>2, <2>5 DEF Terminalized, Good, Slots
  <2>7. \A k \in DOMAIN e.queue : e.queue[k] # t =>
               e.tr[e.queue[k]].phase = "waiting" /\ ~Terminalized(e, e.queue[k])
    BY <2>2, <2>t, <2>3 DEF Good, Waits, ClientRecord, Terminalized
  <2>8. \A j, k \in DOMAIN e.queue : e.queue[j] = e.queue[k] => j = k
      BY <2>2 DEF Good, Waits
  <2>9. Slots(e)
    BY <2>6, <2>2, <2>3 DEF Slots, Good, Terminalized
  <2>10. /\ Good(d) /\ d.outbox = e.outbox
         /\ \A u \in Transfers : u # t => Called(e.tr[u], d.tr[u])
         /\ d.tr[t] = [e.tr[t] EXCEPT !.slotReleased = TRUE]
      BY <2>4, <2>6, <2>7, <2>8, <2>9, ReleaseKeeps
  <2> HIDE DEF d
  <2>11. d.tr[t] = EndsAs(c.tr[t], status)
      BY <2>3, <2>10 DEF EndsAs
  <2> QED  BY <1>2, <2>1, <2>2, <2>3, <2>10, <2>11
<1> QED  BY <1>1, <1>2

\* What is asked of the server in addition is the cancellation that the transfer has noted.
Mailed(c, d, t) ==
    \A m \in d.outbox :
        m \in c.outbox \/ (m.ask = "cancel" /\ m.transfer = t /\ d.tr[t].cancelSent = TRUE)

\* cancelPreparedTransfer notes what it asks of the server.
LEMMA CancelPreparedKeeps ==
    ASSUME NEW c, Good(c), NEW t \in Transfers
    PROVE  LET d == CancelPreparedTransfer(c, t) IN
           /\ Good(d) /\ Mailed(c, d, t)
           /\ \A u \in Transfers : u # t => d.tr[u] = c.tr[u]
           /\ d.tr[t] = IF c.tr[t].transferId = 0 THEN c.tr[t]
                        ELSE [c.tr[t] EXCEPT !.cancelSent = TRUE]
<1>t. /\ c \in ClientRecord /\ c.tr \in [Transfers -> TransferRecord] /\ c.tr[t] \in TransferRecord
      /\ c.outbox \subseteq Asked
    BY DEF Good, ClientRecord
<1>1. CASE c.tr[t].transferId = 0 \/ c.tr[t].cancelSent
  BY <1>1, <1>t DEF CancelPreparedTransfer, TransferRecord, Mailed
<1>2. CASE c.tr[t].transferId # 0 /\ ~c.tr[t].cancelSent
  <2> DEFINE m == [ask |-> "cancel", transfer |-> t, attempt |-> c.tr[t].transferId]
             d == [c EXCEPT !.tr[t].cancelSent = TRUE, !.outbox = @ \cup {m}]
  <2>1. CancelPreparedTransfer(c, t) = d
      BY <1>2 DEF CancelPreparedTransfer
  <2>2. /\ d.queue = c.queue /\ d.active = c.active /\ d.outbox = c.outbox \cup {m}
        /\ d.tr = [c.tr EXCEPT ![t].cancelSent = TRUE]
      BY <1>t DEF ClientRecord
  <2>3. m \in Asked
      BY <1>2, <1>t DEF Asked, TransferRecord
  <2>4. /\ d.tr[t] = [c.tr[t] EXCEPT !.cancelSent = TRUE]
        /\ \A u \in Transfers : u # t => d.tr[u] = c.tr[u]
        /\ d.tr \in [Transfers -> TransferRecord]
    <3>1. [c.tr[t] EXCEPT !.cancelSent = TRUE] \in TransferRecord
        BY <1>t DEF TransferRecord
    <3> QED  BY <1>t, <2>2, <3>1
  <2>5. d \in ClientRecord
      BY <2>2, <2>3, <2>4, <1>t DEF ClientRecord
  <2>6. /\ d.tr[t].phase = c.tr[t].phase /\ d.tr[t].status = c.tr[t].status
        /\ d.tr[t].slotReleased = c.tr[t].slotReleased /\ d.tr[t].cancelSent = TRUE
      BY <2>4, <1>t DEF TransferRecord
  <2>9. m.ask = "cancel" /\ m.transfer = t
      OBVIOUS
  <2> HIDE DEF d, m
  <2>10. Terminalized(d, t) <=> Terminalized(c, t)
      BY <2>6 DEF Terminalized
  <2>7. Good(d)
    <3>1. Touch(c, d, t)
        BY <2>2, <2>4, <2>6, <2>10 DEF Touch
    <3> QED  BY <2>5, <3>1, TouchKeeps
  <2>8. Mailed(c, d, t)
      BY <2>2, <2>6, <2>9 DEF Mailed
  <2> QED  BY <1>2, <2>1, <2>4, <2>7, <2>8
<1> QED  BY <1>1, <1>2

\* The ways out of the catch block: the transfer had ended; its cancellation is under way; it
\* ends and nothing of it runs; it ends and the server is asked to stop.
CaughtAs(r, s) ==
    \/ r.status \in Terminal /\ s = [r EXCEPT !.phase = "returned"]
    \/ r.status \in Terminal /\ s = [r EXCEPT !.phase = "returned", !.slotReleased = TRUE]
    \/ r.status \notin Terminal /\ s = [r EXCEPT !.phase = "returned"]
    \/ /\ r.status \notin Terminal /\ (r.transferId = 0 \/ r.serverFinished)
       /\ \E x \in {"cancelled", "error"} :
             s = [r EXCEPT !.phase = "returned", !.status = x, !.slotReleased = TRUE]
    \/ /\ r.status \notin Terminal /\ r.transferId # 0
       /\ s = [r EXCEPT !.phase = "returned", !.status = "error", !.cancelSent = TRUE]

\* The catch block keeps the coordinator's own state in order.
LEMMA CaughtKeeps ==
    ASSUME None \notin Transfers, NEW c, Good(c), NEW t \in Transfers,
           c.tr[t].phase \notin {"absent", "waiting"}
    PROVE  LET d == Caught(c, t) IN
           /\ Good(d) /\ Mailed(c, d, t)
           /\ \A u \in Transfers : u # t => Called(c.tr[u], d.tr[u])
           /\ CaughtAs(c.tr[t], d.tr[t])
<1> DEFINE e == [c EXCEPT !.tr[t].phase = "returned"]
           r == c.tr[t]
<1>t. /\ c \in ClientRecord /\ c.tr \in [Transfers -> TransferRecord] /\ r \in TransferRecord
      /\ c.outbox \subseteq Asked
    BY DEF Good, ClientRecord
<1>1. /\ e.queue = c.queue /\ e.outbox = c.outbox /\ e.active = c.active
      /\ e.tr = [c.tr EXCEPT ![t].phase = "returned"]
    BY <1>t DEF ClientRecord
<1>2. /\ e.tr[t] = [r EXCEPT !.phase = "returned"]
      /\ \A u \in Transfers : u # t => e.tr[u] = c.tr[u]
      /\ e.tr \in [Transfers -> TransferRecord]
  BY <1>t, <1>1 DEF TransferRecord, Phases
<1>3. e \in ClientRecord
    BY <1>1, <1>2, <1>t DEF ClientRecord
<1>4. Caught(c, t) =
        CASE Terminalized(c, t) -> IF r.transferId = 0 THEN ReleaseSlot(e, t) ELSE e
          [] ~Terminalized(c, t) /\ r.cancelRequested ->
                IF r.transferId = 0 THEN Finalize(e, t, "cancelled", FALSE) ELSE e
          [] OTHER -> FailOperation(e, t)
    BY DEF Caught
<1> HIDE DEF e
<1>5. /\ e.tr[t].phase = "returned" /\ e.tr[t].status = r.status /\ e.tr[t].transferId = r.transferId
      /\ e.tr[t].slotReleased = r.slotReleased /\ e.tr[t].serverFinished = r.serverFinished
    BY <1>2, <1>t DEF TransferRecord
<1>6. Good(e) /\ (Terminalized(e, t) <=> Terminalized(c, t))
  <2>1. Terminalized(e, t) <=> Terminalized(c, t)
      BY <1>5 DEF Terminalized
  <2>3. Touch(c, e, t)
      BY <1>1, <1>2, <1>5, <2>1 DEF Touch
  <2>4. Good(e)
      BY <1>3, <2>3, TouchKeeps
  <2> QED  BY <2>1, <2>4
<1>7. \A u \in Transfers : u # t => Called(c.tr[u], e.tr[u])
    BY <1>2 DEF Called
<1>8. CASE Terminalized(c, t) /\ r.transferId = 0
  <2> DEFINE d == ReleaseSlot(e, t)
  <2>0. Caught(c, t) = d
      BY <1>4, <1>8
  <2>1. /\ Good(d) /\ d.outbox = e.outbox
        /\ \A u \in Transfers : u # t => Called(e.tr[u], d.tr[u])
        /\ d.tr[t] = [e.tr[t] EXCEPT !.slotReleased = TRUE]
    BY <1>6, <1>8, ReleaseKeeps DEF Good, Waits
  <2> HIDE DEF d
  <2>2. d.tr[t] = [r EXCEPT !.phase = "returned", !.slotReleased = TRUE]
      BY <2>1, <1>2
  <2>3. \A u \in Transfers : u # t => Called(c.tr[u], d.tr[u])
      BY <2>1, <1>2
  <2> QED  BY <1>1, <1>8, <2>0, <2>1, <2>2, <2>3 DEF CaughtAs, Mailed, Terminalized
<1>9. CASE \/ Terminalized(c, t) /\ r.transferId # 0
           \/ ~Terminalized(c, t) /\ r.cancelRequested /\ r.transferId # 0
  <2>1. Caught(c, t) = e
      BY <1>4, <1>9
  <2> QED  BY <1>1, <1>2, <1>6, <1>7, <1>9, <2>1 DEF CaughtAs, Mailed, Terminalized
<1>10. ASSUME NEW x \in {"cancelled", "error"}, Caught(c, t) = Finalized(e, t, x),
              ~Terminalized(c, t), r.transferId = 0 \/ r.serverFinished
       PROVE  /\ Good(Caught(c, t)) /\ Mailed(c, Caught(c, t), t)
              /\ \A u \in Transfers : u # t => Called(c.tr[u], Caught(c, t).tr[u])
              /\ CaughtAs(c.tr[t], Caught(c, t).tr[t])
  <2> DEFINE d == Finalized(e, t, x)
  <2>0. x \in Terminal
      BY DEF Terminal
  <2>1. /\ Good(d) /\ d.outbox = e.outbox
        /\ \A u \in Transfers : u # t => Called(e.tr[u], d.tr[u])
        /\ Terminalized(e, t) => d.tr[t] = e.tr[t]
        /\ ~Terminalized(e, t) => d.tr[t] = EndsAs(e.tr[t], x)
    <3>1. Good(e)
        BY <1>6
    <3> HIDE DEF r
    <3> QED  BY <3>1, <2>0, FinalizeKeeps
  <2> HIDE DEF d
  <2>2. d.tr[t] = [r EXCEPT !.phase = "returned", !.status = x, !.slotReleased = TRUE]
      BY <2>1, <1>2, <1>6, <1>10 DEF EndsAs
  <2>3. \A u \in Transfers : u # t => Called(c.tr[u], d.tr[u])
      BY <2>1, <1>2
  <2>4. Caught(c, t) = d
      BY <1>10 DEF d
  <2> QED  BY <1>1, <1>10, <2>1, <2>2, <2>3, <2>4 DEF CaughtAs, Mailed, Terminalized
<1>11. CASE ~Terminalized(c, t) /\ r.cancelRequested /\ r.transferId = 0
  BY <1>4, <1>11, <1>10 DEF Finalized
<1>12. CASE ~Terminalized(c, t) /\ ~r.cancelRequested
  <2>1. Caught(c, t) = FailOperation(e, t)
      BY <1>4, <1>12
  <2>2. e.active = t
      BY <1>5, <1>6, <1>12 DEF Good, Slots
  <2>3. CASE r.transferId = 0 \/ r.serverFinished
    BY <1>5, <2>2, <2>3, <1>10, <1>12, <2>1 DEF FailOperation, Finalize, Finalized
  <2>4. CASE r.transferId # 0 /\ ~r.serverFinished
    <3> DEFINE f == [e EXCEPT !.tr[t].status = "error"]
               d == CancelPreparedTransfer(f, t)
    <3>1. FailOperation(e, t) = d
        BY <1>5, <1>6, <1>12, <2>2, <2>4 DEF FailOperation, Finalize
    <3>2. /\ f.queue = e.queue /\ f.outbox = e.outbox /\ f.active = e.active
          /\ f.tr = [e.tr EXCEPT ![t].status = "error"]
        BY <1>3 DEF ClientRecord
    <3>3. /\ f.tr[t] = [e.tr[t] EXCEPT !.status = "error"]
          /\ \A u \in Transfers : u # t => f.tr[u] = e.tr[u]
          /\ f.tr \in [Transfers -> TransferRecord]
      <4>1. [e.tr[t] EXCEPT !.status = "error"] \in TransferRecord
        <5>1. e.tr[t] \in TransferRecord
            BY <1>2
        <5> QED  BY <5>1 DEF TransferRecord, Terminal
      <4> QED  BY <1>2, <3>2, <4>1
    <3>4. f \in ClientRecord
        BY <3>2, <3>3, <1>3 DEF ClientRecord
    <3> HIDE DEF f
    <3>5. f.tr[t].phase = "returned" /\ f.tr[t].status = "error" /\ f.tr[t].transferId = r.transferId
        BY <3>3, <1>2, <1>5 DEF TransferRecord
    <3>6. Terminalized(f, t)
        BY <3>5 DEF Terminalized, Terminal
    <3>7. Good(f)
      <4>1. Touch(e, f, t)
          BY <3>2, <3>3, <3>5, <3>6, <1>5 DEF Touch
      <4> QED  BY <3>4, <4>1, <1>6, TouchKeeps
    <3>8. /\ Good(d) /\ Mailed(f, d, t)
          /\ \A u \in Transfers : u # t => d.tr[u] = f.tr[u]
          /\ d.tr[t] = IF f.tr[t].transferId = 0 THEN f.tr[t]
                       ELSE [f.tr[t] EXCEPT !.cancelSent = TRUE]
        BY <3>7, CancelPreparedKeeps
    <3> HIDE DEF d
    <3>9. d.tr[t] = [r EXCEPT !.phase = "returned", !.status = "error", !.cancelSent = TRUE]
        BY <2>4, <3>3, <3>5, <3>8, <1>2
    <3>10. Mailed(c, d, t)
        BY <3>2, <3>8, <1>1 DEF Mailed
    <3>11. \A u \in Transfers : u # t => Called(c.tr[u], d.tr[u])
        BY <3>3, <3>8, <1>2 DEF Called
    <3> QED  BY <1>12, <2>1, <2>4, <3>1, <3>8, <3>9, <3>10, <3>11 DEF CaughtAs, Terminalized
  <2> QED  BY <2>3, <2>4
<1> QED  BY <1>8, <1>9, <1>11, <1>12

----------------------------------------------------------------------------
(* One transfer and the server.                                            *)

\* A transfer that drainQueue calls keeps its agreement with the server.
LEMMA CalledKeeps ==
    ASSUME NEW t, NEW r \in TransferRecord, NEW q, NEW s, NEW h, AttemptOK(t, r, s, h), Called(r, q)
    PROVE  AttemptOK(t, q, s, h)
  BY DEF TransferRecord, AttemptOK, LocalInv, Stops, Called

\* A transfer's end, or the catch block, after the response was read.
LEMMA CaughtOK ==
    ASSUME NEW t, NEW r \in TransferRecord, NEW q, NEW s, NEW h, AttemptOK(t, r, s, h), CaughtAs(r, q),
           r.phase \notin {"absent", "waiting"}
    PROVE  /\ AttemptOK(t, q, s, "none")
           /\ q.phase = "returned" /\ (r.cancelSent = TRUE => q.cancelSent = TRUE)
<1> DEFINE Same == /\ q.phase = "returned" /\ q.transferId = r.transferId
                   /\ q.policy = r.policy /\ q.prepareStarted = r.prepareStarted
                   /\ q.serverFinished = r.serverFinished
<1>1. Same /\ (r.cancelSent = TRUE => q.cancelSent = TRUE)
    BY DEF CaughtAs, TransferRecord
<1>2. q.status \in Terminal => Stops(q, s)
  BY <1>1 DEF AttemptOK, Stops, TransferRecord, CaughtAs
<1> QED  BY <1>1, <1>2 DEF AttemptOK, LocalInv

\* finalize: whoever ends a transfer that runs has asked the server to stop, or knows that it has.
LEMMA EndsOK ==
    ASSUME NEW t, NEW r \in TransferRecord, NEW x, NEW s, NEW h, AttemptOK(t, r, s, h),
           r.phase # "absent", Stops(r, s)
    PROVE  AttemptOK(t, EndsAs(r, x), s, h)
<1> DEFINE q == EndsAs(r, x)
<1>1. /\ q.phase = r.phase /\ q.status = x /\ q.transferId = r.transferId
      /\ q.policy = r.policy /\ q.prepareStarted = r.prepareStarted
      /\ q.cancelSent = r.cancelSent /\ q.serverFinished = r.serverFinished
    BY DEF EndsAs, TransferRecord
<1> HIDE DEF q
<1>2. AttemptOK(t, q, s, h)
    BY <1>1 DEF AttemptOK, LocalInv, Stops
<1> QED  BY <1>2 DEF q

----------------------------------------------------------------------------
(* Requests to the server and its messages.                                *)

\* The client reads at most the first message.
Reads(d) ==
    /\ d \in {0, 1} /\ wire' \in Seq(WireMessage)
    /\ \A k \in DOMAIN wire' : k \in Nat /\ k + d \in DOMAIN wire /\ wire'[k] = wire[k + d]

\* A step that takes no message off the wire.
LEMMA ReadsNone ==
    ASSUME wire \in Seq(WireMessage), wire' = wire
    PROVE  Reads(0)
  BY DEF Reads

\* A step that takes the first message off the wire.
LEMMA ReadsFirst ==
    ASSUME wire \in Seq(WireMessage), wire # <<>>, wire' = Tail(wire)
    PROVE  /\ Reads(1) /\ 1 \in DOMAIN wire /\ Head(wire) = wire[1] /\ wire[1] \in WireMessage
           /\ \A k \in DOMAIN wire' : k + 1 # 1
  BY HeadTailProperties DEF Reads

Unprepared(t) ==
    /\ \A k \in DOMAIN wire' : wire'[k].event = "prepared" => wire'[k].transfer # t
    /\ \A m \in client'.outbox : m.ask = "prepare" => m.transfer # t

\* A step of the client that asks for no token.
LEMMA MailKeeps ==
    ASSUME CoordinatorInv, NEW t \in Transfers, server' = server, client' \in ClientRecord,
           \A u \in Transfers : u # t => Called(client.tr[u], client'.tr[u]),
           \/ client.tr[t].phase = "preparing" => /\ client'.tr[t].phase = "preparing"
                                                  /\ client'.tr[t].policy = client.tr[t].policy
           \/ Unprepared(t),
           client.tr[t].cancelSent = TRUE => client'.tr[t].cancelSent = TRUE,
           Mailed(client, client', t), NEW d, Reads(d)
    PROVE  OutboxInv' /\ WireInv'
<1>t. /\ client.tr \in [Transfers -> TransferRecord] /\ client.outbox \subseteq Asked
      /\ wire \in Seq(WireMessage) /\ wire' \in Seq(WireMessage) /\ client'.outbox \subseteq Asked
    BY DEF CoordinatorInv, ClientTypes, ClientRecord, Reads
<1>1. ASSUME NEW u \in Transfers, client.tr[u].cancelSent = TRUE
      PROVE  client'.tr[u].cancelSent = TRUE
    BY <1>1, <1>t DEF Called, TransferRecord
<1>2. ASSUME NEW u \in Transfers, client.tr[u].phase = "preparing", u # t \/ ~Unprepared(t)
      PROVE  client'.tr[u].phase = "preparing" /\ client'.tr[u].policy = client.tr[u].policy
    BY <1>2, <1>t DEF Called, TransferRecord
<1>3. OutboxInv'
  BY <1>t, <1>1, <1>2 DEF OutboxInv, Asked, Unprepared, CoordinatorInv, Mailed
<1>4. WireInv'
  <2> SUFFICES ASSUME NEW k \in DOMAIN wire'
               PROVE  LET m == wire'[k] x == wire'[k].transfer IN
        /\ m.event = "prepared" =>
              /\ client'.tr[x].phase = "preparing" /\ client'.tr[x].policy = m.attempt
              /\ \A q \in client'.outbox : q.transfer = x => q.ask # "prepare"
              /\ \A j \in DOMAIN wire' : wire'[j].event = "prepared" /\ wire'[j].transfer = x => j = k
        /\ m.event = "finished" => server'[x][m.attempt] \in ServerEnds
        /\ m.event = "cancelAck" => client'.tr[x].cancelSent = TRUE
      BY DEF WireInv
  <2> DEFINE m == wire'[k]
             x == wire'[k].transfer
             i == k + d
  <2>1. m \in WireMessage /\ i \in DOMAIN wire /\ m = wire[i]
      BY <1>t DEF Reads
  <2>2. x \in Transfers
      BY <2>1 DEF WireMessage
  <2>3. /\ m.event = "prepared" =>
              /\ client.tr[x].phase = "preparing" /\ client.tr[x].policy = m.attempt
              /\ \A q \in client.outbox : q.transfer = x => q.ask # "prepare"
              /\ \A j \in DOMAIN wire : wire[j].event = "prepared" /\ wire[j].transfer = x => j = i
        /\ m.event = "finished" => server[x][m.attempt] \in ServerEnds
        /\ m.event = "cancelAck" => client.tr[x].cancelSent = TRUE
      BY <2>1 DEF CoordinatorInv, WireInv
  <2> HIDE DEF i
  <2>4. m.event = "prepared" => x # t \/ ~Unprepared(t)
      BY DEF Unprepared
  <2>5. m.event = "prepared" => \A q \in client'.outbox : q.transfer = x => q.ask # "prepare"
      BY <2>3 DEF Mailed
  <2>6. ASSUME m.event = "prepared", NEW j \in DOMAIN wire', wire'[j].event = "prepared",
               wire'[j].transfer = x
        PROVE  j = k
    BY <2>3, <2>6 DEF Reads, i
  <2> HIDE DEF m, x
  <2>7. m.event = "prepared" => client'.tr[x].phase = "preparing" /\ client'.tr[x].policy = m.attempt
      BY <1>2, <2>2, <2>3, <2>4
  <2>8. m.event = "cancelAck" => client'.tr[x].cancelSent = TRUE
      BY <1>1, <2>2, <2>3
  <2>9. m.event = "finished" => server'[x][m.attempt] \in ServerEnds
      BY <2>3
  <2> QED  BY <2>5, <2>6, <2>7, <2>8, <2>9 DEF m, x
<1> QED  BY <1>3, <1>4

----------------------------------------------------------------------------
(* What a transfer's object says of its promise.                           *)

PhaseOf(r) == IF r.phase = "absent" THEN "absent"
              ELSE IF r.status \in Terminal THEN "ended"
              ELSE IF r.phase = "asking" THEN "asking" ELSE "running"
ResultOf(r) == IF r.status \in Terminal THEN r.status ELSE "none"
AskedOf(r) == IF r.status \notin Terminal /\ (r.policy = 2 \/ r.phase = "asking") THEN TRUE ELSE FALSE
CancellingOf(r) == IF r.cancelRequested = TRUE /\ r.status \notin Terminal THEN TRUE ELSE FALSE

PromiseOf(r) == [phase |-> PhaseOf(r), result |-> ResultOf(r), asked |-> AskedOf(r),
                 cancelling |-> CancellingOf(r)]

EndedWith(x) == [phase |-> "ended", result |-> x, asked |-> FALSE, cancelling |-> FALSE]

AsksNow(p, x) == [p EXCEPT !.phase = "asking", !.asked = x]

PromiseStep(t, p, q) ==
    \/ q = p
    \/ p.phase = "absent" /\ q = [p EXCEPT !.phase = "running"]
    \/ /\ t \in Uploads /\ p.phase = "running" /\ p.asked = FALSE
       /\ q = AsksNow(p, TRUE)
    \/ p.phase \in {"running", "asking"} /\ \E x \in {"completed", "cancelled", "error"} : q = EndedWith(x)
    \/ p.phase = "asking" /\ q = [p EXCEPT !.phase = "running"]
    \/ p.phase = "asking" /\ q = EndedWith("skipped")
    \/ /\ p.phase \in {"running", "asking"} /\ p.cancelling = FALSE
       /\ q = [p EXCEPT !.cancelling = TRUE]

Moves(t) ==
    /\ \A u \in Transfers : u # t => Called(client.tr[u], client'.tr[u])
    /\ PromiseStep(t, PromiseOf(client.tr[t]), PromiseOf(client'.tr[t]))

\* The record of a promise that is asked about.
LEMMA AskedPromise ==
    ASSUME NEW a, NEW b, NEW c, NEW d, NEW x
    PROVE  AsksNow([phase |-> a, result |-> b, asked |-> c, cancelling |-> d], x) =
           [phase |-> "asking", result |-> b, asked |-> x, cancelling |-> d]
<1> DEFINE p == [phase |-> a, result |-> b, asked |-> c, cancelling |-> d]
           q == [p EXCEPT !.phase = "asking"]
<1>1. [p EXCEPT !.phase = "asking", !.asked = x] = [q EXCEPT !.asked = x]
    OBVIOUS
<1>2. q = [phase |-> "asking", result |-> b, asked |-> c, cancelling |-> d]
    OBVIOUS
<1> HIDE DEF p, q
<1>3. [q EXCEPT !.asked = x] = [phase |-> "asking", result |-> b, asked |-> x, cancelling |-> d]
    BY <1>2
<1> QED  BY <1>1, <1>3 DEF p, AsksNow

\* A step that the promise does not see.
LEMMA SilentStep ==
    ASSUME NEW r, NEW s, r.phase # "absent", s.phase # "absent",
           r.status \in Terminal => s.status = r.status,
           r.status \notin Terminal =>
               /\ s.status \notin Terminal /\ (r.phase = "asking" <=> s.phase = "asking")
               /\ s.policy = r.policy /\ s.cancelRequested = r.cancelRequested
    PROVE  PromiseOf(s) = PromiseOf(r)
  BY DEF PhaseOf, ResultOf, AskedOf, CancellingOf, PromiseOf

\* The promise of a transfer that has ended.
LEMMA EndedPromise ==
    ASSUME NEW s, s.phase # "absent", s.status \in Terminal
    PROVE  PromiseOf(s) = EndedWith(s.status)
  BY DEF PhaseOf, ResultOf, AskedOf, CancellingOf, PromiseOf, EndedWith

\* enqueue begins the promise.
LEMMA BeginStep ==
    ASSUME NEW t, NEW r, NEW s, r.phase = "absent", s.phase \in {"waiting", "called"},
           r.status = "queued", s.status = "queued", s.policy = r.policy,
           s.cancelRequested = r.cancelRequested
    PROVE  PromiseStep(t, PromiseOf(r), PromiseOf(s))
<1>0. "queued" \notin Terminal
    BY DEF Terminal
<1>1. PhaseOf(r) = "absent" /\ PhaseOf(s) = "running" /\ ResultOf(s) = ResultOf(r)
    BY <1>0 DEF PhaseOf, ResultOf
<1>2. AskedOf(s) = AskedOf(r)
    BY <1>0 DEF AskedOf
<1>3. CancellingOf(s) = CancellingOf(r)
    BY <1>0 DEF CancellingOf
<1>4. PromiseOf(r).phase = "absent" /\ PromiseOf(s) = [PromiseOf(r) EXCEPT !.phase = "running"]
    BY <1>1, <1>2, <1>3 DEF PromiseOf
<1> QED  BY <1>4 DEF PromiseStep

\* The catch block ends the promise or leaves it.
LEMMA CaughtStep ==
    ASSUME NEW t, NEW r \in TransferRecord, NEW s, CaughtAs(r, s),
           r.phase \notin {"absent", "waiting", "asking"}
    PROVE  PromiseStep(t, PromiseOf(r), PromiseOf(s))
<1>1. /\ s.phase = "returned" /\ s.policy = r.policy /\ s.cancelRequested = r.cancelRequested
      /\ s.status = r.status \/ (r.status \notin Terminal /\ s.status \in {"cancelled", "error"})
    BY DEF CaughtAs, TransferRecord
<1>2. CASE s.status = r.status
    BY <1>1, <1>2, SilentStep DEF PromiseStep
<1>3. CASE r.status \notin Terminal /\ s.status \in {"cancelled", "error"}
  <2>1. PromiseOf(s) = EndedWith(s.status)
      BY <1>1, <1>3, EndedPromise DEF Terminal
  <2>2. PromiseOf(r).phase \in {"running", "asking"}
      BY <1>3 DEF PromiseOf, PhaseOf
  <2> QED  BY <1>3, <2>1, <2>2 DEF PromiseStep
<1> QED  BY <1>1, <1>2, <1>3

\* finalize ends the promise.
LEMMA EndsStep ==
    ASSUME NEW t, NEW r \in TransferRecord, NEW x \in Terminal, r.phase # "absent",
           r.status \notin Terminal, x = "skipped" => r.phase = "asking"
    PROVE  PromiseStep(t, PromiseOf(r), PromiseOf(EndsAs(r, x)))
<1> DEFINE s == EndsAs(r, x)
<1>1. s.phase = r.phase /\ s.status = x
    BY DEF EndsAs, TransferRecord
<1> HIDE DEF s
<1>2. PromiseOf(s) = EndedWith(x)
    BY <1>1, EndedPromise
<1>3. PromiseOf(r).phase \in {"running", "asking"} /\ (x = "skipped" => PromiseOf(r).phase = "asking")
    BY DEF PromiseOf, PhaseOf
<1>4. PromiseStep(t, PromiseOf(r), PromiseOf(s))
    BY <1>2, <1>3 DEF PromiseStep, Terminal
<1> QED  BY <1>4 DEF s

----------------------------------------------------------------------------
(* Every step of the coordinator.                                          *)

\* A step of the coordinator keeps the invariant when it does so for its own transfer.
LEMMA StepKeeps ==
    ASSUME CoordinatorInv, NEW t \in Transfers, Good(client'), server' = server,
           http' \in [Transfers -> {"none", "ok", "conflict", "failed"}],
           \A u \in Transfers : u # t => http'[u] = http[u],
           \A u \in Transfers : u # t => Called(client.tr[u], client'.tr[u]),
           AttemptOK(t, client'.tr[t], server[t], http'[t]),
           wire' \in Seq(WireMessage), OutboxInv', WireInv'
    PROVE  CoordinatorInv'
<1>1. ASSUME NEW u \in Transfers
      PROVE  AttemptInv(u)'
  <2>1. AttemptOK(u, client'.tr[u], server[u], http'[u])
    BY CalledKeeps DEF CoordinatorInv, ClientTypes, ClientRecord, AttemptInv
  <2> QED  BY <2>1 DEF AttemptInv
<1>2. ClientTypes'
    BY DEF ClientTypes, Good, CoordinatorInv
<1> QED  BY <1>1, <1>2 DEF CoordinatorInv, Good

\* The parts of the invariant that every action uses.
LEMMA Facts ==
    ASSUME CoordinatorInv, NEW t \in Transfers
    PROVE  /\ Good(client) /\ client \in ClientRecord /\ client.tr \in [Transfers -> TransferRecord]
           /\ client.tr[t] \in TransferRecord /\ AttemptOK(t, client.tr[t], server[t], http[t])
           /\ LocalInv(client.tr[t])
           /\ wire \in Seq(WireMessage) /\ http \in [Transfers -> {"none", "ok", "conflict", "failed"}]
           /\ server \in [Transfers -> [Attempts -> ServerStates]] /\ client.outbox \subseteq Asked
  BY DEF CoordinatorInv, ClientTypes, ClientRecord, AttemptInv, AttemptOK, Good

\* A step into the catch block.
LEMMA CaughtStepKeeps ==
    ASSUME None \notin Transfers, CoordinatorInv, NEW t \in Transfers, client' = Caught(client, t),
           client.tr[t].phase \in {"called", "preparing", "fetching"}, server' = server,
           http' = http \/ http' = [http EXCEPT ![t] = "none"],
           client.tr[t].phase # "fetching" => http' = http,
           client.tr[t].phase = "fetching" => http'[t] = "none",
           NEW d, Reads(d), client.tr[t].phase = "preparing" => Unprepared(t)
    PROVE  CoordinatorInv' /\ Moves(t)
<1>0. /\ Good(client) /\ client.tr[t] \in TransferRecord /\ AttemptOK(t, client.tr[t], server[t], http[t])
      /\ http \in [Transfers -> {"none", "ok", "conflict", "failed"}]
    BY Facts
<1>p. client.tr[t].phase \notin {"absent", "waiting"}
    OBVIOUS
<1>1. /\ Good(client') /\ Mailed(client, client', t)
      /\ \A u \in Transfers : u # t => Called(client.tr[u], client'.tr[u])
      /\ CaughtAs(client.tr[t], client'.tr[t])
    BY <1>0, <1>p, CaughtKeeps
<1>2. /\ AttemptOK(t, client'.tr[t], server[t], "none")
      /\ client.tr[t].cancelSent = TRUE => client'.tr[t].cancelSent = TRUE
  <2> DEFINE r == client.tr[t]
             q == client'.tr[t]
             s == server[t]
             h == http[t]
  <2>1. r \in TransferRecord /\ AttemptOK(t, r, s, h) /\ CaughtAs(r, q) /\ r.phase \notin {"absent", "waiting"}
      BY <1>0, <1>1, <1>p
  <2> HIDE DEF r, q, s, h
  <2>2. AttemptOK(t, q, s, "none") /\ (r.cancelSent = TRUE => q.cancelSent = TRUE)
      BY <2>1, CaughtOK
  <2> QED  BY <2>2 DEF r, q, s
<1>3. http'[t] = "none"
    BY <1>0 DEF AttemptOK
<1>4. client' \in ClientRecord /\ wire' \in Seq(WireMessage)
    BY <1>1 DEF Good, Reads
<1>5. OutboxInv' /\ WireInv'
    BY <1>1, <1>2, <1>4, MailKeeps
<1>6. http' \in [Transfers -> {"none", "ok", "conflict", "failed"}] /\ \A u \in Transfers : u # t => http'[u] = http[u]
    BY <1>0
<1>7. CoordinatorInv'
    BY <1>1, <1>2, <1>3, <1>4, <1>5, <1>6, StepKeeps
<1>8. Moves(t)
    BY <1>0, <1>1, CaughtStep DEF Moves
<1> QED  BY <1>7, <1>8

\* An object put in the place of another.
LEMMA PutFacts ==
    ASSUME NEW c \in ClientRecord, NEW t \in Transfers, NEW q \in TransferRecord
    PROVE  LET e == Put(c, t, q) IN
           /\ e \in ClientRecord /\ e.queue = c.queue /\ e.active = c.active /\ e.outbox = c.outbox
           /\ e.tr[t] = q /\ \A u \in Transfers : u # t => e.tr[u] = c.tr[u]
<1> DEFINE e == Put(c, t, q)
<1>1. /\ e.queue = c.queue /\ e.active = c.active /\ e.outbox = c.outbox /\ e.tr = [c.tr EXCEPT ![t] = q]
    BY DEF Put, ClientRecord
<1>2. c.tr \in [Transfers -> TransferRecord]
    BY DEF ClientRecord
<1>3. e.tr[t] = q /\ (\A u \in Transfers : u # t => e.tr[u] = c.tr[u]) /\ e.tr \in [Transfers -> TransferRecord]
    BY <1>1, <1>2
<1>4. e \in ClientRecord
    BY <1>1, <1>3 DEF Put, ClientRecord
<1> QED  BY <1>1, <1>3, <1>4

MailKept(r, s) ==
    /\ r.phase = "preparing" => s.phase = "preparing" /\ s.policy = r.policy
    /\ r.cancelSent = TRUE => s.cancelSent = TRUE

\* A step that changes one transfer's object and asks the server for nothing or to cancel.
LEMMA TouchStepKeeps ==
    ASSUME CoordinatorInv, NEW t \in Transfers, client' \in ClientRecord, Touch(client, client', t),
           server' = server, Mailed(client, client', t),
           http' \in [Transfers -> {"none", "ok", "conflict", "failed"}],
           \A u \in Transfers : u # t => http'[u] = http[u],
           AttemptOK(t, client'.tr[t], server[t], http'[t]), NEW d, Reads(d),
           client.tr[t].cancelSent = TRUE => client'.tr[t].cancelSent = TRUE,
           MailKept(client.tr[t], client'.tr[t]) \/ Unprepared(t)
    PROVE  CoordinatorInv' /\ \A u \in Transfers : u # t => Called(client.tr[u], client'.tr[u])
<1>0. Good(client)
    BY Facts
<1>1. Good(client')
    BY <1>0, TouchKeeps
<1>2. \A u \in Transfers : u # t => Called(client.tr[u], client'.tr[u])
    BY DEF Touch, Called
<1>3. wire' \in Seq(WireMessage)
    BY DEF Reads
<1>4. OutboxInv' /\ WireInv'
    BY <1>2, MailKeeps DEF MailKept
<1>5. CoordinatorInv'
    BY <1>1, <1>2, <1>3, <1>4, StepKeeps
<1> QED  BY <1>2, <1>5

\* A step that ends one transfer, after a change of its object.
LEMMA EndStepKeeps ==
    ASSUME None \notin Transfers, CoordinatorInv, NEW t \in Transfers, NEW e, Good(e),
           e.outbox = client.outbox, \A u \in Transfers : u # t => e.tr[u] = client.tr[u],
           NEW x \in Terminal, client' = Finalized(e, t, x), server' = server,
           http' \in [Transfers -> {"none", "ok", "conflict", "failed"}],
           \A u \in Transfers : u # t => http'[u] = http[u],
           AttemptOK(t, e.tr[t], server[t], http'[t]), e.tr[t].phase # "absent",
           e.tr[t].status \notin Terminal => Stops(e.tr[t], server[t]),
           MailKept(client.tr[t], e.tr[t]), NEW d, Reads(d)
    PROVE  /\ CoordinatorInv' /\ \A u \in Transfers : u # t => Called(client.tr[u], client'.tr[u])
           /\ e.tr[t].status \in Terminal => client'.tr[t] = e.tr[t]
           /\ e.tr[t].status \notin Terminal => client'.tr[t] = EndsAs(e.tr[t], x)
<1>1. /\ Good(client') /\ client'.outbox = e.outbox
      /\ \A u \in Transfers : u # t => Called(e.tr[u], client'.tr[u])
      /\ Terminalized(e, t) => client'.tr[t] = e.tr[t]
      /\ ~Terminalized(e, t) => client'.tr[t] = EndsAs(e.tr[t], x)
    BY FinalizeKeeps
<1>2. /\ e.tr[t].status \in Terminal => client'.tr[t] = e.tr[t]
      /\ e.tr[t].status \notin Terminal => client'.tr[t] = EndsAs(e.tr[t], x)
    BY <1>1 DEF Terminalized
<1>3. e.tr[t] \in TransferRecord
    BY DEF Good, ClientRecord
<1>4. AttemptOK(t, client'.tr[t], server[t], http'[t])
  <2> DEFINE r == e.tr[t]
             s == server[t]
             h == http'[t]
  <2>1. r \in TransferRecord /\ AttemptOK(t, r, s, h) /\ r.phase # "absent"
      BY <1>3
  <2>2. r.status \notin Terminal => Stops(r, s)
      OBVIOUS
  <2> HIDE DEF r, s, h
  <2>3. r.status \notin Terminal => AttemptOK(t, EndsAs(r, x), s, h)
      BY <2>1, <2>2, EndsOK
  <2> QED  BY <1>2, <2>1, <2>3 DEF r, s, h
<1>5. \A u \in Transfers : u # t => Called(client.tr[u], client'.tr[u])
    BY <1>1
<1>6. MailKept(client.tr[t], client'.tr[t])
    BY <1>2, <1>3 DEF MailKept, EndsAs, TransferRecord
<1>7. Mailed(client, client', t)
    BY <1>1 DEF Mailed
<1>8. wire' \in Seq(WireMessage) /\ client' \in ClientRecord
    BY <1>1 DEF Reads, Good
<1>9. OutboxInv' /\ WireInv'
    BY <1>5, <1>6, <1>7, <1>8, MailKeeps DEF MailKept
<1>10. CoordinatorInv'
    BY <1>1, <1>4, <1>5, <1>8, <1>9, StepKeeps
<1> QED  BY <1>2, <1>5, <1>10

\* uploadFile, downloadFile and downloadFolder.
LEMMA EnqueueKeeps ==
    ASSUME None \notin Transfers, CoordinatorInv, NEW t \in Transfers, Enqueue(t)
    PROVE  CoordinatorInv' /\ Moves(t)
<1> DEFINE q == [client.tr[t] EXCEPT !.phase = "waiting"]
           e == [client EXCEPT !.tr[t].phase = "waiting", !.queue = Append(@, t)]
<1>0. /\ client \in ClientRecord /\ Good(client) /\ client.tr \in [Transfers -> TransferRecord]
      /\ client.tr[t] \in TransferRecord /\ AttemptOK(t, client.tr[t], server[t], http[t])
      /\ LocalInv(client.tr[t]) /\ client.queue \in Seq(Transfers) /\ wire \in Seq(WireMessage)
      /\ http \in [Transfers -> {"none", "ok", "conflict", "failed"}]
    BY Facts DEF ClientRecord
<1>1. /\ client.tr[t].phase = "absent" /\ client.tr[t] = Absent /\ client' = DrainQueue(e)
      /\ server' = server /\ http' = http /\ wire' = wire
    BY <1>0 DEF Enqueue, Created, LocalInv
<1>2. q \in TransferRecord /\ q = [Absent EXCEPT !.phase = "waiting"]
    BY <1>0, <1>1 DEF TransferRecord, Phases
<1>3. /\ e.tr = [client.tr EXCEPT ![t] = q] /\ e.queue = Append(client.queue, t)
      /\ e.active = client.active /\ e.outbox = client.outbox
    BY <1>0 DEF ClientRecord
<1>4. /\ e.tr[t] = q /\ \A u \in Transfers : u # t => e.tr[u] = client.tr[u]
      /\ e.tr \in [Transfers -> TransferRecord]
    BY <1>0, <1>2, <1>3
<1>5. e \in ClientRecord
  <2>1. e.queue \in Seq(Transfers)
      BY <1>0, <1>3
  <2> QED  BY <1>0, <1>3, <1>4, <2>1 DEF ClientRecord
<1>6. q.phase = "waiting" /\ q.status = "queued" /\ q.slotReleased = FALSE /\ q.cancelSent = FALSE
    BY <1>2 DEF Absent
<1> HIDE DEF e, q
<1>7. Waits(e)
  <2> DEFINE p == Append(client.queue, t)
  <2>1. /\ Len(client.queue) \in Nat /\ DOMAIN client.queue = 1 .. Len(client.queue)
        /\ DOMAIN p = 1 .. Len(client.queue) + 1 /\ p[Len(client.queue) + 1] = t
        /\ \A k \in 1 .. Len(client.queue) : p[k] = client.queue[k]
      BY <1>0
  <2> HIDE DEF p
  <2>2. \A k \in DOMAIN client.queue : client.queue[k] # t /\ client.queue[k] \in Transfers
      BY <1>0, <1>1 DEF Good, Waits
  <2>3. ASSUME NEW k \in DOMAIN p
        PROVE  e.tr[p[k]].phase = "waiting" /\ ~Terminalized(e, p[k])
    BY <2>1, <1>4, <1>6, <2>2, <1>0 DEF Terminalized, Terminal, Good, Waits
  <2>4. ASSUME NEW j \in DOMAIN p, NEW k \in DOMAIN p, p[j] = p[k]
        PROVE  j = k
    <3>1. \A i \in DOMAIN p : i = Len(client.queue) + 1 \/ (i \in DOMAIN client.queue /\ p[i] = client.queue[i])
        BY <2>1
    <3> QED  BY <3>1, <2>1, <2>2, <2>4, <1>0 DEF Good, Waits
  <2> QED  BY <2>3, <2>4, <1>3 DEF Waits, p
<1>8. Slots(e)
  BY <1>4, <1>6, <1>0, <1>3 DEF Slots, Good, Terminalized
<1>9. /\ Good(client') /\ client'.outbox = client.outbox
      /\ \A u \in Transfers : Called(e.tr[u], client'.tr[u])
  <2>1. Good(e)
      BY <1>5, <1>7, <1>8 DEF Good
  <2> QED  BY <2>1, <1>1, <1>3, DrainKeeps
<1>10. \A u \in Transfers : u # t => Called(client.tr[u], client'.tr[u])
    BY <1>4, <1>9
<1>11. AttemptOK(t, client'.tr[t], server[t], http'[t])
  <2>1. AttemptOK(t, q, server[t], http[t])
      BY <1>0, <1>1, <1>2 DEF AttemptOK, LocalInv, Absent, Stops
  <2> DEFINE s == server[t]
             h == http[t]
             z == client'.tr[t]
  <2>2. Called(q, z) /\ AttemptOK(t, q, s, h)
      BY <1>4, <1>9, <2>1
  <2> HIDE DEF s, h, z
  <2>3. AttemptOK(t, z, s, h)
      BY <1>2, <2>2, CalledKeeps
  <2> QED  BY <1>1, <2>3 DEF s, h, z
<1>12. OutboxInv' /\ WireInv'
  <2>1. Mailed(client, client', t) /\ client' \in ClientRecord
      BY <1>9 DEF Mailed, Good
  <2>2. client.tr[t].phase # "preparing" /\ client.tr[t].cancelSent = FALSE
      BY <1>1 DEF Absent
  <2>3. Reads(0)
      BY <1>0, <1>1, ReadsNone
  <2> QED  BY <1>1, <1>10, <2>1, <2>2, <2>3, MailKeeps
<1>13. CoordinatorInv'
    BY <1>0, <1>1, <1>9, <1>10, <1>11, <1>12, StepKeeps
<1>14. PromiseStep(t, PromiseOf(client.tr[t]), PromiseOf(client'.tr[t]))
  <2>1. Called(q, client'.tr[t])
      BY <1>4, <1>9
  <2> DEFINE z == client'.tr[t]
  <2>2. z.phase \in {"waiting", "called"} /\ z.status = "queued" /\ z.policy = 1 /\ z.cancelRequested = FALSE
      BY <1>2, <2>1 DEF Called, Absent
  <2> HIDE DEF z
  <2>3. PromiseStep(t, PromiseOf(Absent), PromiseOf(z))
    BY <2>2, BeginStep DEF Absent
  <2> QED  BY <1>1, <2>3 DEF z
<1> QED  BY <1>10, <1>13, <1>14 DEF Moves

Preparing(b) == [b EXCEPT !.status = "preparing", !.phase = "preparing", !.prepareStarted = TRUE,
                          !.serverFinished = FALSE, !.transferId = 0]

\* The request for a token of an attempt that the server does not know yet.
LEMMA PrepareStepKeeps ==
    ASSUME CoordinatorInv, NEW t \in Transfers, NEW b \in TransferRecord,
           client' = Prepare(Put(client, t, b), t), server' = server, http' = http, wire' = wire,
           client.tr[t].phase \in {"called", "asking"}, client.tr[t].status \notin Terminal,
           b.slotReleased = client.tr[t].slotReleased, b.cancelSent = client.tr[t].cancelSent,
           AttemptOK(t, Preparing(b), server[t], "none"), server[t][b.policy] = "none"
    PROVE  /\ CoordinatorInv' /\ client'.tr[t] = Preparing(b)
           /\ \A u \in Transfers : u # t => Called(client.tr[u], client'.tr[u])
<1> DEFINE e == Put(client, t, b)
           m == [ask |-> "prepare", transfer |-> t, attempt |-> e.tr[t].policy]
           q == Preparing(b)
<1>0. /\ Good(client) /\ client \in ClientRecord /\ client.tr[t] \in TransferRecord
      /\ AttemptOK(t, client.tr[t], server[t], http[t]) /\ wire \in Seq(WireMessage)
      /\ http \in [Transfers -> {"none", "ok", "conflict", "failed"}] /\ client.outbox \subseteq Asked
    BY Facts
<1>1. /\ e \in ClientRecord /\ e.queue = client.queue /\ e.active = client.active /\ e.outbox = client.outbox
      /\ e.tr[t] = b /\ \A u \in Transfers : u # t => e.tr[u] = client.tr[u]
    BY <1>0, PutFacts
<1> HIDE DEF e
<1>2. q \in TransferRecord /\ q.status = "preparing" /\ q.phase = "preparing" /\ q.policy = b.policy
      /\ q.slotReleased = b.slotReleased /\ q.cancelSent = b.cancelSent
    BY DEF Preparing, TransferRecord, Phases
<1>3. /\ client'.tr = [e.tr EXCEPT ![t] = q] /\ client'.queue = e.queue /\ client'.active = e.active
      /\ client'.outbox = e.outbox \cup {m}
  <2>1. client' = [e EXCEPT !.tr[t].status = "preparing", !.tr[t].phase = "preparing",
                            !.tr[t].prepareStarted = TRUE, !.tr[t].serverFinished = FALSE,
                            !.tr[t].transferId = 0, !.outbox = @ \cup {m}]
      BY DEF Prepare, e
  <2>2. e.tr \in [Transfers -> TransferRecord]
      BY <1>1 DEF ClientRecord
  <2> HIDE DEF m
  <2>3. client'.queue = e.queue /\ client'.active = e.active /\ client'.outbox = e.outbox \cup {m}
      BY <1>1, <2>1 DEF ClientRecord
  <2> DEFINE f == [e.tr EXCEPT ![t].status = "preparing", ![t].phase = "preparing",
                               ![t].prepareStarted = TRUE, ![t].serverFinished = FALSE,
                               ![t].transferId = 0]
  <2>4. client'.tr = f
      BY <1>1, <2>1 DEF ClientRecord
  <2>5. f[t] = Preparing(e.tr[t])
      BY <2>2 DEF Preparing
  <2>6. (\A u \in Transfers : u # t => f[u] = e.tr[u]) /\ DOMAIN f = Transfers
      BY <2>2
  <2>7. f = [u \in Transfers |-> f[u]]
      BY <2>2
  <2> HIDE DEF f
  <2>8. f = [e.tr EXCEPT ![t] = q]
      BY <1>1, <2>2, <2>5, <2>6, <2>7
  <2> QED  BY <2>3, <2>4, <2>8
<1>4. m \in Asked /\ m.ask = "prepare" /\ m.transfer = t /\ m.attempt = b.policy
    BY <1>1 DEF Asked, TransferRecord
<1> HIDE DEF m, q
<1>5. /\ client'.tr[t] = q /\ \A u \in Transfers : u # t => client'.tr[u] = client.tr[u]
      /\ client'.tr \in [Transfers -> TransferRecord]
  BY <1>1, <1>2, <1>3 DEF ClientRecord
<1>6. client' \in ClientRecord
  <2>1. client' = [tr |-> client'.tr, queue |-> client'.queue, active |-> client'.active, outbox |-> client'.outbox]
      BY <1>1 DEF Prepare, ClientRecord, e
  <2>2. client'.queue \in Seq(Transfers) /\ client'.active \in Transfers \cup {None} /\ client'.outbox \subseteq Asked
      BY <1>0, <1>1, <1>3, <1>4 DEF ClientRecord
  <2> QED  BY <1>5, <2>1, <2>2 DEF ClientRecord
<1>7. Touch(client, client', t)
  BY <1>2, <1>5, <1>1, <1>3 DEF Terminalized, Terminal, Touch
<1>8. Good(client')
    BY <1>0, <1>6, <1>7, TouchKeeps
<1>9. \A u \in Transfers : u # t => Called(client.tr[u], client'.tr[u])
    BY <1>5 DEF Called
<1>10. \A x \in client.outbox : x.transfer = t => x.ask # "prepare"
    BY <1>0 DEF CoordinatorInv, OutboxInv, Asked
<1>11. \A k \in DOMAIN wire : wire[k].transfer = t => wire[k].event # "prepared"
    BY <1>0 DEF CoordinatorInv, WireInv
<1>12. OutboxInv'
  BY <1>2, <1>4, <1>5, <1>0, <1>10, <1>1, <1>3 DEF OutboxInv, Asked, CoordinatorInv
<1>13. WireInv'
  <2> SUFFICES ASSUME NEW k \in DOMAIN wire
               PROVE  LET g == wire[k] x == wire[k].transfer IN
        /\ g.event = "prepared" =>
              /\ client'.tr[x].phase = "preparing" /\ client'.tr[x].policy = g.attempt
              /\ \A z \in client'.outbox : z.transfer = x => z.ask # "prepare"
              /\ \A j \in DOMAIN wire : wire[j].event = "prepared" /\ wire[j].transfer = x => j = k
        /\ g.event = "finished" => server[x][g.attempt] \in ServerEnds
        /\ g.event = "cancelAck" => client'.tr[x].cancelSent = TRUE
      BY DEF WireInv
  <2> DEFINE g == wire[k]
             x == wire[k].transfer
  <2>0. wire[k] \in WireMessage
      BY <1>0
  <2>1. x \in Transfers
      BY <2>0 DEF WireMessage
  <2>2. /\ g.event = "prepared" =>
              /\ client.tr[x].phase = "preparing" /\ client.tr[x].policy = g.attempt
              /\ \A z \in client.outbox : z.transfer = x => z.ask # "prepare"
              /\ \A j \in DOMAIN wire : wire[j].event = "prepared" /\ wire[j].transfer = x => j = k
        /\ g.event = "finished" => server[x][g.attempt] \in ServerEnds
        /\ g.event = "cancelAck" => client.tr[x].cancelSent = TRUE
      BY DEF CoordinatorInv, WireInv
  <2>3. g.event = "prepared" => x # t
      BY <1>11
  <2> HIDE DEF g, x
  <2>4. CASE x = t
      BY <1>2, <1>5, <2>2, <2>3, <2>4 DEF g, x
  <2>5. CASE x # t
    BY <1>1, <1>3, <1>4, <2>5, <1>5, <2>1, <2>2 DEF g, x
  <2> QED  BY <2>4, <2>5
<1>14. http[t] = "none"
    BY <1>0 DEF AttemptOK
<1>15. CoordinatorInv'
  BY <1>5, <1>14, <1>0, <1>8, <1>9, <1>12, <1>13, StepKeeps DEF q
<1> QED  BY <1>5, <1>9, <1>15 DEF q

----------------------------------------------------------------------------
(* The operations.                                                         *)

\* A step that the user of a transfer sees as its end, or not at all.
LEMMA EndedStep ==
    ASSUME NEW t, NEW r, NEW s, r.phase # "absent", s.phase # "absent", s.status \in Terminal,
           r.status \in Terminal => s.status = r.status, s.status = "skipped" => r.phase = "asking" \/ s.status = r.status
    PROVE  PromiseStep(t, PromiseOf(r), PromiseOf(s))
<1>1. CASE r.status \in Terminal
    BY <1>1, SilentStep DEF PromiseStep
<1>2. CASE r.status \notin Terminal
  <2>1. PromiseOf(s) = EndedWith(s.status)
      BY EndedPromise
  <2>2. /\ PromiseOf(r).phase \in {"running", "asking"}
        /\ s.status = "skipped" => PromiseOf(r).phase = "asking"
      BY <1>2 DEF PromiseOf, PhaseOf
  <2> QED  BY <2>1, <2>2 DEF PromiseStep, Terminal
<1> QED  BY <1>1, <1>2

\* Two ways to write the object of a transfer whose function returns.
LEMMA PutPhase ==
    ASSUME NEW c \in ClientRecord, NEW t \in Transfers, NEW x
    PROVE  [c EXCEPT !.tr[t].phase = x] = Put(c, t, [c.tr[t] EXCEPT !.phase = x])
  BY DEF Put, ClientRecord

\* The microtask that calls the operation of the slot.
LEMMA RunOperationKeeps ==
    ASSUME None \notin Transfers, CoordinatorInv, NEW t \in Transfers, RunOperation(t)
    PROVE  CoordinatorInv' /\ Moves(t)
<1> DEFINE r == client.tr[t]
<1>0. /\ client \in ClientRecord /\ client.tr \in [Transfers -> TransferRecord]
      /\ r \in TransferRecord /\ AttemptOK(t, r, server[t], http[t]) /\ LocalInv(r)
      /\ wire \in Seq(WireMessage)
    BY Facts
<1>1. r.phase = "called" /\ server' = server /\ http' = http /\ wire' = wire
    BY DEF RunOperation
<1>2. r.transferId = 0 /\ r.policy = 1 /\ server[t][1] = "none" /\ server[t][2] = "none"
    BY <1>0, <1>1 DEF LocalInv, AttemptOK
<1>3. Reads(0)
    BY <1>0, <1>1, ReadsNone
<1>4. CASE client' = Caught(client, t)
    BY <1>1, <1>3, <1>4, CaughtStepKeeps
<1>5. CASE Terminalized(client, t)
  BY <1>5, <1>0, PutPhase, <1>2, <1>4 DEF RunOperation, Caught
<1>6. CASE ~Terminalized(client, t) /\ client' = Prepare(client, t)
  <2>1. client = Put(client, t, r)
      BY <1>0 DEF Put, ClientRecord
  <2>2. client' = Prepare(Put(client, t, r), t)
      BY <1>6, <2>1
  <2>3. r.status \notin Terminal
      BY <1>6 DEF Terminalized
  <2> DEFINE q == Preparing(r)
  <2>4. /\ q.status = "preparing" /\ q.phase = "preparing" /\ q.policy = r.policy /\ q.transferId = 0
        /\ q.prepareStarted = TRUE /\ q.serverFinished = FALSE /\ q.cancelRequested = r.cancelRequested
      BY <1>0 DEF Preparing, TransferRecord
  <2> HIDE DEF q
  <2>5. AttemptOK(t, q, server[t], "none")
      BY <1>0, <1>1, <1>2, <2>4 DEF AttemptOK, LocalInv, Terminal, Attempts
  <2>6. /\ CoordinatorInv' /\ client'.tr[t] = Preparing(r)
        /\ \A u \in Transfers : u # t => Called(client.tr[u], client'.tr[u])
    BY <1>2, <2>5, <1>0, <1>1, <2>2, <2>3, PrepareStepKeeps DEF q
  <2>7. PromiseOf(q) = PromiseOf(r)
    <3>1. "preparing" \notin Terminal
        BY DEF Terminal
    <3> HIDE DEF r
    <3> QED  BY <1>1, <2>3, <2>4, <3>1, SilentStep
  <2>8. Moves(t)
      BY <2>6, <2>7 DEF Moves, PromiseStep, q
  <2> QED  BY <2>6, <2>8
<1> QED  BY <1>4, <1>5, <1>6 DEF RunOperation

\* The object of a transfer whose attempt, if there is one, the server is asked to cancel.
Stopped(q) == IF q.transferId = 0 THEN q ELSE [q EXCEPT !.cancelSent = TRUE]

\* A change of one object followed by cancelPreparedTransfer.
LEMMA StopStepKeeps ==
    ASSUME CoordinatorInv, NEW t \in Transfers, NEW q \in TransferRecord,
           Touch(client, Put(client, t, q), t),
           client' = CancelPreparedTransfer(Put(client, t, q), t), server' = server, http' = http,
           AttemptOK(t, Stopped(q), server[t], http[t]),
           client.tr[t].cancelSent = TRUE => q.cancelSent = TRUE,
           MailKept(client.tr[t], q) \/ Unprepared(t), NEW d, Reads(d)
    PROVE  /\ CoordinatorInv' /\ client'.tr[t] = Stopped(q)
           /\ \A u \in Transfers : u # t => Called(client.tr[u], client'.tr[u])
<1> DEFINE e == Put(client, t, q)
<1>0. Good(client) /\ client \in ClientRecord /\ http \in [Transfers -> {"none", "ok", "conflict", "failed"}]
    BY Facts
<1>1. /\ e \in ClientRecord /\ e.queue = client.queue /\ e.active = client.active /\ e.outbox = client.outbox
      /\ e.tr[t] = q /\ \A u \in Transfers : u # t => e.tr[u] = client.tr[u]
    BY <1>0, PutFacts
<1>2. Good(e)
    BY <1>0, <1>1, TouchKeeps
<1> HIDE DEF e
<1>3. /\ Good(client') /\ Mailed(e, client', t)
      /\ \A u \in Transfers : u # t => client'.tr[u] = e.tr[u]
      /\ client'.tr[t] = IF e.tr[t].transferId = 0 THEN e.tr[t]
                         ELSE [e.tr[t] EXCEPT !.cancelSent = TRUE]
  BY <1>2, CancelPreparedKeeps DEF e
<1>4. client'.tr[t] = Stopped(q)
    BY <1>1, <1>3 DEF Stopped
<1>5. \A u \in Transfers : u # t => Called(client.tr[u], client'.tr[u])
    BY <1>1, <1>3 DEF Called
<1>6. Mailed(client, client', t)
    BY <1>1, <1>3 DEF Mailed
<1>7. /\ client'.tr[t].phase = q.phase /\ client'.tr[t].policy = q.policy
      /\ q.cancelSent = TRUE => client'.tr[t].cancelSent = TRUE
    BY <1>4 DEF Stopped, TransferRecord
<1>8. client' \in ClientRecord /\ wire' \in Seq(WireMessage)
    BY <1>3 DEF Good, Reads
<1>9. OutboxInv' /\ WireInv'
  BY <1>7, <1>5, <1>6, <1>8, MailKeeps DEF MailKept
<1>10. CoordinatorInv'
    BY <1>0, <1>3, <1>4, <1>5, <1>8, <1>9, StepKeeps
<1> QED  BY <1>4, <1>5, <1>10

\* A step that puts another object in the place of a transfer's.
LEMMA PutStepKeeps ==
    ASSUME CoordinatorInv, NEW t \in Transfers, NEW q \in TransferRecord,
           Touch(client, Put(client, t, q), t), client' = Put(client, t, q), server' = server,
           http' \in [Transfers -> {"none", "ok", "conflict", "failed"}],
           \A u \in Transfers : u # t => http'[u] = http[u],
           AttemptOK(t, q, server[t], http'[t]),
           client.tr[t].cancelSent = TRUE => q.cancelSent = TRUE,
           MailKept(client.tr[t], q) \/ Unprepared(t), NEW d, Reads(d)
    PROVE  /\ CoordinatorInv' /\ client'.tr[t] = q
           /\ \A u \in Transfers : u # t => Called(client.tr[u], client'.tr[u])
<1>0. client \in ClientRecord
    BY Facts
<1>1. client' \in ClientRecord /\ client'.outbox = client.outbox /\ client'.tr[t] = q
    BY <1>0, PutFacts
<1>2. Mailed(client, client', t)
    BY <1>1 DEF Mailed
<1>3. Touch(client, client', t)
    OBVIOUS
<1>4. CoordinatorInv' /\ \A u \in Transfers : u # t => Called(client.tr[u], client'.tr[u])
    BY <1>1, <1>2, <1>3, TouchStepKeeps
<1> QED  BY <1>1, <1>4

\* Touch for an object that is put in the place of another.
LEMMA PutTouches ==
    ASSUME NEW c \in ClientRecord, NEW t \in Transfers, NEW q \in TransferRecord,
           \/ q.phase = c.tr[t].phase /\ (q.status \in Terminal <=> c.tr[t].status \in Terminal)
           \/ c.tr[t].phase \notin {"absent", "waiting"} /\ q.phase \notin {"absent", "waiting"},
           q.status \notin Terminal =>
               c.tr[t].status \notin Terminal /\ q.slotReleased = c.tr[t].slotReleased
    PROVE  Touch(c, Put(c, t, q), t)
<1> DEFINE e == Put(c, t, q)
<1>1. /\ e.queue = c.queue /\ e.active = c.active
      /\ e.tr[t] = q /\ \A u \in Transfers : u # t => e.tr[u] = c.tr[u]
    BY PutFacts
<1> HIDE DEF e
<1>2. Touch(c, e, t)
    BY <1>1 DEF Touch, Terminalized
<1> QED  BY <1>2 DEF e

\* The acknowledgement of prepare_transfer.
LEMMA OnPreparedKeeps ==
    ASSUME None \notin Transfers, CoordinatorInv, NEW t \in Transfers, OnPrepared(t)
    PROVE  CoordinatorInv' /\ Moves(t)
<1> DEFINE r == client.tr[t]
           n == Head(wire).attempt
           stop == Terminalized(client, t) \/ r.cancelRequested
<1>0. /\ client \in ClientRecord /\ client.tr \in [Transfers -> TransferRecord]
      /\ r \in TransferRecord /\ AttemptOK(t, r, server[t], http[t]) /\ LocalInv(r)
      /\ wire \in Seq(WireMessage) /\ Good(client)
      /\ http \in [Transfers -> {"none", "ok", "conflict", "failed"}]
    BY Facts
<1>1. /\ wire # <<>> /\ Head(wire).event = "prepared" /\ Head(wire).transfer = t
      /\ wire' = Tail(wire) /\ server' = server /\ http' = http
    BY DEF OnPrepared
<1>2. /\ Reads(1) /\ 1 \in DOMAIN wire /\ Head(wire) = wire[1] /\ wire[1] \in WireMessage
      /\ \A k \in DOMAIN wire' : k + 1 # 1
    BY <1>0, <1>1, ReadsFirst
<1>3. /\ r.phase = "preparing" /\ r.policy = n
      /\ \A m \in client.outbox : m.transfer = t => m.ask # "prepare"
      /\ \A j \in DOMAIN wire : wire[j].event = "prepared" /\ wire[j].transfer = t => j = 1
    BY <1>1, <1>2 DEF CoordinatorInv, WireInv
<1>4. \A k \in DOMAIN wire' : wire'[k].event = "prepared" => wire'[k].transfer # t
    BY <1>2, <1>3 DEF Reads
<1>5. ASSUME Mailed(client, client', t)
      PROVE  Unprepared(t)
    BY <1>3, <1>4, <1>5 DEF Unprepared, Mailed
<1>6. /\ r.transferId = 0 /\ http[t] = "none" /\ n \in Attempts /\ n # 0
      /\ r.serverFinished = FALSE /\ r.policy = n /\ (r.prepareStarted = TRUE)
      /\ \A k \in Attempts : server[t][k] \notin {"running", "cancelling"}
  BY <1>0, <1>3, <1>2 DEF AttemptOK, LocalInv, WireMessage, Attempts, TransferRecord
<1>7. CASE ~Head(wire).ok
  BY <1>7, <1>0, <1>3, CaughtKeeps, <1>5, <1>1, <1>2, CaughtStepKeeps DEF OnPrepared
<1>8. CASE Head(wire).ok /\ stop
  <2> DEFINE q == [r EXCEPT !.transferId = n, !.phase = "returned"]
             s == Stopped(q)
  <2>1. /\ q \in TransferRecord /\ q.phase = "returned" /\ q.transferId = n /\ q.status = r.status
        /\ q.slotReleased = r.slotReleased /\ q.cancelSent = r.cancelSent
      BY <1>0, <1>6 DEF TransferRecord, Phases
  <2>2. s = [r EXCEPT !.transferId = n, !.phase = "returned", !.cancelSent = TRUE]
      BY <1>0, <1>6, <2>1 DEF Stopped
  <2>3. client' = CancelPreparedTransfer(Put(client, t, q), t)
    BY <1>8, <1>0 DEF OnPrepared, Put, ClientRecord
  <2>4. /\ s.phase = "returned" /\ s.status = r.status /\ s.policy = r.policy /\ s.cancelSent = TRUE
        /\ s.transferId = n /\ s.prepareStarted = r.prepareStarted /\ s.serverFinished = r.serverFinished
        /\ s.cancelRequested = r.cancelRequested
      BY <1>0, <2>2 DEF TransferRecord
  <2> HIDE DEF s, q
  <2>5. AttemptOK(t, s, server[t], http[t])
      BY <1>0, <1>3, <1>6, <2>4 DEF AttemptOK, LocalInv, Stops
  <2>6. Touch(client, Put(client, t, q), t)
      BY <1>0, <1>3, <2>1, PutTouches
  <2>7. Unprepared(t)
    <3> DEFINE e == Put(client, t, q)
    <3>1. e.outbox = client.outbox /\ e \in ClientRecord
        BY <1>0, <2>1, PutFacts
    <3>2. Good(e)
        BY <1>0, <2>6, <3>1, TouchKeeps
    <3> HIDE DEF e
    <3>3. Mailed(e, client', t)
      BY <2>3, <3>2, CancelPreparedKeeps DEF e
    <3> QED  BY <1>5, <3>1, <3>3 DEF Mailed
  <2>8. /\ CoordinatorInv' /\ client'.tr[t] = Stopped(q)
        /\ \A u \in Transfers : u # t => Called(client.tr[u], client'.tr[u])
    BY <2>5, <1>1, <1>2, <2>1, <2>3, <2>6, <2>7, StopStepKeeps DEF s
  <2>9. PromiseOf(s) = PromiseOf(r)
    <3> HIDE DEF r
    <3> QED  BY <1>3, <2>4, SilentStep
  <2> QED  BY <2>8, <2>9 DEF Moves, PromiseStep, s
<1>9. CASE Head(wire).ok /\ ~stop
  <2> DEFINE q == [r EXCEPT !.transferId = n,
                            !.status = IF IsUpload(t) THEN "uploading" ELSE "downloading",
                            !.phase = IF IsUpload(t) THEN "fetching" ELSE "streaming"]
  <2>1. client' = Put(client, t, q)
    <3>1. client' = [[client EXCEPT !.tr[t].transferId = n] EXCEPT
                        !.tr[t].status = IF IsUpload(t) THEN "uploading" ELSE "downloading",
                        !.tr[t].phase = IF IsUpload(t) THEN "fetching" ELSE "streaming"]
        BY <1>9 DEF OnPrepared
    <3> QED  BY <1>0, <3>1 DEF Put, ClientRecord
  <2>2. /\ q.phase = (IF IsUpload(t) THEN "fetching" ELSE "streaming") /\ q.policy = r.policy
        /\ q.status \in {"uploading", "downloading"} /\ q.transferId = n
        /\ q.prepareStarted = r.prepareStarted /\ q.serverFinished = r.serverFinished
        /\ q.cancelSent = r.cancelSent /\ q.slotReleased = r.slotReleased
        /\ q.cancelRequested = r.cancelRequested
      BY <1>0 DEF TransferRecord
  <2>3. q \in TransferRecord
      BY <1>0, <1>6 DEF TransferRecord, Phases
  <2> HIDE DEF q
  <2>4. AttemptOK(t, q, server[t], http[t])
      BY <1>0, <1>3, <1>6, <2>2 DEF AttemptOK, LocalInv, Terminal
  <2>5. r.status \notin Terminal /\ q.status \notin Terminal
      BY <1>9, <2>2 DEF Terminalized, Terminal
  <2>6. Touch(client, Put(client, t, q), t)
      BY <1>0, <1>3, <2>2, <2>3, <2>5, PutTouches
  <2>7. Unprepared(t)
    <3>1. client'.outbox = client.outbox
        BY <1>0, <2>1, <2>3, PutFacts
    <3> QED  BY <1>5, <3>1 DEF Mailed
  <2>8. /\ CoordinatorInv' /\ client'.tr[t] = q
        /\ \A u \in Transfers : u # t => Called(client.tr[u], client'.tr[u])
    <3>1. /\ AttemptOK(t, q, server[t], http'[t]) /\ (r.cancelSent = TRUE => q.cancelSent = TRUE)
          /\ http' \in [Transfers -> {"none", "ok", "conflict", "failed"}]
          /\ \A u \in Transfers : u # t => http'[u] = http[u]
        BY <1>0, <1>1, <2>2, <2>4
    <3> QED  BY <1>1, <1>2, <2>1, <2>3, <2>6, <2>7, <3>1, PutStepKeeps
  <2>9. PromiseOf(q) = PromiseOf(r)
    <3> HIDE DEF r
    <3> QED  BY <1>3, <2>2, <2>5, SilentStep
  <2> QED  BY <2>8, <2>9 DEF Moves, PromiseStep
<1> QED  BY <1>7, <1>8, <1>9

\* A change of one object followed by its end.
LEMMA PutEndKeeps ==
    ASSUME None \notin Transfers, CoordinatorInv, NEW t \in Transfers, NEW q \in TransferRecord,
           Touch(client, Put(client, t, q), t), NEW x \in Terminal,
           client' = Finalized(Put(client, t, q), t, x), server' = server,
           http' \in [Transfers -> {"none", "ok", "conflict", "failed"}],
           \A u \in Transfers : u # t => http'[u] = http[u],
           AttemptOK(t, q, server[t], http'[t]), q.phase # "absent", client.tr[t].phase # "absent",
           q.status = client.tr[t].status, q.status \notin Terminal => Stops(q, server[t]),
           MailKept(client.tr[t], q), x = "skipped" => client.tr[t].phase = "asking", NEW d, Reads(d)
    PROVE  CoordinatorInv' /\ Moves(t)
<1> DEFINE e == Put(client, t, q)
           r == client.tr[t]
           s == client'.tr[t]
<1>0. Good(client) /\ client \in ClientRecord
    BY Facts
<1>1. /\ e \in ClientRecord /\ e.outbox = client.outbox
      /\ e.tr[t] = q /\ \A u \in Transfers : u # t => e.tr[u] = client.tr[u]
    BY <1>0, PutFacts
<1>2. Good(e)
    BY <1>0, <1>1, TouchKeeps
<1>3. client' = Finalized(e, t, x)
    OBVIOUS
<1> HIDE DEF e
<1>4. /\ CoordinatorInv' /\ \A u \in Transfers : u # t => Called(client.tr[u], client'.tr[u])
      /\ e.tr[t].status \in Terminal => client'.tr[t] = e.tr[t]
      /\ e.tr[t].status \notin Terminal => client'.tr[t] = EndsAs(e.tr[t], x)
  BY <1>1, <1>2, <1>3, EndStepKeeps
<1>5. /\ s.phase # "absent" /\ s.status \in Terminal /\ (r.status \in Terminal => s.status = r.status)
      /\ r.status \notin Terminal => s.status = x
    BY <1>1, <1>4 DEF EndsAs, TransferRecord
<1> HIDE DEF r, s
<1>6. r.phase # "absent" /\ (x = "skipped" => r.phase = "asking")
    BY DEF r
<1>7. PromiseStep(t, PromiseOf(r), PromiseOf(s))
  BY <1>5, <1>6, EndedStep
<1> QED  BY <1>4, <1>7 DEF Moves, r, s

\* The function of a transfer returns.
Returns(r) == [r EXCEPT !.phase = "returned"]

\* What stays of an object whose function returns.
LEMMA ReturnsFacts ==
    ASSUME NEW t, NEW r \in TransferRecord, NEW s, NEW h, AttemptOK(t, r, s, h)
    PROVE  /\ Returns(r) \in TransferRecord /\ AttemptOK(t, Returns(r), s, "none")
           /\ Returns(r).phase = "returned" /\ Returns(r).status = r.status
           /\ Returns(r).policy = r.policy /\ Returns(r).transferId = r.transferId
           /\ Returns(r).cancelSent = r.cancelSent /\ Returns(r).slotReleased = r.slotReleased
           /\ Returns(r).cancelRequested = r.cancelRequested
           /\ Returns(r).prepareStarted = r.prepareStarted
<1> DEFINE q == Returns(r)
<1>1. /\ q \in TransferRecord /\ q.phase = "returned" /\ q.status = r.status
      /\ q.policy = r.policy /\ q.transferId = r.transferId
      /\ q.cancelSent = r.cancelSent /\ q.slotReleased = r.slotReleased
      /\ q.cancelRequested = r.cancelRequested /\ q.prepareStarted = r.prepareStarted
      /\ q.serverFinished = r.serverFinished
    BY DEF Returns, TransferRecord, Phases
<1> HIDE DEF q
<1>2. AttemptOK(t, q, s, "none")
    BY <1>1 DEF AttemptOK, LocalInv, Stops
<1> QED  BY <1>1, <1>2 DEF q

\* The fetch rejects.
LEMMA OnRejectedKeeps ==
    ASSUME None \notin Transfers, CoordinatorInv, NEW t \in Transfers, OnRejected(t)
    PROVE  CoordinatorInv' /\ Moves(t)
  BY Facts, ReadsNone, CaughtStepKeeps DEF OnRejected

\* The response of an upload.
LEMMA OnResponseKeeps ==
    ASSUME None \notin Transfers, CoordinatorInv, NEW t \in Transfers, OnResponse(t)
    PROVE  CoordinatorInv' /\ Moves(t)
<1> DEFINE r == client.tr[t]
           q == Returns(r)
<1>0. /\ client \in ClientRecord /\ client.tr \in [Transfers -> TransferRecord]
      /\ r \in TransferRecord /\ AttemptOK(t, r, server[t], http[t]) /\ LocalInv(r)
      /\ wire \in Seq(WireMessage) /\ http \in [Transfers -> {"none", "ok", "conflict", "failed"}]
    BY Facts
<1>1. /\ r.phase = "fetching" /\ server' = server /\ wire' = wire /\ http' = [http EXCEPT ![t] = "none"]
    BY DEF OnResponse
<1>2. /\ Reads(0) /\ http'[t] = "none" /\ http' \in [Transfers -> {"none", "ok", "conflict", "failed"}]
      /\ \A u \in Transfers : u # t => http'[u] = http[u]
    BY <1>0, <1>1, ReadsNone
<1>3. CASE client' = Caught(client, t)
    BY <1>1, <1>2, <1>3, CaughtStepKeeps
<1>4. CASE http[t] = "ok"
  <2>0. /\ q \in TransferRecord /\ AttemptOK(t, q, server[t], "none") /\ q.phase = "returned"
        /\ q.status = r.status /\ q.transferId = r.transferId /\ q.cancelSent = r.cancelSent
        /\ q.slotReleased = r.slotReleased
    <3> DEFINE s == server[t]
               h == http[t]
    <3>1. AttemptOK(t, r, s, h) /\ r \in TransferRecord
        BY <1>0
    <3> HIDE DEF r, s, h
    <3>2. /\ q \in TransferRecord /\ AttemptOK(t, q, s, "none") /\ q.phase = "returned"
          /\ q.status = r.status /\ q.transferId = r.transferId /\ q.cancelSent = r.cancelSent
          /\ q.slotReleased = r.slotReleased
        BY <3>1, ReturnsFacts
    <3> QED  BY <3>2 DEF s
  <2>1. client' = Finalized(Put(client, t, q), t, "completed")
    BY <1>4, <1>0 DEF OnResponse, Put, ClientRecord, Finalized, Returns
  <2>2. Stops(r, server[t])
      BY <1>0, <1>4 DEF AttemptOK, Stops, ServerEnds
  <2> HIDE DEF q
  <2>3. Stops(q, server[t]) /\ MailKept(r, q)
      BY <1>1, <2>0, <2>2 DEF Stops, MailKept
  <2>4. Touch(client, Put(client, t, q), t)
      BY <1>0, <1>1, <2>0, PutTouches
  <2>5. AttemptOK(t, q, server[t], http'[t]) /\ q.phase # "absent" /\ r.phase # "absent" /\ "completed" \in Terminal
      BY <1>1, <1>2, <2>0 DEF Terminal
  <2> QED  BY <1>1, <1>2, <2>0, <2>1, <2>3, <2>4, <2>5, PutEndKeeps
<1>5. CASE http[t] = "conflict" /\ client.tr[t].policy = 1
  <2> DEFINE z == [r EXCEPT !.phase = "asking"]
  <2>1. client' = Put(client, t, z)
    BY <1>5, <1>0 DEF OnResponse, Put, ClientRecord
  <2>2. /\ z \in TransferRecord /\ z.phase = "asking" /\ z.status = r.status /\ z.policy = r.policy
        /\ z.transferId = r.transferId /\ z.cancelSent = r.cancelSent /\ z.slotReleased = r.slotReleased
        /\ z.cancelRequested = r.cancelRequested /\ z.prepareStarted = r.prepareStarted
        /\ z.serverFinished = r.serverFinished
      BY <1>0 DEF TransferRecord, Phases
  <2> HIDE DEF z
  <2>3. AttemptOK(t, z, server[t], http'[t])
    BY <1>0, <1>1, <1>5, <2>2, <1>2 DEF AttemptOK, LocalInv, Stops
  <2>4. Touch(client, Put(client, t, z), t)
      BY <1>0, <1>1, <2>2, PutTouches
  <2>5. MailKept(r, z)
      BY <1>1, <2>2 DEF MailKept
  <2>6. /\ CoordinatorInv' /\ client'.tr[t] = z
        /\ \A u \in Transfers : u # t => Called(client.tr[u], client'.tr[u])
    <3>1. r.cancelSent = TRUE => z.cancelSent = TRUE
        BY <2>2
    <3> QED  BY <1>1, <1>2, <2>1, <2>2, <2>3, <2>4, <2>5, <3>1, PutStepKeeps
  <2>7. PromiseStep(t, PromiseOf(r), PromiseOf(z))
    <3>0. t \in Uploads /\ r.policy = 1
        BY <1>0, <1>1, <1>5 DEF AttemptOK, IsUpload
    <3> HIDE DEF r
    <3>1. CASE r.status \in Terminal
        BY <1>1, <2>2, <3>1, SilentStep DEF PromiseStep
    <3>2. CASE r.status \notin Terminal
      <4>1. PhaseOf(r) = "running" /\ PhaseOf(z) = "asking" /\ ResultOf(z) = ResultOf(r)
          BY <1>1, <2>2, <3>2 DEF PhaseOf, ResultOf
      <4>2. AskedOf(r) = FALSE /\ AskedOf(z) = TRUE
          BY <1>1, <2>2, <3>0, <3>2 DEF AskedOf
      <4>3. CancellingOf(z) = CancellingOf(r)
          BY <2>2, <3>2 DEF CancellingOf
      <4>4. PromiseOf(r).phase = "running" /\ PromiseOf(r).asked = AskedOf(r)
          BY <4>1 DEF PromiseOf
      <4>5. PromiseOf(z) = AsksNow(PromiseOf(r), AskedOf(z))
        <5> DEFINE a == PhaseOf(r)
                   b == ResultOf(r)
                   c == AskedOf(r)
                   y == CancellingOf(r)
                   x == AskedOf(z)
        <5>1. PromiseOf(z) = [phase |-> "asking", result |-> b, asked |-> x, cancelling |-> y]
            BY <4>1, <4>3 DEF PromiseOf
        <5>2. PromiseOf(r) = [phase |-> a, result |-> b, asked |-> c, cancelling |-> y]
            BY DEF PromiseOf
        <5> HIDE DEF a, b, c, y, x
        <5>3. AsksNow([phase |-> a, result |-> b, asked |-> c, cancelling |-> y], x) = PromiseOf(z)
            BY <5>1, AskedPromise
        <5> QED  BY <5>2, <5>3 DEF x
      <4> QED  BY <3>0, <4>2, <4>4, <4>5 DEF PromiseStep
    <3> QED  BY <3>1, <3>2
  <2> QED  BY <2>6, <2>7 DEF Moves
<1>6. \/ client' = Caught(client, t) \/ http[t] = "ok"
      \/ http[t] = "conflict" /\ client.tr[t].policy = 1
    BY DEF OnResponse
<1> QED  BY <1>3, <1>4, <1>5, <1>6

\* The answer to the conflict question.
LEMMA DecideKeeps ==
    ASSUME None \notin Transfers, CoordinatorInv, NEW t \in Transfers, NEW decision \in Decisions,
           Decide(t, decision)
    PROVE  CoordinatorInv' /\ Moves(t)
<1> DEFINE r == client.tr[t]
           q == Returns(r)
           c == [client EXCEPT !.tr[t].phase = "returned"]
           again == [c EXCEPT !.tr[t].policy = 2, !.tr[t].transferId = 0, !.tr[t].serverFinished = FALSE]
           b == [q EXCEPT !.policy = 2, !.transferId = 0, !.serverFinished = FALSE]
<1>0. /\ client \in ClientRecord /\ client.tr \in [Transfers -> TransferRecord]
      /\ r \in TransferRecord /\ AttemptOK(t, r, server[t], http[t]) /\ LocalInv(r)
      /\ wire \in Seq(WireMessage) /\ http \in [Transfers -> {"none", "ok", "conflict", "failed"}]
    BY Facts
<1>1. r.phase = "asking" /\ server' = server /\ wire' = wire /\ http' = http
    BY DEF Decide
<1>2. /\ q \in TransferRecord /\ AttemptOK(t, q, server[t], "none") /\ q.phase = "returned"
      /\ q.status = r.status /\ q.transferId = r.transferId /\ q.cancelSent = r.cancelSent
      /\ q.slotReleased = r.slotReleased /\ q.policy = r.policy /\ q.cancelRequested = r.cancelRequested
      /\ q.prepareStarted = r.prepareStarted
  <2> DEFINE s == server[t]
             h == http[t]
  <2>1. AttemptOK(t, r, s, h) /\ r \in TransferRecord
      BY <1>0
  <2> HIDE DEF r, s, h
  <2>2. /\ q \in TransferRecord /\ AttemptOK(t, q, s, "none") /\ q.phase = "returned"
        /\ q.status = r.status /\ q.transferId = r.transferId /\ q.cancelSent = r.cancelSent
        /\ q.slotReleased = r.slotReleased /\ q.policy = r.policy /\ q.cancelRequested = r.cancelRequested
        /\ q.prepareStarted = r.prepareStarted
      BY <2>1, ReturnsFacts
  <2> QED  BY <2>2 DEF s
<1>3. c = Put(client, t, q)
    BY <1>0 DEF Put, ClientRecord, Returns
<1>4. Reads(0)
    BY <1>0, <1>1, ReadsNone
<1>5. /\ http[t] = "none" /\ server[t][1] = "conflict" /\ server[t][2] = "none"
      /\ r.transferId = 1 /\ r.policy = 1 /\ Stops(r, server[t])
  BY <1>0, <1>1 DEF LocalInv, AttemptOK, Stops, ServerEnds
<1>6. Touch(client, Put(client, t, q), t)
    BY <1>0, <1>1, <1>2, PutTouches
<1>7. c.tr[t] = q
  <2> HIDE DEF q, c
  <2>1. Put(client, t, q).tr[t] = q
      BY <1>0, <1>2, PutFacts
  <2> QED  BY <1>3, <2>1
<1>8. Terminalized(c, t) <=> r.status \in Terminal
    BY <1>2, <1>7 DEF Terminalized
<1>9. ASSUME NEW x \in {"skipped", "cancelled"}, client' = Finalized(c, t, x)
      PROVE  CoordinatorInv' /\ Moves(t)
  <2>1. x \in Terminal
      BY DEF Terminal
  <2>2. client' = Finalized(Put(client, t, q), t, x)
      BY <1>3, <1>9
  <2> HIDE DEF q
  <2>3. Stops(q, server[t]) /\ MailKept(r, q)
      BY <1>1, <1>2, <1>5 DEF Stops, MailKept
  <2>4. AttemptOK(t, q, server[t], http'[t]) /\ q.phase # "absent" /\ r.phase # "absent"
      BY <1>1, <1>2, <1>5
  <2>5. http' \in [Transfers -> {"none", "ok", "conflict", "failed"}] /\ \A u \in Transfers : u # t => http'[u] = http[u]
      BY <1>0, <1>1
  <2> QED  BY <1>1, <1>2, <1>4, <1>6, <2>1, <2>2, <2>3, <2>4, <2>5, PutEndKeeps
<1>10. /\ b \in TransferRecord /\ b.phase = "returned" /\ b.status = r.status /\ b.policy = 2
       /\ b.transferId = 0 /\ b.serverFinished = FALSE /\ b.cancelSent = r.cancelSent
       /\ b.slotReleased = r.slotReleased /\ b.cancelRequested = r.cancelRequested
       /\ b.prepareStarted = r.prepareStarted
  <2> HIDE DEF q, r
  <2>0. q \in TransferRecord
      BY <1>2
  <2>1. b \in TransferRecord
    <3>1. 2 \in Attempts
        BY DEF Attempts
    <3> QED  BY <2>0, <3>1 DEF TransferRecord
  <2>2. b.phase = q.phase /\ b.status = q.status /\ b.policy = 2 /\ b.transferId = 0
      BY <2>0 DEF TransferRecord
  <2>3. b.serverFinished = FALSE /\ b.cancelSent = q.cancelSent /\ b.slotReleased = q.slotReleased
      BY <2>0 DEF TransferRecord
  <2>4. b.cancelRequested = q.cancelRequested /\ b.prepareStarted = q.prepareStarted
      BY <2>0 DEF TransferRecord
  <2> HIDE DEF b
  <2> QED  BY <1>2, <2>1, <2>2, <2>3, <2>4
<1>11. again = Put(client, t, b)
  <2>1. c \in ClientRecord
      BY <1>0, <1>2, <1>3, PutFacts
  <2>2. again = Put(c, t, b)
    <3> HIDE DEF c
    <3>1. again = Put(c, t, [c.tr[t] EXCEPT !.policy = 2, !.transferId = 0, !.serverFinished = FALSE])
        BY <2>1 DEF Put, ClientRecord
    <3> QED  BY <1>7, <3>1
  <2> HIDE DEF b, q
  <2>3. Put(c, t, b) = Put(client, t, b)
    <3> HIDE DEF c
    <3> QED  BY <1>0, <1>3 DEF Put, ClientRecord
  <2> QED  BY <2>2, <2>3
<1> HIDE DEF b, q, again, c
<1>12. CASE decision = "replace" /\ r.status \notin Terminal
  <2>1. client' = Prepare(Put(client, t, b), t)
      BY <1>8, <1>11, <1>12 DEF Decide, c, again
  <2> DEFINE z == Preparing(b)
  <2>2. /\ z.status = "preparing" /\ z.phase = "preparing" /\ z.policy = 2 /\ z.transferId = 0
        /\ z.prepareStarted = TRUE /\ z.serverFinished = FALSE /\ z.cancelRequested = r.cancelRequested
      BY <1>10 DEF Preparing, TransferRecord
  <2> HIDE DEF z
  <2>3. AttemptOK(t, z, server[t], "none")
      BY <1>5, <2>2 DEF AttemptOK, LocalInv, Terminal, Attempts
  <2>4. /\ CoordinatorInv' /\ client'.tr[t] = Preparing(b)
        /\ \A u \in Transfers : u # t => Called(client.tr[u], client'.tr[u])
    BY <1>5, <1>10, <2>3, <1>1, <1>12, <2>1, PrepareStepKeeps DEF z
  <2>5. PromiseStep(t, PromiseOf(r), PromiseOf(z))
    <3>0. r.status \notin Terminal /\ z.status \notin Terminal
        BY <1>12, <2>2 DEF Terminal
    <3> HIDE DEF r
    <3>1. PhaseOf(r) = "asking" /\ PhaseOf(z) = "running" /\ ResultOf(z) = ResultOf(r)
        BY <1>1, <2>2, <3>0 DEF PhaseOf, ResultOf
    <3>2. AskedOf(z) = AskedOf(r)
        BY <1>1, <2>2, <3>0 DEF AskedOf
    <3>3. CancellingOf(z) = CancellingOf(r)
        BY <2>2, <3>0 DEF CancellingOf
    <3>4. PromiseOf(r).phase = "asking" /\ PromiseOf(z) = [PromiseOf(r) EXCEPT !.phase = "running"]
        BY <3>1, <3>2, <3>3 DEF PromiseOf
    <3> QED  BY <3>4 DEF PromiseStep
  <2> QED  BY <2>4, <2>5 DEF Moves, z
<1>13. CASE decision = "replace" /\ r.status \in Terminal
  <2>1. client' = Put(client, t, b)
      BY <1>8, <1>11, <1>13 DEF Decide, c, again
  <2>2. Touch(client, Put(client, t, b), t)
      BY <1>0, <1>1, <1>10, PutTouches
  <2>3. AttemptOK(t, b, server[t], http'[t])
    BY <1>5, <1>10, <1>1 DEF AttemptOK, LocalInv, Attempts, Stops
  <2>4. MailKept(r, b) /\ (r.cancelSent = TRUE => b.cancelSent = TRUE)
      BY <1>1, <1>10 DEF MailKept
  <2>5. http' \in [Transfers -> {"none", "ok", "conflict", "failed"}] /\ \A u \in Transfers : u # t => http'[u] = http[u]
      BY <1>0, <1>1
  <2>6. /\ CoordinatorInv' /\ client'.tr[t] = b
        /\ \A u \in Transfers : u # t => Called(client.tr[u], client'.tr[u])
      BY <1>1, <1>4, <1>10, <2>1, <2>2, <2>3, <2>4, <2>5, PutStepKeeps
  <2>7. PromiseOf(b) = PromiseOf(r)
    <3> HIDE DEF r
    <3> QED  BY <1>1, <1>10, <1>13, SilentStep
  <2> QED  BY <2>6, <2>7 DEF Moves, PromiseStep
<1>14. CASE decision \in {"skip", "cancel"}
  BY <1>14, <1>9 DEF Decide, c, Finalized
<1> QED  BY <1>12, <1>13, <1>14 DEF Decisions

\* The object of a transfer whose AbortController may have been triggered.
Aborts(r, t) == [r EXCEPT !.aborted = IsUpload(t)]

\* What stays of an object whose fetch is aborted.
LEMMA AbortsFacts ==
    ASSUME NEW t, NEW r \in TransferRecord, NEW s, NEW h, AttemptOK(t, r, s, h), r.phase # "absent"
    PROVE  /\ Aborts(r, t) \in TransferRecord /\ AttemptOK(t, Aborts(r, t), s, h)
           /\ Aborts(r, t).phase = r.phase /\ Aborts(r, t).status = r.status
           /\ Aborts(r, t).policy = r.policy /\ Aborts(r, t).transferId = r.transferId
           /\ Aborts(r, t).cancelSent = r.cancelSent /\ Aborts(r, t).slotReleased = r.slotReleased
           /\ Aborts(r, t).cancelRequested = r.cancelRequested
           /\ Aborts(r, t).prepareStarted = r.prepareStarted
           /\ Aborts(r, t).serverFinished = r.serverFinished
<1> DEFINE q == Aborts(r, t)
<1>0. IsUpload(t) \in BOOLEAN
    BY DEF IsUpload
<1>1. /\ q \in TransferRecord /\ q.phase = r.phase /\ q.status = r.status
      /\ q.policy = r.policy /\ q.transferId = r.transferId
      /\ q.cancelSent = r.cancelSent /\ q.slotReleased = r.slotReleased
      /\ q.cancelRequested = r.cancelRequested /\ q.prepareStarted = r.prepareStarted
      /\ q.serverFinished = r.serverFinished
    BY <1>0 DEF Aborts, TransferRecord
<1> HIDE DEF q
<1>2. AttemptOK(t, q, s, h)
    BY <1>1 DEF AttemptOK, LocalInv, Stops
<1> QED  BY <1>1, <1>2 DEF q

\* The end of a transfer whose fetch is aborted with it.
LEMMA AbortEndKeeps ==
    ASSUME None \notin Transfers, CoordinatorInv, NEW t \in Transfers, NEW x \in {"cancelled", "error"},
           client' = Finalized([client EXCEPT !.tr[t].aborted = IsUpload(t)], t, x),
           server' = server, http' = http, client.tr[t].phase # "absent",
           Stops(client.tr[t], server[t]), NEW d, Reads(d)
    PROVE  CoordinatorInv' /\ Moves(t)
<1> DEFINE r == client.tr[t]
           q == Aborts(r, t)
<1>0. /\ client \in ClientRecord /\ r \in TransferRecord /\ AttemptOK(t, r, server[t], http[t])
      /\ http \in [Transfers -> {"none", "ok", "conflict", "failed"}]
    BY Facts
<1>1. client' = Finalized(Put(client, t, q), t, x)
  BY <1>0 DEF Put, ClientRecord, Aborts
<1>2. /\ q \in TransferRecord /\ AttemptOK(t, q, server[t], http[t])
      /\ q.phase = r.phase /\ q.status = r.status /\ q.policy = r.policy
      /\ q.transferId = r.transferId /\ q.cancelSent = r.cancelSent /\ q.slotReleased = r.slotReleased
  <2> DEFINE s == server[t]
             h == http[t]
  <2>1. AttemptOK(t, r, s, h) /\ r \in TransferRecord /\ r.phase # "absent"
      BY <1>0
  <2> HIDE DEF r, s, h
  <2>2. /\ q \in TransferRecord /\ AttemptOK(t, q, s, h)
        /\ q.phase = r.phase /\ q.status = r.status /\ q.policy = r.policy
        /\ q.transferId = r.transferId /\ q.cancelSent = r.cancelSent /\ q.slotReleased = r.slotReleased
      BY <2>1, AbortsFacts
  <2> QED  BY <2>2 DEF s, h
<1> HIDE DEF q
<1>3. Stops(q, server[t]) /\ MailKept(r, q)
    BY <1>2 DEF Stops, MailKept
<1>4. Touch(client, Put(client, t, q), t)
    BY <1>0, <1>2, PutTouches
<1>5. /\ AttemptOK(t, q, server[t], http'[t]) /\ q.phase # "absent" /\ x \in Terminal /\ x # "skipped"
      /\ http' \in [Transfers -> {"none", "ok", "conflict", "failed"}]
      /\ \A u \in Transfers : u # t => http'[u] = http[u]
    BY <1>0, <1>2 DEF Terminal
<1> QED  BY <1>1, <1>2, <1>3, <1>4, <1>5, PutEndKeeps

\* The end of a transfer without any other change.
LEMMA PlainEndKeeps ==
    ASSUME None \notin Transfers, CoordinatorInv, NEW t \in Transfers, NEW x \in {"completed", "error"},
           client' = Finalized(client, t, x),
           server' = server, http' = http, client.tr[t].phase # "absent",
           Stops(client.tr[t], server[t]), NEW d, Reads(d)
    PROVE  CoordinatorInv' /\ Moves(t)
<1> DEFINE q == client.tr[t]
<1>0. /\ client \in ClientRecord /\ q \in TransferRecord /\ AttemptOK(t, q, server[t], http[t])
      /\ http \in [Transfers -> {"none", "ok", "conflict", "failed"}]
    BY Facts
<1>1. client' = Finalized(Put(client, t, q), t, x)
  <2>1. client = Put(client, t, q)
      BY <1>0 DEF Put, ClientRecord
  <2> QED  BY <2>1
<1>2. MailKept(client.tr[t], q) /\ q.phase # "absent" /\ q.status = client.tr[t].status /\ Stops(q, server[t])
    BY DEF MailKept
<1>3. Touch(client, Put(client, t, q), t)
    BY <1>0, PutTouches
<1>4. /\ AttemptOK(t, q, server[t], http'[t]) /\ x \in Terminal /\ x # "skipped"
      /\ http' \in [Transfers -> {"none", "ok", "conflict", "failed"}]
      /\ \A u \in Transfers : u # t => http'[u] = http[u]
    BY <1>0 DEF Terminal
<1> HIDE DEF q
<1> QED  BY <1>0, <1>1, <1>2, <1>3, <1>4, PutEndKeeps

\* A message that changes nothing.
LEMMA IgnoredKeeps ==
    ASSUME CoordinatorInv, NEW t \in Transfers, client' = client, server' = server, http' = http,
           NEW d, Reads(d)
    PROVE  CoordinatorInv' /\ Moves(t)
  BY Facts, TouchStepKeeps DEF Touch, Mailed, MailKept, Moves, PromiseStep

\* cancelTransfer.
LEMMA CancelTransferKeeps ==
    ASSUME None \notin Transfers, CoordinatorInv, NEW t \in Transfers, CancelTransfer(t)
    PROVE  CoordinatorInv' /\ Moves(t)
<1> DEFINE r == client.tr[t]
           q == [r EXCEPT !.cancelRequested = TRUE, !.aborted = IsUpload(t)]
           asked == [client EXCEPT !.tr[t].cancelRequested = TRUE, !.tr[t].aborted = IsUpload(t)]
<1>0. /\ client \in ClientRecord /\ client.tr \in [Transfers -> TransferRecord]
      /\ r \in TransferRecord /\ AttemptOK(t, r, server[t], http[t]) /\ LocalInv(r)
      /\ wire \in Seq(WireMessage) /\ http \in [Transfers -> {"none", "ok", "conflict", "failed"}]
    BY Facts
<1>1. /\ r.phase # "absent" /\ r.status \notin Terminal /\ r.cancelRequested = FALSE
      /\ server' = server /\ wire' = wire /\ http' = http
    BY <1>0 DEF CancelTransfer, Created, Terminalized, TransferRecord
<1>2. /\ q \in TransferRecord /\ q.phase = r.phase /\ q.status = r.status
      /\ q.policy = r.policy /\ q.transferId = r.transferId
      /\ q.cancelSent = r.cancelSent /\ q.slotReleased = r.slotReleased
      /\ q.cancelRequested = TRUE /\ q.prepareStarted = r.prepareStarted
      /\ q.serverFinished = r.serverFinished
  <2>0. IsUpload(t) \in BOOLEAN
      BY DEF IsUpload
  <2> HIDE DEF r
  <2> QED  BY <1>0, <2>0 DEF TransferRecord
<1>3. asked = Put(client, t, q)
    BY <1>0 DEF Put, ClientRecord
<1>4. Reads(0)
    BY <1>0, <1>1, ReadsNone
<1>5. /\ http' \in [Transfers -> {"none", "ok", "conflict", "failed"}]
      /\ \A u \in Transfers : u # t => http'[u] = http[u]
    BY <1>0, <1>1
<1> HIDE DEF q
<1>6. AttemptOK(t, q, server[t], http[t])
    BY <1>0, <1>1, <1>2 DEF AttemptOK, LocalInv
<1>7. CASE ~r.prepareStarted \/ r.serverFinished
  <2>1. client' = Finalized(Put(client, t, q), t, "cancelled")
      BY <1>3, <1>7 DEF CancelTransfer, Finalized
  <2>2. Stops(q, server[t])
      BY <1>0, <1>2, <1>7 DEF Stops, AttemptOK, LocalInv, TransferRecord
  <2>3. Touch(client, Put(client, t, q), t)
      BY <1>0, <1>2, PutTouches
  <2>4. MailKept(r, q) /\ "cancelled" \in Terminal /\ AttemptOK(t, q, server[t], http'[t])
      BY <1>1, <1>2, <1>6 DEF MailKept, Terminal
  <2> QED  BY <1>1, <1>2, <1>4, <1>5, <2>1, <2>2, <2>3, <2>4, PutEndKeeps
<1>8. CASE ~(~r.prepareStarted \/ r.serverFinished)
  <2> DEFINE z == [q EXCEPT !.status = "cancelling"]
             s == Stopped(z)
  <2>1. client' = CancelPreparedTransfer(Put(client, t, z), t)
    <3>1. client' = CancelPreparedTransfer([asked EXCEPT !.tr[t].status = "cancelling"], t)
        BY <1>8 DEF CancelTransfer
    <3> HIDE DEF asked
    <3>2. asked \in ClientRecord /\ asked.tr[t] = q
        BY <1>0, <1>2, <1>3, PutFacts
    <3>3. [asked EXCEPT !.tr[t].status = "cancelling"] = Put(asked, t, z)
        BY <3>2 DEF Put, ClientRecord
    <3> HIDE DEF z
    <3>4. Put(asked, t, z) = Put(client, t, z)
        BY <1>0, <1>3 DEF Put, ClientRecord
    <3> QED  BY <3>1, <3>3, <3>4
  <2>2. /\ z \in TransferRecord /\ z.phase = r.phase /\ z.status = "cancelling"
        /\ z.policy = r.policy /\ z.transferId = r.transferId
        /\ z.cancelSent = r.cancelSent /\ z.slotReleased = r.slotReleased
        /\ z.cancelRequested = TRUE /\ z.prepareStarted = r.prepareStarted
        /\ z.serverFinished = r.serverFinished
      BY <1>2 DEF TransferRecord
  <2> HIDE DEF z
  <2>3. /\ s.phase = r.phase /\ s.status = "cancelling" /\ s.policy = r.policy
        /\ s.transferId = r.transferId /\ s.prepareStarted = r.prepareStarted
        /\ s.cancelRequested = TRUE /\ s.serverFinished = r.serverFinished
        /\ s.cancelSent = r.cancelSent \/ r.transferId # 0
      BY <2>2 DEF Stopped, TransferRecord
  <2> HIDE DEF s
  <2>4. "cancelling" \notin Terminal
      BY DEF Terminal
  <2>5. AttemptOK(t, s, server[t], http[t])
      BY <1>0, <1>1, <2>3, <2>4 DEF AttemptOK, LocalInv
  <2>6. Touch(client, Put(client, t, z), t)
      BY <1>0, <1>1, <2>2, <2>4, PutTouches
  <2>7. MailKept(r, z) /\ (r.cancelSent = TRUE => z.cancelSent = TRUE)
      BY <2>2 DEF MailKept
  <2>8. /\ CoordinatorInv' /\ client'.tr[t] = Stopped(z)
        /\ \A u \in Transfers : u # t => Called(client.tr[u], client'.tr[u])
    BY <2>5, <1>1, <1>4, <2>1, <2>2, <2>6, <2>7, StopStepKeeps DEF s
  <2>9. PromiseStep(t, PromiseOf(r), PromiseOf(s))
    <3>0. s.status \notin Terminal
        BY <2>3, <2>4
    <3> HIDE DEF r
    <3>1. PhaseOf(r) \in {"running", "asking"} /\ PhaseOf(s) = PhaseOf(r) /\ ResultOf(s) = ResultOf(r)
        BY <1>1, <2>3, <3>0 DEF PhaseOf, ResultOf
    <3>2. AskedOf(s) = AskedOf(r)
        BY <1>1, <2>3, <3>0 DEF AskedOf
    <3>3. CancellingOf(r) = FALSE /\ CancellingOf(s) = TRUE
        BY <1>1, <2>3, <3>0 DEF CancellingOf
    <3>4. PromiseOf(r).phase \in {"running", "asking"} /\ PromiseOf(r).cancelling = CancellingOf(r)
        BY <3>1 DEF PromiseOf
    <3>5. PromiseOf(s) = [PromiseOf(r) EXCEPT !.cancelling = CancellingOf(s)]
        BY <3>1, <3>2 DEF PromiseOf
    <3> QED  BY <3>3, <3>4, <3>5 DEF PromiseStep
  <2> QED  BY <2>8, <2>9 DEF Moves, s
<1> QED  BY <1>7, <1>8

\* The acknowledgement of cancel_transfer.
LEMMA OnCancelAckKeeps ==
    ASSUME None \notin Transfers, CoordinatorInv, NEW t \in Transfers, OnCancelAck(t)
    PROVE  CoordinatorInv' /\ Moves(t)
<1> DEFINE r == client.tr[t]
<1>0. /\ client \in ClientRecord /\ Good(client)
      /\ r \in TransferRecord /\ AttemptOK(t, r, server[t], http[t]) /\ LocalInv(r)
      /\ wire \in Seq(WireMessage) /\ http \in [Transfers -> {"none", "ok", "conflict", "failed"}]
    BY Facts
<1>1. /\ wire # <<>> /\ Head(wire).event = "cancelAck" /\ Head(wire).transfer = t
      /\ wire' = Tail(wire) /\ server' = server /\ http' = http
    BY DEF OnCancelAck
<1>2. Reads(1) /\ 1 \in DOMAIN wire /\ Head(wire) = wire[1]
    BY <1>0, <1>1, ReadsFirst
<1>3. r.cancelSent = TRUE
    BY <1>1, <1>2 DEF CoordinatorInv, WireInv
<1>4. r.phase # "absent" /\ Stops(r, server[t])
    BY <1>0, <1>3 DEF LocalInv, Stops
<1>5. CASE Terminalized(client, t)
  <2>1. client' = ReleaseSlot(client, t)
      BY <1>5 DEF OnCancelAck
  <2>2. /\ Good(client') /\ client'.outbox = client.outbox
        /\ \A u \in Transfers : u # t => Called(client.tr[u], client'.tr[u])
        /\ client'.tr[t] = [r EXCEPT !.slotReleased = TRUE]
    BY <1>0, <1>5, <2>1, ReleaseKeeps DEF Good, Waits
  <2> DEFINE s == client'.tr[t]
  <2>3. /\ s.phase = r.phase /\ s.status = r.status /\ s.policy = r.policy
        /\ s.transferId = r.transferId /\ s.prepareStarted = r.prepareStarted
        /\ s.cancelRequested = r.cancelRequested /\ s.serverFinished = r.serverFinished
        /\ s.cancelSent = r.cancelSent
      BY <1>0, <2>2 DEF TransferRecord
  <2>4. client' \in ClientRecord /\ wire' \in Seq(WireMessage) /\ Mailed(client, client', t)
      BY <1>2, <2>2 DEF Good, Reads, Mailed
  <2>5. OutboxInv' /\ WireInv'
    <3>1. /\ client.tr[t].phase = "preparing" => /\ client'.tr[t].phase = "preparing"
                                                 /\ client'.tr[t].policy = client.tr[t].policy
          /\ client.tr[t].cancelSent = TRUE => client'.tr[t].cancelSent = TRUE
        BY <2>3
    <3> QED  BY <1>1, <1>2, <2>2, <2>4, <3>1, MailKeeps
  <2> HIDE DEF s
  <2>6. AttemptOK(t, s, server[t], http[t])
      BY <1>0, <1>4, <2>3 DEF AttemptOK, LocalInv, Stops
  <2>7. CoordinatorInv'
    BY <1>1, <2>6, <1>0, <2>2, <2>4, <2>5, StepKeeps DEF s
  <2>8. PromiseOf(s) = PromiseOf(r)
    <3>1. r.status \in Terminal
        BY <1>5 DEF Terminalized
    <3> HIDE DEF r
    <3> QED  BY <1>4, <2>3, <3>1, SilentStep
  <2> QED  BY <2>2, <2>7, <2>8 DEF Moves, PromiseStep, s
<1>6. CASE ~Terminalized(client, t) /\ Head(wire).state = "cancelled"
  BY <1>6, <1>1, <1>2, <1>4, AbortEndKeeps DEF OnCancelAck, Finalized
<1>7. CASE ~Terminalized(client, t) /\ Head(wire).state = "unavailable"
  BY <1>7, <1>1, <1>2, <1>4, PlainEndKeeps DEF OnCancelAck, Finalized
<1>8. CASE ~Terminalized(client, t) /\ Head(wire).state \notin {"cancelled", "unavailable"}
  <2>1. client' = client
      BY <1>8 DEF OnCancelAck
  <2> QED  BY <1>1, <1>2, <2>1, IgnoredKeeps
<1> QED  BY <1>5, <1>6, <1>7, <1>8

\* transfer_finished.
LEMMA OnFinishedKeeps ==
    ASSUME None \notin Transfers, CoordinatorInv, NEW t \in Transfers, OnFinished(t)
    PROVE  CoordinatorInv' /\ Moves(t)
<1> DEFINE r == client.tr[t]
           m == Head(wire)
           old == r.transferId # m.attempt \/ r.slotReleased \/ Terminalized(client, t)
<1>0. /\ client \in ClientRecord
      /\ r \in TransferRecord /\ AttemptOK(t, r, server[t], http[t]) /\ LocalInv(r)
      /\ wire \in Seq(WireMessage) /\ http \in [Transfers -> {"none", "ok", "conflict", "failed"}]
    BY Facts
<1>1. /\ wire # <<>> /\ m.event = "finished" /\ m.transfer = t
      /\ wire' = Tail(wire) /\ server' = server /\ http' = http
    BY DEF OnFinished
<1>2. Reads(1) /\ 1 \in DOMAIN wire /\ Head(wire) = wire[1] /\ wire[1] \in WireMessage
    BY <1>0, <1>1, ReadsFirst
<1>3. server[t][m.attempt] \in ServerEnds
    BY <1>1, <1>2 DEF CoordinatorInv, WireInv
<1>4. m.attempt \in Attempts /\ m.attempt # 0
    BY <1>2 DEF WireMessage, Attempts
<1>5. CASE old
  <2>1. client' = client
      BY <1>5 DEF OnFinished
  <2> QED  BY <1>1, <1>2, <2>1, IgnoredKeeps
<1>6. CASE ~old
  <2>1. r.transferId = m.attempt /\ r.status \notin Terminal
      BY <1>6 DEF Terminalized
  <2>2. Stops(r, server[t])
      BY <1>3, <2>1 DEF Stops
  <2>3. r.phase \notin {"absent", "waiting", "called"}
      BY <1>0, <1>4, <2>1 DEF LocalInv
  <2>4. CASE m.status = "completed"
    BY <1>6, <2>4, <1>1, <1>2, <2>2, <2>3, PlainEndKeeps DEF OnFinished, Finalized
  <2>5. CASE m.status = "conflict" /\ IsUpload(t)
    <3> DEFINE z == [r EXCEPT !.serverFinished = TRUE]
    <3>1. client' = Put(client, t, z)
      BY <1>6, <2>5, <1>0 DEF OnFinished, Put, ClientRecord
    <3>2. /\ z \in TransferRecord /\ z.phase = r.phase /\ z.status = r.status /\ z.policy = r.policy
          /\ z.transferId = r.transferId /\ z.cancelSent = r.cancelSent /\ z.slotReleased = r.slotReleased
          /\ z.cancelRequested = r.cancelRequested /\ z.prepareStarted = r.prepareStarted
          /\ z.serverFinished = TRUE
        BY <1>0 DEF TransferRecord
    <3> HIDE DEF z
    <3>3. AttemptOK(t, z, server[t], http[t])
        BY <1>0, <1>3, <1>4, <2>1, <2>3, <3>2 DEF AttemptOK, LocalInv
    <3>4. Touch(client, Put(client, t, z), t)
        BY <1>0, <3>2, PutTouches
    <3>5. /\ CoordinatorInv' /\ client'.tr[t] = z
          /\ \A u \in Transfers : u # t => Called(client.tr[u], client'.tr[u])
      <4>1. /\ MailKept(r, z) /\ (r.cancelSent = TRUE => z.cancelSent = TRUE)
            /\ AttemptOK(t, z, server[t], http'[t])
            /\ http' \in [Transfers -> {"none", "ok", "conflict", "failed"}]
            /\ \A u \in Transfers : u # t => http'[u] = http[u]
          BY <1>0, <1>1, <3>2, <3>3 DEF MailKept
      <4> QED  BY <1>1, <1>2, <3>1, <3>2, <3>4, <4>1, PutStepKeeps
    <3>6. PromiseOf(z) = PromiseOf(r)
      <4> HIDE DEF r
      <4> QED  BY <2>1, <2>3, <3>2, SilentStep
    <3> QED  BY <3>5, <3>6 DEF Moves, PromiseStep
  <2>6. CASE m.status # "completed" /\ ~(m.status = "conflict" /\ IsUpload(t))
    BY <1>6, <2>6, <1>1, <1>2, <2>2, <2>3, AbortEndKeeps DEF OnFinished, Finalized
  <2> QED  BY <2>4, <2>5, <2>6
<1> QED  BY <1>5, <1>6

----------------------------------------------------------------------------
(* The server's steps, which leave every transfer's object alone.          *)

\* What the server adds to the wire is about the transfer and true.
Adds(t) ==
    /\ wire' \in Seq(WireMessage) /\ \A j \in DOMAIN wire : j \in DOMAIN wire'
    /\ \A k \in DOMAIN wire' :
          \/ k \in DOMAIN wire /\ wire'[k] = wire[k]
          \/ /\ wire'[k].transfer = t /\ wire'[k].event \in {"finished", "cancelAck"}
             /\ wire'[k].event = "finished" => server'[t][wire'[k].attempt] \in ServerEnds
             /\ wire'[k].event = "cancelAck" => client.tr[t].cancelSent = TRUE

\* One more message, or two.
LEMMA AddsOne ==
    ASSUME NEW T, NEW w \in Seq(T), NEW m \in T
    PROVE  /\ Append(w, m) \in Seq(T) /\ \A j \in DOMAIN w : j \in DOMAIN Append(w, m)
           /\ \A k \in DOMAIN Append(w, m) : \/ k \in DOMAIN w /\ Append(w, m)[k] = w[k]
                                             \/ k = Len(w) + 1 /\ k \notin DOMAIN w /\ Append(w, m)[k] = m
<1> DEFINE p == Append(w, m)
<1>1. /\ Len(w) \in Nat /\ DOMAIN w = 1 .. Len(w) /\ p \in Seq(T)
      /\ DOMAIN p = 1 .. Len(w) + 1 /\ p[Len(w) + 1] = m
      /\ \A k \in 1 .. Len(w) : p[k] = w[k]
    OBVIOUS
<1> HIDE DEF p
<1>2. \A k \in DOMAIN p : \/ k \in DOMAIN w /\ p[k] = w[k]
                          \/ k = Len(w) + 1 /\ k \notin DOMAIN w /\ p[k] = m
    BY <1>1
<1>3. \A j \in DOMAIN w : j \in DOMAIN p
    BY <1>1
<1> QED  BY <1>1, <1>2, <1>3 DEF p

\* Two more messages.
LEMMA AddsTwo ==
    ASSUME NEW T, NEW w \in Seq(T), NEW m \in T, NEW n \in T
    PROVE  LET p == w \o <<m, n>> IN
           /\ p \in Seq(T) /\ \A j \in DOMAIN w : j \in DOMAIN p
           /\ \A k \in DOMAIN p : \/ k \in DOMAIN w /\ p[k] = w[k]
                                  \/ k \notin DOMAIN w /\ p[k] \in {m, n}
<1> DEFINE b == <<m, n>>
           p == w \o b
<1>0. b \in Seq(T) /\ Len(b) = 2 /\ b[1] = m /\ b[2] = n
    OBVIOUS
<1> HIDE DEF b
<1>1. /\ p \in Seq(T) /\ Len(p) = Len(w) + Len(b)
      /\ \A k \in 1 .. Len(w) + Len(b) : p[k] = IF k <= Len(w) THEN w[k] ELSE b[k - Len(w)]
    BY <1>0, ConcatProperties
<1> HIDE DEF p
<1>2. Len(w) \in Nat /\ DOMAIN w = 1 .. Len(w) /\ DOMAIN p = 1 .. Len(w) + 2
    BY <1>0, <1>1
<1>3. ASSUME NEW k \in DOMAIN p
      PROVE  \/ k \in DOMAIN w /\ p[k] = w[k]
             \/ k \notin DOMAIN w /\ p[k] \in {m, n}
  BY <1>0, <1>1, <1>2
<1>4. \A j \in DOMAIN w : j \in DOMAIN p
    BY <1>2
<1> QED  BY <1>1, <1>3, <1>4 DEF p, b

\* A step of the server for one transfer: the objects stay, the outbox may only shrink, and
\* what the server had finished stays finished.
ServesOnly(t) ==
    /\ client' \in ClientRecord /\ client'.tr = client.tr /\ client'.queue = client.queue
    /\ client'.active = client.active /\ client'.outbox \subseteq client.outbox
    /\ server' \in [Transfers -> [Attempts -> ServerStates]]
    /\ \A u \in Transfers : u # t => server'[u] = server[u]
    /\ \A n \in Attempts : server[t][n] \in ServerEnds => server'[t][n] \in ServerEnds
    /\ \A m \in client'.outbox : m.ask = "prepare" /\ m.transfer = t => server'[t][m.attempt] = "none"
    /\ http' \in [Transfers -> {"none", "ok", "conflict", "failed"}]
    /\ \A u \in Transfers : u # t => http'[u] = http[u]

\* A step of the server keeps the invariant when its messages are true.
LEMMA ServesKeeps ==
    ASSUME CoordinatorInv, NEW t \in Transfers, ServesOnly(t),
           AttemptOK(t, client.tr[t], server'[t], http'[t]), wire' \in Seq(WireMessage), WireInv'
    PROVE  CoordinatorInv' /\ Moves(t)
<1> USE DEF ServesOnly
<1>0. client.outbox \subseteq Asked
    BY Facts
<1>1. Waits(client') /\ Slots(client')
    BY DEF CoordinatorInv, Waits, Slots, Terminalized
<1>2. ASSUME NEW u \in Transfers
      PROVE  AttemptInv(u)'
  BY DEF CoordinatorInv, AttemptInv
<1>3. OutboxInv'
  BY <1>0 DEF OutboxInv, Asked, CoordinatorInv
<1>4. ClientTypes'
    BY DEF ClientTypes
<1>5. Moves(t)
    BY DEF Moves, Called, PromiseStep
<1> QED  BY <1>1, <1>2, <1>3, <1>4, <1>5 DEF CoordinatorInv

\* The wire after a step of the server that sends no acknowledgement of prepare_transfer.
LEMMA AddsKeeps ==
    ASSUME CoordinatorInv, NEW t \in Transfers, ServesOnly(t), Adds(t)
    PROVE  wire' \in Seq(WireMessage) /\ WireInv'
<1>0. wire \in Seq(WireMessage) /\ wire' \in Seq(WireMessage)
    BY Facts DEF Adds
<1>1. ASSUME NEW k \in DOMAIN wire'
      PROVE  LET m == wire'[k] x == wire'[k].transfer IN
        /\ m.event = "prepared" =>
              /\ client'.tr[x].phase = "preparing" /\ client'.tr[x].policy = m.attempt
              /\ \A q \in client'.outbox : q.transfer = x => q.ask # "prepare"
              /\ \A j \in DOMAIN wire' : wire'[j].event = "prepared" /\ wire'[j].transfer = x => j = k
        /\ m.event = "finished" => server'[x][m.attempt] \in ServerEnds
        /\ m.event = "cancelAck" => client'.tr[x].cancelSent = TRUE
  <2>1. CASE k \in DOMAIN wire /\ wire'[k] = wire[k]
    <3> DEFINE m == wire[k]
               x == wire[k].transfer
    <3>0. wire[k] \in WireMessage
        BY <1>0, <2>1
    <3>1. x \in Transfers /\ m.attempt \in Attempts
        BY <3>0 DEF WireMessage
    <3>2. /\ m.event = "prepared" =>
              /\ client.tr[x].phase = "preparing" /\ client.tr[x].policy = m.attempt
              /\ \A q \in client.outbox : q.transfer = x => q.ask # "prepare"
              /\ \A j \in DOMAIN wire : wire[j].event = "prepared" /\ wire[j].transfer = x => j = k
          /\ m.event = "finished" => server[x][m.attempt] \in ServerEnds
          /\ m.event = "cancelAck" => client.tr[x].cancelSent = TRUE
        BY <2>1 DEF CoordinatorInv, WireInv
    <3>3. ASSUME m.event = "prepared", NEW j \in DOMAIN wire', wire'[j].event = "prepared",
                 wire'[j].transfer = x
          PROVE  j = k
      BY <3>3, <3>2 DEF Adds
    <3>4. m.event = "finished" => server'[x][m.attempt] \in ServerEnds
        BY <3>1, <3>2 DEF ServesOnly
    <3>5. /\ m.event = "prepared" => /\ client'.tr[x].phase = "preparing" /\ client'.tr[x].policy = m.attempt
                                     /\ \A q \in client'.outbox : q.transfer = x => q.ask # "prepare"
          /\ m.event = "cancelAck" => client'.tr[x].cancelSent = TRUE
        BY <3>2 DEF ServesOnly
    <3> QED  BY <2>1, <3>3, <3>4, <3>5
  <2>2. CASE ~(k \in DOMAIN wire /\ wire'[k] = wire[k])
    BY <2>2 DEF Adds, ServesOnly
  <2> QED  BY <2>1, <2>2
<1> QED  BY <1>0, <1>1 DEF WireInv

\* prepare_transfer on the server.
LEMMA ServePrepareKeeps ==
    ASSUME CoordinatorInv, NEW t \in Transfers, ServePrepare(t)
    PROVE  CoordinatorInv' /\ Moves(t)
<1> DEFINE r == client.tr[t]
<1>0. /\ client \in ClientRecord /\ r \in TransferRecord /\ AttemptOK(t, r, server[t], http[t]) /\ LocalInv(r)
      /\ wire \in Seq(WireMessage) /\ http \in [Transfers -> {"none", "ok", "conflict", "failed"}]
      /\ server \in [Transfers -> [Attempts -> ServerStates]] /\ client.outbox \subseteq Asked
    BY Facts
<1>1. PICK m \in client.outbox, ok \in BOOLEAN :
        /\ m.ask = "prepare" /\ m.transfer = t
        /\ client' = [client EXCEPT !.outbox = @ \ {m}]
        /\ server' = [server EXCEPT ![t][m.attempt] = IF ok THEN "pending" ELSE @]
        /\ wire' = Append(wire, [Message("prepared", t, m.attempt) EXCEPT !.ok = ok])
        /\ http' = http
    BY DEF ServePrepare
<1> DEFINE n == m.attempt
           g == [Message("prepared", t, n) EXCEPT !.ok = ok]
<1>2. r.phase = "preparing" /\ r.policy = n /\ server[t][n] = "none" /\ n \in Attempts
  BY <1>0, <1>1 DEF Asked, CoordinatorInv, OutboxInv
<1>3. /\ server' \in [Transfers -> [Attempts -> ServerStates]]
      /\ \A u \in Transfers : u # t => server'[u] = server[u]
      /\ server'[t][n] \in {"none", "pending"}
      /\ \A k \in Attempts : k # n => server'[t][k] = server[t][k]
    BY <1>0, <1>1, <1>2 DEF ServerStates
<1>4. /\ client' \in ClientRecord /\ client'.tr = client.tr /\ client'.queue = client.queue
      /\ client'.active = client.active /\ client'.outbox = client.outbox \ {m}
    BY <1>0, <1>1 DEF ClientRecord
<1>5. \A q \in client'.outbox : q.transfer = t => q.ask # "prepare"
  <2> SUFFICES ASSUME NEW q \in client'.outbox, q.transfer = t, q.ask = "prepare"
               PROVE  FALSE
      OBVIOUS
  <2>1. q \in client.outbox /\ q \in Asked /\ m \in Asked /\ q # m
      BY <1>0, <1>4
  <2>2. q.attempt = r.policy
      BY <2>1 DEF CoordinatorInv, OutboxInv
  <2>3. q = m
      BY <1>1, <1>2, <2>1, <2>2 DEF Asked
  <2> QED  BY <2>1, <2>3
<1>6. ServesOnly(t)
  BY <1>2, <1>3, <1>0, <1>1, <1>4, <1>5 DEF ServerEnds, ServesOnly
<1>7. AttemptOK(t, r, server'[t], http'[t])
  BY <1>0, <1>2, <1>3, <1>1 DEF LocalInv, AttemptOK, Attempts, Stops
<1>8. g \in WireMessage /\ g.event = "prepared" /\ g.transfer = t /\ g.attempt = n
    BY <1>2 DEF Message, WireMessage, ServerStates
<1> HIDE DEF g
<1>9. /\ wire' \in Seq(WireMessage) /\ \A j \in DOMAIN wire : j \in DOMAIN wire'
      /\ \A k \in DOMAIN wire' : \/ k \in DOMAIN wire /\ wire'[k] = wire[k]
                                 \/ k = Len(wire) + 1 /\ k \notin DOMAIN wire /\ wire'[k] = g
  <2>1. wire' = Append(wire, g)
      BY <1>1 DEF g
  <2> QED  BY <1>0, <1>8, <2>1, AddsOne
<1>10. \A k \in DOMAIN wire : wire[k].event = "prepared" => wire[k].transfer # t
    BY <1>1 DEF CoordinatorInv, WireInv
<1>11. ASSUME NEW k \in DOMAIN wire'
       PROVE  LET y == wire'[k] x == wire'[k].transfer IN
         /\ y.event = "prepared" =>
              /\ client'.tr[x].phase = "preparing" /\ client'.tr[x].policy = y.attempt
              /\ \A q \in client'.outbox : q.transfer = x => q.ask # "prepare"
              /\ \A j \in DOMAIN wire' : wire'[j].event = "prepared" /\ wire'[j].transfer = x => j = k
         /\ y.event = "finished" => server'[x][y.attempt] \in ServerEnds
         /\ y.event = "cancelAck" => client'.tr[x].cancelSent = TRUE
  <2>1. CASE k \in DOMAIN wire /\ wire'[k] = wire[k]
    <3> DEFINE y == wire[k]
               x == wire[k].transfer
    <3>0. wire[k] \in WireMessage
        BY <1>0, <2>1
    <3>1. x \in Transfers /\ y.attempt \in Attempts
        BY <3>0 DEF WireMessage
    <3>2. /\ y.event = "prepared" =>
              /\ client.tr[x].phase = "preparing" /\ client.tr[x].policy = y.attempt
              /\ \A q \in client.outbox : q.transfer = x => q.ask # "prepare"
              /\ \A j \in DOMAIN wire : wire[j].event = "prepared" /\ wire[j].transfer = x => j = k
          /\ y.event = "finished" => server[x][y.attempt] \in ServerEnds
          /\ y.event = "cancelAck" => client.tr[x].cancelSent = TRUE
        BY <2>1 DEF CoordinatorInv, WireInv
    <3>3. ASSUME y.event = "prepared", NEW j \in DOMAIN wire', wire'[j].event = "prepared",
                 wire'[j].transfer = x
          PROVE  j = k
      BY <1>10, <2>1, <3>3, <1>8, <1>9, <3>2
    <3>4. y.event = "finished" => server'[x][y.attempt] \in ServerEnds
        BY <1>6, <3>1, <3>2 DEF ServesOnly
    <3>5. /\ y.event = "prepared" => /\ client'.tr[x].phase = "preparing" /\ client'.tr[x].policy = y.attempt
                                     /\ \A q \in client'.outbox : q.transfer = x => q.ask # "prepare"
          /\ y.event = "cancelAck" => client'.tr[x].cancelSent = TRUE
        BY <1>4, <3>2
    <3> QED  BY <2>1, <3>3, <3>4, <3>5
  <2>2. CASE k = Len(wire) + 1 /\ k \notin DOMAIN wire /\ wire'[k] = g
    BY <1>9, <1>10, <2>2, <1>2, <1>4, <1>5, <1>8
  <2> QED  BY <1>9, <2>1, <2>2
<1>12. WireInv'
    BY <1>11 DEF WireInv
<1> QED  BY <1>6, <1>7, <1>9, <1>12, ServesKeeps

\* The HTTP request reaches the server.
LEMMA ServeRequestKeeps ==
    ASSUME CoordinatorInv, NEW t \in Transfers, ServeRequest(t)
    PROVE  CoordinatorInv' /\ Moves(t)
<1> DEFINE r == client.tr[t]
           n == r.transferId
<1>0. /\ client \in ClientRecord /\ r \in TransferRecord /\ AttemptOK(t, r, server[t], http[t]) /\ LocalInv(r)
      /\ wire \in Seq(WireMessage) /\ http \in [Transfers -> {"none", "ok", "conflict", "failed"}]
      /\ server \in [Transfers -> [Attempts -> ServerStates]]
    BY Facts
<1>1. /\ r.phase \in {"fetching", "streaming"} /\ http[t] = "none" /\ client' = client /\ wire' = wire
    BY DEF ServeRequest
<1>2. n = r.policy /\ n \in Attempts /\ n # 0
    BY <1>0, <1>1 DEF LocalInv, TransferRecord, Attempts
<1>3. \A m \in client.outbox : m.ask = "prepare" => m.transfer # t
    BY <1>1 DEF CoordinatorInv, OutboxInv
<1>4. ASSUME server' \in [Transfers -> [Attempts -> ServerStates]],
             \A u \in Transfers : u # t => server'[u] = server[u],
             \A k \in Attempts : server[t][k] \in ServerEnds => server'[t][k] \in ServerEnds,
             http' \in [Transfers -> {"none", "ok", "conflict", "failed"}],
             \A u \in Transfers : u # t => http'[u] = http[u],
             AttemptOK(t, r, server'[t], http'[t])
      PROVE  CoordinatorInv' /\ Moves(t)
  BY <1>0, <1>1, <1>3, <1>4, AddsKeeps, ServesKeeps DEF ServesOnly, Adds
<1>5. CASE /\ server[t][n] = "pending" /\ server' = [server EXCEPT ![t][n] = "running"] /\ http' = http
  <2>1. /\ server' \in [Transfers -> [Attempts -> ServerStates]]
        /\ \A u \in Transfers : u # t => server'[u] = server[u]
        /\ server'[t][n] = "running" /\ \A k \in Attempts : k # n => server'[t][k] = server[t][k]
      BY <1>0, <1>2, <1>5 DEF ServerStates
  <2>2. "pending" \notin ServerEnds /\ "pending" # "conflict"
      BY DEF ServerEnds
  <2>3. \A k \in Attempts : server[t][k] \in ServerEnds => server'[t][k] \in ServerEnds
      BY <1>2, <1>5, <2>1, <2>2
  <2>4. r.status \in Terminal => r.cancelSent = TRUE
      BY <1>0, <1>2, <1>5, <2>2 DEF AttemptOK, Stops
  <2>5. r.serverFinished # TRUE
      BY <1>0, <1>5, <2>2 DEF AttemptOK
  <2>6. (r.policy = 2 \/ r.phase = "asking" => server'[t][1] = "conflict") /\ (r.policy = 1 => server'[t][2] = "none")
      BY <1>0, <1>1, <1>2, <2>1 DEF AttemptOK, Attempts
  <2>7. AttemptOK(t, r, server'[t], http'[t])
    BY <1>0, <2>1, <1>1, <1>5, <2>4, <2>5, <2>6 DEF AttemptOK, Stops
  <2> QED  BY <1>0, <1>4, <1>5, <2>1, <2>3, <2>7
<1>6. CASE /\ server[t][n] = "cancelled" /\ IsUpload(t) /\ http' = [http EXCEPT ![t] = "failed"] /\ server' = server
  BY <1>0, <1>6, <1>1, <1>4 DEF AttemptOK
<1> QED  BY <1>5, <1>6 DEF ServeRequest

\* cancel_transfer on the server.
LEMMA ServeCancelKeeps ==
    ASSUME CoordinatorInv, NEW t \in Transfers, ServeCancel(t)
    PROVE  CoordinatorInv' /\ Moves(t)
<1> DEFINE r == client.tr[t]
           ack(n, s) == [Message("cancelAck", t, n) EXCEPT !.state = s]
           finished(n) == [Message("finished", t, n) EXCEPT !.status = "cancelled"]
           now(was) == CASE was = "pending" -> "cancelled"
                         [] was = "running" -> "cancelling"
                         [] OTHER -> was
<1>0. /\ client \in ClientRecord /\ r \in TransferRecord /\ AttemptOK(t, r, server[t], http[t]) /\ LocalInv(r)
      /\ wire \in Seq(WireMessage) /\ http \in [Transfers -> {"none", "ok", "conflict", "failed"}]
      /\ server \in [Transfers -> [Attempts -> ServerStates]] /\ client.outbox \subseteq Asked
    BY Facts
<1>1. PICK m \in client.outbox :
        /\ m.ask = "cancel" /\ m.transfer = t
        /\ client' = [client EXCEPT !.outbox = @ \ {m}]
        /\ \/ /\ server' = [server EXCEPT ![t][m.attempt] = now(server[t][m.attempt])]
              /\ wire' = IF server[t][m.attempt] = "pending"
                         THEN wire \o <<finished(m.attempt), ack(m.attempt, now(server[t][m.attempt]))>>
                         ELSE Append(wire, ack(m.attempt, now(server[t][m.attempt])))
           \/ /\ wire' = Append(wire, ack(m.attempt, "unavailable"))
              /\ server' = server
        /\ http' = http
    BY DEF ServeCancel
<1> DEFINE n == m.attempt
           was == server[t][n]
           is == server'[t][n]
<1>2. r.cancelSent = TRUE /\ n \in Attempts /\ was \in ServerStates
  BY <1>0, <1>1 DEF Asked, CoordinatorInv, OutboxInv
<1>3. /\ client' \in ClientRecord /\ client'.tr = client.tr /\ client'.queue = client.queue
      /\ client'.active = client.active /\ client'.outbox = client.outbox \ {m}
    BY <1>0, <1>1 DEF ClientRecord
<1>4. /\ now(was) \in ServerStates
      /\ was \notin {"pending", "running"} => now(was) = was
      /\ was = "pending" => now(was) = "cancelled"
      /\ was = "running" => now(was) = "cancelling"
    BY <1>2 DEF ServerStates, ServerEnds
<1> HIDE DEF now
<1>5. /\ server' \in [Transfers -> [Attempts -> ServerStates]]
      /\ \A u \in Transfers : u # t => server'[u] = server[u]
      /\ \A k \in Attempts : k # n => server'[t][k] = server[t][k]
      /\ is = was \/ (was = "pending" /\ is = "cancelled") \/ (was = "running" /\ is = "cancelling")
  <2>1. CASE server' = server
      BY <1>0, <2>1
  <2>2. CASE server' = [server EXCEPT ![t][n] = now(was)]
    BY <1>0, <1>2, <1>4, <2>2
  <2> QED  BY <1>1, <2>1, <2>2
<1>6. /\ "pending" \notin ServerEnds /\ "running" \notin ServerEnds /\ "cancelled" \in ServerEnds
      /\ "none" \notin ServerEnds /\ "cancelling" \notin ServerEnds
    BY DEF ServerEnds
<1>7. ServesOnly(t)
  <2>1. \A k \in Attempts : server[t][k] \in ServerEnds => server'[t][k] \in ServerEnds
      BY <1>5, <1>6
  <2>2. ASSUME NEW q \in client'.outbox, q.ask = "prepare", q.transfer = t
        PROVE  server'[t][q.attempt] = "none"
    BY <1>0, <1>3, <2>2, <1>5 DEF CoordinatorInv, OutboxInv, Asked
  <2> QED  BY <1>0, <1>1, <1>3, <1>5, <2>1, <2>2 DEF ServesOnly
<1>8. AttemptOK(t, r, server'[t], http'[t])
  <2>1. r.phase \notin {"absent", "waiting", "called"}
      BY <1>0, <1>2 DEF LocalInv
  <2>2. (r.policy = 2 \/ r.phase = "asking" => server'[t][1] = "conflict") /\ (r.policy = 1 => server'[t][2] = "none")
    BY <1>0, <1>5 DEF AttemptOK, Attempts
  <2>3. \A k \in Attempts : server'[t][k] \in {"running", "cancelling"} => r.transferId = k
    BY <1>0, <1>5 DEF AttemptOK
  <2>4. r.serverFinished = TRUE => server'[t][r.transferId] \in ServerEnds
    BY <1>0, <1>7 DEF AttemptOK, LocalInv, TransferRecord, ServesOnly
  <2>5. /\ http[t] # "none" => r.phase = "fetching"
        /\ http[t] = "ok" => server'[t][r.transferId] = "completed"
        /\ http[t] = "conflict" => server'[t][r.transferId] = "conflict" /\ r.transferId = 1
    <3>1. /\ http[t] # "none" => r.phase = "fetching"
          /\ http[t] = "ok" => server[t][r.transferId] = "completed"
          /\ http[t] = "conflict" => server[t][r.transferId] = "conflict" /\ r.transferId = 1
        BY <1>0 DEF AttemptOK
    <3>2. http[t] # "none" => r.transferId \in Attempts
        BY <1>0, <3>1 DEF LocalInv, TransferRecord
    <3> QED  BY <1>5, <3>1, <3>2
  <2> QED  BY <1>0, <1>1, <1>2, <2>1, <2>2, <2>3, <2>4, <2>5 DEF AttemptOK, Stops
<1>9. Adds(t)
  <2>1. \A s \in ServerStates \cup {"unavailable"} :
          ack(n, s) \in WireMessage /\ ack(n, s).event = "cancelAck" /\ ack(n, s).transfer = t
      BY <1>2 DEF Message, WireMessage
  <2>2. /\ finished(n) \in WireMessage /\ finished(n).event = "finished" /\ finished(n).transfer = t
        /\ finished(n).attempt = n
      BY <1>2 DEF Message, WireMessage, ServerStates, ServerEnds
  <2> HIDE DEF ack, finished
  <2>3. ASSUME NEW s \in ServerStates \cup {"unavailable"}, wire' = Append(wire, ack(n, s))
        PROVE  Adds(t)
    <3> DEFINE g == ack(n, s)
    <3>1. g \in WireMessage /\ g.event = "cancelAck" /\ g.transfer = t
        BY <2>1
    <3> HIDE DEF g
    <3>2. /\ wire' \in Seq(WireMessage) /\ \A j \in DOMAIN wire : j \in DOMAIN wire'
          /\ \A k \in DOMAIN wire' : \/ k \in DOMAIN wire /\ wire'[k] = wire[k]
                                     \/ k = Len(wire) + 1 /\ k \notin DOMAIN wire /\ wire'[k] = g
      BY <2>3, <1>0, <3>1, AddsOne DEF g
    <3> QED  BY <1>2, <3>1, <3>2 DEF Adds
  <2>4. CASE was = "pending" /\ is = "cancelled" /\ wire' = wire \o <<finished(n), ack(n, now(was))>>
    <3> DEFINE g == ack(n, now(was))
               f == finished(n)
    <3>1. g \in WireMessage /\ g.event = "cancelAck" /\ g.transfer = t
        BY <1>4, <2>1
    <3>2. f \in WireMessage /\ f.event = "finished" /\ f.transfer = t /\ f.attempt = n
        BY <2>2
    <3> HIDE DEF g, f
    <3>3. /\ wire' \in Seq(WireMessage) /\ \A j \in DOMAIN wire : j \in DOMAIN wire'
          /\ \A k \in DOMAIN wire' : \/ k \in DOMAIN wire /\ wire'[k] = wire[k]
                                     \/ k \notin DOMAIN wire /\ wire'[k] \in {f, g}
      BY <2>4, <1>0, <3>1, <3>2, AddsTwo DEF f, g
    <3>4. server'[t][n] \in ServerEnds
        BY <1>6, <2>4
    <3> QED  BY <1>2, <3>1, <3>2, <3>3, <3>4 DEF Adds
  <2>5. \/ was = "pending" /\ is = "cancelled" /\ wire' = wire \o <<finished(n), ack(n, now(was))>>
        \/ \E s \in ServerStates \cup {"unavailable"} : wire' = Append(wire, ack(n, s))
    <3>1. CASE wire' = Append(wire, ack(n, "unavailable"))
        BY <3>1
    <3>2. CASE /\ server' = [server EXCEPT ![t][n] = now(was)]
               /\ wire' = IF was = "pending" THEN wire \o <<finished(n), ack(n, now(was))>>
                          ELSE Append(wire, ack(n, now(was)))
      <4>1. is = now(was)
          BY <1>0, <1>2, <3>2
      <4> QED  BY <1>4, <3>2, <4>1
    <3> QED  BY <1>1, <3>1, <3>2
  <2> QED  BY <2>3, <2>4, <2>5
<1> QED  BY <1>7, <1>8, <1>9, AddsKeeps, ServesKeeps

\* The request ends on the server.
LEMMA ServeEndKeeps ==
    ASSUME CoordinatorInv, NEW t \in Transfers, NEW n \in Attempts, ServeEnd(t, n)
    PROVE  CoordinatorInv' /\ Moves(t)
<1> DEFINE r == client.tr[t]
<1>0. /\ client \in ClientRecord /\ r \in TransferRecord /\ AttemptOK(t, r, server[t], http[t]) /\ LocalInv(r)
      /\ wire \in Seq(WireMessage) /\ http \in [Transfers -> {"none", "ok", "conflict", "failed"}]
      /\ server \in [Transfers -> [Attempts -> ServerStates]] /\ client.outbox \subseteq Asked
    BY Facts
<1>1. PICK end :
         /\ end \in {"completed", "failed"}
                    \cup (IF IsUpload(t) /\ n = 1 THEN {"conflict"} ELSE {})
                    \cup (IF server[t][n] = "cancelling" \/ ~IsUpload(t) THEN {"cancelled"} ELSE {})
         /\ server' = [server EXCEPT ![t][n] = end]
         /\ wire' = Append(wire, [Message("finished", t, n) EXCEPT !.status = end])
         /\ http' = IF client.tr[t].phase # "fetching" \/ client.tr[t].transferId # n
                    THEN http
                    ELSE [http EXCEPT ![t] = CASE end = "completed" -> "ok"
                                               [] end = "conflict" -> "conflict"
                                               [] OTHER -> "failed"]
    BY DEF ServeEnd
<1>2. client' = client /\ server[t][n] \in {"running", "cancelling"}
    BY DEF ServeEnd
<1>3. end \in ServerEnds /\ (end = "conflict" => n = 1)
    BY <1>1 DEF ServerEnds
<1>4. /\ server' \in [Transfers -> [Attempts -> ServerStates]]
      /\ \A u \in Transfers : u # t => server'[u] = server[u]
      /\ server'[t][n] = end /\ \A k \in Attempts : k # n => server'[t][k] = server[t][k]
  <2>1. end \in ServerStates
      BY <1>3 DEF ServerStates
  <2> QED  BY <1>0, <1>1, <2>1
<1>5. /\ http' \in [Transfers -> {"none", "ok", "conflict", "failed"}]
      /\ \A u \in Transfers : u # t => http'[u] = http[u]
      /\ http'[t] # "none" => http'[t] = http[t] \/ r.phase = "fetching"
      /\ r.phase = "fetching" /\ r.transferId = n =>
            (http'[t] = "ok" => end = "completed") /\ (http'[t] = "conflict" => end = "conflict")
    BY <1>0, <1>1
<1>6. r.transferId = n /\ n # 0
    BY <1>0, <1>2 DEF AttemptOK, Attempts
<1>7. ServesOnly(t)
  <2>1. \A k \in Attempts : server[t][k] \in ServerEnds => server'[t][k] \in ServerEnds
      BY <1>3, <1>4
  <2>2. ASSUME NEW q \in client.outbox, q.ask = "prepare", q.transfer = t
        PROVE  FALSE
      BY <1>0, <1>6, <2>2 DEF CoordinatorInv, OutboxInv, LocalInv
  <2> QED  BY <1>0, <1>2, <1>4, <1>5, <2>1, <2>2 DEF ServesOnly
<1>8. AttemptOK(t, r, server'[t], http'[t])
  BY <1>0, <1>6, <1>2, <1>4, <1>5, <1>3 DEF LocalInv, AttemptOK, Attempts, Stops
<1>9. Adds(t)
  <2> DEFINE g == [Message("finished", t, n) EXCEPT !.status = end]
  <2>1. g \in WireMessage /\ g.event = "finished" /\ g.transfer = t /\ g.attempt = n
      BY <1>3 DEF Message, WireMessage, ServerStates
  <2> HIDE DEF g
  <2>2. /\ wire' \in Seq(WireMessage) /\ \A j \in DOMAIN wire : j \in DOMAIN wire'
        /\ \A k \in DOMAIN wire' : \/ k \in DOMAIN wire /\ wire'[k] = wire[k]
                                   \/ k = Len(wire) + 1 /\ k \notin DOMAIN wire /\ wire'[k] = g
    <3>1. wire' = Append(wire, g)
        BY <1>1 DEF g
    <3> QED  BY <1>0, <2>1, <3>1, AddsOne
  <2> QED  BY <1>3, <1>4, <2>1, <2>2 DEF Adds
<1> QED  BY <1>7, <1>8, <1>9, AddsKeeps, ServesKeeps

----------------------------------------------------------------------------
(* The specification.                                                      *)

\* The invariant holds at first.
LEMMA CoordinatorInit ==
    ASSUME ClientInit
    PROVE  CoordinatorInv
<1>1. Absent \in TransferRecord /\ Absent.phase = "absent" /\ Absent.status = "queued" /\ Absent.slotReleased = FALSE
    BY DEF Absent, TransferRecord, Phases, Attempts
<1>2. /\ client.tr = [t \in Transfers |-> Absent] /\ client.queue = <<>> /\ client.active = None
      /\ client.outbox = {} /\ wire = <<>>
      /\ client = [tr |-> [t \in Transfers |-> Absent], queue |-> <<>>, active |-> None, outbox |-> {}]
    BY DEF ClientInit
<1>3. ClientTypes
  <2>1. client \in ClientRecord
      BY <1>1, <1>2 DEF ClientRecord
  <2> QED  BY <2>1 DEF ClientInit, ClientTypes, ServerStates
<1>4. Waits(client) /\ Slots(client)
    BY <1>1, <1>2 DEF Waits, Slots
<1>5. ASSUME NEW t \in Transfers
      PROVE  AttemptInv(t)
  BY <1>2 DEF ClientInit, AttemptOK, LocalInv, Absent, Attempts, Terminal, AttemptInv
<1>6. OutboxInv /\ WireInv
    BY <1>2 DEF OutboxInv, WireInv
<1> QED  BY <1>3, <1>4, <1>5, <1>6 DEF CoordinatorInv

\* Every step keeps the invariant and moves at most one promise.
LEMMA CoordinatorNext ==
    ASSUME None \notin Transfers, CoordinatorInv, ClientNext
    PROVE  CoordinatorInv' /\ \E t \in Transfers : Moves(t)
<1>1. PICK t \in Transfers : \/ Enqueue(t) \/ CancelTransfer(t)
                             \/ \E d \in Decisions : Decide(t, d)
                             \/ ClientStep(t) \/ ServerStep(t)
    BY DEF ClientNext
<1>2. CASE Enqueue(t)
    BY <1>2, EnqueueKeeps
<1>3. CASE CancelTransfer(t)
    BY <1>3, CancelTransferKeeps
<1>4. CASE \E d \in Decisions : Decide(t, d)
    BY <1>4, DecideKeeps
<1>5. CASE ClientStep(t)
  BY RunOperationKeeps, OnPreparedKeeps, OnResponseKeeps, OnRejectedKeeps, OnCancelAckKeeps,
     OnFinishedKeeps, <1>5 DEF ClientStep
<1>6. CASE ServerStep(t)
  BY ServePrepareKeeps, ServeCancelKeeps, ServeRequestKeeps, ServeEndKeeps, <1>6 DEF ServerStep
<1> QED  BY <1>1, <1>2, <1>3, <1>4, <1>5, <1>6

\* A step that changes nothing.
LEMMA CoordinatorStutter ==
    ASSUME CoordinatorInv, UNCHANGED vars
    PROVE  CoordinatorInv'
  BY DEF vars, CoordinatorInv, ClientTypes, Waits, Slots, Terminalized, AttemptInv, OutboxInv,
     WireInv

\* The invariant implies what the runs check: who runs on the server without having ended has the slot.
LEMMA CoordinatorIsSafe ==
    ASSUME CoordinatorInv
    PROVE  CoordinatorSafe
<1>0. ASSUME NEW t \in Transfers
      PROVE  client.tr[t] \in TransferRecord /\ AttemptOK(t, client.tr[t], server[t], http[t])
    BY Facts
<1>1. ClientTypeOK
  BY <1>0 DEF CoordinatorInv, ClientTypes, ClientRecord, TransferRecord, ClientTypeOK, ServerStates
<1>2. OneAtATime
  <2> SUFFICES ASSUME NEW t \in Transfers, NEW u \in Transfers, NEW n \in Attempts, NEW k \in Attempts,
                      server[t][n] = "running", server[u][k] = "running",
                      ~\E x \in {t, u} : Terminalized(client, x) /\ client.tr[x].cancelSent
               PROVE  t = u /\ n = k
      BY DEF OneAtATime
  <2>1. ASSUME NEW x \in Transfers, NEW j \in Attempts, server[x][j] = "running",
               ~(Terminalized(client, x) /\ client.tr[x].cancelSent)
        PROVE  client.tr[x].transferId = j /\ client.active = x
    <3>1. client.tr[x].transferId = j /\ j # 0 /\ "running" \notin ServerEnds
      <4>1. AttemptOK(x, client.tr[x], server[x], http[x])
          BY <1>0
      <4>2. client.tr[x].transferId = j
          BY <2>1, <4>1 DEF AttemptOK
      <4> QED  BY <4>2 DEF Attempts, ServerEnds
    <3>2. ~Terminalized(client, x)
        BY <1>0, <2>1, <3>1 DEF AttemptOK, Stops, Terminalized
    <3>3. client.tr[x].phase \notin {"absent", "waiting"}
        BY <1>0, <3>1 DEF AttemptOK, LocalInv
    <3>4. client.active = x
        BY <3>2, <3>3 DEF CoordinatorInv, Slots
    <3> QED  BY <3>1, <3>4
  <2> QED  BY <2>1
<1> QED  BY <1>1, <1>2 DEF CoordinatorSafe

----------------------------------------------------------------------------
(* The coordinator implements TransferPromise.                             *)

\* The promise as the specification reads it off an object.
LEMMA PromiseRead ==
    ASSUME NEW c \in ClientRecord, NEW t \in Transfers
    PROVE  PromiseFor(c, t) = PromiseOf(c.tr[t])
<1> DEFINE r == c.tr[t]
           created == c.tr[t].phase # "absent"
           ended == Terminalized(c, t)
           choice == c.tr[t].phase = "asking"
<1>0. r \in TransferRecord
    BY DEF ClientRecord
<1>1. PhaseOf(r) = CASE ~created -> "absent"
                     [] created /\ ended -> "ended"
                     [] created /\ ~ended /\ choice -> "asking"
                     [] OTHER -> "running"
    BY DEF PhaseOf, Terminalized
<1>2. ResultOf(r) = IF ended THEN c.tr[t].status ELSE "none"
    BY DEF ResultOf, Terminalized
<1>3. AskedOf(r) = (~ended /\ (c.tr[t].policy = 2 \/ choice))
    BY DEF AskedOf, Terminalized
<1>4. CancellingOf(r) = (c.tr[t].cancelRequested /\ ~ended)
    BY <1>0 DEF CancellingOf, Terminalized, TransferRecord
<1> QED  BY <1>1, <1>2, <1>3, <1>4, Zenon DEF PromiseFor, PromiseOf

\* The promise of a transfer that drainQueue calls stays what it was.
LEMMA CalledPromise ==
    ASSUME NEW r \in TransferRecord, NEW s, Called(r, s)
    PROVE  PromiseOf(s) = PromiseOf(r)
  BY SilentStep DEF TransferRecord, Called

\* Updates of one field after the other, as TransferPromise writes them.
EndedIn(f, t, x) ==
    [f EXCEPT ![t].phase = "ended", ![t].result = x, ![t].asked = FALSE, ![t].cancelling = FALSE]

\* The end of a promise, written field by field.
LEMMA EndedFields ==
    ASSUME NEW S, NEW f, NEW t \in S, NEW x, NEW a, NEW b, NEW c, NEW d,
           f = [u \in S |-> f[u]], f[t] = [phase |-> a, result |-> b, asked |-> c, cancelling |-> d]
    PROVE  EndedIn(f, t, x) = [f EXCEPT ![t] = EndedWith(x)]
<1> DEFINE g == EndedIn(f, t, x)
<1>1. g[t] = EndedWith(x)
    BY DEF EndedWith, EndedIn
<1>2. g = [u \in S |-> g[u]] /\ \A u \in S : u # t => g[u] = f[u]
    BY DEF EndedIn
<1> HIDE DEF g
<1>3. g = [f EXCEPT ![t] = EndedWith(x)]
    BY <1>1, <1>2
<1> QED  BY <1>3 DEF g

\* The question of a promise, written field by field.
LEMMA AskedFields ==
    ASSUME NEW S, NEW f, NEW t \in S, NEW a, NEW b, NEW c, NEW d,
           f = [u \in S |-> f[u]], f[t] = [phase |-> a, result |-> b, asked |-> c, cancelling |-> d]
    PROVE  [f EXCEPT ![t].phase = "asking", ![t].asked = TRUE] = [f EXCEPT ![t] = AsksNow(f[t], TRUE)]
<1> DEFINE g == [f EXCEPT ![t].phase = "asking", ![t].asked = TRUE]
<1>1. g[t] = AsksNow(f[t], TRUE)
    BY DEF AsksNow
<1>2. g = [u \in S |-> g[u]] /\ \A u \in S : u # t => g[u] = f[u]
    OBVIOUS
<1> HIDE DEF g
<1>3. g = [f EXCEPT ![t] = AsksNow(f[t], TRUE)]
    BY <1>1, <1>2
<1> QED  BY <1>3 DEF g

\* A step of one transfer is a step of its promise, or none.
LEMMA PromiseMoves ==
    ASSUME CoordinatorInv, client' \in ClientRecord, NEW t \in Transfers, Moves(t)
    PROVE  P!PromiseNext \/ PromiseNow' = PromiseNow
<1> DEFINE f == PromiseNow
           g == PromiseNow'
           p == PromiseOf(client.tr[t])
           q == PromiseOf(client'.tr[t])
<1>1. /\ f = [u \in Transfers |-> PromiseOf(client.tr[u])]
      /\ g = [u \in Transfers |-> PromiseOf(client'.tr[u])]
  <2>1. client \in ClientRecord
      BY DEF CoordinatorInv, ClientTypes
  <2>2. /\ f = [u \in Transfers |-> PromiseFor(client, u)]
        /\ g = [u \in Transfers |-> PromiseFor(client', u)]
      BY DEF PromiseNow
  <2> HIDE DEF f, g
  <2> QED  BY <2>1, <2>2, PromiseRead
<1>2. ASSUME NEW u \in Transfers, u # t
      PROVE  PromiseOf(client'.tr[u]) = PromiseOf(client.tr[u])
  <2> DEFINE r == client.tr[u]
             s == client'.tr[u]
  <2>1. r \in TransferRecord /\ Called(r, s)
      BY <1>2, Facts DEF Moves
  <2> HIDE DEF r, s
  <2>2. PromiseOf(s) = PromiseOf(r)
      BY <2>1, CalledPromise
  <2> QED  BY <2>2 DEF r, s
<1> HIDE DEF f, g
<1>3. /\ g = [f EXCEPT ![t] = q] /\ f[t] = p /\ f = [u \in Transfers |-> f[u]]
    BY <1>1, <1>2
<1>4. PromiseStep(t, p, q)
    BY DEF Moves
<1>5. \E a, b, c, d : p = [phase |-> a, result |-> b, asked |-> c, cancelling |-> d]
    BY DEF PromiseOf
<1> HIDE DEF p, q
<1>t. t \in P!Transfers
    BY DEF P!Transfers, Transfers
<1>6. CASE q = p
  <2>1. g = f
      BY <1>3, <1>6
  <2> QED  BY <2>1 DEF f, g
<1>7. CASE p.phase = "absent" /\ q = [p EXCEPT !.phase = "running"]
  BY <1>3, <1>7, <1>t DEF P!Begin, f, g, P!PromiseNext
<1>8. CASE t \in Uploads /\ p.phase = "running" /\ p.asked = FALSE /\ q = AsksNow(p, TRUE)
  BY <1>3, <1>8, <1>5, AskedFields, <1>t DEF P!AskUser, f, g, P!PromiseNext
<1>9. ASSUME NEW x, q = EndedWith(x)
      PROVE  P!Ended(t, x)
  <2>1. g = EndedIn(f, t, x)
      BY <1>3, <1>5, <1>9, EndedFields
  <2> QED  BY <2>1 DEF P!Ended, EndedIn, f, g
<1>10. CASE p.phase \in {"running", "asking"} /\ \E x \in {"completed", "cancelled", "error"} : q = EndedWith(x)
  BY <1>3, <1>10, <1>9, <1>t DEF P!Going, f, P!End, P!PromiseNext
<1>11. CASE p.phase = "asking" /\ q = [p EXCEPT !.phase = "running"]
  BY <1>3, <1>11, <1>t DEF P!Answer, f, g, P!PromiseNext
<1>12. CASE p.phase = "asking" /\ q = EndedWith("skipped")
  BY <1>9, <1>12, <1>3, <1>t DEF f, P!Answer, P!PromiseNext
<1>13. CASE /\ p.phase \in {"running", "asking"} /\ p.cancelling = FALSE
            /\ q = [p EXCEPT !.cancelling = TRUE]
  BY <1>3, <1>13, <1>t DEF P!Going, f, P!Cancel, g, P!PromiseNext
<1> QED  BY <1>4, <1>6, <1>7, <1>8, <1>10, <1>11, <1>12, <1>13 DEF PromiseStep

\* The coordinator never runs two transfers of its user on the server at once (drainQueue,
\* releaseSlot, failOperation): for any number of uploads and downloads and every order of
\* acknowledgements, responses, cancellations and transfer_finished.
THEOREM CoordinatorStaysSafe ==
    ASSUME None \notin Transfers
    PROVE  ClientSpec => []CoordinatorSafe
<1>1. ClientInit => CoordinatorInv
    BY CoordinatorInit
<1>2. CoordinatorInv /\ [ClientNext]_vars => CoordinatorInv'
    BY CoordinatorNext, CoordinatorStutter
<1>3. CoordinatorInv => CoordinatorSafe
    BY CoordinatorIsSafe
<1> QED  BY <1>1, <1>2, <1>3, PTL DEF ClientSpec

\* The coordinator implements TransferPromise for any number of transfers: each asks at most
\* one question, reports one end, and a cancellation under way is not taken back.
THEOREM CoordinatorKeepsPromise ==
    ASSUME None \notin Transfers
    PROVE  ClientSpec => KeepsPromise
<1>1. ClientInit => CoordinatorInv
    BY CoordinatorInit
<1>2. CoordinatorInv /\ [ClientNext]_vars => CoordinatorInv'
    BY CoordinatorNext, CoordinatorStutter
<1>3. ClientInit => P!PromiseInit
  <2> SUFFICES ASSUME ClientInit
               PROVE  PromiseNow = [t \in P!Transfers |-> P!NotStarted]
      BY DEF P!PromiseInit
  <2>0. Transfers = P!Transfers /\ client \in ClientRecord
      BY CoordinatorInit DEF Transfers, P!Transfers, CoordinatorInv, ClientTypes
  <2>1. ASSUME NEW t \in Transfers
        PROVE  PromiseFor(client, t) = P!NotStarted
    <3>1. client.tr[t] = Absent
        BY DEF ClientInit
    <3>2. Absent.phase = "absent" /\ Absent.status \notin Terminal /\ Absent.policy = 1 /\ Absent.cancelRequested = FALSE
        BY DEF Absent, Terminal
    <3>3. PhaseOf(Absent) = "absent" /\ ResultOf(Absent) = "none"
        BY <3>2 DEF PhaseOf, ResultOf
    <3>4. AskedOf(Absent) = FALSE
        BY <3>2 DEF AskedOf
    <3>5. CancellingOf(Absent) = FALSE
        BY <3>2 DEF CancellingOf
    <3>6. PromiseOf(Absent) = P!NotStarted
        BY <3>3, <3>4, <3>5 DEF PromiseOf, P!NotStarted
    <3>7. PromiseFor(client, t) = PromiseOf(client.tr[t])
        BY <2>0, PromiseRead
    <3> QED  BY <3>1, <3>6, <3>7
  <2> QED  BY <2>0, <2>1 DEF PromiseNow
<1>4. CoordinatorInv /\ [ClientNext]_vars => [P!PromiseNext]_PromiseNow
  BY CoordinatorNext, PromiseMoves DEF CoordinatorInv, ClientTypes, vars, PromiseNow, PromiseFor,
     Terminalized
<1> QED  BY <1>1, <1>2, <1>3, <1>4, PTL DEF ClientSpec, KeepsPromise, P!PromiseSpec

----------------------------------------------------------------------------
(* The administration page.  DialogCall and BackupCall say what a call in  *)
(* flight relies on, whatever happened to the page since it began; FormInv *)
(* says what the backup form shows.  The token of an archive is worth its  *)
(* summary (Known) because an upload in flight is of an archive the server *)
(* does not have yet.                                                      *)

AdminSpec == AdminInit /\ [][AdminNext]_adminVars

Parties == Admins \cup Archives \cup {Nobody}
Stages == {"none", "intent", "external", "asking", "call"}
CallKinds == {"none", "list", "action", "user", "upload", "prepare", "restore"}
CallRecord == [kind : CallKinds, arg : Parties, same : BOOLEAN, live : BOOLEAN,
               token : Archives \cup {Nobody}, seen : Archives \cup {Nobody}, stage : Stages]

AdminTypes ==
    /\ AdminTypeOK
    /\ call \in [Calls -> CallRecord]
    /\ uploaded \in Archives \cup {Nobody} /\ token \in Archives \cup {Nobody}
    /\ summary \in Archives \cup {Nobody} /\ lastSeen \in Archives \cup {Nobody}

\* An archive the page has asked the server to prepare: the server has it, and
\* once it is the newest upload its summary was shown last.
Known(a) == archive[a] # "none" /\ (uploaded = a => lastSeen = a)

\* What a call of the dialog relies on: it runs for the user of the dialog as long
\* as that is the one it began with, and an action holds its channel.
DialogCall(c) ==
    /\ call[c].kind \in {"list", "action"} /\ call[c].same => call[c].arg = dlg
    /\ call[c].kind = "action" => active["action"] = c

\* What a call of the backup form relies on.  An upload runs alone, of an archive
\* the server does not have, and no summary is shown meanwhile; a restore that has
\* the token of its archive was confirmed on the summary of that archive.
BackupCall(c) ==
    /\ call[c].kind = "upload" =>
         /\ call[c].arg \in Archives /\ archive[call[c].arg] = "none"
         /\ summary = Nobody /\ restoreModal # "first"
    /\ call[c].kind = "prepare" =>
         call[c].arg \in Archives /\ uploaded \in Archives /\ Known(call[c].arg)
    /\ call[c].kind = "restore" =>
         call[c].arg \in Archives /\ (call[c].token = call[c].arg => call[c].seen = call[c].arg)

DialogInv ==
    /\ codes \in {Nobody, dlg} /\ identities \in {Nobody, dlg}
    /\ \A c \in Calls : DialogCall(c)
    /\ \A c \in Calls : call[c].kind # "none" => call[c].stage # "none"
    /\ asking # 0 => call[asking].stage = "asking"

\* What the backup form shows is the newest upload, and was shown last.
FormInv ==
    /\ summary # Nobody => uploaded = summary /\ lastSeen = summary
    /\ restoreModal = "first" => uploaded # Nobody /\ lastSeen = uploaded
    /\ restoreModal = "second" => uploaded # Nobody
    /\ uploaded # Nobody => archive[uploaded] # "none"
    /\ token # Nobody => Known(token)
    /\ restored[1] = restored[2]

BackupInv ==
    /\ FormInv
    /\ \A c \in Calls : BackupCall(c)
    /\ \A c, d \in Calls : call[c].kind = "upload" /\ call[d].kind = "upload" => c = d

AdminInv == AdminTypes /\ DialogInv /\ BackupInv

\* How a call may look after a step it was running in: over, or the same call, at
\* most without the token and without the generation it began with.
Carries(n, o) ==
    /\ n.kind = o.kind /\ n.arg = o.arg /\ n.seen = o.seen
    /\ n.token \in {o.token, Nobody}
    /\ n.same => o.same
    /\ n.stage = "none" => o.stage = "none"
CallStep(c) == call'[c] = NoCall \/ Carries(call'[c], call[c])

\* What the functions on the calls and the channels return.
LEMMA CallFunctions ==
    ASSUME NEW cs \in [Calls -> CallRecord]
    PROVE  /\ OtherDialog(cs) \in [Calls -> CallRecord] /\ StepUpCancelled(cs) \in [Calls -> CallRecord]
           /\ \A x \in Calls : /\ Carries(OtherDialog(cs)[x], cs[x]) /\ Carries(StepUpCancelled(cs)[x], cs[x])
                               /\ ~OtherDialog(cs)[x].same /\ StepUpCancelled(cs)[x].same = cs[x].same
                               /\ OtherDialog(cs)[x].stage = cs[x].stage /\ StepUpCancelled(cs)[x].stage = cs[x].stage
<1>1. ASSUME NEW x \in Calls
      PROVE  /\ [cs[x] EXCEPT !.same = FALSE] \in CallRecord /\ [cs[x] EXCEPT !.live = FALSE] \in CallRecord
             /\ Carries([cs[x] EXCEPT !.same = FALSE], cs[x]) /\ Carries([cs[x] EXCEPT !.live = FALSE], cs[x])
             /\ ~[cs[x] EXCEPT !.same = FALSE].same /\ [cs[x] EXCEPT !.live = FALSE].same = cs[x].same
             /\ [cs[x] EXCEPT !.same = FALSE].stage = cs[x].stage /\ [cs[x] EXCEPT !.live = FALSE].stage = cs[x].stage
  <2> DEFINE o == cs[x]
  <2>1. o \in CallRecord
      BY <1>1
  <2> HIDE DEF o
  <2>2. /\ [o EXCEPT !.same = FALSE] \in CallRecord /\ [o EXCEPT !.live = FALSE] \in CallRecord
        /\ Carries([o EXCEPT !.same = FALSE], o) /\ Carries([o EXCEPT !.live = FALSE], o)
        /\ ~[o EXCEPT !.same = FALSE].same /\ [o EXCEPT !.live = FALSE].same = o.same
        /\ [o EXCEPT !.same = FALSE].stage = o.stage /\ [o EXCEPT !.live = FALSE].stage = o.stage
      BY <2>1 DEF CallRecord, Carries
  <2> QED  BY <2>2 DEF o
<1>2. \A x \in Calls : OtherDialog(cs)[x] = [cs[x] EXCEPT !.same = FALSE] /\ StepUpCancelled(cs)[x] = [cs[x] EXCEPT !.live = FALSE]
    BY DEF OtherDialog, StepUpCancelled
<1>3. OtherDialog(cs) \in [Calls -> CallRecord] /\ StepUpCancelled(cs) \in [Calls -> CallRecord]
    BY <1>1 DEF OtherDialog, StepUpCancelled
<1> QED  BY <1>1, <1>2, <1>3

\* A call that is over, and a call that begins.
LEMMA NoCallIs ==
    /\ NoCall \in CallRecord /\ NoCall.kind = "none" /\ NoCall.stage = "none" /\ NoCall.same = FALSE
    /\ NoCall.arg = Nobody /\ NoCall.token = Nobody /\ NoCall.seen = Nobody /\ NoCall.live = FALSE
  BY DEF NoCall, CallRecord, CallKinds, Stages, Parties

\* A call that begins.
LEMMA BeginIs ==
    ASSUME NEW kind \in CallKinds, NEW arg \in Parties, NEW st \in Stages
    PROVE  /\ Begin(kind, arg, st) \in CallRecord
           /\ Begin(kind, arg, st).kind = kind /\ Begin(kind, arg, st).arg = arg /\ Begin(kind, arg, st).stage = st
           /\ Begin(kind, arg, st).token = Nobody
  BY DEF Begin, NoCall, CallRecord

\* A call that reaches another stage is the same call.
LEMMA StageIs ==
    ASSUME NEW o \in CallRecord, NEW st \in Stages \ {"none"}
    PROVE  /\ [o EXCEPT !.stage = st] \in CallRecord /\ Carries([o EXCEPT !.stage = st], o)
           /\ [o EXCEPT !.stage = st].stage = st
  BY DEF CallRecord, Carries, Stages

\* The channels.
LEMMA ChannelsAre ==
    ASSUME NEW a \in [{"list", "action"} -> 0 .. MaxCalls], NEW c
    PROVE  /\ Cleaned(a) \in [{"list", "action"} -> 0 .. MaxCalls] /\ Cleaned(a)["action"] = a["action"]
           /\ Finished(a, c) \in [{"list", "action"} -> 0 .. MaxCalls]
           /\ a["action"] # c => Finished(a, c)["action"] = a["action"]
  BY AdminAssumption DEF Cleaned, Finished

\* A call that stays the call it was.
LEMMA CarriesItself ==
    ASSUME NEW o PROVE Carries(o, o)
  BY DEF Carries

\* Closing the prompt ends the call that waits for it, and only that one.
LEMMA PromptClosedIs ==
    ASSUME AdminInv
    PROVE  /\ PromptClosed \in [Calls -> CallRecord]
           /\ \A x \in Calls : PromptClosed[x] = IF x = asking THEN NoCall ELSE call[x]
           /\ Rejected \in [{"list", "action"} -> 0 .. MaxCalls]
           /\ \A x \in Calls : x # asking /\ active["action"] = x => Rejected["action"] = x
  BY NoCallIs, AdminAssumption, ChannelsAre DEF AdminInv, AdminTypes, AdminTypeOK, Calls,
     PromptClosed, Rejected

\* A step of the calls keeps what the dialog relies on.
LEMMA DialogKeeps ==
    ASSUME AdminInv, call' \in [Calls -> CallRecord],
           \A x \in Calls : CallStep(x) \/ (DialogCall(x)' /\ (call'[x].kind # "none" => call'[x].stage # "none")),
           active' \in [{"list", "action"} -> 0 .. MaxCalls], dlg' \in Admins \cup {Nobody},
           dlg' = dlg \/ \A x \in Calls : CallStep(x) => ~call'[x].same,
           \A x \in Calls : call'[x].kind = "action" /\ active["action"] = x => active'["action"] = x,
           codes' \in {Nobody, dlg'}, identities' \in {Nobody, dlg'},
           asking' \in 0 .. MaxCalls, asking' # 0 => call'[asking'].stage = "asking"
    PROVE  DialogInv'
<1>1. ASSUME NEW x \in Calls PROVE DialogCall(x)' /\ (call'[x].kind # "none" => call'[x].stage # "none")
  BY NoCallIs DEF DialogCall, AdminInv, DialogInv, CallStep, Carries
<1> QED  BY <1>1 DEF DialogInv

\* A call of the backup form that goes on keeps what it relies on.
LEMMA BackupCallKeeps ==
    ASSUME AdminInv, NEW c \in Calls, CallStep(c), call'[c] \in CallRecord,
           UNCHANGED <<archive, uploaded, lastSeen, summary, restoreModal>>
    PROVE  BackupCall(c)'
  BY NoCallIs, AdminAssumption DEF AdminInv, BackupInv, BackupCall, Carries, Known, CallStep

\* A step that leaves the backup form alone and begins no upload keeps it in order.
LEMMA BackupKeeps ==
    ASSUME AdminInv, call' \in [Calls -> CallRecord], UNCHANGED backupVars,
           \A x \in Calls : CallStep(x) \/ (BackupCall(x)' /\ call'[x].kind # "upload")
    PROVE  BackupInv'
  BY BackupCallKeeps, NoCallIs DEF backupVars, AdminInv, BackupInv, FormInv, Known, CallStep,
     Carries

\* A step that leaves the backup form alone keeps the invariant.
LEMMA PageKeeps ==
    ASSUME AdminInv, UNCHANGED backupVars, call' \in [Calls -> CallRecord],
           \A x \in Calls : CallStep(x) \/ (/\ DialogCall(x)' /\ (call'[x].kind # "none" => call'[x].stage # "none")
                                            /\ BackupCall(x)' /\ call'[x].kind # "upload"),
           active' \in [{"list", "action"} -> 0 .. MaxCalls], dlg' \in Admins \cup {Nobody},
           dlg' = dlg \/ \A x \in Calls : CallStep(x) => ~call'[x].same,
           \A x \in Calls : call'[x].kind = "action" /\ active["action"] = x => active'["action"] = x,
           codes' \in {Nobody, dlg'}, identities' \in {Nobody, dlg'},
           asking' \in 0 .. MaxCalls, asking' # 0 => call'[asking'].stage = "asking"
    PROVE  AdminInv'
  BY DialogKeeps, BackupKeeps DEF AdminInv, AdminTypes, AdminTypeOK, backupVars

\* The prompt is of a call that waits for it, so a call at another stage is another call.
LEMMA AskingIs ==
    ASSUME AdminInv, NEW c \in Calls
    PROVE  /\ call \in [Calls -> CallRecord] /\ call[c] \in CallRecord /\ NoCall \in CallRecord
           /\ active \in [{"list", "action"} -> 0 .. MaxCalls] /\ dlg \in Admins \cup {Nobody}
           /\ codes \in {Nobody, dlg} /\ identities \in {Nobody, dlg}
           /\ asking \in 0 .. MaxCalls /\ c # 0 /\ c \in 0 .. MaxCalls
           /\ asking # 0 => asking \in Calls /\ call[asking].stage = "asking"
           /\ call[c].stage # "asking" => asking # c
           /\ DialogCall(c) /\ BackupCall(c)
           /\ call[c].kind # "none" => call[c].stage # "none"
  BY NoCallIs, AdminAssumption DEF AdminInv, AdminTypes, AdminTypeOK, DialogInv, BackupInv, Calls

\* A call that ends: the others go on, and so does the prompt of another call.
LEMMA EndsIs ==
    ASSUME AdminInv, NEW c \in Calls, Ends(c), call[c].stage # "asking"
    PROVE  /\ call' \in [Calls -> CallRecord] /\ (\A x \in Calls : CallStep(x))
           /\ active' \in [{"list", "action"} -> 0 .. MaxCalls]
           /\ \A x \in Calls : call'[x].kind = "action" /\ active["action"] = x => active'["action"] = x
           /\ asking # 0 => call'[asking].stage = "asking"
           /\ call'[c] = NoCall /\ \A x \in Calls \ {c} : call'[x] = call[x]
  BY AskingIs, CarriesItself, ChannelsAre, NoCallIs DEF Ends, CallStep

\* A call that begins in a free place is no call of before.
LEMMA FreeIs ==
    ASSUME AdminInv, NEW c \in Calls, Free(c)
    PROVE  call[c].stage = "none" /\ asking # c
<1>1. call[c].stage = "none"
    BY DEF Free, Running
<1> QED  BY <1>1, AskingIs

\* A call of the page that begins: the others stay.
LEMMA BeginsIs ==
    ASSUME AdminInv, NEW c \in Calls, Free(c), NEW n \in CallRecord, call' = [call EXCEPT ![c] = n]
    PROVE  /\ call' \in [Calls -> CallRecord] /\ call'[c] = n /\ (\A x \in Calls \ {c} : call'[x] = call[x] /\ CallStep(x))
           /\ asking # 0 => call'[asking].stage = "asking"
  BY FreeIs, AskingIs, CarriesItself DEF CallStep

\* Opening the dialog keeps the invariant: the calls of before are of another generation.
LEMMA OpenKeeps ==
    ASSUME AdminInv, NEW u \in Admins, NEW c \in Calls, OpenSecurityAction(u, c)
    PROVE  AdminInv'
<1>0. /\ call \in [Calls -> CallRecord] /\ active \in [{"list", "action"} -> 0 .. MaxCalls] /\ asking \in 0 .. MaxCalls
      /\ c # 0 /\ c \in 0 .. MaxCalls /\ (asking # 0 => asking \in Calls /\ call[asking].stage = "asking")
    BY AskingIs
<1> DEFINE cs == OtherDialog(call)
           b == Begin("list", u, "call")
<1>1. /\ dlg' = u /\ codes' = Nobody /\ identities' = Nobody /\ asking' = asking /\ UNCHANGED backupVars
      /\ \/ active' = Cleaned(active) /\ call' = cs
         \/ Free(c) /\ call' = [cs EXCEPT ![c] = b] /\ active' = [Cleaned(active) EXCEPT !["list"] = c]
    BY DEF OpenSecurityAction
<1>2. /\ cs \in [Calls -> CallRecord]
      /\ \A x \in Calls : Carries(cs[x], call[x]) /\ ~cs[x].same /\ cs[x].stage = call[x].stage
    BY <1>0, CallFunctions
<1>3. /\ b \in CallRecord /\ b.kind = "list" /\ b.arg = u /\ b.stage = "call"
  BY BeginIs DEF CallKinds, Stages, Parties
<1>4. Cleaned(active) \in [{"list", "action"} -> 0 .. MaxCalls] /\ Cleaned(active)["action"] = active["action"]
    BY <1>0, ChannelsAre
<1> HIDE DEF cs, b
<1>5. active' \in [{"list", "action"} -> 0 .. MaxCalls] /\ active'["action"] = active["action"]
    BY <1>0, <1>1, <1>4
<1>6. CASE call' = cs
  BY <1>2, <1>6, <1>0, <1>1, <1>5, PageKeeps DEF CallStep
<1>7. CASE Free(c) /\ call' = [cs EXCEPT ![c] = b]
  <2>1. call[c].stage = "none" /\ asking # c
      BY <1>7, FreeIs
  <2>2. /\ call' \in [Calls -> CallRecord] /\ call'[c] = b
        /\ \A x \in Calls : x # c => call'[x] = cs[x]
      BY <1>2, <1>3, <1>7
  <2>3. \A x \in Calls : x # c => CallStep(x) /\ ~call'[x].same
      BY <1>2, <2>2 DEF CallStep
  <2>4. DialogCall(c)' /\ BackupCall(c)' /\ call'[c].kind # "upload" /\ call'[c].stage # "none"
      BY <1>1, <1>3, <2>2 DEF DialogCall, BackupCall
  <2>5. ~CallStep(c)
    BY <1>3, <2>2, NoCallIs, <2>1, <1>0, AskingIs DEF Carries, CallStep
  <2>6. \A x \in Calls : call'[x].kind = "action" /\ active["action"] = x => active'["action"] = x
      BY <1>5
  <2>7. asking # 0 => call'[asking].stage = "asking"
      BY <1>0, <1>2, <2>1, <2>2
  <2> QED  BY <1>0, <1>1, <1>5, <2>2, <2>3, <2>4, <2>5, <2>6, <2>7, PageKeeps
<1> QED  BY <1>1, <1>6, <1>7

\* Closing the dialog keeps the invariant: every call is of another generation, and
\* the one that closed it is over.
LEMMA CloseKeeps ==
    ASSUME AdminInv, NEW c \in Calls \cup {0}, DialogClosed(c), UNCHANGED backupVars
    PROVE  AdminInv'
<1>0. /\ call \in [Calls -> CallRecord] /\ NoCall \in CallRecord
    BY NoCallIs DEF AdminInv, AdminTypes
<1> DEFINE ps == PromptClosed
           os == OtherDialog(ps)
           cs == StepUpCancelled(os)
           fs == Finished(Rejected, c)
<1>1. /\ dlg' = Nobody /\ codes' = Nobody /\ identities' = Nobody /\ asking' = 0
      /\ call' = [d \in Calls |-> IF d = c THEN NoCall ELSE cs[d]] /\ active' = Cleaned(fs)
    BY DEF DialogClosed
<1>2. /\ ps \in [Calls -> CallRecord] /\ \A x \in Calls : ps[x] = IF x = asking THEN NoCall ELSE call[x]
      /\ Rejected \in [{"list", "action"} -> 0 .. MaxCalls]
      /\ \A x \in Calls : x # asking /\ active["action"] = x => Rejected["action"] = x
    BY PromptClosedIs
<1> HIDE DEF ps
<1>3. os \in [Calls -> CallRecord] /\ \A x \in Calls : Carries(os[x], ps[x]) /\ ~os[x].same /\ os[x].stage = ps[x].stage
    BY <1>2, CallFunctions
<1> HIDE DEF os
<1>4. cs \in [Calls -> CallRecord] /\ \A x \in Calls : Carries(cs[x], os[x]) /\ cs[x].same = os[x].same
    BY <1>3, CallFunctions
<1> HIDE DEF cs
<1>5. \A x \in Calls : (Carries(cs[x], ps[x])) /\ ~cs[x].same
    BY <1>3, <1>4 DEF Carries
<1>6. /\ call' \in [Calls -> CallRecord]
      /\ \A x \in Calls : call'[x] = IF x = c THEN NoCall ELSE cs[x]
      /\ \A x \in Calls : ~call'[x].same
    BY <1>0, <1>1, <1>4, <1>5, NoCallIs
<1>7. /\ fs \in [{"list", "action"} -> 0 .. MaxCalls]
      /\ Rejected["action"] # c => fs["action"] = Rejected["action"]
    BY <1>2, ChannelsAre
<1> HIDE DEF fs
<1>8. active' \in [{"list", "action"} -> 0 .. MaxCalls] /\ active'["action"] = fs["action"]
    BY <1>1, <1>7, ChannelsAre
<1>9. \A x \in Calls : x = asking => call'[x].kind = "none"
    BY <1>2, <1>5, <1>6, NoCallIs DEF Carries
<1>10. ASSUME NEW x \in Calls, call'[x].kind = "action", active["action"] = x
       PROVE  active'["action"] = x
  <2>1. x # asking /\ x # c
      BY <1>6, <1>9, <1>10, NoCallIs
  <2> QED  BY <1>2, <1>7, <1>8, <1>10, <2>1
<1>11. ASSUME NEW x \in Calls
       PROVE  CallStep(x) \/ (DialogCall(x)' /\ BackupCall(x)' /\ call'[x].kind = "none")
  <2>1. CASE x = asking
    <3>1. call'[x].kind = "none"
        BY <1>9, <2>1
    <3> QED  BY <3>1 DEF DialogCall, BackupCall
  <2>2. CASE x = c
      BY <1>6, <2>2 DEF CallStep
  <2>3. CASE x # asking /\ x # c
      BY <1>2, <1>5, <1>6, <2>3 DEF CallStep
  <2> QED  BY <2>1, <2>2, <2>3
<1> QED  BY <1>1, <1>6, <1>8, <1>10, <1>11, AdminAssumption, PageKeeps

\* Loading the identities again keeps the invariant: the call is of the dialog's user.
LEMMA ReloadKeeps ==
    ASSUME AdminInv, NEW c \in Calls, dlg # Nobody, call[c].stage = "call", Reloads(c), UNCHANGED backupVars
    PROVE  AdminInv'
<1> DEFINE b == Begin("list", dlg, "call")
<1>1. /\ call' = [call EXCEPT ![c] = b] /\ active' = [Finished(active, c) EXCEPT !["list"] = c]
      /\ dlg' = dlg /\ codes' = codes /\ identities' = identities /\ asking' = asking
    BY DEF Reloads, dialogVars
<1>2. /\ call \in [Calls -> CallRecord] /\ active \in [{"list", "action"} -> 0 .. MaxCalls] /\ dlg \in Admins
      /\ codes \in {Nobody, dlg} /\ identities \in {Nobody, dlg}
      /\ asking \in 0 .. MaxCalls /\ c \in 0 .. MaxCalls
      /\ asking # 0 => asking \in Calls /\ call[asking].stage = "asking"
      /\ asking # c
    BY AskingIs
<1>3. b \in CallRecord /\ b.kind = "list" /\ b.arg = dlg /\ b.stage = "call"
    BY <1>2, BeginIs DEF CallKinds, Stages, Parties
<1> HIDE DEF b
<1>4. /\ Finished(active, c) \in [{"list", "action"} -> 0 .. MaxCalls]
      /\ active["action"] # c => Finished(active, c)["action"] = active["action"]
    BY <1>2, ChannelsAre
<1>5. /\ call' \in [Calls -> CallRecord] /\ call'[c] = b
      /\ \A x \in Calls \ {c} : call'[x] = call[x] /\ CallStep(x)
    BY <1>1, <1>2, <1>3, CarriesItself DEF CallStep
<1>6. active' \in [{"list", "action"} -> 0 .. MaxCalls] /\ active'["action"] = Finished(active, c)["action"]
    BY <1>1, <1>2, <1>4
<1>7. ASSUME NEW x \in Calls, call'[x].kind = "action", active["action"] = x
      PROVE  active'["action"] = x
  <2>1. x # c
      BY <1>3, <1>5, <1>7
  <2> QED  BY <1>4, <1>6, <1>7, <2>1
<1>8. DialogCall(c)' /\ BackupCall(c)' /\ call'[c].kind # "upload" /\ call'[c].stage # "none"
    BY <1>1, <1>3, <1>5 DEF DialogCall, BackupCall
<1>9. asking # 0 => call'[asking].stage = "asking"
    BY <1>2, <1>5
<1> QED  BY <1>1, <1>2, <1>5, <1>6, <1>7, <1>8, <1>9, PageKeeps

\* The answers of the dialog's calls keep the invariant: one that is no longer
\* current writes nothing.
LEMMA DialogAnswersKeep ==
    ASSUME AdminInv, NEW c \in Calls, ListAnswered(c) \/ ActionAnswered(c) \/ OtherAnswered(c)
    PROVE  AdminInv'
<1>1. CASE ListAnswered(c) \/ OtherAnswered(c)
    BY <1>1, AskingIs, EndsIs, PageKeeps DEF ListAnswered, OtherAnswered, Answers, dialogVars, IsCurrent, DialogCall
<1>2. CASE ActionAnswered(c)
  <2>1. call[c].stage = "call" /\ UNCHANGED backupVars
      BY <1>2 DEF ActionAnswered, Answers
  <2>2. CASE Ends(c) /\ UNCHANGED <<dialogVars, asking>>
      BY <2>1, <2>2, AskingIs, EndsIs, PageKeeps DEF dialogVars
  <2>3. CASE Answers(c, "action") /\ IsCurrent(c) /\ codes' = call[c].arg /\ Ends(c) /\ UNCHANGED <<dlg, identities, asking>>
      BY <2>1, <2>3, AskingIs, EndsIs, PageKeeps DEF Answers, IsCurrent, DialogCall
  <2>4. CASE IsCurrent(c) /\ Reloads(c)
      BY <2>1, <2>4, ReloadKeeps DEF IsCurrent
  <2>5. CASE DialogClosed(c)
      BY <2>1, <2>5, CloseKeeps
  <2> QED  BY <1>2, <2>2, <2>3, <2>4, <2>5 DEF ActionAnswered
<1> QED  BY <1>1, <1>2

\* A call that begins without touching dialog and form keeps the invariant if it is
\* what the invariant says of a call.
LEMMA BeginsKeep ==
    ASSUME AdminInv, NEW c \in Calls, Free(c), NEW n \in CallRecord, n.stage # "none", n.kind # "upload",
           call' = [call EXCEPT ![c] = n], UNCHANGED <<dialogVars, asking, backupVars>>,
           active' = active \/ (active["action"] = 0 /\ active' = [active EXCEPT !["action"] = c]),
           DialogCall(c)', BackupCall(c)'
    PROVE  AdminInv'
<1>0. /\ asking \in 0 .. MaxCalls /\ dlg \in Admins \cup {Nobody} /\ codes \in {Nobody, dlg} /\ identities \in {Nobody, dlg}
      /\ active \in [{"list", "action"} -> 0 .. MaxCalls] /\ c \in 0 .. MaxCalls
    BY AskingIs
<1>1. /\ call' \in [Calls -> CallRecord] /\ call'[c] = n /\ (\A x \in Calls \ {c} : call'[x] = call[x] /\ CallStep(x))
      /\ asking # 0 => call'[asking].stage = "asking"
    BY BeginsIs
<1>2. active' \in [{"list", "action"} -> 0 .. MaxCalls]
    BY <1>0
<1>3. ASSUME NEW x \in Calls, active["action"] = x PROVE active'["action"] = x
    BY <1>0, <1>3 DEF Calls
<1>4. dlg' = dlg /\ codes' = codes /\ identities' = identities /\ asking' = asking /\ UNCHANGED backupVars
    BY DEF dialogVars
<1>5. \A x \in Calls : CallStep(x) \/ (DialogCall(x)' /\ BackupCall(x)' /\ call'[x].stage # "none" /\ call'[x].kind # "upload")
    BY <1>1
<1> QED  BY <1>0, <1>1, <1>2, <1>3, <1>4, <1>5, PageKeeps

\* Beginning an action of the dialog, or the preparation of a restore, keeps the invariant.
LEMMA SubmitsKeep ==
    ASSUME AdminInv, NEW c \in Calls, SubmitSecurityAction(c) \/ ContinueRestore(c)
    PROVE  AdminInv'
<1>0. /\ call \in [Calls -> CallRecord] /\ active \in [{"list", "action"} -> 0 .. MaxCalls] /\ dlg \in Admins \cup {Nobody}
    BY AskingIs
<1>1. /\ "action" \in CallKinds /\ "prepare" \in CallKinds /\ "intent" \in Stages
      /\ dlg \in Parties /\ uploaded \in Parties
    BY <1>0 DEF CallKinds, Stages, Parties, AdminInv, AdminTypes
<1>2. CASE SubmitSecurityAction(c)
  <2> DEFINE n == Begin("action", dlg, "intent")
  <2>1. n \in CallRecord /\ n.kind = "action" /\ n.arg = dlg /\ n.stage = "intent"
      BY <1>1, BeginIs
  <2>2. /\ Free(c) /\ call' = [call EXCEPT ![c] = n] /\ active["action"] = 0 /\ active' = [active EXCEPT !["action"] = c]
        /\ UNCHANGED <<dialogVars, asking, backupVars>> /\ dlg' = dlg
      BY <1>2 DEF SubmitSecurityAction, Begins, dialogVars
  <2> HIDE DEF n
  <2>3. call'[c] = n /\ active'["action"] = c
      BY <1>0, <2>2
  <2>4. DialogCall(c)' /\ BackupCall(c)'
      BY <2>1, <2>2, <2>3 DEF DialogCall, BackupCall
  <2> QED  BY <2>1, <2>2, <2>4, BeginsKeep
<1>3. CASE ContinueRestore(c)
  <2> DEFINE n == Begin("prepare", uploaded, "intent")
  <2>1. n \in CallRecord /\ n.kind = "prepare" /\ n.arg = uploaded /\ n.stage = "intent"
      BY <1>1, BeginIs
  <2>2. /\ Free(c) /\ call' = [call EXCEPT ![c] = n] /\ active' = active /\ restoreModal = "first"
        /\ UNCHANGED <<dialogVars, asking, backupVars>>
      BY <1>3 DEF ContinueRestore, Begins
  <2> HIDE DEF n
  <2>3. call'[c] = n
      BY <1>0, <2>2
  <2>4. uploaded \in Archives /\ Known(uploaded)
      BY <2>2 DEF AdminInv, AdminTypes, BackupInv, FormInv, Known
  <2>5. UNCHANGED <<archive, uploaded, lastSeen>>
      BY <2>2 DEF backupVars
  <2>6. DialogCall(c)' /\ BackupCall(c)'
      BY <2>1, <2>3, <2>4, <2>5 DEF DialogCall, BackupCall, Known
  <2> QED  BY <2>1, <2>2, <2>6, BeginsKeep
<1> QED  BY <1>2, <1>3

\* Beginning an action on a user keeps the invariant.
LEMMA ActionsBegin ==
    ASSUME AdminInv, NEW c \in Calls, NEW u \in Admins, DoUserAction(u, c)
    PROVE  AdminInv'
<1>0. call \in [Calls -> CallRecord]
    BY AskingIs
<1>1. "user" \in CallKinds /\ "intent" \in Stages /\ u \in Parties
    BY DEF CallKinds, Stages, Parties
<1> DEFINE n == Begin("user", u, "intent")
<1>2. n \in CallRecord /\ n.kind = "user" /\ n.stage = "intent"
    BY <1>1, BeginIs
<1>3. /\ Free(c) /\ call' = [call EXCEPT ![c] = n] /\ active' = active
      /\ UNCHANGED <<dialogVars, asking, backupVars>>
    BY DEF DoUserAction, Begins
<1> HIDE DEF n
<1>4. call'[c] = n
    BY <1>0, <1>3
<1>5. DialogCall(c)' /\ BackupCall(c)'
    BY <1>2, <1>4 DEF DialogCall, BackupCall
<1> QED  BY <1>2, <1>3, <1>5, BeginsKeep

\* A restore that is confirmed has the token of the archive at hand only if its
\* summary was shown last.
LEMMA StartRestoreKeeps ==
    ASSUME AdminInv, NEW c \in Calls, StartRestore(c)
    PROVE  AdminInv'
<1>0. /\ call \in [Calls -> CallRecord] /\ uploaded \in Archives /\ lastSeen \in Archives \cup {Nobody}
      /\ token \in Archives \cup {Nobody} /\ (token # Nobody => Known(token)) /\ Nobody \notin Archives
    BY AdminAssumption DEF StartRestore, AdminInv, AdminTypes, BackupInv, FormInv
<1>1. "restore" \in CallKinds /\ "intent" \in Stages /\ uploaded \in Parties
    BY <1>0 DEF CallKinds, Stages, Parties
<1> DEFINE b == Begin("restore", uploaded, "intent")
           n == [b EXCEPT !.token = token, !.seen = lastSeen]
<1>2. b \in CallRecord /\ b.kind = "restore" /\ b.arg = uploaded /\ b.stage = "intent"
    BY <1>1, BeginIs
<1>3. /\ Free(c) /\ call' = [call EXCEPT ![c] = n] /\ active' = active
      /\ UNCHANGED <<dialogVars, asking, backupVars>>
    BY DEF StartRestore
<1> HIDE DEF b
<1>4. n \in CallRecord /\ n.kind = "restore" /\ n.arg = uploaded /\ n.stage = "intent" /\ n.token = token /\ n.seen = lastSeen
    BY <1>0, <1>2 DEF CallRecord
<1> HIDE DEF n
<1>5. call'[c] = n
    BY <1>0, <1>3
<1>6. token = uploaded => lastSeen = uploaded
    BY <1>0 DEF Known
<1>7. DialogCall(c)' /\ BackupCall(c)'
    BY <1>0, <1>4, <1>5, <1>6 DEF DialogCall, BackupCall
<1> QED  BY <1>3, <1>4, <1>7, BeginsKeep

\* The calls after one of them, at any stage, went on to the next or ended.
LEMMA OneGoesOn ==
    ASSUME NEW cs \in [Calls -> CallRecord], NEW c \in Calls, NEW st \in Stages \ {"none"}, NEW over \in BOOLEAN
    PROVE  /\ [cs EXCEPT ![c] = IF over THEN NoCall ELSE [@ EXCEPT !.stage = st]] \in [Calls -> CallRecord]
           /\ \A x \in Calls \ {c} : [cs EXCEPT ![c] = IF over THEN NoCall ELSE [@ EXCEPT !.stage = st]][x] = cs[x]
           /\ over => [cs EXCEPT ![c] = IF over THEN NoCall ELSE [@ EXCEPT !.stage = st]][c] = NoCall
           /\ ~over => /\ Carries([cs EXCEPT ![c] = IF over THEN NoCall ELSE [@ EXCEPT !.stage = st]][c], cs[c])
                       /\ [cs EXCEPT ![c] = IF over THEN NoCall ELSE [@ EXCEPT !.stage = st]][c].stage = st
<1>1. cs[c] \in CallRecord /\ NoCall \in CallRecord
    BY NoCallIs
<1> DEFINE v == [cs[c] EXCEPT !.stage = st]
           w == IF over THEN NoCall ELSE v
<1>2. v \in CallRecord /\ Carries(v, cs[c]) /\ v.stage = st
    BY <1>1, StageIs
<1>3. [cs EXCEPT ![c] = IF over THEN NoCall ELSE [@ EXCEPT !.stage = st]] = [cs EXCEPT ![c] = w]
    OBVIOUS
<1> HIDE DEF v
<1>4. w \in CallRecord /\ (over => w = NoCall) /\ (~over => w = v)
    BY <1>1, <1>2
<1> HIDE DEF w
<1> QED  BY <1>2, <1>3, <1>4

\* The answer to the intent keeps the invariant: a prompt that is opened replaces the
\* one that was open, whose call fails.
LEMMA IntentKeeps ==
    ASSUME AdminInv, NEW c \in Calls, NEW how \in {"call", "external", "asking", "refused"}, IntentAnswered(c, how)
    PROVE  AdminInv'
<1>0. /\ call \in [Calls -> CallRecord] /\ active \in [{"list", "action"} -> 0 .. MaxCalls] /\ asking \in 0 .. MaxCalls
      /\ c # 0 /\ c \in 0 .. MaxCalls /\ (asking # 0 => asking \in Calls /\ call[asking].stage = "asking")
      /\ dlg \in Admins \cup {Nobody} /\ codes \in {Nobody, dlg} /\ identities \in {Nobody, dlg}
    BY AskingIs
<1>1. call[c].stage = "intent" /\ asking # c /\ UNCHANGED backupVars /\ dlg' = dlg /\ codes' = codes /\ identities' = identities
    BY AskingIs DEF IntentAnswered, dialogVars
<1> DEFINE cs == IF how = "asking" THEN PromptClosed ELSE call
           over == how = "refused"
           st == IF how = "refused" THEN "call" ELSE how
           n == [cs EXCEPT ![c] = IF over THEN NoCall ELSE [@ EXCEPT !.stage = st]]
<1>2. call' = n
    BY DEF IntentAnswered
<1>3. /\ PromptClosed \in [Calls -> CallRecord]
      /\ \A x \in Calls : PromptClosed[x] = IF x = asking THEN NoCall ELSE call[x]
      /\ Rejected \in [{"list", "action"} -> 0 .. MaxCalls]
      /\ \A x \in Calls : x # asking /\ active["action"] = x => Rejected["action"] = x
    BY PromptClosedIs
<1>4. /\ cs \in [Calls -> CallRecord] /\ cs[c] = call[c]
      /\ \A x \in Calls : cs[x] = IF how = "asking" /\ x = asking THEN NoCall ELSE call[x]
    BY <1>0, <1>1, <1>3
<1>5. over \in BOOLEAN /\ st \in Stages \ {"none"} /\ (over <=> how = "refused") /\ (~over => st = how)
    BY DEF Stages
<1> HIDE DEF cs, over, st
<1>6. /\ n \in [Calls -> CallRecord] /\ (\A x \in Calls \ {c} : n[x] = cs[x])
      /\ over => n[c] = NoCall
      /\ ~over => Carries(n[c], cs[c]) /\ n[c].stage = st
    BY <1>4, <1>5, OneGoesOn
<1> HIDE DEF n
<1>7. \A x \in Calls : CallStep(x)
    BY <1>2, <1>4, <1>6, CarriesItself DEF CallStep
<1>8. asking' \in 0 .. MaxCalls /\ (asking' # 0 => call'[asking'].stage = "asking")
  <2>1. CASE how = "asking"
    <3>1. asking' = c
        BY <2>1 DEF IntentAnswered
    <3> QED  BY <1>0, <1>2, <1>5, <1>6, <2>1, <3>1
  <2>2. CASE how # "asking"
    <3>1. asking' = asking
        BY <2>2 DEF IntentAnswered
    <3> QED  BY <1>0, <1>1, <1>2, <1>4, <1>6, <2>2, <3>1
  <2> QED  BY <2>1, <2>2
<1>9. /\ active' \in [{"list", "action"} -> 0 .. MaxCalls]
      /\ \A x \in Calls : call'[x].kind = "action" /\ active["action"] = x => active'["action"] = x
  BY <1>0, ChannelsAre, <1>2, <1>5, <1>6, NoCallIs, <1>1, <1>4, <1>3 DEF IntentAnswered
<1> QED  BY <1>0, <1>1, <1>2, <1>6, <1>7, <1>8, <1>9, PageKeeps

\* The answer of a challenge of the browser keeps the invariant.
LEMMA ExternalKeeps ==
    ASSUME AdminInv, NEW c \in Calls, NEW ok \in BOOLEAN, ExternalAnswered(c, ok)
    PROVE  AdminInv'
<1>0. /\ call \in [Calls -> CallRecord] /\ active \in [{"list", "action"} -> 0 .. MaxCalls] /\ asking \in 0 .. MaxCalls
      /\ (asking # 0 => asking \in Calls /\ call[asking].stage = "asking")
      /\ dlg \in Admins \cup {Nobody} /\ codes \in {Nobody, dlg} /\ identities \in {Nobody, dlg}
    BY AskingIs
<1>1. /\ call[c].stage = "external" /\ asking # c /\ UNCHANGED backupVars /\ dlg' = dlg /\ codes' = codes /\ identities' = identities
      /\ asking' = asking
    BY AskingIs DEF ExternalAnswered, dialogVars
<1> DEFINE goes == ok /\ call[c].live
           over == ~goes
           n == [call EXCEPT ![c] = IF over THEN NoCall ELSE [@ EXCEPT !.stage = "call"]]
<1>2. call' = n /\ active' = IF goes THEN active ELSE Finished(active, c)
    BY DEF ExternalAnswered
<1>3. over \in BOOLEAN /\ "call" \in Stages \ {"none"} /\ (over <=> ~goes)
    BY DEF Stages
<1> HIDE DEF over, goes
<1>4. /\ n \in [Calls -> CallRecord] /\ (\A x \in Calls \ {c} : n[x] = call[x])
      /\ over => n[c] = NoCall
      /\ ~over => Carries(n[c], call[c])
    BY <1>0, <1>3, OneGoesOn
<1> HIDE DEF n
<1>5. \A x \in Calls : CallStep(x)
    BY <1>2, <1>4, CarriesItself DEF CallStep
<1>6. /\ Finished(active, c) \in [{"list", "action"} -> 0 .. MaxCalls]
      /\ (active["action"] # c => Finished(active, c)["action"] = active["action"])
    BY <1>0, ChannelsAre
<1>7. over => call'[c].kind = "none"
    BY <1>2, <1>4, NoCallIs
<1>8. /\ active' \in [{"list", "action"} -> 0 .. MaxCalls]
      /\ \A x \in Calls : call'[x].kind = "action" /\ active["action"] = x => active'["action"] = x
    BY <1>0, <1>2, <1>3, <1>6, <1>7
<1>9. asking # 0 => call'[asking].stage = "asking"
    BY <1>0, <1>1, <1>2, <1>4
<1> QED  BY <1>0, <1>1, <1>2, <1>4, <1>5, <1>8, <1>9, PageKeeps

\* Submitting or cancelling the prompt keeps the invariant.
LEMMA PromptKeeps ==
    ASSUME AdminInv, CancelStepUp \/ \E ok \in BOOLEAN : SubmitStepUp(ok)
    PROVE  AdminInv'
<1>0. /\ call \in [Calls -> CallRecord] /\ active \in [{"list", "action"} -> 0 .. MaxCalls] /\ asking \in Calls
      /\ dlg \in Admins \cup {Nobody} /\ codes \in {Nobody, dlg} /\ identities \in {Nobody, dlg}
    BY AdminAssumption DEF AdminInv, AdminTypes, AdminTypeOK, DialogInv, CancelStepUp, SubmitStepUp, Calls
<1>1. UNCHANGED backupVars /\ dlg' = dlg /\ codes' = codes /\ identities' = identities /\ asking' = 0 /\ asking # 0
    BY DEF CancelStepUp, SubmitStepUp, dialogVars
<1>2. /\ PromptClosed \in [Calls -> CallRecord]
      /\ \A x \in Calls : PromptClosed[x] = IF x = asking THEN NoCall ELSE call[x]
      /\ Rejected \in [{"list", "action"} -> 0 .. MaxCalls]
      /\ \A x \in Calls : x # asking /\ active["action"] = x => Rejected["action"] = x
    BY PromptClosedIs
<1>3. CASE CancelStepUp
  <2> DEFINE cs == StepUpCancelled(PromptClosed)
  <2>1. cs \in [Calls -> CallRecord] /\ \A x \in Calls : Carries(cs[x], PromptClosed[x])
      BY <1>2, CallFunctions
  <2>2. call' = cs /\ active' = Rejected
      BY <1>3 DEF CancelStepUp
  <2> HIDE DEF cs
  <2>3. call'[asking].kind = "none"
      BY <1>0, <1>2, <2>1, <2>2, NoCallIs DEF Carries
  <2>4. \A x \in Calls : x # asking => CallStep(x)
      BY <1>2, <2>1, <2>2 DEF CallStep
  <2>5. ASSUME NEW x \in Calls
        PROVE  CallStep(x) \/ (DialogCall(x)' /\ BackupCall(x)' /\ call'[x].kind = "none")
    <3>1. CASE x = asking
      BY <2>3, <3>1 DEF DialogCall, BackupCall
    <3> QED  BY <2>4, <3>1
  <2> QED  BY <1>0, <1>1, <1>2, <2>1, <2>2, <2>3, <2>5, AdminAssumption, PageKeeps
<1>4. CASE \E ok \in BOOLEAN : SubmitStepUp(ok)
  <2> PICK ok \in BOOLEAN : SubmitStepUp(ok)
      BY <1>4
  <2>0. PICK c \in Calls : c = asking
      BY <1>0
  <2> DEFINE over == ~ok
             n == [call EXCEPT ![c] = IF over THEN NoCall ELSE [@ EXCEPT !.stage = "call"]]
  <2>1. call' = n /\ active' = IF ok THEN active ELSE Rejected
      BY <2>0 DEF SubmitStepUp
  <2>2. over \in BOOLEAN /\ "call" \in Stages \ {"none"} /\ (over <=> ~ok)
      BY DEF Stages
  <2> HIDE DEF over
  <2>3. /\ n \in [Calls -> CallRecord] /\ (\A x \in Calls \ {c} : n[x] = call[x])
        /\ over => n[c] = NoCall
        /\ ~over => Carries(n[c], call[c])
      BY <1>0, <2>2, OneGoesOn
  <2> HIDE DEF n
  <2>4. \A x \in Calls : CallStep(x)
      BY <2>1, <2>3, CarriesItself DEF CallStep
  <2>5. over => call'[c].kind = "none"
      BY <2>1, <2>3, NoCallIs
  <2>6. /\ active' \in [{"list", "action"} -> 0 .. MaxCalls]
        /\ \A x \in Calls : call'[x].kind = "action" /\ active["action"] = x => active'["action"] = x
      BY <1>0, <1>2, <2>0, <2>1, <2>2, <2>5
  <2>7. asking' \in 0 .. MaxCalls
      BY <1>1, AdminAssumption
  <2> QED  BY <1>0, <1>1, <2>1, <2>3, <2>4, <2>6, <2>7, PageKeeps
<1> QED  BY <1>3, <1>4

\* What is to be shown of a step of the backup form.
LEMMA FormKeeps ==
    ASSUME AdminInv, call' \in [Calls -> CallRecord], UNCHANGED dialogVars,
           \A x \in Calls : CallStep(x) \/ (/\ DialogCall(x)' /\ call'[x].stage # "none"
                                            /\ \A y \in Calls : call[y].kind # "upload"),
           \A x, y \in Calls : CallStep(x) \/ CallStep(y) \/ x = y,
           active' \in [{"list", "action"} -> 0 .. MaxCalls],
           \A x \in Calls : call'[x].kind = "action" /\ active["action"] = x => active'["action"] = x,
           asking' \in 0 .. MaxCalls, asking' # 0 => call'[asking'].stage = "asking",
           uploaded' \in Archives \cup {Nobody}, token' \in Archives \cup {Nobody},
           summary' \in Archives \cup {Nobody}, lastSeen' \in Archives \cup {Nobody},
           restoreModal' \in {"closed", "first", "second"},
           archive' \in [Archives -> {"none", "verifying", "verified", "restoring"}],
           FormInv', \A x \in Calls : BackupCall(x)'
    PROVE  AdminInv'
  BY DialogKeeps, NoCallIs DEF dialogVars, AdminInv, AdminTypes, AdminTypeOK, DialogInv, CallStep,
     Carries, BackupInv

\* What the form's steps need of the invariant.
LEMMA FormIs ==
    ASSUME AdminInv
    PROVE  /\ call \in [Calls -> CallRecord] /\ active \in [{"list", "action"} -> 0 .. MaxCalls] /\ asking \in 0 .. MaxCalls
           /\ (asking # 0 => asking \in Calls /\ call[asking].stage = "asking")
           /\ uploaded \in Archives \cup {Nobody} /\ token \in Archives \cup {Nobody}
           /\ summary \in Archives \cup {Nobody} /\ lastSeen \in Archives \cup {Nobody}
           /\ restoreModal \in {"closed", "first", "second"}
           /\ archive \in [Archives -> {"none", "verifying", "verified", "restoring"}]
           /\ Nobody \notin Archives /\ FormInv /\ \A x \in Calls : BackupCall(x)
  BY AdminAssumption DEF AdminInv, AdminTypes, AdminTypeOK, DialogInv, BackupInv, Calls

\* A step of the form that leaves the calls alone.
LEMMA CallsStay ==
    ASSUME AdminInv, UNCHANGED <<call, active, asking>>
    PROVE  /\ call' \in [Calls -> CallRecord] /\ (\A x \in Calls : CallStep(x))
           /\ active' \in [{"list", "action"} -> 0 .. MaxCalls]
           /\ \A x \in Calls : call'[x].kind = "action" /\ active["action"] = x => active'["action"] = x
           /\ asking' \in 0 .. MaxCalls /\ (asking' # 0 => call'[asking'].stage = "asking")
  BY FormIs, CarriesItself DEF CallStep

\* An archive that is verified, a summary that is shown and the first dialog that opens
\* keep the invariant.
LEMMA FormStepsKeep ==
    ASSUME AdminInv, PollShowsSummary \/ OpenRestore \/ \E a \in Archives : Verified(a)
    PROVE  AdminInv'
  BY FormIs, CallsStay, FormKeeps DEF PollShowsSummary, OpenRestore, Verified, AdminInv, DialogInv,
     Running, FormInv, Known, BackupCall

\* An upload that begins hides the summary, and no other is on its way.
LEMMA UploadKeeps ==
    ASSUME AdminInv, NEW a \in Archives, NEW c \in Calls, UploadBackup(a, c)
    PROVE  AdminInv'
<1>0. /\ call \in [Calls -> CallRecord] /\ active \in [{"list", "action"} -> 0 .. MaxCalls] /\ asking \in 0 .. MaxCalls
      /\ uploaded \in Archives \cup {Nobody} /\ token \in Archives \cup {Nobody} /\ lastSeen \in Archives \cup {Nobody}
      /\ archive \in [Archives -> {"none", "verifying", "verified", "restoring"}]
      /\ FormInv /\ \A x \in Calls : BackupCall(x)
    BY FormIs
<1> DEFINE n == Begin("upload", a, "intent")
<1>1. /\ Free(c) /\ call' = [call EXCEPT ![c] = n] /\ restoreModal = "closed" /\ archive[a] = "none"
      /\ summary' = Nobody /\ restoreModal' = restoreModal /\ lastSeen' = lastSeen /\ archive' = archive
      /\ uploaded' = uploaded /\ token' = token /\ restored' = restored /\ active' = active /\ asking' = asking
      /\ UNCHANGED dialogVars /\ \A x \in Running : call[x].kind # "upload"
    BY DEF UploadBackup, Begins
<1>2. "upload" \in CallKinds /\ "intent" \in Stages /\ a \in Parties
    BY DEF CallKinds, Stages, Parties
<1>3. n \in CallRecord /\ n.kind = "upload" /\ n.arg = a /\ n.stage = "intent"
    BY <1>2, BeginIs
<1> HIDE DEF n
<1>4. /\ call' \in [Calls -> CallRecord] /\ call'[c] = n /\ (\A x \in Calls \ {c} : call'[x] = call[x] /\ CallStep(x))
      /\ asking # 0 => call'[asking].stage = "asking"
    BY <1>1, <1>3, BeginsIs
<1>5. \A x \in Calls : call[x].kind # "upload"
    BY <1>1 DEF AdminInv, DialogInv, Running
<1>6. DialogCall(c)' /\ call'[c].stage # "none" /\ BackupCall(c)'
    BY <1>1, <1>3, <1>4 DEF DialogCall, BackupCall
<1>7. ASSUME NEW x \in Calls \ {c} PROVE BackupCall(x)'
    BY <1>0, <1>1, <1>4, <1>5 DEF BackupCall, Known
<1>8. FormInv'
    BY <1>0, <1>1 DEF FormInv, Known
<1>9. \A x \in Calls : call'[x].kind = "action" /\ active["action"] = x => active'["action"] = x
    BY <1>1
<1>10. \A x, y \in Calls : CallStep(x) \/ CallStep(y) \/ x = y
    BY <1>4
<1> QED  BY <1>0, <1>1, <1>4, <1>5, <1>6, <1>7, <1>8, <1>9, <1>10, FormKeeps

\* An upload that is answered becomes the newest: the token at hand is of an archive
\* the server had before, so of another one.
LEMMA UploadedKeeps ==
    ASSUME AdminInv, NEW c \in Calls, UploadAnswered(c)
    PROVE  AdminInv'
<1>0. /\ uploaded \in Archives \cup {Nobody} /\ token \in Archives \cup {Nobody} /\ lastSeen \in Archives \cup {Nobody}
      /\ summary \in Archives \cup {Nobody} /\ restoreModal \in {"closed", "first", "second"} /\ asking \in 0 .. MaxCalls
      /\ archive \in [Archives -> {"none", "verifying", "verified", "restoring"}]
      /\ Nobody \notin Archives /\ FormInv /\ \A x \in Calls : BackupCall(x)
    BY FormIs
<1> DEFINE a == call[c].arg
           ok == \A b \in Archives : archive[b] \notin {"verifying", "restoring"}
<1>1. /\ Ends(c) /\ call[c].stage = "call" /\ call[c].kind = "upload"
      /\ archive' = IF ok THEN [archive EXCEPT ![a] = "verifying"] ELSE archive
      /\ uploaded' = IF ok THEN a ELSE uploaded
      /\ UNCHANGED dialogVars /\ asking' = asking /\ token' = token /\ restoreModal' = restoreModal /\ summary' = summary
      /\ lastSeen' = lastSeen /\ restored' = restored
    BY DEF UploadAnswered, Answers
<1>2. /\ call' \in [Calls -> CallRecord] /\ (\A x \in Calls : CallStep(x))
      /\ active' \in [{"list", "action"} -> 0 .. MaxCalls]
      /\ \A x \in Calls : call'[x].kind = "action" /\ active["action"] = x => active'["action"] = x
      /\ asking # 0 => call'[asking].stage = "asking"
      /\ call'[c] = NoCall /\ \A x \in Calls \ {c} : call'[x] = call[x]
    BY <1>1, EndsIs
<1>3. a \in Archives /\ archive[a] = "none" /\ summary = Nobody /\ restoreModal # "first"
    BY <1>0, <1>1 DEF BackupCall
<1>4. \A x \in Calls \ {c} : call[x].kind # "upload"
    BY <1>1 DEF AdminInv, BackupInv
<1> HIDE DEF a, ok
<1>5. /\ archive' \in [Archives -> {"none", "verifying", "verified", "restoring"}]
      /\ uploaded' \in Archives \cup {Nobody} /\ (uploaded # Nobody => uploaded' # Nobody)
      /\ \A b \in Archives : archive[b] # "none" => archive'[b] # "none" /\ (uploaded' = b => uploaded = b)
      /\ uploaded' # Nobody => archive'[uploaded'] # "none"
  BY <1>0, <1>1, <1>3 DEF FormInv
<1>6. \A b \in Archives : Known(b) => Known(b)'
    BY <1>1, <1>5 DEF Known
<1>7. FormInv'
  BY <1>1, <1>0, <1>6, <1>3, <1>5 DEF FormInv, Known
<1>8. ASSUME NEW x \in Calls PROVE BackupCall(x)'
  <2>1. CASE x = c
      BY <1>2, <2>1, NoCallIs DEF BackupCall
  <2>2. CASE x # c
    BY <1>0, <1>2, <1>4, <2>2, <1>5, <1>6 DEF BackupCall, Known
  <2> QED  BY <2>1, <2>2
<1> QED  BY <1>0, <1>1, <1>2, <1>5, <1>7, <1>8, FormKeeps

\* A cancellation ends the call that waits for the prompt, and marks the others.
LEMMA CancelledPrompt ==
    ASSUME AdminInv
    PROVE  /\ StepUpCancelled(PromptClosed) \in [Calls -> CallRecord]
           /\ \A x \in Calls : \/ StepUpCancelled(PromptClosed)[x] = NoCall
                               \/ Carries(StepUpCancelled(PromptClosed)[x], call[x])
           /\ Rejected \in [{"list", "action"} -> 0 .. MaxCalls]
           /\ \A x \in Calls : StepUpCancelled(PromptClosed)[x].kind = "action" /\ active["action"] = x
                                 => Rejected["action"] = x
<1>1. /\ PromptClosed \in [Calls -> CallRecord]
      /\ \A x \in Calls : PromptClosed[x] = IF x = asking THEN NoCall ELSE call[x]
      /\ Rejected \in [{"list", "action"} -> 0 .. MaxCalls]
      /\ \A x \in Calls : x # asking /\ active["action"] = x => Rejected["action"] = x
    BY PromptClosedIs
<1> DEFINE ps == PromptClosed
           cs == StepUpCancelled(ps)
<1> HIDE DEF ps
<1>2. cs \in [Calls -> CallRecord] /\ \A x \in Calls : Carries(cs[x], ps[x])
    BY <1>1, CallFunctions DEF ps
<1>3. ASSUME NEW x \in Calls, x = asking PROVE cs[x] = NoCall
  <2>1. ps[x] = NoCall /\ cs[x] = [ps[x] EXCEPT !.live = FALSE]
      BY <1>1, <1>3 DEF ps, StepUpCancelled
  <2>2. [NoCall EXCEPT !.live = FALSE] = NoCall
    <3> DEFINE b == FALSE
    <3>1. NoCall \in CallRecord /\ NoCall.live = b
        BY NoCallIs
    <3> HIDE DEF b
    <3>2. [NoCall EXCEPT !.live = b] = NoCall
        BY <3>1 DEF CallRecord
    <3> QED  BY <3>2 DEF b
  <2> QED  BY <2>1, <2>2
<1> HIDE DEF cs
<1>4. \A x \in Calls : x # asking => Carries(cs[x], call[x])
    BY <1>1, <1>2 DEF ps
<1>5. \A x \in Calls : x = asking => cs[x].kind = "none"
    BY <1>3, NoCallIs
<1> QED  BY <1>1, <1>2, <1>3, <1>4, <1>5 DEF ps, cs

\* A step that cancels the prompt and nothing else of the calls.
LEMMA PromptCancelled ==
    ASSUME AdminInv, call' = StepUpCancelled(PromptClosed), active' = Rejected
    PROVE  /\ call' \in [Calls -> CallRecord] /\ (\A x \in Calls : CallStep(x))
           /\ active' \in [{"list", "action"} -> 0 .. MaxCalls]
           /\ \A x \in Calls : call'[x].kind = "action" /\ active["action"] = x => active'["action"] = x
  BY CancelledPrompt DEF CallStep

\* The answer of a prepare keeps the invariant, also one that comes after the dialog was
\* cancelled or another archive was uploaded: its token is that of its own archive.
LEMMA PrepareKeeps ==
    ASSUME AdminInv, NEW c \in Calls, PrepareAnswered(c)
    PROVE  AdminInv'
<1>0. /\ call \in [Calls -> CallRecord] /\ active \in [{"list", "action"} -> 0 .. MaxCalls]
      /\ uploaded \in Archives \cup {Nobody} /\ token \in Archives \cup {Nobody} /\ lastSeen \in Archives \cup {Nobody}
      /\ summary \in Archives \cup {Nobody} /\ restoreModal \in {"closed", "first", "second"} /\ asking \in 0 .. MaxCalls
      /\ archive \in [Archives -> {"none", "verifying", "verified", "restoring"}]
      /\ (asking # 0 => asking \in Calls /\ call[asking].stage = "asking")
      /\ Nobody \notin Archives /\ FormInv /\ \A x \in Calls : BackupCall(x)
    BY FormIs
<1> DEFINE a == call[c].arg
           ok == archive[a] = "verified"
           w(x) == [call[x] EXCEPT !.token = Nobody]
<1>1. /\ call[c].stage = "call" /\ call[c].kind = "prepare" /\ active' = Finished(active, c)
      /\ \/ /\ ok /\ token' = a /\ restoreModal' = "second"
            /\ call' = [d \in Calls |-> IF d = c THEN NoCall ELSE IF call[d].token = a THEN w(d) ELSE call[d]]
         \/ ~ok /\ call' = [call EXCEPT ![c] = NoCall] /\ token' = token /\ restoreModal' = restoreModal
      /\ UNCHANGED dialogVars /\ asking' = asking /\ uploaded' = uploaded /\ summary' = summary
      /\ lastSeen' = lastSeen /\ archive' = archive /\ restored' = restored
    BY DEF PrepareAnswered, Answers
<1>2. a \in Archives /\ uploaded \in Archives /\ Known(a) /\ asking # c
    BY <1>0, <1>1, AskingIs DEF BackupCall
<1>3. ASSUME NEW x \in Calls
      PROVE  w(x) \in CallRecord /\ Carries(w(x), call[x]) /\ w(x).stage = call[x].stage /\ w(x).token = Nobody
  <2> DEFINE o == call[x]
  <2>1. o \in CallRecord
      BY <1>0
  <2> HIDE DEF o
  <2>2. LET v == [o EXCEPT !.token = Nobody] IN v \in CallRecord /\ Carries(v, o) /\ v.stage = o.stage /\ v.token = Nobody
      BY <2>1 DEF CallRecord, Carries
  <2> QED  BY <2>2 DEF o
<1> HIDE DEF a, ok, w
<1>4. /\ call' \in [Calls -> CallRecord] /\ call'[c] = NoCall
      /\ \A x \in Calls \ {c} : call'[x] = w(x) \/ call'[x] = call[x]
    BY <1>0, <1>1, <1>3, NoCallIs
<1>5. \A x \in Calls : CallStep(x)
    BY <1>3, <1>4, CarriesItself DEF CallStep
<1>6. /\ active' \in [{"list", "action"} -> 0 .. MaxCalls]
      /\ \A x \in Calls : call'[x].kind = "action" /\ active["action"] = x => active'["action"] = x
  BY <1>0, ChannelsAre, <1>4, NoCallIs, <1>1
<1>7. asking # 0 => call'[asking].stage = "asking"
    BY <1>0, <1>2, <1>3, <1>4
<1>8. FormInv'
  BY <1>1, <1>0, <1>2 DEF FormInv, Known
<1>9. ASSUME NEW x \in Calls PROVE BackupCall(x)'
  BY NoCallIs, <1>1, <1>0, <1>5 DEF BackupCall, Known, Carries, CallStep
<1>10. token' \in Archives \cup {Nobody} /\ restoreModal' \in {"closed", "first", "second"}
    BY <1>0, <1>1, <1>2
<1> QED  BY <1>0, <1>1, <1>4, <1>5, <1>6, <1>7, <1>8, <1>9, <1>10, FormKeeps

\* Cancelling the restore keeps the invariant.
LEMMA CancelRestoreKeeps ==
    ASSUME AdminInv, CloseRestoreModals
    PROVE  AdminInv'
  BY FormIs, PromptCancelled, NoCallIs, AdminAssumption, FormKeeps DEF CloseRestoreModals, FormInv,
     BackupCall, Known, Carries, CallStep

\* The server restores an archive only with its own token: what was seen last then.
LEMMA RestoreAnsweredKeeps ==
    ASSUME AdminInv, NEW c \in Calls, RestoreAnswered(c)
    PROVE  AdminInv'
<1>0. /\ call \in [Calls -> CallRecord] /\ asking \in 0 .. MaxCalls
      /\ uploaded \in Archives \cup {Nobody} /\ token \in Archives \cup {Nobody} /\ lastSeen \in Archives \cup {Nobody}
      /\ summary \in Archives \cup {Nobody} /\ restoreModal \in {"closed", "first", "second"}
      /\ archive \in [Archives -> {"none", "verifying", "verified", "restoring"}]
      /\ Nobody \notin Archives /\ FormInv /\ \A x \in Calls : BackupCall(x)
    BY FormIs
<1> DEFINE a == call[c].arg
<1>1. /\ call[c].stage = "call" /\ call[c].kind = "restore" /\ UNCHANGED dialogVars
      /\ \/ /\ BeginRestore(a, call[c].token) /\ archive' = [archive EXCEPT ![a] = "restoring"]
            /\ restored' = <<a, call[c].seen>> /\ restoreModal' = "closed" /\ token' = Nobody /\ asking' = 0
            /\ call' = [StepUpCancelled(PromptClosed) EXCEPT ![c] = NoCall] /\ active' = Rejected
            /\ UNCHANGED <<uploaded, summary, lastSeen>>
         \/ Ends(c) /\ UNCHANGED <<asking, backupVars>>
    BY DEF RestoreAnswered, Answers
<1>2. a \in Archives /\ (call[c].token = a => call[c].seen = a)
    BY <1>0, <1>1 DEF BackupCall
<1> HIDE DEF a
<1>3. CASE Ends(c) /\ UNCHANGED <<asking, backupVars>>
  BY <1>1, <1>3, EndsIs, AskingIs, <1>0, PageKeeps DEF dialogVars
<1>4. CASE /\ BeginRestore(a, call[c].token) /\ archive' = [archive EXCEPT ![a] = "restoring"]
           /\ restored' = <<a, call[c].seen>> /\ restoreModal' = "closed" /\ token' = Nobody /\ asking' = 0
           /\ call' = [StepUpCancelled(PromptClosed) EXCEPT ![c] = NoCall] /\ active' = Rejected
           /\ UNCHANGED <<uploaded, summary, lastSeen>>
  <2> DEFINE cs == StepUpCancelled(PromptClosed)
  <2>1. /\ cs \in [Calls -> CallRecord] /\ (\A x \in Calls : cs[x] = NoCall \/ Carries(cs[x], call[x]))
        /\ Rejected \in [{"list", "action"} -> 0 .. MaxCalls]
        /\ \A x \in Calls : cs[x].kind = "action" /\ active["action"] = x => Rejected["action"] = x
      BY CancelledPrompt
  <2>2. call' = [cs EXCEPT ![c] = NoCall]
      BY <1>4
  <2> HIDE DEF cs
  <2>3. call' \in [Calls -> CallRecord] /\ call'[c] = NoCall /\ \A x \in Calls \ {c} : call'[x] = cs[x]
      BY <2>1, <2>2, NoCallIs
  <2>4. \A x \in Calls : CallStep(x)
      BY <2>1, <2>3 DEF CallStep
  <2>5. /\ active' \in [{"list", "action"} -> 0 .. MaxCalls]
        /\ \A x \in Calls : call'[x].kind = "action" /\ active["action"] = x => active'["action"] = x
      BY <1>4, <2>1, <2>3, NoCallIs
  <2>6. call[c].token = a /\ archive[a] = "verified"
      BY <1>4 DEF BeginRestore
  <2>7. /\ archive' \in [Archives -> {"none", "verifying", "verified", "restoring"}]
        /\ \A x \in Archives : archive'[x] = "none" <=> archive[x] = "none"
      BY <1>0, <1>2, <1>4, <2>6
  <2>8. FormInv'
      BY <1>0, <1>2, <1>4, <2>6, <2>7 DEF FormInv
  <2>9. ASSUME NEW x \in Calls PROVE BackupCall(x)'
    BY NoCallIs, <1>0, <1>4, <2>7, <2>4 DEF BackupCall, Known, Carries, CallStep
  <2>10. asking' \in 0 .. MaxCalls /\ asking' = 0
      BY <1>4, AdminAssumption
  <2> QED  BY <1>0, <1>1, <1>4, <2>3, <2>4, <2>5, <2>7, <2>8, <2>9, <2>10, FormKeeps
<1> QED  BY <1>1, <1>3, <1>4

\* The page starts with the invariant.
LEMMA AdminStarts ==
    AdminInit => AdminInv
  BY NoCallIs, AdminAssumption DEF AdminInit, AdminTypes, AdminTypeOK, DialogInv, DialogCall,
     BackupCall, FormInv, AdminInv, BackupInv

\* Every step keeps the invariant.
LEMMA AdminSteps ==
    ASSUME AdminInv, [AdminNext]_adminVars
    PROVE  AdminInv'
<1>1. CASE UNCHANGED adminVars
    BY <1>1 DEF adminVars, AdminInv, AdminTypes, AdminTypeOK, DialogInv, DialogCall, BackupInv, BackupCall, FormInv, Known
<1>2. CASE CloseSecurityAction
    BY <1>2, CloseKeeps DEF CloseSecurityAction
<1>3. CASE CancelStepUp \/ \E ok \in BOOLEAN : SubmitStepUp(ok)
    BY <1>3, PromptKeeps
<1>4. CASE PollShowsSummary \/ OpenRestore \/ \E a \in Archives : Verified(a)
    BY <1>4, FormStepsKeep
<1>5. CASE CloseRestoreModals
    BY <1>5, CancelRestoreKeeps
<1>6. ASSUME NEW c \in Calls, NEW u \in Admins, OpenSecurityAction(u, c) PROVE AdminInv'
    BY <1>6, OpenKeeps
<1>7. ASSUME NEW c \in Calls, NEW u \in Admins, DoUserAction(u, c) PROVE AdminInv'
    BY <1>7, ActionsBegin
<1>8. ASSUME NEW c \in Calls, SubmitSecurityAction(c) \/ ContinueRestore(c) PROVE AdminInv'
    BY <1>8, SubmitsKeep
<1>9. ASSUME NEW c \in Calls, NEW a \in Archives, UploadBackup(a, c) PROVE AdminInv'
    BY <1>9, UploadKeeps
<1>10. ASSUME NEW c \in Calls, NEW how \in {"call", "external", "asking", "refused"}, IntentAnswered(c, how) PROVE AdminInv'
    BY <1>10, IntentKeeps
<1>11. ASSUME NEW c \in Calls, NEW ok \in BOOLEAN, ExternalAnswered(c, ok) PROVE AdminInv'
    BY <1>11, ExternalKeeps
<1>12. ASSUME NEW c \in Calls, StartRestore(c) PROVE AdminInv'
    BY <1>12, StartRestoreKeeps
<1>13. ASSUME NEW c \in Calls, ListAnswered(c) \/ ActionAnswered(c) \/ OtherAnswered(c) PROVE AdminInv'
    BY <1>13, DialogAnswersKeep
<1>14. ASSUME NEW c \in Calls, UploadAnswered(c) PROVE AdminInv'
    BY <1>14, UploadedKeeps
<1>15. ASSUME NEW c \in Calls, PrepareAnswered(c) PROVE AdminInv'
    BY <1>15, PrepareKeeps
<1>16. ASSUME NEW c \in Calls, RestoreAnswered(c) PROVE AdminInv'
    BY <1>16, RestoreAnsweredKeeps
<1> QED
    BY <1>1, <1>2, <1>3, <1>4, <1>5, <1>6, <1>7, <1>8, <1>9, <1>10, <1>11, <1>12, <1>13, <1>14, <1>15, <1>16 DEF AdminNext

\* The invariant implies the promise of the page; two actions would hold one channel.
LEMMA AdminIsSafe ==
    AdminInv => AdminSafe
<1> SUFFICES ASSUME AdminInv PROVE AdminSafe
    OBVIOUS
<1> DEFINE S == {c \in Running : call[c].kind = "action"}
<1>1. S \subseteq {active["action"]}
    BY DEF AdminInv, DialogInv, DialogCall, Running
<1>2. IsFiniteSet({active["action"]}) /\ Cardinality({active["action"]}) = 1
    BY FS_Singleton
<1> HIDE DEF S
<1>3. IsFiniteSet(S) /\ Cardinality(S) <= Cardinality({active["action"]})
    BY <1>1, <1>2, FS_Subset
<1>4. OneSecurityAction
    BY <1>2, <1>3 DEF OneSecurityAction, S
<1>5. AdminTypeOK /\ DialogShowsItsUser /\ RestoresWhatWasSeen
    BY DEF AdminInv, AdminTypes, DialogInv, DialogShowsItsUser, BackupInv, FormInv, RestoresWhatWasSeen
<1> QED  BY <1>4, <1>5 DEF AdminSafe

\* The administration page keeps its promise, for any users, any number of archives and
\* any number of calls at one time: the dialog shows what belongs to its user, one
\* security action runs at a time, and the archive that is restored is the one whose
\* summary was seen last when the restore was confirmed (admin.js, security-ui.js).
THEOREM AdminStaysSafe == AdminSpec => []AdminSafe
<1>1. AdminInit => AdminInv
    BY AdminStarts
<1>2. AdminInv /\ [AdminNext]_adminVars => AdminInv'
    BY AdminSteps
<1> QED  BY <1>1, <1>2, AdminIsSafe, PTL DEF AdminSpec

-----------------------------------------------------------------------------
(* The quota: the counters equal the sums over the outstanding reservations,  *)
(* hence the limits hold and the counters implement the promise of Quota.  A  *)
(* sum is the cardinality of a set of units, so that one reservation more or  *)
(* less is a disjoint union.                                                  *)

(* Units.                                                                  *)

\* A reservation of amount n adds exactly n units.
LEMMA AddUnits ==
    ASSUME NEW S, IsFiniteSet(S), NEW r, NEW n \in Nat,
           \A i \in 1 .. n : <<r, i>> \notin S
    PROVE  /\ IsFiniteSet(S \cup ({r} \X (1 .. n)))
           /\ Cardinality(S \cup ({r} \X (1 .. n))) = Cardinality(S) + n
<1> DEFINE T == {r} \X (1 .. n)
<1>1. IsFiniteSet({r}) /\ Cardinality({r}) = 1
  BY FS_Singleton
<1>2. IsFiniteSet(1 .. n) /\ Cardinality(1 .. n) = n
  BY FS_Interval
<1>3. IsFiniteSet(T) /\ Cardinality(T) = n
  <2>1. IsFiniteSet({r} \X (1 .. n)) /\
        Cardinality({r} \X (1 .. n)) = Cardinality({r}) * Cardinality(1 .. n)
    BY <1>1, <1>2, FS_Product
  <2> QED
    BY <1>1, <1>2, <2>1
<1>4. S \cap T = {}
  OBVIOUS
<1>5. IsFiniteSet(S \cup T) /\
      Cardinality(S \cup T) = Cardinality(S) + Cardinality(T) - Cardinality(S \cap T)
  BY <1>3, FS_Union
<1>6. Cardinality(S \cap T) = 0
  BY <1>4, FS_EmptySet
<1>7. Cardinality(S) \in Nat
  BY FS_CardinalityType
<1> QED
  BY <1>3, <1>5, <1>6, <1>7

\* The units of any set of reservations are finite.
LEMMA UnitsFinite ==
    ASSUME NEW R \in SUBSET Reservations, NEW f
    PROVE  /\ IsFiniteSet(Promise!Units(R, f))
           /\ Cardinality(Promise!Units(R, f)) \in Nat
<1>1. IsFiniteSet(R)
  BY FS_Subset, QuotaFinite
<1>2. IsFiniteSet(1 .. MaxAmount)
  BY QuotaFinite, FS_Interval
<1>3. IsFiniteSet(R \X (1 .. MaxAmount))
  BY <1>1, <1>2, FS_Product
<1>4. Promise!Units(R, f) \subseteq R \X (1 .. MaxAmount)
  BY DEF Promise!Units
<1>5. IsFiniteSet(Promise!Units(R, f))
  BY <1>3, <1>4, FS_Subset
<1> QED
  BY <1>5, FS_CardinalityType

\* What one more reservation adds, and one less takes away.
LEMMA UnitsOfOneMore ==
    ASSUME NEW R \in SUBSET Reservations, NEW r \in Reservations, r \notin R,
           NEW f, NEW g, NEW n \in 0 .. MaxAmount,
           \A x \in R : g[x].amount = f[x].amount, g[r].amount = n
    PROVE  Cardinality(Promise!Units(R \cup {r}, g)) =
               Cardinality(Promise!Units(R, f)) + n
<1> DEFINE S == Promise!Units(R, f)
<1>1. n \in Nat /\ MaxAmount \in Nat
  BY QuotaFinite
<1>2. Promise!Units(R \cup {r}, g) = S \cup ({r} \X (1 .. n))
  BY <1>1 DEF Promise!Units
<1>3. \A i \in 1 .. n : <<r, i>> \notin S
  BY DEF Promise!Units
<1>4. IsFiniteSet(S)
  BY UnitsFinite
<1> HIDE DEF S
<1>5. Cardinality(S \cup ({r} \X (1 .. n))) = Cardinality(S) + n
  BY <1>1, <1>3, <1>4, AddUnits
<1> QED
  BY <1>2, <1>5 DEF S

\* Units depend on the amounts only.
LEMMA UnitsUnchanged ==
    ASSUME NEW R \in SUBSET Reservations, NEW f, NEW g,
           \A x \in R : g[x].amount = f[x].amount
    PROVE  Promise!Units(R, g) = Promise!Units(R, f)
BY DEF Promise!Units

----------------------------------------------------------------------------
(* Dictionaries.                                                           *)

\* counts[key] = n.
LEMMA GetWith ==
    ASSUME NEW c, NEW key, NEW n, NEW x
    PROVE  Get(With(c, key, n), x) = IF x = key THEN n ELSE Get(c, x)
BY DEF Get, With

\* The if/del of _release, through .get with default zero.
LEMMA GetStore ==
    ASSUME NEW c, NEW key, NEW n, NEW x
    PROVE  Get(StoreOrDelete(c, key, n), x) = IF x = key THEN n ELSE Get(c, x)
BY DEF Get, With, StoreOrDelete

\* Stores keep the shape of a dictionary without empty entries.
LEMMA StoreShape ==
    ASSUME NEW K, NEW c, DOMAIN c \subseteq K, NEW key \in K, NEW n \in Nat,
           \A x \in DOMAIN c : c[x] \in Nat \ {0}
    PROVE  /\ DOMAIN StoreOrDelete(c, key, n) \subseteq K
           /\ \A x \in DOMAIN StoreOrDelete(c, key, n) :
                  StoreOrDelete(c, key, n)[x] \in Nat \ {0}
           /\ n # 0 => /\ DOMAIN With(c, key, n) \subseteq K
                       /\ \A x \in DOMAIN With(c, key, n) :
                              With(c, key, n)[x] \in Nat \ {0}
BY DEF With, StoreOrDelete

----------------------------------------------------------------------------
(* The invariant.                                                          *)

\* The sums of Quota, in this module's terms.
LEMMA UsedIsCardinality ==
    ASSUME NEW k, NEW u
    PROVE  /\ Promise!Used(k) = Cardinality(Promise!Units(Promise!Outstanding(k), res))
           /\ Promise!UsedBy(k, u) =
                 Cardinality(Promise!Units(Promise!OutstandingBy(k, u), res))
           /\ Promise!Used(k)' =
                 Cardinality(Promise!Units(Promise!Outstanding(k)', res'))
           /\ Promise!UsedBy(k, u)' =
                 Cardinality(Promise!Units(Promise!OutstandingBy(k, u)', res'))
  BY DEF Promise!Cardinality, Cardinality, Promise!Used, Promise!UsedBy

\* What is read back for a held reservation: its keys are there, and the counts
\* are the units of the other outstanding reservations plus its own.
LEMMA HeldIsCounted ==
    ASSUME TypeOK, CountsExact, NEW r \in Reservations, res[r].state = "held"
    PROVE  LET k == res[r].kind
               u == res[r].user
               n == res[r].amount IN
           /\ k \in Kinds /\ u \in Users /\ n \in Nat \ {0}
           /\ <<k, u>> \in DOMAIN userCounts
           /\ k \in DOMAIN globalCounts
           /\ userCounts[<<k, u>>] - n =
                 Cardinality(Promise!Units(Promise!OutstandingBy(k, u) \ {r}, res))
           /\ globalCounts[k] - n =
                 Cardinality(Promise!Units(Promise!Outstanding(k) \ {r}, res))
<1> DEFINE k == res[r].kind
           u == res[r].user
           n == res[r].amount
           O == Promise!Outstanding(k)
           B == Promise!OutstandingBy(k, u)
<1>1. k \in Kinds /\ u \in Users /\ n \in Nat \ {0} /\ n \in 0 .. MaxAmount
  BY QuotaFinite DEF TypeOK, Promise!Reservation
<1>2. /\ O \in SUBSET Reservations /\ r \in O
      /\ B \in SUBSET Reservations /\ r \in B
  BY DEF Promise!Outstanding, Promise!OutstandingBy
<1>3. res[r].amount = n
  OBVIOUS
<1> HIDE DEF O, B, k, u, n
<1>4. Cardinality(Promise!Units((O \ {r}) \cup {r}, res)) =
          Cardinality(Promise!Units(O \ {r}, res)) + n
  BY <1>2, <1>1, <1>3, UnitsOfOneMore
<1>5. Cardinality(Promise!Units((B \ {r}) \cup {r}, res)) =
          Cardinality(Promise!Units(B \ {r}, res)) + n
  BY <1>2, <1>1, <1>3, UnitsOfOneMore
<1>6. (O \ {r}) \cup {r} = O /\ (B \ {r}) \cup {r} = B
  BY <1>2
<1>7. /\ Cardinality(Promise!Units(O \ {r}, res)) \in Nat
      /\ Cardinality(Promise!Units(B \ {r}, res)) \in Nat
  BY <1>2, UnitsFinite
<1>8. /\ Get(globalCounts, k) = Cardinality(Promise!Units(O, res))
      /\ Get(userCounts, <<k, u>>) = Cardinality(Promise!Units(B, res))
  BY <1>1, UsedIsCardinality DEF CountsExact, O, B, k, u
<1>9. Get(globalCounts, k) # 0 /\ Get(userCounts, <<k, u>>) # 0
  BY <1>1, <1>4, <1>5, <1>6, <1>7, <1>8
<1>10. /\ k \in DOMAIN globalCounts /\ Get(globalCounts, k) = globalCounts[k]
      /\ <<k, u>> \in DOMAIN userCounts
      /\ Get(userCounts, <<k, u>>) = userCounts[<<k, u>>]
  BY <1>9 DEF Get
<1>11. /\ userCounts[<<k, u>>] - n = Cardinality(Promise!Units(B \ {r}, res))
       /\ globalCounts[k] - n = Cardinality(Promise!Units(O \ {r}, res))
  <2>1. Cardinality(Promise!Units(O, res)) =
            Cardinality(Promise!Units(O \ {r}, res)) + n
    BY <1>4, <1>6
  <2>2. Cardinality(Promise!Units(B, res)) =
            Cardinality(Promise!Units(B \ {r}, res)) + n
    BY <1>5, <1>6
  <2>3. /\ globalCounts[k] = Cardinality(Promise!Units(O, res))
        /\ userCounts[<<k, u>>] = Cardinality(Promise!Units(B, res))
    BY <1>8, <1>10, Zenon
  <2> QED
    BY <1>1, <1>7, <2>1, <2>2, <2>3
<1> QED
  BY <1>1, <1>10, <1>11, Zenon DEF O, B, k, u, n

\* reserve keeps the counters exact.
LEMMA ReserveExact ==
    ASSUME TypeOK, CountsExact, NEW r \in Reservations, NEW k \in Kinds,
           NEW u \in Users, NEW n \in 1 .. MaxAmount, Reserve(r, k, u, n)
    PROVE  TypeOK' /\ CountsExact'
<1> DEFINE rec == [state |-> "held", kind |-> k, user |-> u, amount |-> n]
<1>1. /\ res' = [res EXCEPT ![r] = rec]
      /\ res \in [Reservations -> Promise!Reservation]
      /\ res[r].state = "none"
      /\ n \in Nat \ {0} /\ n \in 0 .. MaxAmount
      /\ rec \in Promise!Reservation
  BY QuotaFinite DEF TypeOK, Reserve, Promise!Reservation
<1>2. /\ \A x \in Reservations : x # r => res'[x] = res[x]
      /\ res'[r].state = "held" /\ res'[r].kind = k /\ res'[r].user = u
      /\ res'[r].amount = n
      /\ res' \in [Reservations -> Promise!Reservation]
  BY <1>1
<1>3. /\ userCounts' = With(userCounts, <<k, u>>, Get(userCounts, <<k, u>>) + n)
      /\ globalCounts' = With(globalCounts, k, Get(globalCounts, k) + n)
  BY DEF Reserve
<1> HIDE DEF rec
<1>4. CountsExact'
  <2> SUFFICES ASSUME NEW q \in Kinds, NEW v \in Users
               PROVE  /\ Get(globalCounts', q) = Promise!Used(q)'
                      /\ Get(userCounts', <<q, v>>) = Promise!UsedBy(q, v)'
    BY DEF CountsExact
  <2> DEFINE O == Promise!Outstanding(q)
             B == Promise!OutstandingBy(q, v)
  <2>1. /\ O \in SUBSET Reservations /\ r \notin O
        /\ B \in SUBSET Reservations /\ r \notin B
    BY <1>1 DEF Promise!Outstanding, Promise!OutstandingBy
  <2>2. /\ Get(globalCounts, q) = Cardinality(Promise!Units(O, res))
        /\ Get(userCounts, <<q, v>>) = Cardinality(Promise!Units(B, res))
    BY UsedIsCardinality DEF CountsExact
  <2>3. /\ O' = IF q = k THEN O \cup {r} ELSE O
        /\ B' = IF q = k /\ v = u THEN B \cup {r} ELSE B
    BY <1>1, <1>2 DEF Promise!Outstanding, Promise!OutstandingBy
  <2>4. /\ Promise!Used(q)' = Cardinality(Promise!Units(O', res'))
        /\ Promise!UsedBy(q, v)' = Cardinality(Promise!Units(B', res'))
    BY UsedIsCardinality
  <2>5. /\ Get(globalCounts', q) =
              IF q = k THEN Get(globalCounts, k) + n ELSE Get(globalCounts, q)
        /\ Get(userCounts', <<q, v>>) =
              IF <<q, v>> = <<k, u>> THEN Get(userCounts, <<k, u>>) + n
                                     ELSE Get(userCounts, <<q, v>>)
    BY <1>3, GetWith
  <2> HIDE DEF O, B
  <2>6. \A x \in O : res'[x].amount = res[x].amount
    BY <1>2, <2>1
  <2>7. \A x \in B : res'[x].amount = res[x].amount
    BY <1>2, <2>1
  <2>8. n \in 0 .. MaxAmount /\ res'[r].amount = n
    BY <1>1, <1>2
  <2>9. /\ Cardinality(Promise!Units(O \cup {r}, res')) =
              Cardinality(Promise!Units(O, res)) + n
        /\ Promise!Units(O, res') = Promise!Units(O, res)
        /\ Cardinality(Promise!Units(B \cup {r}, res')) =
              Cardinality(Promise!Units(B, res)) + n
        /\ Promise!Units(B, res') = Promise!Units(B, res)
    <3>1. Cardinality(Promise!Units(O \cup {r}, res')) =
              Cardinality(Promise!Units(O, res)) + n
      BY <2>1, <2>6, <2>8, UnitsOfOneMore
    <3>2. Cardinality(Promise!Units(B \cup {r}, res')) =
              Cardinality(Promise!Units(B, res)) + n
      BY <2>1, <2>7, <2>8, UnitsOfOneMore
    <3>3. /\ Promise!Units(O, res') = Promise!Units(O, res)
          /\ Promise!Units(B, res') = Promise!Units(B, res)
      BY <2>1, <2>6, <2>7, UnitsUnchanged, Zenon
    <3> QED
      BY <3>1, <3>2, <3>3
  <2>10. Get(globalCounts', q) = Promise!Used(q)'
    BY <1>2, <2>2, <2>3, <2>4, <2>5, <2>9
  <2>11. Get(userCounts', <<q, v>>) = Promise!UsedBy(q, v)'
    BY <1>2, <2>2, <2>3, <2>4, <2>5, <2>9
  <2> QED
    BY <2>10, <2>11
<1>5. Get(userCounts, <<k, u>>) \in Nat /\ Get(globalCounts, k) \in Nat
  BY DEF TypeOK, Get
<1>6. /\ DOMAIN globalCounts' \subseteq Kinds
      /\ \A x \in DOMAIN globalCounts' : globalCounts'[x] \in Nat \ {0}
  <2>1. Get(globalCounts, k) + n \in Nat /\ Get(globalCounts, k) + n # 0
    BY <1>1, <1>5
  <2> QED
    BY <1>3, <2>1, StoreShape DEF TypeOK
<1>7. /\ DOMAIN userCounts' \subseteq Kinds \X Users
      /\ \A x \in DOMAIN userCounts' : userCounts'[x] \in Nat \ {0}
  <2>1. Get(userCounts, <<k, u>>) + n \in Nat /\ Get(userCounts, <<k, u>>) + n # 0
    BY <1>1, <1>5
  <2>2. <<k, u>> \in Kinds \X Users
    OBVIOUS
  <2> QED
    BY <1>3, <2>1, <2>2, StoreShape DEF TypeOK
<1> QED
  BY <1>1, <1>2, <1>4, <1>6, <1>7 DEF TypeOK

\* _release keeps the counters exact.
LEMMA ReleaseExact ==
    ASSUME TypeOK, CountsExact, NEW r \in Reservations, Release(r)
    PROVE  TypeOK' /\ CountsExact'
<1> DEFINE kr == res[r].kind
           ur == res[r].user
           n == res[r].amount
           mine == Cardinality(Promise!Units(Promise!OutstandingBy(kr, ur) \ {r}, res))
           all == Cardinality(Promise!Units(Promise!Outstanding(kr) \ {r}, res))
<1>1. /\ res' = [res EXCEPT ![r].state = "released"]
      /\ res \in [Reservations -> Promise!Reservation]
      /\ res[r].state = "held"
  BY DEF TypeOK, Release
<1>2. /\ kr \in Kinds /\ ur \in Users /\ n \in Nat \ {0}
      /\ userCounts[<<kr, ur>>] - n = mine
      /\ globalCounts[kr] - n = all
  BY <1>1, HeldIsCounted, Zenon
<1>3. mine \in Nat /\ all \in Nat
  BY UnitsFinite DEF Promise!OutstandingBy, Promise!Outstanding
<1>4. /\ userCounts' = StoreOrDelete(userCounts, <<kr, ur>>, userCounts[<<kr, ur>>] - n)
      /\ globalCounts' = StoreOrDelete(globalCounts, kr, globalCounts[kr] - n)
  BY Zenon DEF Release
<1>5. /\ userCounts' = StoreOrDelete(userCounts, <<kr, ur>>, mine)
      /\ globalCounts' = StoreOrDelete(globalCounts, kr, all)
  BY <1>2, <1>4, Zenon
<1>6. /\ \A x \in Reservations : x # r => res'[x] = res[x]
      /\ \A x \in Reservations : res'[x].amount = res[x].amount
      /\ res'[r].state = "released"
      /\ \A x \in Reservations :
            res'[x].kind = res[x].kind /\ res'[x].user = res[x].user
      /\ res' \in [Reservations -> Promise!Reservation]
  BY <1>1 DEF Promise!Reservation
<1>7. CountsExact'
  <2> HIDE DEF kr, ur, n, mine, all
  <2> SUFFICES ASSUME NEW q \in Kinds, NEW v \in Users
               PROVE  /\ Get(globalCounts', q) = Promise!Used(q)'
                      /\ Get(userCounts', <<q, v>>) = Promise!UsedBy(q, v)'
    BY QuotaFinite DEF CountsExact
  <2> DEFINE O == Promise!Outstanding(q)
             B == Promise!OutstandingBy(q, v)
  <2>1. /\ O' = IF q = kr THEN O \ {r} ELSE O
        /\ B' = IF <<q, v>> = <<kr, ur>> THEN B \ {r} ELSE B
        /\ O' \in SUBSET Reservations
        /\ B' \in SUBSET Reservations
    BY <1>1, <1>6 DEF Promise!Outstanding, Promise!OutstandingBy, kr, ur
  <2>2. /\ Get(globalCounts, q) = Cardinality(Promise!Units(O, res))
        /\ Get(userCounts, <<q, v>>) = Cardinality(Promise!Units(B, res))
        /\ Promise!Used(q)' = Cardinality(Promise!Units(O', res'))
        /\ Promise!UsedBy(q, v)' = Cardinality(Promise!Units(B', res'))
    BY UsedIsCardinality DEF CountsExact
  <2>3. /\ \A x \in O' : res'[x].amount = res[x].amount
        /\ \A x \in B' : res'[x].amount = res[x].amount
    BY <1>6, <2>1
  <2>4. /\ Promise!Units(O', res') = Promise!Units(O', res)
        /\ Promise!Units(B', res') = Promise!Units(B', res)
    BY <2>1, <2>3, UnitsUnchanged, Zenon
  <2>5. /\ Get(globalCounts', q) = IF q = kr THEN all ELSE Get(globalCounts, q)
        /\ Get(userCounts', <<q, v>>) =
              IF <<q, v>> = <<kr, ur>> THEN mine ELSE Get(userCounts, <<q, v>>)
    BY <1>5, GetStore
  <2>6. /\ q = kr => all = Cardinality(Promise!Units(O \ {r}, res))
        /\ <<q, v>> = <<kr, ur>> => mine = Cardinality(Promise!Units(B \ {r}, res))
    BY DEF mine, all
  <2> HIDE DEF O, B
  <2>7. Get(globalCounts', q) = Promise!Used(q)'
    BY <2>1, <2>2, <2>4, <2>5, <2>6
  <2>8. Get(userCounts', <<q, v>>) = Promise!UsedBy(q, v)'
    BY <2>1, <2>2, <2>4, <2>5, <2>6
  <2> QED
    BY <2>7, <2>8
<1> HIDE DEF kr, ur, mine, all
<1>8. /\ DOMAIN globalCounts' \subseteq Kinds
      /\ \A x \in DOMAIN globalCounts' : globalCounts'[x] \in Nat \ {0}
  <2>1. /\ DOMAIN globalCounts \subseteq Kinds
        /\ \A x \in DOMAIN globalCounts : globalCounts[x] \in Nat \ {0}
    BY DEF TypeOK
  <2>2. kr \in Kinds
    BY <1>2
  <2> QED
    BY <1>3, <1>5, <2>1, <2>2, StoreShape
<1>9. /\ DOMAIN userCounts' \subseteq Kinds \X Users
      /\ \A x \in DOMAIN userCounts' : userCounts'[x] \in Nat \ {0}
  <2>1. <<kr, ur>> \in Kinds \X Users
    BY <1>2
  <2> QED
    BY <1>3, <1>5, <2>1, StoreShape DEF TypeOK
<1>10. \A x \in Reservations : res'[x].state # "none" => res'[x].amount # 0
  BY <1>1, <1>6 DEF TypeOK
<1> QED
  BY <1>6, <1>7, <1>8, <1>9, <1>10 DEF TypeOK

\* A refusal changes no counter and no outstanding reservation.
LEMMA ExceededExact ==
    ASSUME TypeOK, CountsExact, NEW r \in Reservations, NEW k \in Kinds,
           NEW u \in Users, NEW n \in 1 .. MaxAmount, Exceeded(r, k, u, n)
    PROVE  TypeOK' /\ CountsExact'
<1> DEFINE rec == [state |-> "refused", kind |-> k, user |-> u, amount |-> n]
<1>1. /\ res' = [res EXCEPT ![r] = rec]
      /\ res \in [Reservations -> Promise!Reservation]
      /\ res[r].state = "none"
      /\ n \in Nat \ {0}
      /\ rec \in Promise!Reservation
      /\ userCounts' = userCounts /\ globalCounts' = globalCounts
  BY QuotaFinite DEF TypeOK, Exceeded, Promise!Reservation
<1>2. /\ \A x \in Reservations : x # r => res'[x] = res[x]
      /\ res'[r].state = "refused" /\ res'[r].amount = n
      /\ res' \in [Reservations -> Promise!Reservation]
  BY <1>1
<1>3. CountsExact'
  <2> SUFFICES ASSUME NEW q \in Kinds, NEW v \in Users
               PROVE  /\ Get(globalCounts', q) = Promise!Used(q)'
                      /\ Get(userCounts', <<q, v>>) = Promise!UsedBy(q, v)'
    BY DEF CountsExact
  <2> DEFINE O == Promise!Outstanding(q)
             B == Promise!OutstandingBy(q, v)
  <2>1. O' = O /\ B' = B
    BY <1>1, <1>2 DEF Promise!Outstanding, Promise!OutstandingBy
  <2>2. /\ O \in SUBSET Reservations /\ B \in SUBSET Reservations
        /\ \A x \in O : res'[x].amount = res[x].amount
        /\ \A x \in B : res'[x].amount = res[x].amount
    BY <1>1, <1>2 DEF Promise!Outstanding, Promise!OutstandingBy
  <2>3. /\ Promise!Units(O, res') = Promise!Units(O, res)
        /\ Promise!Units(B, res') = Promise!Units(B, res)
    BY <2>2, UnitsUnchanged, Zenon
  <2>4. /\ Get(globalCounts, q) = Cardinality(Promise!Units(O, res))
        /\ Get(userCounts, <<q, v>>) = Cardinality(Promise!Units(B, res))
        /\ Promise!Used(q)' = Cardinality(Promise!Units(O', res'))
        /\ Promise!UsedBy(q, v)' = Cardinality(Promise!Units(B', res'))
    BY UsedIsCardinality DEF CountsExact
  <2> HIDE DEF O, B
  <2> QED
    BY <1>1, <2>1, <2>3, <2>4
<1> QED
  BY <1>1, <1>2, <1>3 DEF TypeOK

\* Nothing is outstanding and nothing counted at the start.
LEMMA InitExact == Init => TypeOK /\ CountsExact
<1> SUFFICES ASSUME Init PROVE TypeOK /\ CountsExact
  OBVIOUS
<1>1. NoReservation \in Promise!Reservation /\ NoReservation.state = "none"
  BY QuotaFinite DEF NoReservation, Promise!Reservation
<1>2. \A r \in Reservations : res[r].state = "none"
  BY <1>1 DEF Init
<1>3. TypeOK
  BY <1>1, <1>2 DEF Init, TypeOK
<1>4. ASSUME NEW k \in Kinds, NEW u \in Users
      PROVE  /\ Get(globalCounts, k) = Promise!Used(k)
             /\ Get(userCounts, <<k, u>>) = Promise!UsedBy(k, u)
  <2>1. Promise!Outstanding(k) = {} /\ Promise!OutstandingBy(k, u) = {}
    BY <1>2 DEF Promise!Outstanding, Promise!OutstandingBy
  <2>2. Promise!Units({}, res) = {}
    BY DEF Promise!Units
  <2>3. Promise!Used(k) = 0 /\ Promise!UsedBy(k, u) = 0
    BY <2>1, <2>2, UsedIsCardinality, FS_EmptySet
  <2>4. Get(globalCounts, k) = 0 /\ Get(userCounts, <<k, u>>) = 0
    BY DEF Init, Get
  <2> QED
    BY <2>3, <2>4
<1> QED
  BY <1>3, <1>4, QuotaFinite DEF CountsExact

\* Every step keeps the invariant.
LEMMA NextExact == TypeOK /\ CountsExact /\ [Next]_quotaVars => TypeOK' /\ CountsExact'
<1> SUFFICES ASSUME TypeOK, CountsExact, [Next]_quotaVars
             PROVE  TypeOK' /\ CountsExact'
  OBVIOUS
<1>1. CASE UNCHANGED quotaVars
  BY <1>1 DEF quotaVars, TypeOK, Promise!Used, Promise!UsedBy, Promise!Outstanding,
     Promise!OutstandingBy, CountsExact
<1>2. ASSUME NEW r \in Reservations, Release(r)
      PROVE  TypeOK' /\ CountsExact'
  BY <1>2, ReleaseExact
<1>3. ASSUME NEW r \in Reservations, NEW k \in Kinds, NEW u \in Users,
             NEW n \in 1 .. MaxAmount, Reserve(r, k, u, n)
      PROVE  TypeOK' /\ CountsExact'
  BY <1>3, ReserveExact
<1>4. ASSUME NEW r \in Reservations, NEW k \in Kinds, NEW u \in Users,
             NEW n \in 1 .. MaxAmount, Exceeded(r, k, u, n)
      PROVE  TypeOK' /\ CountsExact'
  BY <1>4, ExceededExact
<1> QED
  BY <1>1, <1>2, <1>3, <1>4, Zenon DEF Next, ReleaseAgain

\* The counters always equal the units of the reservations outstanding, so
\* _release never misses its key, whatever the number of users, reservations
\* and releases.
THEOREM CountersNeverDrift == Spec => [](TypeOK /\ CountsExact)
BY InitExact, NextExact, PTL DEF Spec

----------------------------------------------------------------------------
(* The limits.                                                             *)

\* WithinLimits, read off the counters.
CountsWithinLimits ==
    \A k \in Kinds :
        /\ Get(globalCounts, k) <= Global[k]
        /\ \A u \in Users : Get(userCounts, <<k, u>>) <= PerUser[k]

\* No step takes a counter over its limit: reserve is the only one that adds.
LEMMA LimitsKept ==
    ASSUME TypeOK, CountsExact, CountsWithinLimits, [Next]_quotaVars
    PROVE  CountsWithinLimits'
<1> USE QuotaLimits
<1>1. \A k \in Kinds, u \in Users :
        Get(globalCounts, k) \in Nat /\ Get(userCounts, <<k, u>>) \in Nat
  BY DEF TypeOK, Get
<1>2. ASSUME NEW r \in Reservations, NEW k \in Kinds, NEW u \in Users,
             NEW n \in 1 .. MaxAmount, Reserve(r, k, u, n)
      PROVE  CountsWithinLimits'
  BY <1>2, GetWith DEF CountsWithinLimits, Reserve, Admits
<1>3. ASSUME NEW r \in Reservations, Release(r)
      PROVE  CountsWithinLimits'
  <2> DEFINE kr == res[r].kind
             ur == res[r].user
             n == res[r].amount
  <2>1. /\ res[r].state = "held"
        /\ userCounts' = StoreOrDelete(userCounts, <<kr, ur>>,
                                       userCounts[<<kr, ur>>] - n)
        /\ globalCounts' = StoreOrDelete(globalCounts, kr, globalCounts[kr] - n)
    BY <1>3, Zenon DEF Release
  <2>2. /\ kr \in Kinds /\ ur \in Users /\ n \in Nat \ {0}
        /\ kr \in DOMAIN globalCounts /\ <<kr, ur>> \in DOMAIN userCounts
    BY <2>1, HeldIsCounted, Zenon
  <2>3. /\ Get(globalCounts, kr) = globalCounts[kr]
        /\ Get(userCounts, <<kr, ur>>) = userCounts[<<kr, ur>>]
    BY <2>2 DEF Get
  <2> HIDE DEF kr, ur, n
  <2> SUFFICES ASSUME NEW q \in Kinds, NEW v \in Users
               PROVE  /\ Get(globalCounts', q) <= Global[q]
                      /\ Get(userCounts', <<q, v>>) <= PerUser[q]
    BY QuotaFinite DEF CountsWithinLimits
  <2>4. /\ Get(globalCounts', q) =
              IF q = kr THEN globalCounts[kr] - n ELSE Get(globalCounts, q)
        /\ Get(userCounts', <<q, v>>) =
              IF <<q, v>> = <<kr, ur>> THEN userCounts[<<kr, ur>>] - n
                                       ELSE Get(userCounts, <<q, v>>)
    BY <2>1, GetStore
  <2>5. Get(globalCounts', q) <= Get(globalCounts, q)
    BY <1>1, <2>2, <2>3, <2>4
  <2>6. Get(userCounts', <<q, v>>) <= Get(userCounts, <<q, v>>)
    BY <1>1, <2>2, <2>3, <2>4
  <2>7. Get(globalCounts', q) \in Int /\ Get(userCounts', <<q, v>>) \in Int
    BY <1>1, <2>2, <2>3, <2>4
  <2> QED
    BY <1>1, <2>5, <2>6, <2>7 DEF CountsWithinLimits
<1>4. ASSUME userCounts' = userCounts, globalCounts' = globalCounts
      PROVE  CountsWithinLimits'
  BY <1>4 DEF CountsWithinLimits
<1>5. ASSUME NEW r \in Reservations, NEW k \in Kinds, NEW u \in Users,
             NEW n \in 1 .. MaxAmount, Exceeded(r, k, u, n)
      PROVE  userCounts' = userCounts /\ globalCounts' = globalCounts
  BY <1>5 DEF Exceeded
<1>6. ASSUME UNCHANGED quotaVars
      PROVE  userCounts' = userCounts /\ globalCounts' = globalCounts
  BY <1>6 DEF quotaVars
<1> QED
  BY <1>2, <1>3, <1>4, <1>5, <1>6, Zenon DEF Next, ReleaseAgain

\* Empty counters are within every limit.
LEMMA InitWithinLimits == Init => CountsWithinLimits
BY QuotaLimits DEF Init, CountsWithinLimits, Get

\* Exact counters within the limits: so are the units outstanding, and a fair
\* slot kind is never exhausted by one user.
LEMMA CountsGiveLimits ==
    ASSUME TypeOK, CountsExact, CountsWithinLimits
    PROVE  WithinLimits /\ NoMonopoly
<1>1. WithinLimits
  BY DEF CountsExact, CountsWithinLimits, WithinLimits
<1>2. NoMonopoly
  <2> SUFFICES ASSUME NEW k \in FairSlotKinds, NEW u \in Users, NEW v \in Users,
                      u # v, Promise!Outstanding(k) = Promise!OutstandingBy(k, u)
               PROVE  Admits(k, v, 1)
    BY DEF NoMonopoly
  <2>1. k \in Kinds /\ PerUser[k] < Global[k] /\ PerUser[k] \in Nat \ {0}
        /\ Global[k] \in Nat
    BY QuotaLimits
  <2>2. Promise!Used(k) = Promise!UsedBy(k, u)
    BY UsedIsCardinality
  <2>3. Get(globalCounts, k) <= PerUser[k]
    BY <2>1, <2>2 DEF CountsExact, CountsWithinLimits
  <2>4. Get(globalCounts, k) \in Nat
    BY DEF TypeOK, Get
  <2>5. Promise!OutstandingBy(k, v) = {}
    BY DEF Promise!OutstandingBy
  <2>6. Get(userCounts, <<k, v>>) = 0
    <3>1. Promise!Units({}, res) = {}
      BY DEF Promise!Units
    <3>2. Promise!UsedBy(k, v) = 0
      BY <2>5, <3>1, UsedIsCardinality, FS_EmptySet
    <3> QED
      BY <2>1, <3>2 DEF CountsExact
  <2> QED
    BY <2>1, <2>3, <2>4, <2>6 DEF Admits
<1> QED
  BY <1>1, <1>2

\* Neither limit of a kind is ever exceeded by what is outstanding.
THEOREM LimitsHold == Spec => []WithinLimits
<1>1. Init => TypeOK /\ CountsExact /\ CountsWithinLimits
  BY InitExact, InitWithinLimits
<1>2. TypeOK /\ CountsExact /\ CountsWithinLimits /\ [Next]_quotaVars
        => (TypeOK /\ CountsExact /\ CountsWithinLimits)'
  BY NextExact, LimitsKept
<1>3. TypeOK /\ CountsExact /\ CountsWithinLimits => WithinLimits
  BY CountsGiveLimits
<1> QED
  BY <1>1, <1>2, <1>3, PTL DEF Spec

\* One user alone never shuts another one out of a fair slot kind.
THEOREM NobodyMonopolizes == Spec => []NoMonopoly
<1>1. Init => TypeOK /\ CountsExact /\ CountsWithinLimits
  BY InitExact, InitWithinLimits
<1>2. TypeOK /\ CountsExact /\ CountsWithinLimits /\ [Next]_quotaVars
        => (TypeOK /\ CountsExact /\ CountsWithinLimits)'
  BY NextExact, LimitsKept
<1>3. TypeOK /\ CountsExact /\ CountsWithinLimits => NoMonopoly
  BY CountsGiveLimits
<1> QED
  BY <1>1, <1>2, <1>3, PTL DEF Spec

----------------------------------------------------------------------------
(* Refinement.                                                             *)

\* With exact counters, every step of the manager is one of the promise.
LEMMA StepKeepsPromise ==
    ASSUME TypeOK, CountsExact, [Next]_quotaVars
    PROVE  [Promise!Next]_res
<1>1. ASSUME NEW k \in Kinds, NEW u \in Users, NEW n
      PROVE  Admits(k, u, n) <=> Promise!Fits(k, u, n)
  BY DEF CountsExact, Admits, Promise!Fits
<1>2. ASSUME NEW r \in Reservations, NEW k \in Kinds, NEW u \in Users,
             NEW n \in 1 .. MaxAmount, Reserve(r, k, u, n)
      PROVE  Promise!Grant(r, k, u, n)
  BY <1>1, <1>2 DEF Reserve, Promise!Grant, Promise!Asked
<1>3. ASSUME NEW r \in Reservations, NEW k \in Kinds, NEW u \in Users,
             NEW n \in 1 .. MaxAmount, Exceeded(r, k, u, n)
      PROVE  Promise!Refuse(r, k, u, n)
  BY <1>1, <1>3 DEF Exceeded, Promise!Refuse, Promise!Asked
<1>4. ASSUME NEW r \in Reservations, Release(r)
      PROVE  Promise!GiveBack(r)
  BY <1>4, Zenon DEF Release, Promise!GiveBack
<1>5. ASSUME UNCHANGED quotaVars
      PROVE  UNCHANGED res
  BY <1>5 DEF quotaVars
<1> QED
  BY <1>2, <1>3, <1>4, <1>5, Zenon DEF Next, Promise!Next, ReleaseAgain

\* What QuotaManager keeps true for any users, kinds, limits, amounts and
\* number of releases.
THEOREM QuotaIsSafe == Spec => []QuotaSafe
<1>1. TypeOK /\ CountsExact /\ WithinLimits /\ NoMonopoly => QuotaSafe
  BY DEF QuotaSafe
<1>2. QED
  BY <1>1, CountersNeverDrift, LimitsHold, NobodyMonopolizes, PTL

\* The counters implement the promise: a reservation is given or refused
\* exactly as the sum over the outstanding reservations requires.
THEOREM PromiseKept == Spec => ImplementsPromise
<1>1. Init => Promise!Init
  BY QuotaFinite DEF NoReservation, Promise!Reservation, Init, Promise!Init
<1>2. TypeOK /\ CountsExact /\ [Next]_quotaVars => [Promise!Next]_res
  BY StepKeepsPromise
<1> QED
  BY <1>1, <1>2, CountersNeverDrift, PTL DEF Spec, ImplementsPromise, Promise!Spec

=============================================================================
