-------------------------- MODULE ConnectionProofs --------------------------
(***************************************************************************)
(* Safety of the browser's connection attempts (ConnectionAttempts), for   *)
(* any requests, reconnects and persistent sessions, any number of actions *)
(* of the user and of lost sockets.                                        *)
(*                                                                         *)
(* The page and the server agree when nothing is under way.  What is under *)
(* way is in the two queues of messages, so that the invariant says of the *)
(* queues what they will bring about: a message is in one (In), only once  *)
(* (Once), and another comes before it or after it (Preceded, Followed).   *)
(* Each handler takes the first message of a queue or adds a last one, and *)
(* leaves what concerns messages of other classes (Alike).                 *)
(***************************************************************************)
EXTENDS ConnectionAttempts, FiniteSetTheorems, TLAPS

----------------------------------------------------------------------------
(* Queues of messages.                                                     *)

\* A message of X is in the queue; each one of X has one of Y after, or before it;
\* there is one of X at most.
In(q, X) == \E i \in 1 .. Len(q) : q[i] \in X
Followed(q, X, Y) == \A i \in 1 .. Len(q) : q[i] \in X => \E j \in 1 .. Len(q) : i < j /\ q[j] \in Y
Preceded(q, X, Y) == \A i \in 1 .. Len(q) : q[i] \in X => \E j \in 1 .. Len(q) : j < i /\ q[j] \in Y
Once(q, X) == \A i, j \in 1 .. Len(q) : q[i] \in X /\ q[j] \in X => i = j

\* The messages on the way after n actions of the user.
Numbers == 0 .. MaxActs
ToServer(n) == [type : {"connect", "discard", "accept", "decline"}, id : Reqs, nr : {0}]
                   \cup [type : {"disconnect"}, id : Ids, nr : {0}]
                   \cup [type : {"cancel"}, id : Reqs, nr : 1 .. n]
Verdicts == {"cancelled", "already_committed", "not_found"}
ToClient(n) == [type : {"connected", "error", "banner"}, id : Reqs]
                   \cup [type : {"restored", "disconnected"}, id : Ids]
                   \cup [type : {"candidate"}, id : Candidates]
                   \cup [type : {"ack"}, id : Reqs, nr : 1 .. n, answer : Verdicts]

S(t, r) == {m \in ToServer(MaxActs) : m.type = t /\ m.id = r}
C(t, r) == {m \in ToClient(MaxActs) : m.type = t /\ m.id = r}
Ack(r, a) == {m \in C("ack", r) : m.answer = a}
Outcome(r) == C("error", r) \cup Ack(r, "cancelled")   \* the attempt has ended
NotFound(r, n) == {m \in Ack(r, "not_found") : m.nr = n}

----------------------------------------------------------------------------
(* The invariant.                                                          *)

Types ==
    /\ TypeOK /\ honoured \subseteq Reqs /\ acts \in Numbers
    /\ toServer \in Seq(ToServer(acts)) /\ toClient \in Seq(ToClient(acts))
    /\ \A r \in Reqs : closure[r] <= acts
    /\ \A r \in Reconnects : r \in timers => attempt[r] = "idle"
    /\ link = "down" => toClient = <<>> /\ asked = {} /\ banner = None /\ discarded = {}

\* What the browser shows, the server runs, and the queues will bring about.
Arriving(s) == In(toClient, C("connected", s)) \/ In(toClient, C("restored", s))
Leaving(s) == In(toServer, S("disconnect", s)) \/ In(toServer, S("discard", s))
Ending(s) == In(toClient, C("disconnected", s))

SessionInv ==
    /\ \A r \in Reqs : attempt[r] # "recorded" =>
          sessions[r] = "none" /\ r \notin live /\ r \notin discarded /\ ~Arriving(r) /\ ~Ending(r)
    /\ \A s \in Ids : Ending(s) => s \notin live
    /\ \A s \in Ids \ missed :
          /\ sessions[s] = "connected" => s \in live \/ Ending(s)
          /\ s \in live => sessions[s] = "connected" \/ Arriving(s) \/ Leaving(s)
          /\ s \notin live => /\ Followed(toClient, C("connected", s), C("disconnected", s))
                              /\ Followed(toClient, C("restored", s), C("disconnected", s))
    /\ \A r \in Reqs : In(toClient, C("connected", r)) =>
          /\ sessions[r] = "none" /\ r \notin discarded
          /\ ~In(toClient, C("restored", r)) /\ Once(toClient, C("connected", r))
    /\ \A r \in discarded : sessions[r] # "connected" /\ ~Arriving(r)

\* An attempt that is pending in the browser, and its request on the way.
PendingInv ==
    /\ paneMap \subseteq {current}
    /\ \A r \in Reqs : attempt[r] = "idle" =>
          /\ ~StillPending(r) /\ r \notin cancelled
          /\ ~In(toServer, S("cancel", r)) /\ ~In(toClient, C("ack", r))
    /\ \A r \in Reqs : StillPending(r) =>
          /\ attempt[r] = "asking" \/ r \in asked
          /\ attempt[r] = "recorded" => In(toClient, C("connected", r))
    /\ \A r \in cancelled : ~StillPending(r)
    /\ \A r \in Reqs : attempt[r] = "asking" <=> In(toServer, S("connect", r))
    /\ \A r \in Reqs : /\ Once(toServer, S("connect", r))
                       /\ attempt[r] = "asking" => Preceded(toServer, S("cancel", r), S("connect", r))

\* What the answer to a cancellation means when it arrives.
Dead(r) == attempt[r] \in {"failed", "cancelled"}

CancelInv ==
    /\ \A r \in honoured : Dead(r)
    /\ \A r \in Reqs : In(toClient, Ack(r, "cancelled")) => attempt[r] = "cancelled"
    /\ \A r \in Reqs : StillPending(r) /\ r \notin completed /\ ~Dead(r) /\ closure[r] # 0 =>
          Preceded(toClient, NotFound(r, closure[r]), C("connected", r))

\* A banner question, from the server's prompt to the answer.
Shown(r) == In(toClient, C("banner", r)) \/ banner = r
Decided(r) == In(toServer, S("accept", r)) \/ In(toServer, S("decline", r))

BannerInv ==
    /\ \A r \in prompts : attempt[r] = "running"
    /\ \A r \in Reqs : Shown(r) => /\ attempt[r] \in {"running", "failed", "cancelled"}
                                   /\ r \in asked /\ ~Decided(r)
    /\ \A r \in Reqs : Decided(r) => attempt[r] \notin {"idle", "asking"}
    /\ \A r \in Reqs : attempt[r] = "running" /\ (Shown(r) \/ Decided(r)) => r \in prompts
    /\ \A r \in Reqs : /\ In(toClient, C("banner", r)) => banner # r
                       /\ Once(toClient, C("banner", r))
                       /\ r \notin prompts => Followed(toClient, C("banner", r), Outcome(r))
    /\ banner \in Requests => banner = current
    /\ banner # None /\ banner \notin late \cup prompts =>
          In(toClient, Outcome(banner))

AttemptsInv == Types /\ SessionInv /\ PendingInv /\ CancelInv /\ BannerInv

----------------------------------------------------------------------------
(* Queues.                                                                 *)

\* A queue that is another one but for a message m that was taken or added.
Alike(q, q2, m) ==
    \A X, Y : m \notin X =>
        /\ In(q2, X) <=> In(q, X)
        /\ Once(q, X) => Once(q2, X)
        /\ Followed(q, X, Y) => Followed(q2, X, Y)
        /\ m \notin Y /\ Preceded(q, X, Y) => Preceded(q2, X, Y)

\* A queue nothing happened to.
LEMMA SameIsAlike ==
    ASSUME NEW q, NEW m
    PROVE  Alike(q, q, m)
  BY DEF Alike

\* The empty queue.
LEMMA EmptyQueue ==
    \A X, Y : ~In(<<>>, X) /\ Once(<<>>, X) /\ Followed(<<>>, X, Y) /\ Preceded(<<>>, X, Y)
  BY DEF In, Once, Followed, Preceded

\* The first message of a queue is taken.
LEMMA TakenQueue ==
    ASSUME NEW M, NEW q \in Seq(M), q # <<>>
    PROVE  /\ Head(q) \in M /\ Tail(q) \in Seq(M)
           /\ Alike(q, Tail(q), Head(q))
           /\ \A X : Head(q) \in X => In(q, X)
           /\ \A X : In(Tail(q), X) => In(q, X)
           /\ \A X : Once(q, X) => Once(Tail(q), X)
           /\ \A X : Once(q, X) /\ Head(q) \in X => ~In(Tail(q), X)
           /\ \A X, Y : Followed(q, X, Y) => Followed(Tail(q), X, Y)
           /\ \A X, Y : Followed(q, X, Y) /\ Head(q) \in X => In(Tail(q), Y)
           /\ \A X, Y : Preceded(q, X, Y) => Head(q) \notin X
           /\ \A X, Y : Preceded(q, X, Y) /\ Head(q) \notin Y => Preceded(Tail(q), X, Y)
<1> DEFINE t == Tail(q)
<1>1. /\ Len(q) \in Nat /\ Len(q) > 0 /\ Head(q) = q[1] /\ t \in Seq(M) /\ Len(t) = Len(q) - 1
      /\ \A i \in 1 .. Len(t) : t[i] = q[i + 1]
      /\ q[1] \in M
  OBVIOUS
<1> HIDE DEF t
<1>2. \A X : Head(q) \in X => In(q, X)
  BY <1>1 DEF In
<1>3. \A X : In(t, X) => In(q, X)
  BY <1>1 DEF In
<1>4. \A X : In(q, X) => Head(q) \in X \/ In(t, X)
  <2> SUFFICES ASSUME NEW X, NEW i \in 1 .. Len(q), q[i] \in X, q[1] \notin X
               PROVE  In(t, X)
    BY <1>1 DEF In
  <2>1. i - 1 \in 1 .. Len(t) /\ t[i - 1] = q[i]
    BY <1>1
  <2> QED
    BY <2>1 DEF In
<1>5. \A X : Once(q, X) => Once(t, X)
  BY <1>1 DEF Once
<1>6. \A X : Once(q, X) /\ Head(q) \in X => ~In(t, X)
  BY <1>1 DEF In, Once
<1>7. \A X, Y : Followed(q, X, Y) => Followed(t, X, Y)
  <2> SUFFICES ASSUME NEW X, NEW Y, Followed(q, X, Y), NEW i \in 1 .. Len(t), t[i] \in X
               PROVE  \E j \in 1 .. Len(t) : i < j /\ t[j] \in Y
    BY DEF Followed
  <2>1. i + 1 \in 1 .. Len(q) /\ q[i + 1] \in X
    BY <1>1
  <2>2. PICK j \in 1 .. Len(q) : i + 1 < j /\ q[j] \in Y
    BY <2>1 DEF Followed
  <2>3. j - 1 \in 1 .. Len(t) /\ t[j - 1] = q[j] /\ i < j - 1
    BY <1>1, <2>2
  <2> QED
    BY <2>2, <2>3
<1>8. \A X, Y : Followed(q, X, Y) /\ Head(q) \in X => In(t, Y)
  <2> SUFFICES ASSUME NEW X, NEW Y, Followed(q, X, Y), q[1] \in X
               PROVE  In(t, Y)
    BY <1>1
  <2>1. PICK j \in 1 .. Len(q) : 1 < j /\ q[j] \in Y
    BY <1>1 DEF Followed
  <2>2. j - 1 \in 1 .. Len(t) /\ t[j - 1] = q[j]
    BY <1>1, <2>1
  <2> QED
    BY <2>1, <2>2 DEF In
<1>9. \A X, Y : Preceded(q, X, Y) => Head(q) \notin X
  BY <1>1 DEF Preceded
<1>10. \A X, Y : Preceded(q, X, Y) /\ Head(q) \notin Y => Preceded(t, X, Y)
  <2> SUFFICES ASSUME NEW X, NEW Y, Preceded(q, X, Y), q[1] \notin Y, NEW i \in 1 .. Len(t), t[i] \in X
               PROVE  \E j \in 1 .. Len(t) : j < i /\ t[j] \in Y
    BY <1>1 DEF Preceded
  <2>1. i + 1 \in 1 .. Len(q) /\ q[i + 1] \in X
    BY <1>1
  <2>2. PICK j \in 1 .. Len(q) : j < i + 1 /\ q[j] \in Y
    BY <2>1 DEF Preceded
  <2>3. j # 1
    BY <2>2
  <2>4. j - 1 \in 1 .. Len(t) /\ t[j - 1] = q[j] /\ j - 1 < i
    BY <1>1, <2>2, <2>3
  <2> QED
    BY <2>2, <2>4
<1>11. Alike(q, t, Head(q))
  BY <1>3, <1>4, <1>5, <1>7, <1>10 DEF Alike
<1> QED
  BY <1>1, <1>2, <1>3, <1>5, <1>6, <1>7, <1>8, <1>9, <1>10, <1>11 DEF t

\* A message is added to a queue.
LEMMA LongerQueue ==
    ASSUME NEW M, NEW q \in Seq(M), NEW m \in M
    PROVE  /\ q \o <<m>> \in Seq(M)
           /\ Alike(q, q \o <<m>>, m)
           /\ \A X : In(q \o <<m>>, X) <=> In(q, X) \/ m \in X
           /\ \A X : Once(q, X) /\ ~In(q, X) => Once(q \o <<m>>, X)
           /\ \A X, Y : m \notin X /\ Followed(q, X, Y) => Followed(q \o <<m>>, X, Y)
           /\ \A X, Y : m \notin X /\ m \in Y => Followed(q \o <<m>>, X, Y)
           /\ \A X, Y : Preceded(q, X, Y) /\ (m \notin X \/ In(q, Y)) => Preceded(q \o <<m>>, X, Y)
<1> DEFINE t == q \o <<m>>
<1>1. /\ Len(q) \in Nat /\ t \in Seq(M) /\ Len(t) = Len(q) + 1
      /\ \A i \in 1 .. Len(q) : t[i] = q[i]
      /\ t[Len(q) + 1] = m
  OBVIOUS
<1> HIDE DEF t
<1>a. \A i \in 1 .. Len(t) : i \in 1 .. Len(q) \/ i = Len(q) + 1
  BY <1>1
<1>b. \A i \in 1 .. Len(q) : i \in 1 .. Len(t)
  BY <1>1
<1>2. \A X : In(t, X) <=> In(q, X) \/ m \in X
  BY <1>1, <1>a, <1>b DEF In
<1>3. \A X : (Once(q, X) /\ ~In(q, X)) \/ (Once(q, X) /\ m \notin X) => Once(t, X)
  BY <1>1, <1>a DEF Once, In
<1>4. \A X, Y : m \notin X /\ Followed(q, X, Y) => Followed(t, X, Y)
  BY <1>1, <1>a, <1>b DEF Followed
<1>5. \A X, Y : m \notin X /\ m \in Y => Followed(t, X, Y)
  BY <1>1, <1>a DEF Followed
<1>6. \A X, Y : Preceded(q, X, Y) /\ (m \notin X \/ In(q, Y)) => Preceded(t, X, Y)
  BY <1>1, <1>b, <1>a DEF Preceded, In
<1>7. Alike(q, t, m)
  BY <1>2, <1>3, <1>4, <1>6 DEF Alike
<1> QED
  BY <1>1, <1>2, <1>3, <1>4, <1>5, <1>6, <1>7 DEF t

----------------------------------------------------------------------------
(* Messages.                                                               *)

\* What may be on its way after some actions may be after more.
LEMMA MoreMessages ==
    ASSUME NEW n \in Numbers, NEW k \in Numbers, n <= k
    PROVE  /\ ToServer(n) \subseteq ToServer(k) /\ ToClient(n) \subseteq ToClient(k)
           /\ Seq(ToServer(n)) \subseteq Seq(ToServer(k))
           /\ Seq(ToClient(n)) \subseteq Seq(ToClient(k))
  BY AttemptsAssumption DEF Numbers, ToServer, ToClient

\* The class a message of the browser, or of the server, is in.
LEMMA Classes ==
    ASSUME NEW n \in Numbers
    PROVE  /\ \A t, r : \A m \in ToServer(n) : m \in S(t, r) <=> m.type = t /\ m.id = r
           /\ \A t, r : \A m \in ToClient(n) : m \in C(t, r) <=> m.type = t /\ m.id = r
           /\ \A r, a : \A m \in ToClient(n) : m \in Ack(r, a) <=> m.type = "ack" /\ m.id = r /\ m.answer = a
           /\ \A r, a : \A m \in ToClient(n) :
                  m \in NotFound(r, a) <=> m.type = "ack" /\ m.id = r /\ m.answer = "not_found" /\ m.nr = a
  BY AttemptsAssumption, MoreMessages DEF Numbers, C, Ack, S, NotFound

\* What a message is like, by its type.
LEMMA Fields ==
    ASSUME NEW n \in Numbers
    PROVE  /\ \A m \in ToServer(n) : m.id \in Ids /\ (m.type # "disconnect" => m.id \in Reqs)
           /\ \A m \in ToServer(n) : m.type = "cancel" => m.nr \in 1 .. n
           /\ \A m \in ToClient(n) : m.id \in Ids
           /\ \A m \in ToClient(n) : m.type \in {"connected", "error", "banner", "ack"} => m.id \in Reqs
           /\ \A m \in ToClient(n) : m.type = "candidate" => m.id \in Candidates
           /\ \A m \in ToClient(n) : m.type = "ack" => m.nr \in 1 .. n /\ m.answer \in Verdicts
  BY DEF ToServer, ToClient, Ids

\* The browser takes a message.
LEMMA BrowserTakes ==
    ASSUME Types, NEW t, Take(t)
    PROVE  /\ Head(toClient) \in ToClient(acts) /\ Head(toClient).type = t /\ link = "up"
           /\ toClient \in Seq(ToClient(acts)) /\ toClient # <<>> /\ toClient' = Tail(toClient)
           /\ toClient' \in Seq(ToClient(acts)) /\ Alike(toClient, toClient', Head(toClient))
  BY TakenQueue DEF Types, Take, TypeOK

\* The server takes a message.
LEMMA ServerTakes ==
    ASSUME Types, NEW t, TakeServer(t)
    PROVE  /\ Head(toServer) \in ToServer(acts) /\ Head(toServer).type = t /\ link = "up"
           /\ toServer \in Seq(ToServer(acts)) /\ toServer # <<>> /\ toServer' = Tail(toServer)
           /\ toServer' \in Seq(ToServer(acts)) /\ Alike(toServer, toServer', Head(toServer))
  BY TakenQueue DEF Types, TakeServer

\* The browser sends a message.
LEMMA BrowserSends ==
    ASSUME NEW n \in Numbers, toServer \in Seq(ToServer(n)), NEW m \in ToServer(n), Emit(<<m>>)
    PROVE  /\ toServer' = toServer \o <<m>>
           /\ toServer' \in Seq(ToServer(n)) /\ Alike(toServer, toServer', m)
           /\ \A X : In(toServer', X) <=> In(toServer, X) \/ m \in X
<1>1. toServer' = toServer \o <<m>>
  BY DEF Emit
<1> QED
  BY <1>1, LongerQueue

\* The server sends a message, which is lost while the browser is away.
LEMMA ServerSends ==
    ASSUME Types, NEW m \in ToClient(acts), Tell(<<m>>)
    PROVE  /\ toClient' = IF link = "up" THEN toClient \o <<m>> ELSE toClient
           /\ toClient' \in Seq(ToClient(acts)) /\ Alike(toClient, toClient', m)
           /\ \A X : In(toClient', X) <=> In(toClient, X) \/ (link = "up" /\ m \in X)
<1>1. toClient' = IF link = "up" THEN toClient \o <<m>> ELSE toClient
  BY DEF Tell
<1>2. toClient \in Seq(ToClient(acts))
  BY DEF Types
<1>3. CASE link = "up"
  BY <1>1, <1>3, <1>2, LongerQueue
<1>4. CASE link # "up"
  <2>1. toClient' = toClient
    BY <1>1, <1>4
  <2> QED
    BY <1>2, <1>4, <2>1, SameIsAlike
<1> QED
  BY <1>3, <1>4

\* A queue to which nothing happens is alike whatever message is left out.
Nothing == [type |-> "nothing", id |-> None]

----------------------------------------------------------------------------
(* What leaves a part of the invariant alone.                              *)

\* A step that leaves the sessions, the server's and the browser's, alone.
LEMMA SessionsUntouched ==
    ASSUME Types, SessionInv, NEW m, NEW n,
           Alike(toClient, toClient', m), m.type \notin {"connected", "restored", "disconnected"},
           Alike(toServer, toServer', n), n.type \notin {"disconnect", "discard"},
           \A s \in Ids : sessions'[s] = "connected" <=> sessions[s] = "connected",
           \A r \in Reqs : sessions[r] = "none" => sessions'[r] = "none",
           live' = live, missed' = missed, discarded' \subseteq discarded,
           \A r \in Reqs : attempt'[r] # "recorded" => attempt[r] # "recorded"
    PROVE  SessionInv'
<1>1. \A s : m \notin C("connected", s) /\ m \notin C("restored", s) /\ m \notin C("disconnected", s)
  BY DEF C
<1>2. \A s : n \notin S("disconnect", s) /\ n \notin S("discard", s)
  BY DEF S
<1>3. /\ \A s : Arriving(s)' <=> Arriving(s)
      /\ \A s : Leaving(s)' <=> Leaving(s)
      /\ \A s : Ending(s)' <=> Ending(s)
      /\ \A s : In(toClient, C("connected", s))' <=> In(toClient, C("connected", s))
      /\ \A s : In(toClient, C("restored", s))' <=> In(toClient, C("restored", s))
  BY <1>1, <1>2 DEF Alike, Arriving, Leaving, Ending
<1>4. /\ \A s : Once(toClient, C("connected", s)) => Once(toClient, C("connected", s))'
      /\ \A s : Followed(toClient, C("connected", s), C("disconnected", s)) =>
                    Followed(toClient, C("connected", s), C("disconnected", s))'
      /\ \A s : Followed(toClient, C("restored", s), C("disconnected", s)) =>
                    Followed(toClient, C("restored", s), C("disconnected", s))'
  BY <1>1 DEF Alike
<1>5. discarded \subseteq Reqs /\ Reqs \subseteq Ids
  BY DEF Types, TypeOK, Ids
<1> QED
  BY <1>3, <1>4, <1>5 DEF SessionInv

\* A step that takes up no attempt, ends perhaps some, and leaves requests alone.
LEMMA PendingUntouched ==
    ASSUME Types, PendingInv, NEW m, NEW n,
           Alike(toClient, toClient', m), m.type \notin {"ack", "connected"},
           Alike(toServer, toServer', n), n.type \notin {"cancel", "connect"},
           paneMap' \subseteq {current'}, asked \subseteq asked',
           \A r \in Reqs : StillPending(r)' => StillPending(r),
           \A r \in Reqs : attempt'[r] = "idle" <=> attempt[r] = "idle",
           \A r \in Reqs : attempt'[r] = "asking" <=> attempt[r] = "asking",
           \A r \in Reqs : attempt'[r] = "recorded" => attempt[r] = "recorded",
           cancelled' \subseteq Reqs,
           \A r \in cancelled' \ cancelled : attempt[r] # "idle" /\ ~StillPending(r)'
    PROVE  PendingInv'
<1>1. \A s : m \notin C("ack", s) /\ m \notin C("connected", s)
  BY DEF C
<1>2. \A s : n \notin S("cancel", s) /\ n \notin S("connect", s)
  BY DEF S
<1>3. /\ \A s : In(toClient, C("ack", s))' <=> In(toClient, C("ack", s))
      /\ \A s : In(toClient, C("connected", s))' <=> In(toClient, C("connected", s))
      /\ \A s : In(toServer, S("cancel", s))' <=> In(toServer, S("cancel", s))
      /\ \A s : In(toServer, S("connect", s))' <=> In(toServer, S("connect", s))
  BY <1>1, <1>2 DEF Alike
<1>4. /\ \A s : Once(toServer, S("connect", s)) => Once(toServer, S("connect", s))'
      /\ \A s : Preceded(toServer, S("cancel", s), S("connect", s)) =>
                    Preceded(toServer, S("cancel", s), S("connect", s))'
  BY <1>2 DEF Alike
<1> HIDE DEF StillPending
<1>5. \A r \in Reqs : attempt'[r] = "idle" =>
          /\ ~StillPending(r)' /\ r \notin cancelled'
          /\ ~In(toServer, S("cancel", r))' /\ ~In(toClient, C("ack", r))'
  BY <1>3 DEF PendingInv
<1>6. \A r \in Reqs : StillPending(r)' =>
          /\ attempt'[r] = "asking" \/ r \in asked'
          /\ attempt'[r] = "recorded" => In(toClient, C("connected", r))'
  BY <1>3 DEF PendingInv
<1>7. \A r \in cancelled' : ~StillPending(r)'
  BY DEF PendingInv
<1>8. \A r \in Reqs : /\ attempt'[r] = "asking" <=> In(toServer, S("connect", r))'
                      /\ Once(toServer, S("connect", r))'
                      /\ attempt'[r] = "asking" => Preceded(toServer, S("cancel", r), S("connect", r))'
  BY <1>3, <1>4 DEF PendingInv
<1> QED
  BY <1>5, <1>6, <1>7, <1>8 DEF PendingInv

\* A step that takes up no attempt and leaves cancellations alone.
LEMMA CancelsUntouched ==
    ASSUME Types, CancelInv, NEW m,
           Alike(toClient, toClient', m), m.type \notin {"ack", "connected"},
           honoured' = honoured, closure' = closure, completed \subseteq completed',
           \A r \in Reqs : StillPending(r)' => StillPending(r),
           \A r \in Reqs : Dead(r) => Dead(r)',
           \A r \in Reqs : attempt[r] = "cancelled" => attempt'[r] = "cancelled"
    PROVE  CancelInv'
<1>1. \A s, a : m \notin Ack(s, a) /\ m \notin NotFound(s, a) /\ m \notin C("connected", s)
  BY DEF Ack, NotFound, C
<1>2. /\ \A s, a : In(toClient, Ack(s, a))' <=> In(toClient, Ack(s, a))
      /\ \A s, a : Preceded(toClient, NotFound(s, a), C("connected", s)) =>
                       Preceded(toClient', NotFound(s, a), C("connected", s))
  BY <1>1 DEF Alike
<1>3. honoured \subseteq Reqs
  BY DEF Types
<1> HIDE DEF StillPending, Dead
<1> QED
  BY <1>2, <1>3 DEF CancelInv

\* A step that leaves banner questions, but for one it answers, and the attempts
\* that ask alone.
LEMMA BannersUntouched ==
    ASSUME Types, BannerInv, NEW m, NEW n,
           Alike(toClient, toClient', m), m.type \notin {"banner", "error", "ack"},
           Alike(toServer, toServer', n), n.type \notin {"accept", "decline"},
           prompts' = prompts, banner' \in {banner, None}, late \subseteq late', asked \subseteq asked',
           \A r \in Reqs : attempt'[r] = "running" <=> attempt[r] = "running",
           \A r \in Reqs : Dead(r) => Dead(r)',
           \A r \in Reqs : attempt'[r] \in {"idle", "asking"} => attempt[r] \in {"idle", "asking"},
           banner' \in Requests /\ banner' = current => banner' = current'
    PROVE  BannerInv'
<1>1. \A s : m \notin C("banner", s) /\ m \notin Outcome(s)
  BY DEF Ack, C, Outcome
<1>2. \A s : n \notin S("accept", s) /\ n \notin S("decline", s)
  BY DEF S
<1>3. /\ \A s : In(toClient, C("banner", s))' <=> In(toClient, C("banner", s))
      /\ \A s : In(toClient', Outcome(s))
                    <=> In(toClient, Outcome(s))
      /\ \A s : Decided(s)' <=> Decided(s)
  BY <1>1, <1>2 DEF Alike, Decided
<1>4. /\ \A s : Once(toClient, C("banner", s)) => Once(toClient, C("banner", s))'
      /\ \A s : Followed(toClient, C("banner", s), Outcome(s)) =>
                    Followed(toClient', C("banner", s), Outcome(s))
  BY <1>1 DEF Alike
<1>5. \A s \in Reqs : Shown(s)' => Shown(s)
  BY <1>3, AttemptsAssumption DEF Shown, Ids
<1>6. prompts \subseteq Reqs /\ (banner # None => banner \in Reqs) /\ None \notin Reqs /\ None \notin Requests
  BY AttemptsAssumption DEF Types, TypeOK, Ids, Reqs
<1> HIDE DEF Decided, Shown
<1> QED
  BY <1>3, <1>4, <1>5, <1>6 DEF BannerInv, Dead

----------------------------------------------------------------------------
(* The user.                                                               *)

\* What is not in a queue is preceded and followed by anything.
LEMMA AbsentMessages ==
    ASSUME NEW q, NEW X, ~In(q, X)
    PROVE  Once(q, X) /\ (\A Y : Followed(q, X, Y) /\ Preceded(q, X, Y))
  BY DEF In, Once, Followed, Preceded

\* What is in a queue is one of its messages.
LEMMA PresentMessages ==
    ASSUME NEW M, NEW q \in Seq(M), NEW X, In(q, X)
    PROVE  \E m \in M : m \in X
  BY DEF In

\* An action of the user is counted.
LEMMA ActsAreCounted ==
    ASSUME Types, Act
    PROVE  /\ acts' = acts + 1 /\ acts' \in Numbers /\ acts \in Numbers /\ acts <= acts' /\ acts \in Nat
           /\ toServer \in Seq(ToServer(acts')) /\ toClient \in Seq(ToClient(acts'))
  BY AttemptsAssumption, MoreMessages DEF Types, Act, Numbers

\* The identifiers are what their kinds say.
LEMMA Kinds ==
    /\ None \notin Ids /\ None \notin Reqs /\ None \notin Requests
    /\ Requests \subseteq Reqs /\ Reconnects \subseteq Reqs /\ Reqs \subseteq Ids
    /\ Form \notin Reconnects /\ Candidates \subseteq Ids
    /\ \A r \in Reqs : r \in Requests <=> ~IsReconnect(r)
    /\ \A c \in Candidates : c \notin Reqs
  BY AttemptsAssumption DEF Reqs, Ids, IsReconnect

\* A step of the form: no attempt is taken up, no message sent.
LEMMA FormStep ==
    ASSUME AttemptsInv,
           UNCHANGED <<current, replaces, paneMap, cancelVars, link, toServer, toClient,
                       serverVars, history>>,
           modal' \in {"open", "closed"}, modalRequest' \in Requests \cup {None},
           toReplace' \in Ids \cup {None}, timers' \subseteq timers,
           acts' \in Numbers, acts <= acts',
           sessions' \in [Ids -> {"none", "connected", "disconnected", "candidate"}],
           \A s \in Ids : sessions'[s] = "connected" <=> sessions[s] = "connected",
           \A s \in Ids : sessions[s] = "none" => sessions'[s] = "none"
    PROVE  AttemptsInv'
<1>0. /\ current' = current /\ replaces' = replaces /\ paneMap' = paneMap /\ gateway' = gateway
      /\ banner' = banner /\ closure' = closure /\ completed' = completed /\ cancelled' = cancelled
      /\ discarded' = discarded /\ honoured' = honoured /\ link' = link /\ toServer' = toServer
      /\ toClient' = toClient /\ attempt' = attempt /\ asked' = asked /\ prompts' = prompts
      /\ live' = live /\ missed' = missed /\ late' = late
  BY DEF cancelVars, serverVars, history
<1>1. Types
  BY DEF AttemptsInv
<1>2. toServer' \in Seq(ToServer(acts')) /\ toClient' \in Seq(ToClient(acts'))
  BY <1>0, <1>1, MoreMessages DEF Types
<1>a. acts \in Nat /\ acts' \in Nat
  BY <1>1, AttemptsAssumption DEF Types, Numbers
<1>3. TypeOK'
  BY <1>0, <1>1 DEF Types, TypeOK
<1>4. \A r \in Reqs : closure'[r] <= acts'
  BY <1>1, <1>0, <1>a DEF Types, TypeOK
<1>5. Types'
  BY <1>0, <1>1, <1>2, <1>3, <1>4 DEF Types
<1>6. /\ Alike(toClient, toClient', Nothing) /\ Alike(toServer, toServer', Nothing)
      /\ Nothing.type = "nothing"
  BY <1>0, SameIsAlike DEF Nothing
<1>7. \A r \in Reqs : StillPending(r)' <=> StillPending(r)
  BY <1>0 DEF StillPending
<1>8. SessionInv'
  BY <1>0, <1>1, <1>6, Kinds, SessionsUntouched DEF AttemptsInv
<1>9. PendingInv'
  BY <1>1, <1>0, <1>6, <1>7, PendingUntouched DEF AttemptsInv, PendingInv, Types, TypeOK
<1>10. CancelInv'
  BY <1>0, <1>1, <1>6, <1>7, CancelsUntouched DEF AttemptsInv, Dead
<1>11. BannerInv'
  BY <1>0, <1>1, <1>6, BannersUntouched DEF AttemptsInv, Dead
<1> QED
  BY <1>5, <1>8, <1>9, <1>10, <1>11 DEF AttemptsInv

\* The form is opened.
LEMMA OpenModalStep ==
    ASSUME AttemptsInv, OpenModal
    PROVE  AttemptsInv'
  BY ActsAreCounted, FormStep DEF AttemptsInv, OpenModal, Types, TypeOK

\* The form is opened for a session that is to be replaced.
LEMMA PrefillStep ==
    ASSUME AttemptsInv, NEW s \in Ids, PrefillConnectionForm(s)
    PROVE  AttemptsInv'
  BY ActsAreCounted, FormStep DEF AttemptsInv, PrefillConnectionForm, Types, TypeOK, Removed

\* The form opens after a disconnect that went before it.
LEMMA FormTimerStep ==
    ASSUME AttemptsInv, FormTimer
    PROVE  AttemptsInv'
  BY FormStep DEF AttemptsInv, FormTimer, Types, Numbers, TypeOK

----------------------------------------------------------------------------
(* Requests and cancellations.                                             *)

\* A request is sent.
Request(r) == [type |-> "connect", id |-> r, nr |-> 0]

\* An attempt is asked for: what the invariant says of messages and attempts.
LEMMA AttemptAsked ==
    ASSUME AttemptsInv, NEW r \in Reqs, attempt[r] = "idle",
           attempt' = [attempt EXCEPT ![r] = "asking"],
           Emit(<<Request(r)>>),
           UNCHANGED <<banner, closure, completed, cancelled, discarded, honoured, toClient, link,
                       asked, prompts, live, history>>,
           acts' \in Numbers, acts <= acts',
           \A q \in Reqs : StillPending(q)' => StillPending(q) \/ q = r,
           paneMap' \subseteq {current'},
           banner \in Requests /\ banner = current => banner = current',
           \A s \in Ids : sessions'[s] = "connected" <=> sessions[s] = "connected",
           \A s \in Ids : sessions[s] = "none" => sessions'[s] = "none"
    PROVE  /\ toServer' \in Seq(ToServer(acts')) /\ toClient' \in Seq(ToClient(acts'))
           /\ SessionInv' /\ PendingInv' /\ CancelInv' /\ BannerInv'
<1> DEFINE n == Request(r)
<1>0. /\ banner' = banner /\ closure' = closure /\ completed' = completed /\ cancelled' = cancelled
      /\ discarded' = discarded /\ honoured' = honoured /\ link' = link
      /\ toClient' = toClient /\ asked' = asked /\ prompts' = prompts
      /\ live' = live /\ missed' = missed /\ late' = late
  BY DEF history
<1>1. Types
  BY DEF AttemptsInv
<1>2. acts \in Numbers /\ toServer \in Seq(ToServer(acts')) /\ toClient \in Seq(ToClient(acts'))
  BY <1>1, MoreMessages DEF Types
<1>3. n \in ToServer(acts') /\ n.type = "connect" /\ n.id = r
  BY DEF ToServer, Request
<1>4. /\ toServer' = toServer \o <<n>> /\ toServer' \in Seq(ToServer(acts')) /\ Alike(toServer, toServer', n)
      /\ \A X : In(toServer', X) <=> In(toServer, X) \/ n \in X
  BY <1>2, <1>3, BrowserSends
<1>5. \A t, q : n \in S(t, q) <=> t = "connect" /\ q = r
  BY <1>3, Classes
<1> HIDE DEF n
<1>6. attempt \in [Reqs -> {"idle", "asking", "running", "welcomed", "committed", "recorded", "failed", "cancelled"}]
  BY <1>1 DEF Types, TypeOK
<1>7. attempt'[r] = "asking" /\ \A q \in Reqs : q # r => attempt'[q] = attempt[q]
  BY <1>6
<1>8. Alike(toClient, toClient', Nothing) /\ Nothing.type = "nothing"
  BY <1>0, SameIsAlike DEF Nothing
<1>9. SessionInv'
  BY Kinds, <1>7, <1>0, <1>1, <1>3, <1>4, <1>8, SessionsUntouched DEF AttemptsInv
<1>10. PendingInv'
  <2>0. PendingInv /\ cancelled \subseteq Reqs
    BY <1>1 DEF AttemptsInv, Types, TypeOK
  <2>1. \A q \in Reqs : q # r =>
            /\ In(toServer, S("connect", q))' <=> In(toServer, S("connect", q))
            /\ Once(toServer, S("connect", q)) => Once(toServer, S("connect", q))'
    BY <1>4, <1>5 DEF Alike
  <2>2. \A q \in Reqs : In(toServer, S("cancel", q))' <=> In(toServer, S("cancel", q))
    BY <1>4, <1>5
  <2>3. ~In(toServer, S("connect", r)) /\ ~In(toServer, S("cancel", r))
    BY <2>0 DEF PendingInv
  <2>4. In(toServer, S("connect", r))' /\ Once(toServer, S("connect", r))'
        /\ Preceded(toServer, S("cancel", r), S("connect", r))'
    <3>1. In(toServer, S("connect", r))'
      BY <1>4, <1>5
    <3>2. Once(toServer, S("connect", r))'
      BY <2>0, <1>2, <1>3, <1>4, <2>3, LongerQueue DEF PendingInv
    <3>3. Preceded(toServer, S("cancel", r), S("connect", r))'
      BY <2>2, <2>3, AbsentMessages
    <3> QED
      BY <3>1, <3>2, <3>3
  <2>5. \A q \in Reqs : q # r /\ Preceded(toServer, S("cancel", q), S("connect", q)) =>
             Preceded(toServer, S("cancel", q), S("connect", q))'
    BY <1>4, <1>5 DEF Alike
  <2> HIDE DEF StillPending
  <2>6. \A q \in Reqs : attempt'[q] = "idle" =>
            /\ ~StillPending(q)' /\ q \notin cancelled'
            /\ ~In(toServer, S("cancel", q))' /\ ~In(toClient, C("ack", q))'
    BY <1>0, <1>7, <2>0, <2>2 DEF PendingInv
  <2>7. \A q \in Reqs : StillPending(q)' =>
            /\ attempt'[q] = "asking" \/ q \in asked'
            /\ attempt'[q] = "recorded" => In(toClient, C("connected", q))'
    BY <1>0, <1>7, <2>0 DEF PendingInv
  <2>8. \A q \in cancelled' : ~StillPending(q)'
    BY <2>0, <1>0 DEF PendingInv
  <2>9. \A q \in Reqs : /\ attempt'[q] = "asking" <=> In(toServer, S("connect", q))'
                        /\ Once(toServer, S("connect", q))'
                        /\ attempt'[q] = "asking" => Preceded(toServer, S("cancel", q), S("connect", q))'
    BY <1>7, <2>0, <2>1, <2>4, <2>5 DEF PendingInv
  <2> QED
    BY <2>6, <2>7, <2>8, <2>9 DEF PendingInv
<1>11. CancelInv'
  <2>0. CancelInv /\ PendingInv /\ honoured \subseteq Reqs
    BY <1>1 DEF AttemptsInv, Types
  <2>1. \A q \in Reqs : (q # r => (Dead(q)' <=> Dead(q))) /\ ~Dead(r) /\ ~Dead(r)'
    BY <1>7 DEF Dead
  <2>2. \A a : ~In(toClient, NotFound(r, a)) /\ ~In(toClient, Ack(r, a))
    BY <2>0 DEF PendingInv, In, NotFound, Ack
  <2>3. Preceded(toClient, NotFound(r, closure[r]), C("connected", r))
    BY <2>2, AbsentMessages
  <2>4. \A q \in honoured' : Dead(q)'
    BY <1>0, <2>0, <2>1 DEF CancelInv
  <2>5. \A q \in Reqs : In(toClient, Ack(q, "cancelled"))' => attempt'[q] = "cancelled"
    BY <1>0, <1>7, <2>0, <2>2 DEF CancelInv
  <2> HIDE DEF StillPending, Dead
  <2>6. \A q \in Reqs : StillPending(q)' /\ q \notin completed' /\ ~Dead(q)' /\ closure'[q] # 0 =>
            Preceded(toClient', NotFound(q, closure'[q]), C("connected", q))
    BY <1>0, <2>0, <2>1, <2>3 DEF CancelInv
  <2> QED
    BY <2>4, <2>5, <2>6 DEF CancelInv
<1>12. BannerInv'
  BY <1>7, <1>0, <1>1, <1>3, <1>4, <1>8, BannersUntouched DEF Dead, AttemptsInv
<1> QED
  BY <1>0, <1>2, <1>4, <1>9, <1>10, <1>11, <1>12

\* A connection is started from the form or the launcher.
LEMMA StartStep ==
    ASSUME AttemptsInv, NEW r \in Requests, NEW f \in BOOLEAN, NEW p \in BOOLEAN, NEW i \in BOOLEAN,
           NEW same \in SUBSET Candidates, StartConnection(r, f, p, i, same)
    PROVE  AttemptsInv'
<1>1. Types /\ PendingInv /\ Act
  BY DEF AttemptsInv, StartConnection
<1>2. acts' \in Numbers /\ acts <= acts' /\ acts \in Nat /\ acts' = acts + 1
  BY <1>1, ActsAreCounted
<1>3. r \in Reqs /\ r # None
  BY Kinds
<1>4. UNCHANGED <<modal, toReplace, banner, closure, completed, cancelled, discarded,
                  honoured, timers, link, toClient, asked, prompts, live, history>>
  BY DEF StartConnection
<1>5. current = None /\ current' = r /\ paneMap = {}
  BY <1>1, Kinds DEF StartConnection, PendingInv, Types, TypeOK
<1>6. paneMap' \subseteq {r} /\ gateway' \subseteq gateway \cup {r}
  BY <1>5 DEF StartConnection
<1>7. /\ attempt[r] = "idle" /\ attempt' = [attempt EXCEPT ![r] = "asking"]
      /\ Emit(<<Request(r)>>)
  BY DEF StartConnection, Request
<1>8. /\ sessions' \in [Ids -> {"none", "connected", "disconnected", "candidate"}]
      /\ \A s \in Ids : sessions'[s] = "connected" <=> sessions[s] = "connected"
      /\ \A s \in Ids : sessions[s] = "none" => sessions'[s] = "none"
  BY <1>1 DEF Types, TypeOK, StartConnection
<1>9. \A q \in Reqs : StillPending(q)' => StillPending(q) \/ q = r
  BY <1>5, <1>6 DEF StillPending
<1>10. banner \in Requests /\ banner = current => banner = current'
  BY <1>5, Kinds
<1>11. /\ toServer' \in Seq(ToServer(acts')) /\ toClient' \in Seq(ToClient(acts'))
       /\ SessionInv' /\ PendingInv' /\ CancelInv' /\ BannerInv'
  BY <1>2, <1>3, <1>4, <1>5, <1>6, <1>7, <1>8, <1>9, <1>10, AttemptAsked
<1>12. TypeOK'
  BY <1>1, <1>7, <1>3, <1>6, <1>4, <1>5, <1>8 DEF StartConnection, Types, TypeOK, history
<1>13. \A q \in Reqs : closure'[q] <= acts'
  BY <1>1, <1>2, <1>4 DEF Types, TypeOK
<1>14. \A q \in Reconnects : q \in timers' => attempt'[q] = "idle"
  <2>1. r \notin Reconnects
    BY AttemptsAssumption
  <2> QED
    BY <1>1, <1>4, <1>7, <2>1, Kinds DEF Types, TypeOK
<1>15. Types'
  BY <1>1, <1>2, <1>4, <1>11, <1>12, <1>13, <1>14 DEF Types
<1> QED
  BY <1>11, <1>15 DEF AttemptsInv

\* A reconnect is asked for at once.
LEMMA DirectReconnectStep ==
    ASSUME AttemptsInv, NEW s \in Ids, NEW r \in Reconnects, NEW i \in BOOLEAN, DirectReconnect(s, r, i)
    PROVE  AttemptsInv'
<1>1. Types /\ PendingInv /\ Act
  BY DEF AttemptsInv, DirectReconnect
<1>2. acts' \in Numbers /\ acts <= acts' /\ acts \in Nat /\ acts' = acts + 1
  BY <1>1, ActsAreCounted
<1>3. r \in Reqs
  BY Kinds
<1>4. UNCHANGED <<attemptVars, banner, closure, completed, cancelled, discarded,
                  honoured, timers, link, toClient, asked, prompts, live, history>>
  BY DEF DirectReconnect
<1>5. current' = current /\ paneMap' = paneMap /\ gateway' \subseteq gateway \cup {r} /\ r \notin timers
  BY DEF DirectReconnect, attemptVars
<1>7. /\ attempt[r] = "idle" /\ attempt' = [attempt EXCEPT ![r] = "asking"]
      /\ Emit(<<Request(r)>>)
  BY DEF DirectReconnect, Request
<1>8. /\ sessions' \in [Ids -> {"none", "connected", "disconnected", "candidate"}]
      /\ \A q \in Ids : sessions'[q] = "connected" <=> sessions[q] = "connected"
      /\ \A q \in Ids : sessions[q] = "none" => sessions'[q] = "none"
  BY <1>1 DEF Types, TypeOK, DirectReconnect, Removed
<1>9. \A q \in Reqs : StillPending(q)' => StillPending(q) \/ q = r
  BY <1>5 DEF StillPending
<1>10. paneMap' \subseteq {current'}
  BY <1>1, <1>5 DEF PendingInv
<1>11. /\ toServer' \in Seq(ToServer(acts')) /\ toClient' \in Seq(ToClient(acts'))
       /\ SessionInv' /\ PendingInv' /\ CancelInv' /\ BannerInv'
  BY <1>2, <1>3, <1>4, <1>5, <1>7, <1>8, <1>9, <1>10, AttemptAsked
<1>12. TypeOK'
  BY <1>1, <1>7, <1>3, <1>5, <1>4, <1>8 DEF Types, TypeOK, history, attemptVars
<1>13. \A q \in Reqs : closure'[q] <= acts'
  BY <1>1, <1>2, <1>4 DEF Types, TypeOK
<1>14. \A q \in Reconnects : q \in timers' => attempt'[q] = "idle"
  BY <1>1, <1>4, <1>5, <1>7, Kinds DEF Types, TypeOK
<1>15. Types'
  BY <1>1, <1>2, <1>4, <1>11, <1>12, <1>13, <1>14 DEF Types
<1> QED
  BY <1>11, <1>15 DEF AttemptsInv

\* A reconnect is asked for when its timer runs out.
LEMMA ReconnectTimerStep ==
    ASSUME AttemptsInv, NEW r \in Reconnects, NEW i \in BOOLEAN, ReconnectTimer(r, i)
    PROVE  AttemptsInv'
<1>1. Types /\ PendingInv
  BY DEF AttemptsInv
<1>2. acts' \in Numbers /\ acts <= acts' /\ acts' = acts
  BY <1>1 DEF ReconnectTimer, Types, Numbers
<1>3. r \in Reqs
  BY Kinds
<1>4. UNCHANGED <<attemptVars, banner, closure, completed, cancelled, discarded,
                  honoured, sessions, link, toClient, asked, prompts, live, history>>
  BY DEF ReconnectTimer
<1>5. current' = current /\ paneMap' = paneMap /\ gateway' \subseteq gateway \cup {r} /\ timers' = timers \ {r}
  BY DEF ReconnectTimer, attemptVars
<1>7. /\ attempt[r] = "idle" /\ attempt' = [attempt EXCEPT ![r] = "asking"]
      /\ Emit(<<Request(r)>>)
  BY <1>1 DEF ReconnectTimer, Request, Types
<1>9. \A q \in Reqs : StillPending(q)' => StillPending(q) \/ q = r
  BY <1>5 DEF StillPending
<1>10. paneMap' \subseteq {current'}
  BY <1>1, <1>5 DEF PendingInv
<1>11. /\ toServer' \in Seq(ToServer(acts')) /\ toClient' \in Seq(ToClient(acts'))
       /\ SessionInv' /\ PendingInv' /\ CancelInv' /\ BannerInv'
  BY <1>2, <1>3, <1>4, <1>5, <1>7, <1>9, <1>10, AttemptAsked
<1>12. TypeOK'
  BY <1>1, <1>7, <1>3, <1>5, <1>4 DEF Types, TypeOK, history, attemptVars
<1>14. \A q \in Reconnects : q \in timers' => attempt'[q] = "idle"
  BY <1>1, <1>5, <1>7, Kinds DEF Types, TypeOK
<1>15. Types'
  BY <1>1, <1>2, <1>4, <1>11, <1>12, <1>14 DEF Types
<1> QED
  BY <1>11, <1>15 DEF AttemptsInv

\* A cancellation is asked for: what the invariant says of messages and attempts.
LEMMA CancellationAsked ==
    ASSUME AttemptsInv, NEW r \in Reqs, Cancellable(r), Cancelling(r), acts' = acts + 1, acts' \in Numbers,
           UNCHANGED <<current, paneMap, gateway, banner, completed, cancelled, discarded, honoured,
                       sessions, link, toClient, serverVars, history>>
    PROVE  /\ toServer' \in Seq(ToServer(acts')) /\ toClient' \in Seq(ToClient(acts'))
           /\ closure' \in [Reqs -> 0 .. MaxActs] /\ \A q \in Reqs : closure'[q] <= acts'
           /\ SessionInv' /\ PendingInv' /\ CancelInv' /\ BannerInv'
<1> DEFINE n == [type |-> "cancel", id |-> r, nr |-> acts + 1]
<1>0. /\ current' = current /\ paneMap' = paneMap /\ gateway' = gateway
      /\ banner' = banner /\ completed' = completed /\ cancelled' = cancelled
      /\ discarded' = discarded /\ honoured' = honoured /\ sessions' = sessions /\ link' = link
      /\ toClient' = toClient /\ attempt' = attempt /\ asked' = asked /\ prompts' = prompts
      /\ live' = live /\ missed' = missed /\ late' = late
  BY DEF history, serverVars
<1>1. Types
  BY DEF AttemptsInv
<1>a. acts \in Nat /\ acts' \in Nat /\ acts' <= MaxActs /\ MaxActs \in Nat
  BY <1>1, AttemptsAssumption DEF Types, Numbers
<1>2. acts \in Numbers /\ toServer \in Seq(ToServer(acts')) /\ toClient \in Seq(ToClient(acts'))
  BY <1>1, <1>a, MoreMessages DEF Types
<1>3. n \in ToServer(acts') /\ n.type = "cancel" /\ n.id = r
  BY <1>a DEF ToServer
<1>b. closure[r] = 0 /\ StillPending(r) /\ closure' = [closure EXCEPT ![r] = acts + 1] /\ Emit(<<n>>)
  BY DEF Cancellable, Cancelling
<1>4. /\ toServer' = toServer \o <<n>> /\ toServer' \in Seq(ToServer(acts')) /\ Alike(toServer, toServer', n)
      /\ \A X : In(toServer', X) <=> In(toServer, X) \/ n \in X
  BY <1>2, <1>3, <1>b, BrowserSends
<1>5. \A t, q : n \in S(t, q) <=> t = "cancel" /\ q = r
  BY <1>3, Classes
<1> HIDE DEF n
<1>6. /\ closure \in [Reqs -> 0 .. MaxActs] /\ closure' \in [Reqs -> 0 .. MaxActs]
      /\ closure'[r] = acts + 1 /\ \A q \in Reqs : q # r => closure'[q] = closure[q]
  BY <1>1, <1>a, <1>b DEF Types, TypeOK
<1>7. \A q \in Reqs : closure'[q] <= acts'
  <2>1. \A q \in Reqs : closure[q] <= acts /\ closure[q] \in Nat
    BY <1>1, <1>6 DEF Types
  <2> QED
    BY <1>a, <1>6, <2>1
<1>8. Alike(toClient, toClient', Nothing) /\ Nothing.type = "nothing"
  BY <1>0, SameIsAlike DEF Nothing
<1>9. SessionInv'
  BY <1>0, <1>1, <1>3, <1>4, <1>8, SessionsUntouched DEF AttemptsInv
<1>10. PendingInv'
  <2>0. PendingInv
    BY DEF AttemptsInv
  <2>1. \A q \in Reqs : StillPending(q)' <=> StillPending(q)
    BY <1>0 DEF StillPending
  <2>2. attempt[r] # "idle"
    BY <1>b, <2>0 DEF PendingInv
  <2>3. \A q \in Reqs : In(toServer, S("connect", q))' <=> In(toServer, S("connect", q))
    BY <1>4, <1>5
  <2>4. \A q \in Reqs : In(toServer, S("cancel", q))' => In(toServer, S("cancel", q)) \/ q = r
    BY <1>4, <1>5
  <2>5. \A q \in Reqs : Once(toServer, S("connect", q)) => Once(toServer, S("connect", q))'
    BY <1>4, <1>5 DEF Alike
  <2>6. \A q \in Reqs : Preceded(toServer, S("cancel", q), S("connect", q)) /\ In(toServer, S("connect", q)) =>
             Preceded(toServer, S("cancel", q), S("connect", q))'
    BY <1>2, <1>3, <1>4, LongerQueue
  <2> HIDE DEF StillPending
  <2>7. \A q \in Reqs : attempt'[q] = "idle" =>
            /\ ~StillPending(q)' /\ q \notin cancelled'
            /\ ~In(toServer, S("cancel", q))' /\ ~In(toClient, C("ack", q))'
    BY <1>0, <2>0, <2>1, <2>2, <2>4 DEF PendingInv
  <2>8. \A q \in Reqs : StillPending(q)' =>
            /\ attempt'[q] = "asking" \/ q \in asked'
            /\ attempt'[q] = "recorded" => In(toClient, C("connected", q))'
    BY <1>0, <2>0, <2>1 DEF PendingInv
  <2>9. \A q \in cancelled' : ~StillPending(q)'
    BY <1>0, <1>1, <2>0, <2>1 DEF PendingInv, Types, TypeOK
  <2>10. \A q \in Reqs : /\ attempt'[q] = "asking" <=> In(toServer, S("connect", q))'
                         /\ Once(toServer, S("connect", q))'
                         /\ attempt'[q] = "asking" => Preceded(toServer, S("cancel", q), S("connect", q))'
    BY <1>0, <2>0, <2>3, <2>5, <2>6 DEF PendingInv
  <2>11. paneMap' \subseteq {current'}
    BY <1>0, <2>0 DEF PendingInv
  <2> QED
    BY <2>7, <2>8, <2>9, <2>10, <2>11 DEF PendingInv
<1>11. CancelInv'
  <2>0. CancelInv /\ honoured \subseteq Reqs
    BY <1>1 DEF AttemptsInv, Types
  <2>1. ~In(toClient, NotFound(r, acts + 1))
    BY <1>2, Fields, <1>a, Classes, <1>1, PresentMessages DEF Types
  <2>2. Preceded(toClient, NotFound(r, closure'[r]), C("connected", r))
    BY <1>6, <2>1, AbsentMessages
  <2>3. \A q \in Reqs : Dead(q)' <=> Dead(q)
    BY <1>0 DEF Dead
  <2>4. \A q \in Reqs : StillPending(q)' <=> StillPending(q)
    BY <1>0 DEF StillPending
  <2> HIDE DEF StillPending, Dead
  <2>5. \A q \in Reqs : StillPending(q)' /\ q \notin completed' /\ ~Dead(q)' /\ closure'[q] # 0 =>
            Preceded(toClient', NotFound(q, closure'[q]), C("connected", q))
    BY <1>0, <1>6, <2>0, <2>2, <2>3, <2>4 DEF CancelInv
  <2>6. \A q \in honoured' : Dead(q)'
    BY <1>0, <2>0, <2>3 DEF CancelInv
  <2>7. \A q \in Reqs : In(toClient, Ack(q, "cancelled"))' => attempt'[q] = "cancelled"
    BY <1>0, <2>0 DEF CancelInv
  <2> QED
    BY <2>5, <2>6, <2>7 DEF CancelInv
<1>12. BannerInv'
  BY <1>0, <1>1, <1>3, <1>4, <1>8, BannersUntouched DEF Dead, AttemptsInv
<1> QED
  BY <1>0, <1>2, <1>4, <1>6, <1>7, <1>9, <1>10, <1>11, <1>12

\* The user cancels an attempt.
LEMMA CancelStep ==
    ASSUME AttemptsInv, NEW r \in Reqs, CancelConnectionAttempt(r)
    PROVE  AttemptsInv'
  BY ActsAreCounted, CancellationAsked DEF AttemptsInv, CancelConnectionAttempt, attemptVars,
     Types, TypeOK, serverVars, history

\* The form is closed, and its attempt cancelled with it.
LEMMA DismissStep ==
    ASSUME AttemptsInv, DismissConnectionModal
    PROVE  AttemptsInv'
  BY ActsAreCounted, Kinds, CancellationAsked, FormStep DEF AttemptsInv, DismissConnectionModal,
     Types, TypeOK, serverVars, history, cancelVars

\* A tab goes, and the server is told to end the session: what the invariant says
\* of messages and attempts.
LEMMA TabDropped ==
    ASSUME AttemptsInv, NEW s \in Ids, sessions' = Removed(s),
           Emit(<<[type |-> "disconnect", id |-> s, nr |-> 0]>>), acts' = acts + 1, acts' \in Numbers,
           UNCHANGED <<attemptVars, cancelVars, link, toClient, serverVars, history>>
    PROVE  /\ toServer' \in Seq(ToServer(acts')) /\ toClient' \in Seq(ToClient(acts'))
           /\ SessionInv' /\ PendingInv' /\ CancelInv' /\ BannerInv'
<1> DEFINE n == [type |-> "disconnect", id |-> s, nr |-> 0]
<1>0. /\ current' = current /\ paneMap' = paneMap /\ gateway' = gateway
      /\ banner' = banner /\ completed' = completed /\ cancelled' = cancelled /\ closure' = closure
      /\ discarded' = discarded /\ honoured' = honoured /\ link' = link
      /\ toClient' = toClient /\ attempt' = attempt /\ asked' = asked /\ prompts' = prompts
      /\ live' = live /\ missed' = missed /\ late' = late
  BY DEF history, serverVars, attemptVars, cancelVars
<1>1. Types
  BY DEF AttemptsInv
<1>a. acts \in Nat /\ acts' \in Nat /\ acts <= acts'
  BY <1>1, AttemptsAssumption DEF Types, Numbers
<1>2. acts \in Numbers /\ toServer \in Seq(ToServer(acts')) /\ toClient \in Seq(ToClient(acts'))
  BY <1>1, <1>a, MoreMessages DEF Types
<1>3. n \in ToServer(acts') /\ n.type = "disconnect" /\ n.id = s
  BY DEF ToServer
<1>4. /\ toServer' \in Seq(ToServer(acts')) /\ Alike(toServer, toServer', n)
      /\ \A X : In(toServer', X) <=> In(toServer, X) \/ n \in X
  BY <1>2, <1>3, BrowserSends
<1>5. \A t, q : n \in S(t, q) <=> t = "disconnect" /\ q = s
  BY <1>3, Classes
<1> HIDE DEF n
<1>6. sessions'[s] = "none" /\ \A q \in Ids : q # s => sessions'[q] = sessions[q]
  BY <1>1 DEF Types, TypeOK, Removed
<1>7. /\ Alike(toClient, toClient', Nothing) /\ Nothing.type = "nothing"
  BY <1>0, SameIsAlike DEF Nothing
<1>8. \A q \in Reqs : (StillPending(q)' <=> StillPending(q)) /\ (Dead(q)' <=> Dead(q))
  BY <1>0 DEF StillPending, Dead
<1>9. SessionInv'
  <2>0. SessionInv /\ discarded \subseteq Reqs
    BY <1>1 DEF AttemptsInv, Types, TypeOK
  <2>1. /\ \A q : Arriving(q)' <=> Arriving(q)
        /\ \A q : Ending(q)' <=> Ending(q)
    BY <1>0 DEF Arriving, Ending
  <2>2. \A q : Leaving(q)' <=> Leaving(q) \/ q = s
    BY <1>4, <1>5 DEF Leaving
  <2>3. \A q \in Ids : sessions'[q] = "connected" => sessions[q] = "connected" /\ q # s
    BY <1>6
  <2>4. \A q \in Ids : sessions[q] = "connected" => sessions'[q] = "connected" \/ q = s
    BY <1>6
  <2>5. \A q \in Ids : sessions[q] = "none" => sessions'[q] = "none"
    BY <1>6
  <2> HIDE DEF Arriving, Ending, Leaving
  <2> QED
    BY <1>0, <2>0, <2>1, <2>2, <2>3, <2>4, <2>5, Kinds DEF SessionInv
<1>10. PendingInv'
  BY <1>1, <1>0, <1>3, <1>4, <1>7, <1>8, PendingUntouched DEF AttemptsInv, PendingInv, Types,
     TypeOK
<1>11. CancelInv'
  BY <1>0, <1>1, <1>7, <1>8, CancelsUntouched DEF AttemptsInv
<1>12. BannerInv'
  BY <1>0, <1>1, <1>3, <1>4, <1>7, <1>8, BannersUntouched DEF AttemptsInv
<1> QED
  BY <1>0, <1>2, <1>4, <1>9, <1>10, <1>11, <1>12

\* The user closes a session.
LEMMA CloseStep ==
    ASSUME AttemptsInv, NEW s \in Ids, CloseSession(s)
    PROVE  AttemptsInv'
<1>1. Types /\ Act
  BY DEF AttemptsInv, CloseSession
<1>2. acts' = acts + 1 /\ acts' \in Numbers /\ acts <= acts' /\ acts \in Nat
  BY <1>1, ActsAreCounted
<1>3. UNCHANGED <<attemptVars, cancelVars, timers, link, toClient, serverVars, history>>
  BY DEF CloseSession
<1>4. sessions' = Removed(s) /\ Emit(<<[type |-> "disconnect", id |-> s, nr |-> 0]>>)
  BY DEF CloseSession
<1>5. /\ toServer' \in Seq(ToServer(acts')) /\ toClient' \in Seq(ToClient(acts'))
      /\ SessionInv' /\ PendingInv' /\ CancelInv' /\ BannerInv'
  BY <1>2, <1>3, <1>4, TabDropped
<1>6. \A q \in Reqs : closure'[q] <= acts'
  BY <1>1, <1>2, <1>3 DEF Types, TypeOK, cancelVars
<1>7. TypeOK'
  BY <1>1, <1>3, <1>4 DEF Types, TypeOK, attemptVars, cancelVars, serverVars, Removed
<1>8. Types'
  BY <1>1, <1>2, <1>3, <1>5, <1>6, <1>7 DEF Types, attemptVars, cancelVars, serverVars
<1> QED
  BY <1>5, <1>8 DEF AttemptsInv

\* The user reconnects a session that is connected.
LEMMA RequestReconnectStep ==
    ASSUME AttemptsInv, NEW s \in Ids, NEW t \in Reconnects \cup {Form}, RequestReconnect(s, t)
    PROVE  AttemptsInv'
<1>1. Types /\ Act
  BY DEF AttemptsInv, RequestReconnect
<1>2. acts' = acts + 1 /\ acts' \in Numbers /\ acts <= acts' /\ acts \in Nat
  BY <1>1, ActsAreCounted
<1>3. UNCHANGED <<attemptVars, cancelVars, link, toClient, serverVars, history>>
  BY DEF RequestReconnect
<1>4. sessions' = Removed(s) /\ Emit(<<[type |-> "disconnect", id |-> s, nr |-> 0]>>)
  BY DEF RequestReconnect
<1>5. /\ toServer' \in Seq(ToServer(acts')) /\ toClient' \in Seq(ToClient(acts'))
      /\ SessionInv' /\ PendingInv' /\ CancelInv' /\ BannerInv'
  BY <1>2, <1>3, <1>4, TabDropped
<1>6. \A q \in Reqs : closure'[q] <= acts'
  BY <1>1, <1>2, <1>3 DEF Types, TypeOK, cancelVars
<1>7. timers' = timers \cup {t} /\ (t # Form => attempt[t] = "idle")
  BY DEF RequestReconnect
<1>8. TypeOK'
  BY <1>1, <1>3, <1>4, <1>7 DEF Types, TypeOK, attemptVars, cancelVars, serverVars, Removed
<1>9. \A q \in Reconnects : q \in timers' => attempt'[q] = "idle"
  BY <1>1, <1>3, <1>7, Kinds DEF Types, serverVars
<1>10. Types'
  BY <1>1, <1>2, <1>3, <1>5, <1>6, <1>8, <1>9 DEF Types, attemptVars, cancelVars, serverVars
<1> QED
  BY <1>5, <1>10 DEF AttemptsInv

\* The user answers the banner question: what the invariant says of questions.
LEMMA BannerAnswered ==
    ASSUME AttemptsInv, NEW a \in BOOLEAN, AnswerAuthBannerPrompt(a)
    PROVE  toServer' \in Seq(ToServer(acts)) /\ SessionInv' /\ PendingInv' /\ CancelInv' /\ BannerInv'
<1> DEFINE b == banner
           n == [type |-> IF a THEN "accept" ELSE "decline", id |-> b, nr |-> 0]
<1>1. Types
  BY DEF AttemptsInv
<1>2. b \in Reqs /\ banner' = None /\ Emit(<<n>>) /\ acts \in Numbers
  BY <1>1 DEF AnswerAuthBannerPrompt, Types, TypeOK
<1>3. UNCHANGED <<attemptVars, gateway, closure, completed, cancelled, discarded, honoured,
                  sessions, timers, link, toClient, serverVars, history, acts, drops>>
  BY DEF AnswerAuthBannerPrompt
<1>4. /\ current' = current /\ paneMap' = paneMap /\ gateway' = gateway
      /\ completed' = completed /\ cancelled' = cancelled /\ closure' = closure
      /\ discarded' = discarded /\ honoured' = honoured /\ sessions' = sessions
      /\ toClient' = toClient /\ attempt' = attempt /\ asked' = asked /\ prompts' = prompts
      /\ live' = live /\ missed' = missed /\ late' = late
  BY <1>3 DEF history, serverVars, attemptVars
<1>5. n \in ToServer(acts) /\ n.type \in {"accept", "decline"} /\ n.id = b
  BY <1>2 DEF ToServer
<1>6. /\ toServer' \in Seq(ToServer(acts)) /\ Alike(toServer, toServer', n)
      /\ \A X : In(toServer', X) <=> In(toServer, X) \/ n \in X
  BY <1>1, <1>2, <1>5, BrowserSends DEF Types
<1>7. \A t, q : n \in S(t, q) => q = b
  BY <1>5 DEF S
<1> HIDE DEF n
<1>8. /\ Alike(toClient, toClient', Nothing) /\ Nothing.type = "nothing"
  BY <1>4, SameIsAlike DEF Nothing
<1>9. \A q \in Reqs : (StillPending(q)' <=> StillPending(q)) /\ (Dead(q)' <=> Dead(q))
  BY <1>4 DEF StillPending, Dead
<1>10. SessionInv'
  BY <1>1, <1>4, <1>5, <1>6, <1>8, SessionsUntouched DEF AttemptsInv
<1>11. PendingInv'
  BY <1>1, <1>4, <1>5, <1>6, <1>8, <1>9, PendingUntouched DEF AttemptsInv, PendingInv, Types,
     TypeOK
<1>12. CancelInv'
  BY <1>1, <1>4, <1>8, <1>9, CancelsUntouched DEF AttemptsInv
<1>13. BannerInv'
  <2>0. BannerInv /\ prompts \subseteq Reqs /\ None \notin Reqs
    BY <1>1, Kinds DEF AttemptsInv, Types, TypeOK
  <2>1. Shown(b) /\ \A q \in Reqs : Shown(q)' => Shown(q) /\ q # b
    BY <1>2, <1>4, <2>0 DEF BannerInv, Shown
  <2>2. \A q \in Reqs : Decided(q)' => Decided(q) \/ q = b
    BY <1>6, <1>7 DEF Decided
  <2> HIDE DEF Shown, Decided, b
  <2>3. \A q \in Reqs : Shown(q)' => /\ attempt'[q] \in {"running", "failed", "cancelled"}
                                     /\ q \in asked' /\ ~Decided(q)'
    BY <1>4, <2>0, <2>1, <2>2 DEF BannerInv
  <2>4. \A q \in Reqs : Decided(q)' => attempt'[q] \notin {"idle", "asking"}
    BY <1>4, <2>0, <2>1, <2>2 DEF BannerInv
  <2>5. \A q \in Reqs : attempt'[q] = "running" /\ (Shown(q)' \/ Decided(q)') => q \in prompts'
    BY <1>4, <2>0, <2>1, <2>2 DEF BannerInv
  <2> QED
    BY <1>2, <1>4, <2>0, <2>3, <2>4, <2>5, Kinds DEF BannerInv
<1> QED
  BY <1>6, <1>10, <1>11, <1>12, <1>13

\* The user answers the banner question.
LEMMA AnswerStep ==
    ASSUME AttemptsInv, NEW a \in BOOLEAN, AnswerAuthBannerPrompt(a)
    PROVE  AttemptsInv'
  BY BannerAnswered DEF AttemptsInv, AnswerAuthBannerPrompt, Types, TypeOK, attemptVars,
     serverVars, history

----------------------------------------------------------------------------
(* What the browser hears of sessions.                                     *)

\* A message about a session is heard: what the handlers of these leave alone.
LEMMA SessionNews ==
    ASSUME AttemptsInv, NEW t \in {"disconnected", "restored", "candidate"}, Take(t),
           UNCHANGED <<attemptVars, gateway, banner, closure, completed, cancelled, honoured, timers,
                       link, toServer, serverVars, history, acts>>,
           sessions' \in [Ids -> {"none", "connected", "disconnected", "candidate"}],
           discarded' \subseteq discarded
    PROVE  Types' /\ PendingInv' /\ CancelInv' /\ BannerInv'
<1>1. Types
  BY DEF AttemptsInv
<1>2. /\ current' = current /\ paneMap' = paneMap /\ gateway' = gateway /\ banner' = banner
      /\ completed' = completed /\ cancelled' = cancelled /\ closure' = closure
      /\ honoured' = honoured /\ toServer' = toServer
      /\ attempt' = attempt /\ asked' = asked /\ prompts' = prompts
      /\ live' = live /\ missed' = missed /\ late' = late
  BY DEF history, serverVars, attemptVars
<1>3. /\ Head(toClient).type = t /\ link = "up"
      /\ toClient' \in Seq(ToClient(acts)) /\ Alike(toClient, toClient', Head(toClient))
  BY <1>1, BrowserTakes
<1>4. Types'
  BY <1>1, <1>3 DEF Types, TypeOK, attemptVars, serverVars, history
<1>5. /\ Alike(toServer, toServer', Nothing) /\ Nothing.type = "nothing"
  BY <1>2, SameIsAlike DEF Nothing
<1>6. \A q \in Reqs : (StillPending(q)' <=> StillPending(q)) /\ (Dead(q)' <=> Dead(q))
  BY <1>2 DEF StillPending, Dead
<1>7. PendingInv'
  BY <1>1, <1>2, <1>3, <1>5, <1>6, PendingUntouched DEF AttemptsInv, PendingInv, Types, TypeOK
<1>8. CancelInv'
  BY <1>1, <1>2, <1>3, <1>6, CancelsUntouched DEF AttemptsInv
<1>9. BannerInv'
  BY <1>1, <1>2, <1>3, <1>5, <1>6, BannersUntouched DEF AttemptsInv
<1> QED
  BY <1>4, <1>7, <1>8, <1>9

\* A candidate is offered.
LEMMA OfferStep ==
    ASSUME AttemptsInv, OnPersistentAvailable
    PROVE  AttemptsInv'
<1> DEFINE s == Head(toClient).id
<1>1. Types /\ Take("candidate")
  BY DEF AttemptsInv, OnPersistentAvailable
<1>2. UNCHANGED <<attemptVars, cancelVars, timers, link, toServer, serverVars, history, acts>>
  BY DEF OnPersistentAvailable
<1>3. /\ Head(toClient) \in ToClient(acts) /\ Head(toClient).type = "candidate"
      /\ Alike(toClient, toClient', Head(toClient)) /\ acts \in Numbers
  BY <1>1, BrowserTakes DEF Types
<1>4. s \in Candidates
  BY <1>3, Fields
<1>5. sessions' = [sessions EXCEPT ![s] = IF @ = "none" THEN "candidate" ELSE @]
  BY DEF OnPersistentAvailable
<1>6. sessions \in [Ids -> {"none", "connected", "disconnected", "candidate"}]
  BY <1>1 DEF Types, TypeOK
<1> HIDE DEF s
<1>7. /\ sessions' \in [Ids -> {"none", "connected", "disconnected", "candidate"}]
      /\ \A q \in Ids : sessions'[q] = "connected" <=> sessions[q] = "connected"
      /\ \A q \in Reqs : sessions[q] = "none" => sessions'[q] = "none"
  BY <1>4, <1>5, <1>6, Kinds
<1>8. Types' /\ PendingInv' /\ CancelInv' /\ BannerInv'
  BY <1>1, <1>2, <1>7, SessionNews DEF cancelVars
<1>9. SessionInv'
  BY <1>2, SameIsAlike, <1>1, <1>3, <1>7, SessionsUntouched DEF Nothing, AttemptsInv, cancelVars,
     serverVars, history
<1> QED
  BY <1>8, <1>9 DEF AttemptsInv

\* A session is restored: what the invariant says of sessions.
LEMMA RestoredSession ==
    ASSUME AttemptsInv, OnRestored
    PROVE  SessionInv'
<1>0. PICK s : s = Head(toClient).id
  OBVIOUS
<1>1. Types /\ Take("restored") /\ SessionInv /\ discarded \subseteq Reqs
  BY DEF AttemptsInv, OnRestored, Types, TypeOK
<1>2. UNCHANGED <<attemptVars, cancelVars, timers, link, toServer, serverVars, history, acts>>
  BY DEF OnRestored
<1>3. /\ toServer' = toServer /\ attempt' = attempt /\ live' = live /\ missed' = missed
      /\ discarded' = discarded
  BY <1>2 DEF cancelVars, serverVars, history
<1>4. /\ Head(toClient) \in ToClient(acts) /\ Head(toClient).type = "restored"
      /\ toClient \in Seq(ToClient(acts)) /\ toClient # <<>> /\ toClient' = Tail(toClient)
      /\ acts \in Numbers
  BY <1>1, BrowserTakes DEF Types
<1>5. s \in Ids /\ \A t, q : Head(toClient) \in C(t, q) <=> t = "restored" /\ q = s
  BY <1>0, <1>4, Fields, Classes
<1>6. sessions'[s] = "connected" /\ \A q \in Ids : q # s => sessions'[q] = sessions[q]
  BY <1>0, <1>1, <1>5 DEF OnRestored, Types, TypeOK
<1>7. /\ \A X : In(toClient', X) => In(toClient, X)
      /\ \A X : Head(toClient) \in X => In(toClient, X)
      /\ \A X : Once(toClient, X) => Once(toClient', X)
      /\ \A X : Head(toClient) \notin X => (In(toClient', X) <=> In(toClient, X))
      /\ \A X, Y : Followed(toClient, X, Y) => Followed(toClient', X, Y)
      /\ \A X, Y : Followed(toClient, X, Y) /\ Head(toClient) \in X => In(toClient', Y)
  BY <1>4, TakenQueue DEF Alike
<1>8. /\ \A q : Arriving(q)' => Arriving(q)
      /\ \A q : q # s => (Arriving(q)' <=> Arriving(q))
      /\ \A q : Ending(q)' <=> Ending(q)
      /\ \A q : Leaving(q)' <=> Leaving(q)
      /\ Arriving(s) /\ In(toClient, C("restored", s))
  BY <1>3, <1>5, <1>7 DEF Arriving, Ending, Leaving
<1>9. s \notin missed /\ s \notin live => Ending(s)'
  BY <1>1, <1>5, <1>7 DEF SessionInv, Ending
<1>10. \A q \in Reqs : In(toClient, C("connected", q)) => q # s
  BY <1>1, <1>8 DEF SessionInv
<1>11. \A q \in discarded : q # s
  BY <1>1, <1>8 DEF SessionInv
<1>12. s \in Reqs => attempt[s] = "recorded"
  BY <1>1, <1>8 DEF SessionInv
<1> HIDE DEF Arriving, Ending, Leaving
<1>13. \A r \in Reqs : attempt'[r] # "recorded" =>
          sessions'[r] = "none" /\ r \notin live' /\ r \notin discarded' /\ ~Arriving(r)' /\ ~Ending(r)'
  BY <1>1, <1>3, <1>6, <1>8, <1>12, Kinds DEF SessionInv
<1>14. \A q \in Ids : Ending(q)' => q \notin live'
  BY <1>1, <1>3, <1>8 DEF SessionInv
<1>15. \A q \in Ids \ missed' :
          /\ sessions'[q] = "connected" => q \in live' \/ Ending(q)'
          /\ q \in live' => sessions'[q] = "connected" \/ Arriving(q)' \/ Leaving(q)'
          /\ q \notin live' => /\ Followed(toClient', C("connected", q), C("disconnected", q))
                               /\ Followed(toClient', C("restored", q), C("disconnected", q))
  BY <1>1, <1>7, <1>6, <1>8, <1>9, <1>3 DEF SessionInv
<1>16. \A r \in Reqs : In(toClient', C("connected", r)) =>
          /\ sessions'[r] = "none" /\ r \notin discarded'
          /\ ~In(toClient', C("restored", r)) /\ Once(toClient', C("connected", r))
  BY <1>1, <1>3, <1>6, <1>7, <1>10, Kinds DEF SessionInv
<1>17. \A r \in discarded' : sessions'[r] # "connected" /\ ~Arriving(r)'
  BY <1>1, <1>3, <1>6, <1>8, <1>11, Kinds DEF SessionInv
<1> QED
  BY <1>13, <1>14, <1>15, <1>16, <1>17 DEF SessionInv

\* A session is restored.
LEMMA RestoredStep ==
    ASSUME AttemptsInv, OnRestored
    PROVE  AttemptsInv'
  BY SessionNews, RestoredSession DEF AttemptsInv, OnRestored, Types, TypeOK, cancelVars

\* The end of a session is heard: what the invariant says of sessions.
LEMMA EndedSession ==
    ASSUME AttemptsInv, OnDisconnected
    PROVE  /\ SessionInv' /\ discarded' \subseteq discarded
           /\ sessions' \in [Ids -> {"none", "connected", "disconnected", "candidate"}]
<1>0. PICK s : s = Head(toClient).id
  OBVIOUS
<1>1. Types /\ Take("disconnected") /\ SessionInv /\ discarded \subseteq Reqs
  BY DEF AttemptsInv, OnDisconnected, Types, TypeOK
<1>2. UNCHANGED <<attemptVars, gateway, banner, closure, completed, cancelled, honoured, timers,
                  link, toServer, serverVars, history, acts, drops>>
  BY DEF OnDisconnected
<1>3. /\ toServer' = toServer /\ attempt' = attempt /\ live' = live /\ missed' = missed
  BY <1>2 DEF serverVars, history
<1>4. /\ Head(toClient) \in ToClient(acts) /\ Head(toClient).type = "disconnected"
      /\ toClient \in Seq(ToClient(acts)) /\ toClient # <<>> /\ toClient' = Tail(toClient)
      /\ acts \in Numbers
  BY <1>1, BrowserTakes DEF Types
<1>5. s \in Ids /\ \A t, q : Head(toClient) \in C(t, q) <=> t = "disconnected" /\ q = s
  BY <1>0, <1>4, Fields, Classes
<1>6. /\ sessions' \in [Ids -> {"none", "connected", "disconnected", "candidate"}]
      /\ \A q \in Ids : sessions'[q] = "connected" => sessions[q] = "connected" /\ (q # s \/ s \in discarded)
      /\ \A q \in Ids : q # s => sessions'[q] = sessions[q]
      /\ \A q \in Ids : sessions[q] = "none" => sessions'[q] = "none"
      /\ discarded' \subseteq discarded
  BY <1>1, <1>0, <1>5 DEF Types, TypeOK, OnDisconnected
<1>7. /\ \A X : In(toClient', X) => In(toClient, X)
      /\ \A X : Head(toClient) \in X => In(toClient, X)
      /\ \A X : Once(toClient, X) => Once(toClient', X)
      /\ \A X : Head(toClient) \notin X => (In(toClient', X) <=> In(toClient, X))
      /\ \A X, Y : Followed(toClient, X, Y) => Followed(toClient', X, Y)
  BY <1>4, TakenQueue DEF Alike
<1>8. /\ \A q : Arriving(q)' <=> Arriving(q)
      /\ \A q : q # s => (Ending(q)' <=> Ending(q))
      /\ \A q : Ending(q)' => Ending(q)
      /\ \A q : Leaving(q)' <=> Leaving(q)
      /\ Ending(s)
  BY <1>3, <1>5, <1>7 DEF Arriving, Ending, Leaving
<1>9. s \notin live
  BY <1>1, <1>5, <1>8 DEF SessionInv
<1>10. \A q \in discarded : sessions[q] # "connected"
  BY <1>1 DEF SessionInv
<1> HIDE DEF Arriving, Ending, Leaving
<1>13. \A r \in Reqs : attempt'[r] # "recorded" =>
          sessions'[r] = "none" /\ r \notin live' /\ r \notin discarded' /\ ~Arriving(r)' /\ ~Ending(r)'
  BY <1>1, <1>3, <1>6, <1>8, Kinds DEF SessionInv
<1>14. \A q \in Ids : Ending(q)' => q \notin live'
  BY <1>1, <1>3, <1>8 DEF SessionInv
<1>15. \A q \in Ids \ missed' :
          /\ sessions'[q] = "connected" => q \in live' \/ Ending(q)'
          /\ q \in live' => sessions'[q] = "connected" \/ Arriving(q)' \/ Leaving(q)'
          /\ q \notin live' => /\ Followed(toClient', C("connected", q), C("disconnected", q))
                               /\ Followed(toClient', C("restored", q), C("disconnected", q))
  BY <1>1, <1>7, <1>6, <1>8, <1>10, <1>9, <1>3 DEF SessionInv
<1>16. \A r \in Reqs : In(toClient', C("connected", r)) =>
          /\ sessions'[r] = "none" /\ r \notin discarded'
          /\ ~In(toClient', C("restored", r)) /\ Once(toClient', C("connected", r))
  BY <1>1, <1>3, <1>6, <1>7, Kinds DEF SessionInv
<1>17. \A r \in discarded' : sessions'[r] # "connected" /\ ~Arriving(r)'
  BY <1>1, <1>3, <1>6, <1>8, Kinds DEF SessionInv
<1> QED
  BY <1>6, <1>13, <1>14, <1>15, <1>16, <1>17 DEF SessionInv

\* The end of a session is heard.
LEMMA EndedStep ==
    ASSUME AttemptsInv, OnDisconnected
    PROVE  AttemptsInv'
  BY EndedSession, SessionNews DEF OnDisconnected, AttemptsInv

----------------------------------------------------------------------------
(* A success is heard.                                                     *)

\* The browser learns of a success: its sessions and its messages.
LEMMA SuccessHeard ==
    ASSUME AttemptsInv, OnConnected
    PROVE  /\ SessionInv' /\ toServer' \in Seq(ToServer(acts))
           /\ \E n : Alike(toServer, toServer', n) /\ n.type \in {"discard", "disconnect", "nothing"}
<1>0. PICK r : r = Head(toClient).id
  OBVIOUS
<1>1. Types /\ Take("connected") /\ SessionInv /\ discarded \subseteq Reqs
  BY DEF AttemptsInv, OnConnected, Types, TypeOK
<1>2. attempt' = attempt /\ live' = live /\ missed' = missed
  BY DEF OnConnected, serverVars, history
<1>4. /\ Head(toClient) \in ToClient(acts) /\ Head(toClient).type = "connected"
      /\ toClient \in Seq(ToClient(acts)) /\ toClient # <<>> /\ toClient' = Tail(toClient)
      /\ acts \in Numbers
  BY <1>1, BrowserTakes DEF Types
<1>5. r \in Reqs /\ \A t, q : Head(toClient) \in C(t, q) <=> t = "connected" /\ q = r
  BY <1>0, <1>4, Fields, Classes
<1>7. /\ \A X : In(toClient', X) => In(toClient, X)
      /\ \A X : Head(toClient) \in X => In(toClient, X)
      /\ \A X : Once(toClient, X) => Once(toClient', X)
      /\ \A X : Once(toClient, X) /\ Head(toClient) \in X => ~In(toClient', X)
      /\ \A X : Head(toClient) \notin X => (In(toClient', X) <=> In(toClient, X))
      /\ \A X, Y : Followed(toClient, X, Y) => Followed(toClient', X, Y)
      /\ \A X, Y : Followed(toClient, X, Y) /\ Head(toClient) \in X => In(toClient', Y)
  BY <1>4, TakenQueue DEF Alike
<1>8. /\ \A q : Arriving(q)' => Arriving(q)
      /\ \A q : q # r => (Arriving(q)' <=> Arriving(q))
      /\ \A q : Ending(q)' <=> Ending(q)
      /\ Arriving(r) /\ In(toClient, C("connected", r))
  BY <1>5, <1>7 DEF Arriving, Ending
<1>9. /\ attempt[r] = "recorded" /\ sessions[r] = "none" /\ r \notin discarded
      /\ ~In(toClient, C("restored", r)) /\ Once(toClient, C("connected", r))
  BY <1>1, <1>5, <1>8 DEF SessionInv
<1>10. ~In(toClient', C("connected", r)) /\ ~Arriving(r)'
  BY <1>5, <1>7, <1>9 DEF Arriving
<1>11. r \notin missed /\ r \notin live => Ending(r)'
  BY <1>5, Kinds, <1>1, <1>7 DEF SessionInv, Ending
<1>12. PICK old : old = IF IsReconnect(r) THEN None ELSE replaces[r]
  OBVIOUS
<1>13. \/ /\ Discard(r) /\ sessions' = sessions
       \/ /\ discarded' = discarded
          /\ sessions' = [s \in Ids |-> IF s = r THEN "connected"
                                        ELSE IF s = old THEN "none" ELSE sessions[s]]
          /\ IF old # None /\ sessions[old] # "none" THEN Emit(<<[type |-> "disconnect", id |-> old, nr |-> 0]>>)
             ELSE toServer' = toServer
  BY <1>0, <1>12 DEF OnConnected, NoEmit
<1>14. old = None \/ old \in Ids
  BY <1>1, <1>5, <1>12, Kinds DEF Types, TypeOK
<1>15. sessions \in [Ids -> {"none", "connected", "disconnected", "candidate"}]
  BY <1>1 DEF Types, TypeOK
<1> HIDE DEF Arriving, Ending, Leaving
<1>20. ASSUME Discard(r), sessions' = sessions
       PROVE  /\ toServer' \in Seq(ToServer(acts)) /\ discarded' = discarded \cup {r}
              /\ \E n : Alike(toServer, toServer', n) /\ n.type \in {"discard", "disconnect", "nothing"}
              /\ Leaving(r)' /\ \A q : Leaving(q) => Leaving(q)'
              /\ \A q \in Ids : sessions'[q] = "connected" => sessions[q] = "connected"
              /\ \A q \in Ids : sessions[q] = "none" /\ q # r => sessions'[q] = "none"
              /\ \A q \in Ids : sessions[q] = "connected" => sessions'[q] = "connected" \/ Leaving(q)'
              /\ sessions'[r] = "none"
  <2> DEFINE n == [type |-> "discard", id |-> r, nr |-> 0]
  <2>1. n \in ToServer(acts) /\ n.type = "discard" /\ n.id = r
    BY <1>5 DEF ToServer
  <2>2. Emit(<<n>>) /\ discarded' = discarded \cup {r}
    BY <1>20 DEF Discard
  <2>3. /\ toServer' \in Seq(ToServer(acts)) /\ Alike(toServer, toServer', n)
        /\ \A X : In(toServer', X) <=> In(toServer, X) \/ n \in X
    BY <1>1, <1>4, <2>1, <2>2, BrowserSends DEF Types
  <2>4. \A t, q : n \in S(t, q) <=> t = "discard" /\ q = r
    BY <1>4, <2>1, Classes
  <2> HIDE DEF n
  <2>5. Leaving(r)' /\ \A q : Leaving(q) => Leaving(q)'
    BY <2>3, <2>4 DEF Leaving
  <2> QED
    BY <1>9, <1>20, <2>1, <2>2, <2>3, <2>5
<1>21. ASSUME discarded' = discarded,
              sessions' = [s \in Ids |-> IF s = r THEN "connected"
                                         ELSE IF s = old THEN "none" ELSE sessions[s]],
              IF old # None /\ sessions[old] # "none" THEN Emit(<<[type |-> "disconnect", id |-> old, nr |-> 0]>>)
              ELSE toServer' = toServer
       PROVE  /\ toServer' \in Seq(ToServer(acts))
              /\ \E n : Alike(toServer, toServer', n) /\ n.type \in {"discard", "disconnect", "nothing"}
              /\ \A q : Leaving(q) => Leaving(q)'
              /\ sessions'[r] = "connected"
              /\ \A q \in Ids : sessions'[q] = "connected" => sessions[q] = "connected" \/ q = r
              /\ \A q \in Ids : sessions[q] = "none" /\ q # r => sessions'[q] = "none"
              /\ \A q \in Ids : sessions[q] = "connected" => sessions'[q] = "connected" \/ Leaving(q)'
  <2>1. /\ sessions'[r] = "connected"
        /\ \A q \in Ids : sessions'[q] = "connected" => sessions[q] = "connected" \/ q = r
        /\ \A q \in Ids : sessions[q] = "none" /\ q # r => sessions'[q] = "none"
        /\ \A q \in Ids : sessions[q] = "connected" /\ q # old => sessions'[q] = "connected"
    BY <1>5, <1>15, <1>21, Kinds
  <2>2. CASE old # None /\ sessions[old] # "none"
    <3> DEFINE n == [type |-> "disconnect", id |-> old, nr |-> 0]
    <3>1. n \in ToServer(acts) /\ n.type = "disconnect" /\ n.id = old
      BY <1>14, <2>2 DEF ToServer
    <3>2. Emit(<<n>>)
      BY <1>21, <2>2
    <3>3. /\ toServer' \in Seq(ToServer(acts)) /\ Alike(toServer, toServer', n)
          /\ \A X : In(toServer', X) <=> In(toServer, X) \/ n \in X
      BY <1>1, <1>4, <3>1, <3>2, BrowserSends DEF Types
    <3>4. \A t, q : n \in S(t, q) <=> t = "disconnect" /\ q = old
      BY <1>4, <3>1, Classes
    <3> HIDE DEF n
    <3>5. Leaving(old)' /\ \A q : Leaving(q) => Leaving(q)'
      BY <3>3, <3>4 DEF Leaving
    <3> QED
      BY <2>1, <3>1, <3>3, <3>5
  <2>3. CASE ~(old # None /\ sessions[old] # "none")
    BY <1>21, <2>3, SameIsAlike, <1>14, Kinds, <1>1, <2>1 DEF Nothing, Leaving, Types
  <2> QED
    BY <2>2, <2>3
<1>22. /\ toServer' \in Seq(ToServer(acts))
       /\ \E n : Alike(toServer, toServer', n) /\ n.type \in {"discard", "disconnect", "nothing"}
       /\ \A q : Leaving(q) => Leaving(q)'
       /\ \A q \in Ids : sessions'[q] = "connected" => sessions[q] = "connected" \/ q = r
       /\ \A q \in Ids : sessions[q] = "none" /\ q # r => sessions'[q] = "none"
       /\ \A q \in Ids : sessions[q] = "connected" => sessions'[q] = "connected" \/ Leaving(q)'
       /\ sessions'[r] = "connected" \/ Leaving(r)'
       /\ discarded' = discarded \/ (discarded' = discarded \cup {r} /\ sessions'[r] = "none")
  BY <1>13, <1>20, <1>21
<1>23. \A q \in Reqs : attempt'[q] # "recorded" =>
          sessions'[q] = "none" /\ q \notin live' /\ q \notin discarded' /\ ~Arriving(q)' /\ ~Ending(q)'
  BY <1>9, <1>1, <1>2, <1>8, <1>22, Kinds DEF SessionInv
<1>24. \A q \in Ids : Ending(q)' => q \notin live'
  BY <1>1, <1>2, <1>8 DEF SessionInv
<1>25. \A q \in Ids \ missed' :
          /\ sessions'[q] = "connected" => q \in live' \/ Ending(q)'
          /\ q \in live' => sessions'[q] = "connected" \/ Arriving(q)' \/ Leaving(q)'
          /\ q \notin live' => /\ Followed(toClient', C("connected", q), C("disconnected", q))
                               /\ Followed(toClient', C("restored", q), C("disconnected", q))
  BY <1>1, <1>7, <1>8, <1>11, <1>22, <1>2 DEF SessionInv
<1>26. \A q \in Reqs : In(toClient', C("connected", q)) =>
          /\ sessions'[q] = "none" /\ q \notin discarded'
          /\ ~In(toClient', C("restored", q)) /\ Once(toClient', C("connected", q))
  BY <1>1, <1>7, <1>10, <1>22, Kinds DEF SessionInv
<1>27. \A q \in discarded' : sessions'[q] # "connected" /\ ~Arriving(q)'
  BY <1>1, <1>9, Kinds, <1>8, <1>10, <1>22 DEF SessionInv
<1> QED
  BY <1>22, <1>23, <1>24, <1>25, <1>26, <1>27 DEF SessionInv

\* The browser learns of a success.
LEMMA SuccessStep ==
    ASSUME AttemptsInv, OnConnected
    PROVE  AttemptsInv'
<1>0. PICK r : r = Head(toClient).id
  OBVIOUS
<1>1. Types /\ Take("connected") /\ PendingInv /\ CancelInv
  BY DEF AttemptsInv, OnConnected
<1>2. /\ attempt' = attempt /\ live' = live /\ asked' = asked /\ prompts' = prompts
      /\ missed' = missed /\ late' = late /\ closure' = closure /\ honoured' = honoured
      /\ timers' = timers /\ link' = link /\ acts' = acts
  BY DEF OnConnected, serverVars, history
<1>3. /\ Head(toClient) \in ToClient(acts) /\ Head(toClient).type = "connected" /\ link = "up"
      /\ toClient \in Seq(ToClient(acts)) /\ toClient # <<>> /\ toClient' = Tail(toClient)
      /\ toClient' \in Seq(ToClient(acts)) /\ Alike(toClient, toClient', Head(toClient))
      /\ acts \in Numbers
  BY <1>1, BrowserTakes DEF Types
<1>4. r \in Reqs /\ \A t, q : Head(toClient) \in C(t, q) <=> t = "connected" /\ q = r
  BY <1>0, <1>3, Fields, Classes
<1>5. SessionInv' /\ toServer' \in Seq(ToServer(acts))
  BY SuccessHeard
<1>6. PICK n : Alike(toServer, toServer', n) /\ n.type \in {"discard", "disconnect", "nothing"}
  BY SuccessHeard
<1>7. r \in Ids /\ r # None /\ None \notin Requests /\ paneMap \subseteq {current}
  BY <1>1, <1>4, Kinds DEF PendingInv
<1>8. /\ gateway' = gateway \ {r} /\ cancelled' = cancelled \ {r}
      /\ completed' = IF closure[r] # 0 THEN completed \cup {r} ELSE completed
  BY <1>0 DEF OnConnected
<1>9. ASSUME r \in cancelled \/ (r # current /\ ~IsReconnect(r))
       PROVE  /\ TypeOK' /\ paneMap' \subseteq {current'}
              /\ \A q \in Reqs : StillPending(q)' => StillPending(q) /\ q # r
              /\ banner' \in {banner, None} /\ (banner' \in Requests /\ banner' = current => banner' = current')
  BY <1>0, <1>9, <1>1, <1>2, <1>4, <1>8, <1>7 DEF OnConnected, Discard, Types, TypeOK, PendingInv,
     StillPending
<1>10. ASSUME ~(r \in cancelled \/ (r # current /\ ~IsReconnect(r)))
       PROVE  /\ TypeOK' /\ paneMap' \subseteq {current'}
              /\ \A q \in Reqs : StillPending(q)' => StillPending(q) /\ q # r
              /\ banner' \in {banner, None} /\ (banner' \in Requests /\ banner' = current => banner' = current')
  BY <1>0, <1>10, <1>1, <1>2, <1>4, <1>8, <1>7, Kinds DEF OnConnected, Types, TypeOK, StillPending
<1>11. /\ TypeOK' /\ paneMap' \subseteq {current'}
       /\ \A q \in Reqs : StillPending(q)' => StillPending(q) /\ q # r
       /\ banner' \in {banner, None} /\ (banner' \in Requests /\ banner' = current => banner' = current')
  BY <1>9, <1>10
<1>12. Types'
  BY <1>1, <1>2, <1>3, <1>5, <1>11 DEF Types
<1>13. \A q \in Reqs : Dead(q)' <=> Dead(q)
  BY <1>2 DEF Dead
<1>14. PendingInv'
  <2>1. \A q : n \notin S("cancel", q) /\ n \notin S("connect", q)
    BY <1>6 DEF S
  <2>2. /\ \A q : In(toServer', S("cancel", q)) <=> In(toServer, S("cancel", q))
        /\ \A q : In(toServer', S("connect", q)) <=> In(toServer, S("connect", q))
        /\ \A q : Once(toServer, S("connect", q)) => Once(toServer', S("connect", q))
        /\ \A q : Preceded(toServer, S("cancel", q), S("connect", q)) =>
                      Preceded(toServer', S("cancel", q), S("connect", q))
    BY <1>6, <2>1 DEF Alike
  <2>3. /\ \A q : In(toClient', C("ack", q)) <=> In(toClient, C("ack", q))
        /\ \A q : q # r => (In(toClient', C("connected", q)) <=> In(toClient, C("connected", q)))
    <3>1. \A q : /\ Head(toClient) \notin C("ack", q)
                 /\ q # r => Head(toClient) \notin C("connected", q)
      BY <1>4
    <3> QED
      BY <1>3, <3>1 DEF Alike
  <2> HIDE DEF StillPending
  <2>4. \A q \in Reqs : attempt'[q] = "idle" =>
            /\ ~StillPending(q)' /\ q \notin cancelled'
            /\ ~In(toServer, S("cancel", q))' /\ ~In(toClient, C("ack", q))'
    BY <1>1, <1>2, <1>8, <1>11, <2>2, <2>3 DEF PendingInv
  <2>5. \A q \in Reqs : StillPending(q)' =>
            /\ attempt'[q] = "asking" \/ q \in asked'
            /\ attempt'[q] = "recorded" => In(toClient, C("connected", q))'
    BY <1>1, <1>2, <1>11, <2>3 DEF PendingInv
  <2>6. \A q \in cancelled' : ~StillPending(q)'
    BY <1>1, <1>8, <1>11 DEF PendingInv, Types, TypeOK
  <2>7. \A q \in Reqs : /\ attempt'[q] = "asking" <=> In(toServer, S("connect", q))'
                        /\ Once(toServer, S("connect", q))'
                        /\ attempt'[q] = "asking" => Preceded(toServer, S("cancel", q), S("connect", q))'
    BY <1>1, <1>2, <2>2 DEF PendingInv
  <2> QED
    BY <1>11, <2>4, <2>5, <2>6, <2>7 DEF PendingInv
<1>15. CancelInv'
  <2>1. \A q, a : Head(toClient) \notin Ack(q, a) /\ Head(toClient) \notin NotFound(q, a)
    BY <1>3 DEF Ack, NotFound, C
  <2>2. /\ \A q, a : In(toClient', Ack(q, a)) <=> In(toClient, Ack(q, a))
        /\ \A q, a : q # r /\ Preceded(toClient, NotFound(q, a), C("connected", q)) =>
                         Preceded(toClient', NotFound(q, a), C("connected", q))
    BY <1>3, <1>4, <2>1 DEF Alike
  <2> HIDE DEF StillPending, Dead
  <2>3. \A q \in honoured' : Dead(q)'
    BY <1>1, <1>2, <1>13 DEF CancelInv, Types
  <2>4. \A q \in Reqs : In(toClient, Ack(q, "cancelled"))' => attempt'[q] = "cancelled"
    BY <1>1, <1>2, <2>2 DEF CancelInv
  <2>5. completed \subseteq completed'
    BY <1>8
  <2>6. \A q \in Reqs : StillPending(q)' /\ q \notin completed' /\ ~Dead(q)' /\ closure'[q] # 0 =>
            Preceded(toClient', NotFound(q, closure'[q]), C("connected", q))
    BY <1>1, <1>2, <1>11, <1>13, <2>2, <2>5 DEF CancelInv
  <2> QED
    BY <2>3, <2>4, <2>6 DEF CancelInv
<1>16. BannerInv'
  BY <1>1, <1>2, <1>3, <1>6, <1>11, <1>13, BannersUntouched DEF AttemptsInv
<1> QED
  BY <1>5, <1>12, <1>14, <1>15, <1>16 DEF AttemptsInv

----------------------------------------------------------------------------
(* A failure, a question and an answer are heard.                          *)

\* The browser learns of a failure.
LEMMA FailureHeard ==
    ASSUME AttemptsInv, OnError
    PROVE  AttemptsInv'
<1>0. PICK r : r = Head(toClient).id
  OBVIOUS
<1>1. Types /\ Take("error") /\ PendingInv /\ BannerInv
  BY DEF AttemptsInv, OnError
<1>2. UNCHANGED <<modal, toReplace, closure, completed, discarded, honoured, sessions, timers,
                  link, toServer, serverVars, history, acts, drops>>
  BY DEF OnError
<1>3. /\ Head(toClient) \in ToClient(acts) /\ Head(toClient).type = "error" /\ link = "up"
      /\ toClient \in Seq(ToClient(acts)) /\ toClient # <<>> /\ toClient' = Tail(toClient)
      /\ toClient' \in Seq(ToClient(acts)) /\ Alike(toClient, toClient', Head(toClient))
      /\ acts \in Numbers
  BY <1>1, BrowserTakes DEF Types
<1>4. r \in Reqs /\ \A t, q : Head(toClient) \in C(t, q) <=> t = "error" /\ q = r
  BY <1>0, <1>3, Fields, Classes
<1>5. /\ gateway' = gateway \ {r} /\ cancelled' = cancelled \ {r}
      /\ replaces' = [q \in Requests |-> IF q = r THEN None ELSE replaces[q]]
      /\ banner' = IF banner = r /\ (r \in cancelled \/ r = current \/ IsReconnect(r))
                   THEN None ELSE banner
      /\ paneMap' = IF r \in cancelled \/ r = current THEN paneMap \ {r} ELSE paneMap
      /\ current' = IF r = current THEN None ELSE current
      /\ modalRequest' = IF r = current /\ r \notin cancelled /\ modalRequest = r
                         THEN None ELSE modalRequest
  BY <1>0 DEF OnError
<1>6. /\ attempt' = attempt /\ live' = live /\ asked' = asked /\ prompts' = prompts
      /\ missed' = missed /\ late' = late /\ closure' = closure /\ honoured' = honoured
      /\ toServer' = toServer /\ sessions' = sessions /\ discarded' = discarded /\ completed' = completed
  BY <1>2 DEF serverVars, history
<1>7. TypeOK'
  BY <1>1, <1>2, <1>4, <1>5 DEF Types, TypeOK, serverVars
<1>8. Types'
  BY <1>1, <1>2, <1>3, <1>5, <1>7 DEF Types, serverVars
<1>9. /\ Alike(toServer, toServer', Nothing) /\ Nothing.type = "nothing"
  BY <1>6, SameIsAlike DEF Nothing
<1>10. r # None /\ paneMap \subseteq {current} /\ cancelled \subseteq Reqs
  BY <1>1, <1>4, Kinds DEF PendingInv, Types, TypeOK
<1>11. paneMap' \subseteq {current'} /\ (\A q \in Reqs : StillPending(q)' => StillPending(q))
  BY <1>5, <1>10, Kinds DEF StillPending
<1>12. \A q \in Reqs : Dead(q)' <=> Dead(q)
  BY <1>6 DEF Dead
<1>13. SessionInv'
  BY <1>1, <1>3, <1>6, <1>9, SessionsUntouched DEF AttemptsInv
<1>14. PendingInv'
  BY <1>5, <1>10, <1>1, <1>3, <1>6, <1>9, <1>11, PendingUntouched
<1>15. CancelInv'
  BY <1>1, <1>3, <1>6, <1>11, <1>12, CancelsUntouched DEF AttemptsInv
<1>16. BannerInv'
  <2>1. banner' # None => banner' = banner /\ banner # r
    BY <1>1, <1>4, <1>5, Kinds DEF BannerInv
  <2>2. banner' \in Requests => banner' = current'
    BY <1>1, <1>5, <2>1, Kinds DEF BannerInv
  <2>3. \A q : Head(toClient) \notin C("banner", q)
    BY <1>4
  <2>4. /\ \A q : In(toClient', C("banner", q)) <=> In(toClient, C("banner", q))
        /\ \A q : Once(toClient, C("banner", q)) => Once(toClient', C("banner", q))
        /\ \A q : Followed(toClient, C("banner", q), Outcome(q)) =>
                      Followed(toClient', C("banner", q), Outcome(q))
    BY <1>3, <2>3 DEF Alike
  <2>5. \A q : q # r => (In(toClient', Outcome(q))
                             <=> In(toClient, Outcome(q)))
    BY <1>3, <1>4 DEF Ack, Outcome, Alike
  <2>6. \A q \in Reqs : Shown(q)' => Shown(q)
    BY <2>1, <2>4, Kinds DEF Shown
  <2>7. \A q : Decided(q)' <=> Decided(q)
    BY <1>6 DEF Decided
  <2> HIDE DEF Shown, Decided
  <2>8. \A q \in Reqs : Shown(q)' => /\ attempt'[q] \in {"running", "failed", "cancelled"}
                                     /\ q \in asked' /\ ~Decided(q)'
    BY <1>1, <1>6, <2>6, <2>7 DEF BannerInv
  <2>9. \A q \in Reqs : attempt'[q] = "running" /\ (Shown(q)' \/ Decided(q)') => q \in prompts'
    BY <1>1, <1>6, <2>6, <2>7 DEF BannerInv
  <2>10. banner' # None /\ banner' \notin late' \cup prompts' =>
            In(toClient', Outcome(banner'))
    BY <1>1, <1>6, <2>1, <2>5 DEF BannerInv
  <2>11. \A q \in Reqs : In(toClient', C("banner", q)) => banner' # q
    BY <1>1, <2>1, <2>4, Kinds DEF BannerInv
  <2> QED
    BY <1>1, <1>6, <2>2, <2>4, <2>7, <2>8, <2>9, <2>10, <2>11 DEF BannerInv
<1> QED
  BY <1>8, <1>13, <1>14, <1>15, <1>16 DEF AttemptsInv

\* The browser hears a banner question.
LEMMA QuestionHeard ==
    ASSUME AttemptsInv, OnAuthBanner
    PROVE  AttemptsInv'
<1>0. PICK r : r = Head(toClient).id
  OBVIOUS
<1>1. Types /\ Take("banner") /\ PendingInv /\ BannerInv
  BY DEF AttemptsInv, OnAuthBanner
<1>2. UNCHANGED <<attemptVars, gateway, closure, completed, cancelled, discarded, honoured,
                  sessions, timers, link, serverVars, history, acts, drops>>
  BY DEF OnAuthBanner
<1>3. /\ Head(toClient) \in ToClient(acts) /\ Head(toClient).type = "banner" /\ link = "up"
      /\ toClient \in Seq(ToClient(acts)) /\ toClient # <<>> /\ toClient' = Tail(toClient)
      /\ toClient' \in Seq(ToClient(acts)) /\ Alike(toClient, toClient', Head(toClient))
      /\ acts \in Numbers
  BY <1>1, BrowserTakes DEF Types
<1>4. r \in Reqs /\ \A t, q : Head(toClient) \in C(t, q) <=> t = "banner" /\ q = r
  BY <1>0, <1>3, Fields, Classes
<1>5. /\ current' = current /\ paneMap' = paneMap /\ gateway' = gateway
      /\ completed' = completed /\ cancelled' = cancelled /\ closure' = closure
      /\ discarded' = discarded /\ honoured' = honoured /\ sessions' = sessions
      /\ attempt' = attempt /\ asked' = asked /\ prompts' = prompts
      /\ live' = live /\ missed' = missed /\ late' = late
  BY <1>2 DEF history, serverVars, attemptVars
<1>6. \/ (r = current \/ IsReconnect(r)) /\ banner' = r /\ toServer' = toServer
      \/ Emit(<<[type |-> "decline", id |-> r, nr |-> 0]>>) /\ banner' = banner
  BY <1>0 DEF OnAuthBanner, NoEmit
<1>7. /\ \A X : In(toClient', X) => In(toClient, X)
      /\ \A X : Head(toClient) \in X => In(toClient, X)
      /\ \A X : Once(toClient, X) => Once(toClient', X)
      /\ \A X : Once(toClient, X) /\ Head(toClient) \in X => ~In(toClient', X)
      /\ \A X : Head(toClient) \notin X => (In(toClient', X) <=> In(toClient, X))
      /\ \A X, Y : Followed(toClient, X, Y) => Followed(toClient', X, Y)
      /\ \A X, Y : Followed(toClient, X, Y) /\ Head(toClient) \in X => In(toClient', Y)
  BY <1>3, TakenQueue DEF Alike
<1>8. Head(toClient) \in C("banner", r)
  BY <1>4
<1>9. /\ Shown(r) /\ banner # r /\ ~In(toClient', C("banner", r))
      /\ attempt[r] \in {"running", "failed", "cancelled"} /\ r \in asked /\ ~Decided(r)
      /\ attempt[r] = "running" => r \in prompts
      /\ r \notin prompts => In(toClient', Outcome(r))
  BY <1>7, <1>8, <1>1, <1>4 DEF Shown, BannerInv
<1>10. /\ toServer' \in Seq(ToServer(acts))
       /\ \E n : Alike(toServer, toServer', n) /\ n.type \in {"decline", "nothing"}
       /\ \A q \in Reqs : Decided(q)' => Decided(q) \/ (q = r /\ banner' = banner)
  <2>1. CASE toServer' = toServer
    <3>1. Alike(toServer, toServer', Nothing) /\ Nothing.type = "nothing"
      BY <2>1, SameIsAlike DEF Nothing
    <3>2. \A q \in Reqs : Decided(q)' => Decided(q)
      BY <2>1 DEF Decided
    <3> QED
      BY <1>1, <2>1, <3>1, <3>2 DEF Types
  <2>2. CASE Emit(<<[type |-> "decline", id |-> r, nr |-> 0]>>) /\ banner' = banner
    <3> DEFINE n == [type |-> "decline", id |-> r, nr |-> 0]
    <3>1. n \in ToServer(acts) /\ n.type = "decline" /\ n.id = r
      BY <1>4 DEF ToServer
    <3>2. /\ toServer' \in Seq(ToServer(acts)) /\ Alike(toServer, toServer', n)
          /\ \A X : In(toServer', X) <=> In(toServer, X) \/ n \in X
      BY <1>1, <1>3, <2>2, <3>1, BrowserSends DEF Types
    <3>3. \A t, q : n \in S(t, q) => q = r
      BY <3>1 DEF S
    <3> HIDE DEF n
    <3>4. \A q \in Reqs : Decided(q)' => Decided(q) \/ q = r
      BY <3>2, <3>3 DEF Decided
    <3> QED
      BY <2>2, <3>1, <3>2, <3>4
  <2> QED
    BY <1>6, <2>1, <2>2
<1>11. PICK n : Alike(toServer, toServer', n) /\ n.type \in {"decline", "nothing"}
  BY <1>10
<1>12. banner' = r \/ banner' = banner
  BY <1>6
<1>13. Types'
  BY <1>1, <1>2, <1>3, <1>4, <1>10, <1>12 DEF Types, TypeOK, attemptVars, serverVars
<1>14. \A q \in Reqs : (StillPending(q)' <=> StillPending(q)) /\ (Dead(q)' <=> Dead(q))
  BY <1>5 DEF StillPending, Dead
<1>15. SessionInv'
  BY <1>1, <1>3, <1>5, <1>11, SessionsUntouched DEF AttemptsInv
<1>16. PendingInv'
  BY <1>1, <1>3, <1>5, <1>11, <1>14, PendingUntouched DEF PendingInv, Types, TypeOK
<1>17. CancelInv'
  BY <1>1, <1>3, <1>5, <1>14, CancelsUntouched DEF AttemptsInv
<1>18. BannerInv'
  <2>1. \A q \in Reqs : In(toClient', C("banner", q)) => In(toClient, C("banner", q)) /\ q # r
    BY <1>7, <1>9
  <2>2. \A q \in Reqs : Shown(q)' => Shown(q)
    BY <1>9, <1>12, <2>1 DEF Shown
  <2>3. banner' = banner => ~Shown(r)'
    BY <1>9 DEF Shown
  <2>4. \A q \in Reqs : q # r => (In(toClient', Outcome(q))
                                     <=> In(toClient, Outcome(q)))
    BY <1>3, <1>4, <1>7 DEF Ack, C, Outcome
  <2>5. prompts \subseteq Reqs /\ (banner # None => banner \in Reqs)
    BY <1>1 DEF Types, TypeOK
  <2> HIDE DEF Shown, Decided
  <2>6. \A q \in Reqs : Shown(q)' => /\ attempt'[q] \in {"running", "failed", "cancelled"}
                                     /\ q \in asked' /\ ~Decided(q)'
    BY <1>1, <1>5, <1>10, <2>2, <2>3 DEF BannerInv
  <2>7. \A q \in Reqs : Decided(q)' => attempt'[q] \notin {"idle", "asking"}
    BY <1>1, <1>5, <1>9, <1>10 DEF BannerInv
  <2>8. \A q \in Reqs : attempt'[q] = "running" /\ (Shown(q)' \/ Decided(q)') => q \in prompts'
    BY <1>1, <1>5, <1>9, <1>10, <2>2 DEF BannerInv
  <2>9. \A q \in Reqs : /\ In(toClient', C("banner", q)) => banner' # q
                        /\ Once(toClient', C("banner", q))
                        /\ q \notin prompts' => Followed(toClient', C("banner", q), Outcome(q))
    BY <1>1, <1>5, <1>7, <1>12, <2>1 DEF BannerInv
  <2>10. banner' \in Requests => banner' = current'
    BY <1>1, <1>4, <1>5, <1>6, Kinds DEF BannerInv
  <2>11. banner' # None /\ banner' \notin late' \cup prompts' =>
            In(toClient', Outcome(banner'))
    BY <1>1, <1>5, <1>9, <1>12, <2>4, <2>5 DEF BannerInv
  <2>12. \A q \in prompts' : attempt'[q] = "running"
    BY <1>1, <1>5 DEF BannerInv
  <2> QED
    BY <2>6, <2>7, <2>8, <2>9, <2>10, <2>11, <2>12 DEF BannerInv
<1> QED
  BY <1>13, <1>15, <1>16, <1>17, <1>18 DEF AttemptsInv

\* A cancellation settles, or its answer is too late: what the invariant says of
\* messages and attempts when no attempt is taken up, only dead ones are reported,
\* and the question of an attempt the answer ended goes.
LEMMA AnswerTaken ==
    ASSUME AttemptsInv, NEW m, Alike(toClient, toClient', m), m.type \in {"ack", "nothing"},
           \A X : In(toClient', X) => In(toClient, X),
           \A X, Y : m \notin Y /\ Preceded(toClient, X, Y) => Preceded(toClient', X, Y),
           UNCHANGED <<discarded, sessions, toServer, serverVars, missed>>, late \subseteq late',
           \A q \in Reqs : StillPending(q)' => StillPending(q), paneMap' \subseteq {current'},
           cancelled' \subseteq Reqs,
           \A q \in cancelled' \ cancelled : attempt[q] # "idle" /\ ~StillPending(q)',
           \A q \in honoured' : q \in honoured \/ Dead(q),
           \A q \in Reqs : closure'[q] \in {0, closure[q]},
           \A q \in completed : q \in completed' \/ closure'[q] = 0,
           banner' \in {banner, None}, banner' \in Requests /\ banner' = current => banner' = current',
           banner' # None => banner' \in late' \/ m \notin Ack(banner', "cancelled")
    PROVE  SessionInv' /\ PendingInv' /\ CancelInv' /\ BannerInv'
<1>1. Types /\ PendingInv /\ CancelInv /\ BannerInv /\ honoured \subseteq Reqs /\ completed \subseteq Reqs
  BY DEF AttemptsInv, Types, TypeOK
<1>2. /\ attempt' = attempt /\ live' = live /\ asked' = asked /\ prompts' = prompts
      /\ missed' = missed /\ toServer' = toServer /\ sessions' = sessions /\ discarded' = discarded
  BY DEF serverVars
<1>3. /\ Alike(toServer, toServer', Nothing) /\ Nothing.type = "nothing"
  BY <1>2, SameIsAlike DEF Nothing
<1>4. \A q : Dead(q)' <=> Dead(q)
  BY <1>2 DEF Dead
<1>5. \A q : m \notin C("connected", q) /\ m \notin C("banner", q) /\ m \notin C("error", q)
  BY DEF C
<1>6. SessionInv'
  BY <1>1, <1>2, <1>3, SessionsUntouched DEF AttemptsInv
<1>7. PendingInv'
  <2>1. \A q : In(toClient', C("connected", q)) <=> In(toClient, C("connected", q))
    BY <1>5 DEF Alike
  <2> HIDE DEF StillPending
  <2>2. \A q \in Reqs : attempt'[q] = "idle" =>
            /\ ~StillPending(q)' /\ q \notin cancelled'
            /\ ~In(toServer', S("cancel", q)) /\ ~In(toClient', C("ack", q))
    BY <1>1, <1>2 DEF PendingInv
  <2>3. \A q \in Reqs : StillPending(q)' =>
            /\ attempt'[q] = "asking" \/ q \in asked'
            /\ attempt'[q] = "recorded" => In(toClient', C("connected", q))
    BY <1>1, <1>2, <2>1 DEF PendingInv
  <2>4. \A q \in cancelled' : ~StillPending(q)'
    BY <1>1 DEF PendingInv
  <2>5. \A q \in Reqs : /\ attempt'[q] = "asking" <=> In(toServer', S("connect", q))
                        /\ Once(toServer', S("connect", q))
                        /\ attempt'[q] = "asking" => Preceded(toServer', S("cancel", q), S("connect", q))
    BY <1>1, <1>2 DEF PendingInv
  <2> QED
    BY <2>2, <2>3, <2>4, <2>5 DEF PendingInv
<1>8. CancelInv'
  <2>1. \A q, a : Preceded(toClient, NotFound(q, a), C("connected", q)) =>
                      Preceded(toClient', NotFound(q, a), C("connected", q))
    BY <1>5
  <2> HIDE DEF StillPending, Dead
  <2>2. \A q \in honoured' : Dead(q)'
    BY <1>1, <1>4 DEF CancelInv
  <2>3. \A q \in Reqs : In(toClient', Ack(q, "cancelled")) => attempt'[q] = "cancelled"
    BY <1>1, <1>2 DEF CancelInv
  <2>4. \A q \in Reqs : StillPending(q)' /\ q \notin completed' /\ ~Dead(q)' /\ closure'[q] # 0 =>
            Preceded(toClient', NotFound(q, closure'[q]), C("connected", q))
    BY <1>1, <1>4, <2>1 DEF CancelInv
  <2> QED
    BY <2>2, <2>3, <2>4 DEF CancelInv
<1>9. BannerInv'
  <2>1. /\ \A q : In(toClient', C("banner", q)) <=> In(toClient, C("banner", q))
        /\ \A q : Once(toClient, C("banner", q)) => Once(toClient', C("banner", q))
        /\ \A q : Followed(toClient, C("banner", q), Outcome(q)) =>
                      Followed(toClient', C("banner", q), Outcome(q))
    BY <1>5 DEF Alike
  <2>2. \A q : m \notin Ack(q, "cancelled") => (In(toClient', Outcome(q))
                             <=> In(toClient, Outcome(q)))
    BY <1>5 DEF Outcome, Alike
  <2>3. \A q \in Reqs : Shown(q)' => Shown(q)
    BY <2>1, Kinds DEF Shown
  <2>4. \A q : Decided(q)' <=> Decided(q)
    BY <1>2 DEF Decided
  <2> HIDE DEF Shown, Decided
  <2>5. \A q \in Reqs : Shown(q)' => /\ attempt'[q] \in {"running", "failed", "cancelled"}
                                     /\ q \in asked' /\ ~Decided(q)'
    BY <1>1, <1>2, <2>3, <2>4 DEF BannerInv
  <2>6. \A q \in Reqs : attempt'[q] = "running" /\ (Shown(q)' \/ Decided(q)') => q \in prompts'
    BY <1>1, <1>2, <2>3, <2>4 DEF BannerInv
  <2>7. banner' # None /\ banner' \notin late' \cup prompts' =>
            In(toClient', Outcome(banner'))
    BY <1>1, <1>2, <2>2 DEF BannerInv
  <2>8. \A q \in Reqs : In(toClient', C("banner", q)) => banner' # q
    BY <1>1, <2>1, Kinds DEF BannerInv
  <2>9. banner' \in Requests => banner' = current'
    BY <1>1, Kinds DEF BannerInv
  <2> QED
    BY <1>1, <1>2, <2>1, <2>4, <2>5, <2>6, <2>7, <2>8, <2>9 DEF BannerInv
<1> QED
  BY <1>6, <1>7, <1>8, <1>9

\* What settling a cancellation does to the attempts of the browser.
LEMMA Settled ==
    ASSUME Types, PendingInv, NEW r \in Reqs, NEW a, SettleCancellation(r, a),
           a = "cancelled" => attempt[r] # "idle",
           NEW ends, ends = (a = "cancelled" \/ (a = "not_found" /\ r \notin completed /\ StillPending(r)))
    PROVE  /\ current' \in Requests \cup {None} /\ modal' = modal /\ modalRequest' = modalRequest
           /\ toReplace' = toReplace /\ replaces' \in [Requests -> Ids \cup {None}]
           /\ paneMap' \subseteq Requests /\ gateway' \subseteq Reqs /\ discarded' = discarded
           /\ closure' = [closure EXCEPT ![r] = 0] /\ completed' = completed \ {r}
           /\ honoured' = (IF ends THEN honoured \cup {r} ELSE honoured)
           /\ \A q \in Reqs : StillPending(q)' => StillPending(q)
           /\ paneMap' \subseteq {current'} /\ cancelled' \subseteq Reqs
           /\ \A q \in cancelled' \ cancelled : attempt[q] # "idle" /\ ~StillPending(q)'
           /\ banner' \in {banner, None} /\ (banner' \in Requests /\ banner' = current => banner' = current')
           /\ ends => banner' # r
<1>1. /\ paneMap \subseteq {current} /\ r # None /\ None \notin Requests
      /\ current \in Requests \cup {None} /\ replaces \in [Requests -> Ids \cup {None}]
      /\ paneMap \subseteq Requests /\ gateway \subseteq Reqs /\ cancelled \subseteq Reqs
      /\ (StillPending(r) => attempt[r] # "idle")
  BY Kinds DEF PendingInv, Types, TypeOK
<1>2. /\ closure' = [closure EXCEPT ![r] = 0] /\ completed' = completed \ {r}
      /\ honoured' = (IF ends THEN honoured \cup {r} ELSE honoured)
      /\ modal' = modal /\ modalRequest' = modalRequest /\ toReplace' = toReplace /\ discarded' = discarded
      /\ IF ends THEN Finish(r)
         ELSE UNCHANGED <<gateway, replaces, cancelled, banner, paneMap, current>>
  BY DEF SettleCancellation
<1>3. CASE ends
  <2>1. /\ gateway' = gateway \ {r}
        /\ replaces' = [q \in Requests |-> IF q = r THEN None ELSE replaces[q]]
        /\ cancelled' = cancelled \cup {r}
        /\ banner' = (IF banner = r THEN None ELSE banner)
        /\ paneMap' = paneMap \ {r}
        /\ current' = IF r = current THEN None ELSE current
    BY <1>2, <1>3 DEF Finish
  <2>2. ~StillPending(r)' /\ \A q \in Reqs : StillPending(q)' => StillPending(q)
    BY <1>1, <2>1, Kinds DEF StillPending
  <2>3. attempt[r] # "idle"
    BY <1>1, <1>3
  <2>4. /\ banner' \in {banner, None} /\ (banner' \in Requests /\ banner' = current => banner' = current')
        /\ banner' # r
    BY <1>1, <2>1
  <2>5. /\ current' \in Requests \cup {None} /\ replaces' \in [Requests -> Ids \cup {None}]
        /\ paneMap' \subseteq {current'} /\ paneMap' \subseteq Requests /\ gateway' \subseteq Reqs
        /\ cancelled' \subseteq Reqs /\ cancelled' \ cancelled \subseteq {r}
    BY <1>1, <2>1
  <2> HIDE DEF StillPending
  <2> QED
    BY <1>2, <2>2, <2>3, <2>4, <2>5
<1>4. CASE ~ends
  BY <1>2, <1>4, <1>1 DEF StillPending
<1> QED
  BY <1>3, <1>4

\* The browser gives up waiting for the answer to a cancellation.
LEMMA AckTimeoutStep ==
    ASSUME AttemptsInv, NEW r \in Reqs, AckTimeout(r)
    PROVE  AttemptsInv'
<1>1. Types /\ PendingInv /\ CancelInv
  BY DEF AttemptsInv
<1>2. /\ SettleCancellation(r, "ack_timeout")
      /\ UNCHANGED <<sessions, timers, link, toServer, toClient, serverVars, history, acts, drops>>
  BY DEF AckTimeout
<1>3. PICK ends : ends = ("ack_timeout" = "cancelled" \/ ("ack_timeout" = "not_found" /\ r \notin completed /\ StillPending(r)))
  OBVIOUS
<1>4. ~ends
  BY <1>3
<1>5. /\ current' \in Requests \cup {None} /\ modal' = modal /\ modalRequest' = modalRequest
      /\ toReplace' = toReplace /\ replaces' \in [Requests -> Ids \cup {None}]
      /\ paneMap' \subseteq Requests /\ gateway' \subseteq Reqs /\ discarded' = discarded
      /\ closure' = [closure EXCEPT ![r] = 0] /\ completed' = completed \ {r}
      /\ honoured' = (IF ends THEN honoured \cup {r} ELSE honoured)
      /\ \A q \in Reqs : StillPending(q)' => StillPending(q)
      /\ paneMap' \subseteq {current'} /\ cancelled' \subseteq Reqs
      /\ \A q \in cancelled' \ cancelled : attempt[q] # "idle" /\ ~StillPending(q)'
      /\ banner' \in {banner, None} /\ (banner' \in Requests /\ banner' = current => banner' = current')
  BY <1>1, <1>2, <1>3, Settled
<1>6. /\ closure \in [Reqs -> 0 .. MaxActs] /\ closure' \in [Reqs -> 0 .. MaxActs]
      /\ \A q \in Reqs : closure'[q] \in {0, closure[q]}
      /\ closure'[r] = 0
  BY <1>1, <1>5, AttemptsAssumption DEF Types, TypeOK
<1>7. \A q \in Reqs : closure'[q] <= acts
  BY <1>1, <1>6, AttemptsAssumption DEF Types, Numbers
<1>8. TypeOK'
  BY <1>1, <1>2, <1>5, <1>6 DEF Types, TypeOK, serverVars
<1>9. Types'
  BY <1>1, <1>2, <1>4, <1>5, <1>7, <1>8 DEF Types, serverVars
<1>10. SessionInv' /\ PendingInv' /\ CancelInv' /\ BannerInv'
  <2>1. Alike(toClient, toClient', Nothing) /\ Nothing.type = "nothing" /\ toClient' = toClient
    BY <1>2, SameIsAlike DEF Nothing
  <2>2. UNCHANGED <<discarded, sessions, toServer, serverVars, missed>> /\ late \subseteq late'
    BY <1>2, <1>5 DEF history
  <2>3. Nothing \notin Ack(banner', "cancelled")
    BY <2>1 DEF Ack, C
  <2>4. \A q \in completed : q \in completed' \/ closure'[q] = 0
    BY <1>5, <1>6
  <2>5. \A q \in honoured' : q \in honoured \/ Dead(q)
    BY <1>4, <1>5
  <2>6. /\ \A X : In(toClient', X) => In(toClient, X)
        /\ \A X, Y : Nothing \notin Y /\ Preceded(toClient, X, Y) => Preceded(toClient', X, Y)
    BY <2>1
  <2> QED
    BY <1>5, <1>6, <2>1, <2>2, <2>3, <2>4, <2>5, <2>6, AnswerTaken
<1> QED
  BY <1>9, <1>10 DEF AttemptsInv

\* The browser hears the answer to a cancellation.
LEMMA AckStep ==
    ASSUME AttemptsInv, OnCancelAck
    PROVE  AttemptsInv'
<1>0. PICK m, r, a : m = Head(toClient) /\ r = m.id /\ a = m.answer
  OBVIOUS
<1>1. Types /\ Take("ack") /\ PendingInv /\ CancelInv
  BY DEF AttemptsInv, OnCancelAck
<1>2. UNCHANGED <<sessions, timers, link, toServer, serverVars, missed, acts, drops>>
  BY DEF OnCancelAck
<1>3. /\ m \in ToClient(acts) /\ m.type = "ack" /\ link = "up"
      /\ toClient \in Seq(ToClient(acts)) /\ toClient # <<>> /\ toClient' = Tail(toClient)
      /\ toClient' \in Seq(ToClient(acts)) /\ Alike(toClient, toClient', m)
      /\ acts \in Numbers
  BY <1>0, <1>1, BrowserTakes DEF Types
<1>4. /\ r \in Reqs /\ m.nr \in 1 .. acts /\ m \in C("ack", r) /\ m \in Ack(r, a)
      /\ a = "not_found" => m \in NotFound(r, m.nr)
      /\ \A q : m \in Ack(q, "cancelled") <=> q = r /\ a = "cancelled"
  BY <1>0, <1>3, Fields, Classes
<1>5. /\ \A X : In(toClient', X) => In(toClient, X)
      /\ \A X : m \in X => In(toClient, X)
      /\ \A X, Y : m \notin Y /\ Preceded(toClient, X, Y) => Preceded(toClient', X, Y)
      /\ \A X, Y : Preceded(toClient, X, Y) => m \notin X
  BY <1>0, <1>3, TakenQueue
<1>6. attempt[r] # "idle" /\ (a = "cancelled" => attempt[r] = "cancelled")
  BY <1>1, <1>4, <1>5 DEF PendingInv, CancelInv
<1>7. CASE closure[r] = m.nr
  <2>1. SettleCancellation(r, a) /\ late' = late
    BY <1>0, <1>7 DEF OnCancelAck
  <2>2. PICK ends : ends = (a = "cancelled" \/ (a = "not_found" /\ r \notin completed /\ StillPending(r)))
    OBVIOUS
  <2>3. ends => Dead(r)
    <3>1. CASE a = "cancelled"
      BY <1>6, <3>1 DEF Dead
    <3>2. CASE a = "not_found" /\ r \notin completed /\ StillPending(r)
      <4>1. closure[r] # 0 /\ m \in NotFound(r, closure[r])
        BY <1>3, <1>4, <1>7, <3>2, AttemptsAssumption DEF Numbers
      <4>2. ~Preceded(toClient, NotFound(r, closure[r]), C("connected", r))
        BY <1>5, <4>1
      <4> HIDE DEF StillPending, Dead
      <4> QED
        BY <1>1, <1>4, <3>2, <4>1, <4>2 DEF CancelInv
    <3> QED
      BY <2>2, <3>1, <3>2
  <2>5. /\ current' \in Requests \cup {None} /\ modal' = modal /\ modalRequest' = modalRequest
        /\ toReplace' = toReplace /\ replaces' \in [Requests -> Ids \cup {None}]
        /\ paneMap' \subseteq Requests /\ gateway' \subseteq Reqs /\ discarded' = discarded
        /\ closure' = [closure EXCEPT ![r] = 0] /\ completed' = completed \ {r}
        /\ honoured' = (IF ends THEN honoured \cup {r} ELSE honoured)
        /\ \A q \in Reqs : StillPending(q)' => StillPending(q)
        /\ paneMap' \subseteq {current'} /\ cancelled' \subseteq Reqs
        /\ \A q \in cancelled' \ cancelled : attempt[q] # "idle" /\ ~StillPending(q)'
        /\ banner' \in {banner, None} /\ (banner' \in Requests /\ banner' = current => banner' = current')
        /\ ends => banner' # r
    BY <1>1, <1>4, <1>6, <2>1, <2>2, Settled
  <2>6. /\ closure \in [Reqs -> 0 .. MaxActs] /\ closure' \in [Reqs -> 0 .. MaxActs]
        /\ \A q \in Reqs : closure'[q] \in {0, closure[q]}
        /\ closure'[r] = 0
    BY <1>1, <1>4, <2>5, AttemptsAssumption DEF Types, TypeOK
  <2>7. \A q \in Reqs : closure'[q] <= acts
    BY <1>1, <2>6, AttemptsAssumption DEF Types, Numbers
  <2>8. TypeOK'
    BY <1>1, <1>2, <2>5, <2>6 DEF Types, TypeOK, serverVars
  <2>9. honoured' \subseteq Reqs
    BY <1>1, <1>4, <2>5 DEF Types
  <2>10. Types'
    BY <1>1, <1>2, <1>3, <2>5, <2>7, <2>8, <2>9 DEF Types, serverVars
  <2>11. SessionInv' /\ PendingInv' /\ CancelInv' /\ BannerInv'
    <3>1. UNCHANGED <<discarded, sessions, toServer, serverVars, missed>> /\ late \subseteq late'
      BY <1>2, <2>1, <2>5
    <3>2. banner' # None => banner' \in late' \/ m \notin Ack(banner', "cancelled")
      BY <1>4, <2>2, <2>5
    <3>3. \A q \in completed : q \in completed' \/ closure'[q] = 0
      BY <2>5, <2>6
    <3>4. \A q \in honoured' : q \in honoured \/ Dead(q)
      BY <2>3, <2>5
    <3> QED
      BY <1>3, <1>5, <2>5, <2>6, <3>1, <3>2, <3>3, <3>4, AnswerTaken
  <2> QED
    BY <2>10, <2>11 DEF AttemptsInv
<1>8. CASE closure[r] # m.nr
  <2>1. /\ late' = IF a = "cancelled" THEN late \cup {r} ELSE late
        /\ UNCHANGED <<attemptVars, cancelVars>>
    BY <1>0, <1>8 DEF OnCancelAck
  <2>2. Types'
    BY <1>1, <1>2, <1>3, <2>1 DEF Types, TypeOK, attemptVars, cancelVars, serverVars
  <2>3. SessionInv' /\ PendingInv' /\ CancelInv' /\ BannerInv'
    BY <1>2, <2>1, <1>4, <1>1, <1>3, <1>5, AnswerTaken DEF cancelVars, attemptVars, StillPending,
       PendingInv, Types, TypeOK
  <2> QED
    BY <2>2, <2>3 DEF AttemptsInv
<1> QED
  BY <1>7, <1>8

\* An identifier is forgotten that no message speaks of any more.
LEMMA ForgetStep ==
    ASSUME AttemptsInv, NEW r \in Reqs, ForgetTransientId(r)
    PROVE  AttemptsInv'
<1>1. Types /\ PendingInv /\ CancelInv
  BY DEF AttemptsInv
<1>2. UNCHANGED <<attemptVars, gateway, banner, closure, honoured, sessions, timers, link,
                  toServer, toClient, serverVars, history, acts, drops>>
  BY DEF ForgetTransientId
<1>3. /\ cancelled' = cancelled \ {r} /\ completed' = completed \ {r} /\ discarded' = discarded \ {r}
      /\ attempt[r] \in {"recorded", "failed", "cancelled"}
      /\ ~ \E i \in 1 .. Len(toClient) : toClient[i].id = r
  BY DEF ForgetTransientId
<1>4. /\ current' = current /\ paneMap' = paneMap /\ gateway' = gateway /\ closure' = closure
      /\ honoured' = honoured /\ sessions' = sessions /\ banner' = banner
      /\ attempt' = attempt /\ asked' = asked /\ prompts' = prompts /\ toServer' = toServer
      /\ toClient' = toClient /\ live' = live /\ missed' = missed /\ late' = late
  BY <1>2 DEF history, serverVars, attemptVars
<1>5. /\ Alike(toClient, toClient', Nothing) /\ Alike(toServer, toServer', Nothing)
      /\ Nothing.type = "nothing"
  BY <1>4, SameIsAlike DEF Nothing
<1>6. Types'
  BY <1>1, <1>2, <1>3 DEF Types, TypeOK, attemptVars, serverVars
<1>7. \A q : (StillPending(q)' <=> StillPending(q)) /\ (Dead(q)' <=> Dead(q))
  BY <1>4 DEF StillPending, Dead
<1>8. SessionInv'
  BY <1>1, <1>3, <1>4, <1>5, SessionsUntouched DEF AttemptsInv
<1>9. PendingInv'
  BY <1>1, <1>3, <1>4, <1>5, <1>7, PendingUntouched DEF PendingInv, Types, TypeOK
<1>10. CancelInv'
  <2>1. \A a : ~In(toClient, NotFound(r, a))
    BY <1>3 DEF NotFound, Ack, In, C
  <2>2. \A a : Preceded(toClient, NotFound(r, a), C("connected", r))
    BY <2>1, AbsentMessages
  <2> HIDE DEF StillPending, Dead
  <2>3. \A q \in honoured' : Dead(q)'
    BY <1>1, <1>4, <1>7 DEF CancelInv
  <2>4. \A q \in Reqs : In(toClient', Ack(q, "cancelled")) => attempt'[q] = "cancelled"
    BY <1>1, <1>4 DEF CancelInv
  <2>5. \A q \in Reqs : StillPending(q)' /\ q \notin completed' /\ ~Dead(q)' /\ closure'[q] # 0 =>
            Preceded(toClient', NotFound(q, closure'[q]), C("connected", q))
    BY <1>1, <1>3, <1>4, <1>7, <2>2 DEF CancelInv
  <2> QED
    BY <2>3, <2>4, <2>5 DEF CancelInv
<1>11. BannerInv'
  BY <1>1, <1>4, <1>5, <1>7, BannersUntouched DEF AttemptsInv
<1> QED
  BY <1>6, <1>8, <1>9, <1>10, <1>11 DEF AttemptsInv

----------------------------------------------------------------------------
(* The server's attempts.                                                  *)

\* The states of an attempt.
States == {"idle", "asking", "running", "welcomed", "committed", "recorded", "failed", "cancelled"}

\* A step of the server leaves the browser alone.
LEMMA ServerTypes ==
    ASSUME Types, UNCHANGED <<attemptVars, cancelVars, sessions, timers, link, acts>>,
           toServer' \in Seq(ToServer(acts)), toClient' \in Seq(ToClient(acts)),
           link = "down" => toClient' = <<>> /\ asked' = {},
           attempt' \in [Reqs -> States], asked' \subseteq Reqs, prompts' \subseteq Reqs, live' \subseteq Ids,
           \A q \in Reqs : attempt[q] = "idle" => attempt'[q] = "idle"
    PROVE  Types'
  BY Kinds DEF Types, TypeOK, States, attemptVars, cancelVars

\* The browser's part of the state when the server acts.
LEMMA BrowserIdle ==
    ASSUME UNCHANGED <<attemptVars, cancelVars>>
    PROVE  /\ current' = current /\ paneMap' = paneMap /\ gateway' = gateway /\ closure' = closure
           /\ honoured' = honoured /\ banner' = banner /\ completed' = completed
           /\ cancelled' = cancelled /\ discarded' = discarded
           /\ \A q : StillPending(q)' <=> StillPending(q)
  BY DEF attemptVars, cancelVars, StillPending

\* Questions that are answered or fall with their attempts: no new one is asked,
\* and an attempt that no longer waits has told the browser if it had asked.
LEMMA BannersFade ==
    ASSUME Types, BannerInv, banner' = banner, current' = current, late' = late, asked \subseteq asked',
           \A q \in Reqs : In(toClient', C("banner", q)) => In(toClient, C("banner", q)),
           \A q \in Reqs : Once(toClient, C("banner", q)) => Once(toClient', C("banner", q)),
           \A q \in Reqs : Followed(toClient, C("banner", q), Outcome(q)) =>
                               Followed(toClient', C("banner", q), Outcome(q)),
           \A q \in Reqs : In(toClient, Outcome(q)) => In(toClient', Outcome(q)),
           prompts' \subseteq prompts, \A q \in prompts' : attempt'[q] = "running",
           \A q \in Reqs : attempt'[q] = "running" => attempt[q] = "running" /\ (q \in prompts => q \in prompts'),
           \A q \in Reqs : Shown(q) => attempt'[q] \in {"running", "failed", "cancelled"},
           \A q \in prompts \ prompts' : Shown(q) => In(toClient', Outcome(q))
                                                     /\ Followed(toClient', C("banner", q), Outcome(q)),
           \A q \in Reqs : Decided(q)' => Decided(q) /\ attempt'[q] \notin {"idle", "asking"}
    PROVE  BannerInv'
<1>1. prompts \subseteq Reqs /\ (banner # None => banner \in Reqs)
  BY DEF Types, TypeOK
<1>2. \A q \in Reqs : Shown(q)' => Shown(q)
  BY DEF Shown
<1>3. banner # None => Shown(banner)
  BY DEF Shown
<1>4. \A q \in Reqs : ~Shown(q) => Followed(toClient', C("banner", q), Outcome(q))
  BY AbsentMessages DEF Shown
<1> HIDE DEF Shown, Decided
<1>5. \A q \in Reqs : Shown(q)' => /\ attempt'[q] \in {"running", "failed", "cancelled"}
                                   /\ q \in asked' /\ ~Decided(q)'
  BY <1>2 DEF BannerInv
<1>6. \A q \in Reqs : attempt'[q] = "running" /\ (Shown(q)' \/ Decided(q)') => q \in prompts'
  BY <1>2 DEF BannerInv
<1>7. \A q \in Reqs : /\ In(toClient', C("banner", q)) => banner' # q
                      /\ Once(toClient', C("banner", q))
                      /\ q \notin prompts' => Followed(toClient', C("banner", q), Outcome(q))
  BY <1>4 DEF BannerInv
<1>8. banner' # None /\ banner' \notin late' \cup prompts' => In(toClient', Outcome(banner'))
  BY <1>1, <1>3 DEF BannerInv
<1> QED
  BY <1>5, <1>6, <1>7, <1>8 DEF BannerInv

\* An attempt fails.
LEMMA FailureStep ==
    ASSUME AttemptsInv, NEW r \in Reqs, Running(r) \/ attempt[r] = "committed", Fails(r), NEW n,
           Alike(toServer, toServer', n), n.type \in {"decline", "nothing"},
           toServer' \in Seq(ToServer(acts)), \A X : In(toServer', X) => In(toServer, X),
           UNCHANGED <<attemptVars, cancelVars, sessions, timers, link, asked, live, history, acts>>
    PROVE  AttemptsInv'
<1> DEFINE m == [type |-> "error", id |-> r]
<1>1. Types /\ PendingInv /\ CancelInv /\ BannerInv
  BY DEF AttemptsInv
<1>2. /\ attempt' = [attempt EXCEPT ![r] = "failed"] /\ prompts' = prompts \ {r}
      /\ IF r \in asked THEN Tell(<<m>>) ELSE UNCHANGED toClient
  BY DEF Fails
<1>3. /\ attempt \in [Reqs -> States] /\ asked \subseteq Reqs /\ prompts \subseteq Reqs /\ live \subseteq Ids
      /\ toClient \in Seq(ToClient(acts)) /\ acts \in Numbers
      /\ link \in {"up", "down"} /\ (link = "down" => toClient = <<>> /\ asked = {})
  BY <1>1 DEF Types, TypeOK, States
<1>4. /\ attempt' \in [Reqs -> States] /\ attempt'[r] = "failed"
      /\ attempt[r] \in {"running", "welcomed", "committed"}
      /\ \A q \in Reqs : q # r => attempt'[q] = attempt[q]
  BY <1>2, <1>3 DEF Running, States
<1>5. live' = live /\ asked' = asked /\ missed' = missed /\ late' = late /\ sessions' = sessions
  BY DEF history
<1>6. m \in ToClient(acts) /\ m.type = "error" /\ m.id = r
  BY DEF ToClient
<1>7. \A t, q : m \in C(t, q) <=> t = "error" /\ q = r
  BY <1>3, <1>6, Classes
<1> HIDE DEF m
<1>8. /\ toClient' \in Seq(ToClient(acts)) /\ Alike(toClient, toClient', m)
      /\ \A X : In(toClient, X) => In(toClient', X)
      /\ \A X, Y : m \notin X /\ Followed(toClient, X, Y) => Followed(toClient', X, Y)
      /\ r \in asked => \A X, Y : m \notin X /\ m \in Y => Followed(toClient', X, Y) /\ In(toClient', Y)
      /\ link = "down" => toClient' = <<>>
  <2>1. CASE r \in asked
    <3>1. link = "up" /\ Tell(<<m>>)
      BY <1>2, <1>3, <2>1
    <3>2. toClient' = toClient \o <<m>>
      BY <3>1 DEF Tell
    <3> QED
      BY <1>3, <1>6, <3>1, <3>2, LongerQueue
  <2>2. CASE r \notin asked
    BY <1>2, <2>2, <1>3, SameIsAlike
  <2> QED
    BY <2>1, <2>2
<1>9. Types'
  BY <1>1, <1>2, <1>3, <1>4, <1>5, <1>8, ServerTypes
<1>10. /\ \A q \in Reqs : Dead(q) => Dead(q)'
       /\ \A q \in Reqs : attempt[q] = "cancelled" => attempt'[q] = "cancelled"
  BY <1>4 DEF Dead
<1>11. /\ current' = current /\ paneMap' = paneMap /\ gateway' = gateway /\ closure' = closure
       /\ honoured' = honoured /\ banner' = banner /\ completed' = completed
       /\ cancelled' = cancelled /\ discarded' = discarded
       /\ \A q : StillPending(q)' <=> StillPending(q)
  BY BrowserIdle
<1>12. SessionInv'
  BY <1>4, <1>1, <1>5, <1>6, <1>8, <1>11, SessionsUntouched DEF AttemptsInv
<1>13. PendingInv'
  BY <1>1, <1>4, <1>5, <1>6, <1>8, <1>11, PendingUntouched DEF PendingInv, Types, TypeOK
<1>14. CancelInv'
  BY <1>1, <1>6, <1>8, <1>10, <1>11, CancelsUntouched
<1>15. BannerInv'
  <2>1. \A q : m \notin C("banner", q)
    BY <1>7
  <2>2. m \in Outcome(r)
    BY <1>7 DEF Outcome
  <2>3. \A q \in Reqs : /\ In(toClient', C("banner", q)) => In(toClient, C("banner", q))
                        /\ Once(toClient, C("banner", q)) => Once(toClient', C("banner", q))
                        /\ Followed(toClient, C("banner", q), Outcome(q)) =>
                               Followed(toClient', C("banner", q), Outcome(q))
                        /\ In(toClient, Outcome(q)) => In(toClient', Outcome(q))
    BY <1>8, <2>1 DEF Alike
  <2>4. \A q \in prompts' : attempt'[q] = "running"
    BY <1>1, <1>2, <1>3, <1>4 DEF BannerInv
  <2>5. \A q \in Reqs : attempt'[q] = "running" => attempt[q] = "running" /\ (q \in prompts => q \in prompts')
    BY <1>2, <1>4
  <2>6. \A q \in Reqs : Shown(q) => attempt'[q] \in {"running", "failed", "cancelled"}
    BY <1>1, <1>4 DEF BannerInv
  <2>7. \A q \in prompts \ prompts' : Shown(q) => In(toClient', Outcome(q))
                                                  /\ Followed(toClient', C("banner", q), Outcome(q))
    BY <1>1, <1>8, <2>1, <2>2, <1>2 DEF BannerInv
  <2>8. \A q \in Reqs : Decided(q)' => Decided(q)
    BY DEF Decided
  <2>9. \A q \in Reqs : Decided(q)' => Decided(q) /\ attempt'[q] \notin {"idle", "asking"}
    BY <1>1, <1>4, <2>8 DEF BannerInv
  <2>10. prompts' \subseteq prompts
    BY <1>2
  <2> QED
    BY <1>1, <1>5, <1>11, <2>3, <2>4, <2>5, <2>6, <2>7, <2>9, <2>10, BannersFade
<1> QED
  BY <1>9, <1>12, <1>13, <1>14, <1>15 DEF AttemptsInv

\* An attempt of the server fails of itself.
LEMMA AttemptFailsStep ==
    ASSUME AttemptsInv, NEW r \in Reqs, AttemptFails(r)
    PROVE  AttemptsInv'
<1>1. /\ UNCHANGED <<attemptVars, cancelVars, sessions, timers, link, toServer, asked, live, history, acts>>
      /\ Running(r) \/ attempt[r] = "committed"
      /\ Fails(r)
  BY DEF AttemptFails
<1>2. /\ Alike(toServer, toServer', Nothing) /\ Nothing.type = "nothing"
      /\ \A X : In(toServer', X) => In(toServer, X)
  BY <1>1, SameIsAlike DEF Nothing
<1>3. toServer' \in Seq(ToServer(acts))
  BY <1>1 DEF AttemptsInv, Types
<1> QED
  BY <1>1, <1>2, <1>3, FailureStep

\* A step of an attempt that tells nobody, or that the browser hears of as something
\* other than a failure: no question is shown that loses its prompt.
LEMMA QuietStep ==
    ASSUME AttemptsInv, UNCHANGED <<attemptVars, cancelVars, sessions, timers, link, toClient, asked, live, history, acts>>,
           NEW n, Alike(toServer, toServer', n), n.type \in {"accept", "decline", "nothing"},
           toServer' \in Seq(ToServer(acts)), \A X : In(toServer', X) => In(toServer, X),
           NEW r \in Reqs, NEW st \in {"welcomed", "committed", "cancelled"},
           \/ attempt' = [attempt EXCEPT ![r] = st] /\ Running(r)
           \/ attempt' = attempt /\ r \notin prompts,
           prompts' = prompts \ {r}, r \in prompts \/ attempt'[r] # attempt[r] => ~Shown(r)
    PROVE  AttemptsInv'
<1>1. Types /\ PendingInv /\ CancelInv /\ BannerInv
  BY DEF AttemptsInv
<1>3. /\ attempt \in [Reqs -> States] /\ asked \subseteq Reqs /\ prompts \subseteq Reqs /\ live \subseteq Ids
      /\ toClient \in Seq(ToClient(acts)) /\ acts \in Numbers
      /\ link \in {"up", "down"} /\ (link = "down" => toClient = <<>> /\ asked = {})
  BY <1>1 DEF Types, TypeOK, States
<1>4. /\ attempt' \in [Reqs -> States]
      /\ attempt'[r] = attempt[r] \/ (attempt'[r] = st /\ attempt[r] \in {"running", "welcomed"})
      /\ \A q \in Reqs : q # r => attempt'[q] = attempt[q]
  BY <1>3 DEF Running, States
<1>5. live' = live /\ asked' = asked /\ missed' = missed /\ late' = late /\ sessions' = sessions
  BY DEF history
<1>8. Alike(toClient, toClient', Nothing) /\ Nothing.type = "nothing" /\ toClient' = toClient
  BY SameIsAlike DEF Nothing
<1>9. Types'
  BY <1>3, <1>4, <1>1, <1>5, <1>8, ServerTypes
<1>10. /\ \A q \in Reqs : Dead(q) => Dead(q)'
       /\ \A q \in Reqs : attempt[q] = "cancelled" => attempt'[q] = "cancelled"
  BY <1>4 DEF Dead
<1>11. /\ current' = current /\ paneMap' = paneMap /\ gateway' = gateway /\ closure' = closure
       /\ honoured' = honoured /\ banner' = banner /\ completed' = completed
       /\ cancelled' = cancelled /\ discarded' = discarded
       /\ \A q : StillPending(q)' <=> StillPending(q)
  BY BrowserIdle
<1>12. SessionInv'
  BY <1>4, <1>1, <1>5, <1>8, <1>11, SessionsUntouched DEF AttemptsInv
<1>13. PendingInv'
  <2>1. paneMap \subseteq {current} /\ cancelled \subseteq Reqs
    BY <1>1 DEF PendingInv, Types, TypeOK
  <2>2. \A q \in Reqs : /\ attempt'[q] = "idle" <=> attempt[q] = "idle"
                        /\ attempt'[q] = "asking" <=> attempt[q] = "asking"
                        /\ attempt'[q] = "recorded" => attempt[q] = "recorded"
    BY <1>4
  <2> QED
    BY <1>1, <1>5, <1>8, <1>11, <2>1, <2>2, PendingUntouched
<1>14. CancelInv'
  BY <1>1, <1>8, <1>10, <1>11, CancelsUntouched
<1>15. BannerInv'
  <2>4. \A q \in prompts' : attempt'[q] = "running"
    BY <1>1, <1>3, <1>4 DEF BannerInv
  <2>5. \A q \in Reqs : attempt'[q] = "running" => attempt[q] = "running" /\ (q \in prompts => q \in prompts')
    BY <1>4
  <2>6. \A q \in Reqs : Shown(q) => attempt'[q] \in {"running", "failed", "cancelled"}
    <3>1. \A q \in Reqs : Shown(q) => attempt[q] \in {"running", "failed", "cancelled"}
      BY <1>1 DEF BannerInv
    <3> HIDE DEF Shown
    <3> QED
      BY <1>4, <3>1
  <2>7. \A q \in prompts \ prompts' : ~Shown(q)
    BY <1>3
  <2>8. \A q \in Reqs : Decided(q)' => Decided(q)
    BY DEF Decided
  <2>9. \A q \in Reqs : Decided(q)' => Decided(q) /\ attempt'[q] \notin {"idle", "asking"}
    BY <1>1, <1>4, <2>8 DEF BannerInv
  <2>10. prompts' \subseteq prompts
    BY <1>3
  <2> QED
    BY <1>1, <1>5, <1>8, <1>11, <2>4, <2>5, <2>6, <2>7, <2>9, <2>10, BannersFade
<1> QED
  BY <1>9, <1>12, <1>13, <1>14, <1>15 DEF AttemptsInv

\* An attempt crosses its commit boundary.
LEMMA CommitStep ==
    ASSUME AttemptsInv, NEW r \in Reqs, Commit(r)
    PROVE  AttemptsInv'
<1>1. /\ UNCHANGED <<attemptVars, cancelVars, sessions, timers, link, toServer, toClient, asked, prompts, live,
                     history, acts>>
      /\ Running(r) /\ r \notin prompts /\ attempt' = [attempt EXCEPT ![r] = "committed"]
  BY DEF Commit
<1>2. /\ Alike(toServer, toServer', Nothing) /\ Nothing.type = "nothing"
      /\ \A X : In(toServer', X) => In(toServer, X)
  BY <1>1, SameIsAlike DEF Nothing
<1>3. toServer' \in Seq(ToServer(acts))
  BY <1>1 DEF AttemptsInv, Types
<1>4. ~Shown(r)
  BY <1>1 DEF AttemptsInv, BannerInv, Running
<1>5. prompts' = prompts \ {r}
  BY <1>1
<1> QED
  BY <1>1, <1>2, <1>3, <1>4, <1>5, QuietStep

\* The server notices that the socket of an attempt is gone.
LEMMA NoticeStep ==
    ASSUME AttemptsInv, NEW r \in Reqs, ServerNotices(r)
    PROVE  AttemptsInv'
<1>1. /\ UNCHANGED <<attemptVars, cancelVars, sessions, timers, link, toServer, toClient, asked, live,
                     history, acts>>
      /\ Running(r) /\ r \notin asked /\ attempt' = [attempt EXCEPT ![r] = "cancelled"]
      /\ prompts' = prompts \ {r}
  BY DEF ServerNotices
<1>2. /\ Alike(toServer, toServer', Nothing) /\ Nothing.type = "nothing"
      /\ \A X : In(toServer', X) => In(toServer, X)
  BY <1>1, SameIsAlike DEF Nothing
<1>3. toServer' \in Seq(ToServer(acts))
  BY <1>1 DEF AttemptsInv, Types
<1>4. ~Shown(r)
  <2> HIDE DEF Shown
  <2> QED
    BY <1>1 DEF AttemptsInv, BannerInv, Running
<1> QED
  BY <1>1, <1>2, <1>3, <1>4, QuietStep

\* The server hears a decision about a banner.
LEMMA DecisionStep ==
    ASSUME AttemptsInv, ServeBannerDecision
    PROVE  AttemptsInv'
<1>0. PICK n, r : n = Head(toServer) /\ r = n.id
  OBVIOUS
<1>1. Types /\ BannerInv
  BY DEF AttemptsInv
<1>2. UNCHANGED <<attemptVars, cancelVars, sessions, timers, link, asked, live, history, acts, drops>>
  BY DEF ServeBannerDecision
<1>3. PICK t \in {"accept", "decline"} : TakeServer(t) /\
          IF t = "accept"
          THEN /\ attempt' = [attempt EXCEPT ![r] = IF r \in prompts THEN "welcomed" ELSE @]
               /\ prompts' = prompts \ {r} /\ toClient' = toClient
          ELSE IF r \in prompts THEN Fails(r) ELSE UNCHANGED <<attempt, prompts, toClient>>
  BY <1>0 DEF ServeBannerDecision
<1>4. /\ n \in ToServer(acts) /\ n.type = t /\ link = "up"
      /\ toServer \in Seq(ToServer(acts)) /\ toServer # <<>> /\ toServer' = Tail(toServer)
      /\ toServer' \in Seq(ToServer(acts)) /\ Alike(toServer, toServer', n) /\ acts \in Numbers
  BY <1>0, <1>1, <1>3, ServerTakes DEF Types
<1>5. r \in Reqs /\ n \in S(t, r)
  BY <1>0, <1>3, <1>4, Fields, Classes
<1>6. /\ \A X : In(toServer', X) => In(toServer, X)
      /\ \A X : n \in X => In(toServer, X)
  BY <1>0, <1>4, TakenQueue
<1>7. Decided(r) /\ ~Shown(r)
  <2>1. Decided(r)
    BY <1>3, <1>5, <1>6 DEF Decided
  <2> QED
    BY <1>1, <1>5, <2>1 DEF BannerInv
<1>8. r \in prompts => attempt[r] = "running" /\ Running(r)
  BY <1>1 DEF BannerInv, Running
<1>9. CASE t = "decline" /\ r \in prompts
  BY <1>3, <1>8, <1>9, <1>2, <1>4, <1>5, <1>6, FailureStep
<1>10. CASE t = "accept" /\ r \in prompts
  BY <1>3, <1>10, <1>2, <1>4, <1>5, <1>6, <1>7, <1>8, QuietStep
<1>11. CASE r \notin prompts
  BY <1>1, <1>3, <1>5, <1>11, <1>2, <1>4, <1>6, <1>7, QuietStep DEF Types, TypeOK, States
<1> QED
  BY <1>3, <1>9, <1>10, <1>11

\* The server takes up a request, or refuses it.
LEMMA ServeConnectStep ==
    ASSUME AttemptsInv, ServeConnect
    PROVE  AttemptsInv'
<1>0. PICK n, r, m : n = Head(toServer) /\ r = n.id /\ m = [type |-> "error", id |-> r]
  OBVIOUS
<1>1. Types /\ PendingInv /\ CancelInv /\ BannerInv /\ TakeServer("connect")
  BY DEF AttemptsInv, ServeConnect
<1>2. UNCHANGED <<attemptVars, cancelVars, sessions, timers, link, prompts, live, history, acts, drops>>
  BY DEF ServeConnect
<1>3. /\ asked' = asked \cup {r}
      /\ \/ attempt' = [attempt EXCEPT ![r] = "running"] /\ toClient' = toClient
         \/ attempt' = [attempt EXCEPT ![r] = "failed"] /\ Tell(<<m>>)
  BY <1>0 DEF ServeConnect
<1>4. /\ n \in ToServer(acts) /\ n.type = "connect" /\ link = "up"
      /\ toServer \in Seq(ToServer(acts)) /\ toServer # <<>> /\ toServer' = Tail(toServer)
      /\ toServer' \in Seq(ToServer(acts)) /\ Alike(toServer, toServer', n) /\ acts \in Numbers
  BY <1>0, <1>1, ServerTakes DEF Types
<1>5. r \in Reqs /\ \A t, q : n \in S(t, q) <=> t = "connect" /\ q = r
  BY <1>0, <1>4, Fields, Classes
<1>6. /\ \A X : In(toServer', X) => In(toServer, X)
      /\ \A X : n \in X => In(toServer, X)
      /\ \A X : Once(toServer, X) => Once(toServer', X)
      /\ \A X : Once(toServer, X) /\ n \in X => ~In(toServer', X)
  BY <1>0, <1>4, TakenQueue
<1>7. attempt[r] = "asking" /\ ~In(toServer', S("connect", r))
  BY <1>5, <1>6, <1>1 DEF PendingInv
<1>8. /\ attempt \in [Reqs -> States] /\ asked \subseteq Reqs /\ prompts \subseteq Reqs /\ live \subseteq Ids
      /\ toClient \in Seq(ToClient(acts))
  BY <1>1 DEF Types, TypeOK, States
<1>9. /\ attempt' \in [Reqs -> States] /\ attempt'[r] \in {"running", "failed"}
      /\ \A q \in Reqs : q # r => attempt'[q] = attempt[q]
  BY <1>3, <1>5, <1>8 DEF States
<1>10. live' = live /\ missed' = missed /\ late' = late /\ sessions' = sessions /\ prompts' = prompts
  BY <1>2 DEF history
<1>11. m \in ToClient(acts) /\ m.type = "error" /\ m.id = r
  BY <1>0, <1>5 DEF ToClient
<1>12. /\ toClient' \in Seq(ToClient(acts)) /\ Alike(toClient, toClient', m)
       /\ \A X : In(toClient, X) => In(toClient', X)
       /\ \A X, Y : m \notin X /\ Followed(toClient, X, Y) => Followed(toClient', X, Y)
  <2>1. CASE toClient' = toClient
    BY <1>8, <2>1, SameIsAlike
  <2>2. CASE Tell(<<m>>)
    BY <1>4, <2>2, <1>8, <1>11, LongerQueue DEF Tell
  <2> QED
    BY <1>3, <2>1, <2>2
<1>13. Types'
  <2>1. asked' \subseteq Reqs
    BY <1>3, <1>5, <1>8
  <2>2. \A q \in Reqs : attempt[q] = "idle" => attempt'[q] = "idle"
    BY <1>7, <1>9
  <2> QED
    BY <1>1, <1>2, <1>4, <1>8, <1>9, <1>10, <1>12, <2>1, <2>2, ServerTypes
<1>14. /\ \A q \in Reqs : Dead(q) => Dead(q)'
       /\ \A q \in Reqs : attempt[q] = "cancelled" => attempt'[q] = "cancelled"
  BY <1>7, <1>9 DEF Dead
<1>15. /\ current' = current /\ paneMap' = paneMap /\ gateway' = gateway /\ closure' = closure
       /\ honoured' = honoured /\ banner' = banner /\ completed' = completed
       /\ cancelled' = cancelled /\ discarded' = discarded
       /\ \A q : StillPending(q)' <=> StillPending(q)
  BY <1>2, BrowserIdle
<1>16. SessionInv'
  BY <1>7, <1>9, <1>1, <1>4, <1>10, <1>11, <1>12, <1>15, SessionsUntouched DEF AttemptsInv
<1>17. PendingInv'
  <2>1. /\ \A q : In(toServer', S("cancel", q)) <=> In(toServer, S("cancel", q))
        /\ \A q : q # r => (In(toServer', S("connect", q)) <=> In(toServer, S("connect", q)))
    BY <1>5, <1>4 DEF Alike
  <2>2. \A q : q # r /\ Preceded(toServer, S("cancel", q), S("connect", q)) =>
             Preceded(toServer', S("cancel", q), S("connect", q))
    BY <1>5, <1>4 DEF Alike
  <2>3. /\ \A q : In(toClient', C("ack", q)) <=> In(toClient, C("ack", q))
        /\ \A q : In(toClient, C("connected", q)) => In(toClient', C("connected", q))
    BY <1>11, <1>12 DEF C, Alike
  <2> HIDE DEF StillPending
  <2>4. \A q \in Reqs : attempt'[q] = "idle" =>
            /\ ~StillPending(q)' /\ q \notin cancelled'
            /\ ~In(toServer', S("cancel", q)) /\ ~In(toClient', C("ack", q))
    BY <1>1, <1>9, <1>15, <2>1, <2>3 DEF PendingInv
  <2>5. \A q \in Reqs : StillPending(q)' =>
            /\ attempt'[q] = "asking" \/ q \in asked'
            /\ attempt'[q] = "recorded" => In(toClient', C("connected", q))
    BY <1>1, <1>3, <1>9, <1>15, <2>3 DEF PendingInv
  <2>6. \A q \in cancelled' : ~StillPending(q)'
    BY <1>1, <1>15 DEF PendingInv
  <2>7. \A q \in Reqs : /\ attempt'[q] = "asking" <=> In(toServer', S("connect", q))
                        /\ Once(toServer', S("connect", q))
                        /\ attempt'[q] = "asking" => Preceded(toServer', S("cancel", q), S("connect", q))
    BY <1>1, <1>6, <1>7, <1>9, <2>1, <2>2 DEF PendingInv
  <2>8. paneMap' \subseteq {current'}
    BY <1>1, <1>15 DEF PendingInv
  <2> QED
    BY <2>4, <2>5, <2>6, <2>7, <2>8 DEF PendingInv
<1>18. CancelInv'
  BY <1>1, <1>11, <1>12, <1>14, <1>15, CancelsUntouched
<1>19. BannerInv'
  <2>1. \A q : m \notin C("banner", q)
    BY <1>11 DEF C
  <2>2. \A q \in Reqs : /\ In(toClient', C("banner", q)) => In(toClient, C("banner", q))
                        /\ Once(toClient, C("banner", q)) => Once(toClient', C("banner", q))
                        /\ Followed(toClient, C("banner", q), Outcome(q)) =>
                               Followed(toClient', C("banner", q), Outcome(q))
                        /\ In(toClient, Outcome(q)) => In(toClient', Outcome(q))
    BY <1>12, <2>1 DEF Alike
  <2>3. ~Shown(r) /\ ~Decided(r) /\ r \notin prompts
    BY <1>1, <1>5, <1>7 DEF BannerInv
  <2>4. \A q \in Reqs : Decided(q)' => Decided(q)
    BY <1>6 DEF Decided
  <2>5. \A q \in Reqs : Shown(q)' => Shown(q)
    BY <1>15, <2>2 DEF Shown
  <2>6. banner # None => Shown(banner) /\ banner \in Reqs
    BY <1>1 DEF Shown, Types, TypeOK
  <2> HIDE DEF Shown, Decided
  <2>7. \A q \in Reqs : Shown(q)' => /\ attempt'[q] \in {"running", "failed", "cancelled"}
                                     /\ q \in asked' /\ ~Decided(q)'
    BY <1>1, <1>3, <1>9, <2>3, <2>4, <2>5 DEF BannerInv
  <2>8. \A q \in Reqs : Decided(q)' => attempt'[q] \notin {"idle", "asking"}
    BY <1>1, <1>9, <2>3, <2>4 DEF BannerInv
  <2>9. \A q \in Reqs : attempt'[q] = "running" /\ (Shown(q)' \/ Decided(q)') => q \in prompts'
    BY <1>1, <1>9, <1>10, <2>3, <2>4, <2>5 DEF BannerInv
  <2>10. \A q \in Reqs : /\ In(toClient', C("banner", q)) => banner' # q
                         /\ Once(toClient', C("banner", q))
                         /\ q \notin prompts' => Followed(toClient', C("banner", q), Outcome(q))
    BY <1>1, <1>10, <1>15, <2>2 DEF BannerInv
  <2>11. \A q \in prompts' : attempt'[q] = "running"
    BY <1>1, <1>8, <1>9, <1>10, <2>3 DEF BannerInv
  <2>12. banner' # None /\ banner' \notin late' \cup prompts' => In(toClient', Outcome(banner'))
    BY <1>1, <1>10, <1>15, <2>2, <2>6 DEF BannerInv
  <2>13. banner' \in Requests => banner' = current'
    BY <1>1, <1>15 DEF BannerInv
  <2> QED
    BY <2>7, <2>8, <2>9, <2>10, <2>11, <2>12, <2>13 DEF BannerInv
<1> QED
  BY <1>13, <1>16, <1>17, <1>18, <1>19 DEF AttemptsInv

\* An attempt asks whether its banner is accepted.
LEMMA AskStep ==
    ASSUME AttemptsInv, NEW r \in Reqs, AskBanner(r)
    PROVE  AttemptsInv'
<1>0. PICK m : m = [type |-> "banner", id |-> r]
  OBVIOUS
<1>1. Types /\ PendingInv /\ CancelInv /\ BannerInv
  BY DEF AttemptsInv
<1>2. UNCHANGED <<attemptVars, cancelVars, sessions, timers, link, toServer, attempt, asked,
                  live, history, acts, drops>>
  BY DEF AskBanner
<1>3. /\ attempt[r] = "running" /\ r \notin prompts /\ r \in asked
      /\ prompts' = prompts \cup {r} /\ Tell(<<m>>)
  BY <1>0 DEF AskBanner
<1>4. /\ attempt \in [Reqs -> States] /\ asked \subseteq Reqs /\ prompts \subseteq Reqs /\ live \subseteq Ids
      /\ toClient \in Seq(ToClient(acts)) /\ acts \in Numbers /\ toServer \in Seq(ToServer(acts))
      /\ link = "up"
  BY <1>1, <1>3 DEF Types, TypeOK, States
<1>5. m \in ToClient(acts) /\ m.type = "banner" /\ m.id = r
  BY <1>0 DEF ToClient
<1>6. \A t, q : m \in C(t, q) <=> t = "banner" /\ q = r
  BY <1>4, <1>5, Classes
<1>7. /\ toClient' \in Seq(ToClient(acts)) /\ Alike(toClient, toClient', m)
      /\ \A X : In(toClient', X) <=> In(toClient, X) \/ m \in X
      /\ \A X : Once(toClient, X) /\ ~In(toClient, X) => Once(toClient', X)
  BY <1>3, <1>4, <1>5, LongerQueue DEF Tell
<1>8. /\ live' = live /\ missed' = missed /\ late' = late /\ sessions' = sessions /\ attempt' = attempt
      /\ asked' = asked /\ toServer' = toServer
  BY <1>2 DEF history
<1>9. /\ Alike(toServer, toServer', Nothing) /\ Nothing.type = "nothing"
  BY <1>8, SameIsAlike DEF Nothing
<1>10. Types'
  BY <1>3, <1>4, <1>1, <1>2, <1>7, <1>8, ServerTypes
<1>11. /\ current' = current /\ paneMap' = paneMap /\ gateway' = gateway /\ closure' = closure
       /\ honoured' = honoured /\ banner' = banner /\ completed' = completed
       /\ cancelled' = cancelled /\ discarded' = discarded
       /\ \A q : StillPending(q)' <=> StillPending(q)
  BY <1>2, BrowserIdle
<1>12. \A q \in Reqs : Dead(q)' <=> Dead(q)
  BY <1>8 DEF Dead
<1>13. SessionInv'
  BY <1>1, <1>5, <1>7, <1>8, <1>9, <1>11, SessionsUntouched DEF AttemptsInv
<1>14. PendingInv'
  BY <1>1, <1>5, <1>7, <1>8, <1>9, <1>11, PendingUntouched DEF PendingInv, Types, TypeOK
<1>15. CancelInv'
  BY <1>1, <1>5, <1>7, <1>8, <1>11, <1>12, CancelsUntouched
<1>16. BannerInv'
  <2>1. ~Shown(r) /\ ~Decided(r)
    BY <1>1, <1>3 DEF BannerInv
  <2>2. ~In(toClient, C("banner", r)) /\ banner # r
    BY <2>1 DEF Shown
  <2>3. \A q : q # r => m \notin C("banner", q)
    BY <1>6
  <2>4. /\ \A q \in Reqs : In(toClient', C("banner", q)) => In(toClient, C("banner", q)) \/ q = r
        /\ \A q \in Reqs : q # r /\ Once(toClient, C("banner", q)) => Once(toClient', C("banner", q))
        /\ \A q \in Reqs : q # r /\ Followed(toClient, C("banner", q), Outcome(q)) =>
                               Followed(toClient', C("banner", q), Outcome(q))
        /\ \A q : In(toClient, Outcome(q)) => In(toClient', Outcome(q))
    BY <1>7, <2>3 DEF Alike
  <2>5. Once(toClient', C("banner", r))
    BY <1>1, <1>7, <2>2 DEF BannerInv
  <2>6. \A q \in Reqs : Shown(q)' => Shown(q) \/ q = r
    BY <1>11, <2>4 DEF Shown
  <2>7. \A q : Decided(q)' <=> Decided(q)
    BY <1>8 DEF Decided
  <2> HIDE DEF Shown, Decided
  <2>8. \A q \in Reqs : Shown(q)' => /\ attempt'[q] \in {"running", "failed", "cancelled"}
                                     /\ q \in asked' /\ ~Decided(q)'
    BY <1>1, <1>3, <1>8, <2>1, <2>6, <2>7 DEF BannerInv
  <2>9. \A q \in Reqs : Decided(q)' => attempt'[q] \notin {"idle", "asking"}
    BY <1>1, <1>8, <2>7 DEF BannerInv
  <2>10. \A q \in Reqs : attempt'[q] = "running" /\ (Shown(q)' \/ Decided(q)') => q \in prompts'
    BY <1>1, <1>3, <1>8, <2>6, <2>7 DEF BannerInv
  <2>11. \A q \in Reqs : /\ In(toClient', C("banner", q)) => banner' # q
                         /\ Once(toClient', C("banner", q))
                         /\ q \notin prompts' => Followed(toClient', C("banner", q), Outcome(q))
    BY <1>1, <1>3, <1>11, <2>2, <2>4, <2>5 DEF BannerInv
  <2>12. \A q \in prompts' : attempt'[q] = "running"
    BY <1>1, <1>3, <1>8 DEF BannerInv
  <2>13. banner' # None /\ banner' \notin late' \cup prompts' => In(toClient', Outcome(banner'))
    BY <1>1, <1>3, <1>8, <1>11, <2>4 DEF BannerInv
  <2>14. banner' \in Requests => banner' = current'
    BY <1>1, <1>11 DEF BannerInv
  <2> QED
    BY <2>8, <2>9, <2>10, <2>11, <2>12, <2>13, <2>14 DEF BannerInv
<1> QED
  BY <1>10, <1>13, <1>14, <1>15, <1>16 DEF AttemptsInv

\* An attempt records its session: what the invariant says of sessions and attempts.
LEMMA RecordStep ==
    ASSUME AttemptsInv, NEW r \in Reqs, Record(r)
    PROVE  AttemptsInv'
<1>0. PICK m : m = [type |-> "connected", id |-> r]
  OBVIOUS
<1>1. Types /\ SessionInv /\ PendingInv /\ CancelInv /\ BannerInv /\ discarded \subseteq Reqs
  BY DEF AttemptsInv, Types, TypeOK
<1>2. UNCHANGED <<attemptVars, cancelVars, sessions, timers, link, toServer, asked, prompts, late, acts, drops>>
  BY DEF Record
<1>3. /\ attempt[r] = "committed" /\ attempt' = [attempt EXCEPT ![r] = "recorded"]
      /\ live' = live \cup {r}
      /\ IF r \in asked THEN Tell(<<m>>) ELSE UNCHANGED toClient
      /\ missed' = IF r \in asked /\ link = "up" THEN missed ELSE missed \cup {r}
  BY <1>0 DEF Record
<1>4. /\ attempt \in [Reqs -> States] /\ asked \subseteq Reqs /\ prompts \subseteq Reqs /\ live \subseteq Ids
      /\ toClient \in Seq(ToClient(acts)) /\ acts \in Numbers /\ toServer \in Seq(ToServer(acts))
      /\ link \in {"up", "down"} /\ (link = "down" => toClient = <<>> /\ asked = {})
  BY <1>1 DEF Types, TypeOK, States
<1>5. m \in ToClient(acts) /\ m.type = "connected" /\ m.id = r
  BY <1>0 DEF ToClient
<1>6. \A t, q : m \in C(t, q) <=> t = "connected" /\ q = r
  BY <1>4, <1>5, Classes
<1>7. /\ toClient' \in Seq(ToClient(acts)) /\ Alike(toClient, toClient', m)
      /\ \A X : In(toClient, X) => In(toClient', X)
      /\ \A X : In(toClient', X) => In(toClient, X) \/ m \in X
      /\ \A X : Once(toClient, X) /\ ~In(toClient, X) => Once(toClient', X)
      /\ \A X, Y : m \notin X /\ Followed(toClient, X, Y) => Followed(toClient', X, Y)
      /\ \A X, Y : m \notin X /\ Preceded(toClient, X, Y) => Preceded(toClient', X, Y)
      /\ r \in asked => In(toClient', C("connected", r))
      /\ link = "down" => toClient' = <<>>
  <2>1. CASE r \in asked
    <3>1. link = "up" /\ Tell(<<m>>)
      BY <1>3, <1>4, <2>1
    <3>2. toClient' = toClient \o <<m>>
      BY <3>1 DEF Tell
    <3>3. toClient \o <<m>> \in Seq(ToClient(acts)) /\ Alike(toClient, toClient \o <<m>>, m)
      BY <1>4, <1>5, LongerQueue
    <3>4. \A X : In(toClient \o <<m>>, X) <=> In(toClient, X) \/ m \in X
      BY <1>4, <1>5, LongerQueue
    <3>5. /\ \A X : Once(toClient, X) /\ ~In(toClient, X) => Once(toClient \o <<m>>, X)
          /\ \A X, Y : m \notin X /\ Followed(toClient, X, Y) => Followed(toClient \o <<m>>, X, Y)
          /\ \A X, Y : m \notin X /\ Preceded(toClient, X, Y) => Preceded(toClient \o <<m>>, X, Y)
      BY <1>4, <1>5, LongerQueue
    <3>6. In(toClient \o <<m>>, C("connected", r))
      BY <1>6, <3>4
    <3>7. link # "down"
      BY <3>1
    <3> QED
      BY <3>2, <3>3, <3>4, <3>5, <3>6, <3>7
  <2>2. CASE r \notin asked
    BY <1>3, <2>2, <1>4, SameIsAlike
  <2> QED
    BY <2>1, <2>2
<1>8. late' = late /\ sessions' = sessions /\ asked' = asked /\ toServer' = toServer /\ prompts' = prompts
  BY <1>2
<1>9. /\ attempt' \in [Reqs -> States] /\ attempt'[r] = "recorded"
      /\ \A q \in Reqs : q # r => attempt'[q] = attempt[q]
  BY <1>3, <1>4 DEF States
<1>10. Types'
  BY <1>3, <1>4, Kinds, <1>9, <1>1, <1>2, <1>7, <1>8, ServerTypes
<1>11. /\ current' = current /\ paneMap' = paneMap /\ gateway' = gateway /\ closure' = closure
       /\ honoured' = honoured /\ banner' = banner /\ completed' = completed
       /\ cancelled' = cancelled /\ discarded' = discarded
       /\ \A q : StillPending(q)' <=> StillPending(q)
  BY <1>2, BrowserIdle
<1>12. \A q \in Reqs : Dead(q)' <=> Dead(q)
  BY <1>3, <1>9 DEF Dead
<1>13. SessionInv'
  <2>1. sessions[r] = "none" /\ r \notin live /\ r \notin discarded /\ ~Arriving(r) /\ ~Ending(r)
    BY <1>1, <1>3 DEF SessionInv
  <2>2. /\ \A q : Ending(q)' <=> Ending(q)
        /\ \A q : Leaving(q)' <=> Leaving(q)
        /\ \A q : Arriving(q) => Arriving(q)'
        /\ \A q : q # r => (Arriving(q)' <=> Arriving(q))
        /\ \A q : In(toClient', C("restored", q)) <=> In(toClient, C("restored", q))
        /\ \A q : In(toClient', C("connected", q)) => In(toClient, C("connected", q)) \/ q = r
    BY <1>6, <1>7, <1>8 DEF Alike, Ending, Leaving, Arriving
  <2>3. r \notin missed' => Arriving(r)'
    BY <1>3, <1>7 DEF Arriving
  <2>4. ~In(toClient, C("connected", r)) /\ ~In(toClient, C("restored", r))
    BY <2>1 DEF Arriving
  <2>5. Once(toClient', C("connected", r))
    BY <1>7, <2>4, AbsentMessages
  <2>6. /\ \A q : q # r /\ Once(toClient, C("connected", q)) => Once(toClient', C("connected", q))
        /\ \A q : q # r /\ Followed(toClient, C("connected", q), C("disconnected", q))
                  => Followed(toClient', C("connected", q), C("disconnected", q))
        /\ \A q : Followed(toClient, C("restored", q), C("disconnected", q))
                  => Followed(toClient', C("restored", q), C("disconnected", q))
    BY <1>6, <1>7 DEF Alike
  <2> HIDE DEF Arriving, Ending, Leaving
  <2>7. \A q \in Reqs : attempt'[q] # "recorded" =>
            sessions'[q] = "none" /\ q \notin live' /\ q \notin discarded' /\ ~Arriving(q)' /\ ~Ending(q)'
    BY <1>1, <1>3, <1>8, <1>9, <1>11, <2>2 DEF SessionInv
  <2>8. \A q \in Ids : Ending(q)' => q \notin live'
    BY <1>1, <1>3, <2>1, <2>2 DEF SessionInv
  <2>9. \A q \in Ids \ missed' :
            /\ sessions'[q] = "connected" => q \in live' \/ Ending(q)'
            /\ q \in live' => sessions'[q] = "connected" \/ Arriving(q)' \/ Leaving(q)'
            /\ q \notin live' => /\ Followed(toClient', C("connected", q), C("disconnected", q))
                                 /\ Followed(toClient', C("restored", q), C("disconnected", q))
    BY <1>3, <1>1, <1>8, <2>2, <2>3, <2>6 DEF SessionInv
  <2>10. \A q \in Reqs : In(toClient', C("connected", q)) =>
            /\ sessions'[q] = "none" /\ q \notin discarded'
            /\ ~In(toClient', C("restored", q)) /\ Once(toClient', C("connected", q))
    BY <1>1, <1>8, <1>11, <2>1, <2>2, <2>4, <2>5, <2>6 DEF SessionInv
  <2>11. \A q \in discarded' : sessions'[q] # "connected" /\ ~Arriving(q)'
    BY <1>1, <1>8, <1>11, <2>1, <2>2 DEF SessionInv
  <2> QED
    BY <2>7, <2>8, <2>9, <2>10, <2>11 DEF SessionInv
<1>14. PendingInv'
  <2>1. /\ \A q : In(toClient', C("ack", q)) <=> In(toClient, C("ack", q))
        /\ \A q : In(toClient, C("connected", q)) => In(toClient', C("connected", q))
    BY <1>6, <1>7 DEF Alike
  <2> HIDE DEF StillPending
  <2>2. \A q \in Reqs : attempt'[q] = "idle" =>
            /\ ~StillPending(q)' /\ q \notin cancelled'
            /\ ~In(toServer', S("cancel", q)) /\ ~In(toClient', C("ack", q))
    BY <1>1, <1>8, <1>9, <1>11, <2>1 DEF PendingInv
  <2>3. \A q \in Reqs : StillPending(q)' =>
            /\ attempt'[q] = "asking" \/ q \in asked'
            /\ attempt'[q] = "recorded" => In(toClient', C("connected", q))
    BY <1>1, <1>3, <1>7, <1>8, <1>9, <1>11, <2>1 DEF PendingInv
  <2>4. \A q \in cancelled' : ~StillPending(q)'
    BY <1>1, <1>11 DEF PendingInv
  <2>5. \A q \in Reqs : /\ attempt'[q] = "asking" <=> In(toServer', S("connect", q))
                        /\ Once(toServer', S("connect", q))
                        /\ attempt'[q] = "asking" => Preceded(toServer', S("cancel", q), S("connect", q))
    BY <1>1, <1>3, <1>8, <1>9 DEF PendingInv
  <2>6. paneMap' \subseteq {current'}
    BY <1>1, <1>11 DEF PendingInv
  <2> QED
    BY <2>2, <2>3, <2>4, <2>5, <2>6 DEF PendingInv
<1>15. CancelInv'
  <2>1. \A q, a : m \notin Ack(q, a) /\ m \notin NotFound(q, a)
    BY <1>5 DEF Ack, NotFound, C
  <2>2. /\ \A q, a : In(toClient', Ack(q, a)) <=> In(toClient, Ack(q, a))
        /\ \A q, a : Preceded(toClient, NotFound(q, a), C("connected", q)) =>
                         Preceded(toClient', NotFound(q, a), C("connected", q))
    BY <1>7, <2>1 DEF Alike
  <2> HIDE DEF StillPending, Dead
  <2>3. \A q \in honoured' : Dead(q)'
    BY <1>1, <1>11, <1>12 DEF CancelInv, Types
  <2>4. \A q \in Reqs : In(toClient', Ack(q, "cancelled")) => attempt'[q] = "cancelled"
    BY <1>1, <1>3, <1>9, <2>2 DEF CancelInv
  <2>5. \A q \in Reqs : StillPending(q)' /\ q \notin completed' /\ ~Dead(q)' /\ closure'[q] # 0 =>
            Preceded(toClient', NotFound(q, closure'[q]), C("connected", q))
    BY <1>1, <1>11, <1>12, <2>2 DEF CancelInv
  <2> QED
    BY <2>3, <2>4, <2>5 DEF CancelInv
<1>16. BannerInv'
  <2>1. /\ Alike(toServer, toServer', Nothing) /\ Nothing.type = "nothing"
    BY <1>8, SameIsAlike DEF Nothing
  <2>2. \A q \in Reqs : /\ attempt'[q] = "running" <=> attempt[q] = "running"
                        /\ attempt'[q] \in {"idle", "asking"} => attempt[q] \in {"idle", "asking"}
    BY <1>3, <1>9
  <2> QED
    BY <1>1, <1>5, <1>7, <1>8, <1>11, <1>12, <2>1, <2>2, BannersUntouched
<1> QED
  BY <1>10, <1>13, <1>14, <1>15, <1>16 DEF AttemptsInv

\* The server answers a cancellation.
LEMMA ServeCancelStep ==
    ASSUME AttemptsInv, ServeCancel
    PROVE  AttemptsInv'
<1>0. PICK n, r : n = Head(toServer) /\ r = n.id
  OBVIOUS
<1>1. Types /\ PendingInv /\ CancelInv /\ BannerInv /\ TakeServer("cancel")
  BY DEF AttemptsInv, ServeCancel
<1>2. UNCHANGED <<attemptVars, cancelVars, sessions, timers, link, asked, live, history, acts, drops>>
  BY DEF ServeCancel
<1>3. /\ n \in ToServer(acts) /\ n.type = "cancel" /\ link = "up"
      /\ toServer \in Seq(ToServer(acts)) /\ toServer # <<>> /\ toServer' = Tail(toServer)
      /\ toServer' \in Seq(ToServer(acts)) /\ Alike(toServer, toServer', n) /\ acts \in Numbers
  BY <1>0, <1>1, ServerTakes DEF Types
<1>4. r \in Reqs /\ n.nr \in 1 .. acts /\ \A t, q : n \in S(t, q) <=> t = "cancel" /\ q = r
  BY <1>0, <1>3, Fields, Classes
<1>5. PICK a \in Verdicts :
          /\ Tell(<<[type |-> "ack", id |-> r, nr |-> n.nr, answer |-> a]>>)
          /\ \/ /\ a = "cancelled" /\ r \in asked /\ Running(r)
                /\ attempt' = [attempt EXCEPT ![r] = "cancelled"] /\ prompts' = prompts \ {r}
             \/ /\ a = "already_committed" /\ attempt' = attempt /\ prompts' = prompts
             \/ /\ a = "not_found" /\ attempt' = attempt /\ prompts' = prompts
                /\ ~(r \in asked /\ Running(r)) /\ ~(r \in asked /\ attempt[r] = "committed")
  BY <1>0 DEF ServeCancel, Running, Verdicts
<1>6. PICK m : m = [type |-> "ack", id |-> r, nr |-> n.nr, answer |-> a]
  OBVIOUS
<1>7. m \in ToClient(acts) /\ m.type = "ack" /\ m.id = r /\ m.answer = a /\ m.nr = n.nr
  BY <1>4, <1>6 DEF ToClient
<1>8. /\ \A t, q : m \in C(t, q) <=> t = "ack" /\ q = r
      /\ \A q, b : m \in Ack(q, b) <=> q = r /\ b = a
      /\ \A q, k : m \in NotFound(q, k) => q = r /\ a = "not_found"
  BY <1>3, <1>7, Classes
<1>9. /\ attempt \in [Reqs -> States] /\ asked \subseteq Reqs /\ prompts \subseteq Reqs /\ live \subseteq Ids
      /\ toClient \in Seq(ToClient(acts))
  BY <1>1 DEF Types, TypeOK, States
<1>10. /\ attempt' \in [Reqs -> States]
       /\ \A q \in Reqs : q # r => attempt'[q] = attempt[q]
       /\ \/ attempt'[r] = attempt[r] /\ prompts' = prompts /\ a # "cancelled"
          \/ /\ attempt'[r] = "cancelled" /\ attempt[r] \in {"running", "welcomed"}
             /\ a = "cancelled" /\ prompts' = prompts \ {r}
  BY <1>4, <1>5, <1>9 DEF States, Running
<1>11. /\ \A X : In(toServer', X) => In(toServer, X)
       /\ \A X : n \in X => In(toServer, X)
       /\ \A X : Once(toServer, X) => Once(toServer', X)
       /\ \A X, Y : Preceded(toServer, X, Y) => n \notin X
       /\ \A X, Y : Preceded(toServer, X, Y) /\ n \notin Y => Preceded(toServer', X, Y)
  BY <1>0, <1>3, TakenQueue
<1>12. /\ toClient' \in Seq(ToClient(acts)) /\ Alike(toClient, toClient', m)
       /\ \A X : In(toClient', X) <=> In(toClient, X) \/ m \in X
       /\ \A X, Y : m \notin X /\ Followed(toClient, X, Y) => Followed(toClient', X, Y)
       /\ \A X, Y : m \notin X /\ m \in Y => Followed(toClient', X, Y)
       /\ \A X, Y : Preceded(toClient, X, Y) /\ (m \notin X \/ In(toClient, Y)) => Preceded(toClient', X, Y)
  <2>1. toClient' = toClient \o <<m>>
    BY <1>3, <1>5, <1>6 DEF Tell
  <2> QED
    BY <1>7, <1>9, <2>1, LongerQueue
<1>13. live' = live /\ missed' = missed /\ late' = late /\ sessions' = sessions /\ asked' = asked
  BY <1>2 DEF history
<1>14. attempt[r] # "idle" /\ attempt[r] # "asking"
  BY <1>4, <1>11, <1>1 DEF PendingInv
<1>15. Types'
  BY <1>9, <1>10, <1>14, <1>1, <1>2, <1>3, <1>12, <1>13, ServerTypes
<1>16. /\ \A q \in Reqs : Dead(q) => Dead(q)'
       /\ \A q \in Reqs : Dead(q)' /\ a # "cancelled" => Dead(q)
  BY <1>10 DEF Dead
<1>17. /\ current' = current /\ paneMap' = paneMap /\ gateway' = gateway /\ closure' = closure
       /\ honoured' = honoured /\ banner' = banner /\ completed' = completed
       /\ cancelled' = cancelled /\ discarded' = discarded
       /\ \A q : StillPending(q)' <=> StillPending(q)
  BY <1>2, BrowserIdle
<1>18. SessionInv'
  BY <1>10, <1>1, <1>3, <1>7, <1>12, <1>13, <1>17, SessionsUntouched DEF AttemptsInv
<1>19. PendingInv'
  <2>1. \A q : In(toServer', S("connect", q)) <=> In(toServer, S("connect", q))
    BY <1>4, <1>3 DEF Alike
  <2>2. \A q : Preceded(toServer, S("cancel", q), S("connect", q)) =>
             Preceded(toServer', S("cancel", q), S("connect", q))
    BY <1>4, <1>11
  <2>3. /\ \A q : In(toClient', C("ack", q)) => In(toClient, C("ack", q)) \/ q = r
        /\ \A q : In(toClient, C("connected", q)) => In(toClient', C("connected", q))
    BY <1>8, <1>12
  <2> HIDE DEF StillPending
  <2>4. \A q \in Reqs : attempt'[q] = "idle" =>
            /\ ~StillPending(q)' /\ q \notin cancelled'
            /\ ~In(toServer', S("cancel", q)) /\ ~In(toClient', C("ack", q))
    BY <1>1, <1>10, <1>11, <1>14, <1>17, <2>3 DEF PendingInv
  <2>5. \A q \in Reqs : StillPending(q)' =>
            /\ attempt'[q] = "asking" \/ q \in asked'
            /\ attempt'[q] = "recorded" => In(toClient', C("connected", q))
    BY <1>1, <1>10, <1>13, <1>14, <1>17, <2>3 DEF PendingInv
  <2>6. \A q \in cancelled' : ~StillPending(q)'
    BY <1>1, <1>17 DEF PendingInv
  <2>7. \A q \in Reqs : /\ attempt'[q] = "asking" <=> In(toServer', S("connect", q))
                        /\ Once(toServer', S("connect", q))
                        /\ attempt'[q] = "asking" => Preceded(toServer', S("cancel", q), S("connect", q))
    BY <1>1, <1>10, <1>11, <1>14, <2>1, <2>2 DEF PendingInv
  <2>8. paneMap' \subseteq {current'}
    BY <1>1, <1>17 DEF PendingInv
  <2> QED
    BY <2>4, <2>5, <2>6, <2>7, <2>8 DEF PendingInv
<1>20. CancelInv'
  <2> HIDE DEF StillPending, Dead
  <2>1. \A q \in honoured' : Dead(q)'
    BY <1>1, <1>16, <1>17 DEF CancelInv, Types
  <2>2. \A q \in Reqs : In(toClient', Ack(q, "cancelled")) => attempt'[q] = "cancelled"
    BY <1>1, <1>10, <1>8, <1>12 DEF CancelInv
  <2>3. StillPending(r) /\ ~Dead(r) /\ a = "not_found" => In(toClient, C("connected", r))
    BY <1>1, <1>4, <1>14, <1>5, <1>9 DEF PendingInv, Running, States, Dead
  <2>4. \A q \in Reqs : StillPending(q)' /\ q \notin completed' /\ ~Dead(q)' /\ closure'[q] # 0 =>
            Preceded(toClient', NotFound(q, closure'[q]), C("connected", q))
    BY <1>1, <1>16, <1>17, <1>8, <2>3, <1>12 DEF CancelInv
  <2> QED
    BY <2>1, <2>2, <2>4 DEF CancelInv
<1>21. BannerInv'
  <2>1. \A q : m \notin C("banner", q)
    BY <1>8
  <2>2. a = "cancelled" => m \in Outcome(r)
    BY <1>8 DEF Outcome
  <2>3. \A q \in Reqs : /\ In(toClient', C("banner", q)) => In(toClient, C("banner", q))
                        /\ Once(toClient, C("banner", q)) => Once(toClient', C("banner", q))
                        /\ Followed(toClient, C("banner", q), Outcome(q)) =>
                               Followed(toClient', C("banner", q), Outcome(q))
                        /\ In(toClient, Outcome(q)) => In(toClient', Outcome(q))
    BY <1>12, <2>1 DEF Alike
  <2>4. \A q \in prompts' : attempt'[q] = "running"
    BY <1>1, <1>9, <1>10 DEF BannerInv
  <2>5. \A q \in Reqs : attempt'[q] = "running" => attempt[q] = "running" /\ (q \in prompts => q \in prompts')
    BY <1>10
  <2>6. \A q \in Reqs : Shown(q) => attempt'[q] \in {"running", "failed", "cancelled"}
    <3>1. \A q \in Reqs : Shown(q) => attempt[q] \in {"running", "failed", "cancelled"}
      BY <1>1 DEF BannerInv
    <3> HIDE DEF Shown
    <3> QED
      BY <1>10, <3>1
  <2>7. \A q \in prompts \ prompts' : Shown(q) => In(toClient', Outcome(q))
                                                  /\ Followed(toClient', C("banner", q), Outcome(q))
    BY <1>12, <2>1, <2>2, <1>10
  <2>8. \A q \in Reqs : Decided(q)' => Decided(q)
    BY <1>11 DEF Decided
  <2>9. \A q \in Reqs : Decided(q)' => Decided(q) /\ attempt'[q] \notin {"idle", "asking"}
    BY <1>1, <1>10, <2>8 DEF BannerInv
  <2>10. prompts' \subseteq prompts
    BY <1>10
  <2> QED
    BY <1>1, <1>13, <1>17, <2>3, <2>4, <2>5, <2>6, <2>7, <2>9, <2>10, BannersFade
<1> QED
  BY <1>15, <1>18, <1>19, <1>20, <1>21 DEF AttemptsInv

\* A session ends at the server: the browser is told, or was away.
LEMMA SessionGone ==
    ASSUME AttemptsInv, NEW s \in Ids, NEW n,
           UNCHANGED <<attemptVars, cancelVars, sessions, timers, link, attempt, asked, prompts, late, acts>>,
           toServer' \in Seq(ToServer(acts)), Alike(toServer, toServer', n),
           n.type \in {"disconnect", "discard", "nothing"},
           \A q \in Ids : q # s /\ Leaving(q) => Leaving(q)',
           live' = live \ {s},
           IF s \in live THEN Tell(<<[type |-> "disconnected", id |-> s]>>) ELSE UNCHANGED toClient,
           missed' = IF s \notin live \/ link = "up" THEN missed ELSE missed \cup {s}
    PROVE  AttemptsInv'
<1>0. PICK m : m = [type |-> "disconnected", id |-> s]
  OBVIOUS
<1>1. Types /\ SessionInv /\ PendingInv /\ CancelInv /\ BannerInv
  BY DEF AttemptsInv
<1>2. /\ attempt \in [Reqs -> States] /\ asked \subseteq Reqs /\ prompts \subseteq Reqs /\ live \subseteq Ids
      /\ toClient \in Seq(ToClient(acts)) /\ acts \in Numbers
      /\ link \in {"up", "down"} /\ (link = "down" => toClient = <<>> /\ asked = {})
  BY <1>1 DEF Types, TypeOK, States
<1>3. m \in ToClient(acts) /\ m.type = "disconnected" /\ m.id = s
  BY <1>0 DEF ToClient
<1>4. \A t, q : m \in C(t, q) <=> t = "disconnected" /\ q = s
  BY <1>2, <1>3, Classes
<1>5. /\ toClient' \in Seq(ToClient(acts)) /\ Alike(toClient, toClient', m)
      /\ \A X : In(toClient, X) => In(toClient', X)
      /\ \A X : In(toClient', X) => In(toClient, X) \/ (m \in X /\ s \in live)
      /\ \A X, Y : m \notin X /\ Followed(toClient, X, Y) => Followed(toClient', X, Y)
      /\ s \in live /\ link = "up" =>
             /\ \A X : m \in X => In(toClient', X)
             /\ \A X, Y : m \notin X /\ m \in Y => Followed(toClient', X, Y)
      /\ link = "down" => toClient' = <<>>
  <2>1. CASE s \in live /\ link = "up"
    <3>1. toClient' = toClient \o <<m>>
      BY <1>0, <2>1 DEF Tell
    <3>2. toClient \o <<m>> \in Seq(ToClient(acts)) /\ Alike(toClient, toClient \o <<m>>, m)
      BY <1>2, <1>3, LongerQueue
    <3>3. \A X : In(toClient \o <<m>>, X) <=> In(toClient, X) \/ m \in X
      BY <1>2, <1>3, LongerQueue
    <3>4. \A X, Y : m \notin X /\ Followed(toClient, X, Y) => Followed(toClient \o <<m>>, X, Y)
      BY <1>2, <1>3, LongerQueue
    <3>5. \A X, Y : m \notin X /\ m \in Y => Followed(toClient \o <<m>>, X, Y)
      BY <1>2, <1>3, LongerQueue
    <3> QED
      BY <2>1, <3>1, <3>2, <3>3, <3>4, <3>5
  <2>2. CASE ~(s \in live /\ link = "up")
    BY <2>2, <1>2, SameIsAlike DEF Tell
  <2> QED
    BY <2>1, <2>2
<1>6. late' = late /\ sessions' = sessions /\ asked' = asked /\ attempt' = attempt /\ prompts' = prompts
  OBVIOUS
<1>7. Types'
  <2>1. live' \subseteq Ids
    BY <1>2
  <2> QED
    BY <1>1, <1>2, <1>5, <1>6, <2>1, ServerTypes
<1>8. /\ current' = current /\ paneMap' = paneMap /\ gateway' = gateway /\ closure' = closure
      /\ honoured' = honoured /\ banner' = banner /\ completed' = completed
      /\ cancelled' = cancelled /\ discarded' = discarded
      /\ \A q : StillPending(q)' <=> StillPending(q)
  BY BrowserIdle
<1>9. \A q \in Reqs : Dead(q)' <=> Dead(q)
  BY <1>6 DEF Dead
<1>10. SessionInv'
  <2>1. /\ \A q : m \notin C("connected", q) /\ m \notin C("restored", q)
        /\ \A q : q # s => m \notin C("disconnected", q)
        /\ m \in C("disconnected", s)
    BY <1>4
  <2>2. /\ \A q : Arriving(q)' <=> Arriving(q)
        /\ \A q : Ending(q) => Ending(q)'
        /\ \A q : Ending(q)' => Ending(q) \/ (q = s /\ s \in live)
        /\ s \in live /\ link = "up" => Ending(s)'
        /\ \A q : In(toClient', C("restored", q)) <=> In(toClient, C("restored", q))
        /\ \A q : In(toClient', C("connected", q)) <=> In(toClient, C("connected", q))
    BY <1>5, <2>1 DEF Alike, Ending, Arriving
  <2>3. /\ \A q : Once(toClient, C("connected", q)) => Once(toClient', C("connected", q))
        /\ \A q : Followed(toClient, C("connected", q), C("disconnected", q))
                  => Followed(toClient', C("connected", q), C("disconnected", q))
        /\ \A q : Followed(toClient, C("restored", q), C("disconnected", q))
                  => Followed(toClient', C("restored", q), C("disconnected", q))
        /\ s \in live /\ link = "up" => /\ Followed(toClient', C("connected", s), C("disconnected", s))
                                        /\ Followed(toClient', C("restored", s), C("disconnected", s))
    BY <1>5, <2>1 DEF Alike
  <2>4. missed \subseteq missed' /\ (s \in live /\ s \notin missed' => link = "up")
    OBVIOUS
  <2> HIDE DEF Arriving, Ending, Leaving
  <2>5. \A q \in Reqs : attempt'[q] # "recorded" =>
            sessions'[q] = "none" /\ q \notin live' /\ q \notin discarded' /\ ~Arriving(q)' /\ ~Ending(q)'
    BY <1>1, <1>6, <1>8, <2>2 DEF SessionInv
  <2>6. \A q \in Ids : Ending(q)' => q \notin live'
    BY <1>1, <2>2 DEF SessionInv
  <2>7. \A q \in Ids \ missed' : sessions'[q] = "connected" => q \in live' \/ Ending(q)'
    BY <1>1, <1>6, <2>2, <2>4 DEF SessionInv
  <2>8. \A q \in Ids \ missed' : q \in live' => sessions'[q] = "connected" \/ Arriving(q)' \/ Leaving(q)'
    BY <1>1, <1>6, <2>2, <2>4 DEF SessionInv
  <2>9. \A q \in Ids \ missed' : q \notin live' =>
            /\ Followed(toClient', C("connected", q), C("disconnected", q))
            /\ Followed(toClient', C("restored", q), C("disconnected", q))
    BY <1>1, <2>3, <2>4 DEF SessionInv
  <2>10. \A q \in Reqs : In(toClient', C("connected", q)) =>
            /\ sessions'[q] = "none" /\ q \notin discarded'
            /\ ~In(toClient', C("restored", q)) /\ Once(toClient', C("connected", q))
    BY <1>1, <1>6, <1>8, <2>2, <2>3 DEF SessionInv
  <2>11. \A q \in discarded' : sessions'[q] # "connected" /\ ~Arriving(q)'
    BY <1>1, <1>6, <1>8, <2>2 DEF SessionInv
  <2> QED
    BY <2>5, <2>6, <2>7, <2>8, <2>9, <2>10, <2>11 DEF SessionInv
<1>11. PendingInv'
  BY <1>1, <1>3, <1>5, <1>6, <1>8, PendingUntouched DEF PendingInv, Types, TypeOK
<1>12. CancelInv'
  BY <1>1, <1>3, <1>5, <1>6, <1>8, <1>9, CancelsUntouched
<1>13. BannerInv'
  BY <1>1, <1>3, <1>5, <1>6, <1>8, <1>9, BannersUntouched
<1> QED
  BY <1>7, <1>10, <1>11, <1>12, <1>13 DEF AttemptsInv

\* The server ends a session the browser gave back or closed.
LEMMA ServeDisconnectStep ==
    ASSUME AttemptsInv, ServeDisconnect
    PROVE  AttemptsInv'
<1>0. PICK n, s : n = Head(toServer) /\ s = n.id
  OBVIOUS
<1>1. Types /\ (TakeServer("disconnect") \/ TakeServer("discard"))
  BY DEF AttemptsInv, ServeDisconnect
<1>2. /\ n \in ToServer(acts) /\ n.type \in {"disconnect", "discard"} /\ link = "up"
      /\ toServer \in Seq(ToServer(acts)) /\ toServer # <<>> /\ toServer' = Tail(toServer)
      /\ toServer' \in Seq(ToServer(acts)) /\ Alike(toServer, toServer', n) /\ acts \in Numbers
  BY <1>0, <1>1, ServerTakes DEF Types
<1>3. /\ UNCHANGED <<attemptVars, cancelVars, sessions, timers, link, attempt, asked, prompts, history, acts>>
      /\ live' = live \ {s}
      /\ IF s \in live THEN Tell(<<[type |-> "disconnected", id |-> s]>>) ELSE UNCHANGED toClient
  BY <1>0 DEF ServeDisconnect
<1>4. s \in Ids /\ \A q : q # s => n \notin S("disconnect", q) /\ n \notin S("discard", q)
  BY <1>0, <1>2, Fields, Classes
<1>5. \A q \in Ids : q # s /\ Leaving(q) => Leaving(q)'
  BY <1>2, <1>4 DEF Alike, Leaving
<1>6. missed' = (IF s \notin live \/ link = "up" THEN missed ELSE missed \cup {s}) /\ late' = late
  BY <1>2, <1>3 DEF history
<1> HIDE DEF Leaving
<1> QED
  BY <1>2, <1>3, <1>4, <1>5, <1>6, SessionGone

\* A session ends at its host.
LEMMA SessionEndsStep ==
    ASSUME AttemptsInv, NEW s \in Ids, SessionEnds(s)
    PROVE  AttemptsInv'
<1>1. /\ UNCHANGED <<attemptVars, cancelVars, sessions, timers, link, toServer, attempt, asked, prompts, late, acts>>
      /\ s \in live /\ live' = live \ {s} /\ Tell(<<[type |-> "disconnected", id |-> s]>>)
      /\ missed' = IF link = "up" THEN missed ELSE missed \cup {s}
  BY DEF SessionEnds
<1>2. toServer' \in Seq(ToServer(acts)) /\ \A q : Leaving(q) => Leaving(q)'
  BY <1>1 DEF AttemptsInv, Types, Leaving
<1>3. Alike(toServer, toServer', Nothing) /\ Nothing.type = "nothing"
  BY <1>1, SameIsAlike DEF Nothing
<1> HIDE DEF Leaving
<1> QED
  BY <1>1, <1>2, <1>3, SessionGone

----------------------------------------------------------------------------
(* The socket.                                                             *)

\* The socket drops: what was under way is lost, and counted as missed.
LEMMA DropStep ==
    ASSUME AttemptsInv, Disconnect
    PROVE  AttemptsInv'
<1>1. Types /\ SessionInv /\ PendingInv /\ CancelInv /\ BannerInv
  BY DEF AttemptsInv
<1>2. /\ link' = "down" /\ toServer' = <<>> /\ toClient' = <<>> /\ asked' = {} /\ banner' = None
      /\ gateway' = {} /\ replaces' = [r \in Requests |-> None] /\ paneMap' = {} /\ cancelled' = {}
      /\ completed' = {} /\ discarded' = {} /\ current' = None /\ modalRequest' = None
      /\ UNCHANGED <<modal, toReplace, closure, honoured, sessions, timers, prompts, live, late, acts>>
  BY DEF Disconnect
<1>3. /\ missed \subseteq missed'
      /\ \A i \in 1 .. Len(toClient) :
             toClient[i].type \in {"connected", "disconnected", "restored"} => toClient[i].id \in missed'
      /\ \A i \in 1 .. Len(toServer) :
             toServer[i].type \in {"disconnect", "discard"} => toServer[i].id \in missed'
  BY DEF Disconnect
<1>4. attempt' = [r \in Reqs |-> IF attempt[r] = "asking"
                                    /\ \E i \in 1 .. Len(toServer) : toServer[i].type = "connect" /\ toServer[i].id = r
                                 THEN "failed" ELSE attempt[r]]
  BY DEF Disconnect
<1>5. attempt \in [Reqs -> States] /\ discarded \subseteq Reqs /\ honoured \subseteq Reqs
  BY <1>1 DEF Types, TypeOK, States
<1>6. /\ attempt' \in [Reqs -> States]
      /\ \A r \in Reqs : attempt'[r] # "asking"
      /\ \A r \in Reqs : attempt'[r] = attempt[r] \/ (attempt[r] = "asking" /\ attempt'[r] = "failed")
  BY <1>4, <1>5, <1>1 DEF States, PendingInv, In, S
<1>7. \A X, Y : /\ ~In(toServer', X) /\ ~In(toClient', X) /\ Once(toServer', X) /\ Once(toClient', X)
                /\ Followed(toClient', X, Y) /\ Preceded(toClient', X, Y) /\ Preceded(toServer', X, Y)
  BY <1>2, EmptyQueue
<1>8. \A r \in Reqs : ~StillPending(r)'
  BY <1>2, Kinds DEF StillPending
<1>9. \A s : ~Arriving(s)' /\ ~Ending(s)' /\ ~Leaving(s)' /\ ~Decided(s)'
  BY <1>7 DEF Arriving, Ending, Leaving, Decided
<1>10. \A s \in Reqs : ~Shown(s)'
  BY <1>2, <1>7, Kinds DEF Shown
<1>11. Types'
  BY <1>1, <1>2, <1>6, Kinds DEF Types, TypeOK, States
<1>12. SessionInv'
  <2>1. ASSUME NEW s \in Ids \ missed'
        PROVE  s \notin missed /\ ~Arriving(s) /\ ~Ending(s) /\ ~Leaving(s)
    BY <1>3, <2>1 DEF In, C, S, Arriving, Ending, Leaving
  <2> HIDE DEF Arriving, Ending, Leaving
  <2>2. \A r \in Reqs : attempt'[r] # "recorded" =>
            sessions'[r] = "none" /\ r \notin live' /\ r \notin discarded' /\ ~Arriving(r)' /\ ~Ending(r)'
    BY <1>1, <1>2, <1>6, <1>9 DEF SessionInv
  <2>3. \A s \in Ids \ missed' : (sessions'[s] = "connected") <=> s \in live'
    BY <1>1, <1>2, <2>1 DEF SessionInv
  <2> QED
    BY <1>2, <1>7, <1>9, <2>2, <2>3 DEF SessionInv
<1>13. PendingInv'
  <2> HIDE DEF StillPending
  <2> QED
    BY <1>2, <1>6, <1>7, <1>8 DEF PendingInv
<1>14. CancelInv'
  <2>1. \A r \in honoured' : Dead(r)'
    BY <1>1, <1>2, <1>5, <1>6 DEF CancelInv, Dead
  <2> HIDE DEF StillPending, Dead
  <2> QED
    BY <1>7, <1>8, <2>1 DEF CancelInv
<1>15. BannerInv'
  <2>1. \A r \in prompts' : attempt'[r] = "running"
    BY <1>1, <1>2, <1>6 DEF BannerInv, Types, TypeOK
  <2> HIDE DEF Shown, Decided
  <2> QED
    BY <1>2, <1>7, <1>9, <1>10, <2>1, Kinds DEF BannerInv
<1> QED
  BY <1>11, <1>12, <1>13, <1>14, <1>15 DEF AttemptsInv

\* A finite set as a queue: every element of it is in it, and nothing else.
LEMMA SetIsQueued ==
    ASSUME NEW Z, IsFiniteSet(Z)
    PROVE  SetToSeq(Z) \in Seq(Z) /\ \A x \in Z : In(SetToSeq(Z), {x})
<1> DEFINE f == SetToSeq(Z)
<1>1. Cardinality(Z) \in Nat /\ ExistsBijection(1 .. Cardinality(Z), Z)
  BY FS_CardinalityType
<1>2. \E g \in [1 .. Cardinality(Z) -> Z] : IsInjective(g)
  BY <1>1 DEF ExistsBijection, Bijection, Injection, IsInjective
<1>3. f \in [1 .. Cardinality(Z) -> Z] /\ IsInjective(f)
  BY <1>2 DEF SetToSeq
<1> HIDE DEF f
<1>4. f \in Seq(Z) /\ Len(f) = Cardinality(Z)
  BY <1>1, <1>3
<1>5. f \in Injection(1 .. Cardinality(Z), Z)
  BY <1>3 DEF Injection, IsInjective
<1>6. Cardinality(1 .. Cardinality(Z)) = Cardinality(Z)
  BY <1>1, FS_Interval
<1>7. f \in Surjection(1 .. Cardinality(Z), Z)
  BY <1>5, <1>6, FS_Injection
<1>8. \A x \in Z : \E i \in 1 .. Len(f) : f[i] = x
  BY <1>4, <1>7 DEF Surjection
<1> QED
  BY <1>4, <1>8 DEF f, In

\* The messages of one kind to a finite set of sessions are finitely many.
LEMMA FiniteMessages ==
    ASSUME NEW t, NEW Z, IsFiniteSet(Z)
    PROVE  IsFiniteSet({[type |-> t, id |-> s] : s \in Z})
<1> DEFINE T == {[type |-> t, id |-> s] : s \in Z}
           f == [s \in Z |-> [type |-> t, id |-> s]]
<1>1. f \in Surjection(Z, T)
  BY DEF Surjection
<1> QED
  BY <1>1, FS_Surjection

\* What is in one of two queues, and what is in neither.
LEMMA JoinedQueues ==
    ASSUME NEW M, NEW p \in Seq(M), NEW q \in Seq(M)
    PROVE  p \o q \in Seq(M) /\ \A X : In(p \o q, X) <=> In(p, X) \/ In(q, X)
<1> DEFINE t == p \o q
<1>1. /\ Len(p) \in Nat /\ Len(q) \in Nat /\ t \in Seq(M) /\ Len(t) = Len(p) + Len(q)
      /\ \A i \in 1 .. Len(p) : t[i] = p[i]
      /\ \A i \in 1 .. Len(q) : t[Len(p) + i] = q[i]
  OBVIOUS
<1> HIDE DEF t
<1>2. ASSUME NEW X, In(t, X)
      PROVE  In(p, X) \/ In(q, X)
  <2>1. PICK i \in 1 .. Len(t) : t[i] \in X
    BY <1>2 DEF In
  <2>2. CASE i \in 1 .. Len(p)
    BY <1>1, <2>1, <2>2 DEF In
  <2>3. CASE i \notin 1 .. Len(p)
    <3>1. i - Len(p) \in 1 .. Len(q) /\ i = Len(p) + (i - Len(p))
      BY <1>1, <2>3
    <3>2. q[i - Len(p)] = t[i]
      BY <1>1, <3>1
    <3> QED
      BY <2>1, <3>1, <3>2 DEF In
  <2> QED
    BY <2>2, <2>3
<1>3. ASSUME NEW X, In(p, X)
      PROVE  In(t, X)
  BY <1>1, <1>3 DEF In
<1>4. ASSUME NEW X, In(q, X)
      PROVE  In(t, X)
  <2>1. \A i \in 1 .. Len(q) : Len(p) + i \in 1 .. Len(t)
    BY <1>1
  <2> QED
    BY <1>1, <1>4, <2>1 DEF In
<1> QED
  BY <1>1, <1>2, <1>3, <1>4 DEF t

\* The socket is back: the live sessions are restored, and others offered.
LEMMA BackStep ==
    ASSUME AttemptsInv, NEW offered \in SUBSET Candidates, Connect(offered)
    PROVE  AttemptsInv'
<1>1. Types /\ SessionInv /\ PendingInv /\ CancelInv /\ BannerInv
  BY DEF AttemptsInv
<1>2. /\ link = "down" /\ link' = "up" /\ missed' = missed \ live
      /\ UNCHANGED <<attemptVars, cancelVars, sessions, timers, toServer, serverVars, late, acts, drops>>
  BY DEF Connect
<1>3. /\ live' = live /\ attempt' = attempt /\ asked' = asked /\ prompts' = prompts /\ late' = late
      /\ sessions' = sessions /\ toServer' = toServer /\ acts' = acts /\ timers' = timers
  BY <1>2 DEF serverVars
<1>4. /\ current' = current /\ paneMap' = paneMap /\ gateway' = gateway /\ closure' = closure
      /\ honoured' = honoured /\ banner' = banner /\ completed' = completed
      /\ cancelled' = cancelled /\ discarded' = discarded
      /\ \A q : StillPending(q)' <=> StillPending(q)
  BY <1>2, BrowserIdle
<1>5. /\ toClient = <<>> /\ asked = {} /\ banner = None /\ discarded = {}
      /\ live \subseteq Ids /\ acts \in Numbers /\ honoured \subseteq Reqs /\ cancelled \subseteq Reqs
      /\ prompts \subseteq Reqs
  BY <1>1, <1>2 DEF Types, TypeOK
<1>6. /\ \A X, Y : ~In(toClient, X) /\ Followed(toClient, X, Y)
      /\ \A q : ~Arriving(q) /\ ~Ending(q)
  BY <1>5, EmptyQueue DEF Arriving, Ending
<1>7. /\ toClient' \in Seq(ToClient(acts))
      /\ \A s \in live : In(toClient', C("restored", s))
      /\ \A X : In(toClient', X) => \/ \E s \in live : [type |-> "restored", id |-> s] \in X
                                    \/ \E s \in Candidates : [type |-> "candidate", id |-> s] \in X
  <2>1. PICK P, Q : /\ P = {[type |-> "restored", id |-> s] : s \in live}
                    /\ Q = {[type |-> "candidate", id |-> s] : s \in offered \ live}
    OBVIOUS
  <2>2. IsFiniteSet(live) /\ IsFiniteSet(offered \ live)
    BY <1>5, AttemptsAssumption, Kinds, FS_Subset
  <2>3. IsFiniteSet(P) /\ IsFiniteSet(Q)
    BY <2>1, <2>2, FiniteMessages
  <2>4. P \subseteq ToClient(acts) /\ Q \subseteq ToClient(acts)
    BY <1>5, <2>1 DEF ToClient
  <2>5. /\ SetToSeq(P) \in Seq(P) /\ \A x \in P : In(SetToSeq(P), {x})
        /\ SetToSeq(Q) \in Seq(Q)
    BY <2>3, SetIsQueued
  <2>6. SetToSeq(P) \in Seq(ToClient(acts)) /\ SetToSeq(Q) \in Seq(ToClient(acts))
    BY <2>4, <2>5
  <2>7. toClient' = SetToSeq(P) \o SetToSeq(Q)
    BY <2>1 DEF Connect
  <2>8. /\ toClient' \in Seq(ToClient(acts))
        /\ \A X : In(toClient', X) <=> In(SetToSeq(P), X) \/ In(SetToSeq(Q), X)
    BY <2>6, <2>7, JoinedQueues
  <2>9. ASSUME NEW s \in live
        PROVE  In(toClient', C("restored", s))
    <3>1. PICK x : x = [type |-> "restored", id |-> s]
      OBVIOUS
    <3>2. x \in P /\ x \in C("restored", s)
      BY <2>1, <2>4, <3>1, <1>5, Classes
    <3>3. In(SetToSeq(P), {x})
      BY <2>5, <3>2
    <3>4. In(SetToSeq(P), C("restored", s))
      BY <3>2, <3>3 DEF In
    <3> QED
      BY <2>8, <3>4
  <2>10. ASSUME NEW X, In(toClient', X)
         PROVE  \/ \E s \in live : [type |-> "restored", id |-> s] \in X
                \/ \E s \in Candidates : [type |-> "candidate", id |-> s] \in X
    <3>1. CASE In(SetToSeq(P), X)
      BY <2>5, <3>1, PresentMessages, <2>1
    <3>2. CASE In(SetToSeq(Q), X)
      BY <2>5, <3>2, PresentMessages, <2>1
    <3> QED
      BY <2>8, <2>10, <3>1, <3>2
  <2> QED
    BY <2>8, <2>9, <2>10
<1>8. /\ \A t, q : t \notin {"restored", "candidate"} => ~In(toClient', C(t, q))
      /\ \A q : q \notin live => ~In(toClient', C("restored", q))
      /\ \A q, a : ~In(toClient', Ack(q, a)) /\ ~In(toClient', NotFound(q, a))
  <2>0. ASSUME NEW t, NEW q, In(toClient', C(t, q))
        PROVE  (t = "restored" /\ q \in live) \/ t = "candidate"
    <3>1. \/ \E s \in live : [type |-> "restored", id |-> s] \in C(t, q)
          \/ \E s \in Candidates : [type |-> "candidate", id |-> s] \in C(t, q)
      BY <1>7, <2>0
    <3>2. \A x \in C(t, q) : x.type = t /\ x.id = q
      BY DEF C
    <3>3. CASE \E s \in live : [type |-> "restored", id |-> s] \in C(t, q)
      BY <3>3, <3>2
    <3>4. CASE \E s \in Candidates : [type |-> "candidate", id |-> s] \in C(t, q)
      BY <3>4, <3>2
    <3> QED
      BY <3>1, <3>3, <3>4
  <2>1. \A t, q : t \notin {"restored", "candidate"} => ~In(toClient', C(t, q))
    BY <2>0
  <2>2. \A q : q \notin live => ~In(toClient', C("restored", q))
    BY <2>0
  <2>3. \A q, a : Ack(q, a) \subseteq C("ack", q) /\ NotFound(q, a) \subseteq C("ack", q)
    BY DEF Ack, NotFound
  <2> QED
    BY <2>1, <2>2, <2>3 DEF In
<1>9. Types'
  BY <1>1, <1>2, <1>3, <1>7, <1>4 DEF Types, TypeOK, attemptVars, cancelVars, serverVars
<1>10. SessionInv'
  <2>1. /\ \A q : Arriving(q)' <=> q \in live
        /\ \A q : ~Ending(q)'
        /\ \A q : Leaving(q)' <=> Leaving(q)
    BY <1>3, <1>7, <1>8 DEF Arriving, Ending, Leaving
  <2>2. \A q : Followed(toClient', C("connected", q), C("disconnected", q))
    BY <1>8, AbsentMessages
  <2>3. \A q : q \notin live => Followed(toClient', C("restored", q), C("disconnected", q))
    BY <1>8, AbsentMessages
  <2> HIDE DEF Arriving, Ending, Leaving
  <2>4. \A q \in Reqs : attempt'[q] # "recorded" =>
            sessions'[q] = "none" /\ q \notin live' /\ q \notin discarded' /\ ~Arriving(q)' /\ ~Ending(q)'
    BY <1>1, <1>3, <1>4, <2>1 DEF SessionInv
  <2>5. \A q \in Ids \ missed' :
            /\ sessions'[q] = "connected" => q \in live' \/ Ending(q)'
            /\ q \in live' => sessions'[q] = "connected" \/ Arriving(q)' \/ Leaving(q)'
            /\ q \notin live' => /\ Followed(toClient', C("connected", q), C("disconnected", q))
                                 /\ Followed(toClient', C("restored", q), C("disconnected", q))
    BY <1>1, <1>2, <1>3, <1>6, <2>1, <2>2, <2>3 DEF SessionInv
  <2> QED
    BY <1>4, <1>5, <1>8, <2>1, <2>4, <2>5 DEF SessionInv
<1>11. PendingInv'
  <2> HIDE DEF StillPending
  <2>1. \A q \in Reqs : attempt'[q] = "idle" =>
            /\ ~StillPending(q)' /\ q \notin cancelled'
            /\ ~In(toServer', S("cancel", q)) /\ ~In(toClient', C("ack", q))
    BY <1>1, <1>3, <1>4, <1>8 DEF PendingInv
  <2>2. \A q \in Reqs : StillPending(q)' =>
            /\ attempt'[q] = "asking" \/ q \in asked'
            /\ attempt'[q] = "recorded" => In(toClient', C("connected", q))
    BY <1>1, <1>3, <1>4, <1>5 DEF PendingInv
  <2>3. \A q \in cancelled' : ~StillPending(q)'
    BY <1>1, <1>4 DEF PendingInv
  <2>4. \A q \in Reqs : /\ attempt'[q] = "asking" <=> In(toServer', S("connect", q))
                        /\ Once(toServer', S("connect", q))
                        /\ attempt'[q] = "asking" => Preceded(toServer', S("cancel", q), S("connect", q))
    BY <1>1, <1>3 DEF PendingInv
  <2>5. paneMap' \subseteq {current'}
    BY <1>1, <1>4 DEF PendingInv
  <2> QED
    BY <2>1, <2>2, <2>3, <2>4, <2>5 DEF PendingInv
<1>12. CancelInv'
  <2>1. \A q \in Reqs : Dead(q)' <=> Dead(q)
    BY <1>3 DEF Dead
  <2>2. \A q, a : Preceded(toClient', NotFound(q, a), C("connected", q))
    BY <1>8, AbsentMessages
  <2> HIDE DEF StillPending, Dead
  <2> QED
    BY <1>1, <1>4, <1>5, <1>8, <2>1, <2>2 DEF CancelInv
<1>13. BannerInv'
  <2>1. \A q \in Reqs : ~Shown(q)' /\ Once(toClient', C("banner", q)) /\ ~In(toClient', C("banner", q))
                        /\ Followed(toClient', C("banner", q), Outcome(q))
    BY <1>4, <1>5, <1>8, AbsentMessages, Kinds DEF Shown
  <2>2. \A q : Decided(q)' <=> Decided(q)
    BY <1>3 DEF Decided
  <2> HIDE DEF Shown, Decided
  <2>3. \A q \in Reqs : Decided(q)' => attempt'[q] \notin {"idle", "asking"}
    BY <1>1, <1>3, <2>2 DEF BannerInv
  <2>4. \A q \in Reqs : attempt'[q] = "running" /\ (Shown(q)' \/ Decided(q)') => q \in prompts'
    BY <1>1, <1>3, <2>1, <2>2 DEF BannerInv
  <2>5. \A q \in prompts' : attempt'[q] = "running"
    BY <1>1, <1>3 DEF BannerInv
  <2>6. banner' = None /\ banner' \notin Requests
    BY <1>4, <1>5, Kinds
  <2> QED
    BY <2>1, <2>3, <2>4, <2>5, <2>6 DEF BannerInv
<1> QED
  BY <1>9, <1>10, <1>11, <1>12, <1>13 DEF AttemptsInv

----------------------------------------------------------------------------
(* The specification.                                                      *)

\* The invariant holds of a page that has just loaded.
LEMMA AttemptsStart ==
    ASSUME Init
    PROVE  AttemptsInv
<1>1. /\ current = None /\ modal = "closed" /\ modalRequest = None /\ toReplace = None
      /\ replaces = [r \in Requests |-> None] /\ paneMap = {}
      /\ gateway = {} /\ banner = None /\ closure = [r \in Reqs |-> 0]
      /\ completed = {} /\ cancelled = {} /\ discarded = {}
      /\ sessions \in [Ids -> {"none", "candidate", "connected"}]
      /\ \A r \in Reqs : sessions[r] = "none"
      /\ live = {s \in Ids : sessions[s] = "connected"}
      /\ timers = {} /\ link = "up" /\ toServer = <<>> /\ toClient = <<>>
      /\ attempt = [r \in Reqs |-> "idle"] /\ asked = {} /\ prompts = {}
      /\ honoured = {} /\ missed = {} /\ acts = 0
  BY DEF Init
<1>2. \A X, Y : /\ ~In(toServer, X) /\ ~In(toClient, X) /\ Once(toServer, X) /\ Once(toClient, X)
                /\ Followed(toClient, X, Y) /\ Preceded(toClient, X, Y) /\ Preceded(toServer, X, Y)
  BY <1>1, EmptyQueue
<1>3. \A s : ~Arriving(s) /\ ~Ending(s) /\ ~Leaving(s) /\ ~Decided(s)
  BY <1>2 DEF Arriving, Ending, Leaving, Decided
<1>4. \A r \in Reqs : ~Shown(r) /\ ~StillPending(r)
  BY <1>1, <1>2, Kinds DEF Shown, StillPending
<1>5. Types
  BY AttemptsAssumption, <1>1 DEF Numbers, TypeOK, Types
<1> HIDE DEF Arriving, Ending, Leaving, Decided, Shown, StillPending
<1>6. SessionInv
  BY <1>1, <1>2, <1>3, Kinds DEF SessionInv
<1>7. PendingInv
  BY <1>1, <1>2, <1>4 DEF PendingInv
<1>8. CancelInv
  BY <1>1, <1>2, <1>4 DEF CancelInv
<1>9. BannerInv
  BY <1>1, <1>2, <1>3, <1>4, Kinds DEF BannerInv
<1> QED
  BY <1>5, <1>6, <1>7, <1>8, <1>9 DEF AttemptsInv

\* Every step keeps the invariant.
LEMMA AttemptsStay ==
    ASSUME AttemptsInv, [Next]_vars
    PROVE  AttemptsInv'
<1>1. CASE UserStep
  <2>1. CASE OpenModal
    BY <2>1, OpenModalStep
  <2>2. CASE DismissConnectionModal
    BY <2>2, DismissStep
  <2>3. CASE \E r \in Requests, f, p, i \in BOOLEAN, same \in SUBSET Candidates :
                 StartConnection(r, f, p, i, same)
    BY <2>3, StartStep
  <2>4. CASE \E s \in Ids : PrefillConnectionForm(s) \/ CloseSession(s)
    BY <2>4, PrefillStep, CloseStep
  <2>5. CASE \E s \in Ids, r \in Reconnects, i \in BOOLEAN : DirectReconnect(s, r, i)
    BY <2>5, DirectReconnectStep
  <2>6. CASE \E s \in Ids, t \in Reconnects \cup {Form} : RequestReconnect(s, t)
    BY <2>6, RequestReconnectStep
  <2>7. CASE \E r \in Reqs : CancelConnectionAttempt(r)
    BY <2>7, CancelStep
  <2>8. CASE \E a \in BOOLEAN : AnswerAuthBannerPrompt(a)
    BY <2>8, AnswerStep
  <2> QED
    BY <1>1, <2>1, <2>2, <2>3, <2>4, <2>5, <2>6, <2>7, <2>8 DEF UserStep
<1>2. CASE Handle
  BY <1>2, SuccessStep, FailureHeard, EndedStep, RestoredStep, OfferStep, QuestionHeard, AckStep DEF Handle
<1>3. CASE ClientTimers
  BY <1>3, AckTimeoutStep, ReconnectTimerStep, FormTimerStep DEF ClientTimers
<1>4. CASE Serve
  BY <1>4, ServeConnectStep, ServeCancelStep, DecisionStep, ServeDisconnectStep, AttemptFailsStep,
     CommitStep, RecordStep, NoticeStep DEF Serve
<1>5. CASE Back
  BY <1>5, BackStep DEF Back
<1>6. CASE Disconnect
  BY <1>6, DropStep
<1>7. CASE \E r \in Reqs : AskBanner(r) \/ ForgetTransientId(r)
  BY <1>7, AskStep, ForgetStep
<1>8. CASE \E s \in Ids : SessionEnds(s)
  BY <1>8, SessionEndsStep
<1>9. CASE UNCHANGED vars
  BY <1>9, AttemptsAssumption, FormStep DEF vars, attemptVars, AttemptsInv, Types, TypeOK, Numbers
<1> QED
  BY <1>1, <1>2, <1>3, <1>4, <1>5, <1>6, <1>7, <1>8, <1>9 DEF Next

\* What the invariant says of the page.
LEMMA AttemptsAgree ==
    ASSUME AttemptsInv
    PROVE  ConnectionsAgree
<1>1. Types /\ SessionInv /\ PendingInv /\ CancelInv /\ BannerInv
  BY DEF AttemptsInv
<1>2. SessionsAgree
  <2>1. SUFFICES ASSUME Quiet, NEW s \in Ids \ missed
                 PROVE  (sessions[s] = "connected") <=> s \in live
    BY DEF SessionsAgree
  <2>2. ~Arriving(s) /\ ~Ending(s) /\ ~Leaving(s)
    BY <2>1, EmptyQueue DEF Quiet, Arriving, Ending, Leaving
  <2> HIDE DEF Arriving, Ending, Leaving
  <2> QED
    BY <1>1, <2>2 DEF SessionInv
<1>3. CancelHonoured
  BY <1>1 DEF Types, CancelInv, Dead, CancelHonoured, SessionInv
<1>4. PromptIsAwaited
  BY EmptyQueue, <1>1 DEF PromptIsAwaited, Quiet, BannerInv
<1> QED
  BY <1>1, <1>2, <1>3, <1>4 DEF ConnectionsAgree, Types

\* When nothing is under way the browser shows as connected exactly the sessions the
\* server runs, a cancellation the user was told of never becomes a session, and a
\* banner question on the screen is one the server waits for: whatever crosses on the
\* two queues, however often the socket drops (app.js, session-manager.js).
THEOREM ConnectionsStayTrue == Spec => []ConnectionsAgree
<1>1. Init => AttemptsInv
  BY AttemptsStart
<1>2. AttemptsInv /\ [Next]_vars => AttemptsInv'
  BY AttemptsStay
<1>3. AttemptsInv => ConnectionsAgree
  BY AttemptsAgree
<1> QED
  BY <1>1, <1>2, <1>3, PTL DEF Spec

=============================================================================
