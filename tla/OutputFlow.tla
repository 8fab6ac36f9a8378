----------------------------- MODULE OutputFlow -----------------------------
(***************************************************************************)
(* The delivery of live terminal output to the browsers of a session       *)
(* (ssh_output_flow.py): every event is reserved against the windows of    *)
(* its socket, its user and the server until the browser acknowledges it   *)
(* (events are counted here, their bytes are counted the same way);        *)
(* a reader that waits too long, the watchdog and the reader whose send    *)
(* failed disconnect the browser that does not.                            *)
(***************************************************************************)
EXTENDS Naturals, FiniteSets

CONSTANTS Streams,       \* readers of SSH sessions, all of one user
          Browsers,      \* sockets of that user
          Everyone,      \* the scope of the limits of the user and the server
          SocketWindow, TotalWindow, \* the limits, in events
          MaxEvents,     \* bound: reservations
          MaxRefusals    \* bound: sends and disconnects that raise

ASSUME FlowAssumption ==
    /\ Everyone \notin Browsers
    /\ SocketWindow \in Nat /\ TotalWindow \in Nat /\ MaxEvents \in Nat

VARIABLES active,      \* _active_sockets
          reserved,    \* _reservations: records [id, browser, old]
          used,        \* [Scopes -> events in use]
          armed,       \* the reservations of _deadline_callbacks
          watchdog,    \* "none", "watching", or the callbacks it is about to call
          stream,      \* [Streams -> what the reader does]
          nextId, refusals

flowVars == <<active, reserved, used, armed, watchdog, stream, nextId, refusals>>

Scopes == Browsers \cup {Everyone}
ScopesOf(b) == {b, Everyone}
LimitOf(scope) == IF scope = Everyone THEN TotalWindow ELSE SocketWindow

AtRest == [pc |-> "rest", todo |-> {}, later |-> {}, to |-> {}, since |-> 0, token |-> 0]
NoCallbacks == {}

FlowTypeOK ==
    /\ active \subseteq Browsers
    /\ reserved \subseteq [id : 1 .. MaxEvents, browser : Browsers, old : BOOLEAN]
    /\ used \in [Scopes -> Nat]
    /\ armed \subseteq 1 .. MaxEvents /\ watchdog.running \in BOOLEAN
    /\ \A r \in Streams : stream[r].pc \in {"rest", "waiting", "late", "arming", "sending", "failed"}

FlowInit ==
    /\ active = Browsers /\ reserved = {} /\ armed = {}
    /\ used = [s \in Scopes |-> 0]
    /\ watchdog = [running |-> FALSE, calls |-> NoCallbacks]
    /\ stream = [r \in Streams |-> AtRest]
    /\ nextId = 1 /\ refusals = 0

----------------------------------------------------------------------------
(* The controller.                                                         *)

\* _fits
Fits(b) == b \in active /\ \A s \in ScopesOf(b) : used[s] + 1 =< LimitOf(s)

\* Mutant of Released: the window of the user and the server is forgotten.
ReleasedOfSocket(U, S) ==
    [s \in Scopes |-> IF s = Everyone THEN U[s] ELSE U[s] - Cardinality({x \in S : x.browser = s})]

\* What release and release_socket give back for the reservations S.
Released(U, S) ==
    [s \in Scopes |-> U[s] - Cardinality({x \in S : s \in ScopesOf(x.browser)})]

\* release and release_socket end these reservations; what was released before is
\* not there any more.
End(S) ==
    /\ reserved' = reserved \ S
    /\ used' = Released(used, S)
    /\ armed' = armed \ {x.id : x \in S}

Of(b) == {x \in reserved : x.browser = b}

\* release_socket, from handle_disconnect or from the fallback of
\* _disconnect_lagging_socket
ReleaseSocket(b) == active' = active \ {b} /\ End(Of(b))

\* _disconnect_lagging_socket releases, or raises and changes nothing.
Disconnect(b) ==
    \/ ReleaseSocket(b) /\ UNCHANGED refusals
    \/ /\ refusals < MaxRefusals /\ refusals' = refusals + 1
       /\ UNCHANGED <<active, reserved, used, armed>>

\* stale_sockets
Stale == {x.browser : x \in {y \in reserved : y.old}}

----------------------------------------------------------------------------
(* emit_ssh_output, by the reader of a session.                            *)

Goes(r, to) == stream' = [stream EXCEPT ![r] = to]

\* The next browser: those with room first, then those without.
NextBrowser(r) ==
    LET st == stream[r]
        from == IF st.todo # {} THEN st.todo ELSE st.later
    IN  IF from = {} THEN Goes(r, AtRest)
        ELSE \E b \in from :
               Goes(r, [st EXCEPT !.pc = "waiting", !.todo = @ \ {b}, !.later = @ \ {b},
                                  !.to = {b}, !.since = nextId, !.token = 0])

StartEmit(r) ==
    /\ stream[r].pc = "rest" /\ active # {} /\ nextId =< MaxEvents
    /\ \E b \in active :
         LET room == {x \in active : Fits(x)}
         IN  /\ room # {} => b \in room
             /\ Goes(r, [AtRest EXCEPT !.pc = "waiting", !.to = {b}, !.todo = room \ {b},
                                       !.later = (active \ room) \ {b}, !.since = nextId])
    /\ UNCHANGED <<active, reserved, used, armed, watchdog, nextId, refusals>>

\* reserve
ReserveEvent(r, b) ==
    LET st == stream[r]
        x == [id |-> nextId, browser |-> b, old |-> FALSE]
    IN  /\ st.pc = "waiting" /\ b \in st.to /\ Fits(b) /\ nextId =< MaxEvents
        /\ reserved' = reserved \cup {x}
        /\ used' = [s \in Scopes |->
                      IF s \in ScopesOf(b) THEN used[s] + 1 ELSE used[s]]
        /\ nextId' = nextId + 1
        /\ Goes(r, [st EXCEPT !.pc = "arming", !.token = nextId])
        /\ UNCHANGED <<active, armed, watchdog, refusals>>

\* reserve of a socket that is gone
ReserveGone(r, b) ==
    /\ stream[r].pc = "waiting" /\ b \in stream[r].to /\ b \notin active
    /\ NextBrowser(r)
    /\ UNCHANGED <<active, reserved, used, armed, watchdog, nextId, refusals>>

\* The session is closed while its reader waits: emit_ssh_output returns.
ReserveCancelled(r) ==
    /\ stream[r].pc = "waiting" /\ \E b \in stream[r].to : ~Fits(b)
    /\ Goes(r, AtRest)
    /\ UNCHANGED <<active, reserved, used, armed, watchdog, nextId, refusals>>

\* reserve times out: what was reserved before it began to wait is old by now.
ReserveTimeout(r, b) ==
    LET st == stream[r]
    IN  /\ st.pc = "waiting" /\ b \in st.to /\ b \in active /\ ~Fits(b)
        /\ \A x \in reserved : x.id < st.since => x.old
        /\ Goes(r, [st EXCEPT !.pc = "late"])
        /\ UNCHANGED <<active, reserved, used, armed, watchdog, nextId, refusals>>

\* A timeout evicts only what is overdue: this browser, or another whose events
\* fill the window, and then it waits again.
AfterTimeout(r, b) ==
    LET again == [stream[r] EXCEPT !.pc = "waiting", !.since = nextId]
    IN  /\ stream[r].pc = "late" /\ b \in stream[r].to
        /\ IF b \in Stale THEN Disconnect(b) /\ NextBrowser(r)
           ELSE /\ Goes(r, again)
                /\ IF Stale = {} THEN UNCHANGED <<active, reserved, used, armed, refusals>>
                   ELSE \E other \in Stale : Disconnect(other)
        /\ UNCHANGED <<watchdog, nextId>>

\* arm_deadline starts the watchdog that is not there.
Arm(r) ==
    /\ stream[r].pc = "arming"
    /\ Goes(r, [stream[r] EXCEPT !.pc = "sending"])
    /\ IF \E x \in reserved : x.id = stream[r].token
       THEN armed' = armed \cup {stream[r].token} /\ watchdog' = [watchdog EXCEPT !.running = TRUE]
       ELSE UNCHANGED <<armed, watchdog>>
    /\ UNCHANGED <<active, reserved, used, nextId, refusals>>

\* The event is emitted, or the emit raises.
Send(r) ==
    /\ stream[r].pc = "sending"
    /\ \/ NextBrowser(r) /\ UNCHANGED refusals
       \/ /\ refusals < MaxRefusals /\ refusals' = refusals + 1
          /\ Goes(r, [stream[r] EXCEPT !.pc = "failed"])
    /\ UNCHANGED <<active, reserved, used, armed, watchdog, nextId>>

\* The socket of a failed emit is disconnected if the event is still pending.
AfterFailure(r, b) ==
    /\ stream[r].pc = "failed" /\ b \in stream[r].to
    /\ IF \E x \in reserved : x.id = stream[r].token
       THEN Disconnect(b) ELSE UNCHANGED <<active, reserved, used, armed, refusals>>
    /\ NextBrowser(r)
    /\ UNCHANGED <<watchdog, nextId>>

----------------------------------------------------------------------------
(* Acknowledgements, deadlines and disconnects.                            *)

\* acknowledge: the first answer releases; one that comes after the socket was
\* released, or once more, finds nothing.
Acknowledge(x) ==
    /\ x \in reserved /\ \A r \in Streams : stream[r].token = x.id => stream[r].pc \notin {"arming", "sending"}
    /\ End({x})
    /\ UNCHANGED <<active, watchdog, stream, nextId, refusals>>

\* The timeout of a reservation passes; all have the same one.
GrowOld(x) ==
    /\ x \in reserved /\ ~x.old /\ \A y \in reserved : y.id < x.id => y.old
    /\ reserved' = (reserved \ {x}) \cup {[x EXCEPT !.old = TRUE]}
    /\ UNCHANGED <<active, used, armed, watchdog, stream, nextId, refusals>>

\* Mutant of WatchDeadlines: one round only.
WatchDeadlinesOnce ==
    /\ watchdog.running /\ watchdog.calls = NoCallbacks
    /\ \E S \in SUBSET {x \in reserved : x.id \in armed /\ x.old} :
         /\ S # {} /\ {x.browser : x \in S} = {x.browser : x \in {y \in reserved : y.id \in armed /\ y.old}}
         /\ \A x, y \in S : x.browser = y.browser => x = y
         /\ watchdog' = [watchdog EXCEPT !.calls = {x.id : x \in S}]
         /\ armed' = armed \ {x.id : x \in S}
    /\ UNCHANGED <<active, reserved, used, stream, nextId, refusals>>

\* _watch_deadlines: one callback for each socket with an overdue event; it is
\* due again a little later if the socket is still there then.
WatchDeadlines ==
    LET due == {x \in reserved : x.id \in armed /\ x.old}
    IN  /\ watchdog.running /\ watchdog.calls = NoCallbacks /\ due # {}
        /\ \E S \in SUBSET due :
             /\ {x.browser : x \in S} = {x.browser : x \in due}
             /\ \A x, y \in S : x.browser = y.browser => x = y
             /\ watchdog' = [watchdog EXCEPT !.calls = {x.id : x \in S}]
        /\ UNCHANGED <<active, reserved, used, armed, stream, nextId, refusals>>

\* expire_ack
ExpireAck(id) ==
    /\ id \in watchdog.calls
    /\ watchdog' = [watchdog EXCEPT !.calls = @ \ {id}]
    /\ IF \E x \in reserved : x.id = id
       THEN \E x \in reserved : x.id = id /\ Disconnect(x.browser)
       ELSE UNCHANGED <<active, reserved, used, armed, refusals>>
    /\ UNCHANGED <<stream, nextId>>

\* The watchdog ends when nothing is armed.
WatchdogEnds ==
    /\ watchdog.running /\ watchdog.calls = NoCallbacks /\ armed = {}
    /\ watchdog' = [watchdog EXCEPT !.running = FALSE]
    /\ UNCHANGED <<active, reserved, used, armed, stream, nextId, refusals>>

\* handle_disconnect
BrowserLeaves(b) ==
    /\ b \in active /\ ReleaseSocket(b)
    /\ UNCHANGED <<watchdog, stream, nextId, refusals>>

----------------------------------------------------------------------------
ReaderStep(r) ==
    \/ Arm(r) \/ Send(r)
    \/ \E b \in Browsers : \/ ReserveEvent(r, b) \/ ReserveGone(r, b) \/ ReserveTimeout(r, b)
                           \/ AfterTimeout(r, b) \/ AfterFailure(r, b)
Watchdog == WatchDeadlines \/ WatchdogEnds \/ \E id \in watchdog.calls : ExpireAck(id)
Time == \E x \in reserved : GrowOld(x)

FlowNext ==
    \/ \E r \in Streams : StartEmit(r) \/ ReaderStep(r) \/ ReserveCancelled(r)
    \/ Watchdog \/ Time
    \/ \E x \in reserved : Acknowledge(x)
    \/ \E b \in Browsers : BrowserLeaves(b)

FlowSpec == FlowInit /\ [][FlowNext]_flowVars

\* Threads run and time passes; no browser need acknowledge or leave.
FlowProgress == (\E r \in Streams : ReaderStep(r)) \/ Watchdog \/ Time

----------------------------------------------------------------------------
\* The counts are those of the events still out, and within the limits, although
\* acknowledgement, deadline, failure and disconnect each release them; nothing
\* is reserved for a socket that is gone (release, release_socket).
FlowCounts ==
    /\ FlowTypeOK
    /\ \A s \in Scopes : /\ used[s] = Cardinality({x \in reserved : s \in ScopesOf(x.browser)})
                        /\ used[s] =< LimitOf(s)
    /\ \A x \in reserved : x.browser \in active
    /\ armed \subseteq {x.id : x \in reserved}
    /\ armed # {} => watchdog.running

\* A browser that never acknowledges stops no one for good: when all output has
\* been read, no event is still counted and every reader is back at its session,
\* although nobody acknowledged anything, sends failed and disconnects had to be
\* retried (emit_ssh_output, arm_deadline).  The exempted case is the bound: no
\* event left for a reader that waits.
OutputDone ==
    /\ reserved = {}
    /\ \A r \in Streams : stream[r].pc = "rest" \/ nextId > MaxEvents
=============================================================================
