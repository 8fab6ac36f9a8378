-------------------------- MODULE TransportAdmission --------------------------
(***************************************************************************)
(* The admission of browser transports and their namespaces against the    *)
(* socket limits and against the revocation of an account                  *)
(* (socket_capacity.py, _install_engineio_admission, the connect and       *)
(* disconnect handlers of socket_events.py, revoke_user_access).           *)
(*                                                                         *)
(* A transport id is used once and has one namespace.  The thread that     *)
(* receives for a transport handles its connect frame to the end before it *)
(* sees the client leave.                                                  *)
(***************************************************************************)
EXTENDS Naturals, FiniteSets

CONSTANTS Transports, Accounts,
          MaxSockets,      \* MAX_SOCKET_CONNECTIONS
          MaxPerAccount    \* MAX_SOCKET_CONNECTIONS_PER_USER

ASSUME AdmissionAssumption ==
    IsFiniteSet(Transports) /\ MaxSockets \in Nat /\ MaxPerAccount \in Nat

VARIABLES peer,       \* [Transports -> what the server knows of it]
          barred,     \* accounts whose access ended
          revocation  \* the call of revoke_user_access

admissionVars == <<peer, barred, revocation>>

\* opening: the HTTP thread that connects the transport; bind: the connect frame
\* of its namespace; slot and seat: its entries in the registries of transports
\* and of namespaces; row: its SocketSession.
Peer == [opening : {"out", "inserted", "asked", "reserved", "refused", "opened", "gone"},
         account : Accounts, socket : BOOLEAN, done : BOOLEAN,
         slot : BOOLEAN, terminal : BOOLEAN,
         bind : {"no", "entered", "checked", "seated", "listed", "bound"},
         seat : BOOLEAN, row : BOOLEAN, cleanup : BOOLEAN]

AdmissionTypeOK ==
    /\ peer \in [Transports -> Peer] /\ barred \subseteq Accounts
    /\ revocation.at \in {"none", "listing", "row", "sid", "kick", "returned"}
    /\ revocation.todo \subseteq Transports

\* No transport is being disconnected by the revocation.
NoTransport == [on |-> {}, back |-> "none", mine |-> FALSE]

AdmissionInit ==
    /\ \E owner \in [Transports -> Accounts] :
         peer = [t \in Transports |->
                   [opening |-> "out", account |-> owner[t], socket |-> FALSE, done |-> FALSE,
                    slot |-> FALSE, terminal |-> FALSE, bind |-> "no",
                    seat |-> FALSE, row |-> FALSE, cleanup |-> FALSE]]
    /\ barred = {}
    /\ revocation = [at |-> "none", of |-> {}, todo |-> {}, current |-> NoTransport]

Slots == {t \in Transports : peer[t].slot}
Seats == {t \in Transports : peer[t].seat}
OfAccount(S, u) == {t \in S : peer[t].account = u}

\* SocketCapacityRegistry.reserve
RoomIn(S, t) ==
    /\ Cardinality(S) < MaxSockets
    /\ Cardinality(OfAccount(S, peer[t].account)) < MaxPerAccount

\* The connect frame runs under the lock of the reservation (admission_guard).
Guarded(t) == peer[t].bind \in {"entered", "checked", "seated", "listed"}

Becomes(t, p) == peer' = [peer EXCEPT ![t] = p] /\ UNCHANGED <<barred, revocation>>

\* SocketCapacityRegistry.release of a transport
Unslotted(p) == [p EXCEPT !.slot = FALSE, !.terminal = FALSE]
\* handle_disconnect
Unbound(p) == [p EXCEPT !.bind = "no", !.seat = FALSE, !.row = FALSE]
\* mark_terminal: the owner is told once, and cleans up.
Marked(p) == [p EXCEPT !.terminal = TRUE, !.cleanup = @ \/ (p.slot /\ ~p.terminal)]

----------------------------------------------------------------------------
(* A transport connects.                                                   *)

\* Engine.IO inserts the socket before it asks handle_engineio_connect.
Insert(t) ==
    /\ peer[t].opening = "out"
    /\ Becomes(t, [peer[t] EXCEPT !.opening = "inserted", !.socket = TRUE])

\* _engineio_admission_user
AskAdmission(t) ==
    /\ peer[t].opening = "inserted"
    /\ Becomes(t, [peer[t] EXCEPT !.opening =
                     IF peer[t].account \in barred THEN "refused" ELSE "asked"])

ReserveSlot(t) ==
    /\ peer[t].opening = "asked"
    /\ Becomes(t, IF RoomIn(Slots, t)
                  THEN [peer[t] EXCEPT !.opening = "reserved", !.slot = TRUE]
                  ELSE [peer[t] EXCEPT !.opening = "refused"])

\* Mutant of RecheckAdmission: the account is not asked for again.
RecheckTerminalOnly(t) ==
    /\ peer[t].opening = "reserved"
    /\ Becomes(t, IF ~peer[t].slot \/ peer[t].terminal
                  THEN [Unslotted(peer[t]) EXCEPT !.opening = "refused"]
                  ELSE [peer[t] EXCEPT !.opening = "opened"])

\* _engineio_admission_is_current, once the reservation is visible
RecheckAdmission(t) ==
    /\ peer[t].opening = "reserved"
    /\ Becomes(t, IF peer[t].account \in barred \/ ~peer[t].slot \/ peer[t].terminal
                  THEN [Unslotted(peer[t]) EXCEPT !.opening = "refused"]
                  ELSE [peer[t] EXCEPT !.opening = "opened"])

\* Engine.IO removes a refused socket; initialization is done.
RemoveRefused(t) ==
    /\ peer[t].opening = "refused"
    /\ Becomes(t, [peer[t] EXCEPT !.opening = "gone", !.socket = FALSE, !.done = TRUE])

\* handle_engineio_http_connect ends, or fails and takes the socket back.
Opened(t) ==
    /\ peer[t].opening = "opened" /\ ~peer[t].done
    /\ \/ Becomes(t, [peer[t] EXCEPT !.done = TRUE])
       \/ Becomes(t, [Unslotted(peer[t]) EXCEPT !.opening = "gone", !.socket = FALSE, !.done = TRUE])

----------------------------------------------------------------------------
(* Its namespace is bound (handle_socketio_namespace_connect, handle_connect). *)

Receiving(t) == peer[t].opening = "opened" /\ peer[t].done /\ peer[t].socket

EnterBind(t) ==
    /\ Receiving(t) /\ peer[t].bind = "no"
    /\ peer[t].slot /\ ~peer[t].terminal
    /\ Becomes(t, [peer[t] EXCEPT !.bind = "entered"])

\* _close_transport_after_rejected_connect, under the lock it already has
Rejected(p) == Marked(Unbound(p))

CheckBind(t) ==
    /\ peer[t].bind = "entered"
    /\ Becomes(t, IF peer[t].account \in barred THEN Rejected(peer[t])
                  ELSE [peer[t] EXCEPT !.bind = "checked"])

TakeSeat(t) ==
    /\ peer[t].bind = "checked"
    /\ Becomes(t, IF RoomIn(Seats, t) THEN [peer[t] EXCEPT !.bind = "seated", !.seat = TRUE]
                  ELSE Rejected(peer[t]))

\* register_socket_session, or it raises and the handler takes everything back.
ListSocket(t) ==
    /\ peer[t].bind = "seated"
    /\ \/ Becomes(t, [peer[t] EXCEPT !.bind = "listed", !.row = TRUE])
       \/ Becomes(t, Rejected(peer[t]))

\* The user's sessions are restored and the client told, or one of them raises.
FinishBind(t) ==
    /\ peer[t].bind = "listed"
    /\ \/ Becomes(t, [peer[t] EXCEPT !.bind = "bound"])
       \/ Becomes(t, Rejected(peer[t]))

----------------------------------------------------------------------------
(* The ends of a transport.                                                *)

\* handle_engineio_disconnect, then Engine.IO drops the socket.
ClientLeaves(t) ==
    /\ Receiving(t) /\ ~Guarded(t) /\ peer[t].slot
    /\ Becomes(t, Unslotted(Unbound(peer[t])))

DropSocket(t) ==
    /\ Receiving(t) /\ ~peer[t].slot
    /\ Becomes(t, [peer[t] EXCEPT !.opening = "gone", !.socket = FALSE])

\* close_after_drain and _abort_exact_engineio_transport
Cleanup(t) ==
    LET p == [peer[t] EXCEPT !.cleanup = FALSE]
    IN  /\ peer[t].cleanup /\ (p.done \/ ~p.socket) /\ ~Guarded(t)
        /\ Becomes(t, IF ~p.slot THEN p
                      ELSE [Unslotted(Unbound(p)) EXCEPT !.socket = FALSE, !.opening = "gone"])

----------------------------------------------------------------------------
(* revoke_user_access, called once the account is locked, deleted or       *)
(* renewed.                                                                *)

Revoking(at, todo) ==
    revocation' = [revocation EXCEPT !.at = at, !.todo = todo] /\ UNCHANGED barred

Bar(u) ==
    /\ revocation.at = "none"
    /\ barred' = barred \cup {u}
    /\ revocation' = [revocation EXCEPT !.at = "listing", !.of = {u}]
    /\ UNCHANGED peer

\* The sockets on record, then the transports that hold a slot.
ListRows ==
    /\ \/ revocation.at = "listing" /\ Revoking("row", {t \in Transports : peer[t].row /\ peer[t].account \in revocation.of})
       \/ revocation.at = "row" /\ revocation.todo = {} /\ Revoking("sid", {t \in Slots : peer[t].account \in revocation.of})
       \/ revocation.at = "sid" /\ revocation.todo = {} /\ Revoking("returned", {})
    /\ UNCHANGED peer

\* disconnect_socket_transport and disconnect_engineio_transport: the mark waits
\* for a connect frame to end, ...
MarkOne(t) ==
    LET first == peer[t].slot /\ peer[t].socket /\ ~peer[t].terminal
    IN  /\ revocation.at \in {"row", "sid"} /\ t \in revocation.todo /\ ~Guarded(t)
        /\ peer' = [peer EXCEPT ![t].terminal = @ \/ first]
        /\ revocation' =
             IF first \/ revocation.at = "row"
             THEN [revocation EXCEPT !.todo = @ \ {t}, !.at = "kick",
                     !.current = [on |-> {t}, back |-> revocation.at, mine |-> first]]
             ELSE [revocation EXCEPT !.todo = @ \ {t}]
        /\ UNCHANGED barred

\* ... the namespace is disconnected, and the cleanup is left to a task.
KickOne ==
    /\ revocation.at = "kick"
    /\ \E t \in revocation.current.on :
         peer' = [peer EXCEPT ![t] = [Unbound(peer[t]) EXCEPT !.cleanup = @ \/ revocation.current.mine]]
    /\ revocation' = [revocation EXCEPT !.at = revocation.current.back, !.current = NoTransport]
    /\ UNCHANGED barred

----------------------------------------------------------------------------
Connecting(t) == \/ AskAdmission(t) \/ ReserveSlot(t) \/ RecheckAdmission(t)
                 \/ RemoveRefused(t) \/ Opened(t)
Binding(t) == CheckBind(t) \/ TakeSeat(t) \/ ListSocket(t) \/ FinishBind(t)
\* The server's own steps, which it goes on taking; no client need connect, bind
\* or leave.
ServerStep == \/ \E t \in Transports : Connecting(t) \/ Binding(t) \/ DropSocket(t) \/ Cleanup(t) \/ MarkOne(t)
              \/ ListRows \/ KickOne

AdmissionNext ==
    \/ \E t \in Transports : Insert(t) \/ EnterBind(t) \/ ClientLeaves(t)
    \/ \E u \in Accounts : Bar(u)
    \/ ServerStep

AdmissionSpec == AdmissionInit /\ [][AdmissionNext]_admissionVars

----------------------------------------------------------------------------
\* The limits hold for transports and for namespaces, whoever connects at once.
LimitsHold ==
    \A S \in {Slots, Seats} :
        /\ Cardinality(S) =< MaxSockets
        /\ \A u \in Accounts : Cardinality(OfAccount(S, u)) =< MaxPerAccount

\* No slot, seat or row outlives its transport, whichever of the client, the
\* handlers, the cleanup and the revocation ends it.
NothingLeft ==
    \A t \in Transports :
        /\ peer[t].seat \/ peer[t].row => Guarded(t) \/ peer[t].bind = "bound"
        /\ peer[t].bind # "no" => peer[t].slot /\ peer[t].socket
        /\ peer[t].opening = "gone" => ~peer[t].slot /\ ~peer[t].socket
        /\ peer[t].slot => peer[t].socket
        /\ peer[t].terminal => /\ peer[t].slot
                               /\ \/ peer[t].cleanup
                                  \/ t \in revocation.current.on

\* When revoke_user_access has returned, the account has no namespace, and none
\* of its transports can get one any more.
RevokedIsOut ==
    revocation.at = "returned" =>
        \A t \in Transports : peer[t].account \in revocation.of =>
            /\ peer[t].bind = "no" /\ ~peer[t].seat /\ ~peer[t].row
            /\ peer[t].slot => peer[t].terminal \/ peer[t].opening = "reserved"

CapacitySafe == AdmissionTypeOK /\ LimitsHold /\ NothingLeft /\ RevokedIsOut

\* A transport that is to go does go, and its slot is free for another.
TransportsRetired == \A t \in Transports : ~peer[t].terminal /\ ~peer[t].cleanup
=============================================================================
