-------------------------- MODULE ConnectionAttempts --------------------------
(***************************************************************************)
(* SSH connection attempts as the browser sees them (static/js/app.js,     *)
(* session-manager.js, ssh-gateway-dialog.js): the one attempt of the form *)
(* or the launcher, reconnects beside it, their cancellation with an       *)
(* acknowledgement that may come too late, the authentication banner, and  *)
(* the socket that drops and comes back.  The server (app/socket_events.py)*)
(* is modelled by what these messages make it do.  A session has the name  *)
(* of the request that opened it.                                          *)
(***************************************************************************)
EXTENDS Naturals, Sequences, FiniteSets, SequencesExt

CONSTANTS Requests,   \* requests of the form and the launcher ("req_")
          Reconnects, \* requests of a reconnect ("reconnect_")
          Candidates, \* persistent sessions the server offers to resume
          None,
          MaxActs,    \* bound: how often the user acts
          MaxDrops    \* bound: how often the socket drops

VARIABLES current,      \* currentConnectRequestId
          modal,        \* the connection modal: "closed" or "open"
          modalRequest, \* connectionModalRequestId
          toReplace,    \* SessionManager.pendingReconnectSessionId
          replaces,     \* pendingReconnectSessionMap
          paneMap,      \* the requests in pendingRequestPaneMap
          gateway,      \* the attempts of SSHGatewayDialog
          banner,       \* the request of pendingAuthBannerPrompt
          closure,      \* [Reqs -> the cancellation waiting for its answer, or 0]
          completed,    \* completedWhileCancellingRequestIds
          cancelled,    \* cancelledConnectRequestIds
          discarded,    \* cancelledSessionIds
          sessions,     \* SessionManager.sessions, by the state of the session
          timers,       \* reconnects and forms that wait for their setTimeout
          link,         \* "up" or "down"
          toServer, toClient,
          attempt,      \* the server's attempts
          asked,        \* requests that came over the socket that is up
          prompts,      \* banner prompts the server waits for
          live,         \* sessions of the server
          honoured,     \* history: cancellations the user was told of
          missed,       \* history: sessions whose last event was lost
          late,         \* history: attempts cancelled after the browser gave up waiting
          acts, drops

attemptVars == <<current, modal, modalRequest, toReplace, replaces, paneMap>>
cancelVars == <<gateway, banner, closure, completed, cancelled, discarded, honoured>>
serverVars == <<attempt, asked, prompts, live>>
history == <<missed, late>>
vars == <<attemptVars, cancelVars, sessions, timers, link, toServer, toClient,
          serverVars, history, acts, drops>>

Reqs == Requests \cup Reconnects
Ids == Reqs \cup Candidates
Form == "form"   \* the setTimeout that opens the pre-filled form

\* The identifiers of requests carry their kind, and persistent sessions have others.
ASSUME AttemptsAssumption ==
    /\ IsFiniteSet(Ids) /\ None \notin Ids /\ Form \notin Reconnects
    /\ Requests \cap Reconnects = {} /\ Candidates \cap Reqs = {}
    /\ MaxActs \in Nat

TypeOK ==
    /\ current \in Requests \cup {None}
    /\ modal \in {"closed", "open"}
    /\ modalRequest \in Requests \cup {None}
    /\ toReplace \in Ids \cup {None}
    /\ replaces \in [Requests -> Ids \cup {None}]
    /\ paneMap \subseteq Requests
    /\ gateway \subseteq Reqs /\ banner \in Reqs \cup {None}
    /\ closure \in [Reqs -> 0 .. MaxActs]
    /\ completed \subseteq Reqs /\ cancelled \subseteq Reqs /\ discarded \subseteq Reqs
    /\ sessions \in [Ids -> {"none", "connected", "disconnected", "candidate"}]
    /\ timers \subseteq Reconnects \cup {Form}
    /\ link \in {"up", "down"}
    /\ attempt \in [Reqs -> {"idle", "asking", "running", "welcomed", "committed", "recorded", "failed", "cancelled"}]
    /\ asked \subseteq Reqs /\ prompts \subseteq Reqs /\ live \subseteq Ids

-----------------------------------------------------------------------------
(* Messages.  A socket.io client buffers what it emits while it is down.    *)

Emit(ms) == toServer' = toServer \o ms
NoEmit == UNCHANGED toServer
Take(type) == /\ toClient # <<>>
              /\ Head(toClient).type = type
              /\ toClient' = Tail(toClient)

\* The server emits to the socket a request came over, or to every socket of
\* the user; nobody takes what it emits while the browser is away.
Tell(ms) == toClient' = IF link = "up" THEN toClient \o ms ELSE toClient

-----------------------------------------------------------------------------
(* Parts of the client's handlers.                                          *)

IsReconnect(r) == r \in Reconnects

\* finishConnectionCancellation, closeAuthBannerPrompt, clearPendingConnection
Finish(r) ==
    /\ gateway' = gateway \ {r}
    /\ replaces' = [q \in Requests |-> IF q = r THEN None ELSE replaces[q]]
    /\ cancelled' = cancelled \cup {r}
    /\ banner' = IF banner = r THEN None ELSE banner
    /\ paneMap' = paneMap \ {r}
    /\ current' = IF r = current THEN None ELSE current

\* Whether an attempt can still be cancelled, and whether it is pending when
\* the cancellation settles.
StillPending(r) == r = current \/ r \in paneMap \/ r \in gateway
Cancellable(r) == closure[r] = 0 /\ StillPending(r)

\* cancelConnectionAttempt: one cancellation of a request waits at a time.
Cancelling(r) == /\ closure' = [closure EXCEPT ![r] = acts + 1]
                 /\ Emit(<<[type |-> "cancel", id |-> r, nr |-> acts + 1]>>)

\* rememberTransientId and the emit of discardLateConnection
Discard(r) == /\ discarded' = discarded \cup {r}
              /\ Emit(<<[type |-> "discard", id |-> r, nr |-> 0]>>)

\* removeSessionUI
Removed(s) == [sessions EXCEPT ![s] = "none"]

-----------------------------------------------------------------------------
(* What the user does.                                                      *)

Act == acts < MaxActs /\ acts' = acts + 1

\* openConnectionModalForPane, clearConnectionProfileState
OpenModal ==
    /\ Act /\ modal = "closed" /\ current = None
    /\ modal' = "open" /\ modalRequest' = None /\ toReplace' = None
    /\ UNCHANGED <<current, replaces, paneMap, cancelVars, sessions, timers, link,
                   toServer, toClient, serverVars, history, drops>>

\* startConnection, from the form or from a profile of the launcher.  The tabs
\* of persistent candidates for the same endpoint go.
StartConnection(r, fromForm, paned, interactive, same) ==
    /\ Act
    /\ current = None
    /\ attempt[r] = "idle"
    /\ fromForm <=> modal = "open"
    /\ fromForm \/ paned
    /\ same \subseteq {s \in Ids : sessions[s] = "candidate"}
    /\ attempt' = [attempt EXCEPT ![r] = "asking"]
    /\ current' = r
    /\ modalRequest' = IF fromForm THEN r ELSE modalRequest
    /\ replaces' = [replaces EXCEPT ![r] = IF fromForm THEN toReplace ELSE None]
    /\ paneMap' = IF paned THEN paneMap \cup {r} ELSE paneMap
    /\ gateway' = IF interactive THEN gateway \cup {r} ELSE gateway
    /\ sessions' = [s \in Ids |-> IF s \in same THEN "none" ELSE sessions[s]]
    /\ Emit(<<[type |-> "connect", id |-> r, nr |-> 0]>>)
    /\ UNCHANGED <<modal, toReplace, banner, closure, completed, cancelled, discarded,
                   honoured, timers, link, toClient, asked, prompts, live, history, drops>>

\* prefillConnectionForm: the tab of a candidate goes at once, a session that
\* is connected stays until its replacement is there.
PrefillConnectionForm(s) ==
    /\ Act /\ modal = "closed"
    /\ sessions[s] # "none"
    /\ sessions' = IF sessions[s] = "candidate" THEN Removed(s) ELSE sessions
    /\ toReplace' = IF sessions[s] = "connected" THEN s ELSE None
    /\ modal' = "open"
    /\ UNCHANGED <<current, modalRequest, replaces, paneMap, cancelVars, timers, link,
                   toServer, toClient, serverVars, history, drops>>

\* directReconnect
DirectReconnect(s, r, interactive) ==
    /\ Act /\ modal = "closed"
    /\ sessions[s] = "candidate" /\ attempt[r] = "idle" /\ r \notin timers
    /\ attempt' = [attempt EXCEPT ![r] = "asking"]
    /\ sessions' = Removed(s)
    /\ gateway' = IF interactive THEN gateway \cup {r} ELSE gateway
    /\ Emit(<<[type |-> "connect", id |-> r, nr |-> 0]>>)
    /\ UNCHANGED <<attemptVars, banner, closure, completed, cancelled, discarded, honoured,
                   timers, link, toClient, asked, prompts, live, history, drops>>

\* Mutant of RequestReconnect: the tab goes without a disconnect.
ReconnectKeepsOld(s, t) ==
    /\ Act /\ modal = "closed"
    /\ sessions[s] = "connected"
    /\ t \notin timers /\ (t # Form => attempt[t] = "idle")
    /\ timers' = timers \cup {t}
    /\ sessions' = Removed(s)
    /\ UNCHANGED <<attemptVars, cancelVars, link, toServer, toClient, serverVars, history, drops>>

\* requestReconnect of a connected session: it is closed now; the request, or
\* the form when a password is needed, follows by a timer.
RequestReconnect(s, t) ==
    /\ Act /\ modal = "closed"
    /\ sessions[s] = "connected"
    /\ t \notin timers /\ (t # Form => attempt[t] = "idle")
    /\ timers' = timers \cup {t}
    /\ sessions' = Removed(s)
    /\ Emit(<<[type |-> "disconnect", id |-> s, nr |-> 0]>>)
    /\ UNCHANGED <<attemptVars, cancelVars, link, toClient, serverVars, history, drops>>

ReconnectTimer(r, interactive) ==
    /\ r \in timers
    /\ timers' = timers \ {r}
    /\ attempt' = [attempt EXCEPT ![r] = "asking"]
    /\ gateway' = IF interactive THEN gateway \cup {r} ELSE gateway
    /\ Emit(<<[type |-> "connect", id |-> r, nr |-> 0]>>)
    /\ UNCHANGED <<attemptVars, banner, closure, completed, cancelled, discarded, honoured,
                   sessions, link, toClient, asked, prompts, live, history, acts, drops>>

FormTimer ==
    /\ Form \in timers
    /\ timers' = timers \ {Form}
    /\ toReplace' = None /\ modal' = "open"
    /\ UNCHANGED <<current, modalRequest, replaces, paneMap, cancelVars, sessions, link,
                   toServer, toClient, serverVars, history, acts, drops>>

\* The close button of the pending tab, and Cancel of the gateway dialog.
CancelConnectionAttempt(r) ==
    /\ Act
    /\ Cancellable(r)
    /\ Cancelling(r)
    /\ UNCHANGED <<attemptVars, gateway, banner, completed, cancelled, discarded, honoured,
                   sessions, timers, link, toClient, serverVars, history, drops>>

\* dismissConnectionModal
DismissConnectionModal ==
    /\ Act /\ modal = "open"
    /\ modal' = "closed" /\ toReplace' = None /\ modalRequest' = None
    /\ IF modalRequest # None /\ Cancellable(modalRequest)
       THEN Cancelling(modalRequest)
       ELSE UNCHANGED <<closure, toServer>>
    /\ UNCHANGED <<current, replaces, paneMap, gateway, banner, completed, cancelled,
                   discarded, honoured, sessions, timers, link, toClient, serverVars,
                   history, drops>>

\* answerAuthBannerPrompt
AnswerAuthBannerPrompt(accepted) ==
    /\ banner # None
    /\ banner' = None
    /\ Emit(<<[type |-> IF accepted THEN "accept" ELSE "decline", id |-> banner, nr |-> 0]>>)
    /\ UNCHANGED <<attemptVars, gateway, closure, completed, cancelled, discarded, honoured,
                   sessions, timers, link, toClient, serverVars, history, acts, drops>>

\* closeSession
CloseSession(s) ==
    /\ Act
    /\ sessions[s] # "none"
    /\ sessions' = Removed(s)
    /\ Emit(<<[type |-> "disconnect", id |-> s, nr |-> 0]>>)
    /\ UNCHANGED <<attemptVars, cancelVars, timers, link, toClient, serverVars, history, drops>>

-----------------------------------------------------------------------------
(* What the client does with what it hears.                                 *)

\* settleCancellation: the acknowledgement, or the timer of 5 s when none came.
\* The session that opened meanwhile is kept and the user is told.
SettleCancellation(r, answer) ==
    LET ends == \/ answer = "cancelled"
                \/ answer = "not_found" /\ r \notin completed /\ StillPending(r)
    IN /\ closure' = [closure EXCEPT ![r] = 0]
       /\ completed' = completed \ {r}
       /\ honoured' = IF ends THEN honoured \cup {r} ELSE honoured
       /\ IF ends THEN Finish(r)
          ELSE UNCHANGED <<gateway, replaces, cancelled, banner, paneMap, current>>
       /\ UNCHANGED <<modal, modalRequest, toReplace, discarded>>

OnCancelAck ==
    /\ Take("ack")
    /\ LET m == Head(toClient) IN
       IF closure[m.id] = m.nr
       THEN SettleCancellation(m.id, m.answer) /\ UNCHANGED late
       ELSE /\ late' = IF m.answer = "cancelled" THEN late \cup {m.id} ELSE late
            /\ UNCHANGED <<attemptVars, cancelVars>>
    /\ UNCHANGED <<sessions, timers, link, toServer, serverVars, missed, acts, drops>>

AckTimeout(r) ==
    /\ closure[r] # 0
    /\ SettleCancellation(r, "ack_timeout")
    /\ UNCHANGED <<sessions, timers, link, toServer, toClient, serverVars, history, acts, drops>>

\* The ssh_connected handler.  A success nobody waits for any more is given
\* back to the server; a session it replaces is closed once it is there.
OnConnected ==
    /\ Take("connected")
    /\ LET r == Head(toClient).id
           old == IF IsReconnect(r) THEN None ELSE replaces[r]
           swapped == old # None /\ sessions[old] # "none"
       IN
       /\ gateway' = gateway \ {r}
       /\ completed' = IF closure[r] # 0 THEN completed \cup {r} ELSE completed
       /\ cancelled' = cancelled \ {r}
       /\ IF r \in cancelled \/ (r # current /\ ~IsReconnect(r))
          THEN /\ Discard(r)
               /\ paneMap' = IF r \in cancelled THEN paneMap \ {r} ELSE paneMap
               /\ banner' = IF r \in cancelled /\ banner = r THEN None ELSE banner
               /\ UNCHANGED <<current, modal, modalRequest, toReplace, replaces, sessions>>
          ELSE /\ banner' = IF banner = r THEN None ELSE banner
               /\ current' = IF r = current THEN None ELSE current
               /\ modalRequest' = IF r = current /\ modalRequest = r THEN None ELSE modalRequest
               /\ replaces' = [q \in Requests |-> IF q = r THEN None ELSE replaces[q]]
               /\ toReplace' = IF toReplace = old THEN None ELSE toReplace
               /\ sessions' = [s \in Ids |-> IF s = r THEN "connected"
                                             ELSE IF s = old THEN "none" ELSE sessions[s]]
               /\ IF swapped THEN Emit(<<[type |-> "disconnect", id |-> old, nr |-> 0]>>)
                  ELSE NoEmit
               /\ paneMap' = paneMap \ {r}
               /\ modal' = IF r = current THEN "closed" ELSE modal
               /\ UNCHANGED discarded
    /\ UNCHANGED <<closure, honoured, timers, link, serverVars, history, acts, drops>>

\* Mutant of OnError: only the form's attempt gives up its claim.
OnErrorOfForm ==
    /\ Take("error")
    /\ LET r == Head(toClient).id IN
       /\ gateway' = gateway \ {r}
       /\ replaces' = [q \in Requests |-> IF q = r THEN None ELSE replaces[q]]
       /\ cancelled' = cancelled \ {r}
       /\ current' = IF r = current /\ modalRequest = r THEN None ELSE current
    /\ UNCHANGED <<modal, modalRequest, toReplace, paneMap, banner, closure, completed, discarded,
                   honoured, sessions, timers, link, toServer, serverVars, history, acts, drops>>

\* The ssh_error handler
OnError ==
    /\ Take("error")
    /\ LET r == Head(toClient).id IN
       /\ gateway' = gateway \ {r}
       /\ replaces' = [q \in Requests |-> IF q = r THEN None ELSE replaces[q]]
       /\ cancelled' = cancelled \ {r}
       /\ banner' = IF banner = r /\ (r \in cancelled \/ r = current \/ IsReconnect(r))
                    THEN None ELSE banner
       /\ paneMap' = IF r \in cancelled \/ r = current THEN paneMap \ {r} ELSE paneMap
       /\ current' = IF r = current THEN None ELSE current
       /\ modalRequest' = IF r = current /\ r \notin cancelled /\ modalRequest = r
                          THEN None ELSE modalRequest
    /\ UNCHANGED <<modal, toReplace, closure, completed, discarded, honoured, sessions, timers,
                   link, toServer, serverVars, history, acts, drops>>

\* The ssh_disconnected handler and updateSessionStatus
OnDisconnected ==
    /\ Take("disconnected")
    /\ LET s == Head(toClient).id IN
       IF s \in discarded
       THEN discarded' = discarded \ {s} /\ UNCHANGED sessions
       ELSE /\ sessions' = [sessions EXCEPT ![s] = IF @ = "connected" THEN "disconnected" ELSE @]
            /\ UNCHANGED discarded
    /\ UNCHANGED <<attemptVars, gateway, banner, closure, completed, cancelled, honoured, timers,
                   link, toServer, serverVars, history, acts, drops>>

\* restoreSession
OnRestored ==
    /\ Take("restored")
    /\ sessions' = [sessions EXCEPT ![Head(toClient).id] = "connected"]
    /\ UNCHANGED <<attemptVars, cancelVars, timers, link, toServer, serverVars, history, acts, drops>>

\* showPersistentSessionTab
OnPersistentAvailable ==
    /\ Take("candidate")
    /\ sessions' = [sessions EXCEPT ![Head(toClient).id] = IF @ = "none" THEN "candidate" ELSE @]
    /\ UNCHANGED <<attemptVars, cancelVars, timers, link, toServer, serverVars, history, acts, drops>>

\* The ssh_auth_banner handlers: a banner nobody waits for is declined, a new
\* prompt takes the place of the one shown.
OnAuthBanner ==
    /\ Take("banner")
    /\ LET r == Head(toClient).id IN
       IF (r = current \/ IsReconnect(r)) /\ r \notin cancelled
       THEN banner' = r /\ NoEmit
       ELSE Emit(<<[type |-> "decline", id |-> r, nr |-> 0]>>) /\ UNCHANGED banner
    /\ UNCHANGED <<attemptVars, gateway, closure, completed, cancelled, discarded, honoured,
                   sessions, timers, link, serverVars, history, acts, drops>>

\* The timer of rememberTransientId.  Two minutes are more than an attempt and
\* its events take.
ForgetTransientId(r) ==
    /\ r \in cancelled \cup completed \cup discarded
    /\ attempt[r] \in {"recorded", "failed", "cancelled"}
    /\ ~ \E i \in 1 .. Len(toClient) : toClient[i].id = r
    /\ ~ \E i \in 1 .. Len(toServer) : toServer[i].id = r
    /\ cancelled' = cancelled \ {r} /\ completed' = completed \ {r}
    /\ discarded' = discarded \ {r}
    /\ UNCHANGED <<attemptVars, gateway, banner, closure, honoured, sessions, timers, link,
                   toServer, toClient, serverVars, history, acts, drops>>

-----------------------------------------------------------------------------
(* The server.  Handlers of one socket run in the order of its messages;    *)
(* attempts run in threads of their own.                                    *)

Running(r) == attempt[r] \in {"running", "welcomed"}

TakeServer(type) == /\ link = "up" /\ toServer # <<>>
                    /\ Head(toServer).type = type
                    /\ toServer' = Tail(toServer)

ServeConnect ==
    /\ TakeServer("connect")
    /\ LET r == Head(toServer).id IN
       /\ asked' = asked \cup {r}
       /\ \/ attempt' = [attempt EXCEPT ![r] = "running"] /\ UNCHANGED toClient
          \/ attempt' = [attempt EXCEPT ![r] = "failed"] /\ Tell(<<[type |-> "error", id |-> r]>>)
    /\ UNCHANGED <<attemptVars, cancelVars, sessions, timers, link, prompts, live, history, acts, drops>>

\* request_auth_banner_decision
AskBanner(r) ==
    /\ attempt[r] = "running" /\ r \notin prompts /\ r \in asked
    /\ prompts' = prompts \cup {r}
    /\ Tell(<<[type |-> "banner", id |-> r]>>)
    /\ UNCHANGED <<attemptVars, cancelVars, sessions, timers, link, toServer, attempt, asked,
                   live, history, acts, drops>>

\* An attempt fails: the host refuses, a banner is declined or not answered
\* within its 60 s, or a limit of the attempt passes.
Fails(r) == /\ attempt' = [attempt EXCEPT ![r] = "failed"]
            /\ prompts' = prompts \ {r}
            /\ IF r \in asked THEN Tell(<<[type |-> "error", id |-> r]>>) ELSE UNCHANGED toClient

\* It also fails when its session is gone by the time it is to be recorded.
AttemptFails(r) ==
    /\ Running(r) \/ attempt[r] = "committed"
    /\ Fails(r)
    /\ UNCHANGED <<attemptVars, cancelVars, sessions, timers, link, toServer, asked, live,
                   history, acts, drops>>

\* handle_ssh_auth_banner_decision; an attempt asks once in this model.
ServeBannerDecision ==
    /\ \/ /\ TakeServer("accept")
          /\ attempt' = [attempt EXCEPT ![Head(toServer).id] =
                             IF Head(toServer).id \in prompts THEN "welcomed" ELSE @]
          /\ prompts' = prompts \ {Head(toServer).id}
          /\ UNCHANGED toClient
       \/ /\ TakeServer("decline")
          /\ IF Head(toServer).id \in prompts
             THEN Fails(Head(toServer).id)
             ELSE UNCHANGED <<attempt, prompts, toClient>>
    /\ UNCHANGED <<attemptVars, cancelVars, sessions, timers, link, asked, live, history, acts, drops>>

\* The attempt crosses its commit boundary, and later records its session.
Commit(r) ==
    /\ Running(r) /\ r \notin prompts
    /\ attempt' = [attempt EXCEPT ![r] = "committed"]
    /\ UNCHANGED <<attemptVars, cancelVars, sessions, timers, link, toServer, toClient, asked,
                   prompts, live, history, acts, drops>>

Record(r) ==
    /\ attempt[r] = "committed"
    /\ attempt' = [attempt EXCEPT ![r] = "recorded"]
    /\ live' = live \cup {r}
    /\ IF r \in asked THEN Tell(<<[type |-> "connected", id |-> r]>>) ELSE UNCHANGED toClient
    /\ missed' = IF r \in asked /\ link = "up" THEN missed ELSE missed \cup {r}
    /\ UNCHANGED <<attemptVars, cancelVars, sessions, timers, link, toServer, asked, prompts,
                   late, acts, drops>>

\* handle_ssh_connect_cancel
ServeCancel ==
    /\ TakeServer("cancel")
    /\ LET m == Head(toServer)
           Ack(answer) == Tell(<<[type |-> "ack", id |-> m.id, nr |-> m.nr, answer |-> answer]>>)
       IN CASE m.id \in asked /\ Running(m.id) ->
                   /\ attempt' = [attempt EXCEPT ![m.id] = "cancelled"]
                   /\ prompts' = prompts \ {m.id}
                   /\ Ack("cancelled")
            [] m.id \in asked /\ attempt[m.id] = "committed" ->
                   Ack("already_committed") /\ UNCHANGED <<attempt, prompts>>
            [] OTHER -> Ack("not_found") /\ UNCHANGED <<attempt, prompts>>
    /\ UNCHANGED <<attemptVars, cancelVars, sessions, timers, link, asked, live, history, acts, drops>>

\* handle_ssh_disconnect, handle_ssh_discard_late_connection
ServeDisconnect ==
    /\ TakeServer("disconnect") \/ TakeServer("discard")
    /\ LET s == Head(toServer).id IN
       /\ live' = live \ {s}
       /\ IF s \in live THEN Tell(<<[type |-> "disconnected", id |-> s]>>) ELSE UNCHANGED toClient
    /\ UNCHANGED <<attemptVars, cancelVars, sessions, timers, link, attempt, asked, prompts,
                   history, acts, drops>>

\* A session ends at its host.
SessionEnds(s) ==
    /\ s \in live /\ acts < MaxActs
    /\ live' = live \ {s}
    /\ Tell(<<[type |-> "disconnected", id |-> s]>>)
    /\ missed' = IF link = "up" THEN missed ELSE missed \cup {s}
    /\ UNCHANGED <<attemptVars, cancelVars, sessions, timers, link, toServer, attempt, asked,
                   prompts, late, acts, drops>>

-----------------------------------------------------------------------------
(* The socket.                                                              *)

\* The disconnect handlers; what was under way in either direction is lost.
Disconnect ==
    /\ link = "up" /\ drops < MaxDrops
    /\ drops' = drops + 1
    /\ link' = "down"
    /\ missed' = missed \cup {toClient[i].id : i \in {j \in 1 .. Len(toClient) :
                                  toClient[j].type \in {"connected", "disconnected", "restored"}}}
                        \cup {toServer[i].id : i \in {j \in 1 .. Len(toServer) :
                                  toServer[j].type \in {"disconnect", "discard"}}}
    /\ attempt' = [r \in Reqs |-> IF attempt[r] = "asking"
                                     /\ \E i \in 1 .. Len(toServer) : toServer[i].type = "connect" /\ toServer[i].id = r
                                  THEN "failed" ELSE attempt[r]]
    /\ toServer' = <<>> /\ toClient' = <<>>
    /\ asked' = {}
    /\ banner' = None /\ gateway' = {}
    /\ replaces' = [r \in Requests |-> None] /\ paneMap' = {}
    /\ cancelled' = {} /\ completed' = {} /\ discarded' = {}
    /\ current' = None /\ modalRequest' = None
    /\ UNCHANGED <<modal, toReplace, closure, honoured, sessions, timers, prompts, live, late, acts>>

\* The server notices that the socket of an attempt is gone.
ServerNotices(r) ==
    /\ Running(r) /\ r \notin asked
    /\ attempt' = [attempt EXCEPT ![r] = "cancelled"]
    /\ prompts' = prompts \ {r}
    /\ UNCHANGED <<attemptVars, cancelVars, sessions, timers, link, toServer, toClient, asked,
                   live, history, acts, drops>>

\* handle_connect and restore_user_sessions: live sessions are restored, some
\* persistent ones offered; what the browser buffered follows.
Connect(offered) ==
    /\ link = "down"
    /\ link' = "up"
    /\ toClient' = SetToSeq({[type |-> "restored", id |-> s] : s \in live})
                   \o SetToSeq({[type |-> "candidate", id |-> s] : s \in offered \ live})
    /\ missed' = missed \ live
    /\ UNCHANGED <<attemptVars, cancelVars, sessions, timers, toServer, serverVars, late, acts, drops>>

-----------------------------------------------------------------------------
Init ==
    /\ current = None /\ modal = "closed" /\ modalRequest = None /\ toReplace = None
    /\ replaces = [r \in Requests |-> None] /\ paneMap = {}
    /\ gateway = {} /\ banner = None /\ closure = [r \in Reqs |-> 0]
    /\ completed = {} /\ cancelled = {} /\ discarded = {}
    /\ sessions \in [Ids -> {"none", "candidate", "connected"}]
    /\ \A r \in Reqs : sessions[r] = "none"
    /\ live = {s \in Ids : sessions[s] = "connected"}
    /\ timers = {} /\ link = "up" /\ toServer = <<>> /\ toClient = <<>>
    /\ attempt = [r \in Reqs |-> "idle"] /\ asked = {} /\ prompts = {}
    /\ honoured = {} /\ missed = {} /\ late = {}
    /\ acts = 0 /\ drops = 0

UserStep ==
    \/ OpenModal \/ DismissConnectionModal
    \/ \E r \in Requests, f, p, i \in BOOLEAN, same \in SUBSET Candidates :
           StartConnection(r, f, p, i, same)
    \/ \E s \in Ids : PrefillConnectionForm(s) \/ CloseSession(s)
    \/ \E s \in Ids, r \in Reconnects, i \in BOOLEAN : DirectReconnect(s, r, i)
    \/ \E s \in Ids, t \in Reconnects \cup {Form} : RequestReconnect(s, t)
    \/ \E r \in Reqs : CancelConnectionAttempt(r)
    \/ \E a \in BOOLEAN : AnswerAuthBannerPrompt(a)

Handle == \/ OnConnected \/ OnError \/ OnDisconnected \/ OnRestored
          \/ OnPersistentAvailable \/ OnAuthBanner \/ OnCancelAck

ClientTimers == \/ \E r \in Reqs : AckTimeout(r)
                \/ \E r \in Reconnects, i \in BOOLEAN : ReconnectTimer(r, i)
                \/ FormTimer

Serve == \/ ServeConnect \/ ServeCancel \/ ServeBannerDecision \/ ServeDisconnect
         \/ \E r \in Reqs : \/ AttemptFails(r) \/ Commit(r) \/ Record(r) \/ ServerNotices(r)

Back == \E offered \in SUBSET Candidates : Connect(offered)

Next == \/ UserStep \/ Handle \/ ClientTimers \/ Serve \/ Back
        \/ Disconnect
        \/ \E r \in Reqs : AskBanner(r) \/ ForgetTransientId(r)
        \/ \E s \in Ids : SessionEnds(s)

Spec == Init /\ [][Next]_vars

\* Messages are handled, the server's attempts have limits of time, the client's
\* timers run out, and socket.io reconnects.
Progress == Handle \/ Serve \/ Back
FairSpec == Spec /\ WF_vars(Progress)

-----------------------------------------------------------------------------
(* Properties.                                                              *)

\* Nothing is under way between the browser and the server.
Quiet == /\ link = "up" /\ toServer = <<>> /\ toClient = <<>>
         /\ \A r \in Reqs : attempt[r] # "committed"

\* When nothing is under way the browser shows as connected exactly the sessions
\* the server runs: no tab without a session, no session without a tab, through
\* reconnects, replacements, cancellations and late successes.  The exempted
\* sessions ended, or were recorded, while the socket was down.
SessionsAgree ==
    Quiet => \A s \in Ids \ missed : (sessions[s] = "connected") <=> (s \in live)

\* An attempt whose cancellation was reported to the user never becomes a
\* session, however the success crosses the acknowledgement.
CancelHonoured == \A r \in honoured : sessions[r] = "none"

\* A banner question on the screen is one the server still waits for.  Exempted:
\* an attempt the server cancelled after the browser gave up waiting.
PromptIsAwaited == Quiet /\ banner # None /\ banner \notin late => banner \in prompts

\* The form and the launcher become usable again: currentConnectRequestId is
\* given up after every outcome of the attempt, lost ones included.
BusyEnds == (current # None) ~> (current = None \/ late # {})

\* What the page keeps at every moment: its records are of their types, its tabs
\* are the server's sessions, a reported cancellation holds, and no question of a
\* dead attempt stays on the screen (the parts above).
ConnectionsAgree == TypeOK /\ SessionsAgree /\ CancelHonoured /\ PromptIsAwaited
=============================================================================
