--------------------------- MODULE SourceDialogs ---------------------------
(***************************************************************************)
(* The two dialogs that open a temporary file source: the SMB dialog with   *)
(* its saved shares (smb-source-dialog.js) and quick connect with the       *)
(* gateway prompts (sftp-file-manager.js, ssh-gateway-dialog.js), and the   *)
(* handlers and jobs that serve them.  A definition of a share is a number, *)
(* 0 when the form is blank; a request number also names the source that    *)
(* the request opens.                                                       *)
(***************************************************************************)
EXTENDS Naturals, Sequences, FiniteSets, SequencesExt

CONSTANTS Sides, NoSide, ShareIds, NoShare, MaxDialogActs, MaxTries, MaxLosses

ASSUME DialogAssumption == /\ NoSide \notin Sides /\ NoShare \notin ShareIds
                           /\ {MaxDialogActs, MaxTries, MaxLosses} \subseteq Nat

VARIABLES
  smb,         \* the SMB dialog: form, selection, attempt and share operation
  savedShares, \* the shares the browser lists: a definition for each id, 0 for none
  quick,       \* the quick connect dialog
  sftpSources, \* quickConnections: the SFTP sources the browser lists
  gateways,    \* SSHGatewayDialog: the attempts it knows, and the one in front
  upstream,    \* messages to the server, in order
  downstream,  \* events and acknowledgements to the browser, in order
  jobs,        \* connection jobs of the server, and handlers that connect
  sources,     \* temporary sources open on the server
  shares,      \* the saved shares on the server
  tries,       \* requests numbered so far
  asked,       \* history: the side and the kind each request was made for
  abandonedTries,   \* history: SMB requests whose dialog was closed or timed out
  shownIn,     \* history: the sides SMB sources were opened in
  passwordFor, \* history: the definition the password in the form was typed for
  adrift,      \* history: ordinary attempts whose socket was lost while they connected
  dialogActs,
  losses

sourceDialogVars == <<smb, savedShares, quick, sftpSources, gateways, upstream, downstream,
                jobs, sources, shares, tries, asked, abandonedTries, shownIn, passwordFor,
                dialogActs, adrift, losses>>
triesHistory == <<asked, abandonedTries, shownIn>>
serverSide == <<jobs, sources, shares>>
smbSide == <<smb, savedShares, passwordFor>>
quickSide == <<quick, sftpSources, gateways>>

Definitions == 1 .. 2
NoOperation == [action |-> "none", request |-> 0, share |-> NoShare, definition |-> 0]
BlankSmb == [open |-> FALSE, side |-> NoSide, pending |-> 0, selected |-> NoShare,
             definition |-> 0, password |-> FALSE, operation |-> NoOperation]
BlankQuick == [open |-> FALSE, side |-> NoSide, request |-> 0]

DialogInit ==
  /\ smb = BlankSmb /\ quick = BlankQuick
  /\ savedShares \in [ShareIds -> 0 .. 1] /\ shares = savedShares
  /\ sftpSources = {} /\ gateways = [known |-> {}, drawn |-> {}, front |-> 0]
  /\ upstream = <<>> /\ downstream = <<>>
  /\ jobs = <<>> /\ sources = {} /\ tries = 0
  /\ asked = <<>> /\ abandonedTries = {} /\ shownIn = {} /\ passwordFor = 0 /\ adrift = {}
  /\ dialogActs = 0 /\ losses = 0

DialogRequest(kind, r, share, d) == [kind |-> kind, request |-> r, share |-> share, definition |-> d]
SendUp(m) == upstream' = Append(upstream, m)
DialogAct == dialogActs < MaxDialogActs /\ dialogActs' = dialogActs + 1
NextTry(kind, side) == /\ tries < MaxTries
                       /\ tries' = tries + 1
                       /\ asked' = Append(asked, [kind |-> kind, side |-> side])
                       /\ jobs' = Append(jobs, "asked")

(* --------------------------- the SMB dialog ---------------------------- *)
SelectedSmb(d, share) == [d EXCEPT !.selected = share, !.password = FALSE,
                                   !.definition = IF share = NoShare THEN 0 ELSE savedShares[share]]

\* The launcher or a saved share opens the dialog with a fresh form, and the
\* list of shares is asked for.
OpenSmb(side, share) ==
  /\ DialogAct /\ ~smb.open /\ ~quick.open
  /\ share # NoShare => savedShares[share] # 0
  /\ smb' = SelectedSmb([BlankSmb EXCEPT !.open = TRUE, !.side = side], share)
  /\ SendUp(DialogRequest("list", 0, NoShare, 0))
  /\ UNCHANGED <<savedShares, quickSide, downstream, serverSide, tries, triesHistory,
                 passwordFor, adrift, losses>>

\* The fields are disabled while an attempt is pending, not while a share is saved.
EditDefinition(d) ==
  /\ DialogAct /\ smb.open /\ smb.pending = 0 /\ d # smb.definition
  /\ smb' = [smb EXCEPT !.definition = d]
  /\ passwordFor' = IF smb.password THEN d ELSE passwordFor
  /\ UNCHANGED <<savedShares, quickSide, upstream, downstream, serverSide, tries,
                 triesHistory, adrift, losses>>

TypePassword ==
  /\ DialogAct /\ smb.open /\ smb.pending = 0 /\ ~smb.password
  /\ smb' = [smb EXCEPT !.password = TRUE] /\ passwordFor' = smb.definition
  /\ UNCHANGED <<savedShares, quickSide, upstream, downstream, serverSide, tries,
                 triesHistory, adrift, losses>>

SelectSavedShare(share) ==
  /\ DialogAct /\ smb.open /\ smb.pending = 0
  /\ share # NoShare => savedShares[share] # 0
  /\ smb' = SelectedSmb(smb, share)
  /\ UNCHANGED <<savedShares, passwordFor, quickSide, upstream, downstream, serverSide,
                 tries, triesHistory, adrift, losses>>

SubmitSmb ==
  /\ DialogAct /\ smb.open /\ smb.pending = 0 /\ smb.definition # 0 /\ smb.password
  /\ NextTry("smb", smb.side)
  /\ smb' = [smb EXCEPT !.pending = tries', !.password = FALSE]
  /\ SendUp(DialogRequest("smb", tries', NoShare, 0))
  /\ UNCHANGED <<savedShares, passwordFor, quickSide, downstream, sources, shares,
                 abandonedTries, shownIn, adrift, losses>>

SaveDefinition ==
  /\ DialogAct /\ smb.open /\ smb.pending = 0 /\ smb.operation = NoOperation
  /\ smb.definition # 0
  /\ NextTry("save", NoSide)
  /\ smb' = [smb EXCEPT !.operation = [action |-> "save", request |-> tries',
                          share |-> smb.selected, definition |-> smb.definition]]
  /\ SendUp(DialogRequest("save", tries', smb.selected, smb.definition))
  /\ UNCHANGED <<savedShares, passwordFor, quickSide, downstream, sources, shares,
                 abandonedTries, shownIn, adrift, losses>>

DeleteSelectedDefinition ==
  /\ DialogAct /\ smb.open /\ smb.pending = 0 /\ smb.operation = NoOperation
  /\ smb.selected # NoShare
  /\ NextTry("delete", NoSide)
  /\ smb' = [smb EXCEPT !.operation = [action |-> "delete", request |-> tries',
                          share |-> smb.selected, definition |-> 0]]
  /\ SendUp(DialogRequest("delete", tries', smb.selected, 0))
  /\ UNCHANGED <<savedShares, passwordFor, quickSide, downstream, sources, shares,
                 abandonedTries, shownIn, adrift, losses>>

\* cancelPendingAttempt: local cleanup, and a message to the server.
CancelPendingAttempt ==
  /\ upstream' = IF smb.pending = 0 THEN upstream
                 ELSE Append(upstream, DialogRequest("cancelSmb", smb.pending, NoShare, 0))
  /\ abandonedTries' = abandonedTries \cup ({smb.pending} \ {0})

CloseSmb ==
  /\ DialogAct /\ smb.open
  /\ CancelPendingAttempt
  /\ smb' = BlankSmb
  /\ UNCHANGED <<savedShares, passwordFor, quickSide, downstream, serverSide, tries,
                 asked, shownIn, adrift, losses>>

ConnectTimeout ==
  /\ smb.pending # 0
  /\ CancelPendingAttempt
  /\ smb' = [smb EXCEPT !.pending = 0]
  /\ UNCHANGED <<savedShares, passwordFor, quickSide, downstream, serverSide, tries,
                 asked, shownIn, dialogActs, adrift, losses>>

(* --------------------------- quick connect ----------------------------- *)
OpenQuickConnect(side) ==
  /\ DialogAct /\ ~smb.open /\ ~quick.open
  /\ quick' = [quick EXCEPT !.open = TRUE, !.side = side]
  /\ UNCHANGED <<smbSide, sftpSources, gateways, upstream, downstream, serverSide, tries,
                 triesHistory, adrift, losses>>

\* A user name with a selector makes a gateway attempt, which carries a request
\* id; an ordinary attempt carries none, and nothing stops a second one.
SubmitQuickConnect(gateway) ==
  /\ DialogAct /\ quick.open /\ quick.request = 0
  /\ NextTry(IF gateway THEN "gateway" ELSE "quick", quick.side)
  /\ quick' = [quick EXCEPT !.request = IF gateway THEN tries' ELSE 0]
  /\ gateways' = [gateways EXCEPT !.known = @ \cup (IF gateway THEN {tries'} ELSE {})]
  /\ SendUp(DialogRequest(IF gateway THEN "gateway" ELSE "quick", tries', NoShare, 0))
  /\ UNCHANGED <<smbSide, sftpSources, downstream, sources, shares, abandonedTries, shownIn,
                 adrift, losses>>

\* closeQuickConnect cancels the gateway attempt of the dialog.
CancelOf(q) == IF q.request = 0 THEN <<>>
               ELSE <<DialogRequest("cancelGateway", q.request, NoShare, 0)>>

CloseQuickConnect ==
  /\ DialogAct /\ quick.open
  /\ upstream' = upstream \o CancelOf(quick) /\ quick' = BlankQuick
  /\ UNCHANGED <<smbSide, sftpSources, gateways, downstream, serverSide, tries,
                 triesHistory, adrift, losses>>

\* The button of the gateway dialog; its answer comes as an acknowledgement.
CancelGateway ==
  /\ DialogAct /\ gateways.front # 0
  /\ SendUp(DialogRequest("cancelPrompt", gateways.front, NoShare, 0))
  /\ UNCHANGED <<smbSide, quickSide, downstream, serverSide, tries, triesHistory, adrift, losses>>

\* close(id): the next attempt that has drawn something comes to the front.
ClosedGateway(g, r) ==
  LET rest == [g EXCEPT !.known = @ \ {r}, !.drawn = @ \ {r}]
  IN IF r \notin g.known THEN g
     ELSE IF g.front \notin {0, r} THEN rest
     ELSE [rest EXCEPT !.front = IF rest.drawn = {} THEN 0
                                 ELSE CHOOSE x \in rest.drawn : \A y \in rest.drawn : x <= y]

(* ------------------------- events at the browser ----------------------- *)
\* handleSuccess and handleError ask for the request that is pending.
AttemptMatches(m) == smb.pending # 0 /\ smb.pending = m.request

OperationMatches(m, action) == smb.operation.action = action
                               /\ smb.operation.request = m.request

\* The source becomes a tab of the pane the dialog was opened for.
SourceShown(r) == shownIn' = shownIn \cup {<<r, smb.side>>}

SmbSucceeded(m) ==
  /\ m.kind = "smbConnected"
  /\ IF AttemptMatches(m)
     THEN smb' = BlankSmb /\ SourceShown(m.request)
     ELSE UNCHANGED <<smb, shownIn>>
  /\ UNCHANGED <<savedShares, quickSide, upstream>>

SmbFailed(m) ==
  /\ m.kind = "smbError"
  /\ smb' = IF AttemptMatches(m) THEN [smb EXCEPT !.pending = 0] ELSE smb
  /\ UNCHANGED <<savedShares, quickSide, upstream, shownIn>>

SharesListed(m) ==
  /\ m.kind = "list"
  /\ savedShares' = m.shares
  /\ UNCHANGED <<smb, quickSide, upstream, shownIn>>

\* The form follows the saved share, and keeps its password, only when it still
\* shows what was saved.
AfterSave(d, m) ==
  LET unchanged == d.selected = d.operation.share /\ d.definition = d.operation.definition
      idle == [d EXCEPT !.operation = NoOperation]
  IN IF unchanged THEN [idle EXCEPT !.selected = m.share, !.definition = m.definition]
     ELSE idle

ShareSaved(m) ==
  /\ m.kind = "saved"
  /\ IF OperationMatches(m, "save")
     THEN /\ savedShares' = [savedShares EXCEPT ![m.share] = m.definition]
          /\ smb' = AfterSave(smb, m)
     ELSE UNCHANGED <<smb, savedShares>>
  /\ UNCHANGED <<quickSide, upstream, shownIn>>

ShareDeleted(m) ==
  /\ m.kind = "deleted"
  /\ IF OperationMatches(m, "delete") /\ smb.operation.share = m.share
     THEN /\ savedShares' = [savedShares EXCEPT ![m.share] = 0]
          /\ smb' = LET idle == [smb EXCEPT !.operation = NoOperation]
                    IN IF smb.selected = m.share THEN SelectedSmb(idle, NoShare) ELSE idle
     ELSE UNCHANGED <<smb, savedShares>>
  /\ UNCHANGED <<quickSide, upstream, shownIn>>

ShareFailed(m) ==
  /\ m.kind = "shareError"
  /\ smb' = IF smb.operation.request = m.request THEN [smb EXCEPT !.operation = NoOperation]
            ELSE smb
  /\ UNCHANGED <<savedShares, quickSide, upstream, shownIn>>

\* Mutant: a late success is dropped without closing its connection.
StaleReplyNone(m) == <<>>

StaleReply(m) == <<DialogRequest("disconnect", m.request, NoShare, 0)>>

\* handleQuickConnectSuccess: a gateway success that the dialog no longer waits
\* for is disconnected; any other success is listed, opened in the pane of the
\* dialog, and closes the dialog.
StaleSuccess(m) == m.gateway /\ m.request # quick.request

QuickConnected(m) ==
  /\ m.kind = "connected"
  /\ gateways' = IF m.gateway THEN ClosedGateway(gateways, m.request) ELSE gateways
  /\ IF StaleSuccess(m)
     THEN upstream' = upstream \o StaleReply(m) /\ UNCHANGED <<quick, sftpSources>>
     ELSE /\ sftpSources' = sftpSources \cup {m.request}
          /\ upstream' = upstream \o (IF m.gateway THEN <<>> ELSE CancelOf(quick))
          /\ quick' = BlankQuick
  /\ UNCHANGED <<smb, savedShares, shownIn>>

QuickFailed(m) ==
  /\ m.kind = "quickError"
  /\ gateways' = IF m.gateway THEN ClosedGateway(gateways, m.request) ELSE gateways
  /\ quick' = IF m.gateway /\ m.request = quick.request THEN [quick EXCEPT !.request = 0]
              ELSE quick
  /\ UNCHANGED <<smb, savedShares, sftpSources, upstream, shownIn>>

\* challenge and setup open the dialog for an attempt that is still known.
GatewayPrompts(m) ==
  /\ m.kind = "prompt"
  /\ gateways' = IF m.request \notin gateways.known THEN gateways
                 ELSE [gateways EXCEPT !.drawn = @ \cup {m.request}, !.front = m.request]
  /\ UNCHANGED <<smb, savedShares, quick, sftpSources, upstream, shownIn>>

\* The acknowledgement of a cancel: of the form's, of the dialog's button.
GatewayCancelled(m) ==
  /\ m.kind \in {"formAck", "promptAck"}
  /\ IF m.result = "success" \/ (m.kind = "promptAck" /\ m.result = "not_found")
     THEN /\ gateways' = ClosedGateway(gateways, m.request)
          /\ quick' = IF m.kind = "promptAck" /\ quick.request = m.request THEN BlankQuick
                      ELSE quick
     ELSE UNCHANGED <<gateways, quick>>
  /\ UNCHANGED <<smb, savedShares, sftpSources, upstream, shownIn>>

ReceiveEvent ==
  /\ downstream # <<>>
  /\ LET m == Head(downstream)
     IN \/ SmbSucceeded(m) \/ SmbFailed(m) \/ SharesListed(m) \/ ShareSaved(m)
        \/ ShareDeleted(m) \/ ShareFailed(m) \/ QuickConnected(m) \/ QuickFailed(m)
        \/ GatewayPrompts(m) \/ GatewayCancelled(m)
  /\ downstream' = Tail(downstream)
  /\ UNCHANGED <<serverSide, tries, asked, abandonedTries, passwordFor, dialogActs, adrift,
                 losses>>

(* ------------------------------ the server ----------------------------- *)
CancelAck(m, result) == [kind |-> IF m.kind = "cancelGateway" THEN "formAck" ELSE "promptAck",
                   request |-> m.request, result |-> result]
Event(kind, r) == [kind |-> kind, request |-> r, gateway |-> asked[r].kind = "gateway"]
ListOf(s) == [kind |-> "list", shares |-> s]
SaveSlots(m) == IF m.share # NoShare THEN {m.share} ELSE {x \in ShareIds : shares[x] = 0}

\* A new share gets a free id; a full store and a share that is gone are errors.
ServeShareSave(m) ==
  /\ m.kind = "save"
  /\ \/ \E x \in SaveSlots(m) :
          /\ m.share # NoShare => shares[x] # 0
          /\ shares' = [shares EXCEPT ![x] = m.definition]
          /\ downstream' = downstream \o
               <<[kind |-> "saved", request |-> m.request, share |-> x,
                  definition |-> m.definition], ListOf(shares')>>
     \/ /\ m.share # NoShare => shares[m.share] = 0
        /\ m.share = NoShare => SaveSlots(m) = {}
        /\ downstream' = Append(downstream, [kind |-> "shareError", request |-> m.request])
        /\ UNCHANGED shares
  /\ UNCHANGED <<jobs, sources>>

ServeShareDelete(m) ==
  /\ m.kind = "delete"
  /\ IF shares[m.share] # 0
     THEN /\ shares' = [shares EXCEPT ![m.share] = 0]
          /\ downstream' = downstream \o <<[kind |-> "deleted", request |-> m.request,
                                            share |-> m.share], ListOf(shares')>>
     ELSE /\ downstream' = Append(downstream, [kind |-> "shareError", request |-> m.request])
          /\ UNCHANGED shares
  /\ UNCHANGED <<jobs, sources>>

ServeShareList(m) == /\ m.kind = "list"
                     /\ downstream' = Append(downstream, ListOf(shares))
                     /\ UNCHANGED serverSide

\* An SMB or gateway attempt becomes a job; an ordinary one connects within its
\* handler (create_connection), and the socket's later messages wait for it.
ServeAttempt(m) ==
  /\ m.kind \in {"smb", "gateway", "quick"}
  /\ \/ /\ jobs' = [jobs EXCEPT ![m.request] = "running"]
        /\ UNCHANGED downstream
     \/ /\ downstream' = Append(downstream,
              Event(IF m.kind = "smb" THEN "smbError" ELSE "quickError", m.request))
        /\ UNCHANGED jobs
  /\ UNCHANGED <<sources, shares>>

Ordinary(r) == asked[r].kind = "quick"
Connecting == \E r \in DOMAIN jobs : jobs[r] = "running" /\ Ordinary(r) /\ r \notin adrift

\* Only a job that has not committed can be cancelled.
ServeCancelAttempt(m) ==
  /\ m.kind \in {"cancelSmb", "cancelGateway", "cancelPrompt"}
  /\ jobs' = IF jobs[m.request] = "running" THEN [jobs EXCEPT ![m.request] = "cancelled"]
             ELSE jobs
  /\ downstream' = IF m.kind = "cancelSmb" THEN downstream
                   ELSE Append(downstream, CancelAck(m,
                          CASE jobs[m.request] = "running" -> "success"
                            [] jobs[m.request] = "committed" -> "already_committed"
                            [] OTHER -> "not_found"))
  /\ UNCHANGED <<sources, shares>>

ServeDisconnect(m) == /\ m.kind = "disconnect"
                      /\ sources' = sources \ {m.request}
                      /\ UNCHANGED <<jobs, shares, downstream>>

ServeDialogs ==
  /\ upstream # <<>> /\ ~Connecting
  /\ LET m == Head(upstream)
     IN \/ ServeShareSave(m) \/ ServeShareDelete(m) \/ ServeShareList(m) \/ ServeAttempt(m)
        \/ ServeCancelAttempt(m) \/ ServeDisconnect(m)
  /\ upstream' = Tail(upstream)
  /\ UNCHANGED <<smbSide, quickSide, tries, triesHistory, dialogActs, adrift, losses>>

\* What an attempt tells the browser; a handler whose socket is gone tells nobody.
Tell(r, event) == downstream' = IF r \in adrift THEN downstream ELSE Append(downstream, event)

\* A job opens its source and reports it, unless it was cancelled or failed.  The
\* handler of an ordinary attempt does so too, its socket lost or not.
JobCommits(r) ==
  /\ jobs[r] = "running"
  /\ sources' = sources \cup {r} /\ jobs' = [jobs EXCEPT ![r] = "committed"]
  /\ Tell(r, Event(IF asked[r].kind = "smb" THEN "smbConnected" ELSE "connected", r))
  /\ UNCHANGED <<smbSide, quickSide, upstream, shares, tries, triesHistory, dialogActs,
                 adrift, losses>>

JobFails(r) ==
  /\ jobs[r] = "running"
  /\ jobs' = [jobs EXCEPT ![r] = "gone"]
  /\ Tell(r, Event(IF asked[r].kind = "smb" THEN "smbError" ELSE "quickError", r))
  /\ UNCHANGED <<smbSide, quickSide, upstream, sources, shares, tries, triesHistory,
                 dialogActs, adrift, losses>>

JobPrompts(r) ==
  /\ jobs[r] = "running" /\ asked[r].kind = "gateway"
  /\ ~ \E i \in DOMAIN downstream : downstream[i].kind = "prompt"
  /\ r \notin gateways.drawn   \* one prompt of an attempt is enough
  /\ downstream' = Append(downstream, Event("prompt", r))
  /\ UNCHANGED <<smbSide, quickSide, upstream, serverSide, tries, triesHistory, dialogActs,
                 adrift, losses>>

JobFinishes(r) ==
  /\ jobs[r] \in {"committed", "cancelled"}
  /\ jobs' = [jobs EXCEPT ![r] = "gone"]
  /\ UNCHANGED <<smbSide, quickSide, upstream, downstream, sources, shares, tries,
                 triesHistory, dialogActs, adrift, losses>>

\* cleanup_expired of the pools: a source nobody used for long is closed.
CleanupIdle(r) ==
  /\ r \in sources
  /\ sources' = sources \ {r}
  /\ UNCHANGED <<smbSide, quickSide, upstream, downstream, jobs, shares, tries,
                 triesHistory, dialogActs, adrift, losses>>

\* The only socket of the user is lost: the server cancels the socket's attempts
\* and closes the user's temporary sources; the browser forgets its gateway
\* attempts, and the pending SMB attempt is left to its timeout.  The disconnect
\* handler runs beside a handler that connects, and knows nothing of it.
SocketLost ==
  /\ losses < MaxLosses /\ losses' = losses + 1
  /\ upstream' = <<>> /\ downstream' = <<>> /\ sources' = {}
  /\ jobs' = [r \in DOMAIN jobs |-> IF jobs[r] = "running" /\ ~Ordinary(r) THEN "cancelled"
                                    ELSE jobs[r]]
  /\ adrift' = adrift \cup {r \in DOMAIN jobs : jobs[r] = "running" /\ Ordinary(r)}
  /\ quick' = [quick EXCEPT !.request = 0]
  /\ gateways' = [known |-> {}, drawn |-> {}, front |-> 0]
  /\ UNCHANGED <<smbSide, sftpSources, shares, tries, triesHistory, dialogActs>>

DialogUser ==
  \/ \E side \in Sides : OpenQuickConnect(side) \/ \E x \in ShareIds \cup {NoShare} : OpenSmb(side, x)
  \/ \E d \in Definitions : EditDefinition(d)
  \/ TypePassword
  \/ \E x \in ShareIds \cup {NoShare} : SelectSavedShare(x)
  \/ SubmitSmb \/ SaveDefinition \/ DeleteSelectedDefinition \/ CloseSmb
  \/ \E g \in BOOLEAN : SubmitQuickConnect(g)
  \/ CloseQuickConnect \/ CancelGateway

DialogNext ==
  \/ DialogUser \/ ConnectTimeout \/ ReceiveEvent \/ ServeDialogs \/ SocketLost
  \/ \E r \in DOMAIN jobs : JobCommits(r) \/ JobFails(r) \/ JobPrompts(r) \/ JobFinishes(r)
  \/ \E r \in sources : CleanupIdle(r)

(* ------------------------------ properties ----------------------------- *)
\* Every SFTP source that is open on the server is listed in the browser, or the
\* news of it or the order to close it is under way: cancelling an attempt while
\* it commits leaves no connection behind (the disconnect of a stale success in
\* handleQuickConnectSuccess).  The exception is an ordinary attempt whose socket
\* was lost while handle_quick_connect connected: nothing tells the handler, and
\* its source stays open, unlisted, until cleanup_expired or until the user's last
\* socket is lost again.  A gateway attempt has no such exception.
NoOrphanConnection ==
  \A r \in sources : asked[r].kind \in {"quick", "gateway"} =>
    \/ r \in sftpSources
    \/ \E i \in DOMAIN downstream : downstream[i].kind = "connected" /\ downstream[i].request = r
    \/ \E i \in DOMAIN upstream : upstream[i].kind = "disconnect" /\ upstream[i].request = r
    \/ Ordinary(r) /\ r \in adrift

\* An SMB source is only opened in the pane its attempt was made for, and never
\* for an attempt that was cancelled or timed out, whatever dialog is open when
\* the late success arrives.
OpensWhereAsked ==
  \A e \in shownIn : e[2] = asked[e[1]].side /\ e[1] \notin abandonedTries

\* A password in the SMB form belongs to the share the form shows: no late
\* answer puts another share under a password the user typed.
PasswordStaysWithShare == smb.password => passwordFor = smb.definition

\* What the dialogs promise: no connection is left without an owner, sources open
\* where they were asked for, and a password stays with its share
\* (handleQuickConnectSuccess, smb-source-dialog.js).
SourcesSafe == NoOrphanConnection /\ OpensWhereAsked /\ PasswordStaysWithShare
=============================================================================
