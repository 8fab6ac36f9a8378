---------------------------- MODULE AdminConsole ----------------------------
(***************************************************************************)
(* The administration page (static/js/admin.js, security-ui.js): the       *)
(* security dialog of a user, the backup and restore forms, and the        *)
(* additional authentication all of them wait for.  Every call of the page *)
(* is an asynchronous function; between its awaits the dialog may be       *)
(* closed, opened for another user, or another call begun.                 *)
(***************************************************************************)
EXTENDS Naturals, FiniteSets

CONSTANTS Admins,     \* users the administrator manages
          MaxArchives, \* bound: archives uploaded; their operation ids are numbers
          Nobody,
          MaxCalls    \* bound: asynchronous calls of the page at one time

VARIABLES dlg,        \* context of the request coordinator: a user, or Nobody
          active,     \* its active requests, by channel
          codes,      \* whose recovery codes the dialog shows
          identities, \* whose identities, or LDAP identity, the dialog shows
          call,       \* the asynchronous calls; same and live say whether the generation of
                      \* the dialog and stepUpGeneration are those the call began with
          asking,     \* activeStepUpPrompt: the call that waits for it
          uploaded, token, restoreModal, summary,  \* backupState and what is shown
          lastSeen,   \* history: the archive whose summary was shown last
          archive,    \* the server's records of archives
          tokens,     \* archives with a valid confirmation token
          restored    \* history: archive restored, and the one seen at the click

adminVars == <<dlg, active, codes, identities, call, asking, uploaded, token,
               restoreModal, summary, lastSeen, archive, tokens, restored>>
dialogVars == <<dlg, codes, identities>>
backupVars == <<uploaded, token, restoreModal, summary, lastSeen, archive, tokens, restored>>

Calls == 1 .. MaxCalls
Archives == 1 .. MaxArchives

ASSUME AdminAssumption == MaxCalls \in Nat /\ MaxArchives \in Nat /\ Nobody \notin Admins \cup Archives

Running == {c \in Calls : call[c].stage # "none"}
NoCall == [kind |-> "none", arg |-> Nobody, same |-> FALSE, live |-> FALSE, token |-> Nobody, seen |-> Nobody, stage |-> "none"]
Channel(kind) == IF kind = "list" THEN "list" ELSE "action"

AdminTypeOK ==
    /\ dlg \in Admins \cup {Nobody} /\ active \in [{"list", "action"} -> 0 .. MaxCalls]
    /\ asking \in 0 .. MaxCalls
    /\ restoreModal \in {"closed", "first", "second"}
    /\ archive \in [Archives -> {"none", "verifying", "verified", "restoring"}]

-----------------------------------------------------------------------------
(* createRequestCoordinator.                                                *)

\* clearTransientRequests: the channel of actions persists.
Cleaned(a) == [a EXCEPT !["list"] = 0]

IsCurrent(c) == /\ dlg # Nobody
                /\ call[c].same
                /\ active[Channel(call[c].kind)] = c
Finished(a, c) == [ch \in DOMAIN a |-> IF a[ch] = c THEN 0 ELSE a[ch]]

\* A call begins, in the first free place; it waits for the intent.
Begin(kind, arg, stage) == [NoCall EXCEPT !.kind = kind, !.arg = arg, !.same = TRUE, !.live = TRUE, !.stage = stage]
Free(c) == c \notin Running /\ \A d \in Calls : d < c => d \in Running
Begins(c, kind, arg, stage) == Free(c) /\ call' = [call EXCEPT ![c] = Begin(kind, arg, stage)]

\* generation += 1 and stepUpGeneration += 1, as every running call sees them.
OtherDialog(cs) == [c \in Calls |-> [cs[c] EXCEPT !.same = FALSE]]
StepUpCancelled(cs) == [c \in Calls |-> [cs[c] EXCEPT !.live = FALSE]]

-----------------------------------------------------------------------------
(* The security dialog.                                                     *)

\* openSecurityAction; the identities of the user are loaded at once.
OpenSecurityAction(u, c) ==
    /\ dlg = Nobody
    /\ dlg' = u /\ codes' = Nobody /\ identities' = Nobody
    /\ \/ active' = Cleaned(active) /\ call' = OtherDialog(call)
       \/ /\ Free(c)
          /\ call' = [OtherDialog(call) EXCEPT ![c] = Begin("list", u, "call")]
          /\ active' = [Cleaned(active) EXCEPT !["list"] = c]
    /\ UNCHANGED <<asking, backupVars>>

\* closeStepUpPrompt: the call that waited has failed.
PromptClosed == IF asking = 0 THEN call ELSE [call EXCEPT ![asking] = NoCall]
Rejected == IF asking = 0 THEN active ELSE Finished(active, asking)

\* closeSecurityAction, cancelPendingStepUp; the call c, if there is one, ends with it.
DialogClosed(c) ==
    /\ dlg' = Nobody /\ codes' = Nobody /\ identities' = Nobody
    /\ call' = [d \in Calls |-> IF d = c THEN NoCall ELSE StepUpCancelled(OtherDialog(PromptClosed))[d]]
    /\ active' = Cleaned(Finished(Rejected, c)) /\ asking' = 0

CloseSecurityAction == dlg # Nobody /\ DialogClosed(0) /\ UNCHANGED backupVars

\* submitSecurityAction and unlinkOidcIdentity: one action at a time.
SubmitSecurityAction(c) ==
    /\ dlg # Nobody /\ active["action"] = 0
    /\ Begins(c, "action", dlg, "intent")
    /\ active' = [active EXCEPT !["action"] = c]
    /\ UNCHANGED <<dialogVars, asking, backupVars>>

\* doUserAction
DoUserAction(u, c) ==
    /\ dlg = Nobody
    /\ Begins(c, "user", u, "intent")
    /\ UNCHANGED <<dialogVars, active, asking, backupVars>>

-----------------------------------------------------------------------------
(* acquireStepUp.                                                           *)

\* The intent is answered: a grant, a challenge of the browser (a passkey, the
\* window of the provider), or a value to ask for.  A new prompt replaces the
\* one that is open.
IntentAnswered(c, how) ==
    /\ call[c].stage = "intent"
    /\ asking' = IF how = "asking" THEN c ELSE asking
    /\ LET others == IF how = "asking" THEN PromptClosed ELSE call
       IN call' = [others EXCEPT ![c] = IF how = "refused" THEN NoCall ELSE [@ EXCEPT !.stage = how]]
    /\ active' = CASE how = "refused" -> Finished(active, c)
                   [] how = "asking" -> Rejected
                   [] OTHER -> active
    /\ UNCHANGED <<dialogVars, backupVars>>

\* The passkey is verified, or the provider's result polled (oidcStepUp): both
\* give up when a cancellation came in between.
ExternalAnswered(c, ok) ==
    /\ call[c].stage = "external"
    /\ LET goes == ok /\ call[c].live IN
       /\ call' = [call EXCEPT ![c] = IF goes THEN [@ EXCEPT !.stage = "call"] ELSE NoCall]
       /\ active' = IF goes THEN active ELSE Finished(active, c)
    /\ UNCHANGED <<dialogVars, asking, backupVars>>

\* Submit of the prompt; the server answers.
SubmitStepUp(ok) ==
    /\ asking # 0
    /\ asking' = 0
    /\ call' = [call EXCEPT ![asking] = IF ok THEN [@ EXCEPT !.stage = "call"] ELSE NoCall]
    /\ active' = IF ok THEN active ELSE Rejected
    /\ UNCHANGED <<dialogVars, backupVars>>

CancelStepUp ==
    /\ asking # 0
    /\ asking' = 0 /\ call' = StepUpCancelled(PromptClosed) /\ active' = Rejected
    /\ UNCHANGED <<dialogVars, backupVars>>

-----------------------------------------------------------------------------
(* The answers of the calls.                                                *)

Ends(c) == /\ call' = [call EXCEPT ![c] = NoCall]
           /\ active' = Finished(active, c)
Answers(c, kind) == call[c].stage = "call" /\ call[c].kind = kind

\* loadOidcIdentities, loadLdapIdentity
ListAnswered(c) ==
    /\ Answers(c, "list")
    /\ identities' = IF IsCurrent(c) THEN call[c].arg ELSE identities
    /\ Ends(c)
    /\ UNCHANGED <<dlg, codes, asking, backupVars>>

\* loadOidcIdentities in place of the action, which ends a little early: in the
\* code it holds its channel until the list has come.
Reloads(c) == /\ call' = [call EXCEPT ![c] = Begin("list", dlg, "call")]
              /\ active' = [Finished(active, c) EXCEPT !["list"] = c]
              /\ UNCHANGED <<dialogVars, asking>>

\* The answer to an action that is still current: recovery codes are shown, an
\* OIDC action loads the identities again, an LDAP action closes the dialog.  One
\* that failed, or is no longer current, just ends.
ActionAnswered(c) ==
    /\ Answers(c, "action")
    /\ \/ Ends(c) /\ UNCHANGED <<dialogVars, asking>>
       \/ IsCurrent(c) /\ codes' = call[c].arg /\ Ends(c) /\ UNCHANGED <<dlg, identities, asking>>
       \/ IsCurrent(c) /\ Reloads(c)
       \/ IsCurrent(c) /\ DialogClosed(c)
    /\ UNCHANGED backupVars

OtherAnswered(c) ==
    /\ Answers(c, "user")
    /\ Ends(c)
    /\ UNCHANGED <<dialogVars, asking, backupVars>>

-----------------------------------------------------------------------------
(* Backup and restore.                                                      *)

\* uploadBackup: the button is disabled until this upload is settled.
UploadBackup(a, c) ==
    /\ restoreModal = "closed"
    /\ ~\E d \in Running : call[d].kind = "upload"
    /\ archive[a] = "none" /\ \A b \in Archives : b < a => archive[b] # "none"
    /\ ~(\E b \in Archives : b = uploaded /\ archive[b] = "verifying")
    /\ Begins(c, "upload", a, "intent")
    /\ summary' = Nobody
    /\ UNCHANGED <<dialogVars, active, asking, uploaded, token, restoreModal, lastSeen, archive, tokens, restored>>

\* The server takes it unless an operation is active.
UploadAnswered(c) ==
    /\ Answers(c, "upload")
    /\ Ends(c)
    /\ LET ok == \A a \in Archives : archive[a] \notin {"verifying", "restoring"} IN
       /\ archive' = IF ok THEN [archive EXCEPT ![call[c].arg] = "verifying"] ELSE archive
       /\ uploaded' = IF ok THEN call[c].arg ELSE uploaded
    /\ UNCHANGED <<dialogVars, asking, token, restoreModal, summary, lastSeen, tokens, restored>>

Verified(a) ==
    /\ archive[a] = "verifying"
    /\ archive' = [archive EXCEPT ![a] = "verified"]
    /\ UNCHANGED <<dialogVars, active, call, asking, uploaded, token, restoreModal, summary, lastSeen, tokens, restored>>

\* pollBackupOperation, renderBackupSummary: only the newest upload is polled.
PollShowsSummary ==
    /\ uploaded # Nobody /\ archive[uploaded] = "verified"
    /\ lastSeen # uploaded \/ summary = Nobody
    /\ ~\E d \in Running : call[d].kind = "upload"
    /\ summary' = uploaded /\ lastSeen' = uploaded
    /\ UNCHANGED <<dialogVars, active, call, asking, uploaded, token, restoreModal, archive, tokens, restored>>

OpenRestore ==
    /\ restoreModal = "closed" /\ summary # Nobody /\ dlg = Nobody
    /\ restoreModal' = "first"
    /\ UNCHANGED <<dialogVars, active, call, asking, uploaded, token, summary, lastSeen, archive, tokens, restored>>

\* continueRestoreConfirmation
ContinueRestore(c) ==
    /\ restoreModal = "first" /\ asking = 0
    /\ Begins(c, "prepare", uploaded, "intent")
    /\ UNCHANGED <<dialogVars, active, asking, backupVars>>

\* prepare_restore; the second dialog opens also when the first was cancelled.
PrepareAnswered(c) ==
    /\ Answers(c, "prepare")
    /\ active' = Finished(active, c)
    /\ LET a == call[c].arg IN
       IF archive[a] = "verified"
       THEN /\ tokens' = tokens \cup {a} /\ token' = a /\ restoreModal' = "second"
            /\ call' = [d \in Calls |-> IF d = c THEN NoCall
                                       ELSE IF call[d].token = a THEN [call[d] EXCEPT !.token = Nobody]
                                       ELSE call[d]]
       ELSE call' = [call EXCEPT ![c] = NoCall] /\ UNCHANGED <<tokens, token, restoreModal>>
    /\ UNCHANGED <<dialogVars, asking, uploaded, summary, lastSeen, archive, restored>>

\* closeRestoreModals
CloseRestoreModals ==
    /\ restoreModal # "closed"
    /\ restoreModal' = "closed" /\ token' = Nobody
    /\ call' = StepUpCancelled(PromptClosed) /\ active' = Rejected /\ asking' = 0
    /\ UNCHANGED <<dialogVars, uploaded, summary, lastSeen, archive, tokens, restored>>

\* startRestore: the archive and the token are those of the click.
StartRestore(c) ==
    /\ restoreModal = "second" /\ asking = 0 /\ Free(c)
    /\ call' = [call EXCEPT ![c] = [Begin("restore", uploaded, "intent") EXCEPT !.token = token, !.seen = lastSeen]]
    /\ UNCHANGED <<dialogVars, active, asking, backupVars>>

\* A mutant: any pending token will do.
BeginRestoreAnyToken(a, t) == archive[a] = "verified" /\ t # Nobody

\* begin_restore
BeginRestore(a, t) == /\ archive[a] = "verified" /\ t = a /\ a \in tokens
                      /\ \A b \in Archives \ {a} : archive[b] \notin {"verifying", "restoring"}

RestoreAnswered(c) ==
    /\ Answers(c, "restore")
    /\ LET a == call[c].arg IN
       IF BeginRestore(a, call[c].token)
       THEN /\ archive' = [archive EXCEPT ![a] = "restoring"]
            /\ tokens' = tokens \ {a}
            /\ restored' = <<a, call[c].seen>>
            /\ restoreModal' = "closed" /\ token' = Nobody /\ asking' = 0
            /\ call' = [StepUpCancelled(PromptClosed) EXCEPT ![c] = NoCall]
            /\ active' = Rejected
            /\ UNCHANGED <<uploaded, summary, lastSeen>>
       ELSE Ends(c) /\ UNCHANGED <<asking, backupVars>>
    /\ UNCHANGED dialogVars

AdminInit ==
    /\ dlg = Nobody /\ active = [ch \in {"list", "action"} |-> 0]
    /\ codes = Nobody /\ identities = Nobody
    /\ call = [c \in Calls |-> NoCall] /\ asking = 0
    /\ uploaded = Nobody /\ token = Nobody /\ restoreModal = "closed" /\ summary = Nobody /\ lastSeen = Nobody
    /\ archive = [a \in Archives |-> "none"] /\ tokens = {}
    /\ restored = <<Nobody, Nobody>>

AdminNext ==
    \/ CloseSecurityAction \/ CancelStepUp \/ PollShowsSummary \/ OpenRestore \/ CloseRestoreModals
    \/ \E a \in Archives : Verified(a)
    \/ \E ok \in BOOLEAN : SubmitStepUp(ok)
    \/ \E c \in Calls :
         \/ \E u \in Admins : OpenSecurityAction(u, c) \/ DoUserAction(u, c)
         \/ \E a \in Archives : UploadBackup(a, c)
         \/ \E how \in {"call", "external", "asking", "refused"} : IntentAnswered(c, how)
         \/ \E ok \in BOOLEAN : ExternalAnswered(c, ok)
         \/ SubmitSecurityAction(c) \/ ContinueRestore(c) \/ StartRestore(c)
         \/ ListAnswered(c) \/ ActionAnswered(c) \/ OtherAnswered(c)
         \/ UploadAnswered(c) \/ PrepareAnswered(c) \/ RestoreAnswered(c)

-----------------------------------------------------------------------------
\* Recovery codes and identities in the dialog are those of the user it was opened
\* for, however late the answers of earlier requests come (submitSecurityAction,
\* loadOidcIdentities and loadLdapIdentity check isCurrent before they write).
DialogShowsItsUser == codes \in {Nobody, dlg} /\ identities \in {Nobody, dlg}

\* The page never runs two security actions at a time, also when the dialog is
\* closed and opened again while one waits (the channel of actions persists).
OneSecurityAction == Cardinality({c \in Running : call[c].kind = "action"}) <= 1

\* The archive the server restores is the one whose summary the administrator saw
\* last when the restore was confirmed, also when the answer of an earlier
\* prepare comes after a new upload (begin_restore compares the token).
RestoresWhatWasSeen == restored[1] = restored[2]

\* What the page promises: the security dialog shows what belongs to its user, one
\* action runs at a time (createRequestCoordinator of security-ui.js), and what is
\* restored is what was seen (begin_restore).
AdminSafe == AdminTypeOK /\ DialogShowsItsUser /\ OneSecurityAction /\ RestoresWhatWasSeen
=============================================================================
