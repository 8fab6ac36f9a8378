---------------------------- MODULE ClientProofs -----------------------------
(***************************************************************************)
(* Safety of parts of the browser's page: its layout, for any sessions     *)
(* (WorkspaceLayout); the account security page, for any number of changes *)
(* that run at once and any factors (AccountSecurity); the command tools,  *)
(* for any commands and command sets (CommandTools); the input of the      *)
(* terminals, for any consoles, pieces and retries (SshInput); the panes   *)
(* of the terminals, for any sessions (SessionPanes); and the dialogs that *)
(* open file sources, for any panes and shares (SourceDialogs).            *)
(* And, on the other side of the page's file transfers, safety of their    *)
(* registry at the server (TransferManager), for any finite number of      *)
(* transfers, users, sockets and runtime generations and all quota limits. *)
(***************************************************************************)
EXTENDS WorkspaceLayout, AccountSecurity, CommandTools, SshInput, SessionPanes,
        SourceDialogs, TransferManager, SequenceTheorems, FiniteSetTheorems, TLAPS

----------------------------------------------------------------------------
(* The layout of the page.                                                 *)

LayoutSpec == LayoutInit /\ [][LayoutNext]_layoutVars

LayRecord ==
    [mode : Modes, available : SUBSET Contexts, active : Contexts \cup {NoContext},
     last : Contexts, revision : Nat, session : BOOLEAN, more : BOOLEAN,
     inert : BOOLEAN, line : BOOLEAN]

ViewRecord ==
    [name : Views \cup {"workspaces"}, element : Views \cup {NoContext},
     shown : SUBSET Views, surface : SUBSET Views, chrome : BOOLEAN]

\* The layout controller and the phone layout agree.
LayInv(l) ==
    /\ l \in LayRecord
    /\ l.active \in l.available \cup {NoContext}
    /\ l.inert = l.more /\ (l.more => l.mode = "mobile")
    /\ l.line => l.mode = "mobile" /\ l.session /\ ~l.more

\* The element that is shown below the header is the one of the view's name, and
\* no other element is both shown and below the header.
ViewInv(v) ==
    /\ v \in ViewRecord
    /\ v.element = IF v.name = "workspaces" THEN NoContext ELSE v.name
    /\ v.chrome = (v.name = "workspaces")
    /\ v.shown \cap v.surface = IF v.name = "workspaces" THEN {} ELSE {v.name}

LayoutInv == LayInv(lay) /\ ViewInv(view) /\ intruded = FALSE

\* setCommandOpen opens the line only where it may be open.
LEMMA CommandLineKeeps ==
    ASSUME NEW l, LayInv(l), NEW b \in BOOLEAN, b => ~l.more
    PROVE  LayInv(CommandLine(l, b))
  BY DEF LayInv, LayRecord, CommandLine, Phone

\* The line closes whatever the menu does.
LEMMA LineCloses ==
    ASSUME NEW l \in LayRecord
    PROVE  CommandLine(l, FALSE) = [l EXCEPT !.line = FALSE]
  BY DEF CommandLine

\* setMoreOpen makes the background inert with the menu.
LEMMA MoreMenuKeeps ==
    ASSUME NEW l, LayInv(l), NEW b \in BOOLEAN
    PROVE  LayInv(MoreMenu(l, b)) /\ (~b => ~MoreMenu(l, b).more)
           /\ MoreMenu(l, b).mode = l.mode /\ MoreMenu(l, b).available = l.available
  BY LineCloses DEF LayInv, LayRecord, MoreMenu, Phone

\* The listeners of a change of the tool close the line or do nothing.
LEMMA ContextChangedKeeps ==
    ASSUME NEW l, LayInv(l)
    PROVE  LayInv(ContextChanged(l))
  BY LineCloses DEF LayInv, LayRecord, ContextChanged

\* openContext opens only what is available.
LEMMA OpenContextKeeps ==
    ASSUME NEW l, LayInv(l), NEW c \in Contexts, NEW user \in BOOLEAN
    PROVE  LayInv(OpenContext(l, c, user))
  <1> DEFINE m == [l EXCEPT !.active = c, !.last = c, !.revision = IF user THEN @ + 1 ELSE @]
  <1>1. CASE c \notin l.available
    BY <1>1 DEF OpenContext
  <1>2. CASE c \in l.available
    <2>1. LayInv(m)
      <3>1. (IF user THEN l.revision + 1 ELSE l.revision) \in Nat
        BY DEF LayInv, LayRecord
      <3> QED BY <1>2, <3>1 DEF LayInv, LayRecord
    <2>2. OpenContext(l, c, user) = m \/ OpenContext(l, c, user) = ContextChanged(m)
      BY <1>2 DEF OpenContext
    <2> QED BY <2>1, <2>2, ContextChangedKeeps
  <1> QED BY <1>1, <1>2

\* closeContext leaves no tool open.
LEMMA CloseContextKeeps ==
    ASSUME NEW l, LayInv(l), NEW user \in BOOLEAN
    PROVE  LayInv(CloseContext(l, user))
  <1> DEFINE m == [l EXCEPT !.active = NoContext, !.revision = IF user THEN @ + 1 ELSE @]
  <1>1. LayInv(m)
    <2>1. (IF user THEN l.revision + 1 ELSE l.revision) \in Nat
      BY DEF LayInv, LayRecord
    <2> QED BY <2>1 DEF LayInv, LayRecord
  <1>2. CloseContext(l, user) = l \/ CloseContext(l, user) = ContextChanged(m)
    BY DEF CloseContext
  <1> QED BY <1>1, <1>2, ContextChangedKeeps

\* setContextAvailability replaces the open tool when that one goes.
LEMMA AvailabilityIsKept ==
    ASSUME NEW l, LayInv(l), NEW c \in Contexts, NEW on \in BOOLEAN
    PROVE  LayInv(Availability(l, c, on))
  <1> DEFINE m == [l EXCEPT !.available = IF on THEN @ \cup {c} ELSE @ \ {c}]
             n == [m EXCEPT !.active = NoContext]
  <1>1. m \in LayRecord /\ (on \/ l.active # c => LayInv(m)) /\ LayInv(n)
    BY DEF LayInv, LayRecord, NoContext, Contexts
  <1>2. FallbackContext(m) \in Contexts
    BY <1>1 DEF FallbackContext, LayRecord, Contexts
  <1> HIDE DEF n
  <1>3. LayInv(OpenContext(n, FallbackContext(m), FALSE))
    BY <1>1, <1>2, OpenContextKeeps
  <1>4. on => LayInv(OpenContext(m, c, FALSE))
    BY <1>1, OpenContextKeeps
  <1>5. \/ Availability(l, c, on) = l
        \/ on /\ Availability(l, c, on) = OpenContext(m, c, FALSE)
        \/ Availability(l, c, on) = OpenContext(n, FallbackContext(m), FALSE)
        \/ (on \/ l.active # c) /\ Availability(l, c, on) = m
    BY DEF Availability, n
  <1> QED BY <1>1, <1>3, <1>4, <1>5

\* The listener of a change of the view closes the menu, and the line with it.
LEMMA ViewChangedKeeps ==
    ASSUME NEW l, LayInv(l), NEW n
    PROVE  LayInv(ViewChanged(l, n)) /\ ViewChanged(l, n).available = l.available
  <1> DEFINE m == MoreMenu(l, FALSE)
  <1>1. LayInv(m) /\ m.available = l.available
    BY MoreMenuKeeps
  <1>2. ViewChanged(l, n) = m \/ ViewChanged(l, n) = CommandLine(m, FALSE)
    BY DEF ViewChanged
  <1> HIDE DEF m
  <1> QED BY <1>1, <1>2, CommandLineKeeps DEF CommandLine, LayInv, LayRecord

\* showWorkspaces hides what was shown, open hides it and shows another.
LEMMA ViewsKeep ==
    ASSUME NEW v, ViewInv(v)
    PROVE  /\ ViewInv(ShownWorkspaces(v))
           /\ \A n \in Views : ViewInv(OpenedView(v, n))
  <1>1. ViewInv(ShownWorkspaces(v))
    BY DEF ViewInv, ViewRecord, ShownWorkspaces, Views, NoContext
  <1>2. ASSUME NEW n \in Views PROVE ViewInv(OpenedView(v, n))
    BY DEF ViewInv, ViewRecord, OpenedView, Views, NoContext
  <1> QED BY <1>1, <1>2

\* A dialog is shown outside the place below the header.
LEMMA DialogKeeps ==
    ASSUME NEW v, ViewInv(v), NEW n \in Views
    PROVE  /\ v.element # n => ViewInv([v EXCEPT !.surface = @ \ {n}, !.shown = @ \cup {n}])
           /\ n \notin v.surface => ViewInv([v EXCEPT !.shown = @ \ {n}])
  BY DEF ViewInv, ViewRecord, Views, NoContext

\* reconcile: a page that becomes a phone has neither menu nor line open, one that
\* stops being a phone closes both.
LEMMA ResizeKeeps ==
    ASSUME LayoutInv, NEW m \in Modes, Resize(m)
    PROVE  LayoutInv'
  <1> DEFINE l == [lay EXCEPT !.mode = m]
             closed == IF lay.mode = "desktop" /\ m # "desktop" THEN CloseContext(l, FALSE) ELSE l
             reset == [closed EXCEPT !.more = FALSE, !.inert = FALSE, !.line = FALSE]
  <1>1. /\ m # lay.mode /\ view' = view /\ intruded' = intruded
        /\ lay' = IF closed.mode = "mobile" THEN closed ELSE reset
    BY DEF Resize, Phone
  <1>2. CASE lay.mode = "mobile"
    BY <1>2, <1>1 DEF LayoutInv, LayInv, LayRecord
  <1>3. CASE lay.mode # "mobile"
    <2>1. LayInv(l)
      BY <1>3 DEF LayoutInv, LayInv, LayRecord
    <2> HIDE DEF l
    <2>2. LayInv(closed)
      BY <2>1, CloseContextKeeps
    <2> HIDE DEF closed
    <2> QED BY <1>1, <2>2 DEF LayoutInv, LayInv, LayRecord
  <1> QED BY <1>2, <1>3

\* Every step keeps the layout and the view.
LEMMA LayoutKept == LayoutInv /\ [LayoutNext]_layoutVars => LayoutInv'
  <1> SUFFICES ASSUME LayoutInv, [LayoutNext]_layoutVars PROVE LayoutInv'
    OBVIOUS
  <1>1. LayInv(lay) /\ ViewInv(view) /\ intruded = FALSE
    BY DEF LayoutInv
  <1>2. ASSUME lay' = lay \/ LayInv(lay'), view' = view \/ ViewInv(view'), intruded' = intruded
        PROVE  LayoutInv'
    BY <1>1, <1>2 DEF LayoutInv
  <1>3. CASE UNCHANGED layoutVars
    BY <1>3, <1>2 DEF layoutVars
  <1>4. ASSUME NEW c \in Contexts, ChooseContext(c) \/ DockTool(c) \/ \E on \in BOOLEAN : ToolChanges(c, on)
        PROVE  LayoutInv'
    BY <1>1, <1>2, OpenContextKeeps, ViewChangedKeeps, ViewsKeep, AvailabilityIsKept, <1>4 DEF
       ChooseContext, DockTool, ToolChanges
  <1>5. CASE DismissContext
    BY <1>1, <1>2, <1>5, CloseContextKeeps DEF DismissContext
  <1>6. CASE ToggleCommandLine
    BY <1>1, <1>6, <1>2, CommandLineKeeps DEF ToggleCommandLine, LayInv, LayRecord
  <1>7. CASE ToggleMore
    BY <1>1, <1>2, <1>7, MoreMenuKeeps DEF LayInv, LayRecord, ToggleMore
  <1>8. CASE ShowWorkspaces
    BY <1>1, <1>2, <1>8, ViewChangedKeeps, ViewsKeep DEF ShowWorkspaces
  <1>9. CASE SessionChanges
    <2> DEFINE l == [lay EXCEPT !.session = ~lay.session]
    <2>1. /\ l \in LayRecord /\ (l.session => LayInv(l)) /\ LayInv([l EXCEPT !.line = FALSE])
      BY <1>1 DEF LayInv, LayRecord
    <2>2. /\ view' = view /\ intruded' = intruded
          /\ lay' = IF l.session THEN l ELSE CommandLine(l, FALSE)
      BY <1>9 DEF SessionChanges
    <2> HIDE DEF l
    <2> QED BY <1>2, <2>1, <2>2, LineCloses
  <1>10. ASSUME NEW n \in Views, OpenView(n) PROVE LayoutInv'
    BY <1>1, <1>2, <1>10, ViewChangedKeeps, ViewsKeep DEF OpenView
  <1>11. CASE OpenAsDialog("commands")
    <2> DEFINE v == IF view.element = "commands" THEN ShownWorkspaces(view) ELSE view
    <2>1. ViewInv(v) /\ v.element # "commands" /\ "commands" \in Views
      <3>0. "commands" \in Views
        BY DEF Views
      <3>1. CASE view.element = "commands"
        BY <1>1, ViewsKeep, <3>0, <3>1 DEF ShownWorkspaces, ViewInv, ViewRecord, NoContext
      <3>2. CASE view.element # "commands"
        BY <3>0, <3>2, <1>1
      <3> QED BY <3>1, <3>2
    <2>2. /\ view' = [v EXCEPT !.surface = @ \ {"commands"}, !.shown = @ \cup {"commands"}]
          /\ lay' = IF view.element = "commands" THEN ViewChanged(lay, "workspaces") ELSE lay
          /\ intruded' = intruded
      BY <1>11 DEF OpenAsDialog
    <2> HIDE DEF v
    <2> QED BY <1>1, <1>2, <2>1, <2>2, DialogKeeps, ViewChangedKeeps
  <1>12. CASE CloseDialog("commands")
    <2>1. "commands" \in Views
      BY DEF Views
    <2> QED BY <1>1, <1>2, <1>12, <2>1, DialogKeeps DEF CloseDialog
  <1>13. ASSUME NEW s \in Tabs, NEW probed \in BOOLEAN, NEW sftp \in BOOLEAN, SessionDefault(s, probed, sftp)
         PROVE  LayoutInv'
    <2> DEFINE spot == IF sftp THEN "files" ELSE "diagnostics"
    <2>1. spot \in Contexts /\ view' = view
      BY <1>13 DEF Contexts, SessionDefault
    <2> DEFINE d == IF defaults[s].seen THEN defaults[s]
                    ELSE [seen |-> TRUE, revision |-> lay.revision, applied |-> FALSE]
    <2>2. CASE probed /\ MayDefault(d) /\ spot \in lay.available
      <3>1. lay' = OpenContext(lay, spot, FALSE) /\ intruded' = (intruded \/ d.revision # lay.revision)
        BY <1>13, <2>2 DEF SessionDefault
      <3>2. d.revision = lay.revision
        BY <2>2 DEF MayDefault
      <3> HIDE DEF d
      <3> QED BY <1>1, <1>2, <2>1, <3>1, <3>2, OpenContextKeeps
    <2>3. CASE ~(probed /\ MayDefault(d) /\ spot \in lay.available)
      BY <1>13, <2>3, <1>2, <2>1 DEF SessionDefault
    <2> QED BY <2>2, <2>3
  <1> QED
    BY <1>3, <1>4, <1>5, <1>6, <1>7, <1>8, <1>9, <1>10, <1>11, <1>12, <1>13, ResizeKeeps DEF LayoutNext

\* However the sessions, the window and the user change the page: the open tool is
\* one the session offers, one primary view is visible, nothing is inert without the
\* menu, the phone's line is open only where it can be used, and a default never
\* replaces the user's choice (workspace-layout-controller.js,
\* primary-workspace-controller.js, mobile-app-shell.js).
THEOREM LayoutIsSafe == LayoutSpec => []LayoutSafe
  <1>1. LayoutInit => LayoutInv
    <2> SUFFICES ASSUME LayoutInit PROVE LayoutInv
      OBVIOUS
    <2>1. LayInv(lay)
      BY DEF LayoutInit, LayInv, LayRecord, Modes, Contexts, NoContext
    <2>2. ViewInv(view)
      BY DEF LayoutInit, ViewInv, ViewRecord, Views, NoContext
    <2> QED BY <2>1, <2>2 DEF LayoutInit, LayoutInv
  <1>2. LayoutInv => LayoutSafe
    BY DEF LayoutInv, LayInv, ViewInv, LayoutSafe, PageUsable, DefaultYields, Phone
  <1> QED BY <1>1, <1>2, LayoutKept, PTL DEF LayoutSpec

----------------------------------------------------------------------------
(* The account security page.                                              *)

SecuritySpec == SecurityInit /\ [][SecurityNext]_securityVars

Stages == Waiting \cup {"idle", "intent", "opened", "chosen", "verify", "granted", "admitted",
                        "checked", "ceremony", "done", "enrolled", "activated", "ended"}

SecurityTypes ==
    /\ stage \in [Flows -> Stages]
    /\ flowKind \in [Flows -> FlowKinds \cup {"none"}]
    /\ target \in [Flows -> Factors \cup {NoFactor}]
    /\ confirmation \in [flow : Flows \cup {NoFlow}, asks : Waiting \cup {"nothing"}, typed : BOOLEAN]
    /\ mfa \in BOOLEAN /\ raced \in BOOLEAN

\* What the deletion f leaves.
Remaining(f) ==
    (IF flowKind[f] = "passkey.delete" THEN passkeys \ {target[f]} ELSE passkeys)
      \cup (IF flowKind[f] = "totp.delete" THEN authenticators \ {target[f]} ELSE authenticators)

\* What a change found inside its lock is still true when it is made.
CheckInv(f) ==
    stage[f] = "checked" =>
        /\ flowKind[f] \in Guarded
        /\ flowKind[f] \in Deletes /\ mfa => Remaining(f) # {}
        /\ flowKind[f] = "mfa.enable" => passkeys # {}

FactorInv ==
    /\ mfa => passkeys \cup authenticators # {}
    /\ \A f \in Flows : CheckInv(f)
    /\ \A f, g \in Flows : stage[f] = "checked" /\ stage[g] = "checked" => f = g

\* An enrollment that waits for its code belongs to a flow of the page.
EnrollmentsInv == enrollments \subseteq Flows

AccountInv == SecurityTypes /\ DialogServesOneFlow /\ (~raced => FactorInv)

\* A flow that is not asked anything moves to a place where it is not asked either.
LEMMA GoesKeepsDialog ==
    ASSUME AccountInv, NEW f \in Flows, stage[f] \notin Waiting, NEW s \in Stages \ Waiting,
           Goes(f, s), UNCHANGED confirmationVars
    PROVE  DialogServesOneFlow'
  BY DEF AccountInv, SecurityTypes, Goes, DialogServesOneFlow, confirmationVars

\* The dialog is taken over: its flow ends, the other one waits.
LEMMA RequestKeepsDialog ==
    ASSUME AccountInv, NEW f \in Flows, stage[f] \notin Waiting, NEW asks \in Waiting,
           RequestConfirmation(f, asks)
    PROVE  /\ DialogServesOneFlow' /\ stage' \in [Flows -> Stages]
           /\ confirmation' \in [flow : Flows \cup {NoFlow}, asks : Waiting \cup {"nothing"}, typed : BOOLEAN]
           /\ \A g \in Flows : stage'[g] = "checked" => stage[g] = "checked"
  BY SecurityAssumption DEF RequestConfirmation, AfterReplaced, ConfirmationFor, AccountInv,
     SecurityTypes, Stages, Waiting, DialogServesOneFlow

\* A step that leaves the account alone and brings nothing into a lock.
LEMMA OutsideLocks ==
    ASSUME AccountInv, NEW f \in Flows, UNCHANGED <<factorVars, raced>>,
           \A g \in Flows : stage'[g] = "checked" => stage[g] = "checked",
           \A g \in Flows \ {f} : flowKind'[g] = flowKind[g] /\ target'[g] = target[g],
           \/ flowKind' = flowKind /\ target' = target
           \/ stage[f] # "checked"
    PROVE  ~raced' => FactorInv'
  BY DEF AccountInv, FactorInv, CheckInv, Remaining, factorVars

\* A flow goes on outside the locks, and the dialog and the account stay.
LEMMA GoesOn ==
    ASSUME AccountInv, NEW f \in Flows, stage[f] \notin Waiting, NEW s \in Stages \ (Waiting \cup {"checked"}),
           Goes(f, s), UNCHANGED <<confirmationVars, flowVars, factorVars, raced>>
    PROVE  AccountInv'
  BY GoesKeepsDialog, OutsideLocks DEF Goes, AccountInv, SecurityTypes, flowVars, confirmationVars,
     factorVars

\* A flow asks in the dialog, and the account stays.
LEMMA Asks ==
    ASSUME AccountInv, NEW f \in Flows, stage[f] \notin Waiting, NEW asks \in Waiting,
           RequestConfirmation(f, asks), UNCHANGED <<flowVars, factorVars, raced>>
    PROVE  AccountInv'
  BY RequestKeepsDialog, OutsideLocks DEF flowVars, AccountInv, SecurityTypes, factorVars

\* A change starts: with the dialog when it needs a name.
LEMMA StartChangeKeeps ==
    ASSUME AccountInv, NEW f \in Flows, NEW k \in FlowKinds, NEW q \in Factors \cup {NoFactor},
           StartChange(f, k, q)
    PROVE  AccountInv'
  <1>1. /\ stage[f] = "idle" /\ stage[f] \notin Waiting /\ "name" \in Waiting
        /\ flowKind' = [flowKind EXCEPT ![f] = k] /\ target' = [target EXCEPT ![f] = q]
        /\ UNCHANGED <<factorVars, raced>>
    BY DEF StartChange, accountVars, factorVars, Waiting
  <1>2. /\ DialogServesOneFlow' /\ stage' \in [Flows -> Stages]
        /\ confirmation' \in [flow : Flows \cup {NoFlow}, asks : Waiting \cup {"nothing"}, typed : BOOLEAN]
        /\ \A g \in Flows : stage'[g] = "checked" => stage[g] = "checked"
    BY <1>1, RequestKeepsDialog, GoesKeepsDialog DEF StartChange, Stages, Waiting, Goes,
       AccountInv, SecurityTypes, confirmationVars
  <1>3. ~raced' => FactorInv'
    BY <1>1, <1>2, OutsideLocks DEF AccountInv, SecurityTypes
  <1>4. flowKind' \in [Flows -> FlowKinds \cup {"none"}] /\ target' \in [Flows -> Factors \cup {NoFactor}]
    BY <1>1 DEF AccountInv, SecurityTypes
  <1> QED BY <1>1, <1>2, <1>3, <1>4 DEF AccountInv, SecurityTypes, factorVars

\* The dialog is answered, dismissed or typed into.
LEMMA DialogStepKeeps ==
    ASSUME AccountInv, TypeConfirmation \/ CancelConfirmation \/ SubmitConfirmation
    PROVE  AccountInv'
  <1> DEFINE f == confirmation.flow
  <1>1. f \in Flows /\ stage[f] = confirmation.asks /\ confirmation.flow # NoFlow
        /\ UNCHANGED <<flowVars, factorVars, raced>>
    BY DEF TypeConfirmation, CancelConfirmation, SubmitConfirmation, AccountInv, SecurityTypes,
           DialogServesOneFlow, accountVars, factorVars
  <1>2. CASE TypeConfirmation
    BY <1>2, <1>1, OutsideLocks DEF TypeConfirmation, AccountInv, SecurityTypes,
       DialogServesOneFlow, flowVars, factorVars
  <1>3. CASE CancelConfirmation \/ SubmitConfirmation
    <2>1. PICK s \in {"ended", "intent", "chosen", "verify"} : stage' = [stage EXCEPT ![f] = s]
      BY <1>3 DEF CancelConfirmation, SubmitConfirmation, Goes
    <2>2. confirmation' = NoConfirmation
      BY <1>3 DEF CancelConfirmation, SubmitConfirmation
    <2>3. s \in Stages /\ s \notin Waiting /\ s # "checked"
      BY DEF Stages, Waiting
    <2>4. /\ stage' \in [Flows -> Stages]
          /\ confirmation' \in [flow : Flows \cup {NoFlow}, asks : Waiting \cup {"nothing"}, typed : BOOLEAN]
          /\ \A g \in Flows : stage'[g] = "checked" => stage[g] = "checked"
      BY <1>1, <2>1, <2>2, <2>3 DEF AccountInv, SecurityTypes, NoConfirmation
    <2>5. DialogServesOneFlow'
      BY <1>1, <2>1, <2>2, <2>3, SecurityAssumption DEF AccountInv, SecurityTypes, DialogServesOneFlow, NoConfirmation
    <2>6. ~raced' => FactorInv'
      BY <1>1, <2>4, OutsideLocks DEF flowVars
    <2> QED BY <1>1, <2>4, <2>5, <2>6 DEF AccountInv, SecurityTypes, flowVars, factorVars
  <1> QED BY <1>2, <1>3

\* The requests and ceremonies before the change, and the answers after it.
LEMMA FlowStepKeeps ==
    ASSUME AccountInv, NEW f \in Flows,
           \/ CreateIntent(f) \/ MethodsOffered(f) \/ UseMethod(f) \/ CompleteIntent(f)
           \/ ConsumeGrant(f) \/ ChangeAnswered(f) \/ ActivationAnswered(f)
    PROVE  AccountInv'
  <1>1. stage[f] \notin Waiting /\ UNCHANGED <<flowVars, factorVars, raced>>
    BY DEF CreateIntent, MethodsOffered, UseMethod, CompleteIntent, ConsumeGrant, ChangeAnswered,
           ActivationAnswered, Waiting, accountVars, factorVars
  <1>2. \/ \E asks \in {"method", "secret"} : RequestConfirmation(f, asks)
        \/ /\ UNCHANGED confirmationVars
           /\ \E s \in {"ended", "opened", "granted", "chosen", "verify", "admitted", "enrolled"} : Goes(f, s)
    BY DEF CreateIntent, MethodsOffered, UseMethod, CompleteIntent, ConsumeGrant, ChangeAnswered,
           ActivationAnswered
  <1>3. /\ {"method", "secret"} \subseteq Waiting
        /\ {"ended", "opened", "granted", "chosen", "verify", "admitted", "enrolled"}
             \subseteq Stages \ (Waiting \cup {"checked"})
    BY DEF Stages, Waiting
  <1>4. CASE \E asks \in {"method", "secret"} : RequestConfirmation(f, asks)
    BY <1>1, <1>3, <1>4, Asks
  <1>5. CASE /\ UNCHANGED confirmationVars
             /\ \E s \in {"ended", "opened", "granted", "chosen", "verify", "admitted", "enrolled"} : Goes(f, s)
    BY <1>1, <1>3, <1>5, GoesOn
  <1> QED BY <1>2, <1>4, <1>5

\* Inside its lock a change reads again what it relies on; two that are inside at
\* once are a deletion and an enabling.
LEMMA CheckChangeKeeps ==
    ASSUME AccountInv, NEW f \in Flows, CheckChange(f)
    PROVE  AccountInv'
  <1>1. PICK s \in {"checked", "ended"} : Goes(f, s) /\ (s = "checked" => Fits(f) /\ ~LastFactor(f))
    BY DEF CheckChange
  <1>2. /\ stage[f] = "admitted" /\ flowKind[f] \in Guarded /\ Unlocked(f)
        /\ UNCHANGED <<flowVars, confirmationVars, factorVars>>
        /\ raced' \in BOOLEAN /\ (~raced' => ~raced)
        /\ \A g \in Flows : stage[g] = "checked" => raced'
    BY DEF CheckChange, Unlocked
  <1>3. /\ stage[f] \notin Waiting /\ s \in Stages \ Waiting
        /\ stage' = [stage EXCEPT ![f] = s] /\ stage' \in [Flows -> Stages]
    BY <1>1, <1>2 DEF Waiting, Stages, Goes, AccountInv, SecurityTypes
  <1>4. DialogServesOneFlow'
    BY <1>1, <1>2, <1>3, GoesKeepsDialog
  <1>5. ~raced' => FactorInv'
    BY <1>2, <1>3, <1>1 DEF AccountInv, SecurityTypes, Fits, LastFactor, Remaining, FactorInv,
       CheckInv, flowVars, factorVars
  <1> QED BY <1>2, <1>3, <1>4, <1>5 DEF AccountInv, SecurityTypes, flowVars, confirmationVars, factorVars

\* The change is made, by the only flow inside a lock or by one that needs none.
LEMMA ApplyChangeKeeps ==
    ASSUME AccountInv, NEW f \in Flows, ApplyChange(f)
    PROVE  AccountInv'
  <1>1. /\ stage[f] \in {"checked", "admitted"} /\ (flowKind[f] \in Guarded => stage[f] = "checked")
        /\ UNCHANGED <<flowVars, confirmationVars, raced>>
    BY DEF ApplyChange
  <1>2. PICK s \in {"ended", "ceremony", "done"} : Goes(f, s)
    BY DEF ApplyChange
  <1>3. /\ stage[f] \notin Waiting /\ s \in Stages \ Waiting
        /\ stage' = [stage EXCEPT ![f] = s] /\ stage' \in [Flows -> Stages]
        /\ \A g \in Flows : stage'[g] = "checked" => stage[g] = "checked" /\ g # f
    BY <1>1, <1>2 DEF Waiting, Stages, Goes, AccountInv, SecurityTypes
  <1>4. DialogServesOneFlow'
    BY <1>1, <1>2, <1>3, GoesKeepsDialog
  <1>5. \/ mfa' = mfa /\ passkeys' = passkeys /\ authenticators' = authenticators
        \/ flowKind[f] \in Deletes /\ mfa' = mfa /\ passkeys' \cup authenticators' = Remaining(f)
        \/ flowKind[f] = "mfa.enable" /\ mfa' = TRUE /\ passkeys' = passkeys /\ authenticators' = authenticators
        \/ mfa' = FALSE /\ passkeys' = passkeys /\ authenticators' = {}
    BY DEF ApplyChange, Remaining, Deletes, factorVars
  <1>6. mfa' \in BOOLEAN
    BY <1>5 DEF AccountInv, SecurityTypes
  <1>7. ~raced' => FactorInv'
    BY <1>1, <1>3, <1>5 DEF AccountInv, FactorInv, CheckInv, Remaining, flowVars, Guarded
  <1> QED BY <1>1, <1>3, <1>4, <1>6, <1>7 DEF AccountInv, SecurityTypes, flowVars, confirmationVars

\* A passkey more leaves every deletion at least as much as before.
LEMMA RegisterPasskeyKeeps ==
    ASSUME AccountInv, NEW f \in Flows, RegisterPasskey(f)
    PROVE  AccountInv'
  <1>1. /\ stage[f] = "ceremony" /\ passkeys \subseteq passkeys'
        /\ UNCHANGED <<flowVars, confirmationVars, mfa, authenticators, raced>>
    BY DEF RegisterPasskey
  <1>2. PICK s \in {"ended", "done"} : Goes(f, s)
    BY DEF RegisterPasskey
  <1>3. /\ stage[f] \notin Waiting /\ s \in Stages \ Waiting
        /\ stage' = [stage EXCEPT ![f] = s] /\ stage' \in [Flows -> Stages]
        /\ \A g \in Flows : stage'[g] = "checked" => stage[g] = "checked"
    BY <1>1, <1>2 DEF Waiting, Stages, Goes, AccountInv, SecurityTypes
  <1>4. DialogServesOneFlow'
    BY <1>1, <1>2, <1>3, GoesKeepsDialog
  <1>5. ~raced' => FactorInv'
    BY <1>1, <1>3 DEF AccountInv, FactorInv, CheckInv, Remaining, flowVars
  <1> QED BY <1>1, <1>3, <1>4, <1>5 DEF AccountInv, SecurityTypes, flowVars, confirmationVars

\* A new authenticator is what a deletion leaves, unless it has the identity that is
\* deleted.
LEMMA ActivateKeeps ==
    ASSUME AccountInv, EnrollmentsInv, ActivateEnrollment
    PROVE  AccountInv'
  <1> DEFINE f == enrollment
  <1>1. PICK q \in FreeFactors : authenticators' = authenticators \cup {q} /\ raced' = (raced \/ Reused(q))
    BY DEF ActivateEnrollment
  <1>2. /\ stage[f] = "enrolled" /\ Goes(f, "activated") /\ mfa' = TRUE
        /\ UNCHANGED <<flowVars, confirmationVars, passkeys>>
    BY DEF ActivateEnrollment
  <1>3. CASE f \in Flows
    <2>1. /\ stage[f] \notin Waiting /\ "activated" \in Stages \ Waiting
          /\ stage' = [stage EXCEPT ![f] = "activated"] /\ stage' \in [Flows -> Stages]
          /\ \A g \in Flows : stage'[g] = "checked" => stage[g] = "checked"
      BY <1>2, <1>3 DEF Waiting, Stages, Goes, AccountInv, SecurityTypes
    <2>2. DialogServesOneFlow'
      BY <1>2, <1>3, <2>1, GoesKeepsDialog
    <2>3. raced' \in BOOLEAN /\ (~raced' => ~raced /\ ~Reused(q))
      BY <1>1 DEF AccountInv, SecurityTypes
    <2>4. ~raced' => FactorInv'
      BY <2>3, <1>1, <1>2, <2>1 DEF AccountInv, Reused, Remaining, flowVars, FactorInv, CheckInv
    <2> QED BY <1>2, <2>1, <2>2, <2>3, <2>4 DEF AccountInv, SecurityTypes, flowVars, confirmationVars
  <1> QED BY <1>3 DEF ActivateEnrollment, EnrollmentsInv

\* Enrollments are opened by flows.
LEMMA EnrollmentsKept == EnrollmentsInv /\ [SecurityNext]_securityVars => EnrollmentsInv'
  <1> SUFFICES ASSUME EnrollmentsInv, [SecurityNext]_securityVars PROVE EnrollmentsInv'
    OBVIOUS
  <1>1. ASSUME NEW f \in Flows, ApplyChange(f) PROVE EnrollmentsInv'
    BY <1>1 DEF ApplyChange, EnrollmentsInv
  <1>2. CASE ActivateEnrollment
    BY <1>2 DEF ActivateEnrollment, EnrollmentsInv
  <1>3. ASSUME enrollments' = enrollments PROVE EnrollmentsInv'
    BY <1>3 DEF EnrollmentsInv
  <1>4. ASSUME NEW f \in Flows,
               \/ \E k \in FlowKinds, q \in Factors \cup {NoFactor} : StartChange(f, k, q)
               \/ CreateIntent(f) \/ MethodsOffered(f) \/ UseMethod(f) \/ CompleteIntent(f)
               \/ ConsumeGrant(f) \/ CheckChange(f) \/ RegisterPasskey(f) \/ ChangeAnswered(f)
               \/ ActivationAnswered(f)
        PROVE  EnrollmentsInv'
    BY <1>3, <1>4 DEF StartChange, CreateIntent, MethodsOffered, UseMethod, CompleteIntent, ConsumeGrant,
           CheckChange, RegisterPasskey, ChangeAnswered, ActivationAnswered, accountVars
  <1>5. CASE TypeConfirmation \/ CancelConfirmation \/ SubmitConfirmation \/ SurfaceLoaded \/ UNCHANGED securityVars
    BY <1>3, <1>5 DEF TypeConfirmation, CancelConfirmation, SubmitConfirmation, SurfaceLoaded, accountVars,
           securityVars
  <1> QED BY <1>1, <1>2, <1>4, <1>5 DEF SecurityNext

\* Every step keeps the dialog and the factors.
LEMMA AccountKept == AccountInv /\ EnrollmentsInv /\ [SecurityNext]_securityVars => AccountInv'
  <1> SUFFICES ASSUME AccountInv, EnrollmentsInv, [SecurityNext]_securityVars PROVE AccountInv'
    OBVIOUS
  <1>1. CASE SurfaceLoaded \/ UNCHANGED securityVars
    <2>1. UNCHANGED <<stage, confirmationVars, flowVars, factorVars, raced>>
      BY <1>1 DEF SurfaceLoaded, securityVars, accountVars, confirmationVars, flowVars, factorVars
    <2> QED BY <2>1 DEF AccountInv, SecurityTypes, DialogServesOneFlow, FactorInv, CheckInv, Remaining,
                        confirmationVars, flowVars, factorVars
  <1> QED BY <1>1, StartChangeKeeps, FlowStepKeeps, CheckChangeKeeps, ApplyChangeKeeps, RegisterPasskeyKeeps,
             DialogStepKeeps, ActivateKeeps DEF SecurityNext

\* However many changes of the account run at once: the dialog serves one of them,
\* with text typed for its own question, and an account with MFA keeps a factor to
\* sign in with, but for the two overlaps that no lock excludes (webauthn.js,
\* webauthn_routes.py, totp_routes.py, mfa_factors.py).
THEOREM AccountIsSafe == SecuritySpec => []AccountSafe
  <1>1. SecurityInit => AccountInv /\ EnrollmentsInv
    <2> SUFFICES ASSUME SecurityInit PROVE AccountInv /\ EnrollmentsInv
      OBVIOUS
    <2>1. SecurityTypes
      BY DEF SecurityInit, SecurityTypes, Stages, NoConfirmation
    <2>2. DialogServesOneFlow
      BY SecurityAssumption DEF SecurityInit, DialogServesOneFlow, NoConfirmation, Waiting
    <2>3. FactorInv
      BY DEF SecurityInit, FactorInv, CheckInv
    <2> QED BY <2>1, <2>2, <2>3 DEF AccountInv, EnrollmentsInv, SecurityInit
  <1>2. AccountInv => AccountSafe
    BY DEF AccountInv, FactorInv, AccountSafe, MfaKeepsFactor
  <1> QED BY <1>1, <1>2, AccountKept, EnrollmentsKept, PTL DEF SecuritySpec

----------------------------------------------------------------------------
(* Commands and command sets.                                              *)

CommandSpec == CommandInit /\ [][CommandNext]_commandVars

FormRecord == [open : BOOLEAN, editing : SavedCommands \cup {NoCommand}, callback : Nat]

\* A form that waits with a callback is open for the step that was promoted last, and
\* a form that is closed has none, unless one was left with Escape or before its
\* answer.
FormInv ==
    /\ form \in FormRecord /\ leftover \in BOOLEAN /\ wrongStep \in BOOLEAN
    /\ DOMAIN draft = {"open", "editing", "steps", "returns", "promoted"}
    /\ ~leftover => ~wrongStep /\ (form.callback # 0 => form.open /\ form.callback = draft.promoted)

\* The list shows the set of the request, but for a set made or deleted in the dialog.
StartInv ==
    /\ DOMAIN start = {"set", "selected", "list", "diverged"}
    /\ start.diverged = TRUE \/ start.list = start.set

\* The last insertion was of a line into a live shell.
InsertedInv == alive \in BOOLEAN /\ inserted.kind = "line" /\ inserted.live = TRUE

\* Every answer on its way is one of the four that the page waits for.
AnswerKinds == {"lists", "added", "kitSaved", "kitDeleted"}
AnswersInv == \E S : answers \in Seq(S) /\ \A a \in S : a.kind \in AnswerKinds

\* At most one addition waits for its answer, and the form it was sent from is still
\* open for the same step.
AddsInv == ~leftover =>
    \A i \in DOMAIN answers : answers[i].kind = "added" =>
        /\ form.open /\ form.editing = NoCommand /\ answers[i].step = form.callback
        /\ \A j \in DOMAIN answers : answers[j].kind = "added" => j = i

CommandInv == AnswersInv /\ FormInv /\ AddsInv /\ StartInv /\ InsertedInv

\* An answer or two more.
LEMMA AnswersGrow ==
    ASSUME AnswersInv, NEW x, NEW y, x.kind \in AnswerKinds, y.kind \in AnswerKinds,
           answers' = Append(answers, x) \/ answers' = answers \o <<x, y>>
    PROVE  AnswersInv'
  <1>1. PICK S : answers \in Seq(S) /\ \A a \in S : a.kind \in AnswerKinds
    BY DEF AnswersInv
  <1> DEFINE T == S \cup {x, y}
  <1>2. answers \in Seq(T) /\ x \in T /\ y \in T /\ \A a \in T : a.kind \in AnswerKinds
    BY <1>1
  <1> HIDE DEF T
  <1>3. <<x, y>> \in Seq(T)
    BY <1>2
  <1>4. answers' \in Seq(T)
    <2>1. CASE answers' = Append(answers, x)
      BY <1>2, <2>1
    <2>2. CASE answers' = answers \o <<x, y>>
      <3> DEFINE z == <<x, y>>
      <3>1. z \in Seq(T) /\ answers' = answers \o z
        BY <1>3, <2>2
      <3> HIDE DEF z
      <3> QED BY <1>2, <3>1
    <2> QED BY <2>1, <2>2
  <1> QED BY <1>2, <1>4 DEF AnswersInv

\* Every request of the page is answered with answers of these kinds.
LEMMA AnswersKept == AnswersInv /\ [CommandNext]_commandVars => AnswersInv'
  <1> SUFFICES ASSUME AnswersInv, [CommandNext]_commandVars PROVE AnswersInv'
    OBVIOUS
  <1>1. ASSUME answers' = answers PROVE AnswersInv'
    BY <1>1 DEF AnswersInv
  <1>2. CASE \/ TogglePanel \/ RedrawPanel \/ ShellChanges \/ LanguageChanges
             \/ ShowAddForm \/ CloseForm \/ EscapeForm \/ EditSteps \/ CloseBuilder
             \/ (\E e \in Entries : InsertCommand(e))
             \/ (\E i \in 1 .. 2 : PromoteStep(i))
             \/ (\E c \in SavedCommands : OtherTabEdits(c) \/ \E b \in BOOLEAN : CopyOrEdit(c, b))
             \/ (\E x \in CommandSets : ChooseKit(x) \/ \E b \in BOOLEAN : OpenBuilder(x, b))
             \/ UNCHANGED commandVars
    BY <1>1, <1>2 DEF TogglePanel, RedrawPanel, ShellChanges, LanguageChanges, ShowAddForm, CloseForm,
           EscapeForm, EditSteps, CloseBuilder, InsertCommand, PromoteStep, OtherTabEdits, CopyOrEdit,
           ChooseKit, OpenBuilder, commandVars
  <1>3. \A lib, sets, of :
           /\ Lists(lib, sets).kind \in AnswerKinds
           /\ \A k \in AnswerKinds :
                 /\ [Lists(lib, sets) EXCEPT !.kind = k, !.of = of].kind \in AnswerKinds
                 /\ \A n : [Lists(lib, sets) EXCEPT !.kind = k, !.of = of, !.step = n].kind \in AnswerKinds
    BY DEF Lists, AnswerKinds
  <1>4. {"added", "kitSaved", "kitDeleted"} \subseteq AnswerKinds
    BY DEF AnswerKinds
  <1>5. ASSUME NEW c \in SavedCommands, NEW k \in Kinds, SaveForm(c, k) PROVE AnswersInv'
    <2> DEFINE x == Lists(shelf', [e \in CommandSets |-> ResolvedKit(kits[e])])
               y == [Lists(shelf', kits) EXCEPT !.kind = "added", !.of = c, !.step = form.callback]
    <2>1. answers' = Append(answers, x) \/ answers' = answers \o <<x, y>>
      BY <1>5 DEF SaveForm
    <2>2. x.kind \in AnswerKinds /\ y.kind \in AnswerKinds
      BY <1>3, <1>4
    <2> HIDE DEF x, y
    <2> QED BY <2>1, <2>2, AnswersGrow
  <1>6. ASSUME NEW c \in SavedCommands, DeleteCommand(c) PROVE AnswersInv'
    <2> DEFINE y == Lists(shelf', [x \in CommandSets |-> ResolvedKit(kits[x])])
    <2>1. answers' = Append(answers, y)
      BY <1>6 DEF DeleteCommand
    <2>2. y.kind \in AnswerKinds
      BY <1>3
    <2> HIDE DEF y
    <2> QED BY <2>1, <2>2, AnswersGrow
  <1>7. CASE SaveKit
    BY <1>3, <1>4, <1>7, AnswersGrow DEF SaveKit
  <1>8. ASSUME NEW x \in CommandSets, DeleteKit(x) PROVE AnswersInv'
    BY <1>3, <1>4, <1>8, AnswersGrow DEF DeleteKit
  <1>9. CASE AnswerArrives
    BY <1>9 DEF AnswersInv, AnswerArrives
  <1> QED BY <1>2, <1>5, <1>6, <1>7, <1>8, <1>9 DEF CommandNext

\* The first answer, and what is left when it is taken.
LEMMA AnswersShrink ==
    ASSUME AnswersInv, answers # <<>>
    PROVE  /\ 1 \in DOMAIN answers /\ Head(answers) = answers[1]
           /\ \A i \in DOMAIN Tail(answers) : i + 1 \in DOMAIN answers /\ Tail(answers)[i] = answers[i + 1]
           /\ \A i \in DOMAIN Tail(answers) : i \in Nat \ {0}
  <1>1. PICK S : answers \in Seq(S)
    BY DEF AnswersInv
  <1>2. Len(answers) \in Nat \ {0} /\ DOMAIN answers = 1 .. Len(answers)
    BY <1>1, EmptySeq, LenProperties
  <1>3. /\ Head(answers) = answers[1] /\ Tail(answers) \in Seq(S) /\ Len(Tail(answers)) = Len(answers) - 1
        /\ \A i \in 1 .. Len(answers) - 1 : Tail(answers)[i] = answers[i + 1]
    BY <1>1, HeadTailProperties
  <1>4. DOMAIN Tail(answers) = 1 .. Len(answers) - 1
    BY <1>3, LenProperties
  <1> QED BY <1>2, <1>3, <1>4

\* Answers that are added behind the others.
LEMMA AnswersBehind ==
    ASSUME AnswersInv, NEW x, NEW y,
           answers' = Append(answers, x) \/ answers' = answers \o <<x, y>>
    PROVE  /\ DOMAIN answers \subseteq DOMAIN answers'
           /\ \A i \in DOMAIN answers : answers'[i] = answers[i]
           /\ \A i \in DOMAIN answers' \ DOMAIN answers :
                 answers'[i] = x \/ (answers'[i] = y /\ i = Len(answers) + 2)
  <1>1. PICK S : answers \in Seq(S)
    BY DEF AnswersInv
  <1> DEFINE T == S \cup {x, y}
             z == <<x, y>>
  <1>2. answers \in Seq(T) /\ x \in T /\ z \in Seq(T) /\ Len(z) = 2 /\ z[1] = x /\ z[2] = y
    BY <1>1
  <1>3. Len(answers) \in Nat /\ DOMAIN answers = 1 .. Len(answers)
    BY <1>1, LenProperties
  <1>4. answers' = Append(answers, x) \/ answers' = answers \o z
    OBVIOUS
  <1> HIDE DEF T, z
  <1>5. CASE answers' = Append(answers, x)
    <2>1. /\ Len(answers') = Len(answers) + 1 /\ answers' \in Seq(T) /\ answers'[Len(answers) + 1] = x
          /\ \A i \in 1 .. Len(answers) : answers'[i] = answers[i]
      BY <1>2, <1>5, AppendProperties
    <2>2. DOMAIN answers' = 1 .. Len(answers) + 1
      BY <2>1, LenProperties
    <2> QED BY <1>3, <2>1, <2>2
  <1>6. CASE answers' = answers \o z
    <2>1. /\ Len(answers') = Len(answers) + 2 /\ answers' \in Seq(T)
          /\ \A i \in 1 .. Len(answers) + 2 :
                answers'[i] = IF i <= Len(answers) THEN answers[i] ELSE z[i - Len(answers)]
      <3>1. /\ Len(answers \o z) = Len(answers) + Len(z) /\ answers \o z \in Seq(T)
            /\ \A i \in 1 .. Len(answers) + Len(z) :
                  (answers \o z)[i] = IF i <= Len(answers) THEN answers[i] ELSE z[i - Len(answers)]
        BY <1>2, ConcatProperties
      <3> QED BY <3>1, <1>2, <1>6
    <2>2. DOMAIN answers' = 1 .. Len(answers) + 2
      BY <2>1, LenProperties
    <2>3. ASSUME NEW i \in DOMAIN answers' \ DOMAIN answers
          PROVE  answers'[i] = x \/ (answers'[i] = y /\ i = Len(answers) + 2)
      <3>1. i = Len(answers) + 1 \/ i = Len(answers) + 2
        BY <1>3, <2>2
      <3>2. ~(i <= Len(answers)) /\ (i - Len(answers) = 1 \/ (i = Len(answers) + 2 /\ i - Len(answers) = 2))
        BY <1>3, <3>1
      <3> QED BY <1>2, <2>1, <2>2, <3>2
    <2> QED BY <1>3, <2>1, <2>2, <2>3
  <1> QED BY <1>4, <1>5, <1>6

\* Additions and the form they were sent from.
LEMMA AddsKept == AnswersInv /\ AddsInv /\ [CommandNext]_commandVars => AddsInv'
  <1> SUFFICES ASSUME AnswersInv, AddsInv, [CommandNext]_commandVars PROVE AddsInv'
    OBVIOUS
  <1>1. CASE \/ TogglePanel \/ RedrawPanel \/ ShellChanges \/ LanguageChanges \/ EditSteps \/ CloseBuilder
             \/ (\E e \in Entries : InsertCommand(e))
             \/ (\E c \in SavedCommands : OtherTabEdits(c))
             \/ (\E x \in CommandSets : ChooseKit(x) \/ \E b \in BOOLEAN : OpenBuilder(x, b))
             \/ UNCHANGED commandVars
    <2>1. UNCHANGED <<answers, form, leftover>>
      BY <1>1 DEF TogglePanel, RedrawPanel, ShellChanges, LanguageChanges, EditSteps, CloseBuilder,
             InsertCommand, OtherTabEdits, ChooseKit, OpenBuilder, commandVars
    <2> QED BY <2>1 DEF AddsInv
  <1>2. CASE \/ ShowAddForm \/ (\E i \in 1 .. 2 : PromoteStep(i))
             \/ (\E c \in SavedCommands, b \in BOOLEAN : CopyOrEdit(c, b))
    <2>1. ~form.open /\ UNCHANGED <<answers, leftover>>
      BY <1>2 DEF ShowAddForm, PromoteStep, CopyOrEdit
    <2> QED BY <2>1 DEF AddsInv
  <1>3. CASE CloseForm \/ EscapeForm
    <2>1. leftover' = TRUE \/ (~Adding /\ answers' = answers)
      BY <1>3 DEF CloseForm, EscapeForm
    <2> QED BY <2>1 DEF AddsInv, Adding
  <1>4. ASSUME NEW x, NEW y, x.kind # "added", y.kind # "added", UNCHANGED <<form, leftover>>,
               answers' = Append(answers, x) \/ answers' = answers \o <<x, y>>
        PROVE  AddsInv'
    <2>1. \A i \in DOMAIN answers' :
             answers'[i].kind = "added" => i \in DOMAIN answers /\ answers'[i] = answers[i]
      BY <1>4, AnswersBehind
    <2> QED BY <1>4, <2>1 DEF AddsInv
  <1>5. ASSUME NEW c \in SavedCommands, NEW k \in Kinds, SaveForm(c, k) PROVE AddsInv'
    <2> DEFINE x == Lists(shelf', [e \in CommandSets |-> ResolvedKit(kits[e])])
               y == [Lists(shelf', kits) EXCEPT !.kind = "added", !.of = c, !.step = form.callback]
    <2>1. x.kind # "added" /\ y.step = form.callback
      BY DEF Lists
    <2>2. \/ /\ form.editing # NoCommand /\ leftover' = leftover /\ answers' = Append(answers, x)
          \/ /\ form.editing = NoCommand /\ form.open /\ form' = form /\ leftover' = (leftover \/ Adding)
             /\ answers' = answers \o <<x, y>>
      BY <1>5 DEF SaveForm
    <2> HIDE DEF x, y
    <2>3. CASE form.editing # NoCommand /\ leftover' = leftover /\ answers' = Append(answers, x)
      BY <2>1, <2>3, AnswersBehind DEF AddsInv
    <2>4. CASE /\ form.editing = NoCommand /\ form.open /\ form' = form /\ leftover' = (leftover \/ Adding)
               /\ answers' = answers \o <<x, y>>
      <3> SUFFICES ASSUME ~leftover', NEW i \in DOMAIN answers', answers'[i].kind = "added"
                   PROVE  answers'[i].step = form.callback /\ i = Len(answers) + 2
        BY <2>4 DEF AddsInv
      <3>1. \A j \in DOMAIN answers : answers[j].kind # "added"
        BY <2>4 DEF Adding
      <3> QED BY <2>1, <2>4, <3>1, AnswersBehind
    <2> QED BY <2>2, <2>3, <2>4
  <1>6. \A lib, sets : /\ Lists(lib, sets).kind # "added"
                       /\ \A k, of : k # "added" => [Lists(lib, sets) EXCEPT !.kind = k, !.of = of].kind # "added"
    BY DEF Lists
  <1>7. ASSUME NEW c \in SavedCommands, DeleteCommand(c) PROVE AddsInv'
    <2> DEFINE x == Lists(shelf', [e \in CommandSets |-> ResolvedKit(kits[e])])
    <2>1. answers' = Append(answers, x) /\ UNCHANGED <<form, leftover>> /\ x.kind # "added"
      BY <1>6, <1>7 DEF DeleteCommand
    <2> HIDE DEF x
    <2> QED BY <2>1, <1>4
  <1>8. CASE SaveKit
    BY <1>4, <1>6, <1>8 DEF SaveKit
  <1>9. ASSUME NEW x \in CommandSets, DeleteKit(x) PROVE AddsInv'
    <2> DEFINE sets == [e \in CommandSets |-> ResolvedKit(kits'[e])]
               y == Lists(shelf, sets)
               z == [Lists(shelf, sets) EXCEPT !.kind = "kitDeleted", !.of = x]
    <2>1. answers' = answers \o <<y, z>> /\ UNCHANGED <<form, leftover>>
      BY <1>9 DEF DeleteKit
    <2>2. y.kind # "added" /\ z.kind # "added"
      BY <1>6
    <2> HIDE DEF y, z
    <2> QED BY <2>1, <2>2, <1>4
  <1>10. CASE AnswerArrives
    <2> DEFINE a == Head(answers)
    <2>1. answers # <<>> /\ answers' = Tail(answers) /\ leftover' = leftover
      BY <1>10 DEF AnswerArrives
    <2>2. /\ 1 \in DOMAIN answers /\ a = answers[1]
          /\ \A i \in DOMAIN answers' : /\ i \in Nat \ {0} /\ i + 1 \in DOMAIN answers
                                       /\ answers'[i] = answers[i + 1]
      BY <2>1, AnswersShrink
    <2>3. CASE a.kind = "added"
      <3>1. ~leftover => \A i \in DOMAIN answers' : answers'[i].kind # "added"
        <4> SUFFICES ASSUME ~leftover, NEW i \in DOMAIN answers', answers'[i].kind = "added" PROVE FALSE
          OBVIOUS
        <4>1. i + 1 = 1
          BY <2>2, <2>3 DEF AddsInv
        <4> QED BY <2>2, <4>1
      <3> QED BY <2>1, <3>1 DEF AddsInv
    <2>4. CASE a.kind # "added"
      <3>0. a.kind \in {"lists", "kitSaved", "kitDeleted"}
        BY <2>1, <2>4 DEF AnswersInv, AnswerKinds
      <3>1. form' = form
        BY <1>10, <3>0 DEF AnswerArrives
      <3> SUFFICES ASSUME ~leftover, NEW i \in DOMAIN answers', answers'[i].kind = "added"
                   PROVE  /\ form.open /\ form.editing = NoCommand /\ answers'[i].step = form.callback
                          /\ \A j \in DOMAIN answers' : answers'[j].kind = "added" => j = i
        BY <2>1, <3>1 DEF AddsInv
      <3>2. ASSUME NEW j \in DOMAIN answers', answers'[j].kind = "added" PROVE j = i
        <4>1. j + 1 = i + 1
          BY <2>2, <3>2 DEF AddsInv
        <4> QED BY <2>2, <4>1
      <3> QED BY <2>2, <3>2 DEF AddsInv
    <2> QED BY <2>3, <2>4
  <1> QED BY <1>1, <1>2, <1>3, <1>5, <1>7, <1>8, <1>9, <1>10 DEF CommandNext

\* The form and the builder.
LEMMA FormKept == AnswersInv /\ FormInv /\ AddsInv /\ [CommandNext]_commandVars => FormInv'
  <1> SUFFICES ASSUME AnswersInv, FormInv, AddsInv, [CommandNext]_commandVars PROVE FormInv'
    OBVIOUS
  <1>1. ASSUME UNCHANGED <<form, draft, leftover, wrongStep>> PROVE FormInv'
    BY <1>1 DEF FormInv
  <1>2. CASE \/ TogglePanel \/ RedrawPanel \/ ShellChanges \/ SaveKit \/ LanguageChanges
             \/ (\E e \in Entries : InsertCommand(e))
             \/ (\E c \in SavedCommands : DeleteCommand(c) \/ OtherTabEdits(c))
             \/ (\E x \in CommandSets : DeleteKit(x) \/ ChooseKit(x))
             \/ UNCHANGED commandVars
    BY <1>1, <1>2 DEF TogglePanel, RedrawPanel, ShellChanges, SaveKit, LanguageChanges, InsertCommand,
           DeleteCommand, OtherTabEdits, DeleteKit, ChooseKit, commandVars
  <1>3. CASE ShowAddForm
    BY <1>3 DEF ShowAddForm, FormInv, FormRecord
  <1>11. ASSUME NEW c \in SavedCommands, NEW b \in BOOLEAN, CopyOrEdit(c, b) PROVE FormInv'
    <2> DEFINE x == IF b THEN c ELSE NoCommand
    <2>1. x \in SavedCommands \cup {NoCommand}
      OBVIOUS
    <2>2. /\ ~form.open /\ form' = [form EXCEPT !.open = TRUE, !.editing = x]
          /\ UNCHANGED <<draft, leftover, wrongStep>>
      BY <1>11 DEF CopyOrEdit
    <2> HIDE DEF x
    <2> QED BY <2>1, <2>2 DEF FormInv, FormRecord
  <1>4. ASSUME NEW i \in 1 .. 2, PromoteStep(i) PROVE FormInv'
    BY <1>4 DEF PromoteStep, FormInv, FormRecord
  <1>5. CASE CloseForm
    BY <1>5 DEF CloseForm, FormInv, FormClosed, FormRecord
  <1>6. CASE EscapeForm
    BY <1>6 DEF EscapeForm, FormInv, FormRecord
  <1>7. ASSUME NEW c \in SavedCommands, NEW k \in Kinds, SaveForm(c, k) PROVE FormInv'
    <2>1. /\ form' = form \/ (form' = FormClosed /\ leftover' = leftover)
          /\ leftover' \in BOOLEAN /\ (~leftover' => ~leftover) /\ UNCHANGED <<draft, wrongStep>>
      BY <1>7 DEF SaveForm, FormInv, Adding
    <2>2. CASE form' = FormClosed
      BY <2>1, <2>2 DEF FormClosed, FormRecord, FormInv
    <2>3. CASE form' = form
      BY <2>1, <2>3 DEF FormInv
    <2> QED BY <2>1, <2>2, <2>3
  <1>8. CASE EditSteps
    BY <1>8 DEF EditSteps, FormInv
  <1>9. ASSUME CloseBuilder \/ \E x \in CommandSets, b \in BOOLEAN : OpenBuilder(x, b) PROVE FormInv'
    <2>1. /\ DOMAIN draft' = {"open", "editing", "steps", "returns", "promoted"}
          /\ ~form.open /\ UNCHANGED <<form, leftover, wrongStep>>
      BY <1>9 DEF CloseBuilder, OpenBuilder, FormInv
    <2> QED BY <2>1 DEF FormInv, FormRecord
  <1>10. CASE AnswerArrives
    <2> DEFINE a == Head(answers)
    <2>1. leftover' = leftover
      BY <1>10 DEF AnswerArrives
    <2>2. CASE a.kind = "added"
      <3>1. /\ form' = FormClosed
            /\ wrongStep' = (wrongStep \/ (form.callback # 0 /\ {form.callback} # {draft.promoted, a.step}))
            /\ DOMAIN draft' = DOMAIN draft
        BY <1>10, <2>2 DEF AnswerArrives
      <3>2. 1 \in DOMAIN answers /\ a = answers[1]
        BY <1>10, AnswersShrink DEF AnswerArrives
      <3>3. ~leftover => a.step = form.callback
        BY <2>2, <3>2 DEF AddsInv
      <3> QED BY <2>1, <3>1, <3>3 DEF FormInv, FormClosed, FormRecord
    <2>3. CASE a.kind = "kitSaved"
      <3>1. draft' = [draft EXCEPT !.open = FALSE] /\ UNCHANGED <<form, wrongStep>>
        BY <1>10, <2>3 DEF AnswerArrives
      <3>2. DOMAIN draft' = DOMAIN draft /\ draft'.promoted = draft.promoted
        BY <3>1 DEF FormInv
      <3> QED BY <2>1, <3>1, <3>2 DEF FormInv
    <2>4. CASE a.kind \in {"lists", "kitDeleted"}
      BY <1>10, <1>1, <2>1, <2>4 DEF AnswerArrives
    <2>5. a.kind \in AnswerKinds
      BY <1>10 DEF AnswerArrives, AnswersInv
    <2> QED BY <2>2, <2>3, <2>4, <2>5 DEF AnswerKinds
  <1> QED BY <1>2, <1>3, <1>4, <1>5, <1>6, <1>7, <1>8, <1>9, <1>10, <1>11 DEF CommandNext

\* The choice of a command set, and insertions.
LEMMA ChoiceKept ==
    AnswersInv /\ StartInv /\ InsertedInv /\ [CommandNext]_commandVars => StartInv' /\ InsertedInv'
  <1> SUFFICES ASSUME AnswersInv, StartInv, InsertedInv, [CommandNext]_commandVars PROVE StartInv' /\ InsertedInv'
    OBVIOUS
  <1>1. StartInv'
    <2>1. ASSUME start' = start PROVE StartInv'
      BY <2>1 DEF StartInv
    <2>2. ASSUME NEW x \in CommandSets, ChooseKit(x) PROVE StartInv'
      BY <2>2 DEF ChooseKit, Chosen, Selected, StartInv
    <2>3. CASE LanguageChanges
      BY <2>3 DEF LanguageChanges, ListsDrawn, StartInv
    <2>4. CASE AnswerArrives
      <3> DEFINE a == Head(answers)
      <3>1. a.kind \in AnswerKinds
        BY <2>4 DEF AnswerArrives, AnswersInv
      <3>2. \/ start' = start \/ start' = ListsDrawn(start)
            \/ \E x : start' = [Selected(start, x) EXCEPT !.diverged = TRUE]
        BY <2>4, <3>1 DEF AnswerArrives, AnswerKinds
      <3> QED BY <2>1, <3>2 DEF ListsDrawn, Selected, StartInv
    <2>5. CASE \/ TogglePanel \/ RedrawPanel \/ ShellChanges \/ ShowAddForm \/ CloseForm \/ EscapeForm
               \/ EditSteps \/ SaveKit \/ CloseBuilder
               \/ (\E e \in Entries : InsertCommand(e))
               \/ (\E i \in 1 .. 2 : PromoteStep(i))
               \/ (\E c \in SavedCommands : DeleteCommand(c) \/ OtherTabEdits(c) \/ (\E k \in Kinds : SaveForm(c, k))
                                            \/ \E b \in BOOLEAN : CopyOrEdit(c, b))
               \/ (\E x \in CommandSets : DeleteKit(x) \/ \E b \in BOOLEAN : OpenBuilder(x, b))
               \/ UNCHANGED commandVars
      BY <2>1, <2>5 DEF TogglePanel, RedrawPanel, ShellChanges, ShowAddForm, CloseForm, EscapeForm, EditSteps,
             SaveKit, CloseBuilder, InsertCommand, PromoteStep, DeleteCommand, OtherTabEdits, SaveForm,
             CopyOrEdit, DeleteKit, OpenBuilder, commandVars
    <2> QED BY <2>2, <2>3, <2>4, <2>5 DEF CommandNext
  <1>2. InsertedInv'
    <2>1. ASSUME UNCHANGED <<alive, inserted>> PROVE InsertedInv'
      BY <2>1 DEF InsertedInv
    <2>2. ASSUME NEW e \in Entries, InsertCommand(e) PROVE InsertedInv'
      BY <2>2 DEF InsertCommand, Insertable, InsertedInv
    <2>3. CASE ShellChanges
      BY <2>3 DEF ShellChanges, InsertedInv
    <2>4. CASE \/ TogglePanel \/ RedrawPanel \/ ShowAddForm \/ CloseForm \/ EscapeForm
               \/ EditSteps \/ SaveKit \/ CloseBuilder \/ LanguageChanges \/ AnswerArrives
               \/ (\E i \in 1 .. 2 : PromoteStep(i))
               \/ (\E c \in SavedCommands : DeleteCommand(c) \/ OtherTabEdits(c) \/ (\E k \in Kinds : SaveForm(c, k))
                                            \/ \E b \in BOOLEAN : CopyOrEdit(c, b))
               \/ (\E x \in CommandSets : DeleteKit(x) \/ ChooseKit(x) \/ \E b \in BOOLEAN : OpenBuilder(x, b))
               \/ UNCHANGED commandVars
      BY <2>1, <2>4 DEF TogglePanel, RedrawPanel, ShowAddForm, CloseForm, EscapeForm, EditSteps,
             SaveKit, CloseBuilder, LanguageChanges, AnswerArrives, PromoteStep, DeleteCommand, OtherTabEdits,
             SaveForm, CopyOrEdit, DeleteKit, ChooseKit, OpenBuilder, commandVars
    <2> QED BY <2>2, <2>3, <2>4 DEF CommandNext
  <1> QED BY <1>1, <1>2

\* However answers, other tabs and the shell change what the tools know: an insertion
\* never runs a command, a promoted step is the one that is replaced, and the command
\* set on the screen is the one that is sent (session-command-launcher.js,
\* command-library.js, connection-command-manager.js).
THEOREM CommandsAreSafe == CommandSpec => []CommandsSafe
  <1>1. CommandInit => CommandInv
    <2> SUFFICES ASSUME CommandInit PROVE CommandInv
      OBVIOUS
    <2>1. AnswersInv
      <3>1. <<>> \in Seq({}) /\ answers = <<>>
        BY DEF CommandInit
      <3> QED BY <3>1 DEF AnswersInv
    <2>2. FormInv
      BY DEF CommandInit, FormInv, FormRecord
    <2>3. AddsInv
      BY DEF CommandInit, AddsInv
    <2> QED BY <2>1, <2>2, <2>3 DEF CommandInit, CommandInv, StartInv, InsertedInv
  <1>2. CommandInv /\ [CommandNext]_commandVars => CommandInv'
    BY AnswersKept, AddsKept, FormKept, ChoiceKept DEF CommandInv
  <1>3. CommandInv => CommandsSafe
    BY DEF CommandInv, FormInv, StartInv, InsertedInv, CommandsSafe, NeverRunsUnasked, PromotesItsStep,
           ShownSetIsSent
  <1> QED BY <1>1, <1>2, <1>3, PTL DEF CommandSpec

----------------------------------------------------------------------------
(* Terminal input.                                                         *)

InputSpec == SshInputInit /\ [][SshInputNext]_inputVars

InputJob == [send : Nat, pieces : Nat]
InputState == [piece : Nat, id : Nat, retries : Nat, pausing : BOOLEAN]
InputMessage == [to : Consoles, send : Nat, piece : Nat, id : Nat]
InputAck == [to : Consoles, id : Nat, result : {"ok", "limited", "refused"}]

InputTypes ==
    /\ queues \in [Consoles -> Seq(InputJob)]
    /\ current \in [Consoles -> InputState]
    /\ inputWire \in Seq(InputMessage)
    /\ ackWire \in Seq(InputAck)
    /\ received \in [Consoles -> Seq(Nat \X Nat)]
    /\ sends \in Nat /\ emits \in Nat
    /\ \A e \in abandoned : e[2] \in 0 .. sends

\* The send that transmit is busy with, and those that wait behind it.
Busy(x) == queues[x] # <<>>
First(x) == queues[x][1].send
Behind(x, n) == \E k \in DOMAIN queues[x] : k > 1 /\ queues[x][k].send = n

\* The shell was given piece p of send n; the piece before it was the last it was given.
Given(x, n, p) == \E k \in DOMAIN received[x] : received[x][k] = <<n, p>>
LastGiven(x, n, p) == received[x] # <<>> /\ received[x][Len(received[x])] = <<n, p>>
Follows(x, n, p) == LastGiven(x, n, p - 1)

\* Nothing is on its way to the shell, and the current piece may be sent.
Quiet(x) == \A i \in DOMAIN inputWire : inputWire[i].to # x
Ready(x) == /\ current[x].piece > 1 => Follows(x, First(x), current[x].piece)
            /\ ~Given(x, First(x), current[x].piece)

QueueInv(x) ==
    /\ \A k \in DOMAIN queues[x] : /\ queues[x][k].send \in 1 .. sends
                                   /\ <<x, queues[x][k].send>> \notin abandoned
    /\ \A k, l \in DOMAIN queues[x] : k # l => queues[x][k].send # queues[x][l].send
    /\ Busy(x) => current[x].piece >= 1 /\ current[x].id \in 1 .. emits
    /\ current[x].pausing => Busy(x) /\ Quiet(x) /\ Ready(x)

\* A message to the shell: a later piece is the first on its way and follows what the
\* shell was given last; no other message is of the same send.
MessageInv(x, i) ==
    LET m == inputWire[i] IN
    /\ m.piece >= 1 /\ m.send \in 1 .. sends /\ m.id =< emits
    /\ m.piece > 1 => Follows(x, m.send, m.piece) /\ \A j \in DOMAIN inputWire : j < i => inputWire[j].to # x
    /\ ~Given(x, m.send, m.piece)
    /\ <<x, m.send>> \notin abandoned
    /\ \A j \in DOMAIN inputWire : j # i /\ inputWire[j].to = x => inputWire[j].send # m.send
    /\ Busy(x) => ~Behind(x, m.send) /\ (m.send = First(x) <=> m.id = current[x].id)
    /\ Busy(x) /\ m.send = First(x) => m.piece = current[x].piece /\ \A j \in DOMAIN inputWire : j > i => inputWire[j].to # x

WireInv(x) == \A i \in DOMAIN inputWire : inputWire[i].to = x => MessageInv(x, i)

\* What the shell was given.
ReceivedInv(x) ==
    /\ \A i \in DOMAIN received[x] :
         /\ received[x][i][1] \in 1 .. sends /\ received[x][i][2] >= 1
         /\ received[x][i][2] > 1 => i > 1 /\ received[x][i - 1] = <<received[x][i][1], received[x][i][2] - 1>>
         /\ <<x, received[x][i][1]>> \notin abandoned
         /\ Busy(x) => ~Behind(x, received[x][i][1])
                       /\ (received[x][i][1] = First(x) => received[x][i][2] =< current[x].piece)
    /\ \A i, j \in DOMAIN received[x] : i # j => received[x][i] # received[x][j]

\* The acknowledgement that is waited for says what became of the piece.
AckInv(x) ==
    \A i \in DOMAIN ackWire : ackWire[i].to = x =>
        /\ ackWire[i].id \in 1 .. emits
        /\ Busy(x) /\ ~current[x].pausing /\ ackWire[i].id = current[x].id =>
             /\ Quiet(x)
             /\ IF ackWire[i].result = "ok" THEN LastGiven(x, First(x), current[x].piece) ELSE Ready(x)

ConsoleInv(x) == QueueInv(x) /\ WireInv(x) /\ ReceivedInv(x) /\ AckInv(x)

InputInv == InputTypes /\ \A x \in Consoles : ConsoleInv(x)


\* Nothing that the shell will be given, or was given, of a console is new.
NothingNew(x, d) ==
    /\ queues'[x] = queues[x] /\ current'[x] = current[x] /\ received'[x] = received[x]
    /\ sends' >= sends /\ emits' >= emits
    /\ \A n \in Nat : <<x, n>> \in abandoned' => <<x, n>> \in abandoned
    /\ \A i \in DOMAIN inputWire' : inputWire'[i].to = x => i + d \in DOMAIN inputWire /\ inputWire[i + d] = inputWire'[i]
    /\ \A i \in DOMAIN ackWire' : ackWire'[i].to = x => \E j \in DOMAIN ackWire : ackWire[j] = ackWire'[i]

\* A step that is about another console leaves what is known of this one.
LEMMA OthersKeep ==
    ASSUME InputTypes, InputTypes', NEW x \in Consoles, NEW d \in Nat, NothingNew(x, d), ConsoleInv(x)
    PROVE  ConsoleInv(x)'
<1>a. queues'[x] = queues[x] /\ current'[x] = current[x] /\ received'[x] = received[x]
    BY DEF NothingNew
<1>b. sends' >= sends /\ emits' >= emits
    BY DEF NothingNew
<1>c. \A n \in Nat : <<x, n>> \in abandoned' => <<x, n>> \in abandoned
    BY DEF NothingNew
<1>w. \A i \in DOMAIN inputWire' : inputWire'[i].to = x => i + d \in DOMAIN inputWire /\ inputWire[i + d] = inputWire'[i]
    BY DEF NothingNew
<1>k. \A i \in DOMAIN ackWire' : ackWire'[i].to = x => \E j \in DOMAIN ackWire : ackWire[j] = ackWire'[i]
    BY DEF NothingNew
<1>1. Quiet(x) => Quiet(x)'
    BY <1>w DEF Quiet
<1>2. /\ Busy(x)' <=> Busy(x)
      /\ First(x)' = First(x)
      /\ \A n \in Nat : Behind(x, n)' <=> Behind(x, n)
      /\ \A n, p \in Nat : Given(x, n, p)' <=> Given(x, n, p)
      /\ \A n, p \in Nat : Follows(x, n, p)' <=> Follows(x, n, p)
      /\ Ready(x)' <=> Ready(x)
    BY <1>a DEF Busy, First, Behind, Given, Follows, LastGiven, Ready
<1>t. /\ sends \in Nat /\ sends' \in Nat /\ emits \in Nat /\ emits' \in Nat
      /\ current[x] \in InputState /\ queues[x] \in Seq(InputJob) /\ received[x] \in Seq(Nat \X Nat)
      /\ inputWire \in Seq(InputMessage) /\ inputWire' \in Seq(InputMessage)
      /\ ackWire \in Seq(InputAck) /\ ackWire' \in Seq(InputAck)
    BY DEF InputTypes
<1>3. QueueInv(x)'
  <2>0. QueueInv(x)
      BY DEF ConsoleInv
  <2>1. \A k \in DOMAIN queues'[x] : /\ queues'[x][k].send \in 1 .. sends'
                                     /\ <<x, queues'[x][k].send>> \notin abandoned'
    <3> SUFFICES ASSUME NEW k \in DOMAIN queues[x]
                 PROVE  queues[x][k].send \in 1 .. sends' /\ <<x, queues[x][k].send>> \notin abandoned'
        BY <1>a
    <3>0. queues[x][k] \in InputJob
        BY <1>t
    <3>1. queues[x][k].send \in Nat
        BY <3>0 DEF InputJob
    <3>2. queues[x][k].send \in 1 .. sends /\ <<x, queues[x][k].send>> \notin abandoned
        BY <2>0 DEF QueueInv
    <3> QED  BY <3>1, <3>2, <1>t, <1>b, <1>c
  <2>2. \A k, l \in DOMAIN queues'[x] : k # l => queues'[x][k].send # queues'[x][l].send
      BY <2>0, <1>a DEF QueueInv
  <2>3. Busy(x)' => current'[x].piece >= 1 /\ current'[x].id \in 1 .. emits'
      BY <2>0, <1>2, <1>t, <1>a, <1>b DEF QueueInv, InputState
  <2>4. current'[x].pausing => Busy(x)' /\ Quiet(x)' /\ Ready(x)'
      BY <2>0, <1>1, <1>2, <1>a DEF QueueInv
  <2> QED  BY <2>1, <2>2, <2>3, <2>4 DEF QueueInv
<1>4. ReceivedInv(x)'
  <2>1. \A i \in DOMAIN received[x] : received[x][i][1] \in Nat /\ received[x][i][2] \in Nat
    <3>1. \A i \in DOMAIN received[x] : received[x][i] \in Nat \X Nat
        BY <1>t
    <3> QED  BY <3>1
  <2>2. ReceivedInv(x)
      BY DEF ConsoleInv
  <2>3. ASSUME NEW i \in DOMAIN received[x]
        PROVE  /\ received'[x][i][1] \in 1 .. sends' /\ received'[x][i][2] >= 1
               /\ received'[x][i][2] > 1 => i > 1 /\ received'[x][i - 1] = <<received'[x][i][1], received'[x][i][2] - 1>>
               /\ <<x, received'[x][i][1]>> \notin abandoned'
               /\ Busy(x)' => ~Behind(x, received[x][i][1])'
                              /\ (received'[x][i][1] = First(x)' => received'[x][i][2] =< current'[x].piece)
    <3>1. received'[x][i][1] \in 1 .. sends' /\ received'[x][i][2] >= 1
      <4>1. received[x][i][1] \in 1 .. sends /\ received[x][i][2] >= 1
          BY <2>2 DEF ReceivedInv
      <4>2. sends \in Nat /\ sends' \in Nat
          BY <1>t
      <4> QED  BY <4>1, <4>2, <2>1, <1>a, <1>b
    <3>2. <<x, received'[x][i][1]>> \notin abandoned'
        BY <2>1, <2>2, <1>a, <1>c DEF ReceivedInv
    <3>3. Behind(x, received[x][i][1])' <=> Behind(x, received[x][i][1])
        BY <1>a DEF Behind
    <3>4. Busy(x)' => ~Behind(x, received[x][i][1])'
                              /\ (received'[x][i][1] = First(x)' => received'[x][i][2] =< current'[x].piece)
        BY <3>3, <2>2, <1>2, <1>a DEF ReceivedInv
    <3>5. received'[x][i][2] > 1 => i > 1 /\ received'[x][i - 1] = <<received'[x][i][1], received'[x][i][2] - 1>>
        BY <2>2, <1>a DEF ReceivedInv
    <3> QED  BY <3>1, <3>2, <3>4, <3>5
  <2>4. \A i, j \in DOMAIN received'[x] : i # j => received'[x][i] # received'[x][j]
      BY <2>2, <1>a DEF ReceivedInv
  <2> QED  BY <2>3, <2>4, <1>a DEF ReceivedInv
<1>5. AckInv(x)'
  <2> SUFFICES ASSUME NEW i \in DOMAIN ackWire', ackWire'[i].to = x
               PROVE  /\ ackWire'[i].id \in 1 .. emits'
                      /\ Busy(x)' /\ ~current'[x].pausing /\ ackWire'[i].id = current'[x].id =>
                           /\ Quiet(x)'
                           /\ IF ackWire'[i].result = "ok" THEN LastGiven(x, First(x), current[x].piece)' ELSE Ready(x)'
      BY DEF AckInv
  <2>1. PICK j \in DOMAIN ackWire : ackWire[j] = ackWire'[i]
      BY <1>k
  <2>2. LastGiven(x, First(x), current[x].piece)' <=> LastGiven(x, First(x), current[x].piece)
      BY <1>a DEF Follows, LastGiven, First
  <2> QED  BY <1>1, <1>2, <1>t, <1>a, <1>b, <2>1, <2>2 DEF ConsoleInv, AckInv
<1>6. WireInv(x)'
  <2> SUFFICES ASSUME NEW i \in DOMAIN inputWire', inputWire'[i].to = x
               PROVE  MessageInv(x, i)'
      BY DEF WireInv
  <2>1. /\ i \in Nat /\ i + d \in DOMAIN inputWire /\ inputWire[i + d] = inputWire'[i]
        /\ inputWire'[i] \in InputMessage
      BY <1>t, <1>w
  <2>2. MessageInv(x, i + d)
      BY <2>1 DEF ConsoleInv, WireInv
  <2>3. \A j \in DOMAIN inputWire' : inputWire'[j].to = x =>
          j \in Nat /\ j + d \in DOMAIN inputWire /\ inputWire[j + d] = inputWire'[j]
      BY <1>t, <1>w
  <2>4. \A j \in DOMAIN inputWire' : j # i /\ inputWire'[j].to = x => inputWire'[j].send # inputWire'[i].send
      BY <2>1, <2>2, <2>3 DEF MessageInv
  <2>5. inputWire'[i].piece > 1 => Follows(x, inputWire'[i].send, inputWire'[i].piece) /\ \A j \in DOMAIN inputWire' : j < i => inputWire'[j].to # x
      BY <2>1, <2>2, <2>3 DEF MessageInv
  <2>6. Busy(x) /\ inputWire'[i].send = First(x) => inputWire'[i].piece = current[x].piece /\ \A j \in DOMAIN inputWire' : j > i => inputWire'[j].to # x
      BY <2>1, <2>2, <2>3 DEF MessageInv
  <2>7. /\ inputWire'[i].piece >= 1 /\ inputWire'[i].send \in 1 .. sends' /\ inputWire'[i].id =< emits'
        /\ ~Given(x, inputWire'[i].send, inputWire'[i].piece)
        /\ <<x, inputWire'[i].send>> \notin abandoned'
        /\ Busy(x) => ~Behind(x, inputWire'[i].send) /\ (inputWire'[i].send = First(x) <=> inputWire'[i].id = current[x].id)
    <3>1. inputWire'[i].send \in Nat /\ inputWire'[i].piece \in Nat /\ inputWire'[i].id \in Nat
        BY <2>1 DEF InputMessage
    <3>2. inputWire'[i].piece >= 1 /\ inputWire'[i].send \in 1 .. sends' /\ inputWire'[i].id =< emits'
      <4>1. inputWire'[i].piece >= 1 /\ inputWire'[i].send \in 1 .. sends /\ inputWire'[i].id =< emits
          BY <2>1, <2>2 DEF MessageInv
      <4> QED  BY <4>1, <3>1, <1>b, <1>t
    <3>3. <<x, inputWire'[i].send>> \notin abandoned'
        BY <2>1, <2>2, <3>1, <1>c DEF MessageInv
    <3>4. /\ ~Given(x, inputWire'[i].send, inputWire'[i].piece)
          /\ Busy(x) => ~Behind(x, inputWire'[i].send) /\ (inputWire'[i].send = First(x) <=> inputWire'[i].id = current[x].id)
        BY <2>1, <2>2 DEF MessageInv
    <3> QED  BY <3>2, <3>3, <3>4
  <2>8. inputWire'[i].send \in Nat /\ inputWire'[i].piece \in Nat
      BY <2>1 DEF InputMessage
  <2>9. /\ Given(x, inputWire[i].send, inputWire[i].piece)' <=> Given(x, inputWire'[i].send, inputWire'[i].piece)
        /\ Follows(x, inputWire[i].send, inputWire[i].piece)' <=> Follows(x, inputWire'[i].send, inputWire'[i].piece)
        /\ Behind(x, inputWire[i].send)' <=> Behind(x, inputWire'[i].send)
      BY <1>a DEF Given, Follows, LastGiven, Behind
  <2> QED  BY <1>2, <1>a, <2>4, <2>5, <2>6, <2>7, <2>8, <2>9 DEF MessageInv
<1> QED  BY <1>3, <1>4, <1>5, <1>6 DEF ConsoleInv

\* A message m to the console goes out, as the p-th on its way.
GoesOut(x, p, m) ==
    /\ p \in DOMAIN inputWire' /\ p > Len(inputWire) /\ inputWire'[p] = m
    /\ \A i \in DOMAIN inputWire' : inputWire'[i].to = x => i = p \/ (i \in DOMAIN inputWire /\ inputWire[i] = inputWire'[i])
    /\ received'[x] = received[x] /\ sends' >= sends /\ emits' >= emits
    /\ \A n \in Nat : <<x, n>> \in abandoned' => <<x, n>> \in abandoned
    /\ \A i \in DOMAIN ackWire' : ackWire'[i].to = x => \E j \in DOMAIN ackWire : ackWire[j] = ackWire'[i]

\* It may: it is new to the shell, and a later piece finds the one before it given.
MayGo(x, m) ==
    /\ m.piece >= 1 /\ m.send \in 1 .. sends' /\ m.id =< emits'
    /\ m.piece > 1 => Quiet(x) /\ Follows(x, m.send, m.piece)
    /\ ~Given(x, m.send, m.piece) /\ <<x, m.send>> \notin abandoned
    /\ \A i \in DOMAIN inputWire : inputWire[i].to = x => inputWire[i].send # m.send

\* The queue serves it first; what waits behind it was never sent.
Serves(x, m) ==
    /\ queues'[x][1].send = m.send /\ current'[x].id = m.id /\ m.id > emits /\ current'[x].piece = m.piece
    /\ \A i \in DOMAIN received[x] : received[x][i][1] = m.send => received[x][i][2] =< m.piece
    /\ \A k \in DOMAIN queues'[x] : k > 1 =>
         /\ \A i \in DOMAIN inputWire : inputWire[i].to = x => inputWire[i].send # queues'[x][k].send
         /\ \A i \in DOMAIN received[x] : received[x][i][1] # queues'[x][k].send

QueueOfMessage(x, m) ==
    /\ \A k \in DOMAIN queues'[x] : queues'[x][k].send \in 1 .. sends' /\ <<x, queues'[x][k].send>> \notin abandoned
    /\ \A k, l \in DOMAIN queues'[x] : k # l => queues'[x][k].send # queues'[x][l].send
    /\ current'[x].pausing = FALSE
    /\ queues'[x] # <<>> => Serves(x, m)

\* A message that goes out keeps the invariant of its console.
LEMMA MessageKeeps ==
    ASSUME InputTypes, InputTypes', NEW x \in Consoles, NEW p \in Nat, NEW m \in InputMessage, m.to = x,
           GoesOut(x, p, m), MayGo(x, m), QueueOfMessage(x, m), ConsoleInv(x)
    PROVE  ConsoleInv(x)'
<1>a. received'[x] = received[x] /\ sends' >= sends /\ emits' >= emits
    BY DEF GoesOut
<1>c. \A n \in Nat : <<x, n>> \in abandoned' => <<x, n>> \in abandoned
    BY DEF GoesOut
<1>w. \A i \in DOMAIN inputWire' : inputWire'[i].to = x => i = p \/ (i \in DOMAIN inputWire /\ inputWire[i] = inputWire'[i])
    BY DEF GoesOut
<1>p. p \in DOMAIN inputWire' /\ p > Len(inputWire) /\ inputWire'[p] = m
    BY DEF GoesOut
<1>k. \A i \in DOMAIN ackWire' : ackWire'[i].to = x => \E j \in DOMAIN ackWire : ackWire[j] = ackWire'[i]
    BY DEF GoesOut
<1>m. m.send \in Nat /\ m.piece \in Nat /\ m.id \in Nat
    BY DEF InputMessage
<1>n. sends \in Nat /\ sends' \in Nat /\ emits \in Nat /\ emits' \in Nat
    BY DEF InputTypes
<1>t. /\ current'[x] \in InputState /\ queues'[x] \in Seq(InputJob) /\ received[x] \in Seq(Nat \X Nat)
      /\ inputWire \in Seq(InputMessage) /\ inputWire' \in Seq(InputMessage)
      /\ ackWire \in Seq(InputAck) /\ ackWire' \in Seq(InputAck)
    BY DEF InputTypes
<1>s. Busy(x)' => Serves(x, m)
    BY DEF QueueOfMessage, Busy
<1>f. Busy(x)' => First(x)' = m.send
    BY <1>s DEF Serves, First
<1>3. QueueInv(x)'
  <2>1. ASSUME NEW k \in DOMAIN queues'[x]
        PROVE  queues'[x][k].send \in 1 .. sends' /\ <<x, queues'[x][k].send>> \notin abandoned'
    <3>0. queues'[x][k] \in InputJob
        BY <1>t
    <3>1. queues'[x][k].send \in Nat
        BY <3>0 DEF InputJob
    <3> QED  BY <3>1, <1>c DEF QueueOfMessage
  <2>2. \A k, l \in DOMAIN queues'[x] : k # l => queues'[x][k].send # queues'[x][l].send
      BY DEF QueueOfMessage
  <2>3. Busy(x)' => current'[x].piece >= 1 /\ current'[x].id \in 1 .. emits'
      BY <1>s, <1>m, <1>n DEF MayGo, Serves
  <2>4. current'[x].pausing = FALSE
      BY DEF QueueOfMessage
  <2> QED  BY <2>1, <2>2, <2>3, <2>4 DEF QueueInv
<1>4. ReceivedInv(x)'
  <2>1. \A i \in DOMAIN received[x] : received[x][i][1] \in Nat /\ received[x][i][2] \in Nat
    <3>1. \A i \in DOMAIN received[x] : received[x][i] \in Nat \X Nat
        BY <1>t
    <3> QED  BY <3>1
  <2>2. ReceivedInv(x)
      BY DEF ConsoleInv
  <2>3. ASSUME NEW i \in DOMAIN received[x]
        PROVE  /\ received'[x][i][1] \in 1 .. sends' /\ received'[x][i][2] >= 1
               /\ received'[x][i][2] > 1 => i > 1 /\ received'[x][i - 1] = <<received'[x][i][1], received'[x][i][2] - 1>>
               /\ <<x, received'[x][i][1]>> \notin abandoned'
               /\ Busy(x)' => ~Behind(x, received[x][i][1])'
                              /\ (received'[x][i][1] = First(x)' => received'[x][i][2] =< current'[x].piece)
    <3>1. received'[x][i][1] \in 1 .. sends' /\ received'[x][i][2] >= 1
      <4>1. received[x][i][1] \in 1 .. sends /\ received[x][i][2] >= 1
          BY <2>2 DEF ReceivedInv
      <4> QED  BY <4>1, <2>1, <1>a, <1>n
    <3>2. <<x, received'[x][i][1]>> \notin abandoned'
        BY <2>1, <2>2, <1>a, <1>c DEF ReceivedInv
    <3>3. Busy(x)' => ~Behind(x, received[x][i][1])'
        BY <1>s, <1>a DEF Serves, Behind
    <3>4. Busy(x)' => (received'[x][i][1] = First(x)' => received'[x][i][2] =< current'[x].piece)
        BY <1>s, <1>f, <1>a DEF Serves
    <3>5. received'[x][i][2] > 1 => i > 1 /\ received'[x][i - 1] = <<received'[x][i][1], received'[x][i][2] - 1>>
        BY <2>2, <1>a DEF ReceivedInv
    <3> QED  BY <3>1, <3>2, <3>3, <3>4, <3>5
  <2>4. \A i, j \in DOMAIN received'[x] : i # j => received'[x][i] # received'[x][j]
      BY <2>2, <1>a DEF ReceivedInv
  <2> QED  BY <2>3, <2>4, <1>a DEF ReceivedInv
<1>5. AckInv(x)'
  BY <1>k, <1>s, <1>m, <1>a, <1>n DEF AckInv, ConsoleInv, Serves
<1>6. WireInv(x)'
  <2> SUFFICES ASSUME NEW i \in DOMAIN inputWire', inputWire'[i].to = x
               PROVE  MessageInv(x, i)'
      BY DEF WireInv
  <2> DEFINE n == inputWire'[i]
  <2>n. n \in InputMessage /\ n.send \in Nat /\ n.piece \in Nat /\ n.id \in Nat
    <3>1. n \in InputMessage
        BY <1>t
    <3> QED  BY <3>1 DEF InputMessage
  <2>d. \A j \in DOMAIN inputWire : j \in 1 .. Len(inputWire)
      BY <1>t
  <2>l. Len(inputWire) \in Nat /\ DOMAIN inputWire' = 1 .. Len(inputWire') /\ Len(inputWire') \in Nat
      BY <1>t
  <2>1. CASE i = p
    <3>0. n = m
        BY <2>1, <1>p
    <3>1. n.piece >= 1 /\ n.send \in 1 .. sends' /\ n.id =< emits' /\ <<x, n.send>> \notin abandoned'
        BY <3>0, <1>m, <1>c DEF MayGo
    <3>2. n.piece > 1 => Follows(x, n.send, n.piece) /\ \A j \in DOMAIN inputWire' : j < i => inputWire'[j].to # x
        BY <3>0, <2>1, <1>w DEF MayGo, Quiet
    <3>3. \A j \in DOMAIN inputWire' : j # i /\ inputWire'[j].to = x => inputWire'[j].send # n.send
        BY <3>0, <2>1, <1>w DEF MayGo
    <3>4. Busy(x)' => /\ ~Behind(x, inputWire[i].send)' /\ n.send = First(x)' /\ n.id = current'[x].id
                      /\ n.piece = current'[x].piece
      BY <3>0, <1>s, <1>f, <1>t DEF Serves, Busy, QueueOfMessage, Behind, First
    <3>5. \A j \in DOMAIN inputWire' : j > i => inputWire'[j].to # x
        BY <2>1, <2>d, <2>l, <1>w, <1>p
    <3>6. /\ Given(x, inputWire[i].send, inputWire[i].piece)' <=> Given(x, n.send, n.piece)
          /\ Follows(x, inputWire[i].send, inputWire[i].piece)' <=> Follows(x, n.send, n.piece)
        BY <1>a DEF Given, Follows, LastGiven
    <3>7. ~Given(x, n.send, n.piece)
        BY <3>0 DEF MayGo
    <3> QED  BY <3>1, <3>2, <3>3, <3>4, <3>5, <3>6, <3>7 DEF MessageInv
  <2>2. CASE i # p
    <3>0. i \in DOMAIN inputWire /\ inputWire[i] = n
        BY <2>2, <1>w
    <3>m. MessageInv(x, i)
        BY <3>0 DEF ConsoleInv, WireInv
    <3>1. n.piece >= 1 /\ n.send \in 1 .. sends' /\ n.id =< emits /\ n.id =< emits'
      BY <3>0, <3>m, <2>n, <1>a, <1>n DEF MessageInv
    <3>8. <<x, n.send>> \notin abandoned' /\ ~Given(x, n.send, n.piece)
        BY <3>0, <3>m, <2>n, <1>c DEF MessageInv
    <3>2. n.piece > 1 => Follows(x, n.send, n.piece) /\ \A j \in DOMAIN inputWire' : j < i => inputWire'[j].to # x
      BY <3>0, <1>p, <2>d, <2>l, <3>m, <1>w DEF MessageInv
    <3>3. \A j \in DOMAIN inputWire' : j # i /\ inputWire'[j].to = x => inputWire'[j].send # n.send
      BY <3>0, <3>m, <1>w, <1>p DEF MayGo, MessageInv
    <3>4. Busy(x)' => /\ ~Behind(x, inputWire[i].send)' /\ n.send # First(x)' /\ n.id # current'[x].id
      BY <3>0, <1>f, <1>s, <3>1, <2>n, <1>m, <1>n DEF MayGo, Serves, Behind
    <3>6. /\ Given(x, inputWire[i].send, inputWire[i].piece)' <=> Given(x, n.send, n.piece)
          /\ Follows(x, inputWire[i].send, inputWire[i].piece)' <=> Follows(x, n.send, n.piece)
        BY <1>a DEF Given, Follows, LastGiven
    <3> QED  BY <3>1, <3>2, <3>3, <3>4, <3>6, <3>8 DEF MessageInv
  <2> QED  BY <2>1, <2>2
<1> QED  BY <1>3, <1>4, <1>5, <1>6 DEF ConsoleInv

\* Nothing more goes out to the console.
NoMessage(x) ==
    /\ received'[x] = received[x] /\ sends' >= sends /\ emits' >= emits
    /\ \A i \in DOMAIN inputWire' : inputWire'[i].to = x => i \in DOMAIN inputWire /\ inputWire[i] = inputWire'[i]
    /\ \A i \in DOMAIN ackWire' : ackWire'[i].to = x => \E j \in DOMAIN ackWire : ackWire[j] = ackWire'[i]

\* cancelQueue, and the end of the last send: the queue is gone, and what waited in it is given up.
LEMMA EmptyQueueKeeps ==
    ASSUME InputTypes, InputTypes', NEW x \in Consoles, NoMessage(x), ConsoleInv(x),
           queues'[x] = <<>>, current'[x].pausing = FALSE,
           \A n \in Nat : <<x, n>> \in abandoned' => <<x, n>> \in abandoned \/ Behind(x, n)
    PROVE  ConsoleInv(x)'
<1>a. received'[x] = received[x] /\ sends' >= sends /\ emits' >= emits
    BY DEF NoMessage
<1>n. sends \in Nat /\ sends' \in Nat /\ emits \in Nat /\ emits' \in Nat
    BY DEF InputTypes
<1>t. received[x] \in Seq(Nat \X Nat) /\ inputWire' \in Seq(InputMessage)
    BY DEF InputTypes
<1>b. ~Busy(x)'
    BY DEF Busy
<1>e. \A n \in Nat : Behind(x, n) => Busy(x)
    BY DEF Behind, Busy
<1>3. QueueInv(x)'
    BY <1>b DEF QueueInv
<1>4. ReceivedInv(x)'
  <2>1. \A i \in DOMAIN received[x] : received[x][i][1] \in Nat /\ received[x][i][2] \in Nat
    BY <1>t
  <2>2. ReceivedInv(x)
      BY DEF ConsoleInv
  <2>3. ASSUME NEW i \in DOMAIN received[x]
        PROVE  /\ received'[x][i][1] \in 1 .. sends' /\ received'[x][i][2] >= 1
               /\ received'[x][i][2] > 1 => i > 1 /\ received'[x][i - 1] = <<received'[x][i][1], received'[x][i][2] - 1>>
               /\ <<x, received'[x][i][1]>> \notin abandoned'
    <3>1. received'[x][i][1] \in 1 .. sends' /\ received'[x][i][2] >= 1
      <4>1. received[x][i][1] \in 1 .. sends /\ received[x][i][2] >= 1
          BY <2>2 DEF ReceivedInv
      <4> QED  BY <4>1, <2>1, <1>a, <1>n
    <3>2. <<x, received'[x][i][1]>> \notin abandoned'
        BY <2>1, <2>2, <1>a, <1>e DEF ReceivedInv
    <3>5. received'[x][i][2] > 1 => i > 1 /\ received'[x][i - 1] = <<received'[x][i][1], received'[x][i][2] - 1>>
        BY <2>2, <1>a DEF ReceivedInv
    <3> QED  BY <3>1, <3>2, <3>5
  <2>4. \A i, j \in DOMAIN received'[x] : i # j => received'[x][i] # received'[x][j]
      BY <2>2, <1>a DEF ReceivedInv
  <2> QED  BY <2>3, <2>4, <1>a, <1>b DEF ReceivedInv
<1>5. AckInv(x)'
  BY <1>b, <1>a, <1>n DEF AckInv, NoMessage, ConsoleInv
<1>6. WireInv(x)'
  <2> SUFFICES ASSUME NEW i \in DOMAIN inputWire', inputWire'[i].to = x
               PROVE  MessageInv(x, i)'
      BY DEF WireInv
  <2> DEFINE n == inputWire'[i]
  <2>n. n \in InputMessage /\ n.send \in Nat /\ n.piece \in Nat /\ n.id \in Nat
    <3>1. n \in InputMessage
        BY <1>t
    <3> QED  BY <3>1 DEF InputMessage
  <2>0. i \in DOMAIN inputWire /\ inputWire[i] = n
      BY DEF NoMessage
  <2>m. MessageInv(x, i)
      BY <2>0 DEF ConsoleInv, WireInv
  <2>1. n.piece >= 1 /\ n.send \in 1 .. sends' /\ n.id =< emits'
    BY <2>0, <2>m, <2>n, <1>a, <1>n DEF MessageInv
  <2>2. <<x, n.send>> \notin abandoned' /\ ~Given(x, n.send, n.piece)
      BY <2>0, <2>m, <2>n, <1>e DEF MessageInv
  <2>3. n.piece > 1 => Follows(x, n.send, n.piece) /\ \A j \in DOMAIN inputWire' : j < i => inputWire'[j].to # x
      BY <2>0, <2>m DEF MessageInv, NoMessage
  <2>4. \A j \in DOMAIN inputWire' : j # i /\ inputWire'[j].to = x => inputWire'[j].send # n.send
      BY <2>0, <2>m DEF MessageInv, NoMessage
  <2>6. /\ Given(x, inputWire[i].send, inputWire[i].piece)' <=> Given(x, n.send, n.piece)
        /\ Follows(x, inputWire[i].send, inputWire[i].piece)' <=> Follows(x, n.send, n.piece)
      BY <1>a DEF Given, Follows, LastGiven
  <2> QED  BY <1>b, <2>1, <2>2, <2>3, <2>4, <2>6 DEF MessageInv
<1> QED  BY <1>3, <1>4, <1>5, <1>6 DEF ConsoleInv

\* The queue as it was, and perhaps one more send, which is new, at its end; a pause begins only
\* when nothing is on its way and the current piece may be sent again.
LEMMA LongerQueueKeeps ==
    ASSUME InputTypes, InputTypes', NEW x \in Consoles, NoMessage(x), ConsoleInv(x), Busy(x),
           \A n \in Nat : <<x, n>> \in abandoned' => <<x, n>> \in abandoned,
           \A e \in abandoned : e[2] =< sends,
           Len(queues'[x]) >= Len(queues[x]),
           \A k \in DOMAIN queues'[x] : \/ k \in DOMAIN queues[x] /\ queues'[x][k] = queues[x][k]
                                        \/ k = Len(queues[x]) + 1 /\ queues'[x][k].send = sends + 1 /\ sends' = sends + 1,
           current'[x].piece = current[x].piece, current'[x].id = current[x].id,
           current'[x].pausing => current[x].pausing \/ (Quiet(x) /\ Ready(x)),
           current[x].pausing => current'[x].pausing
    PROVE  ConsoleInv(x)'
<1>a. received'[x] = received[x] /\ sends' >= sends /\ emits' >= emits
    BY DEF NoMessage
<1>n. sends \in Nat /\ sends' \in Nat /\ emits \in Nat /\ emits' \in Nat
    BY DEF InputTypes
<1>t. received[x] \in Seq(Nat \X Nat) /\ inputWire' \in Seq(InputMessage)
    BY DEF InputTypes
<1>s. queues[x] \in Seq(InputJob) /\ queues'[x] \in Seq(InputJob)
    BY DEF InputTypes
<1>c. current[x].piece \in Nat /\ current[x].id \in Nat
  <2>1. current[x] \in InputState
      BY DEF InputTypes
  <2> QED  BY <2>1 DEF InputState
<1>l. /\ Len(queues[x]) \in Nat /\ Len(queues'[x]) \in Nat /\ Len(queues[x]) >= 1
      /\ DOMAIN queues[x] = 1 .. Len(queues[x]) /\ DOMAIN queues'[x] = 1 .. Len(queues'[x])
    BY <1>s DEF Busy
<1>q. QueueInv(x)
    BY DEF ConsoleInv
<1>j. \A k \in DOMAIN queues[x] : queues[x][k].send \in 1 .. sends /\ queues[x][k].send # sends + 1
  <2> SUFFICES ASSUME NEW k \in DOMAIN queues[x]
               PROVE  queues[x][k].send \in 1 .. sends /\ queues[x][k].send # sends + 1
      OBVIOUS
  <2>1. queues[x][k].send \in 1 .. sends
      BY <1>q DEF QueueInv
  <2> QED  BY <2>1, <1>n
<1>b. Busy(x)' /\ First(x)' = First(x)
  BY <1>l, <1>s DEF Busy, First
<1>h. \A n \in Nat : n =< sends /\ ~Behind(x, n) => \A k \in DOMAIN queues'[x] : k > 1 => queues'[x][k].send # n
    BY <1>n DEF Behind
<1>u. Quiet(x) => Quiet(x)'
    BY DEF Quiet, NoMessage
<1>g. /\ \A n, p \in Nat : Given(x, n, p)' <=> Given(x, n, p)
      /\ \A n, p \in Nat : Follows(x, n, p)' <=> Follows(x, n, p)
    BY <1>a DEF Given, Follows, LastGiven
<1>f. First(x) \in Nat
  <2>1. queues[x][1] \in InputJob
      BY <1>s, <1>l
  <2> QED  BY <2>1 DEF First, InputJob
<1>r. Ready(x)' <=> Ready(x)
    BY <1>b, <1>f, <1>c, <1>g DEF Ready
<1>3. QueueInv(x)'
  <2>1. ASSUME NEW k \in DOMAIN queues'[x]
        PROVE  queues'[x][k].send \in 1 .. sends' /\ <<x, queues'[x][k].send>> \notin abandoned'
    <3>0. queues'[x][k] \in InputJob
        BY <1>s
    <3>1. queues'[x][k].send \in Nat
        BY <3>0 DEF InputJob
    <3>2. CASE k \in DOMAIN queues[x] /\ queues'[x][k] = queues[x][k]
      <4>1. queues[x][k].send \in 1 .. sends /\ <<x, queues[x][k].send>> \notin abandoned
          BY <3>2, <1>q DEF QueueInv
      <4> QED  BY <4>1, <3>1, <3>2, <1>a, <1>n
    <3>3. CASE queues'[x][k].send = sends + 1 /\ sends' = sends + 1
      BY <1>n, <3>3
    <3> QED  BY <3>2, <3>3
  <2>2. \A k, l \in DOMAIN queues'[x] : k # l => queues'[x][k].send # queues'[x][l].send
      BY <1>q, <1>j DEF QueueInv
  <2>3. current'[x].piece >= 1 /\ current'[x].id \in 1 .. emits'
    BY <1>q, <1>a, <1>c, <1>n DEF QueueInv
  <2>4. current'[x].pausing => Quiet(x)' /\ Ready(x)'
      BY <1>q, <1>u, <1>r DEF QueueInv
  <2> QED  BY <1>b, <2>1, <2>2, <2>3, <2>4 DEF QueueInv
<1>4. ReceivedInv(x)'
  <2>1. \A i \in DOMAIN received[x] : received[x][i][1] \in Nat /\ received[x][i][2] \in Nat
    BY <1>t
  <2>2. ReceivedInv(x)
      BY DEF ConsoleInv
  <2>3. ASSUME NEW i \in DOMAIN received[x]
        PROVE  /\ received'[x][i][1] \in 1 .. sends' /\ received'[x][i][2] >= 1
               /\ received'[x][i][2] > 1 => i > 1 /\ received'[x][i - 1] = <<received'[x][i][1], received'[x][i][2] - 1>>
               /\ <<x, received'[x][i][1]>> \notin abandoned'
               /\ ~Behind(x, received[x][i][1])'
               /\ received'[x][i][1] = First(x)' => received'[x][i][2] =< current'[x].piece
    <3>0. received[x][i][1] \in 1 .. sends /\ received[x][i][2] >= 1
        BY <2>2 DEF ReceivedInv
    <3>1. received'[x][i][1] \in 1 .. sends' /\ received'[x][i][2] >= 1
        BY <3>0, <2>1, <1>a, <1>n
    <3>2. <<x, received'[x][i][1]>> \notin abandoned'
        BY <2>1, <2>2, <1>a DEF ReceivedInv
    <3>3. ~Behind(x, received[x][i][1])'
      <4>1. ~Behind(x, received[x][i][1])
          BY <2>2 DEF ReceivedInv
      <4>2. received[x][i][1] \in Nat /\ received[x][i][1] =< sends
          BY <3>0, <1>n
      <4>3. \A k \in DOMAIN queues'[x] : k > 1 => queues'[x][k].send # received'[x][i][1]
          BY <4>1, <4>2, <1>h, <1>a
      <4> QED  BY <4>3 DEF Behind
    <3>4. received'[x][i][1] = First(x)' => received'[x][i][2] =< current'[x].piece
        BY <1>b, <1>a, <2>2 DEF ReceivedInv
    <3>5. received'[x][i][2] > 1 => i > 1 /\ received'[x][i - 1] = <<received'[x][i][1], received'[x][i][2] - 1>>
        BY <2>2, <1>a DEF ReceivedInv
    <3> QED  BY <3>1, <3>2, <3>3, <3>4, <3>5
  <2>4. \A i, j \in DOMAIN received'[x] : i # j => received'[x][i] # received'[x][j]
      BY <2>2, <1>a DEF ReceivedInv
  <2> QED  BY <2>3, <2>4, <1>a DEF ReceivedInv
<1>5. AckInv(x)'
  BY <1>a, <1>n, <1>b, <1>u, <1>r DEF AckInv, NoMessage, ConsoleInv, Follows, LastGiven
<1>6. WireInv(x)'
  <2> SUFFICES ASSUME NEW i \in DOMAIN inputWire', inputWire'[i].to = x
               PROVE  MessageInv(x, i)'
      BY DEF WireInv
  <2> DEFINE n == inputWire'[i]
  <2>n. n \in InputMessage /\ n.send \in Nat /\ n.piece \in Nat /\ n.id \in Nat
    <3>1. n \in InputMessage
        BY <1>t
    <3> QED  BY <3>1 DEF InputMessage
  <2>0. i \in DOMAIN inputWire /\ inputWire[i] = n
      BY DEF NoMessage
  <2>m. MessageInv(x, i)
      BY <2>0 DEF ConsoleInv, WireInv
  <2>s. n.piece >= 1 /\ n.send \in 1 .. sends /\ n.id =< emits
        BY <2>0, <2>m DEF MessageInv
  <2>1. n.piece >= 1 /\ n.send \in 1 .. sends' /\ n.id =< emits'
      BY <2>s, <2>n, <1>a, <1>n
  <2>2. <<x, n.send>> \notin abandoned' /\ ~Given(x, n.send, n.piece)
      BY <2>0, <2>m, <2>n DEF MessageInv
  <2>3. n.piece > 1 => Follows(x, n.send, n.piece) /\ \A j \in DOMAIN inputWire' : j < i => inputWire'[j].to # x
      BY <2>0, <2>m DEF MessageInv, NoMessage
  <2>4. \A j \in DOMAIN inputWire' : j # i /\ inputWire'[j].to = x => inputWire'[j].send # n.send
      BY <2>0, <2>m DEF MessageInv, NoMessage
  <2>5. /\ n.send = First(x)' <=> n.id = current'[x].id
        /\ n.send = First(x)' => n.piece = current'[x].piece /\ \A j \in DOMAIN inputWire' : j > i => inputWire'[j].to # x
      BY <2>0, <2>m, <1>b DEF MessageInv, NoMessage
  <2>6. /\ Given(x, inputWire[i].send, inputWire[i].piece)' <=> Given(x, n.send, n.piece)
        /\ Follows(x, inputWire[i].send, inputWire[i].piece)' <=> Follows(x, n.send, n.piece)
      BY <1>a DEF Given, Follows, LastGiven
  <2>7. ~Behind(x, inputWire[i].send)'
    BY <2>0, <2>m, <2>s, <1>n, <1>h DEF MessageInv, Behind
  <2> QED  BY <2>1, <2>2, <2>3, <2>4, <2>5, <2>6, <2>7 DEF MessageInv
<1> QED  BY <1>3, <1>4, <1>5, <1>6 DEF ConsoleInv

\* The first message on its way is given to its shell, or is not, and answered.
LEMMA ArrivalKeeps ==
    ASSUME InputTypes, InputTypes', NEW x \in Consoles, ConsoleInv(x),
           NEW r \in {"ok", "limited", "refused"}, HandleInput(r), Head(inputWire).to = x
    PROVE  ConsoleInv(x)'
<1> DEFINE m == Head(inputWire)
<1>n. sends \in Nat /\ emits \in Nat
    BY DEF InputTypes
<1>s. queues[x] \in Seq(InputJob)
    BY DEF InputTypes
<1>t. received[x] \in Seq(Nat \X Nat)
    BY DEF InputTypes
<1>w. inputWire \in Seq(InputMessage) /\ inputWire # <<>>
    BY DEF InputTypes, HandleInput
<1>k. ackWire \in Seq(InputAck)
    BY DEF InputTypes
<1>u. /\ queues' = queues /\ current' = current /\ abandoned' = abandoned /\ sends' = sends /\ emits' = emits
      /\ inputWire' = Tail(inputWire)
    BY DEF HandleInput
<1>o. received' = IF r = "ok" THEN [received EXCEPT ![m.to] = Append(@, <<m.send, m.piece>>)] ELSE received
    BY DEF HandleInput
<1>v. ackWire' = IF m.id = 0 THEN ackWire ELSE Append(ackWire, [to |-> m.to, id |-> m.id, result |-> r])
    BY DEF HandleInput
<1>1. 1 \in DOMAIN inputWire /\ inputWire[1] = m /\ m \in InputMessage
    BY <1>w
<1>m. m.send \in Nat /\ m.piece \in Nat /\ m.id \in Nat
    BY <1>1 DEF InputMessage
<1>i. MessageInv(x, 1)
    BY <1>1 DEF ConsoleInv, WireInv
<1>x. received'[x] = IF r = "ok" THEN Append(received[x], <<m.send, m.piece>>) ELSE received[x]
    BY <1>o DEF InputTypes
<1>2. \A i \in DOMAIN inputWire' : /\ i \in Nat /\ i >= 1 /\ i + 1 \in DOMAIN inputWire
                                   /\ inputWire'[i] = inputWire[i + 1] /\ inputWire'[i] \in InputMessage
  BY <1>w, <1>u
<1>q. ~Quiet(x)
    BY <1>1 DEF Quiet
<1>p. ~current[x].pausing
    BY <1>q DEF ConsoleInv, QueueInv
<1>b. Busy(x)' <=> Busy(x)
    BY <1>u DEF Busy
<1>f. First(x)' = First(x)
    BY <1>u DEF First
<1>g. \A n, p \in Nat : Given(x, n, p)' => Given(x, n, p) \/ (n = m.send /\ p = m.piece)
  <2> SUFFICES ASSUME NEW n \in Nat, NEW p \in Nat, NEW k \in DOMAIN received'[x], received'[x][k] = <<n, p>>
               PROVE  Given(x, n, p) \/ (n = m.send /\ p = m.piece)
      BY DEF Given
  <2>1. CASE r = "ok"
    <3>1. received'[x] = Append(received[x], <<m.send, m.piece>>)
        BY <2>1, <1>x
    <3>2. CASE k \in DOMAIN received[x]
      <4>1. received[x][k] = <<n, p>>
          BY <3>1, <3>2, <1>t
      <4> QED  BY <4>1, <3>2 DEF Given
    <3>3. CASE k \notin DOMAIN received[x]
      BY <3>1, <3>3, <1>t
    <3> QED  BY <3>2, <3>3
  <2>2. CASE r # "ok"
      BY <2>2, <1>x DEF Given
  <2> QED  BY <2>1, <2>2
<1>3. QueueInv(x)'
  <2>1. QueueInv(x)
      BY DEF ConsoleInv
  <2> QED  BY <2>1, <1>u, <1>b, <1>p DEF QueueInv
<1>4. ReceivedInv(x)'
  <2>1. ReceivedInv(x)
      BY DEF ConsoleInv
  <2>2. CASE r # "ok"
    BY <2>2, <1>x, <1>u, <2>1, <1>b, <1>f DEF Behind, ReceivedInv
  <2>3. CASE r = "ok"
    <3> DEFINE z == Len(received[x]) + 1
    <3>1. /\ Len(received[x]) \in Nat /\ DOMAIN received[x] = 1 .. Len(received[x]) /\ DOMAIN received'[x] = 1 .. z
          /\ received'[x][z] = <<m.send, m.piece>> /\ \A i \in 1 .. Len(received[x]) : received'[x][i] = received[x][i]
        BY <2>3, <1>x, <1>t
    <3>i. \A i \in DOMAIN received'[x] : i = z \/ (i \in DOMAIN received[x] /\ i # z)
        BY <3>1
    <3>2. ASSUME NEW i \in DOMAIN received'[x]
          PROVE  /\ received'[x][i][1] \in 1 .. sends' /\ received'[x][i][2] >= 1
                 /\ received'[x][i][2] > 1 => i > 1 /\ received'[x][i - 1] = <<received'[x][i][1], received'[x][i][2] - 1>>
                 /\ <<x, received'[x][i][1]>> \notin abandoned'
                 /\ Busy(x)' => ~Behind(x, received[x][i][1])'
                              /\ (received'[x][i][1] = First(x)' => received'[x][i][2] =< current'[x].piece)
      <4>1. CASE i = z
        <5>0. received'[x][i] = <<m.send, m.piece>>
            BY <4>1, <3>1
        <5>1. received'[x][i][1] = m.send /\ received'[x][i][2] = m.piece
            BY <5>0
        <5>2. /\ m.send \in 1 .. sends' /\ m.piece >= 1 /\ <<x, m.send>> \notin abandoned'
              /\ Busy(x) => ~Behind(x, m.send) /\ (m.send = First(x) => m.piece =< current'[x].piece)
              /\ m.piece > 1 => Follows(x, m.send, m.piece)
            BY <1>i, <1>1, <1>u, <1>m DEF MessageInv
        <5>3. m.piece > 1 => i > 1 /\ received'[x][i - 1] = <<m.send, m.piece - 1>>
          <6>1. m.piece > 1 => received[x] # <<>> /\ received[x][Len(received[x])] = <<m.send, m.piece - 1>>
              BY <5>2 DEF Follows, LastGiven
          <6>2. received[x] # <<>> => Len(received[x]) >= 1
              BY <1>t
          <6> QED  BY <6>1, <6>2, <4>1, <3>1
        <5>4. Behind(x, received[x][i][1])' <=> Behind(x, m.send)
            BY <5>1, <1>u DEF Behind
        <5> QED  BY <5>1, <5>2, <5>3, <5>4, <1>b, <1>f
      <4>2. CASE i \in DOMAIN received[x] /\ i # z
        <5>0. received'[x][i] = received[x][i]
            BY <4>2, <3>1
        <5>1. Behind(x, received[x][i][1])' <=> Behind(x, received[x][i][1])
            BY <5>0, <1>u DEF Behind
        <5>2. received[x][i][2] > 1 => i > 1 /\ received'[x][i - 1] = <<received[x][i][1], received[x][i][2] - 1>>
          <6>1. received[x][i][2] > 1 => i > 1 /\ received[x][i - 1] = <<received[x][i][1], received[x][i][2] - 1>>
              BY <4>2, <2>1 DEF ReceivedInv
          <6> QED  BY <6>1, <4>2, <3>1
        <5> QED  BY <5>0, <5>1, <5>2, <4>2, <2>1, <1>u, <1>b, <1>f DEF ReceivedInv
      <4> QED  BY <4>1, <4>2, <3>i
    <3>3. ASSUME NEW i \in DOMAIN received'[x], NEW j \in DOMAIN received'[x], i # j
          PROVE  received'[x][i] # received'[x][j]
      <4>1. \A k \in DOMAIN received[x] : received[x][k] # <<m.send, m.piece>>
          BY <1>i, <1>1 DEF MessageInv, Given
      <4>2. \A k \in DOMAIN received[x] : received'[x][k] = received[x][k]
          BY <3>1
      <4>3. \A k, l \in DOMAIN received[x] : k # l => received[x][k] # received[x][l]
          BY <2>1 DEF ReceivedInv
      <4>4. received'[x][z] = <<m.send, m.piece>>
          BY <3>1
      <4> QED  BY <4>1, <4>2, <4>3, <4>4, <3>3, <3>i
    <3> QED  BY <3>2, <3>3 DEF ReceivedInv
  <2> QED  BY <2>2, <2>3
<1>5. AckInv(x)'
  <2> SUFFICES ASSUME NEW i \in DOMAIN ackWire', ackWire'[i].to = x
               PROVE  /\ ackWire'[i].id \in 1 .. emits'
                      /\ Busy(x)' /\ ~current'[x].pausing /\ ackWire'[i].id = current'[x].id =>
                           /\ Quiet(x)'
                           /\ IF ackWire'[i].result = "ok" THEN LastGiven(x, First(x), current[x].piece)' ELSE Ready(x)'
      BY DEF AckInv
  <2>1. CASE i \in DOMAIN ackWire /\ ackWire'[i] = ackWire[i]
      BY <2>1, <1>u, <1>b, <1>p, <1>q DEF ConsoleInv, AckInv
  <2>2. CASE m.id # 0 /\ ackWire'[i] = [to |-> m.to, id |-> m.id, result |-> r]
    <3>1. ackWire'[i].id = m.id /\ ackWire'[i].result = r
        BY <2>2
    <3>2. m.id \in 1 .. emits'
      <4>1. m.id =< emits
          BY <1>i, <1>1 DEF MessageInv
      <4> QED  BY <4>1, <2>2, <1>m, <1>n, <1>u
    <3>3. ASSUME Busy(x), m.id = current[x].id
          PROVE  /\ Quiet(x)'
                 /\ IF r = "ok" THEN LastGiven(x, First(x), current[x].piece)' ELSE Ready(x)'
      <4>1. m.send = First(x) /\ m.piece = current[x].piece /\ \A j \in DOMAIN inputWire : j > 1 => inputWire[j].to # x
          BY <3>3, <1>i, <1>1 DEF MessageInv
      <4>2. Quiet(x)'
          BY <4>1, <1>2 DEF Quiet
      <4>3. CASE r = "ok"
        <5>1. received'[x] # <<>> /\ received'[x][Len(received'[x])] = <<m.send, m.piece>>
          BY <4>3, <1>x, <1>m, <1>t
        <5>2. current'[x].piece = m.piece
            BY <4>1, <1>u
        <5>3. received'[x][Len(received'[x])] = <<First(x)', current'[x].piece>>
            BY <4>1, <5>1, <5>2, <1>f
        <5>4. LastGiven(x, First(x), current[x].piece)'
            BY <5>1, <5>3 DEF LastGiven
        <5> QED  BY <4>2, <4>3, <5>4
      <4>4. CASE r # "ok"
        BY <4>4, <1>x, <4>1, <1>i, <1>1, <1>f, <1>u, <4>2 DEF MessageInv, Ready, Follows,
           LastGiven, Given
      <4> QED  BY <4>3, <4>4
    <3> QED  BY <3>1, <3>2, <3>3, <1>b, <1>u
  <2>3. (i \in DOMAIN ackWire /\ ackWire'[i] = ackWire[i]) \/ (m.id # 0 /\ ackWire'[i] = [to |-> m.to, id |-> m.id, result |-> r])
      BY <1>v, <1>k
  <2> QED  BY <2>1, <2>2, <2>3
<1>6. WireInv(x)'
  <2> SUFFICES ASSUME NEW i \in DOMAIN inputWire', inputWire'[i].to = x
               PROVE  MessageInv(x, i)'
      BY DEF WireInv
  <2> DEFINE n == inputWire'[i]
  <2>0. i \in Nat /\ i >= 1 /\ i + 1 \in DOMAIN inputWire /\ inputWire[i + 1] = n /\ n \in InputMessage
      BY <1>2
  <2>n. n.send \in Nat /\ n.piece \in Nat /\ n.id \in Nat
      BY <2>0 DEF InputMessage
  <2>m. MessageInv(x, i + 1)
      BY <2>0 DEF ConsoleInv, WireInv
  <2>e. n.send # m.send
      BY <2>0, <1>1, <1>i DEF MessageInv
  <2>1. ~(n.piece > 1)
      BY <2>0, <2>m, <1>1 DEF MessageInv
  <2>2. /\ n.piece >= 1 /\ n.send \in 1 .. sends' /\ n.id =< emits' /\ <<x, n.send>> \notin abandoned'
        /\ ~Given(x, n.send, n.piece)
      BY <2>0, <2>m, <1>u DEF MessageInv
  <2>3. \A j \in DOMAIN inputWire' : j # i /\ inputWire'[j].to = x => inputWire'[j].send # n.send
      BY <2>0, <2>m, <1>2 DEF MessageInv
  <2>4. Busy(x)' => /\ ~Behind(x, n.send) /\ (n.send = First(x)' <=> n.id = current'[x].id)
                    /\ n.send = First(x)' => n.piece = current'[x].piece /\ \A j \in DOMAIN inputWire' : j > i => inputWire'[j].to # x
      BY <2>0, <2>m, <1>2, <1>u, <1>b, <1>f DEF MessageInv
  <2>5. Behind(x, inputWire[i].send)' <=> Behind(x, n.send)
      BY <1>u DEF Behind
  <2>6. ~Given(x, inputWire[i].send, inputWire[i].piece)'
    BY <1>g, <2>2, <2>e, <2>n DEF Given
  <2> QED  BY <2>1, <2>2, <2>3, <2>4, <2>5, <2>6 DEF MessageInv
<1> QED  BY <1>3, <1>4, <1>5, <1>6 DEF ConsoleInv

\* What is appended to the messages on their way.
LEMMA WireGrows ==
    ASSUME InputTypes, NEW m \in InputMessage, inputWire' = Append(inputWire, m)
    PROVE  /\ inputWire' \in Seq(InputMessage)
           /\ Len(inputWire) + 1 \in DOMAIN inputWire' /\ Len(inputWire) + 1 > Len(inputWire) /\ Len(inputWire) + 1 \in Nat
           /\ inputWire'[Len(inputWire) + 1] = m
           /\ \A i \in DOMAIN inputWire' : i = Len(inputWire) + 1 \/ (i \in DOMAIN inputWire /\ inputWire[i] = inputWire'[i])
  BY DEF InputTypes

\* wait with a payload: the first send of the queue goes out.
LEMMA EmitSends ==
    ASSUME InputTypes, NEW s \in Consoles, NEW piece \in Nat, NEW retries \in Nat, Emit(s, piece, retries),
           queues' \in [Consoles -> Seq(InputJob)], queues'[s] # <<>>
    PROVE  \E m \in InputMessage :
             /\ m.to = s /\ m.send = queues'[s][1].send /\ m.piece = piece /\ m.id = emits + 1
             /\ inputWire' = Append(inputWire, m)
             /\ current' \in [Consoles -> InputState] /\ emits' = emits + 1
             /\ current'[s].id = m.id /\ current'[s].piece = piece /\ current'[s].pausing = FALSE
             /\ \A x \in Consoles : x # s => current'[x] = current[x]
<1> DEFINE m == [to |-> s, send |-> Head(queues'[s]).send, piece |-> piece, id |-> emits + 1]
           c == [piece |-> piece, id |-> emits + 1, retries |-> retries, pausing |-> FALSE]
<1>0. emits \in Nat /\ current \in [Consoles -> InputState]
    BY DEF InputTypes
<1>1. queues'[s] \in Seq(InputJob)
    OBVIOUS
<1>2. Head(queues'[s]) = queues'[s][1] /\ queues'[s][1] \in InputJob
    BY <1>1
<1>3. queues'[s][1].send \in Nat
    BY <1>2 DEF InputJob
<1>4. m \in InputMessage
    BY <1>0, <1>2, <1>3 DEF InputMessage
<1>5. c \in InputState
    BY <1>0 DEF InputState
<1>6. current' = [current EXCEPT ![s] = c] /\ inputWire' = Append(inputWire, m) /\ emits' = emits + 1
    BY DEF Emit
<1>7. current' \in [Consoles -> InputState] /\ current'[s] = c /\ \A x \in Consoles : x # s => current'[x] = current[x]
    BY <1>0, <1>5, <1>6
<1>8. m.to = s /\ m.send = queues'[s][1].send /\ m.piece = piece /\ m.id = emits + 1
    BY <1>2
<1>9. current'[s].id = m.id /\ current'[s].piece = piece /\ current'[s].pausing = FALSE
    BY <1>7
<1> QED  BY <1>4, <1>6, <1>7, <1>8, <1>9

\* The queue of one console is changed and its first send goes out; what the invariant needs of it.
LEMMA EmitKeeps ==
    ASSUME InputInv, NEW s \in Consoles, NEW piece \in Nat, NEW retries \in Nat, Emit(s, piece, retries),
           queues' \in [Consoles -> Seq(InputJob)], queues'[s] # <<>>,
           \A x \in Consoles : x # s => queues'[x] = queues[x],
           received' = received, abandoned' = abandoned, sends' \in Nat, sends' >= sends,
           ackWire' \in Seq(InputAck), \A i \in DOMAIN ackWire' : \E j \in DOMAIN ackWire : ackWire[j] = ackWire'[i],
           \* the piece may go
           piece >= 1,
           piece > 1 => Quiet(s) /\ Follows(s, queues'[s][1].send, piece),
           ~Given(s, queues'[s][1].send, piece),
           \A i \in DOMAIN inputWire : inputWire[i].to = s => inputWire[i].send # queues'[s][1].send,
           \* the queue
           \A k \in DOMAIN queues'[s] : queues'[s][k].send \in 1 .. sends' /\ <<s, queues'[s][k].send>> \notin abandoned,
           \A k, l \in DOMAIN queues'[s] : k # l => queues'[s][k].send # queues'[s][l].send,
           \A i \in DOMAIN received[s] : received[s][i][1] = queues'[s][1].send => received[s][i][2] =< piece,
           \A k \in DOMAIN queues'[s] : k > 1 =>
             /\ \A i \in DOMAIN inputWire : inputWire[i].to = s => inputWire[i].send # queues'[s][k].send
             /\ \A i \in DOMAIN received[s] : received[s][i][1] # queues'[s][k].send
    PROVE  InputInv'
<1>0. InputTypes
    BY DEF InputInv
<1>1. PICK m \in InputMessage :
             /\ m.to = s /\ m.send = queues'[s][1].send /\ m.piece = piece /\ m.id = emits + 1
             /\ inputWire' = Append(inputWire, m)
             /\ current' \in [Consoles -> InputState] /\ emits' = emits + 1
             /\ current'[s].id = m.id /\ current'[s].piece = piece /\ current'[s].pausing = FALSE
             /\ \A x \in Consoles : x # s => current'[x] = current[x]
    BY <1>0, EmitSends
<1>w. /\ inputWire' \in Seq(InputMessage)
      /\ Len(inputWire) + 1 \in DOMAIN inputWire' /\ Len(inputWire) + 1 > Len(inputWire) /\ Len(inputWire) + 1 \in Nat
      /\ inputWire'[Len(inputWire) + 1] = m
      /\ \A i \in DOMAIN inputWire' : i = Len(inputWire) + 1 \/ (i \in DOMAIN inputWire /\ inputWire[i] = inputWire'[i])
    BY <1>0, <1>1, WireGrows
<1>n. emits \in Nat /\ sends \in Nat
    BY <1>0 DEF InputTypes
<1>2. InputTypes'
  BY <1>0, <1>n, <1>1, <1>w DEF InputTypes
<1>3. ASSUME NEW x \in Consoles, x # s
      PROVE  ConsoleInv(x)'
  <2>1. \A i \in DOMAIN inputWire' : inputWire'[i].to = x => i + 0 \in DOMAIN inputWire /\ inputWire[i + 0] = inputWire'[i]
    BY <1>w, <1>1, <1>3, <1>0 DEF InputTypes
  <2>2. sends' >= sends /\ emits' >= emits
      BY <1>1, <1>n
  <2>3. queues'[x] = queues[x] /\ current'[x] = current[x]
      BY <1>1, <1>3
  <2>4. NothingNew(x, 0)
      BY <2>1, <2>2, <2>3 DEF NothingNew
  <2>5. ConsoleInv(x)
      BY DEF InputInv
  <2> QED  BY <1>0, <1>2, <2>4, <2>5, OthersKeep
<1>4. ConsoleInv(s)'
  <2>1. GoesOut(s, Len(inputWire) + 1, m)
      BY <1>w, <1>1, <1>n DEF GoesOut
  <2>2. MayGo(s, m)
    <3>1. queues'[s][1].send \in 1 .. sends' /\ <<s, queues'[s][1].send>> \notin abandoned
      OBVIOUS
    <3>2. m.id =< emits'
        BY <1>1, <1>n
    <3> QED  BY <1>1, <3>1, <3>2 DEF MayGo
  <2>3. Serves(s, m)
      BY <1>1, <1>n DEF Serves
  <2>4. QueueOfMessage(s, m)
      BY <1>1, <2>3 DEF QueueOfMessage
  <2>5. ConsoleInv(s)
      BY DEF InputInv
  <2> QED  BY <1>0, <1>1, <1>2, <1>w, <2>1, <2>2, <2>4, <2>5, MessageKeeps
<1> QED  BY <1>2, <1>3, <1>4 DEF InputInv

\* A queue that gives up all it holds, or is done with its last send.
LEMMA EmptiedKeeps ==
    ASSUME InputInv, NEW s \in Consoles, queues' = [queues EXCEPT ![s] = <<>>], current' = [current EXCEPT ![s] = Resting],
           inputWire' = inputWire, emits' = emits, received' = received, sends' = sends,
           ackWire' \in Seq(InputAck), \A i \in DOMAIN ackWire' : \E j \in DOMAIN ackWire : ackWire[j] = ackWire'[i],
           abandoned' = abandoned \/ abandoned' = abandoned \cup {<<s, queues[s][i].send>> : i \in 2 .. Len(queues[s])}
    PROVE  InputInv'
<1>0. InputTypes
    BY DEF InputInv
<1>n. emits \in Nat /\ sends \in Nat /\ queues \in [Consoles -> Seq(InputJob)] /\ current \in [Consoles -> InputState]
    BY <1>0 DEF InputTypes
<1>r. Resting \in InputState /\ Resting.pausing = FALSE
    BY DEF Resting, InputState
<1>q. QueueInv(s) /\ queues[s] \in Seq(InputJob)
    BY <1>n DEF InputInv, ConsoleInv
<1>d. DOMAIN queues[s] = 1 .. Len(queues[s]) /\ Len(queues[s]) \in Nat
    BY <1>q
<1>1. \A e \in abandoned' : e \in abandoned \/ \E k \in 2 .. Len(queues[s]) : e = <<s, queues[s][k].send>>
    OBVIOUS
<1>2. InputTypes'
  <2>1. \A e \in abandoned' : e[2] \in 0 .. sends'
    <3> SUFFICES ASSUME NEW e \in abandoned'
                 PROVE  e[2] \in 0 .. sends
        OBVIOUS
    <3>1. CASE e \in abandoned
        BY <1>0, <3>1 DEF InputTypes
    <3>2. ASSUME NEW k \in 2 .. Len(queues[s]), e = <<s, queues[s][k].send>>
          PROVE  e[2] \in 0 .. sends
      BY <1>d, <1>q, <3>2, <1>n DEF QueueInv
    <3> QED  BY <1>1, <3>1, <3>2
  <2>2. queues' \in [Consoles -> Seq(InputJob)]
      BY <1>n
  <2>3. current' \in [Consoles -> InputState]
      BY <1>n, <1>r
  <2> QED  BY <1>0, <2>1, <2>2, <2>3 DEF InputTypes
<1>3. ASSUME NEW x \in Consoles, x # s
      PROVE  ConsoleInv(x)'
  <2>1. \A i \in DOMAIN inputWire' : i + 0 = i
      BY <1>0 DEF InputTypes
  <2>2. queues'[x] = queues[x] /\ current'[x] = current[x] /\ sends' >= sends /\ emits' >= emits
      BY <1>n, <1>3
  <2>3. \A n \in Nat : <<x, n>> \in abandoned' => <<x, n>> \in abandoned
      BY <1>1, <1>3
  <2>4. NothingNew(x, 0)
      BY <2>1, <2>2, <2>3 DEF NothingNew
  <2>5. ConsoleInv(x)
      BY DEF InputInv
  <2> QED  BY <1>0, <1>2, <2>4, <2>5, OthersKeep
<1>4. ConsoleInv(s)'
  <2>1. NoMessage(s)
      BY <1>n DEF NoMessage
  <2>2. queues'[s] = <<>> /\ current'[s].pausing = FALSE
      BY <1>n, <1>r
  <2>3. \A n \in Nat : <<s, n>> \in abandoned' => <<s, n>> \in abandoned \/ Behind(s, n)
      BY <1>1, <1>d DEF Behind
  <2>4. ConsoleInv(s)
      BY DEF InputInv
  <2> QED  BY <1>0, <1>2, <2>1, <2>2, <2>3, <2>4, EmptyQueueKeeps
<1> QED  BY <1>2, <1>3, <1>4 DEF InputInv

\* The acknowledgements that are left when the first has arrived.
LEMMA AcksLeft ==
    ASSUME ackWire \in Seq(InputAck), ackWire # <<>>, ackWire' = Tail(ackWire)
    PROVE  /\ ackWire' \in Seq(InputAck) /\ \A i \in DOMAIN ackWire' : \E l \in DOMAIN ackWire : ackWire[l] = ackWire'[i]
           /\ 1 \in DOMAIN ackWire /\ Head(ackWire) = ackWire[1] /\ ackWire[1] \in InputAck
  OBVIOUS

\* A queue that was not empty grows at its end, or a pause of its first send begins.
LEMMA LongerKeeps ==
    ASSUME InputInv, NEW s \in Consoles, Busy(s), NEW j \in InputJob, j.send = sends + 1,
           \/ queues' = [queues EXCEPT ![s] = Append(@, j)] /\ current' = current /\ sends' = sends + 1 /\ ackWire' = ackWire
           \/ /\ queues' = queues /\ current' = [current EXCEPT ![s].pausing = TRUE] /\ sends' = sends /\ ackWire' = Tail(ackWire)
              /\ ackWire # <<>> /\ Quiet(s) /\ Ready(s),
           inputWire' = inputWire, emits' = emits, received' = received, abandoned' = abandoned
    PROVE  InputInv'
<1>0. InputTypes
    BY DEF InputInv
<1>n. emits \in Nat /\ sends \in Nat /\ queues \in [Consoles -> Seq(InputJob)] /\ current \in [Consoles -> InputState]
    BY <1>0 DEF InputTypes
<1>k. ackWire' \in Seq(InputAck) /\ \A i \in DOMAIN ackWire' : \E l \in DOMAIN ackWire : ackWire[l] = ackWire'[i]
  BY <1>0, AcksLeft DEF InputTypes
<1>s. sends' \in Nat /\ sends' >= sends
    BY <1>n
<1>q. queues[s] \in Seq(InputJob) /\ current[s] \in InputState
    BY <1>n
<1>c. /\ current' \in [Consoles -> InputState] /\ \A x \in Consoles : x # s => current'[x] = current[x]
      /\ current'[s].piece = current[s].piece /\ current'[s].id = current[s].id
  BY <1>n, <1>q DEF InputState
<1>u. /\ queues' \in [Consoles -> Seq(InputJob)] /\ \A x \in Consoles : x # s => queues'[x] = queues[x]
      /\ queues'[s] = queues[s] \/ (queues'[s] = Append(queues[s], j) /\ sends' = sends + 1)
  <2>1. CASE queues' = queues
      BY <2>1, <1>n
  <2>2. CASE queues' = [queues EXCEPT ![s] = Append(@, j)] /\ sends' = sends + 1
    BY <1>q, <2>2, <1>n
  <2> QED  BY <2>1, <2>2
<1>2. InputTypes'
  BY <1>0, <1>n, <1>s, <1>k, <1>c, <1>u DEF InputTypes
<1>3. ASSUME NEW x \in Consoles, x # s
      PROVE  ConsoleInv(x)'
  <2>1. \A i \in DOMAIN inputWire' : i + 0 = i
      BY <1>0 DEF InputTypes
  <2>2. queues'[x] = queues[x] /\ current'[x] = current[x] /\ sends' >= sends /\ emits' >= emits
      BY <1>n, <1>3, <1>c, <1>u, <1>s
  <2>4. NothingNew(x, 0)
      BY <2>1, <2>2, <1>k DEF NothingNew
  <2>5. ConsoleInv(x)
      BY DEF InputInv
  <2> QED  BY <1>0, <1>2, <2>4, <2>5, OthersKeep
<1>4. ConsoleInv(s)'
  <2>1. NoMessage(s)
      BY <1>n, <1>s, <1>k DEF NoMessage
  <2>2. Len(queues'[s]) >= Len(queues[s])
      BY <1>u, <1>q
  <2>3. \A k \in DOMAIN queues'[s] : \/ k \in DOMAIN queues[s] /\ queues'[s][k] = queues[s][k]
                                     \/ k = Len(queues[s]) + 1 /\ queues'[s][k].send = sends + 1 /\ sends' = sends + 1
    BY <1>q, <1>u
  <2>4. /\ current'[s].pausing => current[s].pausing \/ (Quiet(s) /\ Ready(s))
        /\ current[s].pausing => current'[s].pausing
      BY <1>n, <1>q DEF InputState
  <2>5. \A e \in abandoned : e[2] =< sends
      BY <1>0, <1>n DEF InputTypes
  <2>6. ConsoleInv(s)
      BY DEF InputInv
  <2> QED  BY <1>0, <1>2, <1>c, <2>1, <2>2, <2>3, <2>4, <2>5, <2>6, LongerQueueKeeps
<1> QED  BY <1>2, <1>3, <1>4 DEF InputInv

\* An acknowledgement that is ignored, and a connection that comes back.
LEMMA IgnoredKeeps ==
    ASSUME InputInv, queues' = queues, current' = current, inputWire' = inputWire, received' = received,
           abandoned' = abandoned, sends' = sends, emits' = emits,
           ackWire' \in Seq(InputAck), \A i \in DOMAIN ackWire' : \E j \in DOMAIN ackWire : ackWire[j] = ackWire'[i]
    PROVE  InputInv'
<1>0. InputTypes
    BY DEF InputInv
<1>1. InputTypes'
    BY <1>0 DEF InputTypes
<1>2. ASSUME NEW x \in Consoles
      PROVE  ConsoleInv(x)'
  <2>1. \A i \in DOMAIN inputWire' : i + 0 = i
      BY <1>0 DEF InputTypes
  <2>2. sends' >= sends /\ emits' >= emits
      BY <1>0 DEF InputTypes
  <2>3. NothingNew(x, 0)
      BY <2>1, <2>2 DEF NothingNew
  <2>4. ConsoleInv(x)
      BY DEF InputInv
  <2> QED  BY <1>0, <1>1, <2>3, <2>4, OthersKeep
<1> QED  BY <1>1, <1>2 DEF InputInv

\* What a console's invariant says of its first send and of those behind it.
LEMMA FirstAndBehind ==
    ASSUME InputInv, NEW s \in Consoles, Busy(s)
    PROVE  /\ queues[s] \in Seq(InputJob) /\ 1 \in DOMAIN queues[s] /\ First(s) = queues[s][1].send /\ First(s) \in Nat
           /\ DOMAIN queues[s] = 1 .. Len(queues[s]) /\ Len(queues[s]) \in Nat /\ Len(queues[s]) >= 1
           /\ current[s].piece \in Nat /\ current[s].piece >= 1 /\ current[s].retries \in Nat
           /\ \A k \in DOMAIN queues[s] : queues[s][k].send \in 1 .. sends /\ <<s, queues[s][k].send>> \notin abandoned
           /\ \A k, l \in DOMAIN queues[s] : k # l => queues[s][k].send # queues[s][l].send
           /\ \A k \in DOMAIN queues[s] : k > 1 =>
                /\ \A i \in DOMAIN inputWire : inputWire[i].to = s => inputWire[i].send # queues[s][k].send
                /\ \A i \in DOMAIN received[s] : received[s][i][1] # queues[s][k].send
           /\ \A i \in DOMAIN received[s] : received[s][i][1] = First(s) => received[s][i][2] =< current[s].piece
<1>0. InputTypes /\ ConsoleInv(s)
    BY DEF InputInv
<1>1. queues[s] \in Seq(InputJob) /\ queues[s] # <<>>
    BY <1>0 DEF InputTypes, Busy
<1>2. 1 \in DOMAIN queues[s] /\ DOMAIN queues[s] = 1 .. Len(queues[s]) /\ Len(queues[s]) \in Nat /\ Len(queues[s]) >= 1
    BY <1>1
<1>3. queues[s][1] \in InputJob
    BY <1>1, <1>2
<1>4. First(s) = queues[s][1].send /\ First(s) \in Nat
    BY <1>3 DEF First, InputJob
<1>5. current[s] \in InputState
    BY <1>0 DEF InputTypes
<1>6. current[s].piece \in Nat /\ current[s].piece >= 1 /\ current[s].retries \in Nat
    BY <1>0, <1>5 DEF InputState, ConsoleInv, QueueInv
<1>7. /\ \A k \in DOMAIN queues[s] : queues[s][k].send \in 1 .. sends /\ <<s, queues[s][k].send>> \notin abandoned
      /\ \A k, l \in DOMAIN queues[s] : k # l => queues[s][k].send # queues[s][l].send
    BY <1>0 DEF ConsoleInv, QueueInv
<1>8. ASSUME NEW k \in DOMAIN queues[s], k > 1
      PROVE  /\ \A i \in DOMAIN inputWire : inputWire[i].to = s => inputWire[i].send # queues[s][k].send
             /\ \A i \in DOMAIN received[s] : received[s][i][1] # queues[s][k].send
  BY <1>0, <1>8 DEF ConsoleInv, WireInv, MessageInv, ReceivedInv, Behind
<1>9. \A i \in DOMAIN received[s] : received[s][i][1] = First(s) => received[s][i][2] =< current[s].piece
    BY <1>0 DEF ConsoleInv, ReceivedInv
<1> QED  BY <1>1, <1>2, <1>4, <1>6, <1>7, <1>8, <1>9

\* A piece of the first send goes out, the next or the same again.
LEMMA PieceKeeps ==
    ASSUME InputInv, NEW s \in Consoles, Busy(s), Quiet(s), NEW piece \in Nat, NEW retries \in Nat, Emit(s, piece, retries),
           queues' = queues, received' = received, abandoned' = abandoned, sends' = sends,
           ackWire' \in Seq(InputAck), \A i \in DOMAIN ackWire' : \E j \in DOMAIN ackWire : ackWire[j] = ackWire'[i],
           piece >= current[s].piece, piece > 1 => Follows(s, First(s), piece), ~Given(s, First(s), piece)
    PROVE  InputInv'
<1>1. /\ queues[s] \in Seq(InputJob) /\ 1 \in DOMAIN queues[s] /\ First(s) = queues[s][1].send /\ First(s) \in Nat
      /\ current[s].piece \in Nat /\ current[s].piece >= 1
      /\ \A k \in DOMAIN queues[s] : queues[s][k].send \in 1 .. sends /\ <<s, queues[s][k].send>> \notin abandoned
      /\ \A k, l \in DOMAIN queues[s] : k # l => queues[s][k].send # queues[s][l].send
    BY FirstAndBehind
<1>2. \A k \in DOMAIN queues[s] : k > 1 =>
        /\ \A i \in DOMAIN inputWire : inputWire[i].to = s => inputWire[i].send # queues[s][k].send
        /\ \A i \in DOMAIN received[s] : received[s][i][1] # queues[s][k].send
    BY FirstAndBehind
<1>3. \A i \in DOMAIN received[s] : received[s][i][1] = First(s) => received[s][i][2] =< piece
  <2>1. \A i \in DOMAIN received[s] : received[s][i][1] = First(s) => received[s][i][2] =< current[s].piece
      BY FirstAndBehind
  <2>2. \A i \in DOMAIN received[s] : received[s][i][2] \in Nat
    BY DEF InputInv, InputTypes
  <2> QED  BY <2>1, <2>2, <1>1
<1>4. piece >= 1
    BY <1>1
<1>5. queues' \in [Consoles -> Seq(InputJob)] /\ queues'[s] # <<>> /\ sends \in Nat
    BY DEF InputInv, InputTypes, Busy
<1>6. \A i \in DOMAIN inputWire : inputWire[i].to = s => inputWire[i].send # queues'[s][1].send
    BY DEF Quiet
<1>7. sends' \in Nat /\ sends' >= sends
    BY <1>5
<1>8. /\ \A x \in Consoles : x # s => queues'[x] = queues[x]
      /\ piece > 1 => Quiet(s) /\ Follows(s, queues'[s][1].send, piece)
      /\ ~Given(s, queues'[s][1].send, piece)
    BY <1>1
<1>9. /\ \A k \in DOMAIN queues'[s] : queues'[s][k].send \in 1 .. sends' /\ <<s, queues'[s][k].send>> \notin abandoned
      /\ \A k, l \in DOMAIN queues'[s] : k # l => queues'[s][k].send # queues'[s][l].send
      /\ \A i \in DOMAIN received[s] : received[s][i][1] = queues'[s][1].send => received[s][i][2] =< piece
    BY <1>1, <1>3
<1>10. \A k \in DOMAIN queues'[s] : k > 1 =>
        /\ \A i \in DOMAIN inputWire : inputWire[i].to = s => inputWire[i].send # queues'[s][k].send
        /\ \A i \in DOMAIN received[s] : received[s][i][1] # queues'[s][k].send
    BY <1>2
<1> QED  BY <1>4, <1>5, <1>6, <1>7, <1>8, <1>9, <1>10, EmitKeeps

\* A sequence without its first element.
LEMMA TailOfQueue ==
    ASSUME NEW T, NEW q \in Seq(T)
    PROVE  /\ Len(q) > 1 => /\ Tail(q) \in Seq(T) /\ Tail(q) # <<>> /\ 1 \in DOMAIN Tail(q)
                            /\ \A k \in DOMAIN Tail(q) : k + 1 \in DOMAIN q /\ k + 1 > 1 /\ k \in Nat /\ Tail(q)[k] = q[k + 1]
           /\ Len(q) = 1 => Tail(q) = <<>>
<1>1. Len(q) \in Nat
    OBVIOUS
<1>2. ASSUME Len(q) > 1
      PROVE  /\ Tail(q) \in Seq(T) /\ Tail(q) # <<>> /\ 1 \in DOMAIN Tail(q)
             /\ \A k \in DOMAIN Tail(q) : k + 1 \in DOMAIN q /\ k + 1 > 1 /\ k \in Nat /\ Tail(q)[k] = q[k + 1]
  <2>1. q # <<>>
      BY <1>2
  <2>2. Tail(q) \in Seq(T) /\ Len(Tail(q)) = Len(q) - 1 /\ DOMAIN Tail(q) = 1 .. Len(q) - 1
      BY <2>1
  <2>4. 1 \in DOMAIN Tail(q)
      BY <1>1, <1>2, <2>2
  <2> DEFINE t == Tail(q)
  <2>6. t \in Seq(T) /\ Len(t) = Len(q) - 1
      BY <2>2
  <2> HIDE DEF t
  <2>7. t # <<>>
      BY <1>1, <1>2, <2>6
  <2>5. Tail(q) # <<>>
      BY <2>7 DEF t
  <2>3. 1 \in DOMAIN Tail(q) /\ Tail(q) # <<>>
      BY <2>4, <2>5
  <2> QED  BY <1>1, <1>2, <2>1, <2>2, <2>3
<1>3. ASSUME Len(q) = 1
      PROVE  Tail(q) = <<>>
  <2>0. Len(q) # 0
      BY <1>3
  <2>1. q # <<>>
      BY <2>0
  <2>2. Tail(q) \in Seq(T) /\ Len(Tail(q)) = 0
      BY <1>3, <2>1
  <2> DEFINE t == Tail(q)
  <2>3. t \in Seq(T) /\ Len(t) = 0
      BY <2>2
  <2> HIDE DEF t
  <2>4. t = <<>>
      BY <2>3
  <2> QED  BY <2>4 DEF t
<1> QED  BY <1>2, <1>3

\* The send behind the first goes out.
LEMMA NextSendKeeps ==
    ASSUME InputInv, NEW s \in Consoles, Busy(s), Emit(s, 1, 0), Len(queues[s]) > 1,
           queues' = [queues EXCEPT ![s] = Tail(@)], received' = received, abandoned' = abandoned, sends' = sends,
           ackWire' \in Seq(InputAck), \A i \in DOMAIN ackWire' : \E j \in DOMAIN ackWire : ackWire[j] = ackWire'[i]
    PROVE  InputInv'
<1>0. queues \in [Consoles -> Seq(InputJob)] /\ sends \in Nat
    BY DEF InputInv, InputTypes
<1>1. /\ queues[s] \in Seq(InputJob) /\ DOMAIN queues[s] = 1 .. Len(queues[s]) /\ Len(queues[s]) \in Nat
      /\ \A k \in DOMAIN queues[s] : queues[s][k].send \in 1 .. sends /\ <<s, queues[s][k].send>> \notin abandoned
      /\ \A k, l \in DOMAIN queues[s] : k # l => queues[s][k].send # queues[s][l].send
    BY FirstAndBehind
<1>2. \A k \in DOMAIN queues[s] : k > 1 =>
        /\ \A i \in DOMAIN inputWire : inputWire[i].to = s => inputWire[i].send # queues[s][k].send
        /\ \A i \in DOMAIN received[s] : received[s][i][1] # queues[s][k].send
    BY FirstAndBehind
<1>3. queues'[s] = Tail(queues[s]) /\ \A x \in Consoles : x # s => queues'[x] = queues[x]
    BY <1>0
<1>4. /\ queues'[s] \in Seq(InputJob) /\ queues'[s] # <<>> /\ 1 \in DOMAIN queues'[s]
      /\ \A k \in DOMAIN queues'[s] : k + 1 \in DOMAIN queues[s] /\ k + 1 > 1 /\ k \in Nat /\ queues'[s][k] = queues[s][k + 1]
  <2> DEFINE q == queues[s]
             t == queues'[s]
  <2>1. q \in Seq(InputJob) /\ Len(q) > 1 /\ t = Tail(q)
      BY <1>1, <1>3
  <2> HIDE DEF q, t
  <2>2. /\ t \in Seq(InputJob) /\ t # <<>> /\ 1 \in DOMAIN t
        /\ \A k \in DOMAIN t : k + 1 \in DOMAIN q /\ k + 1 > 1 /\ k \in Nat /\ t[k] = q[k + 1]
      BY <2>1, TailOfQueue
  <2> QED  BY <2>2 DEF q, t
<1>5. queues' \in [Consoles -> Seq(InputJob)]
    BY <1>0, <1>3, <1>4
<1>6. queues'[s] # <<>> /\ 1 \in DOMAIN queues'[s]
    BY <1>4
<1>7. \A k \in DOMAIN queues'[s] : k + 1 \in DOMAIN queues[s] /\ k + 1 > 1 /\ k \in Nat /\ queues'[s][k] = queues[s][k + 1]
    BY <1>4
<1>8. \A k \in DOMAIN queues'[s] :
        /\ \A i \in DOMAIN inputWire : inputWire[i].to = s => inputWire[i].send # queues'[s][k].send
        /\ \A i \in DOMAIN received[s] : received[s][i][1] # queues'[s][k].send
  <2> SUFFICES ASSUME NEW k \in DOMAIN queues'[s]
               PROVE  /\ \A i \in DOMAIN inputWire : inputWire[i].to = s => inputWire[i].send # queues'[s][k].send
                      /\ \A i \in DOMAIN received[s] : received[s][i][1] # queues'[s][k].send
      OBVIOUS
  <2> DEFINE l == k + 1
  <2>1. l \in DOMAIN queues[s] /\ l > 1 /\ queues'[s][k] = queues[s][l]
      BY <1>7
  <2> HIDE DEF l
  <2> QED  BY <1>2, <2>1
<1>9. ~Given(s, queues'[s][1].send, 1)
  <2>1. \A i \in DOMAIN received[s] : received[s][i][1] # queues'[s][1].send
      BY <1>6, <1>8
  <2> QED  BY <2>1 DEF Given
<1>10. \A k \in DOMAIN queues'[s] : queues'[s][k].send \in 1 .. sends' /\ <<s, queues'[s][k].send>> \notin abandoned
    BY <1>1, <1>7
<1>11. \A k, l \in DOMAIN queues'[s] : k # l => queues'[s][k].send # queues'[s][l].send
    BY <1>1, <1>7
<1>12. sends' \in Nat /\ sends' >= sends /\ 1 \in Nat /\ 0 \in Nat /\ 1 >= 1 /\ ~(1 > 1)
    BY <1>0
<1>13. \A i \in DOMAIN received[s] : received[s][i][1] = queues'[s][1].send => received[s][i][2] =< 1
    BY <1>6, <1>8
<1>14. \A i \in DOMAIN inputWire : inputWire[i].to = s => inputWire[i].send # queues'[s][1].send
    BY <1>6, <1>8
<1> QED  BY <1>3, <1>5, <1>6, <1>8, <1>9, <1>10, <1>11, <1>12, <1>13, <1>14, EmitKeeps

\* An answer of the server keeps the invariant: it counts only for the piece at hand.
LEMMA AckKeeps ==
    ASSUME InputInv, AckArrives
    PROVE  InputInv'
<1> DEFINE a == Head(ackWire)
           s == a.to
           c == current[s]
<1>0. InputTypes
    BY DEF InputInv
<1>u. received' = received /\ sends' = sends /\ ackWire # <<>> /\ ackWire' = Tail(ackWire)
    BY DEF AckArrives
<1>k. ackWire' \in Seq(InputAck) /\ \A i \in DOMAIN ackWire' : \E l \in DOMAIN ackWire : ackWire[l] = ackWire'[i]
    BY <1>0, <1>u, AcksLeft DEF InputTypes
<1>a. 1 \in DOMAIN ackWire /\ a = ackWire[1] /\ a \in InputAck
    BY <1>0, <1>u, AcksLeft DEF InputTypes
<1>s. s \in Consoles /\ a.result \in {"ok", "limited", "refused"}
    BY <1>a DEF InputAck
<1>n. sends \in Nat /\ queues \in [Consoles -> Seq(InputJob)] /\ queues[s] \in Seq(InputJob)
    BY <1>0, <1>s DEF InputTypes
<1> HIDE DEF a, s, c
<1>1. CASE queues[s] = <<>> \/ c.pausing \/ c.id # a.id
  BY <1>1, <1>u, <1>k, IgnoredKeeps DEF AckArrives, a, s, c
<1>2. CASE ~(queues[s] = <<>> \/ c.pausing \/ c.id # a.id)
  <2>b. Busy(s) /\ ~c.pausing /\ a.id = c.id
      BY <1>2 DEF Busy
  <2>q. Quiet(s) /\ IF a.result = "ok" THEN LastGiven(s, First(s), c.piece) ELSE Ready(s)
      BY <2>b, <1>a, <1>s DEF InputInv, ConsoleInv, AckInv, c, s
  <2>c. c.piece \in Nat /\ c.piece >= 1 /\ c.retries \in Nat /\ Len(queues[s]) \in Nat /\ Len(queues[s]) >= 1
      BY <2>b, <1>s, FirstAndBehind DEF c
  <2>1. CASE a.result = "ok"
    <3>0. abandoned' = abandoned
        BY <1>2, <2>1 DEF AckArrives, a, s, c
    <3>1. CASE c.piece < Head(queues[s]).pieces
      <4>1. queues' = queues /\ Emit(s, c.piece + 1, 0)
          BY <1>2, <2>1, <3>1 DEF AckArrives, a, s, c
      <4>2. Follows(s, First(s), c.piece + 1)
        <5>1. \A p \in Nat : (p + 1) - 1 = p
            OBVIOUS
        <5>2. LastGiven(s, First(s), c.piece) /\ c.piece \in Nat
            BY <2>1, <2>q, <2>c
        <5>3. LastGiven(s, First(s), (c.piece + 1) - 1)
            BY <5>1, <5>2, Zenon
        <5> QED  BY <5>3 DEF Follows
      <4>3. ~Given(s, First(s), c.piece + 1)
        BY <2>b, <1>s, FirstAndBehind, <2>c DEF c, Given
      <4>4. c.piece + 1 \in Nat /\ 0 \in Nat /\ c.piece + 1 >= c.piece
          BY <2>c
      <4> QED  BY <4>1, <4>2, <4>3, <4>4, <3>0, <2>b, <2>q, <1>u, <1>k, <1>s, PieceKeeps DEF c
    <3>2. CASE ~(c.piece < Head(queues[s]).pieces) /\ Len(queues[s]) > 1
      BY <1>2, <2>1, <3>2, <3>0, <2>b, <1>u, <1>k, <1>s, NextSendKeeps DEF AckArrives, a, s, c
    <3>3. CASE ~(c.piece < Head(queues[s]).pieces) /\ ~(Len(queues[s]) > 1)
      <4>1. /\ queues' = [queues EXCEPT ![s] = Tail(@)] /\ current' = [current EXCEPT ![s] = Resting]
            /\ inputWire' = inputWire /\ emits' = emits
          BY <1>2, <2>1, <3>3 DEF AckArrives, a, s, c
      <4>2. Tail(queues[s]) = <<>>
        <5>1. Len(queues[s]) = 1
          <6>1. Len(queues[s]) \in Nat /\ Len(queues[s]) >= 1
              BY <2>c
          <6>2. ~(Len(queues[s]) > 1)
              BY <3>3
          <6>3. \A n \in Nat : n >= 1 /\ ~(n > 1) => n = 1
              OBVIOUS
          <6> QED  BY <6>1, <6>2, <6>3
        <5> QED  BY <5>1, <1>n, TailOfQueue
      <4>3. queues' = [queues EXCEPT ![s] = <<>>]
          BY <4>1, <4>2
      <4> QED  BY <4>1, <4>3, <3>0, <1>u, <1>k, <1>s, EmptiedKeeps
    <3> QED  BY <3>1, <3>2, <3>3
  <2>2. CASE a.result # "ok" /\ a.result = "limited" /\ c.retries < MaxRetries
    <3>1. /\ current' = [current EXCEPT ![s].pausing = TRUE] /\ queues' = queues /\ inputWire' = inputWire
          /\ abandoned' = abandoned /\ emits' = emits
        BY <1>2, <2>2 DEF AckArrives, a, s, c
    <3> DEFINE j == [send |-> sends + 1, pieces |-> 1]
    <3>2. j \in InputJob /\ j.send = sends + 1
        BY <1>n DEF InputJob
    <3>3. Quiet(s) /\ Ready(s)
        BY <2>2, <2>q
    <3> HIDE DEF j
    <3> QED  BY <3>1, <3>2, <3>3, <2>b, <1>u, <1>s, LongerKeeps
  <2>3. CASE a.result # "ok" /\ ~(a.result = "limited" /\ c.retries < MaxRetries)
    <3>1. QueueCancelled(s)
        BY <1>2, <2>3 DEF AckArrives, a, s, c
    <3> QED  BY <3>1, <1>u, <1>k, <1>s, EmptiedKeeps DEF QueueCancelled
  <2> QED  BY <2>1, <2>2, <2>3
<1> QED  BY <1>1, <1>2

\* A short input to a console whose queue is empty: new to the shell.
LEMMA DirectKeeps ==
    ASSUME InputTypes, InputTypes', NEW x \in Consoles, ConsoleInv(x), NEW p \in Nat, NEW m \in InputMessage,
           m.to = x, m.send = sends + 1, m.piece = 1, m.id = 0, sends' = sends + 1, emits' = emits,
           queues[x] = <<>>, queues'[x] = <<>>, current' = current, abandoned' = abandoned, ackWire' = ackWire, received' = received,
           p \in DOMAIN inputWire', p > Len(inputWire), inputWire'[p] = m,
           \A i \in DOMAIN inputWire' : inputWire'[i].to = x => i = p \/ (i \in DOMAIN inputWire /\ inputWire[i] = inputWire'[i])
    PROVE  ConsoleInv(x)'
<1>n. sends \in Nat /\ emits \in Nat
    BY DEF InputTypes
<1>1. GoesOut(x, p, m)
    BY <1>n DEF GoesOut
<1>2. MayGo(x, m)
  <2>1. m.piece >= 1 /\ m.send \in 1 .. sends' /\ m.id =< emits' /\ ~(m.piece > 1)
      BY <1>n
  <2>2. \A i \in DOMAIN received[x] : received[x][i] # <<sends + 1, 1>>
    <3>1. \A i \in DOMAIN received[x] : received[x][i][1] \in 1 .. sends
        BY DEF ConsoleInv, ReceivedInv
    <3>2. \A i \in DOMAIN received[x] : received[x][i][1] # sends + 1
        BY <3>1, <1>n
    <3> QED  BY <3>2
  <2>3. ~Given(x, m.send, m.piece)
      BY <2>2 DEF Given
  <2>4. <<x, m.send>> \notin abandoned
    BY <1>n DEF InputTypes
  <2>5. \A i \in DOMAIN inputWire : inputWire[i].to = x => inputWire[i].send # m.send
    <3>1. \A i \in DOMAIN inputWire : inputWire[i].to = x => inputWire[i].send \in 1 .. sends
        BY DEF ConsoleInv, WireInv, MessageInv
    <3> QED  BY <3>1, <1>n
  <2> QED  BY <2>1, <2>3, <2>4, <2>5 DEF MayGo
<1>3. QueueOfMessage(x, m)
  <2>1. current[x].pausing = FALSE
    BY DEF ConsoleInv, QueueInv, Busy, InputTypes, InputState
  <2> QED  BY <2>1 DEF QueueOfMessage
<1> QED  BY <1>1, <1>2, <1>3, MessageKeeps

\* Sending text to one terminal keeps the invariant.
LEMMA SendKeeps ==
    ASSUME InputInv, NEW s \in Consoles, NEW pieces \in Nat, Send(s, pieces)
    PROVE  InputInv'
<1> DEFINE j == [send |-> sends + 1, pieces |-> pieces]
<1>0. InputTypes
    BY DEF InputInv
<1>n. sends \in Nat /\ emits \in Nat /\ queues \in [Consoles -> Seq(InputJob)] /\ ackWire \in Seq(InputAck)
    BY <1>0 DEF InputTypes
<1>u. ackWire' = ackWire /\ received' = received /\ abandoned' = abandoned /\ sends' = sends + 1 /\ sends' \in Nat /\ sends' >= sends
    BY <1>n DEF Send
<1>j. j \in InputJob /\ j.send = sends + 1
    BY <1>n DEF InputJob
<1>a. \A e \in abandoned : e[2] \in Nat /\ e[2] # sends + 1 /\ e[2] \in 0 .. sends'
    BY <1>0, <1>n, <1>u DEF InputTypes
<1>1. CASE Direct(s, pieces)
  <2> DEFINE m == [to |-> s, send |-> sends + 1, piece |-> 1, id |-> 0]
  <2>1. inputWire' = Append(inputWire, m) /\ queues' = queues /\ current' = current /\ emits' = emits
      BY <1>1 DEF Send
  <2>2. m \in InputMessage /\ m.to = s /\ m.send = sends + 1 /\ m.piece = 1 /\ m.id = 0
      BY <1>n DEF InputMessage
  <2> HIDE DEF m
  <2>3. /\ inputWire' \in Seq(InputMessage)
        /\ Len(inputWire) + 1 \in DOMAIN inputWire' /\ Len(inputWire) + 1 > Len(inputWire) /\ Len(inputWire) + 1 \in Nat
        /\ inputWire'[Len(inputWire) + 1] = m
        /\ \A i \in DOMAIN inputWire' : i = Len(inputWire) + 1 \/ (i \in DOMAIN inputWire /\ inputWire[i] = inputWire'[i])
      BY <1>0, <2>1, <2>2, WireGrows
  <2>4. InputTypes'
      BY <1>0, <1>a, <1>u, <2>1, <2>3 DEF InputTypes
  <2>5. ASSUME NEW x \in Consoles, x # s
        PROVE  ConsoleInv(x)'
    <3>1. \A i \in DOMAIN inputWire' : inputWire'[i].to = x => i + 0 \in DOMAIN inputWire /\ inputWire[i + 0] = inputWire'[i]
      BY <2>3, <2>2, <2>5, <1>0 DEF InputTypes
    <3>2. NothingNew(x, 0)
        BY <3>1, <2>1, <1>u, <1>n DEF NothingNew
    <3>3. ConsoleInv(x)
        BY DEF InputInv
    <3> QED  BY <1>0, <2>4, <3>2, <3>3, OthersKeep
  <2>6. ConsoleInv(s)'
    BY <1>1, <2>1, <1>0, <1>u, <2>2, <2>3, <2>4, DirectKeeps DEF InputInv, Direct
  <2> QED  BY <2>4, <2>5, <2>6 DEF InputInv
<1>2. CASE ~Direct(s, pieces) /\ queues[s] # <<>>
  <2>1. queues' = [queues EXCEPT ![s] = Append(@, j)] /\ inputWire' = inputWire /\ current' = current /\ emits' = emits
      BY <1>2 DEF Send
  <2>2. Busy(s)
      BY <1>2 DEF Busy
  <2> HIDE DEF j
  <2> QED  BY <1>j, <1>u, <2>1, <2>2, LongerKeeps
<1>3. CASE ~Direct(s, pieces) /\ queues[s] = <<>>
  <2>1. queues' = [queues EXCEPT ![s] = Append(@, j)] /\ Emit(s, 1, 0)
      BY <1>3 DEF Send
  <2> HIDE DEF j
  <2>2. queues'[s] = <<j>> /\ queues' \in [Consoles -> Seq(InputJob)] /\ \A x \in Consoles : x # s => queues'[x] = queues[x]
    BY <1>3, <1>j, <2>1, <1>n
  <2>3. queues'[s] # <<>> /\ DOMAIN queues'[s] = {1} /\ queues'[s][1].send = sends + 1
    BY <2>2, <1>j
  <2>4. \A i \in DOMAIN received[s] : received[s][i][1] # sends + 1
    <3>1. \A i \in DOMAIN received[s] : received[s][i][1] \in 1 .. sends
        BY DEF InputInv, ConsoleInv, ReceivedInv
    <3> QED  BY <3>1, <1>n
  <2>5. ~Given(s, queues'[s][1].send, 1)
      BY <2>3, <2>4 DEF Given
  <2>6. \A i \in DOMAIN inputWire : inputWire[i].to = s => inputWire[i].send # sends + 1
    <3>1. \A i \in DOMAIN inputWire : inputWire[i].to = s => inputWire[i].send \in 1 .. sends
        BY DEF InputInv, ConsoleInv, WireInv, MessageInv
    <3> QED  BY <3>1, <1>n
  <2>7. \A k \in DOMAIN queues'[s] : queues'[s][k].send \in 1 .. sends' /\ <<s, queues'[s][k].send>> \notin abandoned
    BY <1>a, <1>u, <1>n, <2>3
  <2>8. 1 \in Nat /\ 0 \in Nat /\ 1 >= 1 /\ ~(1 > 1)
      OBVIOUS
  <2>9. /\ \A k, l \in DOMAIN queues'[s] : k = l
        /\ \A k \in DOMAIN queues'[s] : ~(k > 1)
      BY <2>3
  <2>10. \A i \in DOMAIN ackWire' : \E l \in DOMAIN ackWire : ackWire[l] = ackWire'[i]
      BY <1>u
  <2>11. \A i \in DOMAIN inputWire : inputWire[i].to = s => inputWire[i].send # queues'[s][1].send
      BY <2>3, <2>6
  <2>12. \A i \in DOMAIN received[s] : received[s][i][1] = queues'[s][1].send => received[s][i][2] =< 1
      BY <2>3, <2>4
  <2>13. \A k, l \in DOMAIN queues'[s] : k # l => queues'[s][k].send # queues'[s][l].send
      BY <2>9
  <2>14. \A k \in DOMAIN queues'[s] : k > 1 =>
           /\ \A i \in DOMAIN inputWire : inputWire[i].to = s => inputWire[i].send # queues'[s][k].send
           /\ \A i \in DOMAIN received[s] : received[s][i][1] # queues'[s][k].send
      BY <2>9
  <2>15. ackWire' \in Seq(InputAck) /\ queues'[s] # <<>> /\ Emit(s, 1, 0)
      BY <1>n, <1>u, <2>1, <2>3
  <2> QED  BY <1>u, <2>2, <2>5, <2>7, <2>8, <2>10, <2>11, <2>12, <2>13, <2>14, <2>15, EmitKeeps
<1> QED  BY <1>1, <1>2, <1>3

\* SetToSeq lists a finite set, each element once.
LEMMA ListOfSet ==
    ASSUME NEW S, IsFiniteSet(S)
    PROVE  /\ SetToSeq(S) \in Seq(S)
           /\ \A i, j \in DOMAIN SetToSeq(S) : SetToSeq(S)[i] = SetToSeq(S)[j] => i = j
<1>1. Cardinality(S) \in Nat /\ ExistsBijection(1 .. Cardinality(S), S)
    BY FS_CardinalityType
<1>2. PICK g \in Bijection(1 .. Cardinality(S), S) : TRUE
    BY <1>1 DEF ExistsBijection
<1>3. g \in [1 .. Cardinality(S) -> S] /\ IsInjective(g)
    BY <1>2 DEF Bijection, Injection, IsInjective
<1>4. SetToSeq(S) \in [1 .. Cardinality(S) -> S] /\ IsInjective(SetToSeq(S))
    BY <1>3 DEF SetToSeq
<1> QED  BY <1>1, <1>4 DEF IsInjective

\* Two sequences, one after the other.
LEMMA Joined ==
    ASSUME NEW T, NEW a \in Seq(T), NEW b \in Seq(T)
    PROVE  /\ a \o b \in Seq(T) /\ Len(a) \in Nat /\ Len(b) \in Nat /\ DOMAIN a = 1 .. Len(a)
           /\ DOMAIN (a \o b) = 1 .. Len(a) + Len(b)
           /\ \A i \in 1 .. Len(a) : (a \o b)[i] = a[i]
           /\ \A i \in 1 .. Len(b) : (a \o b)[Len(a) + i] = b[i]
  OBVIOUS

\* Sending to every synchronised terminal keeps the invariant.
LEMMA SendAllKeeps ==
    ASSUME InputInv, SendAll
    PROVE  InputInv'
<1> DEFINE D == {s \in Consoles : Direct(s, 1)}
           q == SetToSeq(D)
           message(s) == [to |-> s, send |-> sends + 1, piece |-> 1, id |-> 0]
           news == [i \in 1 .. Len(q) |-> message(q[i])]
<1>0. InputTypes
    BY DEF InputInv
<1>n. sends \in Nat /\ emits \in Nat /\ queues \in [Consoles -> Seq(InputJob)] /\ inputWire \in Seq(InputMessage)
    BY <1>0 DEF InputTypes
<1>u. /\ ackWire' = ackWire /\ received' = received /\ abandoned' = abandoned /\ sends' = sends + 1 /\ current' = current
      /\ emits' = emits /\ sends' \in Nat /\ sends' >= sends
    BY <1>n DEF SendAll
<1>1. queues' = [s \in Consoles |-> IF Direct(s, 1) THEN queues[s] ELSE Append(queues[s], [send |-> sends + 1, pieces |-> 1])]
    BY DEF SendAll
<1>2. inputWire' = inputWire \o news
    BY DEF SendAll
<1>3. q \in Seq(D) /\ \A i, j \in DOMAIN q : q[i] = q[j] => i = j
  <2>1. IsFiniteSet(D)
      BY InputAssumption, FS_Subset
  <2> HIDE DEF D
  <2> QED  BY <2>1, ListOfSet
<1>d. D \subseteq Consoles
    OBVIOUS
<1> HIDE DEF D, q
<1>4. \A s \in Consoles : message(s) \in InputMessage
    BY <1>n DEF InputMessage
<1>l. Len(q) \in Nat /\ DOMAIN q = 1 .. Len(q) /\ \A i \in 1 .. Len(q) : q[i] \in Consoles
    BY <1>3, <1>d
<1>5. news \in Seq(InputMessage) /\ Len(news) = Len(q) /\ \A i \in 1 .. Len(q) : news[i] = message(q[i])
  BY <1>l, <1>4
<1> HIDE DEF news
<1>6. /\ inputWire' \in Seq(InputMessage) /\ Len(inputWire) \in Nat
      /\ DOMAIN inputWire = 1 .. Len(inputWire) /\ DOMAIN inputWire' = 1 .. Len(inputWire) + Len(q)
      /\ \A i \in 1 .. Len(inputWire) : inputWire'[i] = inputWire[i]
      /\ \A i \in 1 .. Len(q) : inputWire'[Len(inputWire) + i] = news[i]
  <2>1. inputWire \in Seq(InputMessage) /\ news \in Seq(InputMessage)
      BY <1>n, <1>5
  <2>2. /\ inputWire \o news \in Seq(InputMessage) /\ Len(inputWire) \in Nat /\ DOMAIN inputWire = 1 .. Len(inputWire)
        /\ DOMAIN (inputWire \o news) = 1 .. Len(inputWire) + Len(news)
        /\ \A i \in 1 .. Len(inputWire) : (inputWire \o news)[i] = inputWire[i]
        /\ \A i \in 1 .. Len(news) : (inputWire \o news)[Len(inputWire) + i] = news[i]
      BY <2>1, Joined
  <2>3. Len(news) = Len(q)
      BY <1>5
  <2> HIDE DEF message
  <2> QED  BY <1>2, <2>2, <2>3
<1>7. \A i \in DOMAIN inputWire' : \/ i \in DOMAIN inputWire /\ inputWire'[i] = inputWire[i]
                                   \/ \E k \in 1 .. Len(q) : i = Len(inputWire) + k /\ inputWire'[i] = message(q[k])
  <2> SUFFICES ASSUME NEW i \in DOMAIN inputWire', i \notin DOMAIN inputWire
               PROVE  \E k \in 1 .. Len(q) : i = Len(inputWire) + k /\ inputWire'[i] = message(q[k])
      BY <1>6
  <2> DEFINE k == i - Len(inputWire)
  <2>1. k \in 1 .. Len(q) /\ i = Len(inputWire) + k
      BY <1>6, <1>l
  <2> HIDE DEF k
  <2> QED  BY <2>1, <1>5, <1>6
<1>q. \A s \in Consoles : queues'[s] \in Seq(InputJob)
  <2>1. [send |-> sends + 1, pieces |-> 1] \in InputJob
      BY <1>n DEF InputJob
  <2> QED  BY <1>1, <1>n, <2>1
<1>t. InputTypes'
  BY <1>1, <1>q, <1>0, <1>n, <1>u, <1>6 DEF InputTypes
<1>8. ASSUME NEW x \in Consoles
      PROVE  ConsoleInv(x)'
  <2>c. ConsoleInv(x)
      BY DEF InputInv
  <2>1. CASE queues[x] # <<>>
    <3>1. ~Direct(x, 1) /\ x \notin D
        BY <2>1 DEF Direct, D
    <3>2. queues'[x] = Append(queues[x], [send |-> sends + 1, pieces |-> 1])
        BY <1>1, <3>1
    <3>3. \A k \in 1 .. Len(q) : q[k] # x
        BY <1>3, <1>l, <3>1
    <3>4. \A i \in DOMAIN inputWire' : inputWire'[i].to = x => i \in DOMAIN inputWire /\ inputWire[i] = inputWire'[i]
        BY <1>7, <3>3
    <3>5. NoMessage(x)
        BY <3>4, <1>u, <1>n DEF NoMessage
    <3>6. Busy(x)
        BY <2>1 DEF Busy
    <3>7. /\ Len(queues'[x]) >= Len(queues[x])
          /\ \A k \in DOMAIN queues'[x] : \/ k \in DOMAIN queues[x] /\ queues'[x][k] = queues[x][k]
                                          \/ k = Len(queues[x]) + 1 /\ queues'[x][k].send = sends + 1 /\ sends' = sends + 1
      BY <1>n, <3>2, <1>u
    <3>8. \A e \in abandoned : e[2] =< sends
        BY <1>0, <1>n DEF InputTypes
    <3> QED  BY <1>0, <1>t, <1>u, <2>c, <3>5, <3>6, <3>7, <3>8, LongerQueueKeeps
  <2>2. CASE queues[x] = <<>>
    <3>1. queues'[x] = <<>>
        BY <1>1, <2>2 DEF Direct
    <3>2. CASE \E k \in 1 .. Len(q) : q[k] = x
      <4>1. PICK k \in 1 .. Len(q) : q[k] = x
          BY <3>2
      <4> DEFINE p == Len(inputWire) + k
                 m == message(x)
      <4>2. /\ p \in Nat /\ p > Len(inputWire) /\ p \in DOMAIN inputWire' /\ inputWire'[p] = m
          BY <1>5, <1>6, <1>l, <4>1
      <4>3. \A i \in DOMAIN inputWire' : inputWire'[i].to = x => i = p \/ (i \in DOMAIN inputWire /\ inputWire[i] = inputWire'[i])
        <5> SUFFICES ASSUME NEW i \in DOMAIN inputWire', inputWire'[i].to = x, i \notin DOMAIN inputWire
                     PROVE  i = p
            BY <1>7
        <5>1. PICK l \in 1 .. Len(q) : i = Len(inputWire) + l /\ inputWire'[i] = message(q[l])
            BY <1>7
        <5>2. q[l] = x
            BY <5>1
        <5>3. l = k
            BY <5>2, <4>1, <1>3, <1>l
        <5> QED  BY <5>1, <5>3
      <4>4. m \in InputMessage /\ m.to = x /\ m.send = sends + 1 /\ m.piece = 1 /\ m.id = 0
          BY <1>4
      <4> HIDE DEF m, p
      <4> QED  BY <1>0, <1>t, <1>u, <2>c, <2>2, <3>1, <4>2, <4>3, <4>4, DirectKeeps
    <3>3. CASE ~\E k \in 1 .. Len(q) : q[k] = x
      <4>1. \A i \in DOMAIN inputWire' : inputWire'[i].to = x => i \in DOMAIN inputWire /\ inputWire[i] = inputWire'[i]
          BY <1>7, <3>3
      <4>2. \A i \in DOMAIN inputWire : i + 0 = i
          BY <1>6
      <4>3. NothingNew(x, 0)
          BY <4>1, <4>2, <3>1, <2>2, <1>u, <1>n DEF NothingNew
      <4> QED  BY <1>0, <1>t, <2>c, <4>3, OthersKeep
    <3> QED  BY <3>2, <3>3
  <2> QED  BY <2>1, <2>2
<1> QED  BY <1>t, <1>8 DEF InputInv

\* Losing the socket keeps the invariant: what was queued is gone.
LEMMA LoseInputKeeps ==
    ASSUME InputInv, LoseInput
    PROVE  InputInv'
<1>0. InputTypes
    BY DEF InputInv
<1>n. sends \in Nat /\ emits \in Nat /\ queues \in [Consoles -> Seq(InputJob)]
    BY <1>0 DEF InputTypes
<1>u. /\ queues' = [s \in Consoles |-> <<>>] /\ current' = [s \in Consoles |-> Resting]
      /\ inputWire' = <<>> /\ ackWire' = <<>> /\ received' = received /\ sends' = sends /\ emits' = emits
    BY DEF LoseInput
<1>r. Resting \in InputState /\ Resting.pausing = FALSE
    BY DEF Resting, InputState
<1>1. \A e \in abandoned' : e \in abandoned \/ \E s \in Consoles : \E k \in 2 .. Len(queues[s]) : e = <<s, queues[s][k].send>>
    BY DEF LoseInput
<1>2. ASSUME NEW s \in Consoles, NEW k \in 2 .. Len(queues[s])
      PROVE  k \in DOMAIN queues[s] /\ k > 1 /\ queues[s][k].send \in 0 .. sends
  <2>1. queues[s] \in Seq(InputJob)
      BY <1>n
  <2>2. k \in DOMAIN queues[s] /\ k > 1
      BY <2>1
  <2>3. queues[s][k].send \in 1 .. sends
      BY <2>2 DEF InputInv, ConsoleInv, QueueInv
  <2> QED  BY <2>2, <2>3, <1>n
<1>t. InputTypes'
  <2>1. \A e \in abandoned' : e[2] \in 0 .. sends'
    <3> SUFFICES ASSUME NEW e \in abandoned'
                 PROVE  e[2] \in 0 .. sends
        BY <1>u
    <3>1. CASE e \in abandoned
        BY <1>0, <3>1 DEF InputTypes
    <3>2. ASSUME NEW s \in Consoles, NEW k \in 2 .. Len(queues[s]), e = <<s, queues[s][k].send>>
          PROVE  e[2] \in 0 .. sends
        BY <3>2, <1>2
    <3> QED  BY <1>1, <3>1, <3>2
  <2>2. queues' \in [Consoles -> Seq(InputJob)] /\ current' \in [Consoles -> InputState]
      BY <1>u, <1>r
  <2>3. inputWire' \in Seq(InputMessage) /\ ackWire' \in Seq(InputAck)
      BY <1>u
  <2> QED  BY <1>0, <1>u, <2>1, <2>2, <2>3 DEF InputTypes
<1>3. ASSUME NEW x \in Consoles
      PROVE  ConsoleInv(x)'
  <2>1. DOMAIN inputWire' = {} /\ DOMAIN ackWire' = {}
      BY <1>u
  <2>2. NoMessage(x)
      BY <2>1, <1>u, <1>n DEF NoMessage
  <2>3. queues'[x] = <<>> /\ current'[x].pausing = FALSE
      BY <1>u, <1>r
  <2>4. \A n \in Nat : <<x, n>> \in abandoned' => <<x, n>> \in abandoned \/ Behind(x, n)
    BY <1>1, <1>2 DEF Behind
  <2>5. ConsoleInv(x)
      BY DEF InputInv
  <2> QED  BY <1>0, <1>t, <2>2, <2>3, <2>4, <2>5, EmptyQueueKeeps
<1> QED  BY <1>t, <1>3 DEF InputInv

\* The server handling a message keeps the invariant.
LEMMA HandleInputKeeps ==
    ASSUME InputInv, NEW r \in {"ok", "limited", "refused"}, HandleInput(r)
    PROVE  InputInv'
<1> DEFINE m == Head(inputWire)
<1>0. InputTypes
    BY DEF InputInv
<1>n. sends \in Nat /\ emits \in Nat /\ received \in [Consoles -> Seq(Nat \X Nat)] /\ ackWire \in Seq(InputAck)
    BY <1>0 DEF InputTypes
<1>w. inputWire \in Seq(InputMessage) /\ inputWire # <<>>
    BY <1>0 DEF InputTypes, HandleInput
<1>u. /\ queues' = queues /\ current' = current /\ abandoned' = abandoned /\ sends' = sends /\ emits' = emits
      /\ inputWire' = Tail(inputWire)
    BY DEF HandleInput
<1>o. received' = IF r = "ok" THEN [received EXCEPT ![m.to] = Append(@, <<m.send, m.piece>>)] ELSE received
    BY DEF HandleInput
<1>v. ackWire' = IF m.id = 0 THEN ackWire ELSE Append(ackWire, [to |-> m.to, id |-> m.id, result |-> r])
    BY DEF HandleInput
<1>m. m \in InputMessage
    BY <1>w
<1>f. m.to \in Consoles /\ m.send \in Nat /\ m.piece \in Nat /\ m.id \in Nat
    BY <1>m DEF InputMessage
<1> HIDE DEF m
<1>1. received' \in [Consoles -> Seq(Nat \X Nat)] /\ \A x \in Consoles : x # m.to => received'[x] = received[x]
  BY <1>n, <1>f, <1>o
<1>2. /\ ackWire' \in Seq(InputAck)
      /\ \A x \in Consoles : x # m.to => \A i \in DOMAIN ackWire' : ackWire'[i].to = x => \E j \in DOMAIN ackWire : ackWire[j] = ackWire'[i]
  <2> DEFINE a == [to |-> m.to, id |-> m.id, result |-> r]
  <2>1. a \in InputAck /\ a.to = m.to
      BY <1>f DEF InputAck
  <2>2. ackWire' = IF m.id = 0 THEN ackWire ELSE Append(ackWire, a)
      BY <1>v
  <2> HIDE DEF a
  <2>3. CASE m.id = 0
      BY <2>2, <2>3, <1>n
  <2>4. CASE m.id # 0
    BY <2>2, <2>4, <2>1, <1>n
  <2> QED  BY <2>3, <2>4
<1>3. inputWire' \in Seq(InputMessage) /\ \A i \in DOMAIN inputWire' : i + 1 \in DOMAIN inputWire /\ inputWire[i + 1] = inputWire'[i]
  BY <1>w, <1>u
<1>t. InputTypes'
    BY <1>0, <1>u, <1>1, <1>2, <1>3 DEF InputTypes
<1>4. ASSUME NEW x \in Consoles
      PROVE  ConsoleInv(x)'
  <2>c. ConsoleInv(x)
      BY DEF InputInv
  <2>1. CASE m.to = x
      BY <1>0, <1>t, <2>c, <2>1, ArrivalKeeps DEF m
  <2>2. CASE m.to # x
    <3>1. NothingNew(x, 1)
        BY <2>2, <1>u, <1>1, <1>2, <1>3, <1>n DEF NothingNew
    <3> QED  BY <1>0, <1>t, <2>c, <3>1, OthersKeep
  <2> QED  BY <2>1, <2>2
<1> QED  BY <1>t, <1>4 DEF InputInv

\* A pause that ends sends the piece again and keeps the invariant.
LEMMA PauseEndsKeeps ==
    ASSUME InputInv, NEW s \in Consoles, PauseEnds(s)
    PROVE  InputInv'
<1>1. /\ current[s].pausing /\ queues' = queues /\ Emit(s, current[s].piece, current[s].retries + 1)
      /\ ackWire' = ackWire /\ received' = received /\ abandoned' = abandoned /\ sends' = sends
    BY DEF PauseEnds
<1>2. Busy(s) /\ Quiet(s) /\ Ready(s)
    BY <1>1 DEF InputInv, ConsoleInv, QueueInv
<1>3. current[s].piece \in Nat /\ current[s].retries \in Nat
    BY <1>2, FirstAndBehind
<1>4. current[s].retries + 1 \in Nat /\ current[s].piece >= current[s].piece
    BY <1>3
<1>5. ackWire' \in Seq(InputAck) /\ \A i \in DOMAIN ackWire' : \E j \in DOMAIN ackWire : ackWire[j] = ackWire'[i]
    BY <1>1 DEF InputInv, InputTypes
<1>6. (current[s].piece > 1 => Follows(s, First(s), current[s].piece)) /\ ~Given(s, First(s), current[s].piece)
    BY <1>2 DEF Ready
<1> QED  BY <1>1, <1>2, <1>3, <1>4, <1>5, <1>6, PieceKeeps

\* Every step keeps the invariant.
LEMMA InputKept == InputInv /\ [SshInputNext]_inputVars => InputInv'
<1> SUFFICES ASSUME InputInv, [SshInputNext]_inputVars
             PROVE  InputInv'
    OBVIOUS
<1>a. ackWire \in Seq(InputAck) /\ \A i \in DOMAIN ackWire : \E j \in DOMAIN ackWire : ackWire[j] = ackWire[i]
    BY DEF InputInv, InputTypes
<1>1. CASE SendAll
    BY <1>1, SendAllKeeps
<1>2. CASE AckArrives
    BY <1>2, AckKeeps
<1>3. CASE LoseInput
    BY <1>3, LoseInputKeeps
<1>4. CASE InputBack
    BY <1>4, <1>a, IgnoredKeeps DEF InputBack
<1>5. ASSUME NEW s \in Consoles, PauseEnds(s)
      PROVE  InputInv'
    BY <1>5, PauseEndsKeeps
<1>6. ASSUME NEW s \in Consoles, CancelInput(s)
      PROVE  InputInv'
    BY <1>6, <1>a, EmptiedKeeps DEF CancelInput, QueueCancelled
<1>7. ASSUME NEW s \in Consoles, NEW n \in 1 .. MaxPieces, Send(s, n)
      PROVE  InputInv'
  <2>1. n \in Nat
      OBVIOUS
  <2> QED  BY <1>7, <2>1, SendKeeps
<1>8. ASSUME NEW r \in {"ok", "limited", "refused"}, HandleInput(r)
      PROVE  InputInv'
    BY <1>8, HandleInputKeeps
<1>9. CASE UNCHANGED inputVars
    BY <1>9, <1>a, IgnoredKeeps DEF inputVars
<1> QED  BY <1>1, <1>2, <1>3, <1>4, <1>5, <1>6, <1>7, <1>8, <1>9 DEF SshInputNext

\* What a shell is given of an input is a beginning of it, in order, and nothing that waited
\* behind an input that failed, for any consoles, pieces and retries (send, transmit, cancelQueue).
THEOREM InputIsInOrder == InputSpec => []InputInOrder
<1>1. SshInputInit => InputInv
  <2> SUFFICES ASSUME SshInputInit
               PROVE  InputInv
      OBVIOUS
  <2> USE DEF SshInputInit
  <2>r. Resting \in InputState /\ Resting.pausing = FALSE
      BY DEF Resting, InputState
  <2>1. InputTypes
    BY <2>r DEF InputTypes
  <2>2. ASSUME NEW x \in Consoles
        PROVE  ConsoleInv(x)
    BY <2>r DEF ConsoleInv, QueueInv, WireInv, ReceivedInv, AckInv, Busy
  <2> QED  BY <2>1, <2>2 DEF InputInv
<1>2. InputInv => InputInOrder
    BY DEF InputInv, ConsoleInv, ReceivedInv, InputInOrder
<1> QED  BY <1>1, <1>2, InputKept, PTL DEF InputSpec

----------------------------------------------------------------------------
(* The panes of the terminals.                                             *)

PaneSpec == PaneInit /\ [][PaneNext]_paneVars

Shows == PaneSessions \cup {NoSession}
PaneMaps == UNION {[1 .. n -> Shows] : n \in PaneLayouts}
Places == {Container, Lost} \cup 1 .. 4
Workspaces == [open : SUBSET PaneSessions, at : PaneMaps, over : SUBSET (1 .. 4), pane : 1 .. 4,
               session : Shows, place : [PaneSessions -> Places]]

\* A workspace whose sessions are of K: a terminal is in the document exactly while its
\* session is open, and one that hangs in a pane is what the pane is assigned to.
InDocument(w) == \A s \in PaneSessions : w.place[s] = Lost <=> s \notin w.open
HangsWhereAssigned(w) ==
    \A s \in PaneSessions : \A i \in 1 .. 4 : w.place[s] = i => i \in DOMAIN w.at /\ w.at[i] = s /\ i \notin w.over
Sound(w, K) ==
    /\ w \in Workspaces /\ w.open \subseteq K
    /\ \A i \in DOMAIN w.at : w.at[i] \in K \cup {NoSession}
    /\ w.over \subseteq DOMAIN w.at
    /\ InDocument(w) /\ HangsWhereAssigned(w)

\* Input goes to the pane that is active, unless a launcher lies over it.
Focus(w) == /\ w.pane \in DOMAIN w.at
            /\ w.session # NoSession => w.session = w.at[w.pane] /\ w.pane \notin w.over

\* Each session has one pane at most, and hangs there unless it is covered.
OneEach(w) == /\ \A i \in DOMAIN w.at : w.at[i] \in w.open \cup {NoSession}
              /\ \A i, j \in DOMAIN w.at : w.at[i] = w.at[j] /\ w.at[i] # NoSession => i = j
HangsIn(w, I) == \A i \in I : w.at[i] # NoSession /\ i \notin w.over => w.place[w.at[i]] = i
Neat(w) == OneEach(w) /\ HangsIn(w, DOMAIN w.at)

DialogOK == dialog # NoSession => dialog \in [layout : PaneLayouts, offered : SUBSET (open \cup gone)]

PaneInv ==
    /\ Sound(Now, open \cup gone) /\ Focus(Now) /\ (~sloppy => Neat(Now))
    /\ gone \subseteq PaneSessions \ open /\ sloppy \in BOOLEAN /\ DialogOK

\* A layout has one to four panes.
LEMMA MapsAre ==
    ASSUME NEW at \in PaneMaps
    PROVE  /\ \E n \in PaneLayouts : DOMAIN at = 1 .. n
           /\ DOMAIN at \subseteq 1 .. 4 /\ 1 \in DOMAIN at
           /\ \A i \in DOMAIN at : at[i] \in Shows
  BY PaneLayoutsAssumption DEF PaneMaps

\* An assignment to the panes of a layout is a map of panes.
LEMMA MapsFrom ==
    ASSUME NEW n \in PaneLayouts, NEW at \in [1 .. n -> Shows]
    PROVE  at \in PaneMaps
  BY DEF PaneMaps

\* The first of some panes is one of them.
LEMMA FirstOfIs ==
    ASSUME NEW I, I \subseteq 1 .. 4
    PROVE  IF I = {} THEN FirstOf(I) = 0 ELSE FirstOf(I) \in I
<1>1. I # {} => \E i \in I : \A j \in I : i <= j
  <2>1. CASE 1 \in I
      BY <2>1
  <2>2. CASE 1 \notin I /\ 2 \in I
      BY <2>2
  <2>3. CASE 1 \notin I /\ 2 \notin I /\ 3 \in I
      BY <2>3
  <2>4. CASE 1 \notin I /\ 2 \notin I /\ 3 \notin I
    <3>1. \A j \in I : j = 4
        BY <2>4
    <3>2. \A i, j \in I : i <= j
        BY <3>1
    <3> QED  BY <3>2
  <2> QED  BY <2>1, <2>2, <2>3, <2>4
<1> QED  BY <1>1 DEF FirstOf

----------------------------------------------------------------------------
(* Drawing a pane.                                                         *)

Free(w, i) == \A t \in PaneSessions : w.place[t] # i
Same(u, w) == u.open = w.open /\ u.at = w.at /\ u.over = w.over /\ u.pane = w.pane /\ u.session = w.session

\* Drawing a pane where nothing hangs moves only the terminal that is assigned to it.
Redrawn(u, w, i) ==
    /\ u \in Workspaces /\ Same(u, w)
    /\ \A t \in PaneSessions : t # w.at[i] \/ t \notin w.open => u.place[t] = w.place[t]
    /\ w.at[i] \in w.open => u.place[w.at[i]] = IF i \in w.over THEN Container ELSE i

\* Another place for the terminals.
LEMMA PlacedIs ==
    ASSUME NEW w \in Workspaces, NEW p \in [PaneSessions -> Places]
    PROVE  /\ [w EXCEPT !.place = p] \in Workspaces /\ Same([w EXCEPT !.place = p], w)
           /\ [w EXCEPT !.place = p].place = p
  BY DEF Workspaces, Same

\* A pane that is drawn shows its session; the other terminals stay where they hang.
LEMMA RenderIs ==
    ASSUME NEW w \in Workspaces, InDocument(w), NEW i \in DOMAIN w.at, Free(w, i)
    PROVE  Redrawn(RenderPane(w, i), w, i)
<1> DEFINE s == w.at[i]
           e == [t \in PaneSessions |-> IF w.place[t] = i THEN Lost ELSE w.place[t]]
           to == IF i \in w.over THEN Container ELSE i
           p == IF s \notin w.open THEN e ELSE Moved(e, s, to)
<1>0. w.open \subseteq PaneSessions /\ w.place \in [PaneSessions -> Places] /\ w.at \in PaneMaps
    BY DEF Workspaces
<1>1. e = w.place
  BY <1>0 DEF Free
<1>2. RenderPane(w, i) = [w EXCEPT !.place = p]
    BY DEF RenderPane
<1> HIDE DEF e
<1>3. to \in Places
    BY <1>0, MapsAre DEF Places
<1> HIDE DEF to
<1>4. CASE s \notin w.open
  <2>1. p = w.place
      BY <1>1, <1>4
  <2> HIDE DEF p
  <2>2. RenderPane(w, i) \in Workspaces /\ Same(RenderPane(w, i), w) /\ RenderPane(w, i).place = w.place
      BY <1>0, <1>2, <2>1, PlacedIs
  <2> QED  BY <1>4, <2>2 DEF Redrawn
<1>5. CASE s \in w.open
  <2>1. w.place[s] # Lost /\ s \in PaneSessions
      BY <1>0, <1>5 DEF InDocument
  <2>2. p = [w.place EXCEPT ![s] = to]
      BY <1>1, <1>5, <2>1 DEF Moved
  <2> HIDE DEF p, s
  <2>3. p \in [PaneSessions -> Places] /\ p[s] = to /\ \A t \in PaneSessions : t # s => p[t] = w.place[t]
      BY <1>0, <1>3, <2>1, <2>2
  <2>4. RenderPane(w, i) \in Workspaces /\ Same(RenderPane(w, i), w) /\ RenderPane(w, i).place = p
      BY <1>2, <2>3, PlacedIs
  <2> QED  BY <1>5, <2>3, <2>4 DEF Redrawn, s, to
<1> QED  BY <1>4, <1>5

\* A terminal that is drawn hangs where it is assigned.
LEMMA RedrawnSound ==
    ASSUME NEW K, NEW w, Sound(w, K), NEW i \in DOMAIN w.at, NEW u, Redrawn(u, w, i), Free(w, i)
    PROVE  Sound(u, K)
  BY MapsAre DEF Sound, Redrawn, Same, Workspaces, InDocument, Container, Lost, HangsWhereAssigned

\* A pane that was drawn hangs, and so do those that hung before.
LEMMA RedrawnHangs ==
    ASSUME NoSession \notin PaneSessions,
           NEW w \in Workspaces, OneEach(w), NEW H, H \subseteq DOMAIN w.at, HangsIn(w, H), NEW i \in DOMAIN w.at, NEW u, Redrawn(u, w, i)
    PROVE  HangsIn(u, H \cup {i})
  BY DEF Redrawn, Same, HangsIn, OneEach, Workspaces

\* The panes of I from k on are free; the terminals of H hang in their panes.
PaneReady(w, I, k) == \A j \in I : k <= j => Free(w, j)
Hung(w, H) == OneEach(w) => HangsIn(w, H)

\* One of several panes is drawn in its turn.
LEMMA DrawIs ==
    ASSUME NoSession \notin PaneSessions,
           NEW K, NEW w, Sound(w, K), NEW I, I \subseteq DOMAIN w.at, NEW k \in 1 .. 4, PaneReady(w, I, k),
           NEW H, H \subseteq DOMAIN w.at, Hung(w, H), NEW n, n = k + 1, NEW G, G = H \cup (I \cap {k})
    PROVE  /\ Sound(Draw(w, k, I), K) /\ Same(Draw(w, k, I), w)
           /\ PaneReady(Draw(w, k, I), I, n) /\ Hung(Draw(w, k, I), G)
<1>0. w \in Workspaces /\ InDocument(w)
    BY DEF Sound
<1>1. I \subseteq 1 .. 4
    BY <1>0, MapsAre DEF Workspaces
<1>2. CASE k \notin I
  BY <1>2, <1>1 DEF Draw, PaneReady, Same
<1>3. CASE k \in I
  <2> DEFINE u == RenderPane(w, k)
  <2>1. Draw(w, k, I) = u /\ G = H \cup {k} /\ k \in DOMAIN w.at
      BY <1>3 DEF Draw
  <2>2. Free(w, k)
      BY <1>3 DEF PaneReady
  <2>3. Redrawn(u, w, k)
      BY <1>0, <2>1, <2>2, RenderIs
  <2> HIDE DEF u
  <2>4. Sound(u, K) /\ Same(u, w)
      BY <2>1, <2>2, <2>3, RedrawnSound DEF Redrawn
  <2>5. Hung(u, H \cup {k})
    BY <2>4, <1>0, <2>1, <2>3, RedrawnHangs DEF OneEach, Same, Hung
  <2>6. PaneReady(u, I, n)
    BY <1>1, <2>3 DEF PaneReady, Free, Container, Redrawn
  <2> QED  BY <2>1, <2>4, <2>5, <2>6
<1> QED  BY <1>2, <1>3

\* Two redrawings are one.
LEMMA SameChain ==
    ASSUME NEW u, NEW v, NEW w, Same(u, v), Same(v, w)
    PROVE  Same(u, w)
  BY DEF Same

\* Drawing panes where nothing hangs.
LEMMA RenderPanesIs ==
    ASSUME NoSession \notin PaneSessions,
           NEW K, NEW w, Sound(w, K), NEW I, I \subseteq DOMAIN w.at, \A j \in I : Free(w, j),
           NEW H, H \subseteq DOMAIN w.at, Hung(w, H)
    PROVE  /\ Sound(RenderPanes(w, I), K) /\ Same(RenderPanes(w, I), w)
           /\ Hung(RenderPanes(w, I), H \cup I)
<1> DEFINE a == Draw(w, 1, I)
           b == Draw(a, 2, I)
           c == Draw(b, 3, I)
           d == Draw(c, 4, I)
           A == H \cup (I \cap {1})
           B == A \cup (I \cap {2})
           C == B \cup (I \cap {3})
           D == C \cup (I \cap {4})
<1>0. I \subseteq 1 .. 4
    BY MapsAre DEF Workspaces, Sound
<1>1. RenderPanes(w, I) = d
    BY DEF RenderPanes
<1>2. D = H \cup I /\ A \subseteq DOMAIN w.at /\ B \subseteq DOMAIN w.at /\ C \subseteq DOMAIN w.at
    BY <1>0
<1>n. 1 \in 1 .. 4 /\ 2 \in 1 .. 4 /\ 3 \in 1 .. 4 /\ 4 \in 1 .. 4 /\ 2 = 1 + 1 /\ 3 = 2 + 1 /\ 4 = 3 + 1 /\ 5 = 4 + 1
    OBVIOUS
<1>s. A = H \cup (I \cap {1}) /\ B = A \cup (I \cap {2}) /\ C = B \cup (I \cap {3}) /\ D = C \cup (I \cap {4})
    OBVIOUS
<1> HIDE DEF A, B, C, D
<1>3. Sound(a, K) /\ Same(a, w) /\ PaneReady(a, I, 2) /\ Hung(a, A)
  <2>1. PaneReady(w, I, 1)
      BY DEF PaneReady
  <2> QED  BY <1>n, <1>s, <2>1, DrawIs
<1> HIDE DEF a
<1>4. a.at = w.at
    BY <1>3 DEF Same
<1>5. Sound(b, K) /\ Same(b, a) /\ PaneReady(b, I, 3) /\ Hung(b, B)
    BY <1>2, <1>n, <1>s, <1>3, <1>4, DrawIs
<1> HIDE DEF b
<1>6. b.at = w.at /\ Same(b, w)
    BY <1>3, <1>4, <1>5, SameChain DEF Same
<1>7. Sound(c, K) /\ Same(c, b) /\ PaneReady(c, I, 4) /\ Hung(c, C)
    BY <1>2, <1>n, <1>s, <1>5, <1>6, DrawIs
<1> HIDE DEF c
<1>8. c.at = w.at /\ Same(c, w)
    BY <1>6, <1>7, SameChain DEF Same
<1>9. Sound(d, K) /\ Same(d, c) /\ Hung(d, D)
    BY <1>2, <1>n, <1>s, <1>7, <1>8, DrawIs
<1> HIDE DEF d
<1>10. Same(d, w)
    BY <1>8, <1>9, SameChain
<1> QED  BY <1>1, <1>2, <1>9, <1>10

\* The launcher goes and the terminal it covered hangs again.
LEMMA UncoveredIs ==
    ASSUME NoSession \notin PaneSessions, NEW K, NEW w, Sound(w, K), NEW i
    PROVE  /\ Sound(Uncovered(w, i), K) /\ (Neat(w) => Neat(Uncovered(w, i)))
           /\ Uncovered(w, i).open = w.open /\ Uncovered(w, i).at = w.at /\ Uncovered(w, i).over = w.over \ {i}
           /\ Uncovered(w, i).pane = w.pane /\ Uncovered(w, i).session = w.session
<1>0. /\ w \in Workspaces /\ w.open \subseteq K /\ (\A j \in DOMAIN w.at : w.at[j] \in K \cup {NoSession})
      /\ w.over \subseteq DOMAIN w.at /\ InDocument(w) /\ HangsWhereAssigned(w)
    BY DEF Sound
<1>1. CASE i \notin w.over
  BY <1>1 DEF Uncovered
<1>2. CASE i \in w.over
  <2> DEFINE o == w.over \ {i}
             v == [w EXCEPT !.over = o]
             u == RenderPane(v, i)
  <2>1. Uncovered(w, i) = u
      BY <1>0, <1>2 DEF Uncovered, Workspaces
  <2>2. o \subseteq w.over /\ o \in SUBSET (1 .. 4) /\ i \notin o /\ i \in DOMAIN w.at /\ i \in 1 .. 4
      BY <1>0, <1>2 DEF Workspaces
  <2> HIDE DEF o
  <2>3. /\ v \in Workspaces /\ v.open = w.open /\ v.at = w.at /\ v.over = o /\ v.pane = w.pane /\ v.session = w.session
        /\ v.place = w.place
      BY <1>0, <2>2 DEF Workspaces
  <2> HIDE DEF v
  <2>4. Sound(v, K)
    BY <1>0, <2>2, <2>3 DEF InDocument, HangsWhereAssigned, Sound
  <2>5. Free(v, i)
      BY <1>0, <1>2, <2>2, <2>3 DEF HangsWhereAssigned, Free
  <2>6. Redrawn(u, v, i)
      BY <2>2, <2>3, <2>4, <2>5, RenderIs DEF Sound
  <2> HIDE DEF u
  <2>7. Sound(u, K) /\ Same(u, v)
      BY <2>2, <2>3, <2>4, <2>5, <2>6, RedrawnSound DEF Redrawn
  <2>8. Neat(w) => Neat(u)
    <3> SUFFICES ASSUME Neat(w) PROVE Neat(u)
        OBVIOUS
    <3> DEFINE H == DOMAIN w.at \ {i}
    <3>1. OneEach(v) /\ HangsIn(v, H) /\ H \subseteq DOMAIN v.at /\ H \cup {i} = DOMAIN w.at
      BY <2>3, <2>2 DEF Neat, OneEach, HangsIn, o
    <3> HIDE DEF H
    <3>2. HangsIn(u, DOMAIN w.at)
        BY <2>2, <2>3, <2>6, <3>1, RedrawnHangs
    <3>3. u.at = w.at /\ u.open = v.open /\ u.at = v.at
        BY <2>3, <2>7 DEF Same
    <3> QED  BY <3>1, <3>2, <3>3 DEF Neat, OneEach
  <2> QED  BY <2>1, <2>3, <2>7, <2>8 DEF Same, o
<1> QED  BY <1>1, <1>2

\* setActivePane
LEMMA SetActiveIs ==
    ASSUME NoSession \notin PaneSessions, NEW K, NEW w, Sound(w, K), NEW i, i \in DOMAIN w.at \/ Focus(w)
    PROVE  /\ Sound(SetActivePane(w, i), K) /\ Focus(SetActivePane(w, i)) /\ (Neat(w) => Neat(SetActivePane(w, i)))
           /\ SetActivePane(w, i).open = w.open /\ SetActivePane(w, i).at = w.at
<1>1. CASE i \notin DOMAIN w.at
    BY <1>1 DEF SetActivePane
<1>2. CASE i \in DOMAIN w.at
  <2> DEFINE v == IF w.pane # i THEN Uncovered(w, w.pane) ELSE w
             t == IF i \in v.over THEN NoSession ELSE v.at[i]
             r == [v EXCEPT !.pane = i, !.session = t]
  <2>1. SetActivePane(w, i) = r
      BY <1>2 DEF SetActivePane
  <2>2. Sound(v, K) /\ (Neat(w) => Neat(v)) /\ v.open = w.open /\ v.at = w.at
      BY UncoveredIs
  <2> HIDE DEF v
  <2>3. v \in Workspaces /\ v.at \in PaneMaps
      BY <2>2 DEF Sound, Workspaces
  <2>4. i \in 1 .. 4 /\ t \in Shows /\ (t # NoSession => t = v.at[i] /\ i \notin v.over)
      BY <1>2, <2>2, <2>3, MapsAre DEF Shows
  <2> HIDE DEF t
  <2>5. r \in Workspaces /\ r.open = v.open /\ r.at = v.at /\ r.over = v.over /\ r.place = v.place /\ r.pane = i /\ r.session = t
      BY <2>3, <2>4 DEF Workspaces
  <2> HIDE DEF r
  <2>6. Sound(r, K)
      BY <2>2, <2>5 DEF Sound, InDocument, HangsWhereAssigned
  <2>7. Focus(r)
      BY <1>2, <2>2, <2>4, <2>5 DEF Focus
  <2>8. Neat(v) => Neat(r)
      BY <2>5 DEF Neat, OneEach, HangsIn
  <2> QED  BY <2>1, <2>2, <2>5, <2>6, <2>7, <2>8
<1> QED  BY <1>1, <1>2

\* restoreConnectionLauncher
LEMMA RestoreIs ==
    ASSUME NoSession \notin PaneSessions, NEW K, NEW w, Sound(w, K), Focus(w), NEW i
    PROVE  /\ Sound(RestoreLauncher(w, i), K) /\ Focus(RestoreLauncher(w, i)) /\ (Neat(w) => Neat(RestoreLauncher(w, i)))
           /\ RestoreLauncher(w, i).open = w.open
<1>1. CASE i \notin w.over
    BY <1>1 DEF RestoreLauncher
<1>2. CASE i \in w.over
  <2> DEFINE v == Uncovered(w, i)
  <2>1. RestoreLauncher(w, i) = SetActivePane(v, i)
      BY <1>2 DEF RestoreLauncher
  <2>2. Sound(v, K) /\ (Neat(w) => Neat(v)) /\ v.open = w.open /\ v.at = w.at
      BY UncoveredIs
  <2>3. i \in DOMAIN v.at
      BY <1>2, <2>2 DEF Sound
  <2> HIDE DEF v
  <2> QED  BY <2>1, <2>2, <2>3, SetActiveIs
<1> QED  BY <1>1, <1>2

\* assignSessionToPane, for a session that has no pane yet.
LEMMA AssignIs ==
    ASSUME NoSession \notin PaneSessions, NEW K, NEW w, Sound(w, K), Focus(w), NEW s \in w.open, NEW i,
           \A j \in DOMAIN w.at : w.at[j] # s
    PROVE  /\ Sound(AssignSessionToPane(w, s, i), K) /\ Focus(AssignSessionToPane(w, s, i))
           /\ Neat(w) => Neat(AssignSessionToPane(w, s, i))
           /\ AssignSessionToPane(w, s, i).open = w.open
<1>0. /\ w \in Workspaces /\ w.open \subseteq K /\ (\A j \in DOMAIN w.at : w.at[j] \in K \cup {NoSession})
      /\ w.over \subseteq DOMAIN w.at /\ InDocument(w) /\ HangsWhereAssigned(w)
    BY DEF Sound
<1>1. CASE i \notin DOMAIN w.at
    BY <1>1 DEF AssignSessionToPane
<1>2. CASE i \in DOMAIN w.at
  <2> DEFINE old == w.at[i]
             o == w.over \ {i}
             m == [w.at EXCEPT ![i] = s]
             p == IF old \in w.open THEN [w.place EXCEPT ![old] = Container] ELSE w.place
             v == [w EXCEPT !.over = o, !.at = m, !.place = p]
             u == RenderPane(v, i)
  <2>1. AssignSessionToPane(w, s, i) = SetActivePane(u, i)
    <3> DEFINE had == {j \in DOMAIN w.at : w.at[j] = s}
               q == IF old \in w.open THEN Moved(w.place, old, Container) ELSE w.place
               n == [j \in DOMAIN w.at |-> IF j = i THEN s ELSE IF j \in had THEN NoSession ELSE w.at[j]]
               x == [w EXCEPT !.over = w.over \ (had \cup {i}), !.at = n, !.place = q]
    <3>1. had = {}
        OBVIOUS
    <3>2. AssignSessionToPane(w, s, i) = SetActivePane(RenderPanes(RenderPane(x, i), had \ {i}), i)
        BY <1>0, <1>2, <3>1 DEF AssignSessionToPane, Workspaces
    <3>3. q = p
        BY <1>0 DEF Moved, InDocument, Workspaces
    <3>4. n = m
      BY <3>1, <1>0 DEF Workspaces, PaneMaps
    <3>5. w.over \ (had \cup {i}) = o
        BY <3>1
    <3> HIDE DEF had, q, n
    <3>6. x = v
        BY <3>3, <3>4, <3>5
    <3>7. RenderPanes(u, {}) = u
        BY DEF RenderPanes, Draw
    <3>8. had \ {i} = {}
        BY <3>1
    <3> QED  BY <3>2, <3>6, <3>7, <3>8
  <2>2. i \in 1 .. 4 /\ s \in PaneSessions /\ s \in Shows
      BY <1>0, <1>2, MapsAre DEF Workspaces, Shows
  <2>3. o \subseteq w.over /\ o \in SUBSET (1 .. 4) /\ i \notin o
      BY <1>0 DEF Workspaces
  <2>4. m \in PaneMaps /\ DOMAIN m = DOMAIN w.at /\ m[i] = s /\ \A j \in DOMAIN w.at : j # i => m[j] = w.at[j]
    BY <1>0, <2>2, <1>2 DEF Workspaces, PaneMaps
  <2>5. /\ p \in [PaneSessions -> Places]
        /\ \A t \in PaneSessions : p[t] = w.place[t] \/ (t = old /\ t \in w.open /\ p[t] = Container)
        /\ old \in w.open => p[old] = Container
      BY <1>0 DEF Workspaces, Places
  <2> HIDE DEF o, m, p
  <2>6. v \in Workspaces /\ v.open = w.open /\ v.at = m /\ v.over = o /\ v.place = p
      BY <1>0, <2>3, <2>4, <2>5 DEF Workspaces
  <2> HIDE DEF v
  <2>7. Free(v, i)
    BY <2>6, <2>2, <2>5, <1>0 DEF Free, Container, HangsWhereAssigned, InDocument, Lost
  <2>8. Sound(v, K)
    BY <1>0, <2>5, <2>6, <2>7, <2>3, <2>4 DEF InDocument, Lost, Container, HangsWhereAssigned,
       Free, Sound
  <2>9. Redrawn(u, v, i)
      BY <1>2, <2>4, <2>6, <2>7, <2>8, RenderIs DEF Sound
  <2> HIDE DEF u
  <2>10. Sound(u, K) /\ Same(u, v)
      BY <1>2, <2>4, <2>6, <2>7, <2>8, <2>9, RedrawnSound DEF Redrawn
  <2>11. Neat(w) => Neat(u)
    <3> SUFFICES ASSUME Neat(w) PROVE Neat(u)
        OBVIOUS
    <3> DEFINE H == DOMAIN w.at \ {i}
    <3>1. OneEach(v)
        BY <2>4, <2>6 DEF Neat, OneEach
    <3>2. HangsIn(v, H)
      BY <2>4, <2>6, <1>0, <1>2, <2>5 DEF HangsIn, Neat, OneEach, Workspaces, o
    <3>3. H \subseteq DOMAIN v.at /\ H \cup {i} = DOMAIN v.at
        BY <1>2, <2>4, <2>6
    <3> HIDE DEF H
    <3>4. HangsIn(u, DOMAIN v.at)
        BY <1>2, <2>4, <2>6, <2>9, <3>1, <3>2, <3>3, RedrawnHangs
    <3> QED  BY <2>10, <3>1, <3>4 DEF Neat, OneEach, Same
  <2>12. i \in DOMAIN u.at /\ u.open = w.open
      BY <1>2, <2>4, <2>6, <2>10 DEF Same
  <2> QED  BY <2>1, <2>10, <2>11, <2>12, SetActiveIs
<1> QED  BY <1>1, <1>2

\* A session leaves the workspace with its terminal and its pane.
LEMMA ClosedIs ==
    ASSUME NoSession \notin PaneSessions, NEW K, NEW w, Sound(w, K), NEW s \in w.open, NEW c \in Workspaces,
           c.open = w.open \ {s}, c.place = [w.place EXCEPT ![s] = Lost], c.pane = w.pane,
           \/ c.at = w.at /\ c.over = w.over /\ \A j \in DOMAIN w.at : w.at[j] # s
           \/ \E i \in DOMAIN w.at : w.at[i] = s /\ c.at = [w.at EXCEPT ![i] = NoSession] /\ c.over = w.over \ {i}
    PROVE  /\ Sound(c, K) /\ (Neat(w) => Neat(c)) /\ DOMAIN c.at = DOMAIN w.at
           /\ \A j \in DOMAIN w.at : c.at[j] \in {w.at[j], NoSession}
<1>0. /\ w \in Workspaces /\ w.open \subseteq K /\ (\A j \in DOMAIN w.at : w.at[j] \in K \cup {NoSession})
      /\ w.over \subseteq DOMAIN w.at /\ InDocument(w) /\ HangsWhereAssigned(w)
    BY DEF Sound
<1>1. /\ DOMAIN c.at = DOMAIN w.at /\ c.over \subseteq w.over
      /\ \A j \in DOMAIN w.at : c.at[j] = w.at[j] \/ (w.at[j] = s /\ c.at[j] = NoSession)
      /\ \A j \in DOMAIN w.at : c.at[j] # NoSession /\ j \notin c.over => j \notin w.over
    OBVIOUS
<1>2. s \in PaneSessions /\ c.place[s] = Lost /\ \A t \in PaneSessions : t # s => c.place[t] = w.place[t]
    BY <1>0 DEF Workspaces
<1>3. InDocument(c)
    BY <1>0, <1>2 DEF InDocument
<1>4. HangsWhereAssigned(c)
  BY <1>2, <1>0, <1>1 DEF HangsWhereAssigned, Lost
<1>5. Sound(c, K)
    BY <1>0, <1>1, <1>3, <1>4 DEF Sound
<1>6. ASSUME Neat(w) PROVE Neat(c)
  <2>1. \A j \in DOMAIN w.at : c.at[j] # s
    <3>1. CASE \A j \in DOMAIN w.at : w.at[j] # s
        BY <1>1, <1>2, <3>1
    <3>2. CASE \E i \in DOMAIN w.at : w.at[i] = s /\ c.at = [w.at EXCEPT ![i] = NoSession] /\ c.over = w.over \ {i}
      BY <3>2, <1>2, <1>6 DEF Neat, OneEach
    <3> QED  BY <3>1, <3>2
  <2>2. OneEach(c)
      BY <1>1, <1>6, <2>1 DEF Neat, OneEach
  <2>3. HangsIn(c, DOMAIN c.at)
    BY <1>1, <2>1, <1>0, <1>6, <1>2 DEF HangsIn, Neat, OneEach, Workspaces
  <2> QED  BY <2>2, <2>3 DEF Neat
<1> QED  BY <1>1, <1>5, <1>6

\* removeSessionUI
LEMMA RemoveIs ==
    ASSUME NoSession \notin PaneSessions, NEW K, NEW w, Sound(w, K), Focus(w), NEW s \in w.open
    PROVE  /\ Sound(RemoveSessionUI(w, s), K) /\ Focus(RemoveSessionUI(w, s)) /\ (Neat(w) => Neat(RemoveSessionUI(w, s)))
           /\ RemoveSessionUI(w, s).open = w.open \ {s} /\ DOMAIN RemoveSessionUI(w, s).at = DOMAIN w.at
           /\ \A j \in DOMAIN w.at : RemoveSessionUI(w, s).at[j] \in {w.at[j], NoSession}
<1> DEFINE i == IndexOf(w, s)
           p == [w.place EXCEPT ![s] = Lost]
           out == [w EXCEPT !.place = p]
           o == w.over \ {i}
           m == [w.at EXCEPT ![i] = NoSession]
           x == [out EXCEPT !.over = o, !.at = m]
           freed == IF i = 0 THEN out ELSE RenderPane(x, i)
           rest == w.open \ {s}
           c == [freed EXCEPT !.open = rest]
           first == FirstOf({j \in DOMAIN c.at : c.at[j] # NoSession})
<1>0. /\ w \in Workspaces /\ w.at \in PaneMaps /\ InDocument(w) /\ HangsWhereAssigned(w) /\ s \in PaneSessions
    BY DEF Sound, Workspaces
<1>1. IF i = 0 THEN \A j \in DOMAIN w.at : w.at[j] # s ELSE i \in DOMAIN w.at /\ w.at[i] = s /\ i \in 1 .. 4
  <2> DEFINE I == {j \in DOMAIN w.at : w.at[j] = s}
  <2>1. I \subseteq 1 .. 4 /\ i = FirstOf(I)
      BY <1>0, MapsAre DEF IndexOf
  <2>2. IF I = {} THEN i = 0 ELSE i \in I
      BY <2>1, FirstOfIs
  <2>3. 0 \notin I
      BY <2>1
  <2> HIDE DEF i
  <2> QED  BY <2>1, <2>2, <2>3
<1>r. RemoveSessionUI(w, s) = IF c.open = {} THEN [c EXCEPT !.session = NoSession]
                              ELSE SetActivePane(c, IF first # 0 THEN first ELSE c.pane)
  <2>1. freed.open = w.open
    BY <1>0 DEF Workspaces, RenderPane
  <2>2. out.over = w.over /\ out.at = w.at
      BY <1>0 DEF Workspaces
  <2>3. /\ x = [out EXCEPT !.over = out.over \ {i}, !.at = [out.at EXCEPT ![i] = NoSession]]
        /\ c = [freed EXCEPT !.open = freed.open \ {s}]
    <3> HIDE DEF i, out, freed
    <3> QED  BY <2>1, <2>2
  <2> DEFINE y == [out EXCEPT !.over = out.over \ {i}, !.at = [out.at EXCEPT ![i] = NoSession]]
             g == IF i = 0 THEN out ELSE RenderPane(y, i)
             d == [g EXCEPT !.open = g.open \ {s}]
             one == FirstOf({j \in DOMAIN d.at : d.at[j] # NoSession})
  <2>4. RemoveSessionUI(w, s) = IF d.open = {} THEN [d EXCEPT !.session = NoSession]
                                ELSE SetActivePane(d, IF one # 0 THEN one ELSE d.pane)
      BY DEF RemoveSessionUI
  <2>5. y = x
      BY <2>3
  <2>6. g = freed
    <3> HIDE DEF x, y, out, i
    <3> QED  BY <2>5
  <2>7. d = c
    <3>1. c = [freed EXCEPT !.open = freed.open \ {s}]
        BY <2>3
    <3> HIDE DEF g, freed, c
    <3> QED  BY <2>6, <3>1
  <2> HIDE DEF c, d
  <2> QED  BY <2>4, <2>7
<1> HIDE DEF i
<1>2. p \in [PaneSessions -> Places] /\ p[s] = Lost /\ (\A t \in PaneSessions : t # s => p[t] = w.place[t])
    BY <1>0 DEF Workspaces, Places
<1>3. /\ i # 0 => m \in PaneMaps /\ DOMAIN m = DOMAIN w.at /\ m[i] = NoSession
      /\ o \in SUBSET (1 .. 4) /\ rest \in SUBSET PaneSessions
  BY <1>0, <1>1 DEF PaneMaps, Shows, Workspaces
<1>d. p = [w.place EXCEPT ![s] = Lost] /\ o = w.over \ {i} /\ m = [w.at EXCEPT ![i] = NoSession] /\ rest = w.open \ {s}
    OBVIOUS
<1> HIDE DEF p, o, m, rest
<1>4. out \in Workspaces /\ out.open = w.open /\ out.at = w.at /\ out.over = w.over /\ out.place = p /\ out.pane = w.pane
    BY <1>0, <1>2 DEF Workspaces
<1>5. i # 0 => /\ x \in Workspaces /\ x.open = w.open /\ x.at = m /\ x.over = o /\ x.place = p /\ x.pane = w.pane
    BY <1>3, <1>4 DEF Workspaces
<1> HIDE DEF out
<1>6. i # 0 => RenderPane(x, i) = x
  <2> SUFFICES ASSUME i # 0 PROVE RenderPane(x, i) = x
      OBVIOUS
  <2>0. x \in Workspaces /\ x.open = w.open /\ x.at = m /\ x.place = p
      BY <1>5
  <2> HIDE DEF x
  <2>1. \A t \in PaneSessions : p[t] # i
    BY <1>1, <1>2, <1>0 DEF Lost, HangsWhereAssigned
  <2>2. [t \in PaneSessions |-> IF p[t] = i THEN Lost ELSE p[t]] = p
      BY <1>2, <2>1
  <2>3. x.at[i] \notin x.open
      BY <1>0, <1>3, <2>0 DEF Workspaces
  <2>4. RenderPane(x, i) = [x EXCEPT !.place = p]
      BY <2>0, <2>2, <2>3 DEF RenderPane
  <2> QED  BY <2>0, <2>4 DEF Workspaces
<1> HIDE DEF x
<1>7. /\ freed \in Workspaces /\ freed.open = w.open /\ freed.place = p /\ freed.pane = w.pane
      /\ IF i = 0 THEN freed.at = w.at /\ freed.over = w.over ELSE freed.at = m /\ freed.over = o
    BY <1>4, <1>5, <1>6
<1> HIDE DEF freed
<1>8. c \in Workspaces /\ c.open = rest /\ c.at = freed.at /\ c.over = freed.over /\ c.place = p /\ c.pane = w.pane
    BY <1>3, <1>7 DEF Workspaces
<1> HIDE DEF c
<1>9. /\ Sound(c, K) /\ (Neat(w) => Neat(c)) /\ DOMAIN c.at = DOMAIN w.at
      /\ \A j \in DOMAIN w.at : c.at[j] \in {w.at[j], NoSession}
  <2>1. \/ c.at = w.at /\ c.over = w.over /\ \A j \in DOMAIN w.at : w.at[j] # s
        \/ \E j \in DOMAIN w.at : w.at[j] = s /\ c.at = [w.at EXCEPT ![j] = NoSession] /\ c.over = w.over \ {j}
    BY <1>1, <1>7, <1>8, <1>d
  <2>2. c.open = w.open \ {s} /\ c.place = [w.place EXCEPT ![s] = Lost]
      BY <1>8, <1>d
  <2>3. /\ Sound(c, K) /\ (Neat(w) => Neat(c)) /\ DOMAIN c.at = DOMAIN w.at
        /\ \A j \in DOMAIN w.at : c.at[j] \in {w.at[j], NoSession}
      BY <1>8, <2>1, <2>2, ClosedIs
  <2> QED  BY <2>3
<1>10. c.pane \in DOMAIN c.at
    BY <1>8, <1>9 DEF Focus
<1>11. CASE c.open = {}
  <2> DEFINE r == [c EXCEPT !.session = NoSession]
  <2>1. r \in Workspaces /\ r.open = c.open /\ r.at = c.at /\ r.over = c.over /\ r.place = c.place /\ r.pane = c.pane
        /\ r.session = NoSession
      BY <1>8 DEF Workspaces, Shows
  <2> HIDE DEF r
  <2>2. Sound(r, K) /\ Focus(r)
      BY <1>9, <1>10, <2>1 DEF Sound, InDocument, HangsWhereAssigned, Focus
  <2>3. Neat(c) => Neat(r)
      BY <2>1 DEF Neat, OneEach, HangsIn
  <2>4. RemoveSessionUI(w, s) = r
      BY <1>r, <1>11 DEF r
  <2> QED  BY <1>8, <1>9, <1>d, <2>1, <2>2, <2>3, <2>4
<1>12. CASE c.open # {}
  <2> DEFINE k == IF first # 0 THEN first ELSE c.pane
  <2>1. k \in DOMAIN c.at
    <3> DEFINE I == {j \in DOMAIN c.at : c.at[j] # NoSession}
    <3>1. I \subseteq 1 .. 4 /\ I \subseteq DOMAIN c.at
        BY <1>8, MapsAre DEF Workspaces
    <3>2. IF I = {} THEN first = 0 ELSE first \in I
        BY <3>1, FirstOfIs
    <3> HIDE DEF I, first
    <3> QED  BY <1>10, <3>1, <3>2
  <2> HIDE DEF first
  <2>2. RemoveSessionUI(w, s) = SetActivePane(c, k)
      BY <1>r, <1>12
  <2> HIDE DEF k
  <2> QED  BY <1>8, <1>9, <1>d, <2>1, <2>2, SetActiveIs
<1> QED  BY <1>11, <1>12

\* setSplitLayout and applyPaneAssignments
LEMMA RebuiltIs ==
    ASSUME NoSession \notin PaneSessions, NEW K, NEW w, Sound(w, K), NEW at \in PaneMaps,
           \A j \in DOMAIN at : at[j] \in K \cup {NoSession}
    PROVE  /\ Sound(Rebuilt(w, at), K) /\ Focus(Rebuilt(w, at)) /\ Rebuilt(w, at).open = w.open
           /\ (/\ \A j \in DOMAIN at : at[j] \in w.open \cup {NoSession}
               /\ \A j, k \in DOMAIN at : at[j] = at[k] /\ at[j] # NoSession => j = k)
              => Neat(Rebuilt(w, at))
<1> DEFINE p == [s \in PaneSessions |-> IF s \in w.open /\ w.place[s] # Lost THEN Container ELSE w.place[s]]
           v == [w EXCEPT !.over = {}, !.at = at, !.place = p]
           u == RenderPanes(v, DOMAIN at)
           k == IF v.pane \in DOMAIN at THEN v.pane ELSE 1
<1>0. w \in Workspaces /\ InDocument(w) /\ w.open \subseteq K
    BY DEF Sound
<1>1. Rebuilt(w, at) = SetActivePane(u, k)
    BY DEF Rebuilt
<1>2. k \in DOMAIN at /\ DOMAIN at \subseteq 1 .. 4
    BY MapsAre
<1> HIDE DEF k
<1>3. /\ p \in [PaneSessions -> Places]
      /\ \A t \in PaneSessions : p[t] \in {Container, Lost} /\ (p[t] = Lost <=> t \notin w.open)
    BY <1>0 DEF Workspaces, Places, InDocument, Container, Lost
<1> HIDE DEF p
<1>4. v \in Workspaces /\ v.open = w.open /\ v.at = at /\ v.over = {} /\ v.place = p
    BY <1>0, <1>3 DEF Workspaces
<1> HIDE DEF v
<1>5. \A j \in DOMAIN at : Free(v, j)
    BY <1>2, <1>3, <1>4 DEF Free, Container, Lost
<1>6. Sound(v, K)
  BY <1>3, <1>4, <1>0 DEF InDocument, HangsWhereAssigned, Container, Lost, Sound
<1>7. Sound(u, K) /\ Same(u, v) /\ Hung(u, DOMAIN at)
  BY <1>4, <1>5, <1>6, RenderPanesIs DEF Hung, HangsIn
<1> HIDE DEF u
<1>8. u.at = at /\ u.open = w.open
    BY <1>4, <1>7 DEF Same
<1>9. (/\ \A j \in DOMAIN at : at[j] \in w.open \cup {NoSession}
       /\ \A j, l \in DOMAIN at : at[j] = at[l] /\ at[j] # NoSession => j = l)
      => Neat(u)
    BY <1>7, <1>8 DEF Neat, OneEach, Hung
<1>10. /\ Sound(SetActivePane(u, k), K) /\ Focus(SetActivePane(u, k)) /\ (Neat(u) => Neat(SetActivePane(u, k)))
       /\ SetActivePane(u, k).open = u.open
    BY <1>2, <1>7, <1>8, SetActiveIs
<1> QED  BY <1>1, <1>8, <1>9, <1>10

----------------------------------------------------------------------------
(* The steps.                                                              *)

\* The variables as one record.
LEMMA NowIs ==
    /\ Now.open = open /\ Now.at = assigned /\ Now.over = launchers /\ Now.pane = activePane
    /\ Now.session = activeSession /\ Now.place = place
  BY DEF Now

\* A step to a sound workspace keeps the invariant.
LEMMA BecomesKeeps ==
    ASSUME NEW K, NEW w, Sound(w, K), K = w.open \cup gone', Becomes(w), Focus(w), ~sloppy' => Neat(w),
           gone' \subseteq PaneSessions \ w.open, sloppy' \in BOOLEAN, DialogOK'
    PROVE  PaneInv'
  BY DEF Sound, Workspaces, Now, Becomes, PaneInv

\* The dialog and the history stay as they are while sessions come and go.
LEMMA DialogStays ==
    ASSUME PaneInv, UNCHANGED <<dialog, sloppy>>, open \cup gone \subseteq open' \cup gone'
    PROVE  DialogOK' /\ sloppy' \in BOOLEAN
  BY DEF PaneInv, DialogOK

\* A step of the user: no session comes or goes.
LEMMA ActKeeps ==
    ASSUME PaneInv, NEW w, Sound(w, open \cup gone), Focus(w), Neat(Now) => Neat(w), w.open = open, Becomes(w),
           UNCHANGED <<gone, dialog, sloppy>>
    PROVE  PaneInv'
  BY DialogStays, BecomesKeeps DEF Becomes, PaneInv

Made(w, s) == [w EXCEPT !.open = w.open \cup {s}, !.place = [w.place EXCEPT ![s] = Container]]

\* A terminal that is made waits in the container and stays out of every pane.
LEMMA MadeIs ==
    ASSUME NoSession \notin PaneSessions, NEW K, NEW w, Sound(w, K), NEW s \in PaneSessions, s \notin K
    PROVE  /\ Sound(Made(w, s), K \cup {s}) /\ (Focus(w) => Focus(Made(w, s))) /\ (Neat(w) => Neat(Made(w, s)))
           /\ Made(w, s).open = w.open \cup {s} /\ Made(w, s).at = w.at
<1> DEFINE o == w.open \cup {s}
           p == [w.place EXCEPT ![s] = Container]
           m == [w EXCEPT !.open = o, !.place = p]
<1>0. /\ w \in Workspaces /\ w.open \subseteq K /\ (\A j \in DOMAIN w.at : w.at[j] \in K \cup {NoSession})
      /\ w.over \subseteq DOMAIN w.at /\ InDocument(w) /\ HangsWhereAssigned(w)
    BY DEF Sound
<1>1. o \in SUBSET PaneSessions /\ p \in [PaneSessions -> Places] /\ p[s] = Container
      /\ \A t \in PaneSessions : t # s => p[t] = w.place[t]
    BY <1>0 DEF Workspaces, Places
<1>2. o = w.open \cup {s}
    OBVIOUS
<1> HIDE DEF o, p
<1>3. m \in Workspaces /\ m.open = o /\ m.at = w.at /\ m.over = w.over /\ m.pane = w.pane /\ m.session = w.session /\ m.place = p
    BY <1>0, <1>1 DEF Workspaces
<1> HIDE DEF m
<1>4. InDocument(m)
    BY <1>0, <1>1, <1>2, <1>3 DEF InDocument, Container, Lost
<1>5. HangsWhereAssigned(m)
    BY <1>0, <1>1, <1>3 DEF HangsWhereAssigned, Container
<1>6. Sound(m, K \cup {s})
    BY <1>0, <1>2, <1>3, <1>4, <1>5 DEF Sound
<1>7. Focus(w) => Focus(m)
    BY <1>3 DEF Focus
<1>8. Neat(w) => Neat(m)
  BY <1>2, <1>3, <1>0, <1>1 DEF Neat, OneEach, HangsIn, Workspaces
<1>9. Made(w, s) = m
    BY DEF Made, m, o, p
<1> QED  BY <1>2, <1>3, <1>6, <1>7, <1>8, <1>9

\* A session that arrives keeps the invariant, also when it replaces another.
LEMMA ArrivesKeeps ==
    ASSUME NoSession \notin PaneSessions, PaneInv, NEW s \in PaneSessions, NEW named, NEW old, SessionArrives(s, named, old)
    PROVE  PaneInv'
<1> DEFINE K == open \cup gone
           L == K \cup {s}
           made == Made(Now, s)
           w == IF old \in open THEN RemoveSessionUI(made, old) ELSE made
           i == IF named # 0 THEN named ELSE IF FirstEmpty(w) # 0 THEN FirstEmpty(w) ELSE w.pane
           r == AssignSessionToPane(w, s, i)
<1>0. Sound(Now, K) /\ Focus(Now) /\ (~sloppy => Neat(Now)) /\ gone \subseteq PaneSessions \ open
    BY DEF PaneInv
<1>1. s \notin K /\ UNCHANGED <<dialog, sloppy>> /\ gone' = IF old \in open THEN gone \cup {old} ELSE gone
    BY DEF SessionArrives
<1>2. Becomes(r)
    BY DEF SessionArrives, Now, Made
<1>3. /\ Sound(made, L) /\ Focus(made) /\ (Neat(Now) => Neat(made)) /\ made.open = open \cup {s} /\ made.at = assigned
    BY <1>0, <1>1, MadeIs, NowIs
<1> HIDE DEF made, L
<1>4. \A j \in DOMAIN assigned : assigned[j] # s
    BY <1>0, <1>1, NowIs DEF Sound
<1>5. /\ Sound(w, L) /\ Focus(w) /\ (Neat(made) => Neat(w)) /\ (\A j \in DOMAIN w.at : w.at[j] # s)
      /\ w.open = IF old \in open THEN (open \cup {s}) \ {old} ELSE open \cup {s}
  <2>1. CASE old \in open
    <3>1. old \in made.open
        BY <1>3, <2>1
    <3>2. w = RemoveSessionUI(made, old)
        BY <2>1
    <3>3. /\ Sound(w, L) /\ Focus(w) /\ (Neat(made) => Neat(w)) /\ w.open = made.open \ {old} /\ DOMAIN w.at = DOMAIN made.at
          /\ \A j \in DOMAIN made.at : w.at[j] \in {made.at[j], NoSession}
        BY <1>3, <3>1, <3>2, RemoveIs
    <3> HIDE DEF w
    <3> QED  BY <1>3, <1>4, <2>1, <3>3
  <2>2. CASE old \notin open
      BY <1>3, <1>4, <2>2
  <2> QED  BY <2>1, <2>2
<1>6. s \in w.open
    BY <1>1, <1>5
<1> HIDE DEF w, i
<1>7. Sound(r, L) /\ Focus(r) /\ (Neat(w) => Neat(r)) /\ r.open = w.open
    BY <1>5, <1>6, AssignIs
<1> HIDE DEF r
<1>8. L = r.open \cup gone' /\ gone' \subseteq PaneSessions \ r.open /\ open' = r.open
  <2>1. open' = r.open
      BY <1>2 DEF Becomes
  <2> QED  BY <1>0, <1>1, <1>5, <1>7, <2>1, NowIs DEF L, Sound, Workspaces
<1>9. DialogOK' /\ sloppy' \in BOOLEAN
    BY <1>1, <1>8, DialogStays DEF L
<1>10. ~sloppy' => Neat(r)
    BY <1>0, <1>1, <1>3, <1>5, <1>7
<1> QED  BY <1>2, <1>7, <1>8, <1>9, <1>10, BecomesKeeps

\* A session that is removed keeps the invariant: it leaves its pane and its launcher.
LEMMA RemovedKeeps ==
    ASSUME NoSession \notin PaneSessions, PaneInv, NEW s \in PaneSessions, SessionRemoved(s)
    PROVE  PaneInv'
<1> DEFINE K == open \cup gone
           r == RemoveSessionUI(Now, s)
<1>0. Sound(Now, K) /\ Focus(Now) /\ (~sloppy => Neat(Now)) /\ gone \subseteq PaneSessions \ open
    BY DEF PaneInv
<1>1. s \in open /\ gone' = gone \cup {s} /\ UNCHANGED <<dialog, sloppy>> /\ Becomes(r)
    BY DEF SessionRemoved
<1>2. Sound(r, K) /\ Focus(r) /\ (Neat(Now) => Neat(r)) /\ r.open = open \ {s}
    BY <1>0, <1>1, RemoveIs, NowIs
<1> HIDE DEF r
<1>3. K = r.open \cup gone' /\ gone' \subseteq PaneSessions \ r.open /\ open' = r.open
    BY <1>0, <1>1, <1>2 DEF Becomes
<1>4. DialogOK' /\ sloppy' \in BOOLEAN
    BY <1>1, <1>3, DialogStays
<1> QED  BY <1>0, <1>1, <1>2, <1>3, <1>4, BecomesKeeps

\* Switching to a session keeps the invariant, in whichever pane it is.
LEMMA SwitchKeeps ==
    ASSUME NoSession \notin PaneSessions, PaneInv, NEW s \in PaneSessions, SwitchSession(s)
    PROVE  PaneInv'
<1> DEFINE K == open \cup gone
           i == IndexOf(Now, s)
           I == {j \in DOMAIN assigned : assigned[j] = s}
<1>0. Sound(Now, K) /\ Focus(Now) /\ s \in open /\ UNCHANGED <<gone, dialog, sloppy>>
    BY DEF PaneInv, SwitchSession
<1>1. I \subseteq 1 .. 4 /\ I \subseteq DOMAIN assigned
    BY <1>0, NowIs, MapsAre DEF Sound, Workspaces
<1>2. IF I = {} THEN i = 0 ELSE i \in I
    BY <1>1, FirstOfIs, NowIs DEF IndexOf
<1>3. CASE i # 0
  <2>1. Becomes(IF i \in launchers THEN RestoreLauncher(Now, i) ELSE SetActivePane(Now, i))
      BY <1>3 DEF SwitchSession
  <2>2. CASE i \in launchers
    <3> DEFINE r == RestoreLauncher(Now, i)
    <3>1. Sound(r, K) /\ Focus(r) /\ (Neat(Now) => Neat(r)) /\ r.open = open /\ Becomes(r)
        BY <1>0, <2>1, <2>2, RestoreIs, NowIs
    <3> HIDE DEF r
    <3> QED  BY <1>0, <3>1, ActKeeps
  <2>3. CASE i \notin launchers
    <3> DEFINE r == SetActivePane(Now, i)
    <3>1. Sound(r, K) /\ Focus(r) /\ (Neat(Now) => Neat(r)) /\ r.open = open /\ Becomes(r)
        BY <1>0, <2>1, <2>3, SetActiveIs, NowIs
    <3> HIDE DEF r
    <3> QED  BY <1>0, <3>1, ActKeeps
  <2> QED  BY <2>2, <2>3
<1>4. CASE i = 0
  <2> DEFINE k == IF assigned[activePane] # NoSession /\ FirstEmpty(Now) # 0 THEN FirstEmpty(Now) ELSE activePane
             r == AssignSessionToPane(Now, s, k)
  <2>1. Becomes(r)
      BY <1>4 DEF SwitchSession
  <2>2. \A j \in DOMAIN assigned : assigned[j] # s
    BY <1>1, <1>2, <1>4
  <2> HIDE DEF k
  <2>3. Sound(r, K) /\ Focus(r) /\ (Neat(Now) => Neat(r)) /\ r.open = open
      BY <1>0, <2>2, AssignIs, NowIs
  <2> HIDE DEF r
  <2> QED  BY <1>0, <2>1, <2>3, ActKeeps
<1> QED  BY <1>3, <1>4

\* A click on a pane keeps the invariant.
LEMMA ClickKeeps ==
    ASSUME NoSession \notin PaneSessions, PaneInv, NEW i, ClickPane(i)
    PROVE  PaneInv'
<1> DEFINE r == SetActivePane(Now, i)
<1>0. Sound(Now, open \cup gone) /\ Focus(Now) /\ UNCHANGED <<gone, dialog, sloppy>> /\ Becomes(r)
    BY DEF PaneInv, ClickPane
<1>1. Sound(r, open \cup gone) /\ Focus(r) /\ (Neat(Now) => Neat(r)) /\ r.open = open
    BY <1>0, SetActiveIs, NowIs
<1> HIDE DEF r
<1> QED  BY <1>0, <1>1, ActKeeps

\* showConnectionLauncher saves the terminal of the pane before it draws the pane.
LEMMA LauncherKeeps ==
    ASSUME NoSession \notin PaneSessions, PaneInv, NEW i \in DOMAIN assigned, ShowConnectionLauncher(i)
    PROVE  PaneInv'
<1> DEFINE K == open \cup gone
           s == assigned[i]
           p == IF s \in open THEN Moved(place, s, Container) ELSE place
           o == IF s # NoSession THEN launchers \cup {i} ELSE launchers
           v == [Now EXCEPT !.place = p, !.over = o]
           u == RenderPane(v, i)
           r == SetActivePane(u, i)
<1>0. /\ Now \in Workspaces /\ open \subseteq K /\ (\A j \in DOMAIN assigned : assigned[j] \in K \cup {NoSession})
      /\ launchers \subseteq DOMAIN assigned /\ InDocument(Now) /\ HangsWhereAssigned(Now)
    BY NowIs DEF PaneInv, Sound
<1>1. UNCHANGED <<gone, dialog, sloppy>> /\ Becomes(r)
    BY NowIs DEF ShowConnectionLauncher
<1>2. i \in 1 .. 4 /\ s \in Shows /\ open \subseteq PaneSessions /\ place \in [PaneSessions -> Places] /\ assigned \in PaneMaps
    BY <1>0, NowIs, MapsAre DEF Workspaces
<1>3. p = IF s \in open THEN [place EXCEPT ![s] = Container] ELSE place
    BY <1>0, <1>2, NowIs DEF Moved, InDocument
<1> HIDE DEF p
<1>4. /\ p \in [PaneSessions -> Places]
      /\ \A t \in PaneSessions : p[t] = place[t] \/ (t = s /\ t \in open /\ p[t] = Container)
      /\ s \in open => p[s] = Container
    BY <1>2, <1>3 DEF Places
<1>5. o \in SUBSET (1 .. 4) /\ o \subseteq DOMAIN assigned /\ (\A j \in o : j \in launchers \/ j = i) /\ launchers \subseteq o
      /\ (i \notin o => s = NoSession)
    BY <1>0, <1>2, MapsAre
<1> HIDE DEF o
<1>6. /\ v \in Workspaces /\ v.open = open /\ v.at = assigned /\ v.over = o /\ v.place = p /\ v.pane = activePane
      /\ v.session = activeSession
    BY <1>0, <1>4, <1>5, NowIs DEF Workspaces
<1> HIDE DEF v, s
<1>7. Free(v, i)
  BY <1>6, <1>2, <1>4, <1>0, NowIs DEF Free, Container, HangsWhereAssigned, InDocument, Lost, s
<1>8. Sound(v, K)
  BY <1>0, <1>4, <1>6, NowIs, <1>7, <1>5 DEF InDocument, Lost, Container, HangsWhereAssigned, Free,
     Sound
<1>9. Redrawn(u, v, i)
    BY <1>6, <1>7, <1>8, RenderIs DEF Sound
<1> HIDE DEF u
<1>10. Sound(u, K) /\ Same(u, v)
    BY <1>6, <1>7, <1>8, <1>9, RedrawnSound DEF Redrawn
<1>11. Neat(Now) => Neat(u)
  <2> SUFFICES ASSUME Neat(Now) PROVE Neat(u)
      OBVIOUS
  <2>1. OneEach(v)
      BY <1>6, NowIs DEF Neat, OneEach
  <2> DEFINE H == DOMAIN assigned \ {i}
  <2>2. HangsIn(v, H)
    <3> SUFFICES ASSUME NEW j \in DOMAIN assigned, j # i, assigned[j] # NoSession, j \notin o PROVE p[assigned[j]] = j
        BY <1>6 DEF HangsIn
    <3>1. assigned[j] \in open /\ assigned[j] # s /\ assigned[j] \in PaneSessions
        BY <1>2, NowIs DEF Neat, OneEach, s
    <3>2. place[assigned[j]] = j
        BY <1>5, NowIs DEF Neat, HangsIn
    <3> QED  BY <1>4, <3>1, <3>2
  <2>3. H \subseteq DOMAIN v.at /\ H \cup {i} = DOMAIN v.at
      BY <1>6
  <2> HIDE DEF H
  <2>4. HangsIn(u, DOMAIN v.at)
      BY <1>6, <1>9, <2>1, <2>2, <2>3, RedrawnHangs
  <2> QED  BY <1>10, <2>1, <2>4 DEF Neat, OneEach, Same
<1>12. i \in DOMAIN u.at /\ u.open = open
    BY <1>6, <1>10 DEF Same
<1>13. Sound(r, K) /\ Focus(r) /\ (Neat(Now) => Neat(r)) /\ r.open = open
    BY <1>10, <1>11, <1>12, SetActiveIs
<1> HIDE DEF r
<1> QED  BY <1>1, <1>13, ActKeeps

\* Leaving a launcher keeps the invariant.
LEMMA LeaveKeeps ==
    ASSUME NoSession \notin PaneSessions, PaneInv, NEW i, NEW activate, LeaveLauncher(i, activate)
    PROVE  PaneInv'
<1>0. Sound(Now, open \cup gone) /\ Focus(Now) /\ UNCHANGED <<gone, dialog, sloppy>>
    BY DEF PaneInv, LeaveLauncher
<1>1. CASE activate
  <2> DEFINE r == RestoreLauncher(Now, i)
  <2>1. Sound(r, open \cup gone) /\ Focus(r) /\ (Neat(Now) => Neat(r)) /\ r.open = open /\ Becomes(r)
      BY <1>0, <1>1, RestoreIs, NowIs DEF LeaveLauncher
  <2> HIDE DEF r
  <2> QED  BY <1>0, <2>1, ActKeeps
<1>2. CASE ~activate
  <2> DEFINE r == Uncovered(Now, i)
  <2>1. /\ Sound(r, open \cup gone) /\ (Neat(Now) => Neat(r)) /\ r.open = open /\ r.at = assigned /\ r.over = launchers \ {i}
        /\ r.pane = activePane /\ r.session = activeSession /\ Becomes(r)
      BY <1>0, <1>2, UncoveredIs, NowIs DEF LeaveLauncher
  <2> HIDE DEF r
  <2>2. Focus(r)
      BY <1>0, <2>1, NowIs DEF Focus
  <2> QED  BY <1>0, <2>1, <2>2, ActKeeps
<1> QED  BY <1>1, <1>2

\* Drawing the empty panes keeps the invariant.
LEMMA PanesRefreshKeep ==
    ASSUME NoSession \notin PaneSessions, PaneInv, RefreshEmptyPanes
    PROVE  PaneInv'
<1> DEFINE I == {j \in DOMAIN assigned : assigned[j] = NoSession \/ j \in launchers}
           H == IF Neat(Now) THEN DOMAIN assigned ELSE {}
           r == RenderPanes(Now, I)
<1>0. Sound(Now, open \cup gone) /\ Focus(Now) /\ UNCHANGED <<gone, dialog, sloppy>> /\ Becomes(r)
    BY DEF PaneInv, RefreshEmptyPanes
<1>1. I \subseteq DOMAIN Now.at /\ H \subseteq DOMAIN Now.at
    BY NowIs
<1>2. \A j \in I : Free(Now, j)
  BY NowIs, <1>0, MapsAre DEF Free, Sound, Workspaces, HangsWhereAssigned
<1>3. Hung(Now, H)
    BY NowIs DEF Hung, Neat, HangsIn
<1> HIDE DEF I
<1>4. Sound(r, open \cup gone) /\ Same(r, Now) /\ Hung(r, H \cup I)
    BY <1>0, <1>1, <1>2, <1>3, RenderPanesIs
<1> HIDE DEF r
<1>5. Focus(r) /\ r.open = open
    BY <1>0, <1>4, NowIs DEF Focus, Same
<1>6. Neat(Now) => Neat(r)
  <2> SUFFICES ASSUME Neat(Now) PROVE Neat(r)
      OBVIOUS
  <2>1. H \cup I = DOMAIN r.at
      BY <1>1, <1>4, NowIs DEF Same
  <2>2. OneEach(r)
      BY <1>4 DEF Neat, OneEach, Same
  <2> HIDE DEF H
  <2> QED  BY <1>4, <2>1, <2>2 DEF Neat, Hung
<1> QED  BY <1>0, <1>4, <1>5, <1>6, ActKeeps

\* Choosing a layout keeps the invariant: sessions beyond its panes hang nowhere.
LEMMA LayoutKeeps ==
    ASSUME NoSession \notin PaneSessions, PaneInv, NEW n \in PaneLayouts, ChooseLayout(n)
    PROVE  PaneInv'
<1>0. Sound(Now, open \cup gone) /\ Focus(Now) /\ UNCHANGED <<gone, sloppy>> /\ open \subseteq open \cup gone
    BY DEF PaneInv, ChooseLayout
<1>1. CASE open = {}
  <2> DEFINE at == [j \in 1 .. n |-> IF j <= Len(assigned) THEN assigned[j] ELSE NoSession]
             r == Rebuilt(Now, at)
  <2>1. Becomes(r) /\ UNCHANGED dialog
      BY <1>1 DEF ChooseLayout
  <2>2. \A j \in 1 .. n : at[j] \in Shows /\ at[j] \in open \cup gone \cup {NoSession}
        /\ (Neat(Now) => at[j] = NoSession)
    BY <1>0, NowIs, PaneLayoutsAssumption, <1>1 DEF Shows, Sound, Workspaces, PaneMaps, Neat,
       OneEach
  <2>3. at \in PaneMaps /\ DOMAIN at = 1 .. n
    <3>1. at \in [1 .. n -> Shows]
        BY <2>2
    <3> HIDE DEF at
    <3> QED  BY <3>1, MapsFrom
  <2> HIDE DEF at
  <2>4. /\ Sound(r, open \cup gone) /\ Focus(r) /\ r.open = open
        /\ (/\ \A j \in DOMAIN at : at[j] \in open \cup {NoSession}
            /\ \A j, k \in DOMAIN at : at[j] = at[k] /\ at[j] # NoSession => j = k)
           => Neat(r)
      BY <1>0, <2>2, <2>3, RebuiltIs, NowIs
  <2>5. Neat(Now) => Neat(r)
      BY <2>2, <2>3, <2>4
  <2> HIDE DEF r
  <2> QED  BY <1>0, <2>1, <2>4, <2>5, ActKeeps
<1>2. CASE open # {}
  <2>1. dialog' = [layout |-> n, offered |-> open] /\ UNCHANGED <<open, assigned, launchers, activePane, activeSession, place>>
      BY <1>2 DEF ChooseLayout
  <2>2. dialog' \in [layout : PaneLayouts, offered : SUBSET (open \cup gone)]
      BY <2>1
  <2>3. DialogOK'
      BY <1>0, <2>1, <2>2 DEF DialogOK
  <2>4. Now' = Now
      BY <2>1 DEF Now
  <2> QED  BY <1>0, <2>1, <2>3, <2>4 DEF PaneInv
<1> QED  BY <1>1, <1>2

\* Applied with each session once and all of them open, the dialog leaves no disorder.
LEMMA ApplyKeeps ==
    ASSUME NoSession \notin PaneSessions, PaneInv, NEW chosen, ApplyDialog(chosen)
    PROVE  PaneInv'
<1> DEFINE n == dialog.layout
           at == [j \in 1 .. n |-> chosen[j]]
           r == Rebuilt(Now, at)
<1>0. Sound(Now, open \cup gone) /\ gone \subseteq PaneSessions \ open /\ open \subseteq PaneSessions /\ sloppy \in BOOLEAN
    BY NowIs DEF PaneInv, Sound, Workspaces
<1>1. dialog \in [layout : PaneLayouts, offered : SUBSET (open \cup gone)]
    BY DEF PaneInv, DialogOK, ApplyDialog
<1>2. n \in PaneLayouts /\ chosen \in [1 .. n -> open \cup gone \cup {NoSession}]
    BY <1>1 DEF ApplyDialog
<1>3. /\ Becomes(r) /\ dialog' = NoSession /\ gone' = gone
      /\ sloppy' = (\/ sloppy
                    \/ \E j \in DOMAIN chosen : chosen[j] \in gone
                    \/ \E j, k \in DOMAIN chosen : j # k /\ chosen[j] = chosen[k] /\ chosen[j] # NoSession)
    BY DEF ApplyDialog
<1> HIDE DEF n
<1>4. at = chosen /\ chosen \in [1 .. n -> Shows]
    BY <1>0, <1>2 DEF Shows
<1>5. chosen \in PaneMaps /\ \A j \in DOMAIN chosen : chosen[j] \in open \cup gone \cup {NoSession}
    BY <1>2, <1>4, MapsFrom
<1>6. r = Rebuilt(Now, chosen)
    BY <1>4
<1> HIDE DEF r, at
<1>7. /\ Sound(r, open \cup gone) /\ Focus(r) /\ r.open = open
      /\ (/\ \A j \in DOMAIN chosen : chosen[j] \in open \cup {NoSession}
          /\ \A j, k \in DOMAIN chosen : chosen[j] = chosen[k] /\ chosen[j] # NoSession => j = k)
         => Neat(r)
    BY <1>0, <1>5, <1>6, RebuiltIs, NowIs
<1>8. ~sloppy' => Neat(r)
    BY <1>3, <1>5, <1>7
<1>9. sloppy' \in BOOLEAN /\ DialogOK'
    BY <1>0, <1>3 DEF DialogOK
<1> QED  BY <1>0, <1>3, <1>7, <1>8, <1>9, BecomesKeeps

\* The panes start with the invariant.
LEMMA PanesStart ==
    ASSUME NoSession \notin PaneSessions, PaneInit
    PROVE  PaneInv
<1>1. /\ Now = [open |-> {}, at |-> assigned, over |-> {}, pane |-> 1, session |-> NoSession, place |-> place]
      /\ open = {} /\ gone = {} /\ dialog = NoSession /\ sloppy = FALSE
    BY DEF PaneInit, Now
<1>2. assigned \in PaneMaps /\ DOMAIN assigned = 1 .. 1 /\ assigned[1] = NoSession
  <2>1. assigned = <<NoSession>> /\ 1 \in PaneLayouts
      BY PaneLayoutsAssumption DEF PaneInit
  <2>2. assigned \in [1 .. 1 -> Shows] /\ assigned[1] = NoSession
      BY <2>1 DEF Shows
  <2> QED  BY <2>1, <2>2, MapsFrom
<1>3. place \in [PaneSessions -> Places] /\ \A s \in PaneSessions : place[s] = Lost
    BY DEF PaneInit, Places
<1>4. Now \in Workspaces
    BY <1>1, <1>2, <1>3 DEF Workspaces, Shows
<1>5. \A i \in 1 .. 1 : i = 1
    OBVIOUS
<1>6. InDocument(Now) /\ HangsWhereAssigned(Now)
    BY <1>1, <1>3 DEF InDocument, HangsWhereAssigned, Lost
<1>7. Sound(Now, open \cup gone)
    BY <1>1, <1>2, <1>4, <1>5, <1>6 DEF Sound
<1>8. Focus(Now) /\ Neat(Now)
    BY <1>1, <1>2, <1>5 DEF Focus, Neat, OneEach, HangsIn
<1> QED  BY <1>1, <1>7, <1>8 DEF PaneInv, DialogOK

\* Every step keeps the invariant.
LEMMA PanesStep ==
    ASSUME NoSession \notin PaneSessions, PaneInv, [PaneNext]_paneVars
    PROVE  PaneInv'
<1>1. CASE PaneNext
  <2>1. ASSUME NEW s \in PaneSessions, NEW named, NEW old, SessionArrives(s, named, old) PROVE PaneInv'
      BY <2>1, ArrivesKeeps
  <2>2. ASSUME NEW s \in PaneSessions, SessionRemoved(s) PROVE PaneInv'
      BY <2>2, RemovedKeeps
  <2>3. ASSUME NEW s \in PaneSessions, SwitchSession(s) PROVE PaneInv'
      BY <2>3, SwitchKeeps
  <2>4. ASSUME NEW i \in DOMAIN assigned, ClickPane(i) PROVE PaneInv'
      BY <2>4, ClickKeeps
  <2>5. ASSUME NEW i \in DOMAIN assigned, ShowConnectionLauncher(i) PROVE PaneInv'
      BY <2>5, LauncherKeeps
  <2>6. ASSUME NEW i \in DOMAIN assigned, NEW a \in BOOLEAN, LeaveLauncher(i, a) PROVE PaneInv'
      BY <2>6, LeaveKeeps
  <2>7. CASE RefreshEmptyPanes
      BY <2>7, PanesRefreshKeep
  <2>8. ASSUME NEW n \in PaneLayouts, ChooseLayout(n) PROVE PaneInv'
      BY <2>8, LayoutKeeps
  <2>9. ASSUME NEW chosen, ApplyDialog(chosen) PROVE PaneInv'
      BY <2>9, ApplyKeeps
  <2>10. CASE CancelDialog
    BY <2>10 DEF CancelDialog, Now, PaneInv, DialogOK
  <2> QED  BY <1>1, <2>1, <2>2, <2>3, <2>4, <2>5, <2>6, <2>7, <2>8, <2>9, <2>10 DEF PaneNext
<1>2. CASE UNCHANGED paneVars
  BY <1>2 DEF paneVars, Now, PaneInv, DialogOK
<1> QED  BY <1>1, <1>2

\* The invariant implies the promise of the panes.
LEMMA PanesAreKept ==
    ASSUME NoSession \notin PaneSessions, PaneInv
    PROVE  PanesKeepSessions
<1>0. /\ Sound(Now, open \cup gone) /\ Focus(Now) /\ (~sloppy => Neat(Now)) /\ gone \subseteq PaneSessions \ open /\ DialogOK
    BY DEF PaneInv
<1>1. /\ open \subseteq PaneSessions /\ assigned \in PaneMaps /\ launchers \subseteq DOMAIN assigned
      /\ activePane \in DOMAIN assigned /\ activeSession \in Shows /\ place \in [PaneSessions -> Places]
    BY <1>0, NowIs DEF Sound, Workspaces, Focus
<1>2. PICK n \in PaneLayouts : assigned \in [1 .. n -> Shows]
    BY <1>1 DEF PaneMaps
<1>3. n \in Nat /\ n \in 1 .. 4
    BY PaneLayoutsAssumption
<1>4. Len(assigned) = n /\ DOMAIN assigned = 1 .. n
  BY <1>2, <1>3
<1>5. Range(assigned) \subseteq Shows
    BY <1>2 DEF Range
<1>6. MaxLayout \in PaneLayouts /\ \A m \in PaneLayouts : m <= MaxLayout
  <2>1. \E k \in PaneLayouts : \A m \in PaneLayouts : m <= k
    BY PaneLayoutsAssumption
  <2> QED  BY <2>1 DEF MaxLayout
<1>7. place \in [PaneSessions -> {Container, Lost} \cup 1 .. MaxLayout]
  BY <1>6, PaneLayoutsAssumption, <1>1, <1>0, NowIs, <1>3, <1>4 DEF Sound, HangsWhereAssigned,
     Places
<1>8. PaneTypeOK
    BY <1>0, <1>1, <1>4, <1>5, <1>7 DEF PaneTypeOK, Shows, DialogOK
<1>9. NoTerminalLost
    BY <1>0, <1>1, NowIs DEF NoTerminalLost, Sound, InDocument
<1>10. InputGoesToWhatIsShown
  BY <1>0, NowIs DEF InputGoesToWhatIsShown, Focus, Neat, OneEach, HangsIn
<1> QED  BY <1>8, <1>9, <1>10 DEF PanesKeepSessions

\* For every set of sessions and layouts of one to four panes: whatever is drawn,
\* replaced, covered, split and closed, no terminal of an open session leaves the
\* document, and input goes to a session whose terminal the user sees in the active
\* pane (renderPane, assignSessionToPane, setActivePane of session-manager.js).
THEOREM PanesStaySafe ==
    ASSUME NoSession \notin PaneSessions
    PROVE  PaneSpec => []PanesKeepSessions
<1>1. PaneInit => PaneInv
    BY PanesStart
<1>2. PaneInv /\ [PaneNext]_paneVars => PaneInv'
    BY PanesStep
<1>3. PaneInv => PanesKeepSessions
    BY PanesAreKept
<1> QED  BY <1>1, <1>2, <1>3, PTL DEF PaneSpec

----------------------------------------------------------------------------
(* The dialogs that open file sources.                                      *)

DialogSpec == DialogInit /\ [][DialogNext]_sourceDialogVars

\* A queue is a sequence of whatever messages are in it.
IsQueue(q) == q \in Seq(ToSet(q))

\* Requests have numbers that were given, and the answer of a save is about the
\* definition that the form asked to save.
MessageFits(m, n, op) ==
    /\ m.kind \in {"smb", "gateway", "quick", "save", "saved"} => m.request \in 1 .. n
    /\ m.kind \in {"save", "saved"} /\ op.action = "save" /\ op.request = m.request =>
           m.definition = op.definition
QueueFits(q, n, op) == IsQueue(q) /\ \A m \in ToSet(q) : MessageFits(m, n, op)
MessagesInv == QueueFits(upstream, tries, smb.operation) /\ QueueFits(downstream, tries, smb.operation)

\* Every request has its job, its side and its kind; whatever is open or was
\* shown or abandoned goes back to a request, and only ordinary ones go adrift.
RequestsInv ==
    /\ tries \in Nat
    /\ IsQueue(asked) /\ Len(asked) = tries
    /\ IsQueue(jobs) /\ Len(jobs) = tries
    /\ sources \subseteq 1 .. tries
    /\ \A r \in adrift : r \in 1 .. tries /\ Ordinary(r)
    /\ abandonedTries \subseteq 1 .. tries
    /\ shownIn \subseteq (1 .. tries) \X (Sides \cup {NoSide})

\* The attempt that is pending was made for the side of the dialog, and it has
\* neither been given up nor been answered.
AttemptInv ==
    /\ DOMAIN smb = DOMAIN BlankSmb /\ smb.side \in Sides \cup {NoSide}
    /\ smb.pending \in 0 .. tries
    /\ smb.pending # 0 => /\ asked[smb.pending].side = smb.side
                          /\ smb.pending \notin abandonedTries
                          /\ \A e \in shownIn : e[1] # smb.pending

DialogInv == RequestsInv /\ AttemptInv /\ MessagesInv /\ SourcesSafe

(* Queues as the sets of their messages.                                    *)

\* A sequence is a queue.
LEMMA SequencesQueue ==
    ASSUME NEW S, NEW q \in Seq(S)
    PROVE  IsQueue(q) /\ Len(q) \in Nat /\ DOMAIN q = 1 .. Len(q)
  BY LenProperties, SeqDef DEF ToSet, IsQueue

\* Joining two queues joins their messages.
LEMMA QueuesJoin ==
    ASSUME NEW q, NEW t, IsQueue(q), IsQueue(t)
    PROVE  /\ IsQueue(q \o t) /\ ToSet(q \o t) = ToSet(q) \cup ToSet(t)
           /\ Len(q \o t) = Len(q) + Len(t)
           /\ \A i \in 1 .. Len(q) : (q \o t)[i] = q[i]
<1> DEFINE S == ToSet(q) \cup ToSet(t)
<1>1. q \in Seq(S) /\ t \in Seq(S)
  BY LenProperties, SequencesQueue, SeqDef DEF IsQueue, ToSet
<1>2. /\ q \o t \in Seq(S) /\ Len(q \o t) = Len(q) + Len(t)
      /\ \A i \in 1 .. Len(q) + Len(t) :
            (q \o t)[i] = IF i <= Len(q) THEN q[i] ELSE t[i - Len(q)]
  BY <1>1, ConcatProperties
<1>3. /\ Len(q) \in Nat /\ Len(t) \in Nat /\ DOMAIN q = 1 .. Len(q) /\ DOMAIN t = 1 .. Len(t)
      /\ DOMAIN (q \o t) = 1 .. Len(q) + Len(t)
  BY <1>1, <1>2, SequencesQueue
<1>4. ToSet(q \o t) = S
  <2>1. ToSet(q \o t) \subseteq S
    BY <1>2, <1>3 DEF ToSet
  <2>2. ASSUME NEW i \in 1 .. Len(q) PROVE q[i] \in ToSet(q \o t)
    BY <1>3, <1>2 DEF ToSet
  <2>3. ASSUME NEW i \in 1 .. Len(t) PROVE t[i] \in ToSet(q \o t)
    <3>1. /\ Len(q) + i \in 1 .. Len(q) + Len(t) /\ ~(Len(q) + i <= Len(q))
          /\ (Len(q) + i) - Len(q) = i
      BY <1>3
    <3> QED BY <3>1, <1>2, <1>3 DEF ToSet
  <2> QED BY <2>1, <2>2, <2>3, <1>3 DEF ToSet
<1>5. \A i \in 1 .. Len(q) : i \in 1 .. Len(q) + Len(t) /\ i <= Len(q)
  BY <1>3
<1> QED BY <1>2, <1>4, <1>5, SequencesQueue

\* The short queues a handler sends.
LEMMA ShortQueues ==
    ASSUME NEW a, NEW b
    PROVE  /\ IsQueue(<<>>) /\ ToSet(<<>>) = {}
           /\ IsQueue(<<a>>) /\ ToSet(<<a>>) = {a} /\ Len(<<a>>) = 1
           /\ IsQueue(<<a, b>>) /\ ToSet(<<a, b>>) = {a, b}
<1>1. IsQueue(<<>>) /\ ToSet(<<>>) = {}
  <2>1. <<>> \in Seq({}) /\ Len(<<>>) = 0
    OBVIOUS
  <2>2. DOMAIN <<>> = 1 .. 0 /\ IsQueue(<<>>)
    BY <2>1, SequencesQueue
  <2> QED BY <2>2 DEF ToSet
<1>2. <<a>> \in Seq({a, b}) /\ <<a, b>> \in Seq({a, b}) /\ Len(<<a>>) = 1 /\ Len(<<a, b>>) = 2
  OBVIOUS
<1>3. IsQueue(<<a>>) /\ IsQueue(<<a, b>>) /\ DOMAIN <<a>> = 1 .. 1 /\ DOMAIN <<a, b>> = 1 .. 2
  BY <1>2, SequencesQueue
<1>4. ToSet(<<a>>) = {a}
  BY <1>3 DEF ToSet
<1>5. ToSet(<<a, b>>) = {a, b}
  BY <1>3 DEF ToSet
<1> QED BY <1>1, <1>2, <1>3, <1>4, <1>5

\* Sending one message.
LEMMA QueueGrows ==
    ASSUME NEW q, NEW m, IsQueue(q)
    PROVE  /\ IsQueue(Append(q, m)) /\ ToSet(Append(q, m)) = ToSet(q) \cup {m}
           /\ Len(Append(q, m)) = Len(q) + 1
           /\ \A i \in 1 .. Len(q) : Append(q, m)[i] = q[i]
           /\ Append(q, m)[Len(q) + 1] = m
<1> DEFINE S == ToSet(q) \cup {m}
<1>1. q \in Seq(S)
  BY LenProperties, SequencesQueue, SeqDef DEF IsQueue, ToSet
<1>2. /\ Append(q, m) \in Seq(S) /\ Len(Append(q, m)) = Len(q) + 1
      /\ \A i \in 1 .. Len(q) : Append(q, m)[i] = q[i]
      /\ Append(q, m)[Len(q) + 1] = m
  BY <1>1, AppendProperties
<1>3. /\ Len(q) \in Nat /\ DOMAIN q = 1 .. Len(q)
      /\ DOMAIN Append(q, m) = 1 .. Len(q) + 1
  BY <1>1, <1>2, SequencesQueue
<1>4. \A i \in 1 .. Len(q) + 1 : i \in 1 .. Len(q) \/ i = Len(q) + 1
  BY <1>3
<1>5. Len(q) + 1 \in 1 .. Len(q) + 1 /\ \A i \in 1 .. Len(q) : i \in 1 .. Len(q) + 1
  BY <1>3
<1>6. ToSet(Append(q, m)) = S
  BY <1>2, <1>3, <1>4, <1>5 DEF ToSet
<1> QED BY <1>2, <1>6, SequencesQueue

\* Sending one message is joining a queue of one.
LEMMA AppendJoins ==
    ASSUME NEW q, NEW m, IsQueue(q)
    PROVE  Append(q, m) = q \o <<m>>
<1> DEFINE S == ToSet(q) \cup {m}
<1>1. q \in Seq(S)
  BY LenProperties, SequencesQueue, SeqDef DEF IsQueue, ToSet
<1>2. m \in S
  OBVIOUS
<1> HIDE DEF S
<1> QED BY <1>1, <1>2, AppendIsConcat

\* Taking the first message leaves the others.
LEMMA QueueShrinks ==
    ASSUME NEW q, IsQueue(q), q # <<>>
    PROVE  IsQueue(Tail(q)) /\ Head(q) \in ToSet(q) /\ ToSet(q) = {Head(q)} \cup ToSet(Tail(q))
<1>1. /\ q \in Seq(ToSet(q)) /\ Len(q) \in Nat \ {0} /\ DOMAIN q = 1 .. Len(q)
  BY SequencesQueue, EmptySeq DEF IsQueue
<1>2. /\ Head(q) = q[1] /\ Tail(q) \in Seq(ToSet(q)) /\ Len(Tail(q)) = Len(q) - 1
      /\ \A i \in 1 .. Len(q) - 1 : Tail(q)[i] = q[i + 1]
  BY <1>1, HeadTailProperties
<1>3. DOMAIN Tail(q) = 1 .. Len(q) - 1
  BY <1>1, <1>2, SequencesQueue
<1>4. ToSet(Tail(q)) \subseteq ToSet(q) /\ Head(q) \in ToSet(q)
  BY <1>1, <1>2, <1>3 DEF ToSet
<1>5. ASSUME NEW i \in 1 .. Len(q) PROVE q[i] = Head(q) \/ q[i] \in ToSet(Tail(q))
  <2>1. CASE i = 1
    BY <2>1, <1>2
  <2>2. CASE i # 1
    <3>1. i - 1 \in 1 .. Len(q) - 1 /\ (i - 1) + 1 = i
      BY <2>2, <1>1
    <3> QED BY <3>1, <1>2, <1>3 DEF ToSet
  <2> QED BY <2>1, <2>2
<1> QED BY <1>1, <1>2, <1>4, <1>5, SequencesQueue DEF ToSet

----------------------------------------------------------------------------
(* How the parts of the invariant are kept.                                 *)

\* Messages still fit when more requests have numbers, as long as the operation
\* of the form is the same, is no save, or has a number that is new.
OperationFollows(n, op, k, p) ==
    /\ n \in Nat /\ k \in Nat /\ n <= k
    /\ p = op \/ p.action # "save" \/ p.request \notin 1 .. n

\* So the messages of a queue still fit.
LEMMA MessagesStillFit ==
    ASSUME NEW q, NEW n, NEW op, NEW k, NEW p, QueueFits(q, n, op), OperationFollows(n, op, k, p)
    PROVE  QueueFits(q, k, p)
  BY DEF QueueFits, OperationFollows, MessageFits

\* What fits can be joined.
LEMMA MessagesJoin ==
    ASSUME NEW q, NEW t, NEW n, NEW op, QueueFits(q, n, op), QueueFits(t, n, op)
    PROVE  QueueFits(q \o t, n, op)
  BY QueuesJoin DEF QueueFits

\* What fits can be sent.
LEMMA MessageSent ==
    ASSUME NEW q, NEW m, NEW n, NEW op, QueueFits(q, n, op), MessageFits(m, n, op)
    PROVE  QueueFits(Append(q, m), n, op)
  BY QueueGrows DEF QueueFits

\* Taking the first message leaves what fits.
LEMMA MessageTaken ==
    ASSUME NEW q, NEW n, NEW op, QueueFits(q, n, op), q # <<>>
    PROVE  QueueFits(Tail(q), n, op) /\ MessageFits(Head(q), n, op)
  BY QueueShrinks DEF QueueFits

\* A short queue fits when its messages do.
LEMMA ShortQueuesFit ==
    ASSUME NEW a, NEW b, NEW n, NEW op
    PROVE  /\ QueueFits(<<>>, n, op)
           /\ MessageFits(a, n, op) => QueueFits(<<a>>, n, op)
           /\ MessageFits(a, n, op) /\ MessageFits(b, n, op) => QueueFits(<<a, b>>, n, op)
  BY ShortQueues DEF QueueFits

\* A message that starts nothing and saves nothing always fits.
Quieter == {"list", "delete", "cancelSmb", "cancelGateway", "cancelPrompt", "disconnect",
            "smbConnected", "smbError", "deleted", "shareError", "connected", "quickError",
            "prompt", "formAck", "promptAck"}
\* Such a message fits whatever the requests and the operation are.
LEMMA QuietMessagesFit ==
    ASSUME NEW m, NEW n, NEW op, m.kind \in Quieter
    PROVE  MessageFits(m, n, op)
  BY DEF Quieter, MessageFits

----------------------------------------------------------------------------
(* Owned connections.                                                       *)

Reported(q, r) == \E m \in ToSet(q) : m.kind = "connected" /\ m.request = r
Returned(q, r) == \E m \in ToSet(q) : m.kind = "disconnect" /\ m.request = r
Owned(r) == asked[r].kind \in {"quick", "gateway"} =>
                \/ r \in sftpSources \/ Reported(downstream, r) \/ Returned(upstream, r)
                \/ Ordinary(r) /\ r \in adrift

\* No connection is an orphan when each has an owner.
LEMMA OwnersAreEnough == NoOrphanConnection <=> \A r \in sources : Owned(r)
  BY DEF NoOrphanConnection, Owned, Reported, Returned, ToSet
\* The same after a step.
LEMMA OwnersAreEnoughNext == NoOrphanConnection' <=> \A r \in sources' : Owned(r)'
  BY DEF NoOrphanConnection, Owned, Reported, Returned, ToSet

\* A connection keeps its owner when no message of one is lost.
LEMMA OwnersStay ==
    ASSUME NoOrphanConnection, RequestsInv, sources' \subseteq sources,
           \A r \in 1 .. tries : asked'[r] = asked[r],
           sftpSources \subseteq sftpSources', adrift \subseteq adrift',
           \A r \in sources' : Reported(downstream, r) => Reported(downstream', r),
           \A r \in sources' : Returned(upstream, r) => Returned(upstream', r)
    PROVE  NoOrphanConnection'
  BY OwnersAreEnoughNext, OwnersAreEnough DEF RequestsInv, Owned, Ordinary

----------------------------------------------------------------------------
(* Requests and attempts.                                                   *)

\* Numbers are only ever added.
RequestsGrow ==
    /\ tries' \in Nat /\ tries <= tries'
    /\ IsQueue(asked') /\ Len(asked') = tries'
    /\ IsQueue(jobs') /\ Len(jobs') = tries'
    /\ \A r \in 1 .. tries : r \in 1 .. tries' /\ asked'[r] = asked[r]

\* A step that gives no number.
LEMMA SameRequests ==
    ASSUME RequestsInv, UNCHANGED <<tries, asked, jobs>>
    PROVE  RequestsGrow /\ 1 .. tries' = 1 .. tries
  BY DEF RequestsGrow, RequestsInv

\* A step that gives the next number.
LEMMA OneMoreRequest ==
    ASSUME RequestsInv, NEW kind, NEW side, NextTry(kind, side)
    PROVE  /\ RequestsGrow /\ tries' = tries + 1 /\ tries' \in 1 .. tries' /\ tries' \notin 1 .. tries
           /\ asked'[tries'] = [kind |-> kind, side |-> side]
  BY QueueGrows DEF RequestsInv, NextTry, RequestsGrow

\* The state of a job changes.
LEMMA JobMoves ==
    ASSUME RequestsInv, UNCHANGED <<tries, asked>>,
           jobs' = [r \in DOMAIN jobs |-> jobs'[r]]
    PROVE  RequestsGrow /\ 1 .. tries' = 1 .. tries
<1> DEFINE S == {jobs'[r] : r \in 1 .. tries}
<1>1. jobs \in Seq(ToSet(jobs)) /\ DOMAIN jobs = 1 .. tries /\ tries \in Nat
  BY SequencesQueue DEF RequestsInv, IsQueue
<1>2. jobs' \in [1 .. tries -> S]
  BY <1>1
<1> HIDE DEF S
<1>3. jobs' \in Seq(S)
  BY <1>1, <1>2, SeqDef
<1>4. IsQueue(jobs') /\ Len(jobs') = tries
  BY <1>1, <1>2, <1>3, SequencesQueue, LenProperties
<1> QED BY <1>1, <1>3, <1>4 DEF RequestsGrow, RequestsInv

\* The rest of the invariant of requests, when nothing refers to a new number.
LEMMA RequestsStay ==
    ASSUME RequestsInv, RequestsGrow, sources' \subseteq 1 .. tries',
           UNCHANGED <<abandonedTries, shownIn, adrift>>
    PROVE  RequestsInv'
  BY DEF RequestsInv, RequestsGrow, Ordinary

\* An attempt that goes on, or ends, keeps what is said about attempts.
LEMMA AttemptStays ==
    ASSUME RequestsInv, AttemptInv, OpensWhereAsked, RequestsGrow,
           DOMAIN smb' = DOMAIN BlankSmb, smb'.side \in Sides \cup {NoSide},
           \/ smb'.pending = 0
           \/ smb'.pending = smb.pending /\ smb'.side = smb.side,
           abandonedTries' = abandonedTries, shownIn' = shownIn
    PROVE  AttemptInv' /\ OpensWhereAsked'
  BY DEF OpensWhereAsked, RequestsInv, RequestsGrow, AttemptInv

\* A new attempt is made for the side of its dialog.
LEMMA AttemptStarts ==
    ASSUME RequestsInv, AttemptInv, OpensWhereAsked, NextTry("smb", smb.side),
           DOMAIN smb' = DOMAIN BlankSmb, smb'.side = smb.side, smb'.pending = tries',
           abandonedTries' = abandonedTries, shownIn' = shownIn
    PROVE  AttemptInv' /\ OpensWhereAsked'
<1>0. asked'[tries'] = [kind |-> "smb", side |-> smb.side]
  BY OneMoreRequest
<1>1. /\ RequestsGrow /\ tries' = tries + 1 /\ tries' \in 1 .. tries' /\ tries' \notin 1 .. tries
      /\ asked'[tries'].side = smb.side
  BY <1>0, OneMoreRequest
<1>2. OpensWhereAsked'
  BY <1>1 DEF OpensWhereAsked, RequestsInv, RequestsGrow
<1>3. tries' \in 0 .. tries'
  BY <1>1
<1>4. tries' \notin abandonedTries /\ \A e \in shownIn : e[1] # tries'
  BY <1>1 DEF RequestsInv
<1> QED BY <1>1, <1>2, <1>3, <1>4 DEF AttemptInv

\* An attempt that is given up was never answered.
LEMMA AttemptEnds ==
    ASSUME RequestsInv, AttemptInv, OpensWhereAsked, UNCHANGED <<tries, asked, jobs, sources, shownIn, adrift>>,
           DOMAIN smb' = DOMAIN BlankSmb, smb'.side \in Sides \cup {NoSide}, smb'.pending = 0,
           abandonedTries' = abandonedTries \cup ({smb.pending} \ {0})
    PROVE  RequestsInv' /\ AttemptInv' /\ OpensWhereAsked'
<1>1. tries \in Nat /\ {smb.pending} \ {0} \subseteq 1 .. tries
  BY DEF RequestsInv, AttemptInv
<1>2. RequestsInv'
  BY <1>1 DEF RequestsInv, Ordinary
<1>3. AttemptInv'
  BY <1>1 DEF AttemptInv
<1>4. OpensWhereAsked'
  BY DEF AttemptInv, OpensWhereAsked
<1> QED BY <1>2, <1>3, <1>4

----------------------------------------------------------------------------
(* What the user does.                                                      *)

\* A step that opens nothing and gives no number, that leaves the form in order
\* and loses no message.
SameAttempt == \/ smb'.pending = 0
               \/ smb'.pending = smb.pending /\ smb'.side = smb.side

\* Such a step keeps the invariant.
LEMMA QuietStep ==
    ASSUME DialogInv, UNCHANGED <<tries, asked, jobs, sources, adrift, abandonedTries, shownIn>>,
           DOMAIN smb' = DOMAIN BlankSmb, smb'.side \in Sides \cup {NoSide}, SameAttempt,
           MessagesInv', PasswordStaysWithShare', sftpSources \subseteq sftpSources',
           \A r \in sources : Reported(downstream, r) => Reported(downstream', r),
           \A r \in sources : Returned(upstream, r) => Returned(upstream', r)
    PROVE  DialogInv'
  BY SameRequests, RequestsStay, AttemptStays, OwnersStay DEF DialogInv, RequestsInv, SourcesSafe,
     SameAttempt

\* A message more loses none.
LEMMA NoReportLost ==
    ASSUME NEW q, NEW m, NEW r, IsQueue(q)
    PROVE  /\ Reported(q, r) => Reported(Append(q, m), r)
           /\ Returned(q, r) => Returned(Append(q, m), r)
  BY QueueGrows DEF Reported, Returned

\* Nor do several more.
LEMMA NoReportLostJoined ==
    ASSUME NEW q, NEW t, NEW r, IsQueue(q), IsQueue(t)
    PROVE  /\ Reported(q, r) => Reported(q \o t, r)
           /\ Returned(q, r) => Returned(q \o t, r)
  BY QueuesJoin DEF Reported, Returned

\* The first message was the only one that may be lost.
LEMMA OthersStay ==
    ASSUME NEW q, NEW r, IsQueue(q), q # <<>>
    PROVE  /\ Reported(q, r) => \/ Reported(Tail(q), r)
                                \/ Head(q).kind = "connected" /\ Head(q).request = r
           /\ Returned(q, r) => \/ Returned(Tail(q), r)
                                \/ Head(q).kind = "disconnect" /\ Head(q).request = r
  BY QueueShrinks DEF Reported, Returned

\* A form that is filled in by the user or from a saved share.
LEMMA SelectedKeeps ==
    ASSUME NEW d, DOMAIN d = DOMAIN BlankSmb, NEW share
    PROVE  /\ DOMAIN SelectedSmb(d, share) = DOMAIN BlankSmb
           /\ SelectedSmb(d, share).side = d.side /\ SelectedSmb(d, share).pending = d.pending
           /\ SelectedSmb(d, share).operation = d.operation
           /\ SelectedSmb(d, share).password = FALSE
  BY DEF SelectedSmb, BlankSmb

\* A form that was just opened or closed.
LEMMA BlankForm ==
    /\ BlankSmb.side = NoSide /\ BlankSmb.pending = 0 /\ BlankSmb.password = FALSE
    /\ BlankSmb.operation = NoOperation /\ NoOperation.action = "none"
  BY DEF BlankSmb, NoOperation

\* Filling in the form keeps the invariant.
LEMMA FormFilled ==
    ASSUME DialogInv,
           \/ \E d \in Definitions : EditDefinition(d)
           \/ TypePassword
           \/ \E share \in ShareIds \cup {NoShare} : SelectSavedShare(share)
    PROVE  DialogInv'
<1>1. /\ DOMAIN smb = DOMAIN BlankSmb /\ smb.side \in Sides \cup {NoSide}
      /\ MessagesInv /\ PasswordStaysWithShare
  BY DEF DialogInv, AttemptInv, SourcesSafe
<1>2. /\ DOMAIN smb' = DOMAIN BlankSmb /\ smb'.side = smb.side /\ smb'.pending = smb.pending
      /\ smb'.operation = smb.operation /\ PasswordStaysWithShare'
  <2>1. CASE \E d \in Definitions : EditDefinition(d)
    BY <2>1, <1>1 DEF EditDefinition, PasswordStaysWithShare, BlankSmb
  <2>2. CASE TypePassword
    BY <2>2, <1>1 DEF TypePassword, PasswordStaysWithShare, BlankSmb
  <2>3. CASE \E share \in ShareIds \cup {NoShare} : SelectSavedShare(share)
    <3>1. PICK share \in ShareIds \cup {NoShare} : smb' = SelectedSmb(smb, share)
      BY <2>3 DEF SelectSavedShare
    <3> QED BY <3>1, <1>1, SelectedKeeps DEF PasswordStaysWithShare
  <2> QED BY <2>1, <2>2, <2>3
<1>3. UNCHANGED <<tries, asked, jobs, sources, adrift, abandonedTries, shownIn, sftpSources, upstream,
                downstream>>
  BY DEF EditDefinition, TypePassword, SelectSavedShare, quickSide, serverSide, triesHistory
<1>4. MessagesInv'
  BY <1>1, <1>2, <1>3 DEF MessagesInv
<1> QED BY <1>1, <1>2, <1>3, <1>4, QuietStep DEF SameAttempt

\* Opening the dialog keeps the invariant: its request only asks for the list.
LEMMA OpeningSmb ==
    ASSUME DialogInv, NEW side \in Sides, NEW share, OpenSmb(side, share)
    PROVE  DialogInv'
<1>1. MessagesInv /\ IsQueue(upstream)
  BY DEF DialogInv, MessagesInv, QueueFits
<1>2. /\ DOMAIN smb' = DOMAIN BlankSmb /\ smb'.side = side /\ smb'.pending = 0
      /\ smb'.operation = NoOperation /\ smb'.password = FALSE
  <2> DEFINE d == [BlankSmb EXCEPT !.open = TRUE, !.side = side]
  <2>1. /\ DOMAIN d = DOMAIN BlankSmb /\ d.side = side /\ d.pending = 0 /\ d.operation = NoOperation
    BY DEF BlankSmb
  <2>2. smb' = SelectedSmb(d, share)
    BY DEF OpenSmb
  <2> HIDE DEF d
  <2> QED BY <2>1, <2>2, SelectedKeeps
<1>3. /\ UNCHANGED <<tries, asked, jobs, sources, adrift, abandonedTries, shownIn, sftpSources,
                   downstream>>
      /\ upstream' = Append(upstream, DialogRequest("list", 0, NoShare, 0))
  BY DEF OpenSmb, quickSide, serverSide, triesHistory, SendUp
<1>4. MessagesInv'
  <2> DEFINE m == DialogRequest("list", 0, NoShare, 0)
  <2>1. OperationFollows(tries, smb.operation, tries, smb'.operation)
    BY <1>2, BlankForm DEF OperationFollows, DialogInv, RequestsInv
  <2>2. MessageFits(m, tries, smb'.operation)
    BY QuietMessagesFit DEF DialogRequest, Quieter
  <2> HIDE DEF m
  <2> QED BY <2>1, <2>2, <1>1, <1>3, MessagesStillFit, MessageSent DEF MessagesInv, m
<1>5. PasswordStaysWithShare'
  BY <1>2 DEF PasswordStaysWithShare
<1>6. \A r \in sources : Returned(upstream, r) => Returned(upstream', r)
  BY <1>1, <1>3, NoReportLost
<1> QED BY <1>2, <1>3, <1>4, <1>5, <1>6, QuietStep DEF SameAttempt

\* Closing the dialog, and its timeout, give an attempt up.
LEMMA GivingUp ==
    ASSUME DialogInv, CloseSmb \/ ConnectTimeout
    PROVE  DialogInv'
<1>1. /\ RequestsInv /\ AttemptInv /\ OpensWhereAsked /\ NoOrphanConnection /\ PasswordStaysWithShare
      /\ DOMAIN smb = DOMAIN BlankSmb /\ smb.side \in Sides \cup {NoSide}
      /\ QueueFits(upstream, tries, smb.operation) /\ QueueFits(downstream, tries, smb.operation)
      /\ IsQueue(upstream)
  BY DEF DialogInv, AttemptInv, SourcesSafe, MessagesInv, QueueFits
<1>2. /\ UNCHANGED <<tries, asked, jobs, sources, adrift, shownIn, sftpSources, downstream, passwordFor>>
      /\ CancelPendingAttempt
      /\ smb' = BlankSmb \/ smb' = [smb EXCEPT !.pending = 0]
  BY DEF CloseSmb, ConnectTimeout, quickSide, serverSide
<1>3. /\ DOMAIN smb' = DOMAIN BlankSmb /\ smb'.side \in Sides \cup {NoSide} /\ smb'.pending = 0
      /\ smb'.operation \in {smb.operation, NoOperation}
  BY BlankForm, <1>1, <1>2 DEF BlankSmb
<1>4. PasswordStaysWithShare'
  BY BlankForm, <1>1, <1>2 DEF PasswordStaysWithShare, BlankSmb
<1>5. RequestsInv' /\ AttemptInv' /\ OpensWhereAsked'
  BY <1>1, <1>2, <1>3, AttemptEnds DEF CancelPendingAttempt
<1>6. MessagesInv' /\ \A r \in sources : Returned(upstream, r) => Returned(upstream', r)
  <2> DEFINE m == DialogRequest("cancelSmb", smb.pending, NoShare, 0)
  <2>1. OperationFollows(tries, smb.operation, tries, smb'.operation)
    BY <1>1, <1>3, BlankForm DEF OperationFollows, RequestsInv
  <2>2. QueueFits(upstream, tries, smb'.operation) /\ QueueFits(downstream, tries, smb'.operation)
    BY <2>1, <1>1, MessagesStillFit
  <2>3. MessageFits(m, tries, smb'.operation)
    BY QuietMessagesFit DEF DialogRequest, Quieter
  <2>4. upstream' = upstream \/ upstream' = Append(upstream, m)
    BY <1>2 DEF CancelPendingAttempt
  <2> HIDE DEF m
  <2>5. QueueFits(upstream', tries, smb'.operation)
    BY <2>2, <2>3, MessageSent, <2>4
  <2>6. \A r \in sources : Returned(upstream, r) => Returned(upstream', r)
    BY <1>1, NoReportLost, <2>4
  <2> QED BY <2>2, <2>5, <2>6, <1>2 DEF MessagesInv
<1>7. NoOrphanConnection'
  BY <1>1, <1>2, <1>6, OwnersStay
<1> QED BY <1>4, <1>5, <1>6, <1>7 DEF DialogInv, SourcesSafe

\* A request of the SMB dialog: an attempt, or the saving or deleting of a share.
LEMMA SmbRequests ==
    ASSUME DialogInv, SubmitSmb \/ SaveDefinition \/ DeleteSelectedDefinition
    PROVE  DialogInv'
<1>1. /\ RequestsInv /\ AttemptInv /\ OpensWhereAsked /\ NoOrphanConnection /\ PasswordStaysWithShare
      /\ DOMAIN smb = DOMAIN BlankSmb /\ smb.side \in Sides \cup {NoSide}
      /\ QueueFits(upstream, tries, smb.operation) /\ QueueFits(downstream, tries, smb.operation)
      /\ IsQueue(upstream) /\ tries \in Nat
  BY DEF DialogInv, RequestsInv, AttemptInv, SourcesSafe, MessagesInv, QueueFits
<1>2. UNCHANGED <<sources, adrift, shownIn, abandonedTries, sftpSources, downstream, passwordFor>>
  BY DEF SubmitSmb, SaveDefinition, DeleteSelectedDefinition, quickSide
<1>3. \E kind, side : NextTry(kind, side)
  BY DEF SubmitSmb, SaveDefinition, DeleteSelectedDefinition
<1>4. RequestsGrow /\ tries' = tries + 1 /\ tries' \in 1 .. tries' /\ tries' \notin 1 .. tries
  BY <1>1, <1>3, OneMoreRequest
<1>5. RequestsInv'
  BY <1>1, <1>2, <1>4, RequestsStay DEF RequestsInv, RequestsGrow
<1>6. AttemptInv' /\ OpensWhereAsked' /\ PasswordStaysWithShare'
  BY <1>1, <1>2, AttemptStarts, <1>4, AttemptStays DEF SubmitSmb, BlankSmb, PasswordStaysWithShare,
     SaveDefinition, DeleteSelectedDefinition
<1>7. PICK m : /\ upstream' = Append(upstream, m) /\ MessageFits(m, tries', smb'.operation)
               /\ OperationFollows(tries, smb.operation, tries', smb'.operation)
  <2>0. tries' \in Nat /\ tries <= tries'
    BY <1>1, <1>4
  <2>1. CASE SubmitSmb
    <3> DEFINE m == DialogRequest("smb", tries', NoShare, 0)
    <3>1. smb'.operation = smb.operation /\ upstream' = Append(upstream, m)
      BY <2>1, <1>1 DEF SubmitSmb, SendUp, BlankSmb
    <3>2. MessageFits(m, tries', smb'.operation)
      BY <1>4 DEF MessageFits, DialogRequest
    <3> QED BY <3>1, <3>2, <2>0, <1>1 DEF OperationFollows
  <2>2. CASE SaveDefinition
    <3> DEFINE m == DialogRequest("save", tries', smb.selected, smb.definition)
               p == [action |-> "save", request |-> tries', share |-> smb.selected,
                     definition |-> smb.definition]
    <3>1. smb'.operation = p /\ upstream' = Append(upstream, m)
      BY <2>2, <1>1 DEF SaveDefinition, SendUp, BlankSmb
    <3>2. MessageFits(m, tries', p)
      BY <1>4 DEF MessageFits, DialogRequest
    <3>3. OperationFollows(tries, smb.operation, tries', p)
      BY <1>1, <1>4, <2>0 DEF OperationFollows
    <3> QED BY <3>1, <3>2, <3>3
  <2>3. CASE DeleteSelectedDefinition
    <3> DEFINE m == DialogRequest("delete", tries', smb.selected, 0)
               p == [action |-> "delete", request |-> tries', share |-> smb.selected,
                     definition |-> 0]
    <3>1. smb'.operation = p /\ upstream' = Append(upstream, m)
      BY <2>3, <1>1 DEF DeleteSelectedDefinition, SendUp, BlankSmb
    <3>2. MessageFits(m, tries', p)
      BY QuietMessagesFit DEF DialogRequest, Quieter
    <3>3. OperationFollows(tries, smb.operation, tries', p)
      BY <1>1, <2>0 DEF OperationFollows
    <3> QED BY <3>1, <3>2, <3>3
  <2> QED BY <2>1, <2>2, <2>3
<1>8. MessagesInv'
  BY <1>1, <1>7, MessagesStillFit, <1>2, MessageSent DEF MessagesInv
<1>9. NoOrphanConnection'
  BY <1>1, <1>7, NoReportLost, <1>2, <1>4, OwnersStay DEF RequestsGrow
<1> QED BY <1>5, <1>6, <1>8, <1>9 DEF DialogInv, SourcesSafe

\* Opening the dialog of quick connect changes that dialog only.
LEMMA OpeningQuick ==
    ASSUME NEW side, OpenQuickConnect(side)
    PROVE  UNCHANGED <<smb, passwordFor, sources, adrift, shownIn, abandonedTries, sftpSources,
                       upstream, downstream, tries, asked, jobs>>
  BY DEF OpenQuickConnect, smbSide, serverSide, triesHistory

\* The form of quick connect and the buttons that cancel send only requests of
\* attempts and cancellations.
LEMMA QuickRequests ==
    ASSUME DialogInv,
           \/ \E side \in Sides : OpenQuickConnect(side)
           \/ \E gateway \in BOOLEAN : SubmitQuickConnect(gateway)
           \/ CloseQuickConnect \/ CancelGateway
    PROVE  DialogInv'
<1>1. /\ RequestsInv /\ AttemptInv /\ OpensWhereAsked /\ NoOrphanConnection /\ PasswordStaysWithShare
      /\ DOMAIN smb = DOMAIN BlankSmb /\ smb.side \in Sides \cup {NoSide}
      /\ QueueFits(upstream, tries, smb.operation) /\ QueueFits(downstream, tries, smb.operation)
      /\ IsQueue(upstream) /\ tries \in Nat
  BY DEF DialogInv, RequestsInv, AttemptInv, SourcesSafe, MessagesInv, QueueFits
<1>2. UNCHANGED <<smb, passwordFor, sources, adrift, shownIn, abandonedTries, sftpSources, downstream>>
  <2>1. CASE \E side \in Sides : OpenQuickConnect(side)
    BY <2>1, OpeningQuick
  <2>2. CASE \E gateway \in BOOLEAN : SubmitQuickConnect(gateway)
    <3>1. PICK gateway \in BOOLEAN : SubmitQuickConnect(gateway)
      BY <2>2
    <3> QED BY <3>1 DEF SubmitQuickConnect, smbSide
  <2>3. CASE CloseQuickConnect \/ CancelGateway
    BY <2>3 DEF CloseQuickConnect, CancelGateway, smbSide, quickSide, serverSide, triesHistory
  <2> QED BY <2>1, <2>2, <2>3
<1>3. /\ RequestsGrow
      /\ \E t : upstream' = upstream \o t /\ QueueFits(t, tries', smb.operation)
  <2>1. CASE \E side \in Sides : OpenQuickConnect(side)
    <3>1. UNCHANGED <<tries, asked, jobs, upstream>>
      BY <2>1, OpeningQuick
    <3>2. upstream' = upstream \o <<>>
      BY <3>1, <1>1, ConcatEmptySeq DEF IsQueue
    <3> QED BY <3>1, <3>2, <1>1, SameRequests, ShortQueuesFit
  <2>2. CASE CloseQuickConnect
    <3>1. UNCHANGED <<tries, asked, jobs>> /\ upstream' = upstream \o CancelOf(quick)
      BY <2>2 DEF CloseQuickConnect, serverSide, triesHistory
    <3>2. QueueFits(CancelOf(quick), tries, smb.operation)
      <4> DEFINE m == DialogRequest("cancelGateway", quick.request, NoShare, 0)
      <4>1. MessageFits(m, tries, smb.operation)
        BY QuietMessagesFit DEF DialogRequest, Quieter
      <4>2. CancelOf(quick) = <<>> \/ CancelOf(quick) = <<m>>
        BY DEF CancelOf
      <4> HIDE DEF m
      <4> QED BY <4>1, <4>2, ShortQueuesFit
    <3> QED BY <3>1, <3>2, <1>1, SameRequests
  <2>3. CASE CancelGateway
    <3> DEFINE m == DialogRequest("cancelPrompt", gateways.front, NoShare, 0)
    <3>1. UNCHANGED <<tries, asked, jobs>> /\ upstream' = Append(upstream, m)
      BY <2>3 DEF CancelGateway, serverSide, triesHistory, SendUp
    <3>2. MessageFits(m, tries, smb.operation)
      BY QuietMessagesFit DEF DialogRequest, Quieter
    <3> HIDE DEF m
    <3>3. Append(upstream, m) = upstream \o <<m>>
      BY <1>1, AppendJoins
    <3> QED BY <3>1, <3>2, <3>3, <1>1, SameRequests, ShortQueuesFit
  <2>4. CASE \E gateway \in BOOLEAN : SubmitQuickConnect(gateway)
    <3>1. PICK kind \in {"gateway", "quick"} :
             /\ NextTry(kind, quick.side)
             /\ upstream' = Append(upstream, DialogRequest(kind, tries', NoShare, 0))
      BY <2>4 DEF SubmitQuickConnect, SendUp
    <3> DEFINE m == DialogRequest(kind, tries', NoShare, 0)
    <3>2. RequestsGrow /\ tries' \in 1 .. tries'
      BY <3>1, <1>1, OneMoreRequest
    <3>3. MessageFits(m, tries', smb.operation)
      BY <3>2 DEF MessageFits, DialogRequest
    <3>4. upstream' = Append(upstream, m)
      BY <3>1
    <3> HIDE DEF m
    <3>5. Append(upstream, m) = upstream \o <<m>>
      BY <1>1, AppendJoins
    <3> QED BY <3>2, <3>3, <3>4, <3>5, ShortQueuesFit
  <2> QED BY <2>1, <2>2, <2>3, <2>4
<1>4. PICK t : upstream' = upstream \o t /\ QueueFits(t, tries', smb.operation)
  BY <1>3
<1>5. RequestsInv'
  BY <1>1, <1>2, <1>3, RequestsStay DEF RequestsInv, RequestsGrow
<1>6. AttemptInv' /\ OpensWhereAsked' /\ PasswordStaysWithShare'
  BY <1>1, <1>2, <1>3, AttemptStays DEF PasswordStaysWithShare
<1>7. MessagesInv'
  BY <1>1, <1>3, MessagesStillFit, <1>2, <1>4, MessagesJoin DEF OperationFollows, RequestsGrow,
     MessagesInv
<1>8. NoOrphanConnection'
  BY <1>1, <1>4, NoReportLostJoined, <1>2, <1>3, OwnersStay DEF QueueFits, RequestsGrow
<1> QED BY <1>5, <1>6, <1>7, <1>8 DEF DialogInv, SourcesSafe

----------------------------------------------------------------------------
(* What the browser hears.                                                  *)

\* What an answer leaves to the form: the attempt goes on or ends, the
\* operation goes on or ends, and a password stays with what it was typed for.
FormFollows ==
    /\ DOMAIN smb' = DOMAIN BlankSmb /\ smb'.side \in Sides \cup {NoSide} /\ SameAttempt
    /\ smb'.operation \in {smb.operation, NoOperation}
    /\ smb'.password => smb.password /\ smb'.definition = smb.definition

\* An answer of a save changes the form only to what it asked to save.
LEMMA AfterSaveKeeps ==
    ASSUME AttemptInv, NEW m, OperationMatches(m, "save"), m.kind = "saved",
           MessageFits(m, tries, smb.operation), smb' = AfterSave(smb, m)
    PROVE  FormFollows
<1>1. /\ DOMAIN smb = DOMAIN BlankSmb /\ smb.side \in Sides \cup {NoSide}
      /\ m.definition = smb.operation.definition
  BY DEF AttemptInv, OperationMatches, MessageFits
<1> DEFINE idle == [smb EXCEPT !.operation = NoOperation]
<1>2. /\ DOMAIN idle = DOMAIN BlankSmb /\ idle.side = smb.side /\ idle.pending = smb.pending
      /\ idle.operation = NoOperation /\ idle.password = smb.password
      /\ idle.definition = smb.definition
  BY <1>1 DEF BlankSmb
<1>3. CASE smb.selected = smb.operation.share /\ smb.definition = smb.operation.definition
  <2>1. smb' = [idle EXCEPT !.selected = m.share, !.definition = m.definition]
    BY <1>3 DEF AfterSave
  <2> HIDE DEF idle
  <2>2. /\ DOMAIN smb' = DOMAIN BlankSmb /\ smb'.side = smb.side /\ smb'.pending = smb.pending
        /\ smb'.operation = NoOperation /\ smb'.password = smb.password
        /\ smb'.definition = smb.definition
    BY <2>1, <1>1, <1>2, <1>3 DEF BlankSmb
  <2> QED BY <2>2, <1>1 DEF FormFollows, SameAttempt
<1>4. CASE ~(smb.selected = smb.operation.share /\ smb.definition = smb.operation.definition)
  <2>1. smb' = idle
    BY <1>4 DEF AfterSave
  <2> HIDE DEF idle
  <2> QED BY <2>1, <1>1, <1>2 DEF FormFollows, SameAttempt
<1> QED BY <1>3, <1>4

\* Every other answer of the share dialog.
LEMMA ShareAnswers ==
    ASSUME AttemptInv, NEW m, MessageFits(m, tries, smb.operation),
           SmbFailed(m) \/ SharesListed(m) \/ ShareSaved(m) \/ ShareDeleted(m) \/ ShareFailed(m)
    PROVE  FormFollows
<1>1. DOMAIN smb = DOMAIN BlankSmb /\ smb.side \in Sides \cup {NoSide}
  BY DEF AttemptInv
<1> DEFINE idle == [smb EXCEPT !.operation = NoOperation]
<1>2. /\ DOMAIN idle = DOMAIN BlankSmb /\ idle.side = smb.side /\ idle.pending = smb.pending
      /\ idle.operation = NoOperation /\ idle.password = smb.password
      /\ idle.definition = smb.definition
  BY <1>1 DEF BlankSmb
<1>3. smb' = smb => FormFollows
  BY <1>1 DEF FormFollows, SameAttempt
<1>4. smb' = idle => FormFollows
  <2> HIDE DEF idle
  <2> QED BY <1>1, <1>2 DEF FormFollows, SameAttempt
<1>5. CASE SmbFailed(m)
  BY <1>5, <1>1, <1>3 DEF SmbFailed, BlankSmb, FormFollows, SameAttempt
<1>6. CASE SharesListed(m)
  BY <1>6, <1>3 DEF SharesListed
<1>7. CASE ShareSaved(m)
  BY <1>7, <1>3, AfterSaveKeeps DEF ShareSaved
<1>8. CASE ShareDeleted(m)
  <2>1. smb' = smb \/ smb' = idle \/ smb' = SelectedSmb(idle, NoShare)
    BY <1>8 DEF ShareDeleted
  <2>2. CASE smb' = SelectedSmb(idle, NoShare)
    <3> HIDE DEF idle
    <3>1. /\ DOMAIN smb' = DOMAIN BlankSmb /\ smb'.side = smb.side /\ smb'.pending = smb.pending
          /\ smb'.operation = NoOperation /\ smb'.password = FALSE
      BY <2>2, <1>2, SelectedKeeps
    <3> QED BY <3>1, <1>1 DEF FormFollows, SameAttempt
  <2> QED BY <2>1, <2>2, <1>3, <1>4
<1>9. CASE ShareFailed(m)
  BY <1>9, <1>3, <1>4 DEF ShareFailed
<1> QED BY <1>5, <1>6, <1>7, <1>8, <1>9

\* An answer that opens no connection.
QuietAnswer(m) ==
    \/ SmbFailed(m) \/ SharesListed(m) \/ ShareSaved(m) \/ ShareDeleted(m) \/ ShareFailed(m)
    \/ QuickFailed(m) \/ GatewayPrompts(m) \/ GatewayCancelled(m)
Received == /\ downstream # <<>> /\ downstream' = Tail(downstream)
            /\ UNCHANGED <<serverSide, tries, asked, abandonedTries, passwordFor, adrift>>

\* What is left of the queues after an answer.
LEMMA ReceivedQueues ==
    ASSUME DialogInv, Received, smb'.operation \in {smb.operation, NoOperation}
    PROVE  /\ QueueFits(downstream', tries', smb'.operation) /\ QueueFits(upstream, tries', smb'.operation)
           /\ MessageFits(Head(downstream), tries, smb.operation)
           /\ IsQueue(upstream) /\ IsQueue(downstream)
<1>1. /\ QueueFits(upstream, tries, smb.operation) /\ QueueFits(downstream, tries, smb.operation)
      /\ tries \in Nat /\ downstream # <<>> /\ downstream' = Tail(downstream) /\ tries' = tries
  BY DEF DialogInv, MessagesInv, RequestsInv, Received
<1>2. OperationFollows(tries, smb.operation, tries, smb'.operation)
  BY <1>1, BlankForm DEF OperationFollows
<1> QED BY <1>1, <1>2, MessagesStillFit, MessageTaken DEF QueueFits

\* Such an answer keeps the invariant.
LEMMA AnsweredQuietly ==
    ASSUME DialogInv, Received, QuietAnswer(Head(downstream))
    PROVE  DialogInv'
<1> DEFINE m == Head(downstream)
<1>1. /\ AttemptInv /\ PasswordStaysWithShare /\ MessageFits(m, tries, smb.operation)
      /\ DOMAIN smb = DOMAIN BlankSmb /\ smb.side \in Sides \cup {NoSide}
      /\ IsQueue(downstream) /\ downstream # <<>> /\ downstream' = Tail(downstream)
  BY MessageTaken DEF DialogInv, AttemptInv, SourcesSafe, MessagesInv, Received, QueueFits
<1>2. /\ UNCHANGED <<tries, asked, jobs, sources, adrift, abandonedTries, passwordFor>>
  BY DEF Received, serverSide
<1>3. UNCHANGED <<upstream, shownIn, sftpSources>>
  BY DEF QuietAnswer, SmbFailed, SharesListed, ShareSaved, ShareDeleted, ShareFailed,
         QuickFailed, GatewayPrompts, GatewayCancelled, quickSide
<1>4. m.kind # "connected"
  BY DEF QuietAnswer, SmbFailed, SharesListed, ShareSaved, ShareDeleted, ShareFailed,
         QuickFailed, GatewayPrompts, GatewayCancelled
<1>5. FormFollows
  <2>1. CASE SmbFailed(m) \/ SharesListed(m) \/ ShareSaved(m) \/ ShareDeleted(m) \/ ShareFailed(m)
    BY <2>1, <1>1, ShareAnswers
  <2>2. CASE QuickFailed(m) \/ GatewayPrompts(m) \/ GatewayCancelled(m)
    <3>1. smb' = smb
      BY <2>2 DEF QuickFailed, GatewayPrompts, GatewayCancelled
    <3> QED BY <3>1, <1>1 DEF FormFollows, SameAttempt
  <2> QED BY <2>1, <2>2 DEF QuietAnswer
<1> HIDE DEF m
<1>6. MessagesInv'
  BY <1>3, <1>5, ReceivedQueues DEF MessagesInv, FormFollows
<1>7. PasswordStaysWithShare'
  BY <1>1, <1>2, <1>5 DEF PasswordStaysWithShare, FormFollows
<1>8. \A r \in sources : Reported(downstream, r) => Reported(downstream', r)
  BY <1>1, <1>4, OthersStay DEF m
<1> QED BY <1>2, <1>3, <1>5, <1>6, <1>7, <1>8, QuietStep DEF FormFollows

\* The success of an SMB attempt: a pending one opens its source where it was
\* asked for, any other opens nothing.
LEMMA AnsweredSmb ==
    ASSUME DialogInv, Received, SmbSucceeded(Head(downstream))
    PROVE  DialogInv'
<1> DEFINE m == Head(downstream)
<1>1. /\ RequestsInv /\ AttemptInv /\ OpensWhereAsked /\ NoOrphanConnection /\ PasswordStaysWithShare
      /\ DOMAIN smb = DOMAIN BlankSmb /\ smb.side \in Sides \cup {NoSide}
      /\ IsQueue(downstream) /\ downstream # <<>> /\ downstream' = Tail(downstream) /\ tries \in Nat
  BY DEF DialogInv, RequestsInv, AttemptInv, SourcesSafe, MessagesInv, Received, QueueFits
<1>2. /\ UNCHANGED <<tries, asked, jobs, sources, adrift, abandonedTries, passwordFor, upstream,
                   sftpSources>>
      /\ m.kind = "smbConnected"
  BY DEF Received, serverSide, SmbSucceeded, quickSide
<1>3. CASE ~AttemptMatches(m)
  <2>1. smb' = smb /\ shownIn' = shownIn
    BY <1>3 DEF SmbSucceeded
  <2>2. MessagesInv' /\ PasswordStaysWithShare'
    BY <2>1, <1>1, <1>2, ReceivedQueues DEF MessagesInv, PasswordStaysWithShare
  <2>3. \A r \in sources : Reported(downstream, r) => Reported(downstream', r)
    BY <1>1, <1>2, OthersStay
  <2> HIDE DEF m
  <2> QED BY <1>1, <1>2, <2>1, <2>2, <2>3, QuietStep DEF SameAttempt
<1>4. CASE AttemptMatches(m)
  <2> DEFINE e0 == <<smb.pending, smb.side>>
  <2>1. smb' = BlankSmb /\ shownIn' = shownIn \cup {e0} /\ smb.pending # 0
    BY <1>4 DEF SmbSucceeded, SourceShown, AttemptMatches
  <2>2. /\ smb.pending \in 1 .. tries /\ asked[smb.pending].side = smb.side
        /\ smb.pending \notin abandonedTries
    BY <2>1, <1>1 DEF AttemptInv
  <2>3. /\ DOMAIN smb' = DOMAIN BlankSmb /\ smb'.side = NoSide /\ smb'.pending = 0
        /\ smb'.operation = NoOperation /\ smb'.password = FALSE
    BY <2>1, BlankForm
  <2>4. RequestsInv'
    BY <2>2, <1>1, <2>1, <1>2 DEF RequestsInv, Ordinary
  <2>5. AttemptInv'
    BY <2>3, <1>1, <1>2 DEF AttemptInv
  <2>6. OpensWhereAsked'
    <3>1. e0[1] = smb.pending /\ e0[2] = smb.side
      OBVIOUS
    <3> HIDE DEF e0
    <3> QED BY <3>1, <2>1, <2>2, <1>1, <1>2 DEF OpensWhereAsked
  <2>7. MessagesInv'
    BY <2>3, <1>2, ReceivedQueues DEF MessagesInv
  <2>8. NoOrphanConnection'
    BY <1>1, <1>2, OthersStay, OwnersStay
  <2>9. PasswordStaysWithShare'
    BY <2>3 DEF PasswordStaysWithShare
  <2> QED BY <2>4, <2>5, <2>6, <2>7, <2>8, <2>9 DEF DialogInv, SourcesSafe
<1> QED BY <1>3, <1>4

\* The success of an SFTP attempt: the connection is listed, or it is returned.
LEMMA AnsweredSftp ==
    ASSUME DialogInv, Received, QuickConnected(Head(downstream))
    PROVE  DialogInv'
<1> DEFINE m == Head(downstream)
<1>1. /\ RequestsInv /\ AttemptInv /\ OpensWhereAsked /\ NoOrphanConnection /\ PasswordStaysWithShare
      /\ DOMAIN smb = DOMAIN BlankSmb /\ smb.side \in Sides \cup {NoSide}
      /\ IsQueue(downstream) /\ IsQueue(upstream) /\ downstream # <<>>
      /\ downstream' = Tail(downstream) /\ tries \in Nat
  BY DEF DialogInv, RequestsInv, AttemptInv, SourcesSafe, MessagesInv, Received, QueueFits
<1>2. UNCHANGED <<tries, asked, jobs, sources, adrift, abandonedTries, passwordFor, smb, shownIn>>
  BY DEF Received, serverSide, QuickConnected
<1>3. QueueFits(downstream', tries', smb'.operation) /\ QueueFits(upstream, tries', smb'.operation)
  BY <1>2, ReceivedQueues
<1>4. \E t : /\ upstream' = upstream \o t /\ QueueFits(t, tries', smb'.operation)
             /\ sftpSources \subseteq sftpSources'
             /\ m.request \in sftpSources' \/ Returned(t, m.request)
  <2> DEFINE back == DialogRequest("disconnect", m.request, NoShare, 0)
             cancel == DialogRequest("cancelGateway", quick.request, NoShare, 0)
  <2>1. /\ MessageFits(back, tries', smb'.operation) /\ MessageFits(cancel, tries', smb'.operation)
    BY QuietMessagesFit DEF DialogRequest, Quieter
  <2>2. back.kind = "disconnect" /\ back.request = m.request
    BY DEF DialogRequest
  <2>3. CASE StaleSuccess(m)
    <3>1. upstream' = upstream \o <<back>> /\ sftpSources' = sftpSources
      BY <2>3 DEF QuickConnected, StaleReply
    <3> HIDE DEF back, m
    <3>2. Returned(<<back>>, m.request)
      BY <2>2, ShortQueues DEF Returned
    <3> QED BY <3>1, <3>2, <2>1, ShortQueuesFit
  <2>4. CASE ~StaleSuccess(m)
    <3>1. /\ sftpSources' = sftpSources \cup {m.request}
          /\ upstream' = upstream \o <<>> \/ upstream' = upstream \o <<cancel>>
      BY <2>4 DEF QuickConnected, CancelOf
    <3> HIDE DEF cancel, m
    <3>2. QueueFits(<<>>, tries', smb'.operation) /\ QueueFits(<<cancel>>, tries', smb'.operation)
      BY <2>1, ShortQueuesFit
    <3> QED BY <3>1, <3>2
  <2> QED BY <2>3, <2>4
<1>5. PICK t : /\ upstream' = upstream \o t /\ QueueFits(t, tries', smb'.operation)
               /\ sftpSources \subseteq sftpSources'
               /\ m.request \in sftpSources' \/ Returned(t, m.request)
  BY <1>4
<1> HIDE DEF m
<1>6. MessagesInv' /\ PasswordStaysWithShare'
  BY <1>1, <1>2, <1>3, <1>5, MessagesJoin DEF MessagesInv, PasswordStaysWithShare
<1>7. RequestsInv' /\ AttemptInv' /\ OpensWhereAsked'
  BY <1>1, <1>2 DEF RequestsInv, AttemptInv, OpensWhereAsked, Ordinary
<1>8. NoOrphanConnection'
  BY OwnersAreEnoughNext, <1>1, <1>2, OwnersAreEnough, <1>5, NoReportLostJoined, QueuesJoin,
     OthersStay DEF QueueFits, Returned, m, Owned, Ordinary
<1> QED BY <1>6, <1>7, <1>8 DEF DialogInv, SourcesSafe

\* Every answer keeps the invariant.
LEMMA Receiving ==
    ASSUME DialogInv, ReceiveEvent
    PROVE  DialogInv'
  BY AnsweredSmb, AnsweredSftp, AnsweredQuietly DEF ReceiveEvent, Received, QuietAnswer

----------------------------------------------------------------------------
(* The server and its jobs.                                                 *)

\* A step of the server leaves the page alone, opens only what was asked for,
\* and reports every SFTP connection that it opens, or that one is adrift.
ServerKeeps(t) ==
    /\ UNCHANGED <<smb, passwordFor, sftpSources, tries, asked, adrift, abandonedTries, shownIn>>
    /\ jobs' = [r \in DOMAIN jobs |-> jobs'[r]]
    /\ downstream' = downstream \o t /\ QueueFits(t, tries, smb.operation)
    /\ sources' \subseteq 1 .. tries
    /\ \A r \in sources' \ sources :
          asked[r].kind \in {"quick", "gateway"} => Reported(t, r) \/ (Ordinary(r) /\ r \in adrift)

\* Such a step keeps the invariant when no return of a connection is lost.
LEMMA ServerSteps ==
    ASSUME DialogInv, NEW t, ServerKeeps(t),
           IsQueue(upstream'), ToSet(upstream') \subseteq ToSet(upstream),
           \A r \in sources' : Returned(upstream, r) => Returned(upstream', r)
    PROVE  DialogInv'
<1>1. /\ RequestsInv /\ AttemptInv /\ OpensWhereAsked /\ NoOrphanConnection /\ PasswordStaysWithShare
      /\ QueueFits(upstream, tries, smb.operation) /\ QueueFits(downstream, tries, smb.operation)
  BY DEF DialogInv, SourcesSafe, MessagesInv
<1>2. /\ UNCHANGED <<smb, passwordFor, sftpSources, tries, asked, adrift, abandonedTries, shownIn>>
      /\ downstream' = downstream \o t /\ QueueFits(t, tries, smb.operation)
  BY DEF ServerKeeps
<1>3. RequestsGrow /\ 1 .. tries' = 1 .. tries
  BY <1>1, JobMoves DEF ServerKeeps
<1>4. RequestsInv'
  BY <1>1, <1>2, <1>3, RequestsStay DEF ServerKeeps
<1>5. AttemptInv' /\ OpensWhereAsked' /\ PasswordStaysWithShare'
  BY <1>1, <1>2 DEF AttemptInv, OpensWhereAsked, PasswordStaysWithShare
<1>6. MessagesInv'
  BY <1>1, <1>2, MessagesJoin DEF QueueFits, MessagesInv
<1>7. NoOrphanConnection'
  <2> SUFFICES ASSUME NEW r \in sources' PROVE Owned(r)'
    BY OwnersAreEnoughNext
  <2>1. /\ Reported(downstream, r) => Reported(downstream', r)
        /\ Reported(t, r) => Reported(downstream', r)
    BY <1>1, <1>2, QueuesJoin DEF Reported, QueueFits
  <2>2. CASE r \in sources
    <3>1. Owned(r)
      BY <2>2, <1>1, OwnersAreEnough
    <3> QED BY <3>1, <2>1, <1>2 DEF Owned, Ordinary
  <2>3. CASE r \notin sources
    BY <2>1, <2>3, <1>2 DEF Owned, ServerKeeps, Ordinary
  <2> QED BY <2>2, <2>3
<1> QED BY <1>4, <1>5, <1>6, <1>7 DEF DialogInv, SourcesSafe

\* A handler opens no connection, and closes at most the one of its message.
HandlerKeeps(m, t) ==
    /\ downstream' = downstream \o t /\ QueueFits(t, tries, smb.operation)
    /\ jobs' = [r \in DOMAIN jobs |-> jobs'[r]]
    /\ \/ sources' = sources
       \/ m.kind = "disconnect" /\ sources' = sources \ {m.request}
    /\ m.kind = "disconnect" => m.request \notin sources'

\* The jobs are a function of the requests.
LEMMA JobsAreFunction ==
    ASSUME RequestsInv
    PROVE  jobs = [r \in DOMAIN jobs |-> jobs[r]]
  BY LenProperties DEF RequestsInv, IsQueue

\* A handler that sends nothing joins the empty queue.
LEMMA NothingSent ==
    ASSUME DialogInv
    PROVE  downstream = downstream \o <<>> /\ QueueFits(<<>>, tries, smb.operation)
<1>1. IsQueue(downstream)
  BY DEF DialogInv, MessagesInv, QueueFits
<1> QED BY <1>1, ConcatEmptySeq, ShortQueuesFit DEF IsQueue

\* One message sent.
LEMMA OneSent ==
    ASSUME DialogInv, NEW a
    PROVE  /\ Append(downstream, a) = downstream \o <<a>>
           /\ MessageFits(a, tries, smb.operation) => QueueFits(<<a>>, tries, smb.operation)
           /\ a.kind = "connected" => Reported(<<a>>, a.request)
<1>1. IsQueue(downstream)
  BY DEF DialogInv, MessagesInv, QueueFits
<1> QED BY <1>1, AppendJoins, ShortQueuesFit, ShortQueues DEF Reported

\* The handlers of shares open nothing, and answer a save with what it asked for.
LEMMA ShareHandlers ==
    ASSUME DialogInv, NEW m, MessageFits(m, tries, smb.operation),
           ServeShareSave(m) \/ ServeShareDelete(m) \/ ServeShareList(m)
    PROVE  \E t : HandlerKeeps(m, t)
<1>1. /\ sources' = sources /\ jobs' = jobs /\ m.kind # "disconnect"
  BY DEF ServeShareSave, ServeShareDelete, ServeShareList, serverSide
<1>2. jobs' = [r \in DOMAIN jobs |-> jobs'[r]]
  BY <1>1, JobsAreFunction DEF DialogInv
<1> SUFFICES \E t : downstream' = downstream \o t /\ QueueFits(t, tries, smb.operation)
  BY <1>1, <1>2 DEF HandlerKeeps
<1>3. ASSUME NEW a, a.kind \in Quieter, downstream' = Append(downstream, a)
      PROVE  \E t : downstream' = downstream \o t /\ QueueFits(t, tries, smb.operation)
  BY <1>3, QuietMessagesFit, OneSent
<1>4. ASSUME NEW a, NEW b, MessageFits(a, tries, smb.operation), b.kind \in Quieter,
             downstream' = downstream \o <<a, b>>
      PROVE  \E t : downstream' = downstream \o t /\ QueueFits(t, tries, smb.operation)
  BY <1>4, QuietMessagesFit, ShortQueuesFit
<1>5. ListOf(shares').kind \in Quieter /\ ListOf(shares).kind \in Quieter
  BY DEF ListOf, Quieter
<1>6. CASE ServeShareSave(m)
  <2>1. CASE \E x \in SaveSlots(m) :
                downstream' = downstream \o <<[kind |-> "saved", request |-> m.request, share |-> x,
                                               definition |-> m.definition], ListOf(shares')>>
    <3>1. PICK x \in SaveSlots(m) :
             downstream' = downstream \o <<[kind |-> "saved", request |-> m.request, share |-> x,
                                            definition |-> m.definition], ListOf(shares')>>
      BY <2>1
    <3> DEFINE a == [kind |-> "saved", request |-> m.request, share |-> x, definition |-> m.definition]
    <3>2. MessageFits(a, tries, smb.operation)
      BY <1>6 DEF MessageFits, ServeShareSave
    <3>3. downstream' = downstream \o <<a, ListOf(shares')>>
      BY <3>1
    <3> HIDE DEF a
    <3> QED BY <3>2, <3>3, <1>4, <1>5
  <2>2. CASE downstream' = Append(downstream, [kind |-> "shareError", request |-> m.request])
    <3> DEFINE a == [kind |-> "shareError", request |-> m.request]
    <3>1. a.kind \in Quieter /\ downstream' = Append(downstream, a)
      BY <2>2 DEF Quieter
    <3> HIDE DEF a
    <3> QED BY <3>1, <1>3
  <2> QED BY <2>1, <2>2, <1>6 DEF ServeShareSave
<1>7. CASE ServeShareDelete(m)
  <2> DEFINE a == [kind |-> "deleted", request |-> m.request, share |-> m.share]
             b == [kind |-> "shareError", request |-> m.request]
  <2>1. \/ downstream' = downstream \o <<a, ListOf(shares')>> \/ downstream' = Append(downstream, b)
    BY <1>7 DEF ServeShareDelete
  <2>2. a.kind \in Quieter /\ b.kind \in Quieter
    BY DEF Quieter
  <2> HIDE DEF a, b
  <2>3. MessageFits(a, tries, smb.operation)
    BY <2>2, QuietMessagesFit
  <2> QED BY <2>1, <2>2, <2>3, <1>3, <1>4, <1>5
<1>8. CASE ServeShareList(m)
  BY <1>8, <1>3, <1>5 DEF ServeShareList
<1> QED BY <1>6, <1>7, <1>8

\* The handlers of attempts answer them or start to connect.
LEMMA AttemptHandlers ==
    ASSUME DialogInv, NEW m, MessageFits(m, tries, smb.operation),
           ServeAttempt(m) \/ ServeCancelAttempt(m) \/ ServeDisconnect(m)
    PROVE  \E t : HandlerKeeps(m, t)
<1>1. jobs = [r \in DOMAIN jobs |-> jobs[r]]
  BY JobsAreFunction DEF DialogInv
<1>2. ASSUME NEW a, a.kind \in Quieter, downstream' = downstream \/ downstream' = Append(downstream, a)
      PROVE  \E t : downstream' = downstream \o t /\ QueueFits(t, tries, smb.operation)
  BY <1>2, QuietMessagesFit, OneSent, NothingSent
<1>3. CASE ServeAttempt(m)
  <2> DEFINE e == Event(IF m.kind = "smb" THEN "smbError" ELSE "quickError", m.request)
  <2>1. e.kind \in Quieter /\ m.kind # "disconnect"
    BY <1>3 DEF Event, Quieter, ServeAttempt
  <2>2. /\ sources' = sources
        /\ jobs' = jobs \/ jobs' = [jobs EXCEPT ![m.request] = "running"]
        /\ downstream' = downstream \/ downstream' = Append(downstream, e)
    BY <1>3 DEF ServeAttempt
  <2> HIDE DEF e
  <2>3. jobs' = [r \in DOMAIN jobs |-> jobs'[r]]
    BY <1>1, <2>2
  <2> QED BY <1>2, <2>1, <2>2, <2>3 DEF HandlerKeeps
<1>4. CASE ServeCancelAttempt(m)
  <2>1. PICK result : downstream' = downstream \/ downstream' = Append(downstream, CancelAck(m, result))
    BY <1>4 DEF ServeCancelAttempt
  <2> DEFINE a == CancelAck(m, result)
  <2>2. a.kind \in Quieter
    BY DEF CancelAck, Quieter
  <2>3. /\ jobs' = jobs \/ jobs' = [jobs EXCEPT ![m.request] = "cancelled"]
        /\ sources' = sources /\ m.kind # "disconnect"
    BY <1>4 DEF ServeCancelAttempt
  <2>4. jobs' = [r \in DOMAIN jobs |-> jobs'[r]]
    BY <1>1, <2>3
  <2>5. downstream' = downstream \/ downstream' = Append(downstream, a)
    BY <2>1
  <2> HIDE DEF a
  <2>6. \E t : downstream' = downstream \o t /\ QueueFits(t, tries, smb.operation)
    BY <1>2, <2>2, <2>5
  <2> QED BY <2>3, <2>4, <2>6 DEF HandlerKeeps
<1>5. CASE ServeDisconnect(m)
  BY <1>5, NothingSent, <1>1 DEF ServeDisconnect, HandlerKeeps
<1> QED BY <1>3, <1>4, <1>5

\* Every handler of the server keeps the invariant.
LEMMA Serving ==
    ASSUME DialogInv, ServeDialogs
    PROVE  DialogInv'
<1> DEFINE m == Head(upstream)
<1>1. /\ QueueFits(upstream, tries, smb.operation) /\ IsQueue(upstream) /\ upstream # <<>>
      /\ upstream' = Tail(upstream) /\ sources \subseteq 1 .. tries
  BY DEF DialogInv, MessagesInv, RequestsInv, ServeDialogs, QueueFits
<1>2. MessageFits(m, tries, smb.operation)
  BY <1>1, MessageTaken
<1>3. \/ ServeShareSave(m) \/ ServeShareDelete(m) \/ ServeShareList(m)
      \/ ServeAttempt(m) \/ ServeCancelAttempt(m) \/ ServeDisconnect(m)
  BY DEF ServeDialogs
<1>4. UNCHANGED <<smb, passwordFor, sftpSources, tries, asked, adrift, abandonedTries, shownIn>>
  BY DEF ServeDialogs, smbSide, quickSide, triesHistory
<1>5. \A r : Returned(upstream, r) =>
             Returned(upstream', r) \/ (m.kind = "disconnect" /\ m.request = r)
  BY <1>1, OthersStay
<1>6. IsQueue(upstream') /\ ToSet(upstream') \subseteq ToSet(upstream)
  BY <1>1, QueueShrinks
<1> HIDE DEF m
<1>7. PICK t : HandlerKeeps(m, t)
  BY <1>2, <1>3, ShareHandlers, AttemptHandlers
<1>8. ServerKeeps(t)
  BY <1>2, <1>1, <1>7, <1>4 DEF MessageFits, HandlerKeeps, ServerKeeps
<1>9. \A r \in sources' : Returned(upstream, r) => Returned(upstream', r)
  BY <1>5, <1>7 DEF HandlerKeeps
<1> QED BY <1>6, <1>8, <1>9, ServerSteps

\* What an attempt tells is a message of its own kind, or nothing.
LEMMA Telling ==
    ASSUME DialogInv, NEW r, NEW a, a.kind \in Quieter, Tell(r, a)
    PROVE  \E t : /\ downstream' = downstream \o t /\ QueueFits(t, tries, smb.operation)
                  /\ a.kind = "connected" /\ r \notin adrift => Reported(t, a.request)
<1>1. MessageFits(a, tries, smb.operation)
  BY QuietMessagesFit
<1> QED BY <1>1, OneSent, NothingSent DEF Tell

\* A job commits, fails, asks or ends, or a source that nobody uses is closed.
LEMMA JobSteps ==
    ASSUME DialogInv, NEW r \in DOMAIN jobs,
           JobCommits(r) \/ JobFails(r) \/ JobPrompts(r) \/ JobFinishes(r) \/ CleanupIdle(r)
    PROVE  DialogInv'
<1>1. /\ IsQueue(upstream) /\ RequestsInv /\ r \in 1 .. tries /\ sources \subseteq 1 .. tries
  BY SequencesQueue DEF DialogInv, MessagesInv, RequestsInv, QueueFits, IsQueue
<1>2. /\ UNCHANGED <<smb, passwordFor, sftpSources, tries, asked, adrift, abandonedTries, shownIn,
                   upstream>>
  BY DEF JobCommits, JobFails, JobPrompts, JobFinishes, CleanupIdle, smbSide, quickSide,
         triesHistory
<1>3. jobs' = [x \in DOMAIN jobs |-> jobs'[x]]
  <2>1. CASE JobPrompts(r) \/ CleanupIdle(r)
    <3>1. jobs' = jobs
      BY <2>1 DEF JobPrompts, CleanupIdle, serverSide
    <3> QED BY <3>1, <1>1, JobsAreFunction
  <2>2. CASE JobCommits(r)
    BY <2>2 DEF JobCommits
  <2>3. CASE JobFails(r) \/ JobFinishes(r)
    BY <2>3 DEF JobFails, JobFinishes
  <2> QED BY <2>1, <2>2, <2>3
<1>4. \E t : ServerKeeps(t)
  <2>1. CASE JobCommits(r)
    <3> DEFINE a == Event(IF asked[r].kind = "smb" THEN "smbConnected" ELSE "connected", r)
    <3>1. /\ a.kind \in Quieter /\ a.request = r
          /\ asked[r].kind \in {"quick", "gateway"} => a.kind = "connected"
      BY DEF Event, Quieter
    <3>2. sources' = sources \cup {r} /\ Tell(r, a)
      BY <2>1 DEF JobCommits
    <3> HIDE DEF a
    <3>3. PICK t : /\ downstream' = downstream \o t /\ QueueFits(t, tries, smb.operation)
                   /\ a.kind = "connected" /\ r \notin adrift => Reported(t, a.request)
      BY <3>1, <3>2, Telling
    <3>4. r \in adrift => Ordinary(r)
      BY <1>1 DEF RequestsInv
    <3> QED BY <3>1, <3>2, <3>3, <3>4, <1>1, <1>2, <1>3 DEF ServerKeeps
  <2>2. CASE JobFails(r) \/ JobPrompts(r)
    <3> DEFINE a == Event(IF asked[r].kind = "smb" THEN "smbError" ELSE "quickError", r)
               b == Event("prompt", r)
    <3>1. /\ a.kind \in Quieter /\ b.kind \in Quieter
          /\ Tell(r, a) \/ downstream' = Append(downstream, b)
      BY <2>2 DEF JobFails, JobPrompts, Event, Quieter
    <3> HIDE DEF a, b
    <3>2. sources' = sources
      BY <2>2 DEF JobFails, JobPrompts, serverSide
    <3>3. \E t : downstream' = downstream \o t /\ QueueFits(t, tries, smb.operation)
      BY <3>1, Telling, OneSent, QuietMessagesFit
    <3> QED BY <3>2, <3>3, <1>1, <1>2, <1>3 DEF ServerKeeps
  <2>3. CASE JobFinishes(r) \/ CleanupIdle(r)
    BY <2>3, NothingSent, <1>1, <1>2, <1>3 DEF JobFinishes, CleanupIdle, ServerKeeps
  <2> QED BY <2>1, <2>2, <2>3
<1>5. PICK t : ServerKeeps(t)
  BY <1>4
<1> QED BY <1>1, <1>2, <1>5, ServerSteps

\* With the socket go its messages and the connections of the user; only
\* ordinary attempts go adrift.
LEMMA LosingTheSocket ==
    ASSUME DialogInv, SocketLost
    PROVE  DialogInv'
<1>1. /\ RequestsInv /\ AttemptInv /\ OpensWhereAsked /\ PasswordStaysWithShare
  BY DEF DialogInv, SourcesSafe
<1>2. /\ UNCHANGED <<smb, passwordFor, tries, asked, abandonedTries, shownIn>>
      /\ upstream' = <<>> /\ downstream' = <<>> /\ sources' = {}
  BY DEF SocketLost, smbSide, triesHistory
<1>3. jobs' = [r \in DOMAIN jobs |-> jobs'[r]]
  BY DEF SocketLost
<1>4. RequestsGrow /\ 1 .. tries' = 1 .. tries
  BY <1>1, <1>2, <1>3, JobMoves
<1>5. RequestsInv'
  <2>1. \A r \in adrift' : r \in 1 .. tries' /\ Ordinary(r)'
    BY <1>1, <1>2, SequencesQueue DEF SocketLost, RequestsInv, Ordinary, IsQueue
  <2> QED BY <1>1, <1>2, <1>4, <2>1 DEF RequestsInv, RequestsGrow
<1>6. AttemptInv' /\ OpensWhereAsked' /\ PasswordStaysWithShare'
  BY <1>1, <1>2 DEF AttemptInv, OpensWhereAsked, PasswordStaysWithShare
<1>7. MessagesInv'
  BY <1>2, ShortQueuesFit DEF MessagesInv
<1>8. NoOrphanConnection'
  BY <1>2 DEF NoOrphanConnection
<1> QED BY <1>5, <1>6, <1>7, <1>8 DEF DialogInv, SourcesSafe

----------------------------------------------------------------------------
\* The invariant holds at the start.
LEMMA DialogStarts == DialogInit => DialogInv
<1> SUFFICES ASSUME DialogInit PROVE DialogInv
  OBVIOUS
<1>1. RequestsInv
  <2>1. IsQueue(<<>>) /\ Len(<<>>) = 0
    BY ShortQueues
  <2> QED BY <2>1 DEF RequestsInv, DialogInit
<1>2. AttemptInv
  <2>1. tries = 0 /\ smb = BlankSmb
    BY DEF DialogInit
  <2> QED BY <2>1, BlankForm DEF AttemptInv
<1>3. MessagesInv
  BY ShortQueuesFit DEF MessagesInv, DialogInit
<1>4. SourcesSafe
  BY BlankForm DEF DialogInit, SourcesSafe, NoOrphanConnection, OpensWhereAsked,
     PasswordStaysWithShare
<1> QED BY <1>1, <1>2, <1>3, <1>4 DEF DialogInv

\* A step of another part keeps the invariant.
LEMMA DialogsRest == DialogInv /\ UNCHANGED sourceDialogVars => DialogInv'
  BY DEF sourceDialogVars, DialogInv, RequestsInv, AttemptInv, MessagesInv, SourcesSafe,
     NoOrphanConnection, OpensWhereAsked, PasswordStaysWithShare, Ordinary

\* For any panes, shares and bounds: an SFTP connection that is open on the
\* server is listed by the page, or its report or its return is on the way, or it
\* was made by an ordinary attempt whose socket was lost while its handler
\* connected, never by a gateway attempt; an SMB source opens only in the pane it was asked for and never after it was given
\* up; and no late answer puts another share under a password that was typed
\* (handleQuickConnectSuccess, handleSuccess and handleShareSaved).
THEOREM SourcesStaySafe == DialogSpec => []SourcesSafe
<1>1. DialogInit => DialogInv
  BY DialogStarts
<1>2. DialogInv /\ [DialogNext]_sourceDialogVars => DialogInv'
  <2> SUFFICES ASSUME DialogInv, [DialogNext]_sourceDialogVars PROVE DialogInv'
    OBVIOUS
  <2>1. CASE DialogUser
    BY <2>1, OpeningSmb, FormFilled, SmbRequests, GivingUp, QuickRequests DEF DialogUser
  <2>2. CASE ConnectTimeout
    BY <2>2, GivingUp
  <2>3. CASE ReceiveEvent
    BY <2>3, Receiving
  <2>4. CASE ServeDialogs
    BY <2>4, Serving
  <2>5. CASE SocketLost
    BY <2>5, LosingTheSocket
  <2>6. CASE \/ \E r \in DOMAIN jobs : JobCommits(r) \/ JobFails(r) \/ JobPrompts(r) \/ JobFinishes(r)
             \/ \E r \in sources : CleanupIdle(r)
    <3>1. sources \subseteq DOMAIN jobs
      BY SequencesQueue DEF DialogInv, RequestsInv, IsQueue
    <3> QED BY <2>6, <3>1, JobSteps
  <2>7. CASE UNCHANGED sourceDialogVars
    BY <2>7, DialogsRest
  <2> QED BY <2>1, <2>2, <2>3, <2>4, <2>5, <2>6, <2>7 DEF DialogNext
<1>3. DialogInv => SourcesSafe
  BY DEF DialogInv
<1> QED BY <1>1, <1>2, <1>3, PTL DEF DialogSpec

-----------------------------------------------------------------------------
(* The registry of transfers.  The invariant is pointwise: RecordInv relates *)
(* the fields of one record, and every operation applies the same few        *)
(* functions (Swept, CancelledRecord, FinalizedRecord) to single records.    *)
(* The only facts about the registry as a whole are the closed registry and  *)
(* the limits.                                                               *)

\* What each record satisfies by itself.
RecordInv(r) ==
    /\ r \in Record
    /\ r.state # "none" =>
         r.user \in Users /\ r.sid \in Sids /\ r.dir \in Directions
    /\ r.quota <=> r.state \in Active
    /\ r.state \in Active => r.holds
    /\ r.holds => r.state \in Active \cup {"cancelled"}
    /\ r.token <=> r.state = "pending"
    /\ r.cancel => r.state \in {"cancelling"} \cup Terminal
    /\ r.state = "cancelling" => r.cancel
    /\ r.state = "none" => r.user = NoUser

\* What an operation may do to a record without creating it.
Advances(r, q) ==
    /\ Rank(r.state) <= Rank(q.state)
    /\ r.state \in Terminal => q.state = r.state
    /\ q.user = r.user /\ q.sid = r.sid /\ q.dir = r.dir
    /\ r.cancel => q.cancel
    /\ q.quota => r.quota
    /\ q.state = "none" => r.state = "none"
    /\ r.state = "none" => q.state = "none"

RecordsInv ==
    /\ rec \in [Transfers -> Record]
    /\ \A t \in Transfers : RecordInv(rec[t])

IInv ==
    /\ RecordsInv
    /\ accepting \in BOOLEAN
    /\ binding \in 0..MaxBindings
    /\ ClosedMeansDraining
    /\ WithinLimits

----------------------------------------------------------------------------
(* The record functions.                                                   *)

\* The ranks that order the states.
LEMMA RankType == \A s : Rank(s) \in 0..4
  BY DEF Rank

\* Finalizing an active record keeps the record invariant when the holds are
\* released or the target is CANCELLED (_release_for_terminal, _transition).
LEMMA FinalizedPreserves ==
    ASSUME NEW r, RecordInv(r), r.state \in Active,
           NEW final \in Terminal, NEW ev \in BOOLEAN, NEW rel \in BOOLEAN,
           rel \/ final = "cancelled"
    PROVE  /\ RecordInv(FinalizedRecord(r, final, ev, rel))
           /\ Advances(r, FinalizedRecord(r, final, ev, rel))
  <1> DEFINE q == FinalizedRecord(r, final, ev, rel)
  <1>1. /\ q.state = final /\ q.token = FALSE /\ q.quota = FALSE
        /\ q.cancel = (r.cancel \/ ev) /\ q.holds = (r.holds /\ ~rel)
        /\ q.user = r.user /\ q.sid = r.sid /\ q.dir = r.dir
    BY DEF FinalizedRecord, RecordInv, Record
  <1>2. q \in Record
    BY DEF FinalizedRecord, RecordInv, Record, States, Active, Terminal
  <1> HIDE DEF q
  <1>3. RecordInv(q)
    BY <1>1, <1>2 DEF RecordInv, Active, Terminal
  <1>4. Rank(r.state) <= Rank(q.state)
    BY <1>1 DEF Rank, Active, Terminal
  <1>5. r.cancel => q.cancel
    BY <1>1
  <1>6. Advances(r, q)
    BY <1>1, <1>4, <1>5 DEF Advances, Active, Terminal
  <1> QED BY <1>3, <1>6 DEF q

\* _cleanup_expired_locked keeps the record invariant.
LEMMA SweptPreserves ==
    ASSUME NEW r, RecordInv(r)
    PROVE  RecordInv(Swept(r)) /\ Advances(r, Swept(r))
  <1>1. CASE r.state = "pending" /\ r.token /\ r.due
    BY <1>1, FinalizedPreserves DEF Active, Terminal, Swept
  <1>2. CASE ~(r.state = "pending" /\ r.token /\ r.due)
    <2> DEFINE q == Swept(r)
    <2>1. /\ q = [r EXCEPT !.kept = r.kept /\ ~r.due]
          /\ q \in Record
      BY <1>2 DEF Swept, RecordInv, Record
    <2>2. /\ q.state = r.state /\ q.token = r.token /\ q.quota = r.quota
          /\ q.cancel = r.cancel /\ q.holds = r.holds
          /\ q.user = r.user /\ q.sid = r.sid /\ q.dir = r.dir
      BY <2>1 DEF RecordInv, Record
    <2> HIDE DEF q
    <2>3. RecordInv(q)
      BY <2>1, <2>2 DEF RecordInv
    <2>4. Rank(r.state) <= Rank(q.state)
      BY <2>2, RankType
    <2>5. Advances(r, q)
      BY <2>2, <2>4 DEF Advances
    <2> QED BY <2>3, <2>5 DEF q
  <1> QED BY <1>1, <1>2

\* _cancel_records_locked keeps the record invariant and leaves nothing that
\* could start or run on unaware.
LEMMA CancelledPreserves ==
    ASSUME NEW r, RecordInv(r)
    PROVE  /\ RecordInv(CancelledRecord(r))
           /\ Advances(r, CancelledRecord(r))
           /\ CancelledRecord(r).state \in Active =>
                CancelledRecord(r).state = "cancelling"
  <1>1. CASE r.state = "pending"
    <2>1. /\ RecordInv(FinalizedRecord(r, "cancelled", TRUE, TRUE))
          /\ Advances(r, FinalizedRecord(r, "cancelled", TRUE, TRUE))
      BY <1>1, FinalizedPreserves DEF Active, Terminal
    <2>2. FinalizedRecord(r, "cancelled", TRUE, TRUE).state = "cancelled"
      BY DEF FinalizedRecord, RecordInv, Record
    <2> QED BY <1>1, <2>1, <2>2 DEF CancelledRecord, Active
  <1>2. CASE r.state = "running"
    <2> DEFINE q == CancelledRecord(r)
    <2>1. /\ q = [r EXCEPT !.state = "cancelling", !.cancel = TRUE]
          /\ q \in Record
      BY <1>2 DEF CancelledRecord, RecordInv, Record, States, Active
    <2>2. /\ q.state = "cancelling" /\ q.token = r.token /\ q.quota = r.quota
          /\ q.cancel = TRUE /\ q.holds = r.holds
          /\ q.user = r.user /\ q.sid = r.sid /\ q.dir = r.dir
      BY <2>1 DEF RecordInv, Record
    <2> HIDE DEF q
    <2>3. RecordInv(q)
      BY <1>2, <2>1, <2>2 DEF RecordInv, Active
    <2>4. Rank(r.state) <= Rank(q.state)
      BY <1>2, <2>2 DEF Rank
    <2>5. Advances(r, q)
      BY <1>2, <2>2, <2>4 DEF Advances, Terminal
    <2> QED BY <2>2, <2>3, <2>5 DEF q
  <1>3. CASE r.state \notin {"pending", "running"}
    <2>1. CancelledRecord(r) = r
      BY <1>3 DEF CancelledRecord
    <2>2. Advances(r, r)
      BY RankType DEF Advances
    <2> QED BY <1>3, <2>1, <2>2 DEF Active, RecordInv, Record, States
  <1> QED BY <1>1, <1>2, <1>3

\* Two advances in a row are one.
LEMMA AdvancesTransitive ==
    ASSUME NEW r, NEW q, NEW p, RecordInv(r), RecordInv(q), RecordInv(p),
           Advances(r, q), Advances(q, p)
    PROVE  Advances(r, p)
  BY RankType DEF Advances

\* A record that can at most be stopping stays so.
LEMMA AdvancesDrains ==
    ASSUME NEW r, NEW q, RecordInv(q), Advances(r, q),
           r.state \in Active => r.state = "cancelling", r.state \in States
    PROVE  q.state \in Active => q.state = "cancelling"
  BY DEF Advances, Rank, States, Active, Terminal

----------------------------------------------------------------------------
(* The registry as a whole.                                                *)

\* g results from f without creating a record.
RegistryAdvances(f, g) ==
    \A t \in Transfers : RecordInv(g[t]) /\ Advances(f[t], g[t])

LimitsHold(f) ==
    /\ \A u \in Users : Cardinality(ReservedBy(f, u)) <= PerUserLimit
    /\ Cardinality(Reserved(f)) <= GlobalLimit

\* The reservations of a registry are finite sets.
LEMMA ReservedFinite ==
    ASSUME NEW f
    PROVE  /\ IsFiniteSet(Reserved(f))
           /\ Cardinality(Reserved(f)) \in Nat
           /\ \A u : /\ IsFiniteSet(ReservedBy(f, u))
                     /\ Cardinality(ReservedBy(f, u)) \in Nat
  BY TransfersFinite, FS_Subset, FS_CardinalityType DEF Reserved, ReservedBy

\* Without a new record the limits keep holding: reservations are only
\* returned and never change hands.
LEMMA LimitsKept ==
    ASSUME NEW f, NEW g, LimitsHold(f), RegistryAdvances(f, g)
    PROVE  LimitsHold(g)
  <1>1. Reserved(g) \subseteq Reserved(f)
    BY DEF RegistryAdvances, Advances, Reserved
  <1>2. \A u : ReservedBy(g, u) \subseteq ReservedBy(f, u)
    BY <1>1 DEF RegistryAdvances, Advances, Reserved, ReservedBy
  <1>3. Cardinality(Reserved(g)) <= Cardinality(Reserved(f))
    BY <1>1, ReservedFinite, FS_Subset
  <1>4. \A u : Cardinality(ReservedBy(g, u)) <= Cardinality(ReservedBy(f, u))
    BY <1>2, ReservedFinite, FS_Subset
  <1> QED
    BY <1>3, <1>4, ReservedFinite, LimitsAssumption DEF LimitsHold

\* reserve admits exactly what the limits leave room for.
LEMMA LimitsAfterReserve ==
    ASSUME NEW f, NEW g, NEW t \in Transfers, NEW u, LimitsHold(f),
           MayReserve(f, u), ~f[t].quota, g[t].quota, g[t].user = u,
           \A x \in Transfers \ {t} :
               /\ g[x].quota <=> f[x].quota
               /\ g[x].user = f[x].user
    PROVE  LimitsHold(g)
  <1>1. Reserved(g) = Reserved(f) \cup {t}
    BY DEF Reserved
  <1>2. t \notin Reserved(f)
    BY DEF Reserved
  <1>3. Cardinality(Reserved(g)) = Cardinality(Reserved(f)) + 1
    BY <1>1, <1>2, ReservedFinite, FS_AddElement
  <1>4. ReservedBy(g, u) = ReservedBy(f, u) \cup {t}
    BY <1>1 DEF ReservedBy, Reserved
  <1>5. t \notin ReservedBy(f, u)
    BY <1>2 DEF ReservedBy
  <1>6. Cardinality(ReservedBy(g, u)) = Cardinality(ReservedBy(f, u)) + 1
    BY <1>4, <1>5, ReservedFinite, FS_AddElement
  <1>7. \A v : v # u => ReservedBy(g, v) = ReservedBy(f, v)
    BY <1>1 DEF ReservedBy, Reserved
  <1>8. /\ Cardinality(Reserved(g)) <= GlobalLimit
        /\ Cardinality(ReservedBy(g, u)) <= PerUserLimit
    BY <1>3, <1>6, ReservedFinite, LimitsAssumption DEF MayReserve
  <1> QED BY <1>7, <1>8 DEF LimitsHold

\* The sweep in front of every operation.
LEMMA SweptRegistry ==
    ASSUME RecordsInv
    PROVE  RegistryAdvances(rec, SweptRecords)
  BY SweptPreserves DEF RecordsInv, RegistryAdvances, SweptRecords

\* One record of a swept registry is replaced by an advanced one.
LEMMA ReplaceAdvances ==
    ASSUME RecordsInv, NEW t \in Transfers, NEW q, RecordInv(q),
           Advances(SweptRecords[t], q),
           rec' = [SweptRecords EXCEPT ![t] = q]
    PROVE  RegistryAdvances(rec, rec')
  BY SweptRegistry, AdvancesTransitive DEF SweptRecords, RegistryAdvances, RecordsInv

\* Every operation but create advances the registry (the cases follow Next).
LEMMA OperationsAdvance ==
    ASSUME RecordsInv, Next,
           ~\E t \in Transfers, u \in Users, s \in Sids, d \in Directions :
               Create(t, u, s, d)
    PROVE  RegistryAdvances(rec, rec')
  <1> USE DEF RecordsInv
  <1>0. RegistryAdvances(rec, SweptRecords)
    BY SweptRegistry
  <1>1. CASE BindRuntime
    BY RankType, <1>1 DEF Advances, BindRuntime, RegistryAdvances
  <1>2. CASE CleanupExpired
    BY <1>0, <1>2 DEF CleanupExpired
  <1>3. ASSUME NEW b \in 1..MaxBindings, CloseAndCancel(b)
        PROVE  RegistryAdvances(rec, rec')
    BY <1>3, SweptPreserves, CancelledPreserves, AdvancesTransitive DEF CloseAndCancel,
       RegistryAdvances
  <1>4. ASSUME NEW u \in Users, CancelAllForUser(u)
        PROVE  RegistryAdvances(rec, rec')
    BY <1>4, SweptPreserves, CancelledPreserves, AdvancesTransitive DEF CancelAllForUser,
       RegistryAdvances
  <1>5. ASSUME NEW u \in Users, NEW s \in Sids, CancelAllForSocket(u, s)
        PROVE  RegistryAdvances(rec, rec')
    BY <1>5, SweptPreserves, CancelledPreserves, AdvancesTransitive DEF CancelAllForSocket,
       RegistryAdvances
  <1>6. ASSUME NEW t \in Transfers, DeadlinePasses(t)
        PROVE  RegistryAdvances(rec, rec')
    <2> DEFINE q == [rec[t] EXCEPT !.due = TRUE]
    <2>1. \A x \in Transfers : rec'[x] = IF x = t THEN q ELSE rec[x]
      BY <1>6 DEF DeadlinePasses
    <2>2. /\ q \in Record
          /\ q.state = rec[t].state /\ q.token = rec[t].token
          /\ q.quota = rec[t].quota /\ q.cancel = rec[t].cancel
          /\ q.holds = rec[t].holds /\ q.user = rec[t].user
          /\ q.sid = rec[t].sid /\ q.dir = rec[t].dir
      BY DEF RecordInv, Record
    <2> HIDE DEF q
    <2>3. RecordInv(q)
      BY <2>2 DEF RecordInv
    <2>4. Advances(rec[t], q) /\ \A x \in Transfers : Advances(rec[x], rec[x])
      BY <2>2, RankType DEF Advances
    <2> QED BY <2>1, <2>3, <2>4 DEF RegistryAdvances
  <1>7. ASSUME NEW t \in Transfers, ReleaseSourceHolds(t)
        PROVE  RegistryAdvances(rec, rec')
    <2> DEFINE q == [rec[t] EXCEPT !.holds = FALSE]
    <2>1. \A x \in Transfers : rec'[x] = IF x = t THEN q ELSE rec[x]
      BY <1>7 DEF ReleaseSourceHolds
    <2>2. /\ q \in Record
          /\ q.state = rec[t].state /\ q.token = rec[t].token
          /\ q.quota = rec[t].quota /\ q.cancel = rec[t].cancel
          /\ q.holds = FALSE /\ q.user = rec[t].user
          /\ q.sid = rec[t].sid /\ q.dir = rec[t].dir
      BY DEF RecordInv, Record
    <2> HIDE DEF q
    <2>3. RecordInv(q)
      BY <1>7, <2>2 DEF RecordInv, ReleaseSourceHolds, Active, Terminal
    <2>4. Advances(rec[t], q) /\ \A x \in Transfers : Advances(rec[x], rec[x])
      BY <2>2, RankType DEF Advances
    <2> QED BY <2>1, <2>3, <2>4 DEF RegistryAdvances
  <1>8. ASSUME NEW t \in Transfers, NEW u \in Users, ConsumeToken(t, u)
        PROVE  RegistryAdvances(rec, rec')
    <2> DEFINE r == SweptRecords[t]
               q == [r EXCEPT !.state = "running", !.token = FALSE]
    <2>1. r.state = "pending" /\ RecordInv(r)
      BY <1>0, <1>8 DEF ConsumeToken, RegistryAdvances
    <2>2. rec' = [SweptRecords EXCEPT ![t] = q]
      BY <1>8 DEF ConsumeToken, SweptRecords
    <2> HIDE DEF r
    <2>3. /\ q \in Record
          /\ q.state = "running" /\ q.token = FALSE
          /\ q.quota = r.quota /\ q.cancel = r.cancel
          /\ q.holds = r.holds /\ q.user = r.user
          /\ q.sid = r.sid /\ q.dir = r.dir
      BY <2>1 DEF RecordInv, Record, States, Active
    <2> HIDE DEF q
    <2>4. RecordInv(q)
      BY <2>1, <2>3 DEF RecordInv, Active, Terminal
    <2>5. Rank(r.state) <= Rank(q.state)
      BY <2>1, <2>3 DEF Rank
    <2>6. Advances(r, q)
      BY <2>1, <2>3, <2>5 DEF Advances, Terminal
    <2> QED BY <2>2, <2>4, <2>6, ReplaceAdvances DEF r
  <1>9. ASSUME NEW t \in Transfers, NEW u \in Users, Cancel(t, u)
        PROVE  RegistryAdvances(rec, rec')
    BY <1>0, <1>9, CancelledPreserves, ReplaceAdvances DEF RegistryAdvances, Cancel
  <1>10. ASSUME NEW t \in Transfers, NEW u \in Users,
                Complete(t, u) \/ Fail(t, u) \/ FinishCancelled(t, u)
         PROVE  RegistryAdvances(rec, rec')
    <2>1. PICK allowed \in SUBSET Active, final \in Terminal :
              /\ Transition(t, u, allowed, final)
              /\ final = "cancelled" => allowed = {"running", "cancelling"}
      BY <1>10 DEF Complete, Fail, FinishCancelled, Active, Terminal
    <2> DEFINE r == SweptRecords[t]
               ev == final = "cancelled"
               rel == ~(final = "cancelled"
                          /\ r.state \in {"running", "cancelling"})
    <2>2. /\ r.state \in allowed
          /\ rec' = [SweptRecords EXCEPT ![t] =
                        FinalizedRecord(r, final, ev, rel)]
      BY <2>1 DEF Transition
    <2>3. RecordInv(r)
      BY <1>0 DEF RegistryAdvances
    <2>4. ev \in BOOLEAN /\ rel \in BOOLEAN /\ (rel \/ final = "cancelled")
      OBVIOUS
    <2>5. r.state \in Active
      BY <2>1, <2>2
    <2> HIDE DEF ev, rel
    <2>6. /\ RecordInv(FinalizedRecord(r, final, ev, rel))
          /\ Advances(r, FinalizedRecord(r, final, ev, rel))
      BY <2>3, <2>4, <2>5, FinalizedPreserves
    <2> QED BY <2>2, <2>6, ReplaceAdvances
  <1> QED
    BY <1>1, <1>2, <1>3, <1>4, <1>5, <1>6, <1>7, <1>8, <1>9, <1>10 DEF Next

----------------------------------------------------------------------------
(* The theorems.                                                           *)

\* A new record satisfies the record invariant.
LEMMA NewRecordInv ==
    ASSUME NEW u \in Users, NEW s \in Sids, NEW d \in Directions
    PROVE  /\ RecordInv(NewRecord(u, s, d))
           /\ NewRecord(u, s, d).state = "pending"
           /\ NewRecord(u, s, d).user = u
           /\ NewRecord(u, s, d).quota = TRUE
  BY DEF NewRecord, NotCreated, RecordInv, Record, States, Active, Terminal

\* Every operation keeps rec a registry.
LEMMA RecTyped ==
    ASSUME RecordsInv, Next
    PROVE  rec' = [t \in Transfers |-> rec'[t]]
  BY DEF RecordsInv, Next, BindRuntime, CleanupExpired, CloseAndCancel,
         CancelAllForUser, CancelAllForSocket, DeadlinePasses,
         ReleaseSourceHolds, Create, ConsumeToken, Cancel, Complete, Fail,
         FinishCancelled, Transition, SweptRecords

\* The effect of create on the swept registry.
LEMMA CreateStep ==
    ASSUME RecordsInv, NEW t \in Transfers, NEW u \in Users, NEW s \in Sids,
           NEW d \in Directions, Create(t, u, s, d)
    PROVE  /\ accepting /\ accepting' = accepting /\ binding' = binding
           /\ rec[t].state = "none"
           /\ MayReserve(SweptRecords, u)
           /\ RecordInv(SweptRecords[t]) /\ SweptRecords[t].state = "none"
           /\ rec'[t] = NewRecord(u, s, d)
           /\ \A x \in Transfers \ {t} : rec'[x] = SweptRecords[x]
  BY SweptRegistry DEF Create, RegistryAdvances, Advances, SweptRecords

\* IInv is inductive.
LEMMA InitInv == Init => IInv
  <1> SUFFICES ASSUME Init PROVE IInv
    OBVIOUS
  <1>1. \A t \in Transfers : rec[t] = NotCreated
    BY DEF Init
  <1>2. RecordInv(NotCreated)
    BY DEF NotCreated, RecordInv, Record, States, Active, Terminal
  <1>3. RecordsInv
    BY <1>1, <1>2 DEF RecordsInv, Init, RecordInv
  <1>4. Reserved(rec) = {} /\ \A u : ReservedBy(rec, u) = {}
    BY <1>1 DEF NotCreated, Reserved, ReservedBy
  <1>5. WithinLimits
    BY <1>4, FS_EmptySet, LimitsAssumption DEF WithinLimits
  <1> QED BY <1>3, <1>5, BindingsAssumption DEF IInv, Init, ClosedMeansDraining

\* Every operation keeps the records and the registry consistent.
LEMMA StepInv == IInv /\ [Next]_mgrVars => IInv'
  <1> SUFFICES ASSUME IInv, [Next]_mgrVars PROVE IInv'
    OBVIOUS
  <1>0. RecordsInv /\ LimitsHold(rec)
    BY DEF IInv, WithinLimits, LimitsHold
  <1>1. CASE UNCHANGED mgrVars
    BY <1>1 DEF mgrVars, IInv, RecordsInv, ClosedMeansDraining, WithinLimits,
                Reserved, ReservedBy
  <1>2. ASSUME NEW t \in Transfers, NEW u \in Users, NEW s \in Sids,
               NEW d \in Directions, Create(t, u, s, d)
        PROVE  IInv'
    <2>0. /\ rec'[t] = NewRecord(u, s, d)
          /\ \A x \in Transfers \ {t} : rec'[x] = SweptRecords[x]
      BY <1>0, <1>2, CreateStep
    <2>1. RegistryAdvances(rec, SweptRecords) /\ LimitsHold(SweptRecords)
      BY <1>0, SweptRegistry, LimitsKept
    <2>2. \A x \in Transfers : RecordInv(rec'[x])
      <3>1. RecordInv(NewRecord(u, s, d))
        BY NewRecordInv
      <3> QED BY <2>0, <2>1, <3>1 DEF RegistryAdvances
    <2>3. LimitsHold(rec')
      <3>1. ~SweptRecords[t].quota
        BY <1>0, <1>2, CreateStep DEF RecordInv, Active
      <3>2. rec'[t].quota /\ rec'[t].user = u
        <4>1. NewRecord(u, s, d).quota = TRUE /\ NewRecord(u, s, d).user = u
          BY NewRecordInv
        <4> QED BY <2>0, <4>1
      <3> QED BY <1>0, <1>2, <2>1, <3>1, <3>2, CreateStep, LimitsAfterReserve
    <2>4. accepting' = TRUE /\ binding' = binding
      BY <1>0, <1>2, CreateStep DEF IInv
    <2>5. RecordsInv'
      BY <1>0, <1>2, <2>2, RecTyped DEF RecordsInv, RecordInv, Next
    <2> QED BY <2>3, <2>4, <2>5 DEF IInv, ClosedMeansDraining, WithinLimits,
                                    LimitsHold
  <1>3. CASE Next /\ ~\E t \in Transfers, u \in Users, s \in Sids,
                         d \in Directions : Create(t, u, s, d)
    <2>1. RegistryAdvances(rec, rec')
      BY <1>0, <1>3, OperationsAdvance
    <2>2. LimitsHold(rec')
      BY <1>0, <2>1, LimitsKept
    <2>3. RecordsInv'
      BY <1>0, <1>3, <2>1, RecTyped DEF RecordsInv, RegistryAdvances, RecordInv
    <2>4. accepting' \in BOOLEAN /\ binding' \in 0..MaxBindings
      <3>1. \/ accepting' = TRUE /\ binding < MaxBindings
                                /\ binding' = binding + 1
            \/ accepting' = FALSE /\ binding' = binding
            \/ accepting' = accepting /\ binding' = binding
        BY <1>3 DEF Next, BindRuntime, CleanupExpired, CloseAndCancel,
           CancelAllForUser, CancelAllForSocket, DeadlinePasses,
           ReleaseSourceHolds, ConsumeToken, Cancel, Complete, Fail,
           FinishCancelled, Transition
      <3>2. accepting' \in BOOLEAN
        BY <3>1, Zenon DEF IInv
      <3>3. binding' \in 0..MaxBindings
        BY <3>1, BindingsAssumption DEF IInv
      <3> QED BY <3>2, <3>3
    <2>5. ClosedMeansDraining'
      <3>1. CASE accepting' = accepting
        BY <1>0, <2>1, <3>1, AdvancesDrains
           DEF IInv, ClosedMeansDraining, RegistryAdvances, RecordsInv, RecordInv,
               Record
      <3>2. CASE BindRuntime
        BY <3>2 DEF BindRuntime, ClosedMeansDraining
      <3>3. ASSUME NEW b \in 1..MaxBindings, CloseAndCancel(b)
            PROVE  ClosedMeansDraining'
        BY <3>3, <1>0, SweptPreserves, CancelledPreserves DEF CloseAndCancel, ClosedMeansDraining,
           RecordsInv
      <3> QED
        BY <1>3, <3>1, <3>2, <3>3 DEF Next, CleanupExpired, CancelAllForUser,
           CancelAllForSocket, DeadlinePasses, ReleaseSourceHolds,
           ConsumeToken, Cancel, Complete, Fail, FinishCancelled, Transition
    <2> QED BY <2>2, <2>3, <2>4, <2>5 DEF IInv, WithinLimits, LimitsHold
  <1> QED BY <1>1, <1>2, <1>3

\* The inductive invariant holds throughout.
LEMMA Invariance == Spec => []IInv
  BY InitInv, StepInv, PTL DEF Spec

\* Every record of the registry keeps its type and its owner.
THEOREM TypeCorrect == Spec => []TypeOK
  <1>1. IInv => TypeOK
    BY DEF IInv, RecordsInv, RecordInv, TypeOK
  <1> QED BY <1>1, Invariance, PTL

\* Slots, holds, tokens and cancel events always agree with the state of
\* their record (FinalizedRecord, consume_token, _cancel_records_locked).
THEOREM RecordsConsistent ==
    Spec => []ResourcesFollowState
  <1>1. IInv => ResourcesFollowState
    BY DEF IInv, RecordsInv, RecordInv, ResourcesFollowState, SlotIffActive,
           HoldsFollowState, TokenIffPending, CancelEventAgrees
  <1> QED BY <1>1, Invariance, PTL

\* After close_and_cancel nothing can start and everything still running has
\* been told to stop.
THEOREM ClosedRegistryDrains == Spec => []ClosedMeansDraining
  <1>1. IInv => ClosedMeansDraining
    BY DEF IInv
  <1> QED BY <1>1, Invariance, PTL

\* The transfers in the registry never exceed the per-user and the global
\* limit.
THEOREM LimitsRespected == Spec => []WithinLimits
  <1>1. IInv => WithinLimits
    BY DEF IInv
  <1> QED BY <1>1, Invariance, PTL

\* What the registry keeps true for any transfers, users, sockets and limits.
THEOREM RegistryIsSafe == Spec => []RegistrySafe
  <1>1. TypeOK /\ ResourcesFollowState /\ ClosedMeansDraining /\ WithinLimits
          => RegistrySafe
    BY DEF RegistrySafe
  <1> QED
    BY <1>1, TypeCorrect, RecordsConsistent, ClosedRegistryDrains,
       LimitsRespected, PTL

\* No operation moves a record backwards, reassigns it or clears its cancel
\* event.
THEOREM RecordsMoveForward == Spec => ForwardOnly
  <1> DEFINE Step == \A t \in Transfers :
        /\ Rank(rec[t].state) <= Rank(rec'[t].state)
        /\ rec[t].state \in Terminal => rec'[t].state = rec[t].state
        /\ rec[t].state # "none" =>
             /\ rec'[t].user = rec[t].user
             /\ rec'[t].sid = rec[t].sid
             /\ rec'[t].dir = rec[t].dir
        /\ rec[t].cancel => rec'[t].cancel
  <1>1. ASSUME IInv, Next PROVE Step
    BY <1>1, CreateStep, SweptRegistry, RankType, OperationsAdvance DEF IInv, RegistryAdvances,
       RecordsInv, RecordInv, Rank, Terminal, Advances
  <1>2. IInv /\ [Next]_mgrVars => [Step]_mgrVars
    BY <1>1
  <1> QED BY <1>2, Invariance, PTL DEF Spec, ForwardOnly

==============================================================================
