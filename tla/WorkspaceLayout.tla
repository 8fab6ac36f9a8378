-------------------------- MODULE WorkspaceLayout --------------------------
(***************************************************************************)
(* What the page shows: the tools beside the terminals                     *)
(* (workspace-layout-controller.js), the view below the header             *)
(* (primary-workspace-controller.js) and the menu and command line of the  *)
(* phone layout (mobile-app-shell.js).  The three change each other through *)
(* events that are handled at once.                                        *)
(***************************************************************************)
EXTENDS Naturals, FiniteSets

CONSTANTS Tabs,            \* SSH sessions that appear
          MaxLayoutActs    \* bound: steps of the user and of the sessions

VARIABLES lay,             \* the layout controller and the phone layout
          view,            \* the primary view: its name, the element shown, and where it is
          defaults,        \* sessionDefaults
          intruded,        \* a default replaced what the user had chosen
          layoutActs

layoutVars == <<lay, view, defaults, intruded, layoutActs>>

Contexts == {"files", "commands", "diagnostics", "notes"}
Modes == {"desktop", "tablet", "mobile"}
Views == {"files", "hosts", "commands"}
NoContext == "none"
Acting == layoutActs < MaxLayoutActs /\ layoutActs' = layoutActs + 1

-----------------------------------------------------------------------------
(* Operators on the layout.                                                 *)

\* fallbackContext
FallbackContext(l) ==
    IF l.last \in l.available THEN l.last
    ELSE IF "notes" \in l.available THEN "notes" ELSE "commands"

\* isPhone, for the mode; a low screen with a coarse pointer in another mode is
\* left out.  setCommandOpen of mobile-app-shell.js
Phone(l) == l.mode = "mobile"
CommandLine(l, open) == [l EXCEPT !.line = open /\ Phone(l) /\ l.session]

\* setMoreOpen and setBackgroundInert: what is behind the menu is inert.
MoreMenu(l, open) ==
    LET now == open /\ Phone(l) IN
    IF now /\ ~l.more THEN [CommandLine(l, FALSE) EXCEPT !.more = TRUE, !.inert = TRUE]
    ELSE IF ~now /\ l.more THEN [l EXCEPT !.more = FALSE, !.inert = FALSE]
    ELSE l

\* The listeners of workspace-context-change.
ContextChanged(l) == IF l.active = "files" /\ Phone(l) THEN CommandLine(l, FALSE) ELSE l

\* openContext, closeContext: acts of the user are counted.
OpenContext(l, c, user) ==
    IF c \notin l.available THEN l
    ELSE LET m == [l EXCEPT !.active = c, !.last = c, !.revision = IF user THEN @ + 1 ELSE @] IN
         IF l.active = c THEN m ELSE ContextChanged(m)

CloseContext(l, user) ==
    IF l.active = NoContext THEN l
    ELSE ContextChanged([l EXCEPT !.active = NoContext, !.revision = IF user THEN @ + 1 ELSE @])

\* A mutant: a tool that is gone stays open.
AvailabilityKeeps(l, c, on) == [l EXCEPT !.available = IF on THEN @ \cup {c} ELSE @ \ {c}]

\* setContextAvailability: a tool that comes back is opened again on a wide page,
\* one that goes is replaced.
Availability(l, c, on) ==
    LET m == [l EXCEPT !.available = IF on THEN @ \cup {c} ELSE @ \ {c}] IN
    IF (c \in l.available) = on THEN l
    ELSE IF on /\ l.mode = "desktop" /\ l.last = c /\ l.active # c THEN OpenContext(m, c, FALSE)
    ELSE IF ~on /\ l.active = c THEN OpenContext([m EXCEPT !.active = NoContext], FallbackContext(m), FALSE)
    ELSE m

-----------------------------------------------------------------------------
(* The user.                                                                *)

\* A tab of the tools, the launcher, or a key on the tabs.
ChooseContext(c) ==
    /\ Acting /\ ~lay.inert /\ c \in lay.available
    /\ lay' = OpenContext(lay, c, TRUE)
    /\ UNCHANGED <<view, defaults, intruded>>

\* The close button, the backdrop or Escape.
DismissContext ==
    /\ Acting /\ lay.active # NoContext
    /\ lay' = CloseContext(lay, TRUE)
    /\ UNCHANGED <<view, defaults, intruded>>

ToggleCommandLine ==
    /\ Acting /\ ~lay.inert /\ lay' = CommandLine(lay, ~lay.line)
    /\ UNCHANGED <<view, defaults, intruded>>

ToggleMore ==
    /\ Acting /\ lay' = MoreMenu(lay, ~lay.more)
    /\ UNCHANGED <<view, defaults, intruded>>

\* reconcile and the resize listener of the phone layout.
Resize(m) ==
    /\ Acting /\ m # lay.mode
    /\ LET l == [lay EXCEPT !.mode = m]
           closed == IF lay.mode = "desktop" /\ m # "desktop" THEN CloseContext(l, FALSE) ELSE l IN
       lay' = IF Phone(closed) THEN closed
              ELSE [closed EXCEPT !.more = FALSE, !.inert = FALSE, !.line = FALSE]
    /\ UNCHANGED <<view, defaults, intruded>>

-----------------------------------------------------------------------------
(* The primary views.                                                       *)

\* showWorkspaces: the element that was shown is hidden, the terminals come back.
ShownWorkspaces(v) == [v EXCEPT !.name = "workspaces", !.element = NoContext, !.shown = @ \ {v.element}, !.chrome = TRUE]

\* open: the element moves below the header.
OpenedView(v, name) ==
    [v EXCEPT !.name = name, !.element = name, !.shown = (@ \ {v.element}) \cup {name}, !.surface = @ \cup {name}, !.chrome = FALSE]

\* The listener of primary-workspace-change.
ViewChanged(l, name) == LET m == MoreMenu(l, FALSE) IN IF name = "workspaces" THEN m ELSE CommandLine(m, FALSE)

OpenView(name) ==
    /\ Acting
    /\ view' = OpenedView(view, name) /\ lay' = ViewChanged(lay, name)
    /\ UNCHANGED <<defaults, intruded>>

ShowWorkspaces ==
    /\ Acting /\ view.name # "workspaces"
    /\ view' = ShownWorkspaces(view) /\ lay' = ViewChanged(lay, "workspaces")
    /\ UNCHANGED <<defaults, intruded>>

\* handleDockClick with a tool of the session: the workspaces, then its tab.
DockTool(c) ==
    /\ Acting /\ Phone(lay) /\ c \in lay.available /\ lay.session
    /\ view' = ShownWorkspaces(view)
    /\ lay' = OpenContext(ViewChanged(lay, "workspaces"), c, TRUE)
    /\ UNCHANGED <<defaults, intruded>>

\* CommandWorkspace.open beside a connection dialog: release gives the element back
\* to its place and it is opened as a dialog; ModalManager.close hides it.
OpenAsDialog(name) ==
    /\ Acting
    /\ view' = [(IF view.element = name THEN ShownWorkspaces(view) ELSE view) EXCEPT !.surface = @ \ {name}, !.shown = @ \cup {name}]
    /\ lay' = IF view.element = name THEN ViewChanged(lay, "workspaces") ELSE lay
    /\ UNCHANGED <<defaults, intruded>>

CloseDialog(name) ==
    /\ Acting /\ name \in view.shown /\ name \notin view.surface
    /\ view' = [view EXCEPT !.shown = @ \ {name}]
    /\ UNCHANGED <<lay, defaults, intruded>>

-----------------------------------------------------------------------------
(* The sessions.                                                            *)

\* The files or the diagnostics of the session in view come or go.
ToolChanges(c, on) ==
    /\ Acting /\ c \in {"files", "diagnostics"}
    /\ lay' = Availability(lay, c, on)
    /\ UNCHANGED <<view, defaults, intruded>>

\* updateSessionSummary
SessionChanges ==
    /\ Acting
    /\ LET l == [lay EXCEPT !.session = ~@] IN lay' = IF l.session THEN l ELSE CommandLine(l, FALSE)
    /\ UNCHANGED <<view, defaults, intruded>>

\* selectSessionDefault: only when the user has done nothing since.
MayDefault(d) == d.revision = lay.revision /\ lay.mode = "desktop"

\* probed: the result of the SFTP probe is known.
SessionDefault(s, probed, sftp) ==
    /\ Acting /\ ~defaults[s].applied
    /\ LET d == IF defaults[s].seen THEN defaults[s] ELSE [seen |-> TRUE, revision |-> lay.revision, applied |-> FALSE]
           target == IF sftp THEN "files" ELSE "diagnostics" IN
       IF ~probed THEN defaults' = [defaults EXCEPT ![s] = d] /\ UNCHANGED <<lay, intruded>>
       ELSE IF ~MayDefault(d) THEN defaults' = [defaults EXCEPT ![s] = [d EXCEPT !.applied = TRUE]] /\ UNCHANGED <<lay, intruded>>
       ELSE IF target \notin lay.available THEN defaults' = [defaults EXCEPT ![s] = d] /\ UNCHANGED <<lay, intruded>>
       ELSE /\ defaults' = [defaults EXCEPT ![s] = [d EXCEPT !.applied = TRUE]]
            /\ lay' = OpenContext(lay, target, FALSE)
            /\ intruded' = (intruded \/ d.revision # lay.revision)
    /\ UNCHANGED view

LayoutInit ==
    /\ lay = [mode |-> "desktop", available |-> {"commands", "notes"}, active |-> "notes", last |-> "files", revision |-> 0,
              session |-> FALSE, more |-> FALSE, inert |-> FALSE, line |-> FALSE]
    /\ view = [name |-> "workspaces", element |-> NoContext, shown |-> {}, surface |-> {}, chrome |-> TRUE]
    /\ defaults = [s \in Tabs |-> [seen |-> FALSE, revision |-> 0, applied |-> FALSE]]
    /\ intruded = FALSE /\ layoutActs = 0

LayoutNext ==
    \/ DismissContext \/ ToggleCommandLine \/ ToggleMore \/ ShowWorkspaces \/ SessionChanges
    \/ \E c \in Contexts : ChooseContext(c) \/ DockTool(c) \/ \E on \in BOOLEAN : ToolChanges(c, on)
    \/ \E m \in Modes : Resize(m)
    \/ \E name \in Views : OpenView(name)
    \/ OpenAsDialog("commands") \/ CloseDialog("commands")
    \/ \E s \in Tabs, probed, sftp \in BOOLEAN : SessionDefault(s, probed, sftp)

-----------------------------------------------------------------------------
\* The page stays usable whatever the sessions, the window and the three
\* controllers do: the open tool is one the session offers, one primary view is
\* visible and the terminals exactly when it is none of the others, nothing is inert
\* without the menu that made it so, and the phone's command line is open only on
\* a phone with a session and without the menu (setContextAvailability, reconcile,
\* open, release, setMoreOpen, setBackgroundInert, setCommandOpen).
PageUsable ==
    /\ lay.active \in lay.available \cup {NoContext}
    /\ view.shown \cap view.surface = IF view.name = "workspaces" THEN {} ELSE {view.name}
    /\ view.chrome = (view.name = "workspaces")
    /\ lay.inert = lay.more /\ (lay.more => Phone(lay))
    /\ lay.line => Phone(lay) /\ lay.session /\ ~lay.more

\* The tool chosen for a new session never replaces one the user opened or closed
\* after the session appeared (selectSessionDefault).
DefaultYields == ~intruded

\* What the layout promises: the page can be used and the user's choice stands
\* (workspace-layout-controller.js, mobile-app-shell.js).
LayoutSafe == PageUsable /\ DefaultYields
=============================================================================
