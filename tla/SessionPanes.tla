---------------------------- MODULE SessionPanes ----------------------------
(***************************************************************************)
(* The panes the terminals are shown in (static/js/session-manager.js):    *)
(* which session is assigned to which pane, the launcher that can lie over *)
(* a pane, the active pane and the session input goes to, and where the    *)
(* element of each terminal hangs in the document.  An element that is in  *)
(* a pane when the pane is emptied leaves the document and is never found  *)
(* again.                                                                  *)
(***************************************************************************)
EXTENDS Naturals, Sequences, FiniteSets, Functions

CONSTANTS PaneSessions,  \* sessions
          PaneLayouts,   \* how many panes a layout has
          NoSession,
          MaxPaneActs    \* bound: steps of the user and the server

VARIABLES open,        \* SessionManager.sessions
          gone,        \* sessions that were removed
          assigned,    \* paneAssignments, its length is the layout
          launchers,   \* connectionLauncherSessions, by pane
          activePane, activeSession,
          place,       \* where the terminal of a session hangs
          dialog,      \* the pane assignment modal: its layout and the sessions it lists
          sloppy,      \* history: the dialog was applied with a session twice or gone
          paneActs

paneVars == <<open, gone, assigned, launchers, activePane, activeSession, place, dialog, sloppy, paneActs>>

Container == 0     \* terminalsContainer, not shown
Lost == 99         \* not in the document
MaxLayout == CHOOSE n \in PaneLayouts : \A m \in PaneLayouts : m <= n

ASSUME PaneLayoutsAssumption == PaneLayouts \subseteq 1 .. 4 /\ 1 \in PaneLayouts

PaneTypeOK ==
    /\ open \subseteq PaneSessions /\ gone \subseteq PaneSessions \ open
    /\ Len(assigned) \in PaneLayouts /\ Range(assigned) \subseteq PaneSessions \cup {NoSession}
    /\ launchers \subseteq DOMAIN assigned
    /\ activePane \in DOMAIN assigned
    /\ activeSession \in PaneSessions \cup {NoSession}
    /\ place \in [PaneSessions -> {Container, Lost} \cup 1 .. MaxLayout]
    /\ dialog = NoSession \/ dialog.layout \in PaneLayouts

-----------------------------------------------------------------------------
(* The workspace as one value, so that a handler composes the methods it     *)
(* calls in their order.                                                     *)

Now == [open |-> open, at |-> assigned, over |-> launchers, pane |-> activePane,
        session |-> activeSession, place |-> place]

Becomes(w) == /\ open' = w.open /\ assigned' = w.at /\ launchers' = w.over
              /\ activePane' = w.pane /\ activeSession' = w.session /\ place' = w.place

\* The first of a set of panes, 0 when there is none.
FirstOf(I) == IF I = {} THEN 0 ELSE CHOOSE i \in I : \A j \in I : i <= j
FirstEmpty(w) == FirstOf({i \in DOMAIN w.at : w.at[i] = NoSession})
IndexOf(w, s) == FirstOf({i \in DOMAIN w.at : w.at[i] = s})

\* Moving the element of a session finds it only in the document.
Moved(pl, s, to) == IF pl[s] = Lost THEN pl ELSE [pl EXCEPT ![s] = to]

\* renderPane: the pane is emptied, then the terminal or the launcher put in.
RenderPane(w, i) ==
    LET emptied == [s \in PaneSessions |-> IF w.place[s] = i THEN Lost ELSE w.place[s]]
        s == w.at[i]
    IN [w EXCEPT !.place = IF s \notin w.open THEN emptied
                           ELSE Moved(emptied, s, IF i \in w.over THEN Container ELSE i)]

\* The panes of I are drawn in their order; a layout has at most four.
Draw(w, i, I) == IF i \in I THEN RenderPane(w, i) ELSE w
RenderPanes(w, I) == Draw(Draw(Draw(Draw(w, 1, I), 2, I), 3, I), 4, I)

\* restoreConnectionLauncher without activation
Uncovered(w, i) == IF i \in w.over THEN RenderPane([w EXCEPT !.over = @ \ {i}], i) ELSE w

\* setActivePane: the launcher of the pane that is left goes.
SetActivePane(w, i) ==
    IF i \notin DOMAIN w.at THEN w
    ELSE LET v == IF w.pane # i THEN Uncovered(w, w.pane) ELSE w
         IN [v EXCEPT !.pane = i, !.session = IF i \in v.over THEN NoSession ELSE v.at[i]]

\* restoreConnectionLauncher
RestoreLauncher(w, i) == IF i \in w.over THEN SetActivePane(Uncovered(w, i), i) ELSE w

\* A mutant: the terminal that was there is not saved.
AssignOverwriting(w, s, i) ==
    IF i \notin DOMAIN w.at \/ s \notin w.open THEN w
    ELSE LET had == {j \in DOMAIN w.at : w.at[j] = s}
             v == [w EXCEPT !.over = @ \ (had \cup {i}),
                            !.at = [j \in DOMAIN w.at |-> IF j = i THEN s
                                                          ELSE IF j \in had THEN NoSession ELSE w.at[j]]]
         IN SetActivePane(RenderPanes(RenderPane(v, i), had \ {i}), i)

\* assignSessionToPane: the terminal that was there goes back to the container
\* before its pane is emptied, and the panes the session had are drawn last.
AssignSessionToPane(w, s, i) ==
    IF i \notin DOMAIN w.at \/ s \notin w.open THEN w
    ELSE LET had == {j \in DOMAIN w.at : w.at[j] = s}
             old == IF i \in had THEN NoSession ELSE w.at[i]
             v == [w EXCEPT !.over = @ \ (had \cup {i}),
                            !.at = [j \in DOMAIN w.at |-> IF j = i THEN s
                                                          ELSE IF j \in had THEN NoSession ELSE w.at[j]],
                            !.place = IF old \in w.open THEN Moved(@, old, Container) ELSE @]
         IN SetActivePane(RenderPanes(RenderPane(v, i), had \ {i}), i)

\* removeSessionUI: the element is removed first, then the pane is drawn, then
\* the first pane with a session is activated.
RemoveSessionUI(w, s) ==
    LET i == IndexOf(w, s)
        out == [w EXCEPT !.place = [@ EXCEPT ![s] = Lost]]
        freed == IF i = 0 THEN out
                 ELSE RenderPane([out EXCEPT !.over = @ \ {i}, !.at = [@ EXCEPT ![i] = NoSession]], i)
        closed == [freed EXCEPT !.open = @ \ {s}]
        first == FirstOf({j \in DOMAIN closed.at : closed.at[j] # NoSession})
    IN IF closed.open = {} THEN [closed EXCEPT !.session = NoSession]
       ELSE SetActivePane(closed, IF first # 0 THEN first ELSE closed.pane)

\* setSplitLayout and applyPaneAssignments: every terminal goes to the
\* container before the grid is built anew.
Rebuilt(w, at) ==
    LET v == [w EXCEPT !.over = {}, !.at = at,
                       !.place = [s \in PaneSessions |-> IF s \in w.open /\ w.place[s] # Lost
                                                         THEN Container ELSE w.place[s]]]
    IN SetActivePane(RenderPanes(v, DOMAIN at), IF v.pane \in DOMAIN at THEN v.pane ELSE 1)

-----------------------------------------------------------------------------
PaneAct == paneActs < MaxPaneActs /\ paneActs' = paneActs + 1
UserActs == PaneAct /\ dialog = NoSession

\* createSession and the pane it gets: the pane its request named, however the
\* layout changed since, or the first empty one, or the active one.  It may
\* replace a session.
SessionArrives(s, named, old) ==
    /\ PaneAct
    /\ s \notin open \cup gone
    /\ LET made == [Now EXCEPT !.open = @ \cup {s}, !.place = [@ EXCEPT ![s] = Container]]
           w == IF old \in open THEN RemoveSessionUI(made, old) ELSE made
           i == IF named # 0 THEN named
                ELSE IF FirstEmpty(w) # 0 THEN FirstEmpty(w) ELSE w.pane
       IN Becomes(AssignSessionToPane(w, s, i))
    /\ gone' = IF old \in open THEN gone \cup {old} ELSE gone
    /\ UNCHANGED <<dialog, sloppy>>

\* removeSessionUI: the user closes a session, or it ends and tabs that end close.
SessionRemoved(s) ==
    /\ PaneAct
    /\ s \in open
    /\ Becomes(RemoveSessionUI(Now, s))
    /\ gone' = gone \cup {s}
    /\ UNCHANGED <<dialog, sloppy>>

\* switchSession
SwitchSession(s) ==
    /\ UserActs
    /\ s \in open
    /\ LET i == IndexOf(Now, s) IN
       Becomes(IF i # 0
               THEN IF i \in launchers THEN RestoreLauncher(Now, i) ELSE SetActivePane(Now, i)
               ELSE AssignSessionToPane(Now, s,
                        IF assigned[activePane] # NoSession /\ FirstEmpty(Now) # 0
                        THEN FirstEmpty(Now) ELSE activePane))
    /\ UNCHANGED <<gone, dialog, sloppy>>

\* A click in a pane; dismissConnectionModal returns to a pane the same way.
ClickPane(i) ==
    /\ UserActs
    /\ Becomes(SetActivePane(Now, i))
    /\ UNCHANGED <<gone, dialog, sloppy>>

\* showConnectionLauncher
ShowConnectionLauncher(i) ==
    /\ UserActs
    /\ LET s == assigned[i]
           w == [Now EXCEPT !.place = IF s \in open THEN Moved(@, s, Container) ELSE @,
                            !.over = IF s # NoSession THEN @ \cup {i} ELSE @]
       IN Becomes(SetActivePane(RenderPane(w, i), i))
    /\ UNCHANGED <<gone, dialog, sloppy>>

\* Escape or Return on the launcher; startConnection uncovers a pane without
\* activating it while the form is open.
LeaveLauncher(i, activate) ==
    /\ UserActs
    /\ i \in launchers
    /\ Becomes(IF activate THEN RestoreLauncher(Now, i) ELSE Uncovered(Now, i))
    /\ UNCHANGED <<gone, dialog, sloppy>>

\* refreshEmptyPanes, when the language changes
RefreshEmptyPanes ==
    /\ UserActs
    /\ Becomes(RenderPanes(Now, {j \in DOMAIN assigned : assigned[j] = NoSession \/ j \in launchers}))
    /\ UNCHANGED <<gone, dialog, sloppy>>

\* setupSplitControls: without sessions the layout changes at once, otherwise
\* the dialog asks which session goes where.
ChooseLayout(n) ==
    /\ UserActs
    /\ n # Len(assigned)
    /\ IF open = {}
       THEN /\ Becomes(Rebuilt(Now, [j \in 1 .. n |-> IF j <= Len(assigned) THEN assigned[j] ELSE NoSession]))
            /\ UNCHANGED dialog
       ELSE /\ dialog' = [layout |-> n, offered |-> open]
            /\ UNCHANGED <<open, assigned, launchers, activePane, activeSession, place>>
    /\ UNCHANGED <<gone, sloppy>>

\* applyHandler: each pane gets what is checked, whatever became of it.
ApplyDialog(chosen) ==
    /\ PaneAct
    /\ dialog # NoSession
    /\ chosen \in [1 .. dialog.layout -> dialog.offered \cup {NoSession}]
    /\ Becomes(Rebuilt(Now, [j \in 1 .. dialog.layout |-> chosen[j]]))
    /\ dialog' = NoSession
    /\ sloppy' = (\/ sloppy
                  \/ \E j \in DOMAIN chosen : chosen[j] \in gone
                  \/ \E j, k \in DOMAIN chosen : j # k /\ chosen[j] = chosen[k] /\ chosen[j] # NoSession)
    /\ UNCHANGED gone

CancelDialog ==
    /\ PaneAct
    /\ dialog # NoSession
    /\ dialog' = NoSession
    /\ UNCHANGED <<open, gone, assigned, launchers, activePane, activeSession, place, sloppy>>

PaneInit ==
    /\ open = {} /\ gone = {} /\ assigned = <<NoSession>> /\ launchers = {}
    /\ activePane = 1 /\ activeSession = NoSession
    /\ place = [s \in PaneSessions |-> Lost]
    /\ dialog = NoSession /\ sloppy = FALSE /\ paneActs = 0

PaneNext ==
    \/ \E s \in PaneSessions, named \in 0 .. MaxLayout, old \in PaneSessions \cup {NoSession} :
           SessionArrives(s, named, old)
    \/ \E s \in PaneSessions : SessionRemoved(s) \/ SwitchSession(s)
    \/ \E i \in DOMAIN assigned : \/ ClickPane(i) \/ ShowConnectionLauncher(i)
                                  \/ \E a \in BOOLEAN : LeaveLauncher(i, a)
    \/ RefreshEmptyPanes
    \/ \E n \in PaneLayouts : ChooseLayout(n)
    \/ \E n \in PaneLayouts : \E chosen \in [1 .. n -> PaneSessions \cup {NoSession}] : ApplyDialog(chosen)
    \/ CancelDialog

-----------------------------------------------------------------------------
\* Drawing, replacing, splitting and removing panes never takes the terminal of
\* an open session out of the document (renderPane empties the pane it draws,
\* and assignSessionToPane, setSplitLayout and showConnectionLauncher have to
\* save what hangs there first).
NoTerminalLost == \A s \in open : place[s] # Lost

\* The session that gets the keyboard, the shortcuts and the panels is open and
\* its terminal is in the active pane: setActivePane must "never expose a hidden
\* terminal as the target".  The assignment dialog can be applied with a session
\* twice, or with one that ended while it was open; that case is left out.
InputGoesToWhatIsShown ==
    activeSession # NoSession /\ ~sloppy =>
        activeSession \in open /\ place[activeSession] = activePane

\* What the panes promise: no terminal is lost, and input goes to a terminal the
\* user sees (session-manager.js).
PanesKeepSessions == PaneTypeOK /\ NoTerminalLost /\ InputGoesToWhatIsShown
=============================================================================
