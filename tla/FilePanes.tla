----------------------------- MODULE FilePanes -----------------------------
(***************************************************************************)
(* The panes of the file workspace (static/js/sftp-file-manager.js,        *)
(* file-workspace-state.js, session-files-panel.js): source tabs in two    *)
(* panes, the embedded pane of a session, the folder picker of a move, and *)
(* the paged directory listings all of them request.  Each of them is a    *)
(* lister: it has at most one listing request outstanding and at most one  *)
(* continuation cursor, which keeps a directory open on the server.        *)
(***************************************************************************)
EXTENDS Naturals, Sequences, FiniteSets, SequencesExt

CONSTANTS MaxTabs,      \* bound: source tabs opened
          Sources,      \* file sources
          Embedded, Picker, \* the embedded pane and the move picker
          None,         \* no source, request or cursor
          MaxRequests,  \* bound: listing requests
          MaxActs       \* bound: how often the user acts

VARIABLES mode,        \* displayMode
          panes,       \* [Panes -> [tabs : Seq(Tabs), active : Tabs or None]]
          activePane, layout, tabSequence,
          suspended,   \* the session of suspendedEmbeddedTarget
          recovery,    \* embeddedRecovery
          lister,      \* [Listers -> state of the listing]
          picker,      \* what the move picker was opened for, None when closed
          ops,         \* pendingOperationRequests, and the move under way
          requestSequence,
          msgs,        \* messages between the browser and the server
          cursors,     \* continuation cursors open on the server
          missed,      \* history: requests whose answer no lister was there to take
          acts,        \* how often the user has acted
          transport    \* the socket: "up", "down" or "back" up; it goes down once

paneVars == <<mode, panes, activePane, layout, tabSequence, suspended, recovery>>
netVars == <<requestSequence, msgs, cursors, missed, transport>>
vars == <<paneVars, lister, picker, ops, netVars, acts>>

Tabs == 1 .. MaxTabs
Panes == {"left", "right"}
Listers == Tabs \cup {Embedded, Picker}
Root == "/"
Home == "home"
Paths == {Root, Home}

\* createEmptyPaneState
EmptyState ==
    [source |-> None, path |-> Root, files |-> None, sel |-> FALSE,
     loading |-> "no", timer |-> FALSE, error |-> FALSE,
     req |-> None, cursor |-> None, next |-> None,
     home |-> None, autoHome |-> FALSE, needsRefresh |-> FALSE]

\* getPaneStateEntries: the listers a response may reach, and whether they show.
Entries == IF mode = "embedded" THEN {Embedded}
           ELSE UNION {Range(panes[p].tabs) : p \in Panes}
Visible(x) == \/ mode = "embedded" /\ x = Embedded
              \/ mode = "modal" /\ \E p \in Panes : panes[p].active = x

\* What the user can reach: the pane of the embedded view, and of the
\* standalone view both panes of a split or the active one.
Shown(p) == mode = "modal" /\ (layout = "split" \/ p = activePane)
Reached(x) == \/ x = Embedded /\ mode = "embedded"
              \/ \E p \in Panes : Shown(p) /\ panes[p].active = x

----------------------------------------------------------------------------
(* Listings.                                                               *)

Msg(kind, id, source, path, cursor) ==
    [kind |-> kind, id |-> id, source |-> source, path |-> path,
     cursor |-> cursor, next |-> None]

\* cancelDirectoryListingForState and cancelMovePickerDirectoryListing: the
\* first page is cancelled by its request, whose id is also its cursor's, a
\* continuation by its cursor.  The server closes what it has open of them.
Cancelled(l) ==
    (IF l.source = None THEN {} ELSE {l.next, l.cursor} \cup (IF l.cursor = None THEN {l.req} ELSE {}))
        \ {None}

Stopped(l, again) ==
    [l EXCEPT !.loading = "no", !.timer = FALSE, !.req = None, !.cursor = None,
              !.next = None, !.needsRefresh = again /\ l.source # None]

\* requestDirectoryForState
Requested(l, path, id, timed) ==
    [Stopped(l, FALSE) EXCEPT !.path = path, !.loading = "first", !.req = id,
                              !.sel = FALSE, !.timer = timed]

ListMsg(l) == Msg("list", l.req, l.source, l.path, l.cursor)

\* The state L of the listers changes, the listers in Stops cancel what they
\* were waiting for, and those in Starts request the first page of L[x].path,
\* with a loading timeout when they are in Timed.
Relist(L, Stops, Starts, Timed, more) ==
    LET order == SetToSeq(Starts)
        id(x) == requestSequence + CHOOSE k \in 1 .. Len(order) : order[k] = x
        new == [x \in Listers |-> IF x \in Starts
                                  THEN Requested(L[x], L[x].path, id(x), x \in Timed)
                                  ELSE L[x]]
    IN  /\ requestSequence + Len(order) =< MaxRequests
        /\ requestSequence' = requestSequence + Len(order)
        /\ lister' = new
        /\ cursors' = cursors \ UNION {Cancelled(lister[x]) : x \in Stops \cup Starts}
        /\ msgs' = more \cup {ListMsg(new[x]) : x \in Starts}
        /\ UNCHANGED <<missed, transport>>

\* resumeDirectoryListingIfNeeded for the tabs that come into view.
Resuming(L, S) == {x \in S \cap Tabs : L[x].needsRefresh}

\* requestNextDirectoryPage, and the picker's request with a cursor.
RequestNextPage(x) ==
    LET l == lister[x]
        new == [l EXCEPT !.loading = "more", !.timer = TRUE, !.cursor = l.next,
                         !.req = requestSequence + 1]
    IN  /\ IF x = Picker THEN picker # None /\ l.loading = "no"
                         ELSE Reached(x) /\ recovery = "none" /\ l.loading = "no"
        /\ l.next # None
        /\ requestSequence < MaxRequests
        /\ requestSequence' = requestSequence + 1
        /\ lister' = [lister EXCEPT ![x] = new]
        /\ msgs' = msgs \cup {ListMsg(new)}
        /\ UNCHANGED <<paneVars, picker, ops, cursors, missed, transport>>

\* navigatePaneTo, navigatePaneUp, navigatePaneHome and navigateIntoDir.
NavigatePaneTo(x, path) ==
    /\ Reached(x) /\ lister[x].source # None /\ recovery = "none"
    /\ Relist([lister EXCEPT ![x].path = path, ![x].autoHome = FALSE], {}, {x}, {x}, msgs)
    /\ UNCHANGED <<paneVars, picker, ops>>

\* refreshPane; also the reload of the recovery banner.
RefreshPane(x) ==
    /\ Reached(x) /\ lister[x].source # None /\ recovery # "reconnecting"
    /\ Relist([lister EXCEPT ![x].autoHome = FALSE], {}, {x}, {x}, msgs)
    /\ UNCHANGED <<paneVars, picker, ops>>

\* onSourceChange: the lister starts over with the home directory and the root
\* of the source.
SourceChanged(L, x, s) ==
    [L EXCEPT ![x] = [EmptyState EXCEPT !.source = s, !.autoHome = TRUE,
                                        !.home = requestSequence + 1]]
HomeMsg(s) == Msg("home", requestSequence + 1, s, Root, None)

----------------------------------------------------------------------------
(* Tabs, layout and display mode.                                          *)

\* openWorkspaceSource with FileWorkspaceState.openTab
OpenWorkspaceSource(p, s) ==
    LET t == tabSequence + 1
    IN  /\ Shown(p) /\ t \in Tabs
        /\ tabSequence' = t
        /\ panes' = [panes EXCEPT ![p] = [tabs |-> Append(@.tabs, t), active |-> t]]
        /\ activePane' = p
        /\ Relist(SourceChanged(lister, t, s), {t}, {t}, {t}, msgs \cup {HomeMsg(s)})
        /\ UNCHANGED <<mode, layout, suspended, recovery, picker, ops>>

\* FileWorkspaceState.activateTab and activateSourceTab
ActivateSourceTab(p, t) ==
    /\ Shown(p) /\ t \in Range(panes[p].tabs) /\ panes[p].active # t
    /\ panes' = [panes EXCEPT ![p].active = t]
    /\ activePane' = p
    /\ LET R == Resuming(lister, {t}) IN Relist(lister, {}, R, R, msgs)
    /\ UNCHANGED <<mode, layout, tabSequence, suspended, recovery, picker, ops>>

\* FileWorkspaceState.closeTab for the tabs S of a pane, one after the other:
\* the right neighbour of an active tab becomes active, else the left one.
Without(p, t) ==
    LET i == CHOOSE k \in 1 .. Len(p.tabs) : p.tabs[k] = t
        rest == RemoveAt(p.tabs, i)
        neighbour == IF rest = <<>> THEN None
                     ELSE IF i =< Len(rest) THEN rest[i] ELSE rest[i - 1]
    IN  [tabs |-> rest, active |-> IF p.active = t THEN neighbour ELSE p.active]
WithoutAll(p, S) == FoldSeq(LAMBDA t, q : IF t \in S THEN Without(q, t) ELSE q, p, p.tabs)

\* closeSourceTab
CloseSourceTab(p, t) ==
    LET left == Without(panes[p], t)
        L == [lister EXCEPT ![t] = EmptyState]
        R == Resuming(L, {left.active})
    IN  /\ Shown(p) /\ t \in Range(panes[p].tabs)
        /\ panes' = [panes EXCEPT ![p] = left]
        /\ Relist(L, {t}, R, R, msgs)
        /\ UNCHANGED <<mode, activePane, layout, tabSequence, suspended, recovery, picker, ops>>

\* setWorkspaceLayout with FileWorkspaceState.moveTab: the first split moves
\* the active tab to the empty pane.
SetWorkspaceLayout(to) ==
    LET p == activePane
        q == CHOOSE r \in Panes : r # p
        moves == /\ to = "split" /\ panes[q].active = None /\ Len(panes[p].tabs) > 1
        t == panes[p].active
    IN  /\ mode = "modal" /\ layout # to
        /\ layout' = to
        /\ panes' = IF moves THEN [panes EXCEPT ![p] = Without(panes[p], t),
                                               ![q] = [tabs |-> <<t>>, active |-> t]]
                    ELSE panes
        /\ activePane' = IF moves THEN q ELSE p
        /\ UNCHANGED <<mode, tabSequence, suspended, recovery, lister, picker, ops, netVars>>

ActiveTabs == {panes[p].active : p \in Panes} \ {None}
AllTabs == UNION {Range(panes[p].tabs) : p \in Panes}

\* The listers after closeMovePicker and after detachEmbedded (resetPane).
PickerClosed(L) == [L EXCEPT ![Picker] = EmptyState]
Detached(L) == [PickerClosed(L) EXCEPT ![Embedded] = EmptyState]

\* open: an embedded pane is suspended, the tabs in view are resumed.
Open ==
    LET L == IF mode = "embedded" THEN Detached(lister) ELSE lister
        R == Resuming(L, ActiveTabs)
    IN  /\ mode # "modal"
        /\ mode' = "modal" /\ recovery' = "none"
        /\ suspended' = IF mode = "embedded" THEN lister[Embedded].source ELSE suspended
        /\ picker' = IF mode = "embedded" THEN None ELSE picker
        /\ Relist(L, IF mode = "embedded" THEN {Embedded, Picker} ELSE {}, R, R, msgs)
        /\ UNCHANGED <<panes, activePane, layout, tabSequence, ops>>

\* The listers after close: every tab drops its listing and owes a refresh.
Closed(L) == [x \in Listers |-> IF x \in AllTabs THEN Stopped(L[x], TRUE) ELSE L[x]]

\* openEmbedded for session s with the listers L already closed.
Embed(L, Stops, s) ==
    /\ mode' = "embedded" /\ recovery' = "none"
    /\ Relist(SourceChanged(L, Embedded, s), Stops \cup {Embedded}, {Embedded}, {Embedded},
              msgs \cup {HomeMsg(s)})

\* close of the standalone view; a suspended embedded pane opens again.
Close ==
    /\ mode = "modal"
    /\ suspended' = None /\ picker' = None
    /\ IF suspended = None
       THEN /\ mode' = "closed" /\ UNCHANGED recovery
            /\ Relist(PickerClosed(Closed(lister)), AllTabs \cup {Picker}, {}, {}, msgs)
       ELSE Embed(PickerClosed(Closed(lister)), AllTabs \cup {Picker}, suspended)
    /\ UNCHANGED <<panes, activePane, layout, tabSequence, ops>>

\* openEmbedded from the Files panel of session s; followEmbedded of another
\* session is the same request.  The standalone view closes first.
OpenEmbedded(s) ==
    /\ ~(mode = "embedded" /\ lister[Embedded].source = s)
    /\ ~(mode = "modal" /\ suspended # None)
    /\ suspended' = IF mode = "modal" THEN None ELSE suspended
    /\ picker' = IF mode = "modal" THEN None ELSE picker
    /\ IF mode = "modal"
       THEN Embed(PickerClosed(Closed(lister)), AllTabs \cup {Picker}, s)
       ELSE Embed(lister, {}, s)
    /\ UNCHANGED <<panes, activePane, layout, tabSequence, ops>>

\* followEmbedded while the pane is suspended only retargets it.
FollowSuspended(s) ==
    /\ mode = "modal" /\ suspended \notin {None, s}
    /\ suspended' = s
    /\ UNCHANGED <<mode, panes, activePane, layout, tabSequence, recovery, lister, picker, ops, netVars>>

\* closeEmbedded with detachEmbedded
CloseEmbedded ==
    /\ mode = "embedded"
    /\ mode' = "closed" /\ suspended' = None /\ recovery' = "none" /\ picker' = None
    /\ Relist(Detached(lister), {Embedded, Picker}, {}, {}, msgs)
    /\ UNCHANGED <<panes, activePane, layout, tabSequence, ops>>

\* handleSessionDisconnected and handleEmbeddedDisconnect: the source is gone.
\* The tab that takes the place of a closed one is shown as it is.
SourceDisconnected(s) ==
    LET mine == {t \in AllTabs : lister[t].source = s}
        embedded == lister[Embedded].source = s
        picking == picker # None /\ lister[Picker].source = s
        gone == (IF mode = "embedded" THEN {} ELSE mine)
                \cup (IF embedded THEN {Embedded} ELSE {})
                \cup (IF picking THEN {Picker} ELSE {})
    IN  /\ \E x \in Listers : lister[x].source = s
        /\ picker' = IF picking THEN None ELSE picker
        /\ suspended' = IF suspended = s THEN None ELSE suspended
        /\ panes' = IF mode = "embedded" THEN panes
                    ELSE [p \in Panes |-> WithoutAll(panes[p], mine)]
        /\ Relist([x \in Listers |-> IF x \in gone THEN EmptyState ELSE lister[x]],
                  gone, {}, {}, msgs)
        /\ UNCHANGED <<mode, activePane, layout, tabSequence, recovery, ops>>

----------------------------------------------------------------------------
(* Responses.                                                              *)

Matches(x, m) ==
    /\ lister[x].source = m.source /\ lister[x].req = m.id
    /\ lister[x].path = m.path /\ lister[x].cursor = m.cursor

Taker(m) == {x \in Entries \cup (IF picker = None THEN {} ELSE {Picker}) : Matches(x, m)}

\* The requests of some messages that a tab is still waiting for.
Awaited(M) == {m.id : m \in M} \cap {lister[t].req : t \in Tabs}

\* The recovery banner goes when a listing is rendered (renderPane).
Recovered(L) ==
    recovery' = IF recovery = "refreshing" /\ L[Embedded].loading = "no"
                   /\ ~L[Embedded].error
                THEN "none" ELSE recovery

\* Mutant of OnListing: a page nobody waits for is dropped with its cursor.
OnListingDropped(m) ==
    LET L == [x \in Listers |->
                IF x \in Taker(m)
                THEN [lister[x] EXCEPT !.files = <<m.source, m.path>>, !.loading = "no",
                        !.timer = FALSE, !.error = FALSE, !.needsRefresh = FALSE,
                        !.next = m.next, !.req = None, !.cursor = None]
                ELSE lister[x]]
    IN  /\ m \in msgs /\ m.kind = "listing"
        /\ lister' = L
        /\ Recovered(L)
        /\ msgs' = msgs \ {m}
        /\ UNCHANGED <<mode, panes, activePane, layout, tabSequence, suspended, picker, ops,
                       requestSequence, transport, cursors, missed>>

\* directory_listing, with consumeMovePickerListing: the one lister that waits
\* for it takes it; a cursor nobody waits for is cancelled.
OnListing(m) ==
    LET L == [x \in Listers |->
                IF x \in Taker(m)
                THEN [lister[x] EXCEPT !.files = <<m.source, m.path>>, !.loading = "no",
                        !.timer = FALSE, !.error = FALSE, !.needsRefresh = FALSE,
                        !.next = m.next, !.req = None, !.cursor = None]
                ELSE lister[x]]
    IN  /\ m \in msgs /\ m.kind = "listing"
        /\ lister' = L
        /\ Recovered(L)
        /\ msgs' = msgs \ {m}
        /\ cursors' = IF Taker(m) = {} THEN cursors \ {m.next} ELSE cursors
        /\ missed' = IF Taker(m) = {} THEN missed \cup Awaited({m}) ELSE missed
        /\ UNCHANGED <<mode, panes, activePane, layout, tabSequence, suspended, picker, ops,
                       requestSequence, transport>>

\* consumePaneDirectoryError and consumeMovePickerError: the first page fails,
\* a failed continuation starts again from the first page.
Fail(x, rest) ==
    IF lister[x].loading = "more"
    THEN Relist([lister EXCEPT ![x].files = IF x = Picker THEN None ELSE @],
                {}, {x}, {x}, rest)
    ELSE Relist([lister EXCEPT ![x] = [Stopped(@, FALSE) EXCEPT !.error = TRUE,
                     !.needsRefresh = lister[x].needsRefresh,
                     !.files = IF x = Picker THEN None ELSE @]],
                {x}, {}, {}, rest)

\* list_directory fails: the error event, or an expired cursor.
OnError(m) ==
    /\ m \in msgs /\ m.kind = "list" /\ transport # "down"
    /\ IF Taker(m) = {}
       THEN /\ msgs' = msgs \ {m} /\ missed' = missed \cup Awaited({m})
            /\ UNCHANGED <<lister, requestSequence, cursors, transport>>
       ELSE \E x \in Taker(m) : Fail(x, msgs \ {m})
    /\ UNCHANGED <<paneVars, picker, ops>>

\* The loading timeout of setLoadingTimeout and of the picker.
LoadingTimeout(x) ==
    /\ lister[x].timer /\ x \in Entries \cup {Picker}
    /\ Fail(x, msgs)
    /\ UNCHANGED <<paneVars, picker, ops>>

\* home_directory: an untouched pane goes home; one out of view without a timeout.
OnHome(m) ==
    LET takers == IF mode = "closed" THEN {}
                  ELSE {x \in Entries : lister[x].source = m.source /\ lister[x].home = m.id}
        go == {x \in takers : lister[x].autoHome /\ lister[x].path = Root}
        L == [x \in Listers |->
                IF x \in go THEN [lister[x] EXCEPT !.home = None, !.autoHome = FALSE, !.path = Home]
                ELSE IF x \in takers THEN [lister[x] EXCEPT !.home = None] ELSE lister[x]]
    IN  /\ m \in msgs /\ m.kind = "home"
        /\ Relist(L, {}, go, {x \in go : Visible(x)}, msgs \ {m})
        /\ UNCHANGED <<paneVars, picker, ops>>

----------------------------------------------------------------------------
(* File operations and the move picker.                                    *)

\* setPaneSelection; the keyboard offers it while a listing is loading too.
SelectAll(x) ==
    /\ Reached(x) /\ recovery = "none" /\ lister[x].files # None
    /\ lister' = [lister EXCEPT ![x].sel = TRUE]
    /\ UNCHANGED <<paneVars, picker, ops, netVars>>

\* createNewFolder, deleteSelected and renameSelected with
\* registerOperationRequest; refused while a move executes.
FileOperation(x) ==
    /\ Reached(x) /\ lister[x].source # None /\ recovery = "none" /\ ops = {}
    /\ ops' = {[kind |-> "operation", source |-> lister[x].source, target |-> None,
                from |-> None, listed |-> None]}
    /\ lister' = [lister EXCEPT ![x].sel = FALSE]
    /\ UNCHANGED <<paneVars, picker, netVars>>

\* consumeOperationResponse with refreshSource: every lister of the source is
\* listed again, those out of view without a timeout; an error changes nothing.
OnOperationResponse(o, ok) ==
    LET S == {x \in Entries : lister[x].source = o.source}
    IN  /\ o \in ops
        /\ ops' = ops \ {o}
        /\ IF ok THEN Relist(lister, {}, S, {x \in S : Visible(x)}, msgs)
                 ELSE UNCHANGED <<lister, netVars>>
        /\ UNCHANGED <<paneVars, picker>>

PaneOf(x) == IF x = Embedded THEN "left" ELSE CHOOSE p \in Panes : panes[p].active = x

\* openMovePicker with canOpenMovePickerForState
OpenMovePicker(x) ==
    LET l == lister[x]
    IN  /\ Reached(x) /\ recovery = "none" /\ ops = {}
        /\ l.source # None /\ l.sel /\ l.loading # "first" /\ ~l.error
        /\ picker' = [pane |-> PaneOf(x), source |-> l.source, path |-> l.path]
        /\ Relist([lister EXCEPT ![Picker] = [EmptyState EXCEPT !.source = l.source,
                                                             !.path = l.path]],
                  {Picker}, {Picker}, {Picker}, msgs)
        /\ UNCHANGED <<paneVars, ops>>

\* requestMovePickerDirectory of another folder: no target until it is listed.
BrowseMovePicker(path) ==
    /\ picker # None
    /\ Relist([lister EXCEPT ![Picker].path = path, ![Picker].files = None,
                             ![Picker].error = FALSE], {}, {Picker}, {Picker}, msgs)
    /\ UNCHANGED <<paneVars, picker, ops>>

\* closeMovePicker
CloseMovePicker ==
    /\ picker # None
    /\ picker' = None
    /\ Relist(PickerClosed(lister), {Picker}, {}, {}, msgs)
    /\ UNCHANGED <<paneVars, ops>>

\* confirmMovePicker: the target must have been listed, and the pane the picker
\* was opened from must still show the selection; the move then begins.
ConfirmMovePicker ==
    LET l == lister[Picker]
        origin == {x \in Entries :
                     /\ Visible(x) /\ PaneOf(x) = picker.pane
                     /\ lister[x].source = picker.source /\ lister[x].path = picker.path
                     /\ lister[x].loading # "first" /\ ~lister[x].error /\ lister[x].sel}
    IN  /\ picker # None /\ l.loading = "no" /\ l.files # None /\ ops = {}
        /\ l.path # picker.path
        /\ picker' = None
        /\ Relist(PickerClosed(lister), {Picker}, {}, {}, msgs)
        /\ ops' = IF origin = {} THEN ops
                  ELSE {[kind |-> "move", source |-> picker.source, target |-> l.path,
                         from |-> picker.path,
                         listed |-> lister[CHOOSE x \in origin : TRUE].files]}
        /\ UNCHANGED paneVars

----------------------------------------------------------------------------
(* The server and the transport.                                           *)

\* list_directory: a page with or without a continuation; a continuation
\* consumes its cursor.
ServeList(m) ==
    /\ m \in msgs /\ m.kind = "list" /\ transport # "down"
    /\ m.cursor \in cursors \cup {None}
    /\ \E next \in {None, m.id} :
        /\ cursors' = (cursors \ {m.cursor}) \cup ({next} \ {None})
        /\ msgs' = (msgs \ {m}) \cup {[m EXCEPT !.kind = "listing", !.next = next]}
    /\ UNCHANGED <<paneVars, lister, picker, ops, requestSequence, missed, transport>>

\* The socket disconnects: answers are lost and the server closes what the
\* client had open.  setEmbeddedTransportReady(false) stops the embedded pane.
TransportLost ==
    /\ transport = "up"
    /\ transport' = "down"
    /\ cursors' = {}
    /\ msgs' = {} /\ missed' = missed \cup Awaited(msgs)
    /\ IF mode = "embedded"
       THEN /\ recovery' = "reconnecting" /\ picker' = None
            /\ lister' = [PickerClosed(lister) EXCEPT
                            ![Embedded].timer = FALSE, ![Embedded].req = None,
                            ![Embedded].home = None, ![Embedded].loading = "no"]
       ELSE UNCHANGED <<recovery, picker, lister>>
    /\ UNCHANGED <<mode, panes, activePane, layout, tabSequence, suspended, ops, requestSequence>>

\* The socket is back: setEmbeddedTransportReady(true) refreshes.
TransportBack ==
    /\ transport = "down"
    /\ transport' = "back"
    /\ IF recovery = "reconnecting" /\ lister[Embedded].source # None
       THEN /\ recovery' = "refreshing"
            /\ LET l == Requested(lister[Embedded], lister[Embedded].path,
                                  requestSequence + 1, TRUE)
               IN  /\ requestSequence < MaxRequests
                   /\ requestSequence' = requestSequence + 1
                   /\ lister' = [lister EXCEPT ![Embedded] = [l EXCEPT !.autoHome = FALSE]]
                   /\ msgs' = msgs \cup {ListMsg(l)}
                   /\ cursors' = cursors \ Cancelled(lister[Embedded])
       ELSE UNCHANGED <<recovery, requestSequence, lister, msgs, cursors>>
    /\ UNCHANGED <<mode, panes, activePane, layout, tabSequence, suspended, picker, ops, missed>>

----------------------------------------------------------------------------
\* The workspace has been in use: it shows two tabs, listed and the last one in
\* view, or one tab with a selection, perhaps over a suspended embedded pane, or
\* opened just now: its root is listed and it waits for its home.
Init ==
    /\ mode = "modal" /\ tabSequence \in {1, 2} \cap Tabs
    /\ panes = [p \in Panes |-> IF p = "left" THEN [tabs |-> [k \in 1 .. tabSequence |-> k],
                                                   active |-> tabSequence]
                                ELSE [tabs |-> <<>>, active |-> None]]
    /\ \E s \in [1 .. tabSequence -> Sources], fresh \in IF tabSequence = 1 THEN BOOLEAN ELSE {FALSE} :
          LET path == IF fresh THEN Root ELSE Home
          IN  /\ lister = [x \in Listers |->
                      IF x \in 1 .. tabSequence
                      THEN [EmptyState EXCEPT !.source = s[x], !.path = path,
                                              !.files = <<s[x], path>>, !.sel = tabSequence = 1,
                                              !.autoHome = fresh, !.home = IF fresh THEN 0 ELSE None]
                      ELSE EmptyState]
              /\ msgs = IF fresh THEN {Msg("home", 0, s[1], Root, None)} ELSE {}
    /\ activePane = "left" /\ layout = "single"
    /\ suspended \in {None} \cup (IF tabSequence = 1 /\ msgs = {} THEN Sources ELSE {}) /\ recovery = "none"
    /\ picker = None /\ ops = {}
    /\ requestSequence = 0 /\ cursors = {} /\ missed = {}
    /\ transport = "up" /\ acts = 0

\* handleKeyboardShortcut: Escape closes the innermost dialog or the view, the
\* other keys act on the pane in view.
KeyboardShortcut ==
    \/ CloseMovePicker \/ Close \/ CloseEmbedded
    \/ \E x \in Listers : SelectAll(x) \/ FileOperation(x) \/ RefreshPane(x)

\* handleItemDblClick, handlePaneKeydown: a folder of the listing, or its parent.
OpenItem == \E x \in Listers, p \in Paths : NavigatePaneTo(x, p)

\* handleContextAction, and the page that scrolling asks for.
ItemAction == \E x \in Listers : RequestNextPage(x) \/ OpenMovePicker(x)

\* setupEventListeners: the controls of tabs, layout and picker.
Control ==
    \/ Open
    \/ \E p \in Panes, t \in Tabs : ActivateSourceTab(p, t) \/ CloseSourceTab(p, t)
    \/ \E p \in Panes, s \in Sources : OpenWorkspaceSource(p, s)
    \/ \E to \in {"single", "split"} : SetWorkspaceLayout(to)
    \/ \E p \in Paths : BrowseMovePicker(p)
    \/ ConfirmMovePicker

\* The Files panel of the session's workspace (session-files-panel.js).
FilesPanel ==
    \E s \in Sources : OpenEmbedded(s) \/ FollowSuspended(s) \/ SourceDisconnected(s)

User ==
    /\ acts < MaxActs /\ acts' = acts + 1
    /\ KeyboardShortcut \/ OpenItem \/ ItemAction \/ Control \/ FilesPanel \/ TransportLost

System ==
    /\ UNCHANGED acts
    /\ \/ \E m \in msgs : \/ OnListing(m) \/ OnError(m) \/ OnHome(m) \/ ServeList(m)
       \/ \E x \in Listers : LoadingTimeout(x)
       \/ \E o \in ops, ok \in BOOLEAN : OnOperationResponse(o, ok)
       \/ TransportBack

Next == User \/ System
Spec == Init /\ [][Next]_vars

----------------------------------------------------------------------------
\* No directory stays open on the server for nobody: every continuation cursor
\* is a lister's, or of a page still on its way, whatever was closed, replaced,
\* moved or disconnected between the request and the page (cancelDirectoryCursor).
CursorsOwned ==
    \A c \in cursors :
        \/ \E x \in Listers : c \in {lister[x].next, lister[x].cursor}
        \/ \E m \in msgs : c = m.next

\* A pane that is neither loading, failed nor due for a refresh shows the entries
\* of its own source and path: no late page of another folder or source is put
\* under the path the next operation uses.
ShowsItsPath ==
    \A x \in Tabs \cup {Embedded} :
        LET l == lister[x]
        IN  (l.source # None /\ l.loading = "no" /\ ~l.error /\ ~l.needsRefresh
               /\ ~(x = Embedded /\ recovery # "none"))
            => l.files = <<l.source, l.path>>

\* A move confirmed in the picker moves entries of the folder the picker was
\* opened for, into another folder, although panes, listings and tabs may have
\* changed since (confirmMovePicker).
MovesWhatIsShown ==
    \A o \in ops : o.kind = "move" => /\ o.listed = <<o.source, o.from>>
                                      /\ o.target # o.from

\* A loading indicator has an end: a timeout is set or the answer is still under
\* way.  The exempted case: a tab out of view, listed without a timeout, whose
\* answer came while it could not be reached.
SpinnersEnd ==
    \A x \in Listers : lister[x].loading # "no" =>
        \/ lister[x].timer
        \/ \E m \in msgs : m.id = lister[x].req /\ m.kind # "home"
        \/ x \in Tabs /\ lister[x].req \in missed

\* What listings promise: no directory stays open for nobody, a pane shows the
\* folder it names, a move moves what was shown, and a spinner has an end (the
\* parts above).
ListingsTrue == CursorsOwned /\ ShowsItsPath /\ MovesWhatIsShown /\ SpinnersEnd
=============================================================================
