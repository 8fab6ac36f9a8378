---------------------------- MODULE SessionTools ----------------------------
(***************************************************************************)
(* The tools beside a terminal: the file panel, the live figures and the   *)
(* inventory of the remote host (static/js/session-workspace.js,           *)
(* session-workspace-ui.js, session-files-panel.js, session-insights.js,   *)
(* session-runtime-inventory.js, session-diagnostics.js).  Each asks the   *)
(* server about the selected session, with timeouts and retries of its     *)
(* own, while the selection, the page and the socket change.  The state of *)
(* all of them is one record, as one event passes through all of them.     *)
(***************************************************************************)
EXTENDS Naturals, FiniteSets

CONSTANTS Targets,      \* sessions
          NoTarget,
          MaxToolActs   \* bound: steps of the user and of the socket

VARIABLES tool,         \* the controllers, see ToolInit
          toolActs

toolVars == <<tool, toolActs>>
ToolActs == toolActs < MaxToolActs /\ toolActs' = toolActs + 1

Reachable(w) == w.up /\ w.sel \in w.live
DiagnosticsOpen(w) == w.ctx = "diagnostics" /\ w.sel \in w.live
Watching(w) == w.seen /\ DiagnosticsOpen(w)
ToolPending(w, t) == \E r \in w.asked : r.tool = t
PendingProbe(w, s) == [tool |-> "sftp", target |-> s] \in w.asked

\* Requests whose answer no controller waits for any more; one of them still
\* arrives (bound: one late answer at a time).
Abandoned(w, rs) == IF w.asked \cap rs = {} THEN w
                    ELSE [w EXCEPT !.asked = @ \ rs, !.late = CHOOSE r \in w.asked \cap rs : TRUE]
RequestsOf(t) == {[tool |-> t, target |-> s] : s \in Targets}
AskTool(w, t, s) == [w EXCEPT !.asked = @ \cup {[tool |-> t, target |-> s]}]

-----------------------------------------------------------------------------
(* Live figures and inventory.                                              *)

RequestSample(w) ==
    IF Watching(w) /\ Reachable(w) /\ ~ToolPending(w, "insights") /\ w.sel \notin w.unsupported
    THEN AskTool(w, "insights", w.sel) ELSE w

ClearPolling(w) == [Abandoned(w, RequestsOf("insights")) EXCEPT !.every = FALSE, !.later = FALSE]

StartPolling(w) ==
    IF Watching(w) /\ Reachable(w) /\ w.sel \notin w.unsupported
    THEN [RequestSample(w) EXCEPT !.every = TRUE] ELSE w

RequestInventory(w) ==
    IF DiagnosticsOpen(w) /\ Reachable(w) /\ ~ToolPending(w, "inventory") THEN AskTool(w, "inventory", w.sel) ELSE w

InsightsSynced(w, old) ==
    IF w.sel # old.sel \/ Reachable(w) # Reachable(old) THEN StartPolling([ClearPolling(w) EXCEPT !.fails = 0])
    ELSE IF Watching(w) # Watching(old) THEN StartPolling(ClearPolling(w))
    ELSE w

InventorySynced(w, old) ==
    IF w.sel # old.sel \/ Reachable(w) # Reachable(old) \/ DiagnosticsOpen(w) # DiagnosticsOpen(old)
    THEN RequestInventory(Abandoned(w, RequestsOf("inventory"))) ELSE w

-----------------------------------------------------------------------------
(* The file panel.                                                          *)

\* createSftpCapabilityTracker.get
Capability(w, s) ==
    IF s = NoTarget THEN "unknown"
    ELSE IF w.cap[s] # "unknown" THEN w.cap[s]
    ELSE IF PendingProbe(w, s) \/ w.retry[s] = "timer" THEN "probing"
    ELSE IF w.retry[s] = "short" THEN "resource_shortage"
    ELSE "unknown"

CanOpenSftp(w) == Reachable(w) /\ Capability(w, w.sel) \in {"available", "inconclusive"}

\* A panel that can be opened is, unless the user closed it.  The screen is wide:
\* on a narrow one a panel that is closed opens only when the user asks for it.
ShouldOpenSftp(w) ==
    /\ CanOpenSftp(w)
    /\ \/ w.prefers[w.sel] = "open"
       \/ w.prefers[w.sel] = "none" /\ (w.panel # NoTarget \/ Capability(w, w.sel) = "available")

\* update of the coordinator; in the files context the panel is opened at once.
PanelUpdated(w) ==
    LET panel == IF ~w.up /\ w.sel \in w.live THEN (IF w.panel = w.sel THEN w.panel ELSE NoTarget)
                 ELSE IF Reachable(w) /\ ShouldOpenSftp(w) THEN w.sel
                 ELSE NoTarget
        opens == w.ctx = "files" /\ panel = NoTarget /\ CanOpenSftp(w)
    IN IF opens THEN [w EXCEPT !.panel = w.sel, !.prefers[w.sel] = "open"] ELSE [w EXCEPT !.panel = panel]

CancelProbe(w, s) ==
    Abandoned([w EXCEPT !.retry[s] = "none", !.tries[s] = 0], {[tool |-> "sftp", target |-> s]})

StartProbe(w, s) == IF PendingProbe(w, s) \/ w.cap[s] # "unknown" THEN w ELSE AskTool(w, "sftp", s)

ProbeIfNeeded(w) ==
    LET eligible == IF Reachable(w) /\ Capability(w, w.sel) \in {"unknown", "probing", "resource_shortage"}
                    THEN w.sel ELSE NoTarget
        moved == IF w.prober = eligible THEN w
                 ELSE [(IF w.prober = NoTarget THEN w ELSE CancelProbe(w, w.prober)) EXCEPT !.prober = eligible]
    IN IF eligible = NoTarget \/ moved.retry[eligible] # "none" THEN moved ELSE StartProbe(moved, eligible)

\* sync of session-workspace-ui.js
SyncTools(w) == InventorySynced(InsightsSynced(ProbeIfNeeded(PanelUpdated(w)), tool), tool)

-----------------------------------------------------------------------------
(* The user and the socket.                                                 *)

SelectTarget(s) ==
    /\ ToolActs /\ s # tool.sel
    /\ tool' = SyncTools([tool EXCEPT !.sel = s])

SelectContext(c) ==
    /\ ToolActs /\ c # tool.ctx
    /\ tool' = SyncTools([tool EXCEPT !.ctx = c])

\* visibilitychange
PageSeen(on) ==
    /\ ToolActs /\ on # tool.seen
    /\ tool' = InsightsSynced([tool EXCEPT !.seen = on], tool)

\* toggleSftp
ToggleSftp ==
    /\ ToolActs /\ tool.sel # NoTarget
    /\ \/ /\ tool.panel # NoTarget
          /\ tool' = [tool EXCEPT !.panel = NoTarget, !.prefers[tool.sel] = "closed",
                                  !.ctx = IF @ = "files" THEN "none" ELSE @]
       \/ /\ tool.panel = NoTarget /\ CanOpenSftp(tool)
          /\ tool' = [tool EXCEPT !.panel = tool.sel, !.prefers[tool.sel] = "open"]

\* The button of the diagnostics: inventory and figures are asked for again.
RefreshTools ==
    /\ ToolActs /\ DiagnosticsOpen(tool) /\ Reachable(tool)
    /\ tool' = StartPolling([ClearPolling(RequestInventory(tool)) EXCEPT
                                !.fails = 0, !.unsupported = @ \ {tool.sel}, !.coarse = @ \ {tool.sel}])

\* Requests on their way are lost with the socket.
SocketDown ==
    /\ ToolActs /\ tool.up
    /\ tool' = [SyncTools([tool EXCEPT !.up = FALSE]) EXCEPT !.asked = {}, !.late = NoTarget]

SocketUp ==
    /\ ~tool.up /\ UNCHANGED toolActs
    /\ tool' = SyncTools([tool EXCEPT !.up = TRUE])

\* session-removed, then another session is selected, or none.
RemoveTarget(s, next) ==
    /\ ToolActs /\ s \in tool.live /\ next \in (tool.live \ {s}) \cup {NoTarget}
    /\ LET gone == [CancelProbe(tool, s) EXCEPT
                      !.live = @ \ {s}, !.cap[s] = "unknown", !.prefers[s] = "none",
                      !.prober = IF @ = s THEN NoTarget ELSE @,
                      !.unsupported = @ \ {s}, !.coarse = @ \ {s}]
       IN tool' = SyncTools([gone EXCEPT !.sel = IF @ = s THEN next ELSE @])

-----------------------------------------------------------------------------
(* Answers and timers.                                                      *)

\* A mutant: an answer belongs to whatever request of its kind is pending.
AnyAnswer(r) == ToolPending(tool, r.tool)

\* The request id and the session of an answer are those of the request.
OwnAnswer(r) == r \in tool.asked /\ (r.tool = "sftp" \/ r.target = tool.sel)

\* scheduleRetry of the probe: a third failure ends it as inconclusive.
ScheduleRetry(w, s, short) ==
    IF ~short /\ w.tries[s] >= 2 /\ w.prober = s
    THEN SyncTools([w EXCEPT !.retry[s] = "none", !.tries[s] = 0, !.cap[s] = "inconclusive"])
    ELSE IF w.retry[s] # "none" \/ w.prober # s THEN w
    ELSE IF short THEN SyncTools([w EXCEPT !.tries[s] = 0, !.retry[s] = "short"])
    ELSE [w EXCEPT !.tries[s] = @ + 1, !.retry[s] = "timer"]

ProbeAnswer(w, s, how) ==
    IF how \in {"busy", "failed"} THEN ScheduleRetry(w, s, FALSE)
    ELSE IF how = "short" THEN ScheduleRetry(w, s, TRUE)
    ELSE SyncTools([w EXCEPT !.retry[s] = "none", !.tries[s] = 0,
                        !.cap[s] = IF how = "good" THEN "available" ELSE "unavailable"])

\* renderFailure of the figures
SampleFailed(w, how, detailed) ==
    LET fails == IF w.fails < 3 THEN w.fails + 1 ELSE 3 IN
    CASE how = "short" -> [w EXCEPT !.fails = 3, !.every = FALSE, !.later = w.sel \notin w.unsupported]
      [] how = "unsupported" /\ detailed -> RequestSample([w EXCEPT !.coarse = @ \cup {w.sel}, !.fails = 0])
      [] how = "unsupported" /\ ~detailed -> [w EXCEPT !.unsupported = @ \cup {w.sel}, !.every = FALSE, !.later = FALSE]
      [] how = "busy" -> w
      [] OTHER -> [w EXCEPT !.fails = fails, !.every = @ /\ fails < 3, !.later = @ \/ fails >= 3]

\* An answer is cached for the selected session.
Cached(w, r) == [w EXCEPT !.foreign = @ \/ r.target # w.sel]

ToolAnswer(r, how) ==
    /\ UNCHANGED toolActs
    /\ LET w == IF r \in tool.asked THEN [tool EXCEPT !.asked = @ \ {r}] ELSE [tool EXCEPT !.late = NoTarget] IN
       tool' = IF ~OwnAnswer(r) THEN w
               ELSE CASE r.tool = "sftp" -> ProbeAnswer(w, r.target, how)
                      [] r.tool = "inventory" -> IF how = "good" THEN Cached(w, r) ELSE w
                      [] OTHER -> IF how = "good" THEN [Cached(w, r) EXCEPT !.fails = 0]
                                  ELSE SampleFailed(w, how, tool.sel \notin tool.coarse)

\* The answer of a pending request takes longer than 5 or 3.5 seconds.
TimesOut(r) ==
    /\ UNCHANGED toolActs
    /\ LET w == Abandoned(tool, {r}) IN
       tool' = CASE r.tool = "sftp" -> ScheduleRetry(w, r.target, FALSE)
                 [] r.tool = "inventory" -> w
                 [] OTHER -> SampleFailed(w, "failed", FALSE)

RetryProbe(s) ==
    /\ tool.retry[s] # "none" /\ UNCHANGED toolActs
    /\ LET w == [tool EXCEPT !.retry[s] = "none"]
           asked == IF w.prober = s THEN StartProbe(w, s) ELSE w IN
       tool' = IF tool.retry[s] = "short" /\ w.prober = s THEN SyncTools(asked) ELSE asked

SampleTick == tool.every /\ tool' = RequestSample(tool) /\ UNCHANGED toolActs

RetryPolling ==
    /\ tool.later /\ UNCHANGED toolActs
    /\ tool' = IF Watching(tool) /\ Reachable(tool) /\ tool.sel \notin tool.unsupported
               THEN [RequestSample(tool) EXCEPT !.later = FALSE, !.every = TRUE]
               ELSE [tool EXCEPT !.later = FALSE]

ToolInit ==
    /\ tool = [sel |-> NoTarget, up |-> TRUE, live |-> Targets, ctx |-> "none", seen |-> TRUE,
               cap |-> [s \in Targets |-> "unknown"], retry |-> [s \in Targets |-> "none"],
               tries |-> [s \in Targets |-> 0], prober |-> NoTarget,
               panel |-> NoTarget, prefers |-> [s \in Targets |-> "none"],
               asked |-> {}, late |-> NoTarget, every |-> FALSE, later |-> FALSE, fails |-> 0,
               unsupported |-> {}, coarse |-> {}, foreign |-> FALSE]
    /\ toolActs = 0

ToolNext ==
    \/ \E s \in Targets : SelectTarget(s) \/ RetryProbe(s) \/ \E n \in Targets \cup {NoTarget} : RemoveTarget(s, n)
    \/ \E c \in {"files", "diagnostics", "none"} : SelectContext(c)
    \/ \E on \in BOOLEAN : PageSeen(on)
    \/ ToggleSftp \/ RefreshTools \/ SocketDown \/ SocketUp \/ SampleTick \/ RetryPolling
    \/ \E r \in tool.asked : TimesOut(r)
    \/ \E r \in tool.asked \cup ({tool.late} \ {NoTarget}), how \in {"good", "short", "unsupported", "busy", "failed"} :
         ToolAnswer(r, how)

-----------------------------------------------------------------------------
\* Figures, inventory and files on the screen are those of the session they are
\* shown for, however late an answer arrives (handleResponse, coordinator update).
ToolsShowTheirSession ==
    /\ ~tool.foreign
    /\ tool.panel \in {NoTarget, tool.sel}

\* No tool waits for ever: while the selected session is connected and its SFTP not
\* settled, a probe or its retry is under way; while its figures are watched, a
\* request, the polling or its retry is (scheduleRetry, startPolling).
ToolsKeepTrying ==
    Reachable(tool) =>
      /\ tool.cap[tool.sel] = "unknown" => PendingProbe(tool, tool.sel) \/ tool.retry[tool.sel] # "none"
      /\ Watching(tool) /\ tool.sel \notin tool.unsupported => ToolPending(tool, "insights") \/ tool.every \/ tool.later

\* What the tools promise: they show the selected session and do not give up
\* silently (session-workspace.js, session-insights.js).
ToolsHold == ToolsShowTheirSession /\ ToolsKeepTrying
=============================================================================
