----------------------------- MODULE PageProofs ------------------------------
(***************************************************************************)
(* Safety of what the page keeps up to date with answers that come late:   *)
(* the tools beside a terminal, for any sessions (SessionTools); the       *)
(* editor of remote files, for any files, texts and requests (FileEditor); *)
(* the file panel that follows the folder of a terminal, for any shells    *)
(* and folders (DirectorySync); and the output on the screen, for any      *)
(* lengths of the transcripts and of the queues (TerminalOutput).          *)
(***************************************************************************)
EXTENDS SessionTools, FileEditor, DirectorySync, TerminalOutput, Integers, TLAPS

----------------------------------------------------------------------------
(* The tools beside a terminal.                                            *)

ToolSpec == ToolInit /\ [][ToolNext]_toolVars

AnyTarget == Targets \cup {NoTarget}
Tools == {"sftp", "insights", "inventory"}
ToolRequest == [tool : Tools, target : Targets]
Capabilities == {"unknown", "available", "unavailable", "inconclusive"}
Contents == {"files", "diagnostics", "none"}

ToolRecord ==
    [sel : AnyTarget, up : BOOLEAN, live : SUBSET Targets, ctx : Contents, seen : BOOLEAN,
     cap : [Targets -> Capabilities], retry : [Targets -> {"none", "timer", "short"}],
     tries : [Targets -> Nat], prober : AnyTarget, panel : AnyTarget,
     prefers : [Targets -> {"none", "open", "closed"}],
     asked : SUBSET ToolRequest, late : ToolRequest \cup {NoTarget},
     every : BOOLEAN, later : BOOLEAN, fails : Nat,
     unsupported : SUBSET Targets, coarse : SUBSET Targets, foreign : BOOLEAN]

\* The panel is the one of the selected session, and no answer of another was cached.
PanelInv(w) == w.panel \in {NoTarget, w.sel}
CacheInv(w) == w.foreign = FALSE

\* The probe is at work on the selected session as long as its SFTP is not settled.
Unsettled(w) == Reachable(w) /\ w.cap[w.sel] = "unknown"
ProbeInv(w) ==
    /\ w.prober = IF Unsettled(w) THEN w.sel ELSE NoTarget
    /\ Unsettled(w) => PendingProbe(w, w.sel) \/ w.retry[w.sel] # "none"

\* Watched figures have a timer: a request alone would not do, as its answer may
\* be the last word.
Wanted(w) == Watching(w) /\ Reachable(w) /\ w.sel \notin w.unsupported
PollInv(w) == Wanted(w) => w.every \/ w.later

InOrder(w) == w \in ToolRecord /\ PanelInv(w) /\ CacheInv(w) /\ ProbeInv(w) /\ PollInv(w)
ToolInv == InOrder(tool)

\* What a step leaves alone: what the user sees, the probe, the figures, the panel.
SameView(w, v) == v.sel = w.sel /\ v.up = w.up /\ v.live = w.live /\ v.ctx = w.ctx /\ v.seen = w.seen
SameProbe(w, v) ==
    /\ v.cap = w.cap /\ v.retry = w.retry /\ v.prober = w.prober
    /\ \A s \in Targets : PendingProbe(w, s) <=> PendingProbe(v, s)
SameFigures(w, v) == v.every = w.every /\ v.later = w.later /\ v.unsupported = w.unsupported
SamePanel(w, v) == v.panel = w.panel /\ v.foreign = w.foreign

\* Whether a session is reachable and watched depends on what the user sees.
LEMMA ViewDecides ==
    ASSUME NEW w, NEW v, SameView(w, v)
    PROVE  /\ Reachable(v) <=> Reachable(w)
           /\ Watching(v) <=> Watching(w)
           /\ DiagnosticsOpen(v) <=> DiagnosticsOpen(w)
  BY DEF SameView, Reachable, Watching, DiagnosticsOpen

\* A request of a tool is a request, and so are all requests of that tool.
LEMMA RequestSets ==
    ASSUME NEW t \in Tools, NEW s \in Targets
    PROVE  [tool |-> t, target |-> s] \in ToolRequest /\ RequestsOf(t) \subseteq ToolRequest
  BY DEF Tools, ToolRequest, RequestsOf

\* Abandoned takes the requests away and remembers one of them as late.
LEMMA AbandonedKeeps ==
    ASSUME NEW w \in ToolRecord, NEW rs
    PROVE  /\ Abandoned(w, rs) \in ToolRecord
           /\ SameView(w, Abandoned(w, rs)) /\ SameFigures(w, Abandoned(w, rs)) /\ SamePanel(w, Abandoned(w, rs))
           /\ Abandoned(w, rs).asked = w.asked \ rs
           /\ Abandoned(w, rs).cap = w.cap /\ Abandoned(w, rs).retry = w.retry /\ Abandoned(w, rs).prober = w.prober
           /\ Abandoned(w, rs).tries = w.tries /\ Abandoned(w, rs).prefers = w.prefers
<1> DEFINE one == CHOOSE r \in w.asked \cap rs : TRUE
<1>1. CASE w.asked \cap rs = {}
  BY <1>1 DEF Abandoned, SameView, SameFigures, SamePanel
<1>2. CASE w.asked \cap rs # {}
  <2>1. one \in w.asked
      BY <1>2
  <2>2. one \in ToolRequest /\ w.asked \ rs \in SUBSET ToolRequest
      BY <2>1 DEF ToolRecord
  <2>3. Abandoned(w, rs) = [w EXCEPT !.asked = w.asked \ rs, !.late = one]
      BY <1>2 DEF Abandoned
  <2> HIDE DEF one
  <2> QED  BY <2>2, <2>3 DEF SameView, SameFigures, SamePanel, ToolRecord
<1> QED  BY <1>1, <1>2

\* A request of another kind is none of the probe's.
LEMMA OthersAreNoProbe ==
    ASSUME NEW w, NEW v, NEW t, t # "sftp",
           \/ v.asked = w.asked \ RequestsOf(t)
           \/ \E s \in Targets : v.asked = w.asked \cup {[tool |-> t, target |-> s]}
    PROVE  \A s \in Targets : PendingProbe(w, s) <=> PendingProbe(v, s)
<1> SUFFICES ASSUME NEW s \in Targets
             PROVE  PendingProbe(w, s) <=> PendingProbe(v, s)
    OBVIOUS
<1>1. \A u : [tool |-> "sftp", target |-> s] # [tool |-> t, target |-> u]
    BY SMT
<1>2. [tool |-> "sftp", target |-> s] \notin RequestsOf(t)
    BY <1>1 DEF RequestsOf
<1> QED  BY <1>1, <1>2 DEF PendingProbe

\* A request that is sent is remembered; nothing else changes.
LEMMA AskKeeps ==
    ASSUME NEW w \in ToolRecord, NEW t \in Tools \ {"sftp"}, NEW s \in Targets
    PROVE  /\ AskTool(w, t, s) \in ToolRecord /\ SameView(w, AskTool(w, t, s)) /\ SameFigures(w, AskTool(w, t, s))
           /\ SamePanel(w, AskTool(w, t, s)) /\ SameProbe(w, AskTool(w, t, s))
<1> DEFINE v == AskTool(w, t, s)
<1>1. v.asked = w.asked \cup {[tool |-> t, target |-> s]} /\ v.asked \in SUBSET ToolRequest
    BY RequestSets DEF AskTool, ToolRecord
<1>2. v.cap = w.cap /\ v.retry = w.retry /\ v.prober = w.prober
    BY DEF AskTool, ToolRecord
<1>3. SameProbe(w, v)
  <2> HIDE DEF v
  <2> QED  BY <1>1, <1>2, OthersAreNoProbe DEF SameProbe
<1>4. v \in ToolRecord
  <2>1. v = [w EXCEPT !.asked = v.asked]
      BY DEF AskTool, ToolRecord
  <2> HIDE DEF v
  <2> QED  BY <1>1, <2>1 DEF ToolRecord
<1>5. SameView(w, v) /\ SameFigures(w, v) /\ SamePanel(w, v)
    BY DEF AskTool, ToolRecord, SameView, SameFigures, SamePanel
<1> QED  BY <1>3, <1>4, <1>5

\* Nothing but the requests and the late answer differs.
OnlyAsks(w, v) == SameView(w, v) /\ SameProbe(w, v) /\ SameFigures(w, v) /\ SamePanel(w, v)

\* Sending nothing counts as sending at most requests.
LEMMA AsksNothing == ASSUME NEW w PROVE OnlyAsks(w, w)
  BY DEF OnlyAsks, SameView, SameProbe, SameFigures, SamePanel

\* A sample that is requested only adds a request.
LEMMA SampleKeeps ==
    ASSUME NEW w \in ToolRecord
    PROVE  RequestSample(w) \in ToolRecord /\ OnlyAsks(w, RequestSample(w))
  BY AskKeeps, AsksNothing DEF Reachable, ToolRecord, Tools, RequestSample, OnlyAsks

\* An inventory that is requested only adds a request.
LEMMA InventoryKeeps ==
    ASSUME NEW w \in ToolRecord
    PROVE  RequestInventory(w) \in ToolRecord /\ OnlyAsks(w, RequestInventory(w))
  BY AskKeeps, AsksNothing DEF Reachable, ToolRecord, Tools, RequestInventory, OnlyAsks

\* Giving up the requests of figures or inventory is no concern of the probe.
LEMMA GivingUpKeeps ==
    ASSUME NEW w \in ToolRecord, NEW t \in Tools \ {"sftp"}
    PROVE  Abandoned(w, RequestsOf(t)) \in ToolRecord /\ OnlyAsks(w, Abandoned(w, RequestsOf(t)))
<1> DEFINE v == Abandoned(w, RequestsOf(t))
<1>1. /\ v \in ToolRecord /\ SameView(w, v) /\ SameFigures(w, v) /\ SamePanel(w, v)
      /\ v.asked = w.asked \ RequestsOf(t) /\ v.cap = w.cap /\ v.retry = w.retry /\ v.prober = w.prober
    BY AbandonedKeeps
<1> HIDE DEF v
<1>2. SameProbe(w, v)
    BY <1>1, OthersAreNoProbe DEF SameProbe
<1> QED  BY <1>1, <1>2 DEF OnlyAsks, v

\* What stays when the figures start or stop.
ButFigures(w, v) == SameView(w, v) /\ SameProbe(w, v) /\ SamePanel(w, v) /\ v.unsupported = w.unsupported

\* The timers of the figures; an operator of its own as it is a value the provers know by name.
Timers(w, every, later) == [w EXCEPT !.every = every, !.later = later]

\* Setting the timers of the figures leaves the rest of the tools alone.
LEMMA TimersKeep ==
    ASSUME NEW w \in ToolRecord, NEW e \in BOOLEAN, NEW l \in BOOLEAN
    PROVE  /\ Timers(w, e, l) \in ToolRecord /\ ButFigures(w, Timers(w, e, l))
           /\ Timers(w, e, l).every = e /\ Timers(w, e, l).later = l
  BY DEF ToolRecord, Timers, ButFigures, SameView, SameProbe, SamePanel, PendingProbe

\* Ending the polling of the figures leaves the rest of the tools alone.
LEMMA ClearKeeps ==
    ASSUME NEW w \in ToolRecord
    PROVE  ClearPolling(w) \in ToolRecord /\ ButFigures(w, ClearPolling(w))
<1> DEFINE v == Abandoned(w, RequestsOf("insights"))
<1>1. v \in ToolRecord /\ OnlyAsks(w, v)
    BY GivingUpKeeps DEF Tools
<1>2. ClearPolling(w) = Timers(v, FALSE, FALSE)
    BY DEF ClearPolling, Timers
<1> HIDE DEF v
<1>3. Timers(v, FALSE, FALSE) \in ToolRecord /\ ButFigures(v, Timers(v, FALSE, FALSE))
    BY <1>1, TimersKeep
<1> QED  BY <1>1, <1>2, <1>3 DEF ButFigures, OnlyAsks, SameView, SameProbe, SameFigures, SamePanel

\* Polling that starts has a timer or a request, if figures are wanted.
LEMMA StartKeeps ==
    ASSUME NEW w \in ToolRecord
    PROVE  StartPolling(w) \in ToolRecord /\ ButFigures(w, StartPolling(w)) /\ PollInv(StartPolling(w))
<1>1. CASE Wanted(w)
  <2> DEFINE v == RequestSample(w)
  <2>1. v \in ToolRecord /\ OnlyAsks(w, v)
      BY SampleKeeps
  <2>2. StartPolling(w) = Timers(v, TRUE, v.later)
      BY <1>1, <2>1 DEF StartPolling, Timers, Wanted, ToolRecord
  <2> HIDE DEF v
  <2>3. v.later \in BOOLEAN
      BY <2>1 DEF ToolRecord
  <2>4. /\ Timers(v, TRUE, v.later) \in ToolRecord /\ ButFigures(v, Timers(v, TRUE, v.later))
        /\ Timers(v, TRUE, v.later).every = TRUE
      BY <2>1, <2>3, TimersKeep
  <2> QED  BY <2>1, <2>2, <2>4 DEF PollInv, ButFigures, OnlyAsks, SameView, SameProbe, SameFigures, SamePanel
<1>2. CASE ~Wanted(w)
    BY <1>2, AsksNothing DEF Wanted, StartPolling, PollInv, OnlyAsks, ButFigures, SameFigures
<1> QED  BY <1>1, <1>2

\* The figures of w continue those of old, unless another session is selected.
FiguresFollow(w, old) ==
    w.sel = old.sel => /\ w.every = old.every /\ w.later = old.later
                       /\ w.sel \in w.unsupported <=> old.sel \in old.unsupported

\* The figures follow the selection: they are polled exactly while they are wanted.
LEMMA InsightsKeep ==
    ASSUME NEW w \in ToolRecord, NEW old \in ToolRecord, PollInv(old), FiguresFollow(w, old)
    PROVE  /\ InsightsSynced(w, old) \in ToolRecord /\ ButFigures(w, InsightsSynced(w, old))
           /\ PollInv(InsightsSynced(w, old))
<1> DEFINE c == ClearPolling(w)
           z == [c EXCEPT !.fails = 0]
<1>1. c \in ToolRecord /\ ButFigures(w, c)
    BY ClearKeeps
<1>2. z \in ToolRecord /\ ButFigures(c, z)
  <2> HIDE DEF c
  <2> QED  BY <1>1 DEF ToolRecord, ButFigures, SameView, SameProbe, SamePanel, PendingProbe
<1> HIDE DEF c, z
<1>3. StartPolling(z) \in ToolRecord /\ ButFigures(z, StartPolling(z)) /\ PollInv(StartPolling(z))
    BY <1>2, StartKeeps
<1>4. StartPolling(c) \in ToolRecord /\ ButFigures(c, StartPolling(c)) /\ PollInv(StartPolling(c))
    BY <1>1, StartKeeps
<1>5. CASE w.sel # old.sel \/ Reachable(w) # Reachable(old)
  BY <1>5, <1>1, <1>2, <1>3 DEF InsightsSynced, z, c, ButFigures, SameView, SameProbe, SamePanel
<1>6. CASE w.sel = old.sel /\ Reachable(w) = Reachable(old) /\ Watching(w) # Watching(old)
  BY <1>6, <1>1, <1>4 DEF InsightsSynced, c, ButFigures, SameView, SameProbe, SamePanel
<1>7. CASE w.sel = old.sel /\ Reachable(w) = Reachable(old) /\ Watching(w) = Watching(old)
  BY <1>7, AsksNothing DEF InsightsSynced, Wanted, FiguresFollow, PollInv, OnlyAsks, ButFigures,
     SameFigures
<1> QED  BY <1>5, <1>6, <1>7

\* The inventory follows the selection by its requests alone.
LEMMA InventoryFollows ==
    ASSUME NEW w \in ToolRecord, NEW old
    PROVE  InventorySynced(w, old) \in ToolRecord /\ OnlyAsks(w, InventorySynced(w, old))
<1> DEFINE v == Abandoned(w, RequestsOf("inventory"))
<1>1. v \in ToolRecord /\ OnlyAsks(w, v)
    BY GivingUpKeeps DEF Tools
<1>2. RequestInventory(v) \in ToolRecord /\ OnlyAsks(v, RequestInventory(v))
    BY <1>1, InventoryKeeps
<1>3. InventorySynced(w, old) = w \/ InventorySynced(w, old) = RequestInventory(v)
    BY DEF InventorySynced
<1> HIDE DEF v
<1>4. OnlyAsks(w, RequestInventory(v))
    BY <1>1, <1>2 DEF OnlyAsks, SameView, SameProbe, SameFigures, SamePanel
<1> QED  BY <1>2, <1>3, <1>4, AsksNothing

\* What stays when the panel opens or closes.
ButPanel(w, v) == SameView(w, v) /\ SameProbe(w, v) /\ SameFigures(w, v) /\ v.foreign = w.foreign

Preferred(w, s, how) == [w EXCEPT !.panel = s, !.prefers[s] = how]
Shown(w, s) == [w EXCEPT !.panel = s]

\* A preference that is stored opens the panel of that session.
LEMMA PreferredKeeps ==
    ASSUME NEW w \in ToolRecord, NEW s \in Targets, NEW how \in {"open", "closed"}
    PROVE  Preferred(w, s, how) \in ToolRecord /\ ButPanel(w, Preferred(w, s, how)) /\ Preferred(w, s, how).panel = s
<1> DEFINE pr == [w.prefers EXCEPT ![s] = how]
<1>1. pr \in [Targets -> {"none", "open", "closed"}] /\ Preferred(w, s, how) = [w EXCEPT !.panel = s, !.prefers = pr]
    BY DEF Preferred, ToolRecord
<1> HIDE DEF pr
<1> QED  BY <1>1 DEF ToolRecord, AnyTarget, ButPanel, SameView, SameProbe, SameFigures, PendingProbe

\* Showing a panel changes the panel alone.
LEMMA ShownKeeps ==
    ASSUME NEW w \in ToolRecord, NEW s \in AnyTarget
    PROVE  Shown(w, s) \in ToolRecord /\ ButPanel(w, Shown(w, s)) /\ Shown(w, s).panel = s
  BY DEF Shown, ToolRecord, ButPanel, SameView, SameProbe, SameFigures, PendingProbe

\* The coordinator shows the panel of the selected session or none.
LEMMA PanelFollows ==
    ASSUME NEW w \in ToolRecord
    PROVE  PanelUpdated(w) \in ToolRecord /\ ButPanel(w, PanelUpdated(w)) /\ PanelInv(PanelUpdated(w))
<1> DEFINE shows == IF ~w.up /\ w.sel \in w.live THEN (IF w.panel = w.sel THEN w.panel ELSE NoTarget)
                    ELSE IF Reachable(w) /\ ShouldOpenSftp(w) THEN w.sel
                    ELSE NoTarget
           opens == w.ctx = "files" /\ shows = NoTarget /\ CanOpenSftp(w)
<1>1. shows \in {NoTarget, w.sel} /\ shows \in AnyTarget
    BY DEF ToolRecord, AnyTarget
<1>2. CASE opens
  <2>1. w.sel \in Targets
      BY <1>2 DEF CanOpenSftp, Reachable, ToolRecord
  <2>2. PanelUpdated(w) = Preferred(w, w.sel, "open")
      BY <1>2 DEF PanelUpdated, Preferred
  <2> QED  BY <2>1, <2>2, PreferredKeeps DEF PanelInv, ButPanel, SameView
<1>3. CASE ~opens
  <2>1. PanelUpdated(w) = Shown(w, shows)
      BY <1>3 DEF PanelUpdated, Shown
  <2> HIDE DEF shows
  <2> QED  BY <1>1, <2>1, ShownKeeps DEF PanelInv, ButPanel, SameView
<1> QED  BY <1>2, <1>3

\* What stays when the probe moves on.
ButProbe(w, v) == SameView(w, v) /\ SameFigures(w, v) /\ SamePanel(w, v) /\ v.cap = w.cap

Calmed(w, s) == [w EXCEPT !.retry[s] = "none", !.tries[s] = 0]
ProbesFor(w, s) == [w EXCEPT !.prober = s]

\* A retry that is called off leaves the rest of the probes alone.
LEMMA CalmedKeeps ==
    ASSUME NEW w \in ToolRecord, NEW s \in Targets
    PROVE  /\ Calmed(w, s) \in ToolRecord /\ ButProbe(w, Calmed(w, s)) /\ Calmed(w, s).prober = w.prober
           /\ Calmed(w, s).asked = w.asked /\ Calmed(w, s).retry = [w.retry EXCEPT ![s] = "none"]
<1> DEFINE re == [w.retry EXCEPT ![s] = "none"]
           tr == [w.tries EXCEPT ![s] = 0]
<1>1. /\ re \in [Targets -> {"none", "timer", "short"}] /\ tr \in [Targets -> Nat]
      /\ Calmed(w, s) = [w EXCEPT !.retry = re, !.tries = tr]
    BY DEF Calmed, ToolRecord
<1> HIDE DEF re, tr
<1>2. /\ Calmed(w, s) \in ToolRecord /\ ButProbe(w, Calmed(w, s)) /\ Calmed(w, s).prober = w.prober
      /\ Calmed(w, s).asked = w.asked /\ Calmed(w, s).retry = re
    BY <1>1 DEF ToolRecord, ButProbe, SameView, SameFigures, SamePanel
<1> QED  BY <1>2 DEF re

\* A probe that is cancelled leaves neither a retry nor a request of that session.
LEMMA CancelKeeps ==
    ASSUME NEW w \in ToolRecord, NEW s \in Targets
    PROVE  /\ CancelProbe(w, s) \in ToolRecord /\ ButProbe(w, CancelProbe(w, s)) /\ CancelProbe(w, s).prober = w.prober
           /\ CancelProbe(w, s).asked = w.asked \ {[tool |-> "sftp", target |-> s]}
<1> DEFINE v == Calmed(w, s)
           rs == {[tool |-> "sftp", target |-> s]}
<1>1. v \in ToolRecord /\ ButProbe(w, v) /\ v.prober = w.prober /\ v.asked = w.asked
    BY CalmedKeeps
<1>2. CancelProbe(w, s) = Abandoned(v, rs)
    BY DEF CancelProbe, Calmed
<1> HIDE DEF v, rs
<1>3. /\ Abandoned(v, rs) \in ToolRecord
      /\ SameView(v, Abandoned(v, rs)) /\ SameFigures(v, Abandoned(v, rs)) /\ SamePanel(v, Abandoned(v, rs))
      /\ Abandoned(v, rs).asked = v.asked \ rs /\ Abandoned(v, rs).cap = v.cap /\ Abandoned(v, rs).prober = v.prober
    BY <1>1, AbandonedKeeps
<1>4. ButProbe(w, Abandoned(v, rs))
    BY <1>1, <1>3 DEF ButProbe, SameView, SameFigures, SamePanel
<1> QED  BY <1>1, <1>2, <1>3, <1>4 DEF rs

\* The probe moves to a session; the rest of the tools stays.
LEMMA ProbesForKeeps ==
    ASSUME NEW w \in ToolRecord, NEW s \in AnyTarget
    PROVE  ProbesFor(w, s) \in ToolRecord /\ ButProbe(w, ProbesFor(w, s)) /\ ProbesFor(w, s).prober = s
  BY DEF ProbesFor, ToolRecord, ButProbe, SameView, SameFigures, SamePanel

\* A probe that starts is pending, unless the answer is known.
LEMMA StartProbeKeeps ==
    ASSUME NEW w \in ToolRecord, NEW s \in Targets
    PROVE  /\ StartProbe(w, s) \in ToolRecord /\ ButProbe(w, StartProbe(w, s)) /\ StartProbe(w, s).prober = w.prober
           /\ StartProbe(w, s).retry = w.retry
           /\ w.cap[s] = "unknown" => PendingProbe(StartProbe(w, s), s)
           /\ \A u \in Targets : PendingProbe(w, u) => PendingProbe(StartProbe(w, s), u)
<1> DEFINE r == [tool |-> "sftp", target |-> s]
           v == [w EXCEPT !.asked = @ \cup {r}]
<1>1. r \in ToolRequest
    BY RequestSets DEF Tools
<1>2. CASE PendingProbe(w, s) \/ w.cap[s] # "unknown"
    BY <1>2 DEF StartProbe, ButProbe, SameView, SameFigures, SamePanel
<1>3. CASE ~(PendingProbe(w, s) \/ w.cap[s] # "unknown")
  <2>1. StartProbe(w, s) = v
      BY <1>3 DEF StartProbe, AskTool
  <2>2. r \in v.asked /\ w.asked \subseteq v.asked
      BY DEF ToolRecord
  <2>3. PendingProbe(v, s) /\ \A u \in Targets : PendingProbe(w, u) => PendingProbe(v, u)
      BY <2>2 DEF PendingProbe
  <2>4. v \in ToolRecord /\ ButProbe(w, v) /\ v.prober = w.prober /\ v.retry = w.retry
    <3> HIDE DEF r
    <3> QED  BY <1>1 DEF ToolRecord, ButProbe, SameView, SameFigures, SamePanel
  <2> HIDE DEF v
  <2> QED  BY <2>1, <2>3, <2>4
<1> QED  BY <1>2, <1>3

\* What get answers tells whether the SFTP of a session is settled.
LEMMA CapabilityTells ==
    ASSUME NoTarget \notin Targets, NEW w \in ToolRecord, NEW s \in Targets
    PROVE  Capability(w, s) \in {"unknown", "probing", "resource_shortage"} <=> w.cap[s] = "unknown"
  BY DEF Capability, ToolRecord, Capabilities

\* After the selection changed, the selected session is probed or settled.
LEMMA ProbeFollows ==
    ASSUME NoTarget \notin Targets, NEW w \in ToolRecord
    PROVE  ProbeIfNeeded(w) \in ToolRecord /\ ButProbe(w, ProbeIfNeeded(w)) /\ ProbeInv(ProbeIfNeeded(w))
<1> DEFINE el == IF Reachable(w) /\ Capability(w, w.sel) \in {"unknown", "probing", "resource_shortage"}
                 THEN w.sel ELSE NoTarget
           left == IF w.prober = NoTarget THEN w ELSE CancelProbe(w, w.prober)
           moved == IF w.prober = el THEN w ELSE ProbesFor(left, el)
<1>1. el = IF Unsettled(w) THEN w.sel ELSE NoTarget
  BY CapabilityTells DEF Reachable, ToolRecord, Unsettled
<1>2. el \in AnyTarget /\ (el # NoTarget => el = w.sel /\ el \in Targets)
    BY DEF ToolRecord, AnyTarget
<1>3. left \in ToolRecord /\ ButProbe(w, left)
  BY CancelKeeps DEF ButProbe, SameView, SameFigures, SamePanel, ToolRecord, AnyTarget
<1>4. moved \in ToolRecord /\ ButProbe(w, moved) /\ moved.prober = el
  <2>1. CASE w.prober = el
      BY <2>1 DEF ButProbe, SameView, SameFigures, SamePanel
  <2>2. CASE w.prober # el
    <3>1. moved = ProbesFor(left, el)
        BY <2>2
    <3> HIDE DEF left, el
    <3>2. ProbesFor(left, el) \in ToolRecord /\ ButProbe(left, ProbesFor(left, el)) /\ ProbesFor(left, el).prober = el
        BY <1>2, <1>3, ProbesForKeeps
    <3>3. ButProbe(w, ProbesFor(left, el))
        BY <1>3, <3>2 DEF ButProbe, SameView, SameFigures, SamePanel
    <3> HIDE DEF moved
    <3> QED  BY <3>1, <3>2, <3>3
  <2> QED  BY <2>1, <2>2
<1>5. ProbeIfNeeded(w) = IF el = NoTarget \/ moved.retry[el] # "none" THEN moved ELSE StartProbe(moved, el)
    BY DEF ProbeIfNeeded, ProbesFor
<1> HIDE DEF el, left, moved
<1>6. \A v : ButProbe(w, v) => (Unsettled(v) <=> Unsettled(w)) /\ v.sel = w.sel
    BY DEF ButProbe, SameView, Unsettled, Reachable
<1>7. CASE el = NoTarget \/ moved.retry[el] # "none"
  <2>1. ~Unsettled(w) \/ moved.retry[w.sel] # "none"
    BY <1>1, <1>7 DEF Unsettled, Reachable, ToolRecord
  <2>2. ProbeInv(moved)
      BY <1>1, <1>4, <1>6, <2>1 DEF ProbeInv
  <2> QED  BY <1>4, <1>5, <1>7, <2>2
<1>8. CASE ~(el = NoTarget \/ moved.retry[el] # "none")
  <2> DEFINE v == StartProbe(moved, el)
  <2>1. el \in Targets /\ el = w.sel /\ Unsettled(w)
      BY <1>1, <1>2, <1>8
  <2>2. moved.cap[el] = "unknown"
      BY <1>4, <2>1 DEF Unsettled, ButProbe
  <2>3. v \in ToolRecord /\ ButProbe(moved, v) /\ v.prober = el /\ PendingProbe(v, el)
      BY <1>4, <2>1, <2>2, StartProbeKeeps
  <2>4. ProbeIfNeeded(w) = v
      BY <1>5, <1>8
  <2> HIDE DEF v
  <2>5. ButProbe(w, v)
      BY <1>4, <2>3 DEF ButProbe, SameView, SameFigures, SamePanel
  <2>6. ProbeInv(v)
      BY <1>1, <1>6, <2>1, <2>3, <2>5 DEF ProbeInv
  <2> QED  BY <2>3, <2>4, <2>5, <2>6
<1> QED  BY <1>7, <1>8

\* After a change every tool is in order again.
LEMMA SyncRestores ==
    ASSUME NoTarget \notin Targets, NEW w \in ToolRecord, tool \in ToolRecord, PollInv(tool), FiguresFollow(w, tool), CacheInv(w)
    PROVE  /\ SyncTools(w) \in ToolRecord /\ PanelInv(SyncTools(w)) /\ CacheInv(SyncTools(w))
           /\ ProbeInv(SyncTools(w)) /\ PollInv(SyncTools(w)) /\ SameView(w, SyncTools(w))
<1> DEFINE a == PanelUpdated(w)
           b == ProbeIfNeeded(a)
           c == InsightsSynced(b, tool)
           d == InventorySynced(c, tool)
<1>0. SyncTools(w) = d
    BY DEF SyncTools
<1>1. a \in ToolRecord /\ ButPanel(w, a) /\ PanelInv(a)
    BY PanelFollows
<1> HIDE DEF a
<1>2. b \in ToolRecord /\ ButProbe(a, b) /\ ProbeInv(b)
    BY <1>1, ProbeFollows
<1> HIDE DEF b
<1>3. SameView(w, b) /\ SameFigures(w, b) /\ b.foreign = w.foreign /\ PanelInv(b)
    BY <1>1, <1>2 DEF ButPanel, ButProbe, SameView, SameFigures, SamePanel, PanelInv
<1>4. FiguresFollow(b, tool)
    BY <1>3 DEF FiguresFollow, SameView, SameFigures
<1>5. c \in ToolRecord /\ ButFigures(b, c) /\ PollInv(c)
    BY <1>2, <1>4, InsightsKeep
<1> HIDE DEF c
<1>6. d \in ToolRecord /\ OnlyAsks(c, d)
    BY <1>5, InventoryFollows
<1> HIDE DEF d
<1>7. SameView(b, d) /\ SameProbe(b, d) /\ SamePanel(b, d) /\ SameView(c, d) /\ SameFigures(c, d)
    BY <1>5, <1>6 DEF ButFigures, OnlyAsks, SameView, SameProbe, SamePanel
<1>8. PanelInv(d) /\ CacheInv(d) /\ SameView(w, d)
    BY <1>3, <1>7 DEF PanelInv, CacheInv, SameView, SamePanel
<1>9. ProbeInv(d)
  <2>1. b.sel = d.sel /\ (Unsettled(b) <=> Unsettled(d)) /\ (Unsettled(d) => d.sel \in Targets)
      BY <1>6, <1>7 DEF SameView, SameProbe, Unsettled, Reachable, ToolRecord
  <2> QED  BY <1>2, <1>7, <2>1 DEF ProbeInv, SameProbe
<1>10. PollInv(d)
  BY <1>7, ViewDecides, <1>5 DEF Wanted, SameView, SameFigures, PollInv
<1> QED  BY <1>0, <1>6, <1>8, <1>9, <1>10

\* Bringing every tool in line with the selection puts the tools in order.
LEMMA SyncInOrder ==
    ASSUME NoTarget \notin Targets, NEW w \in ToolRecord, ToolInv, FiguresFollow(w, tool), CacheInv(w)
    PROVE  InOrder(SyncTools(w)) /\ SameView(w, SyncTools(w))
  BY SyncRestores DEF ToolInv, InOrder

\* Asking and giving up leave the tools in order.
LEMMA AskingInOrder ==
    ASSUME NEW w, NEW v \in ToolRecord, InOrder(w), SameView(w, v), SameProbe(w, v), SamePanel(w, v), SameFigures(w, v)
    PROVE  InOrder(v)
<1>1. PanelInv(v) /\ CacheInv(v)
    BY DEF InOrder, PanelInv, CacheInv, SameView, SamePanel
<1>2. ProbeInv(v)
  BY DEF SameView, SameProbe, Unsettled, Reachable, ToolRecord, InOrder, ProbeInv
<1>3. PollInv(v)
  BY ViewDecides DEF Wanted, SameView, SameFigures, InOrder, PollInv
<1> QED  BY <1>1, <1>2, <1>3 DEF InOrder

\* So do changes of the figures that leave a timer.
LEMMA FiguresInOrder ==
    ASSUME NEW w, NEW v \in ToolRecord, InOrder(w), SameView(w, v), SameProbe(w, v), SamePanel(w, v), PollInv(v)
    PROVE  InOrder(v)
<1>1. PanelInv(v) /\ CacheInv(v)
    BY DEF InOrder, PanelInv, CacheInv, SameView, SamePanel
<1>2. ProbeInv(v)
  BY DEF SameView, SameProbe, Unsettled, Reachable, ToolRecord, InOrder, ProbeInv
<1> QED  BY <1>1, <1>2 DEF InOrder

----------------------------------------------------------------------------
(* The steps.                                                              *)

\* Selecting a session keeps the invariant.
LEMMA SelectTargetKeeps ==
    ASSUME NoTarget \notin Targets, ToolInv, NEW s \in Targets, SelectTarget(s)
    PROVE  ToolInv'
<1> DEFINE w == [tool EXCEPT !.sel = s]
<1>1. w \in ToolRecord /\ w.sel # tool.sel /\ CacheInv(w)
    BY DEF SelectTarget, ToolInv, InOrder, ToolRecord, AnyTarget, CacheInv
<1>2. tool' = SyncTools(w)
    BY DEF SelectTarget
<1> HIDE DEF w
<1>3. InOrder(SyncTools(w))
    BY <1>1, SyncInOrder DEF FiguresFollow
<1> QED  BY <1>2, <1>3 DEF ToolInv

\* Choosing a context panel keeps the invariant.
LEMMA SelectContextKeeps ==
    ASSUME NoTarget \notin Targets, ToolInv, NEW c \in Contents, SelectContext(c)
    PROVE  ToolInv'
<1> DEFINE w == [tool EXCEPT !.ctx = c]
<1>1. w \in ToolRecord /\ FiguresFollow(w, tool) /\ CacheInv(w)
    BY DEF ToolInv, InOrder, ToolRecord, CacheInv, FiguresFollow
<1>2. tool' = SyncTools(w)
    BY DEF SelectContext
<1> HIDE DEF w
<1>3. InOrder(SyncTools(w))
    BY <1>1, SyncInOrder
<1> QED  BY <1>2, <1>3 DEF ToolInv

\* Hiding or showing the page keeps the invariant.
LEMMA PageSeenKeeps ==
    ASSUME ToolInv, NEW on \in BOOLEAN, PageSeen(on)
    PROVE  ToolInv'
<1> DEFINE w == [tool EXCEPT !.seen = on]
           v == InsightsSynced(w, tool)
<1>1. w \in ToolRecord /\ FiguresFollow(w, tool) /\ SameProbe(tool, w) /\ SamePanel(tool, w) /\ SameFigures(tool, w)
      /\ w.sel = tool.sel /\ w.up = tool.up /\ w.live = tool.live
    BY DEF ToolInv, InOrder, ToolRecord, FiguresFollow, SameProbe, SamePanel, SameFigures, PendingProbe
<1>2. tool' = v
    BY DEF PageSeen
<1> HIDE DEF w
<1>3. v \in ToolRecord /\ ButFigures(w, v) /\ PollInv(v)
    BY <1>1, InsightsKeep DEF ToolInv, InOrder
<1> HIDE DEF v
<1>4. SameProbe(tool, v) /\ SamePanel(tool, v) /\ v.sel = tool.sel /\ v.up = tool.up /\ v.live = tool.live
    BY <1>1, <1>3 DEF ButFigures, SameView, SameProbe, SamePanel
<1>5. PanelInv(v) /\ CacheInv(v)
    BY <1>4 DEF ToolInv, InOrder, PanelInv, CacheInv, SamePanel
<1>6. ProbeInv(v)
  BY <1>3, <1>4 DEF SameProbe, Unsettled, Reachable, ToolRecord, ToolInv, InOrder, ProbeInv
<1> QED  BY <1>2, <1>3, <1>5, <1>6 DEF ToolInv, InOrder

\* Opening or closing the file panel keeps the invariant.
LEMMA ToggleKeeps ==
    ASSUME NoTarget \notin Targets, ToolInv, ToggleSftp
    PROVE  ToolInv'
<1> DEFINE s == tool.sel
           c == IF tool.ctx = "files" THEN "none" ELSE tool.ctx
           w == [tool EXCEPT !.ctx = c]
<1>0. s \in Targets /\ tool \in ToolRecord
    BY DEF ToggleSftp, ToolInv, InOrder, ToolRecord, AnyTarget
<1>1. /\ w \in ToolRecord /\ InOrder(w) /\ w.sel = s
  <2>1. c \in Contents /\ (c = "diagnostics" <=> tool.ctx = "diagnostics")
      BY <1>0 DEF ToolRecord, Contents
  <2> HIDE DEF c
  <2>2. /\ w \in ToolRecord /\ SameProbe(tool, w) /\ SamePanel(tool, w) /\ SameFigures(tool, w)
        /\ w.sel = s /\ w.up = tool.up /\ w.live = tool.live /\ w.seen = tool.seen /\ w.ctx = c
      BY <1>0, <2>1 DEF ToolRecord, SameProbe, SamePanel, SameFigures, PendingProbe
  <2> HIDE DEF w
  <2>3. PanelInv(w) /\ CacheInv(w)
      BY <2>2 DEF ToolInv, InOrder, PanelInv, CacheInv, SamePanel
  <2>4. ProbeInv(w)
    BY <1>0, <2>2 DEF SameProbe, Unsettled, Reachable, ToolInv, InOrder, ProbeInv
  <2>5. PollInv(w)
    BY <2>1, <2>2 DEF SameFigures, Wanted, Watching, DiagnosticsOpen, Reachable, ToolInv, InOrder,
       PollInv
  <2> QED  BY <2>2, <2>3, <2>4, <2>5 DEF InOrder
<1>2. CASE tool' = [tool EXCEPT !.panel = NoTarget, !.prefers[tool.sel] = "closed",
                                !.ctx = IF @ = "files" THEN "none" ELSE @]
  <2> DEFINE v == Preferred(w, s, "closed")
             u == Shown(v, NoTarget)
  <2>1. v \in ToolRecord /\ ButPanel(w, v)
    <3> HIDE DEF w, s
    <3> QED  BY <1>0, <1>1, PreferredKeeps
  <2>2. tool' = u
    <3>1. tool' = [tool EXCEPT !.ctx = c, !.panel = NoTarget, !.prefers = [@ EXCEPT ![s] = "closed"]]
        BY <1>0, <1>2 DEF ToolRecord
    <3> HIDE DEF c, s
    <3> QED  BY <1>0, <3>1 DEF Shown, Preferred, ToolRecord
  <2> HIDE DEF v, w
  <2>3. u \in ToolRecord /\ ButPanel(v, u) /\ u.panel = NoTarget
      BY <2>1, ShownKeeps DEF AnyTarget
  <2> HIDE DEF u
  <2>4. SameView(w, u) /\ SameProbe(w, u) /\ SameFigures(w, u) /\ u.foreign = w.foreign
      BY <2>1, <2>3 DEF ButPanel, SameView, SameProbe, SameFigures
  <2>5. PanelInv(u) /\ CacheInv(u)
      BY <1>1, <2>3, <2>4 DEF PanelInv, CacheInv, InOrder
  <2>6. ProbeInv(u)
    BY <2>3, <2>4, <1>1 DEF SameView, SameProbe, Unsettled, Reachable, ToolRecord, InOrder,
       ProbeInv
  <2>7. PollInv(u)
    BY <2>4, ViewDecides, <1>1 DEF Wanted, SameView, SameFigures, InOrder, PollInv
  <2> QED  BY <2>2, <2>3, <2>5, <2>6, <2>7 DEF InOrder, ToolInv
<1>3. CASE tool' = [tool EXCEPT !.panel = tool.sel, !.prefers[tool.sel] = "open"]
  <2> DEFINE u == Preferred(tool, s, "open")
  <2>1. tool' = u
      BY <1>3 DEF Preferred
  <2>2. u \in ToolRecord /\ ButPanel(tool, u) /\ u.panel = s
      BY <1>0, PreferredKeeps
  <2> HIDE DEF u
  <2>3. PanelInv(u) /\ CacheInv(u)
      BY <2>2 DEF PanelInv, CacheInv, ToolInv, InOrder, ButPanel, SameView
  <2>4. ProbeInv(u)
    BY <2>2 DEF ButPanel, SameView, SameProbe, Unsettled, Reachable, ToolRecord, ToolInv, InOrder,
       ProbeInv
  <2>5. PollInv(u)
    BY <2>2, ViewDecides DEF ButPanel, Wanted, SameView, SameFigures, ToolInv, InOrder, PollInv
  <2> QED  BY <2>1, <2>2, <2>3, <2>4, <2>5 DEF InOrder, ToolInv
<1> QED  BY <1>2, <1>3 DEF ToggleSftp

\* The refresh button keeps the invariant.
LEMMA RefreshKeeps ==
    ASSUME ToolInv, RefreshTools
    PROVE  ToolInv'
<1> DEFINE v == RequestInventory(tool)
           c == ClearPolling(v)
           z == [c EXCEPT !.fails = 0, !.unsupported = @ \ {tool.sel}, !.coarse = @ \ {tool.sel}]
<1>1. v \in ToolRecord /\ OnlyAsks(tool, v)
    BY InventoryKeeps DEF ToolInv, InOrder
<1> HIDE DEF v
<1>2. c \in ToolRecord /\ ButFigures(v, c)
    BY <1>1, ClearKeeps
<1> HIDE DEF c
<1>3. z \in ToolRecord /\ SameView(c, z) /\ SameProbe(c, z) /\ SamePanel(c, z)
    BY <1>2 DEF ToolRecord, SameView, SameProbe, SamePanel, PendingProbe
<1>4. tool' = StartPolling(z)
    BY DEF RefreshTools, z, c, v
<1> HIDE DEF z
<1>5. StartPolling(z) \in ToolRecord /\ ButFigures(z, StartPolling(z)) /\ PollInv(StartPolling(z))
    BY <1>3, StartKeeps
<1>6. SameView(tool, StartPolling(z)) /\ SameProbe(tool, StartPolling(z)) /\ SamePanel(tool, StartPolling(z))
    BY <1>1, <1>2, <1>3, <1>5 DEF OnlyAsks, ButFigures, SameView, SameProbe, SamePanel
<1> QED  BY <1>4, <1>5, <1>6, FiguresInOrder DEF ToolInv

\* Losing the socket keeps the invariant: every request is forgotten.
LEMMA SocketDownKeeps ==
    ASSUME NoTarget \notin Targets, ToolInv, SocketDown
    PROVE  ToolInv'
<1> DEFINE w == [tool EXCEPT !.up = FALSE]
           v == SyncTools(w)
           u == [v EXCEPT !.asked = {}, !.late = NoTarget]
<1>1. w \in ToolRecord /\ FiguresFollow(w, tool) /\ CacheInv(w) /\ w.up = FALSE
    BY DEF ToolInv, InOrder, ToolRecord, CacheInv, FiguresFollow
<1>2. tool' = u
    BY DEF SocketDown
<1> HIDE DEF w
<1>3. InOrder(v) /\ SameView(w, v)
    BY <1>1, SyncInOrder
<1> HIDE DEF v
<1>4. v.up = FALSE /\ v \in ToolRecord /\ v.prober = NoTarget
    BY <1>1, <1>3 DEF SameView, InOrder, ProbeInv, Unsettled, Reachable
<1>5. u \in ToolRecord /\ u.up = FALSE /\ u.prober = NoTarget /\ u.panel = v.panel /\ u.foreign = v.foreign /\ u.sel = v.sel
    BY <1>4 DEF ToolRecord
<1> HIDE DEF u
<1> QED  BY <1>2, <1>3, <1>5 DEF ToolInv, InOrder, PanelInv, CacheInv, ProbeInv, PollInv, Unsettled, Wanted, Reachable

\* The socket coming back keeps the invariant.
LEMMA SocketUpKeeps ==
    ASSUME NoTarget \notin Targets, ToolInv, SocketUp
    PROVE  ToolInv'
<1> DEFINE w == [tool EXCEPT !.up = TRUE]
<1>1. w \in ToolRecord /\ FiguresFollow(w, tool) /\ CacheInv(w)
    BY DEF ToolInv, InOrder, ToolRecord, CacheInv, FiguresFollow
<1>2. tool' = SyncTools(w)
    BY DEF SocketUp
<1> HIDE DEF w
<1>3. InOrder(SyncTools(w))
    BY <1>1, SyncInOrder
<1> QED  BY <1>2, <1>3 DEF ToolInv

\* A session that is removed takes what is known of it along.
Forgotten(w, s) ==
    [w EXCEPT !.live = @ \ {s}, !.cap[s] = "unknown", !.prefers[s] = "none",
              !.prober = IF @ = s THEN NoTarget ELSE @,
              !.unsupported = @ \ {s}, !.coarse = @ \ {s}]

\* A session that is forgotten leaves the timers and the selection alone.
LEMMA ForgottenKeeps ==
    ASSUME NEW w \in ToolRecord, NEW s \in Targets
    PROVE  /\ Forgotten(w, s) \in ToolRecord /\ Forgotten(w, s).sel = w.sel /\ Forgotten(w, s).foreign = w.foreign
           /\ Forgotten(w, s).every = w.every /\ Forgotten(w, s).later = w.later
           /\ Forgotten(w, s).unsupported = w.unsupported \ {s}
<1> DEFINE ca == [w.cap EXCEPT ![s] = "unknown"]
           pr == [w.prefers EXCEPT ![s] = "none"]
           pb == IF w.prober = s THEN NoTarget ELSE w.prober
           li == w.live \ {s}
           un == w.unsupported \ {s}
           co == w.coarse \ {s}
<1>1. /\ ca \in [Targets -> Capabilities] /\ pr \in [Targets -> {"none", "open", "closed"}] /\ pb \in AnyTarget
      /\ li \in SUBSET Targets /\ un \in SUBSET Targets /\ co \in SUBSET Targets
    BY DEF ToolRecord, Capabilities, AnyTarget
<1>2. Forgotten(w, s) = [w EXCEPT !.live = li, !.cap = ca, !.prefers = pr, !.prober = pb, !.unsupported = un, !.coarse = co]
    BY DEF Forgotten, ToolRecord
<1> HIDE DEF ca, pr, pb, li, un, co
<1>3. /\ Forgotten(w, s) \in ToolRecord /\ Forgotten(w, s).sel = w.sel /\ Forgotten(w, s).foreign = w.foreign
      /\ Forgotten(w, s).every = w.every /\ Forgotten(w, s).later = w.later
      /\ Forgotten(w, s).unsupported = un
  <2> DEFINE v == [w EXCEPT !.live = li, !.cap = ca, !.prefers = pr]
  <2>1. /\ v \in ToolRecord /\ v.sel = w.sel /\ v.foreign = w.foreign /\ v.every = w.every /\ v.later = w.later
      BY <1>1 DEF ToolRecord
  <2>2. Forgotten(w, s) = [v EXCEPT !.prober = pb, !.unsupported = un, !.coarse = co]
      BY <1>2 DEF ToolRecord
  <2> DEFINE x == [v EXCEPT !.prober = pb, !.unsupported = un, !.coarse = co]
  <2> HIDE DEF v
  <2>3. x \in ToolRecord
      BY <1>1, <2>1 DEF ToolRecord
  <2>4. /\ x.sel = w.sel /\ x.foreign = w.foreign /\ x.every = w.every /\ x.later = w.later /\ x.unsupported = un
      BY <2>1 DEF ToolRecord
  <2> HIDE DEF x
  <2> QED  BY <2>2, <2>3, <2>4 DEF x
<1> QED  BY <1>3 DEF un

\* Removing a session keeps the invariant, also when it was the selected one.
LEMMA RemoveTargetKeeps ==
    ASSUME NoTarget \notin Targets, ToolInv, NEW s \in Targets, NEW next \in AnyTarget, RemoveTarget(s, next)
    PROVE  ToolInv'
<1> DEFINE c == CancelProbe(tool, s)
           g == Forgotten(c, s)
           n == IF tool.sel = s THEN next ELSE tool.sel
           w == [g EXCEPT !.sel = n]
<1>0. tool \in ToolRecord /\ next # s
    BY DEF ToolInv, InOrder, RemoveTarget
<1>1. c \in ToolRecord /\ SameView(tool, c) /\ SameFigures(tool, c) /\ SamePanel(tool, c)
    BY <1>0, CancelKeeps DEF ButProbe
<1>2. tool' = SyncTools([g EXCEPT !.sel = IF @ = s THEN next ELSE @])
    BY DEF RemoveTarget, Forgotten
<1> HIDE DEF c
<1>3. /\ g \in ToolRecord /\ g.sel = tool.sel /\ g.foreign = tool.foreign
      /\ g.every = tool.every /\ g.later = tool.later /\ g.unsupported = tool.unsupported \ {s}
    BY <1>1, ForgottenKeeps DEF SameView, SameFigures, SamePanel
<1> HIDE DEF g
<1>4. n \in AnyTarget /\ n # s /\ (n = tool.sel \/ tool.sel = s)
    BY <1>0 DEF ToolRecord, AnyTarget
<1>5. w = [g EXCEPT !.sel = IF @ = s THEN next ELSE @]
    BY <1>3 DEF ToolRecord
<1> HIDE DEF n
<1>6. /\ w \in ToolRecord /\ w.sel = n /\ w.foreign = tool.foreign /\ w.every = tool.every /\ w.later = tool.later
      /\ w.unsupported = tool.unsupported \ {s}
    BY <1>3, <1>4 DEF ToolRecord
<1> HIDE DEF w
<1>7. FiguresFollow(w, tool) /\ CacheInv(w)
    BY <1>4, <1>6 DEF FiguresFollow, CacheInv, ToolInv, InOrder
<1>8. InOrder(SyncTools(w))
    BY <1>6, <1>7, SyncInOrder
<1> QED  BY <1>2, <1>5, <1>8 DEF ToolInv

----------------------------------------------------------------------------
(* Answers and timers.                                                     *)

\* Of what the tools know only the probe of s, which is over, differs.
ProbeOver(w, s) ==
    /\ w \in ToolRecord /\ SameView(tool, w) /\ SameFigures(tool, w) /\ SamePanel(tool, w)
    /\ w.cap = tool.cap /\ w.retry = tool.retry /\ w.prober = tool.prober
    /\ \A u \in Targets \ {s} : PendingProbe(tool, u) <=> PendingProbe(w, u)

Settles(w, s, how) == [w EXCEPT !.retry[s] = "none", !.tries[s] = 0, !.cap[s] = how]

\* An answer that settles a probe changes the probes alone.
LEMMA SettlesKeeps ==
    ASSUME NEW w \in ToolRecord, NEW s \in Targets, NEW how \in Capabilities
    PROVE  /\ Settles(w, s, how) \in ToolRecord /\ SameView(w, Settles(w, s, how)) /\ SameFigures(w, Settles(w, s, how))
           /\ SamePanel(w, Settles(w, s, how))
<1> DEFINE re == [w.retry EXCEPT ![s] = "none"]
           tr == [w.tries EXCEPT ![s] = 0]
           ca == [w.cap EXCEPT ![s] = how]
<1>1. /\ re \in [Targets -> {"none", "timer", "short"}] /\ tr \in [Targets -> Nat] /\ ca \in [Targets -> Capabilities]
      /\ Settles(w, s, how) = [w EXCEPT !.retry = re, !.tries = tr, !.cap = ca]
    BY DEF Settles, ToolRecord
<1> HIDE DEF re, tr, ca
<1> QED  BY <1>1 DEF ToolRecord, SameView, SameFigures, SamePanel

\* A probe that is settled leaves the tools in order.
LEMMA SettledInOrder ==
    ASSUME NoTarget \notin Targets, ToolInv, NEW s \in Targets, NEW w, ProbeOver(w, s), NEW how \in Capabilities
    PROVE  InOrder(SyncTools(Settles(w, s, how)))
<1> DEFINE v == Settles(w, s, how)
<1>1. v \in ToolRecord /\ SameView(w, v) /\ SameFigures(w, v) /\ SamePanel(w, v)
    BY SettlesKeeps DEF ProbeOver
<1> HIDE DEF v
<1>2. FiguresFollow(v, tool) /\ CacheInv(v)
    BY <1>1 DEF FiguresFollow, CacheInv, ToolInv, InOrder, ProbeOver, SameView, SameFigures, SamePanel
<1>3. InOrder(SyncTools(v))
    BY <1>1, <1>2, SyncInOrder
<1> QED  BY <1>3 DEF v

\* The probe that is over: retried later, given up as inconclusive, or no longer wanted.
RetriesAs(w, s, n, how) == [w EXCEPT !.tries[s] = n, !.retry[s] = how]

\* A retry that is set changes the probes alone.
LEMMA RetriesKeeps ==
    ASSUME NEW w \in ToolRecord, NEW s \in Targets, NEW n \in Nat, NEW how \in {"timer", "short"}
    PROVE  /\ RetriesAs(w, s, n, how) \in ToolRecord
           /\ SameView(w, RetriesAs(w, s, n, how)) /\ SameFigures(w, RetriesAs(w, s, n, how)) /\ SamePanel(w, RetriesAs(w, s, n, how))
           /\ RetriesAs(w, s, n, how).cap = w.cap /\ RetriesAs(w, s, n, how).prober = w.prober
           /\ RetriesAs(w, s, n, how).retry[s] = how
<1> DEFINE re == [w.retry EXCEPT ![s] = how]
           tr == [w.tries EXCEPT ![s] = n]
<1>1. /\ re \in [Targets -> {"none", "timer", "short"}] /\ tr \in [Targets -> Nat] /\ re[s] = how
      /\ RetriesAs(w, s, n, how) = [w EXCEPT !.tries = tr, !.retry = re]
    BY DEF RetriesAs, ToolRecord
<1> HIDE DEF re, tr
<1>2. RetriesAs(w, s, n, how) \in ToolRecord
  BY <1>1 DEF ToolRecord
<1>4. /\ RetriesAs(w, s, n, how).retry = re
      /\ RetriesAs(w, s, n, how).cap = w.cap /\ RetriesAs(w, s, n, how).prober = w.prober
    BY <1>1 DEF ToolRecord
<1>3. SameView(w, RetriesAs(w, s, n, how)) /\ SameFigures(w, RetriesAs(w, s, n, how)) /\ SamePanel(w, RetriesAs(w, s, n, how))
    BY <1>1 DEF ToolRecord, SameView, SameFigures, SamePanel
<1> QED  BY <1>1, <1>2, <1>3, <1>4

\* A probe that is to be tried again leaves the tools in order.
LEMMA RetryInOrder ==
    ASSUME NoTarget \notin Targets, ToolInv, NEW s \in Targets, NEW w, ProbeOver(w, s), NEW short \in BOOLEAN
    PROVE  InOrder(ScheduleRetry(w, s, short))
<1>0. w \in ToolRecord /\ tool \in ToolRecord
    BY DEF ProbeOver, ToolInv, InOrder
<1>p. PanelInv(w) /\ CacheInv(w) /\ PollInv(w)
  <2>1. Wanted(w) <=> Wanted(tool)
      BY ViewDecides DEF ProbeOver, Wanted, SameView, SameFigures
  <2> QED  BY <2>1 DEF ProbeOver, ToolInv, InOrder, PanelInv, CacheInv, PollInv, SameView, SameFigures, SamePanel
<1>u. /\ w.sel = tool.sel /\ (Unsettled(w) <=> Unsettled(tool)) /\ (Unsettled(w) => w.sel \in Targets)
      /\ w.prober = IF Unsettled(w) THEN w.sel ELSE NoTarget
  BY <1>0 DEF ProbeOver, SameView, Unsettled, Reachable, ToolRecord, ToolInv, InOrder, ProbeInv
<1>1. CASE ~short /\ w.tries[s] >= 2 /\ w.prober = s
  BY <1>1, SettledInOrder DEF ScheduleRetry, Settles, Capabilities
<1>2. CASE ~(~short /\ w.tries[s] >= 2 /\ w.prober = s) /\ (w.retry[s] # "none" \/ w.prober # s)
  <2>1. ScheduleRetry(w, s, short) = w
      BY <1>2 DEF ScheduleRetry
  <2>2. ProbeInv(w)
    BY <1>u, <1>2 DEF ProbeOver, ToolInv, InOrder, ProbeInv
  <2> QED  BY <1>0, <1>p, <2>1, <2>2 DEF InOrder
<1>3. CASE ~(w.retry[s] # "none" \/ w.prober # s) /\ short
  <2> DEFINE v == RetriesAs(w, s, 0, "short")
  <2>1. ScheduleRetry(w, s, short) = SyncTools(v)
      BY <1>3 DEF ScheduleRetry, RetriesAs
  <2>2. v \in ToolRecord /\ SameView(w, v) /\ SameFigures(w, v) /\ SamePanel(w, v)
      BY <1>0, RetriesKeeps
  <2> HIDE DEF v
  <2>3. FiguresFollow(v, tool) /\ CacheInv(v)
      BY <2>2, <1>p DEF ProbeOver, FiguresFollow, CacheInv, SameView, SameFigures, SamePanel
  <2> QED  BY <2>1, <2>2, <2>3, SyncInOrder
<1>4. CASE ~(w.tries[s] >= 2 /\ w.prober = s) /\ ~(w.retry[s] # "none" \/ w.prober # s) /\ ~short
  <2> DEFINE n == w.tries[s] + 1
             v == RetriesAs(w, s, n, "timer")
  <2>0. n \in Nat
      BY <1>0 DEF ToolRecord
  <2>1. ScheduleRetry(w, s, short) = v
    BY <1>4, <1>0 DEF ScheduleRetry, RetriesAs, ToolRecord
  <2> HIDE DEF n
  <2>2. /\ v \in ToolRecord /\ SameView(w, v) /\ SameFigures(w, v) /\ SamePanel(w, v) /\ v.cap = w.cap
        /\ v.prober = w.prober /\ v.retry[s] = "timer"
      BY <1>0, <2>0, RetriesKeeps
  <2> HIDE DEF v
  <2>3. PanelInv(v) /\ CacheInv(v) /\ PollInv(v)
    BY <2>2, ViewDecides, <1>p DEF Wanted, SameView, SameFigures, PanelInv, CacheInv, PollInv,
       SamePanel
  <2>4. ProbeInv(v)
    BY <2>2, <1>u, <1>4 DEF SameView, Unsettled, Reachable, ProbeInv
  <2> QED  BY <2>1, <2>2, <2>3, <2>4 DEF InOrder
<1> QED  BY <1>1, <1>2, <1>3, <1>4

\* renderFailure leaves a timer, or the session is known not to have figures.
Failing(w, n, e, l) == [w EXCEPT !.fails = n, !.every = e, !.later = l]

\* A failed sample changes the timers of the figures alone.
LEMMA FailingKeeps ==
    ASSUME NEW w \in ToolRecord, NEW n \in Nat, NEW e \in BOOLEAN, NEW l \in BOOLEAN
    PROVE  /\ Failing(w, n, e, l) \in ToolRecord /\ ButFigures(w, Failing(w, n, e, l))
           /\ Failing(w, n, e, l).every = e /\ Failing(w, n, e, l).later = l
  BY DEF ToolRecord, Failing, ButFigures, SameView, SameProbe, SamePanel, PendingProbe

\* A failed sample leaves the tools in order: a timer is set or the kind is given up.
LEMMA FailedInOrder ==
    ASSUME NEW w, InOrder(w), NEW how, NEW detailed \in BOOLEAN, how = "unsupported" => w.sel \in Targets
    PROVE  InOrder(SampleFailed(w, how, detailed))
<1> DEFINE fails == IF w.fails < 3 THEN w.fails + 1 ELSE 3
<1>0. w \in ToolRecord /\ fails \in Nat /\ w.every \in BOOLEAN /\ w.later \in BOOLEAN
    BY DEF InOrder, ToolRecord
<1>1. CASE how = "short"
  <2> DEFINE v == Failing(w, 3, FALSE, w.sel \notin w.unsupported)
  <2>1. SampleFailed(w, how, detailed) = v
      BY <1>1 DEF SampleFailed, Failing
  <2>2. v \in ToolRecord /\ ButFigures(w, v) /\ v.later = (w.sel \notin w.unsupported)
      BY <1>0, FailingKeeps
  <2> HIDE DEF v
  <2>3. PollInv(v)
      BY <2>2 DEF PollInv, Wanted, ButFigures, SameView
  <2> QED  BY <2>1, <2>2, <2>3, FiguresInOrder DEF ButFigures
<1>2. CASE how = "unsupported" /\ detailed
  <2> DEFINE v == [w EXCEPT !.coarse = @ \cup {w.sel}, !.fails = 0]
  <2>1. SampleFailed(w, how, detailed) = RequestSample(v)
      BY <1>2 DEF SampleFailed
  <2>2. v \in ToolRecord /\ SameView(w, v) /\ SameProbe(w, v) /\ SamePanel(w, v) /\ SameFigures(w, v)
      BY <1>0, <1>2 DEF ToolRecord, SameView, SameProbe, SamePanel, SameFigures, PendingProbe
  <2> HIDE DEF v
  <2>3. InOrder(v)
      BY <2>2, AskingInOrder
  <2>4. RequestSample(v) \in ToolRecord /\ OnlyAsks(v, RequestSample(v))
      BY <2>2, SampleKeeps
  <2> QED  BY <2>1, <2>3, <2>4, AskingInOrder DEF OnlyAsks
<1>3. CASE how = "unsupported" /\ ~detailed
  <2> DEFINE v == [w EXCEPT !.unsupported = @ \cup {w.sel}, !.every = FALSE, !.later = FALSE]
  <2>1. SampleFailed(w, how, detailed) = v
      BY <1>3 DEF SampleFailed
  <2>2. v \in ToolRecord /\ SameView(w, v) /\ SameProbe(w, v) /\ SamePanel(w, v) /\ v.sel \in v.unsupported
      BY <1>0, <1>3 DEF ToolRecord, SameView, SameProbe, SamePanel, PendingProbe
  <2> HIDE DEF v
  <2>3. PollInv(v)
      BY <2>2 DEF PollInv, Wanted
  <2> QED  BY <2>1, <2>2, <2>3, FiguresInOrder
<1>4. CASE how = "busy"
    BY <1>4 DEF SampleFailed
<1>5. CASE how \notin {"short", "unsupported", "busy"}
  <2> DEFINE v == Failing(w, fails, w.every /\ fails < 3, w.later \/ fails >= 3)
  <2>1. SampleFailed(w, how, detailed) = v
      BY <1>0, <1>5 DEF SampleFailed, Failing, ToolRecord
  <2>2. v \in ToolRecord /\ ButFigures(w, v) /\ v.later = (w.later \/ fails >= 3) /\ v.every = (w.every /\ fails < 3)
      BY <1>0, FailingKeeps
  <2> HIDE DEF v
  <2>3. PollInv(v)
    BY <2>2, ViewDecides, <1>0 DEF Wanted, ButFigures, SameView, InOrder, PollInv
  <2> QED  BY <2>1, <2>2, <2>3, FiguresInOrder DEF ButFigures
<1> QED  BY <1>1, <1>2, <1>3, <1>4, <1>5

\* An answer that was asked for, or a late one, is no longer on its way.
Arrived(r) == IF r \in tool.asked THEN [tool EXCEPT !.asked = @ \ {r}] ELSE [tool EXCEPT !.late = NoTarget]

\* An answer that arrives is no longer waited for; nothing else changes.
LEMMA ArrivedKeeps ==
    ASSUME ToolInv, NEW r
    PROVE  /\ Arrived(r) \in ToolRecord /\ SameView(tool, Arrived(r)) /\ SameFigures(tool, Arrived(r))
           /\ SamePanel(tool, Arrived(r)) /\ Arrived(r).cap = tool.cap /\ Arrived(r).retry = tool.retry
           /\ Arrived(r).prober = tool.prober /\ Arrived(r).asked = tool.asked \ {r}
  BY DEF ToolInv, InOrder, Arrived, ToolRecord, SameView, SameFigures, SamePanel

\* A request of figures or inventory that is over is no concern of the probe.
LEMMA NoProbeIsOver ==
    ASSUME ToolInv, NEW w \in ToolRecord, NEW r, r.tool # "sftp" \/ r \notin tool.asked,
           SameView(tool, w), SameFigures(tool, w), SamePanel(tool, w),
           w.cap = tool.cap, w.retry = tool.retry, w.prober = tool.prober, w.asked = tool.asked \ {r}
    PROVE  InOrder(w)
<1>1. SameProbe(tool, w)
  BY DEF SameProbe, PendingProbe
<1> QED  BY <1>1, AskingInOrder DEF ToolInv

\* The probe of a session that is over.
LEMMA ProbeIsOver ==
    ASSUME NEW w \in ToolRecord, NEW r \in ToolRequest,
           SameView(tool, w), SameFigures(tool, w), SamePanel(tool, w),
           w.cap = tool.cap, w.retry = tool.retry, w.prober = tool.prober, w.asked = tool.asked \ {r}
    PROVE  ProbeOver(w, r.target)
  BY DEF PendingProbe, ProbeOver

\* The answer of the selected session is cached for that session.
LEMMA CachedInOrder ==
    ASSUME NEW w, InOrder(w), NEW r, r.target = w.sel
    PROVE  Cached(w, r) = w
  BY DEF InOrder, CacheInv, Cached, ToolRecord

Answers == {"good", "short", "unsupported", "busy", "failed"}

\* An answer keeps the invariant, early, late or of a session no longer selected.
LEMMA ToolAnswerKeeps ==
    ASSUME NoTarget \notin Targets, ToolInv, NEW r \in tool.asked \cup ({tool.late} \ {NoTarget}), NEW how \in Answers,
           ToolAnswer(r, how)
    PROVE  ToolInv'
<1> DEFINE w == Arrived(r)
<1>0. tool \in ToolRecord /\ r \in ToolRequest /\ r.target \in Targets
    BY DEF ToolInv, InOrder, ToolRecord, ToolRequest
<1>1. /\ w \in ToolRecord /\ SameView(tool, w) /\ SameFigures(tool, w) /\ SamePanel(tool, w)
      /\ w.cap = tool.cap /\ w.retry = tool.retry /\ w.prober = tool.prober /\ w.asked = tool.asked \ {r}
    BY ArrivedKeeps
<1>2. tool' = IF ~OwnAnswer(r) THEN w
              ELSE CASE r.tool = "sftp" -> ProbeAnswer(w, r.target, how)
                     [] r.tool = "inventory" -> IF how = "good" THEN Cached(w, r) ELSE w
                     [] OTHER -> IF how = "good" THEN [Cached(w, r) EXCEPT !.fails = 0]
                                 ELSE SampleFailed(w, how, tool.sel \notin tool.coarse)
    BY DEF ToolAnswer, Arrived
<1> HIDE DEF w
<1>3. r.tool # "sftp" \/ r \notin tool.asked => InOrder(w)
    BY <1>1, NoProbeIsOver
<1>4. CASE ~OwnAnswer(r)
    BY <1>2, <1>3, <1>4 DEF ToolInv, OwnAnswer
<1>5. CASE OwnAnswer(r) /\ r.tool = "sftp"
  <2>1. ProbeOver(w, r.target)
      BY <1>0, <1>1, ProbeIsOver
  <2>2. tool' = ProbeAnswer(w, r.target, how)
      BY <1>2, <1>5
  <2> DEFINE s == r.target
  <2> HIDE DEF s
  <2>3. CASE how \in {"busy", "failed"}
    BY <2>3, <1>0, <2>1, <2>2, RetryInOrder DEF ProbeAnswer, ToolInv
  <2>4. CASE how = "short"
    BY <2>4, <1>0, <2>1, <2>2, RetryInOrder DEF ProbeAnswer, ToolInv
  <2>5. CASE how \notin {"busy", "failed", "short"}
    <3> DEFINE outcome == IF how = "good" THEN "available" ELSE "unavailable"
    <3>1. ProbeAnswer(w, r.target, how) = SyncTools(Settles(w, r.target, outcome))
        BY <2>5 DEF ProbeAnswer, Settles
    <3>2. outcome \in Capabilities
        BY DEF Capabilities
    <3> HIDE DEF outcome
    <3> QED  BY <1>0, <2>1, <2>2, <3>1, <3>2, SettledInOrder DEF ToolInv
  <2> QED  BY <2>3, <2>4, <2>5
<1>6. CASE OwnAnswer(r) /\ r.tool # "sftp"
  <2>1. InOrder(w) /\ r.target = w.sel
      BY <1>1, <1>3, <1>6 DEF OwnAnswer, SameView
  <2>2. Cached(w, r) = w
      BY <2>1, CachedInOrder
  <2>3. CASE r.tool = "inventory"
      BY <1>2, <1>6, <2>1, <2>2, <2>3 DEF ToolInv
  <2>4. CASE r.tool # "inventory" /\ how = "good"
    <3> DEFINE v == [w EXCEPT !.fails = 0]
    <3>1. tool' = v
        BY <1>2, <1>6, <2>2, <2>4
    <3>2. v \in ToolRecord /\ SameView(w, v) /\ SameProbe(w, v) /\ SamePanel(w, v) /\ SameFigures(w, v)
        BY <1>1 DEF ToolRecord, SameView, SameProbe, SamePanel, SameFigures, PendingProbe
    <3> HIDE DEF v
    <3> QED  BY <2>1, <3>1, <3>2, AskingInOrder DEF ToolInv
  <2>5. CASE r.tool # "inventory" /\ how # "good"
    <3> DEFINE d == tool.sel \notin tool.coarse
    <3>1. tool' = SampleFailed(w, how, d)
        BY <1>2, <1>6, <2>5
    <3>2. d \in BOOLEAN /\ w.sel \in Targets
        BY <1>0, <2>1
    <3> HIDE DEF d
    <3> QED  BY <2>1, <3>1, <3>2, FailedInOrder DEF ToolInv
  <2> QED  BY <2>3, <2>4, <2>5
<1> QED  BY <1>4, <1>5, <1>6

\* A request that times out keeps the invariant.
LEMMA TimesOutKeeps ==
    ASSUME NoTarget \notin Targets, ToolInv, NEW r \in tool.asked, TimesOut(r)
    PROVE  ToolInv'
<1> DEFINE w == Abandoned(tool, {r})
<1>0. tool \in ToolRecord /\ r \in ToolRequest /\ r.target \in Targets /\ r.tool \in Tools
    BY DEF ToolInv, InOrder, ToolRecord, ToolRequest
<1>1. /\ w \in ToolRecord /\ SameView(tool, w) /\ SameFigures(tool, w) /\ SamePanel(tool, w)
      /\ w.cap = tool.cap /\ w.retry = tool.retry /\ w.prober = tool.prober /\ w.asked = tool.asked \ {r}
    BY <1>0, AbandonedKeeps
<1>2. tool' = CASE r.tool = "sftp" -> ScheduleRetry(w, r.target, FALSE)
                [] r.tool = "inventory" -> w
                [] OTHER -> SampleFailed(w, "failed", FALSE)
    BY DEF TimesOut
<1> HIDE DEF w
<1>3. r.tool # "sftp" => InOrder(w)
    BY <1>1, NoProbeIsOver
<1>4. CASE r.tool = "sftp"
  BY <1>0, <1>1, ProbeIsOver, <1>2, <1>4, RetryInOrder DEF ToolInv
<1>5. CASE r.tool = "inventory"
    BY <1>2, <1>3, <1>5 DEF ToolInv
<1>6. CASE r.tool \notin {"sftp", "inventory"}
  BY <1>2, <1>3, <1>6, FailedInOrder DEF ToolInv
<1> QED  BY <1>4, <1>5, <1>6

\* A timer of the probe that ran out.
Unscheduled(w, s) == [w EXCEPT !.retry[s] = "none"]

\* A retry that fires is no longer set; the other probes stay.
LEMMA UnscheduledKeeps ==
    ASSUME NEW w \in ToolRecord, NEW s \in Targets
    PROVE  /\ Unscheduled(w, s) \in ToolRecord /\ ButProbe(w, Unscheduled(w, s)) /\ Unscheduled(w, s).prober = w.prober
           /\ Unscheduled(w, s).asked = w.asked
           /\ \A u \in Targets \ {s} : Unscheduled(w, s).retry[u] = w.retry[u]
<1> DEFINE re == [w.retry EXCEPT ![s] = "none"]
<1>1. /\ re \in [Targets -> {"none", "timer", "short"}] /\ Unscheduled(w, s) = [w EXCEPT !.retry = re]
      /\ \A u \in Targets \ {s} : re[u] = w.retry[u]
    BY DEF Unscheduled, ToolRecord
<1> HIDE DEF re
<1>2. Unscheduled(w, s).retry = re
    BY <1>1 DEF ToolRecord
<1>3. /\ Unscheduled(w, s) \in ToolRecord /\ ButProbe(w, Unscheduled(w, s)) /\ Unscheduled(w, s).prober = w.prober
      /\ Unscheduled(w, s).asked = w.asked
    BY <1>1 DEF ToolRecord, ButProbe, SameView, SameFigures, SamePanel
<1> QED  BY <1>1, <1>2, <1>3

\* The retry of a probe keeps the invariant.
LEMMA RetryProbeKeeps ==
    ASSUME NoTarget \notin Targets, ToolInv, NEW s \in Targets, RetryProbe(s)
    PROVE  ToolInv'
<1> DEFINE w == Unscheduled(tool, s)
           v == IF w.prober = s THEN StartProbe(w, s) ELSE w
<1>0. tool \in ToolRecord
    BY DEF ToolInv, InOrder
<1>1. /\ w \in ToolRecord /\ ButProbe(tool, w) /\ w.prober = tool.prober /\ w.asked = tool.asked
      /\ \A u \in Targets \ {s} : w.retry[u] = tool.retry[u]
    BY <1>0, UnscheduledKeeps
<1>2. tool' = v \/ tool' = SyncTools(v)
    BY DEF RetryProbe, Unscheduled
<1> HIDE DEF w
<1>3. /\ v \in ToolRecord /\ ButProbe(tool, v) /\ v.prober = tool.prober
      /\ tool.prober = s /\ tool.cap[s] = "unknown" => PendingProbe(v, s)
      /\ \A u \in Targets : PendingProbe(tool, u) => PendingProbe(v, u)
      /\ \A u \in Targets \ {s} : v.retry[u] = tool.retry[u]
  <2>1. \A u \in Targets : PendingProbe(tool, u) => PendingProbe(w, u)
      BY <1>1 DEF PendingProbe
  <2>2. CASE w.prober = s
    <3> DEFINE z == StartProbe(w, s)
    <3>1. /\ z \in ToolRecord /\ ButProbe(w, z) /\ z.prober = w.prober /\ z.retry = w.retry
          /\ w.cap[s] = "unknown" => PendingProbe(z, s)
          /\ \A u \in Targets : PendingProbe(w, u) => PendingProbe(z, u)
        BY <1>1, StartProbeKeeps
    <3>2. v = z
        BY <2>2
    <3> HIDE DEF z, v
    <3>3. ButProbe(tool, z) /\ w.cap = tool.cap
        BY <1>1, <3>1 DEF ButProbe, SameView, SameFigures, SamePanel
    <3> QED  BY <1>1, <2>1, <3>1, <3>2, <3>3
  <2>3. CASE w.prober # s
      BY <1>1, <2>1, <2>3
  <2> QED  BY <2>2, <2>3
<1> HIDE DEF v
<1>4. InOrder(v)
  <2>1. PanelInv(v) /\ CacheInv(v)
      BY <1>3 DEF ToolInv, InOrder, PanelInv, CacheInv, ButProbe, SameView, SamePanel
  <2>2. ProbeInv(v)
    BY <1>3 DEF ButProbe, SameView, Unsettled, Reachable, ToolRecord, ToolInv, InOrder, ProbeInv
  <2>3. PollInv(v)
    BY <1>3, ViewDecides DEF ButProbe, Wanted, SameView, SameFigures, ToolInv, InOrder, PollInv
  <2> QED  BY <1>3, <2>1, <2>2, <2>3 DEF InOrder
<1>5. InOrder(SyncTools(v))
  BY <1>3, <1>4, SyncInOrder DEF InOrder, FiguresFollow, ButProbe, SameView, SameFigures
<1> QED  BY <1>2, <1>4, <1>5 DEF ToolInv

\* The interval of the figures keeps the invariant.
LEMMA SampleTickKeeps ==
    ASSUME ToolInv, SampleTick
    PROVE  ToolInv'
  BY SampleKeeps, AskingInOrder DEF ToolInv, InOrder, OnlyAsks, SampleTick

\* The retry of the figures keeps the invariant.
LEMMA RetryPollingKeeps ==
    ASSUME ToolInv, RetryPolling
    PROVE  ToolInv'
<1>0. tool \in ToolRecord /\ tool.every \in BOOLEAN
    BY DEF ToolInv, InOrder, ToolRecord
<1>1. CASE Wanted(tool)
  <2> DEFINE v == RequestSample(tool)
             u == Timers(v, TRUE, FALSE)
  <2>1. v \in ToolRecord /\ OnlyAsks(tool, v)
      BY <1>0, SampleKeeps
  <2>2. tool' = u
      BY <1>1 DEF RetryPolling, Wanted, Timers
  <2> HIDE DEF v
  <2>3. u \in ToolRecord /\ ButFigures(v, u) /\ u.every = TRUE
      BY <2>1, TimersKeep
  <2> HIDE DEF u
  <2>4. SameView(tool, u) /\ SameProbe(tool, u) /\ SamePanel(tool, u) /\ PollInv(u)
      BY <2>1, <2>3 DEF OnlyAsks, ButFigures, SameView, SameProbe, SamePanel, PollInv
  <2> QED  BY <2>2, <2>3, <2>4, FiguresInOrder DEF ToolInv
<1>2. CASE ~Wanted(tool)
  <2> DEFINE u == Timers(tool, tool.every, FALSE)
  <2>1. tool' = u
      BY <1>0, <1>2 DEF RetryPolling, Wanted, Timers, ToolRecord
  <2>2. u \in ToolRecord /\ ButFigures(tool, u)
      BY <1>0, TimersKeep
  <2> HIDE DEF u
  <2>3. PollInv(u)
      BY <1>2, <2>2, ViewDecides DEF PollInv, Wanted, ButFigures, SameView
  <2> QED  BY <2>1, <2>2, <2>3, FiguresInOrder DEF ToolInv, ButFigures
<1> QED  BY <1>1, <1>2

\* The tools start in order.
LEMMA ToolStart ==
    ASSUME NoTarget \notin Targets, ToolInit
    PROVE  ToolInv
<1>1. tool \in ToolRecord
    BY DEF ToolInit, ToolRecord, AnyTarget, Contents, Capabilities
<1>2. tool.sel = NoTarget /\ tool.panel = NoTarget /\ tool.prober = NoTarget /\ tool.foreign = FALSE /\ tool.live = Targets
    BY DEF ToolInit
<1> QED  BY <1>1, <1>2 DEF ToolInv, InOrder, PanelInv, CacheInv, ProbeInv, PollInv, Unsettled, Wanted, Reachable

\* Every step keeps the tools in order.
LEMMA ToolStep ==
    ASSUME NoTarget \notin Targets, ToolInv, [ToolNext]_toolVars
    PROVE  ToolInv'
<1>1. CASE UNCHANGED toolVars
    BY <1>1 DEF toolVars, ToolInv
<1>2. CASE ToolNext
  <2>1. ASSUME NEW s \in Targets, SelectTarget(s) PROVE ToolInv'
      BY <2>1, SelectTargetKeeps
  <2>2. ASSUME NEW s \in Targets, RetryProbe(s) PROVE ToolInv'
      BY <2>2, RetryProbeKeeps
  <2>3. ASSUME NEW s \in Targets, NEW n \in Targets \cup {NoTarget}, RemoveTarget(s, n) PROVE ToolInv'
      BY <2>3, RemoveTargetKeeps DEF AnyTarget
  <2>4. ASSUME NEW c \in {"files", "diagnostics", "none"}, SelectContext(c) PROVE ToolInv'
      BY <2>4, SelectContextKeeps DEF Contents
  <2>5. ASSUME NEW on \in BOOLEAN, PageSeen(on) PROVE ToolInv'
      BY <2>5, PageSeenKeeps
  <2>6. ASSUME NEW r \in tool.asked, TimesOut(r) PROVE ToolInv'
      BY <2>6, TimesOutKeeps
  <2>7. ASSUME NEW r \in tool.asked \cup ({tool.late} \ {NoTarget}),
               NEW how \in {"good", "short", "unsupported", "busy", "failed"}, ToolAnswer(r, how)
        PROVE  ToolInv'
      BY <2>7, ToolAnswerKeeps DEF Answers
  <2>8. CASE ToggleSftp
      BY <2>8, ToggleKeeps
  <2>9. CASE RefreshTools
      BY <2>9, RefreshKeeps
  <2>10. CASE SocketDown \/ SocketUp
      BY <2>10, SocketDownKeeps, SocketUpKeeps
  <2>11. CASE SampleTick \/ RetryPolling
      BY <2>11, SampleTickKeeps, RetryPollingKeeps
  <2> QED  BY <1>2, <2>1, <2>2, <2>3, <2>4, <2>5, <2>6, <2>7, <2>8, <2>9, <2>10, <2>11 DEF ToolNext
<1> QED  BY <1>1, <1>2

\* The panels show the selected session, and no tool stops trying without having
\* settled, for any number of sessions (session-workspace.js, session-insights.js).
THEOREM ToolsStayHeld ==
    ASSUME NoTarget \notin Targets
    PROVE  ToolSpec => []ToolsHold
<1>1. ToolInit => ToolInv
    BY ToolStart
<1>2. ToolInv /\ [ToolNext]_toolVars => ToolInv'
    BY ToolStep
<1>3. ToolInv => ToolsHold
    BY DEF ToolInv, InOrder, PanelInv, CacheInv, ProbeInv, PollInv, Unsettled, Wanted,
           ToolsHold, ToolsShowTheirSession, ToolsKeepTrying
<1> QED  BY <1>1, <1>2, <1>3, PTL DEF ToolSpec

----------------------------------------------------------------------------
(* The editor of remote files.                                             *)

EditorSpec == EditorInit /\ [][EditorNext]_editorVars

EditorRecord ==
    [path : Paths \cup {NoPath}, modal : BOOLEAN, view : Paths \cup {NoPath}, editable : BOOLEAN,
     previewId : Nat, editId : Nat, saveId : Nat, editing : BOOLEAN, dirty : BOOLEAN, base : Nat, text : Nat,
     pending : BOOLEAN, saves : SUBSET [id : Nat, text : Nat], lastSaved : Nat, swap : BOOLEAN, seq : Nat]
RequestRecord ==
    [kind : {"preview", "edit", "save"}, id : Nat, path : Paths, text : Nat, rev : Nat, swap : BOOLEAN, orphan : BOOLEAN]
AnswerRecord ==
    [kind : {"preview", "edit", "saved", "failed"}, id : Nat, path : Paths, ok : BOOLEAN, rev : Nat, text : Nat,
     warn : BOOLEAN, swapNeeded : BOOLEAN]
GhostRecord == [kept : Nat, seen : SUBSET Nat, lost : BOOLEAN, blind : BOOLEAN, escaped : BOOLEAN]

Queued(q) == {q[i] : i \in 1 .. Len(q)}
InIdOrder(q) == \A i, j \in 1 .. Len(q) : i < j => q[i].id < q[j].id

EditorTypes ==
    /\ files \in [Paths -> [rev : Nat, text : Nat]] /\ ed \in EditorRecord
    /\ toServer \in Seq(RequestRecord) /\ toEditor \in Seq(AnswerRecord)
    /\ texts \in Nat /\ ghost \in GhostRecord
    /\ ed.modal \/ ed.editing => ed.path \in Paths

\* Answers come in the order of the requests, each of them once.
WireInOrder ==
    /\ InIdOrder(toServer) /\ InIdOrder(toEditor)
    /\ \A a \in Queued(toEditor), b \in Queued(toServer) : a.id < b.id
    /\ \A b \in Queued(toServer) : 0 < b.id /\ b.id <= ed.seq
    /\ \A a \in Queued(toEditor) : 0 < a.id /\ a.id <= ed.seq

\* Texts are older than the last edit.
TextsInv ==
    /\ ed.text <= texts /\ ghost.kept <= texts
    /\ \A p \in Paths : files[p].text <= texts
    /\ \A a \in Queued(toEditor) : a.text <= texts
    /\ \A b \in Queued(toServer) : b.text <= texts

\* The saves of one edit: each is at least as new as those before it, and those that
\* are not answered are at least as new as what is known to be kept.
SavesInv ==
    /\ ed.lastSaved <= ed.seq /\ ed.editId <= ed.seq
    /\ ~ed.editing => ed.saves = {}
    /\ \A s \in ed.saves : s.id <= ed.seq /\ s.text <= ed.text /\ (s.id > ed.lastSaved => ghost.kept <= s.text)
    /\ \A s, u \in ed.saves : s.id < u.id => s.text <= u.text
    /\ ed.editing => ghost.kept <= ed.text

\* Text that is not known to be kept is marked, and behind a hidden dialog only if
\* the dialog was hidden over it.
MarkedInv ==
    /\ Unsaved => ed.dirty
    /\ Unsaved /\ ~ed.modal => ghost.escaped
    /\ ghost.lost => ghost.escaped

\* While a file is edited everything under way is younger than the request that loaded it,
\* and while that request is under way no save is younger than it.
YoungerInv ==
    /\ ed.editing => /\ \A a \in Queued(toEditor) : a.id > ed.editId
                     /\ \A b \in Queued(toServer) : b.id > ed.editId
    /\ \A a, b \in Queued(toServer) : a.id = ed.editId /\ b.kind = "save" => b.id < a.id
    /\ \A a, b \in Queued(toEditor) : a.id = ed.editId /\ b.kind = "saved" => b.id < a.id
    /\ \A a \in Queued(toEditor), b \in Queued(toServer) : a.id = ed.editId => b.kind # "save"

\* The text of a revision the editor was given is one it has loaded or written.
Known(p, r) == r <= files[p].rev /\ (files[p].rev = r => files[p].text \in ghost.seen)
KnownInv ==
    /\ ed.editing => Known(ed.path, ed.base)
    /\ \A b \in Queued(toServer) : ed.editing /\ b.kind = "save" /\ ~b.orphan /\ b.path = ed.path => Known(b.path, b.rev)
    /\ \A a \in Queued(toEditor) : ed.editing /\ a.kind = "saved" /\ a.path = ed.path => Known(a.path, a.rev)
    /\ \A a \in Queued(toEditor) : a.kind = "edit" =>
         a.rev <= files[a.path].rev /\ (files[a.path].rev = a.rev => files[a.path].text = a.text)
    /\ ghost.blind = FALSE

EditorInv == EditorTypes /\ WireInOrder /\ TextsInv /\ SavesInv /\ MarkedInv /\ YoungerInv /\ KnownInv

----------------------------------------------------------------------------
(* Queues.                                                                 *)

\* Every message of a queue is of the queue's type.
LEMMA QueuedTyped ==
    ASSUME NEW S, NEW q \in Seq(S)
    PROVE  \A m \in Queued(q) : m \in S
  BY DEF Queued

\* A message younger than those of a queue keeps it in order.
LEMMA QueuedNext ==
    ASSUME NEW S, NEW q \in Seq(S), NEW m \in S, InIdOrder(q), \A x \in Queued(q) : x.id < m.id
    PROVE  /\ Append(q, m) \in Seq(S) /\ InIdOrder(Append(q, m))
           /\ Queued(Append(q, m)) = Queued(q) \cup {m}
<1> DEFINE z == Append(q, m)
<1>1. /\ z \in Seq(S) /\ Len(z) = Len(q) + 1 /\ Len(q) \in Nat
      /\ \A i \in 1 .. Len(q) : z[i] = q[i]
      /\ z[Len(q) + 1] = m
    OBVIOUS
<1> HIDE DEF z
<1>2. Queued(z) = Queued(q) \cup {m}
  <2>1. ASSUME NEW x \in Queued(z) PROVE x \in Queued(q) \cup {m}
    BY <1>1 DEF Queued
  <2>2. ASSUME NEW x \in Queued(q) \cup {m} PROVE x \in Queued(z)
    BY <1>1 DEF Queued
  <2> QED  BY <2>1, <2>2
<1>3. InIdOrder(z)
  <2> SUFFICES ASSUME NEW i \in 1 .. Len(z), NEW j \in 1 .. Len(z), i < j
               PROVE  z[i].id < z[j].id
      BY DEF InIdOrder
  <2>1. i \in 1 .. Len(q) /\ (j \in 1 .. Len(q) \/ j = Len(q) + 1)
      BY <1>1
  <2>2. q[i] \in Queued(q)
      BY <2>1 DEF Queued
  <2> QED  BY <1>1, <2>1, <2>2 DEF InIdOrder
<1> QED  BY <1>1, <1>2, <1>3 DEF z

\* Without its head a queue is in order, and the head was the oldest.
LEMMA QueuedRest ==
    ASSUME NEW S, NEW q \in Seq(S), q # <<>>, InIdOrder(q)
    PROVE  /\ Tail(q) \in Seq(S) /\ InIdOrder(Tail(q)) /\ Head(q) \in S /\ Head(q) \in Queued(q)
           /\ Queued(Tail(q)) \subseteq Queued(q)
           /\ \A x \in Queued(Tail(q)) : Head(q).id < x.id
           /\ \A x \in Queued(q) : x = Head(q) \/ x \in Queued(Tail(q))
<1> DEFINE z == Tail(q)
<1>1. /\ z \in Seq(S) /\ Len(z) = Len(q) - 1 /\ Len(q) \in Nat /\ Len(q) > 0
      /\ \A i \in 1 .. Len(z) : z[i] = q[i + 1]
      /\ Head(q) = q[1] /\ Head(q) \in S
    OBVIOUS
<1> HIDE DEF z
<1>2. Head(q) \in Queued(q)
    BY <1>1 DEF Queued
<1>3. ASSUME NEW x \in Queued(z) PROVE x \in Queued(q) /\ Head(q).id < x.id
  BY <1>1 DEF Queued, InIdOrder
<1>4. InIdOrder(z)
  BY <1>1 DEF InIdOrder
<1>5. ASSUME NEW x \in Queued(q) PROVE x = Head(q) \/ x \in Queued(z)
  <2>1. PICK i \in 1 .. Len(q) : x = q[i]
      BY DEF Queued
  <2>2. CASE i = 1
      BY <1>1, <2>1, <2>2
  <2>3. CASE i # 1
    <3>1. i - 1 \in 1 .. Len(z) /\ z[i - 1] = q[i]
        BY <1>1, <2>1, <2>3
    <3> QED  BY <2>1, <3>1 DEF Queued
  <2> QED  BY <2>2, <2>3
<1> QED  BY <1>1, <1>2, <1>3, <1>4, <1>5 DEF z

\* Queues of no message and of one message are in order.
LEMMA QueuedFew ==
    /\ Queued(<<>>) = {} /\ InIdOrder(<<>>)
    /\ \A S : <<>> \in Seq(S)
    /\ \A S : \A m \in S : <<m>> \in Seq(S) /\ Queued(<<m>>) = {m} /\ InIdOrder(<<m>>)
  BY DEF Queued, InIdOrder

----------------------------------------------------------------------------
(* Steps of the page.                                                      *)

\* Answers may have been taken from the queue.
Shrinks == /\ toEditor' \in Seq(AnswerRecord) /\ InIdOrder(toEditor')
           /\ Queued(toEditor') \subseteq Queued(toEditor)

\* A step that takes no answer keeps the answers.
LEMMA NotShrunk ==
    ASSUME EditorInv, toEditor' = toEditor
    PROVE  Shrinks
  BY DEF EditorInv, EditorTypes, WireInOrder, Shrinks

\* A request has the fields it was made of.
LEMMA RequestTyped ==
    ASSUME NEW k \in {"preview", "edit", "save"}, NEW n \in Nat, NEW p \in Paths
    PROVE  /\ FileRequest(k, n, p) \in RequestRecord /\ FileRequest(k, n, p).id = n /\ FileRequest(k, n, p).kind = k
           /\ FileRequest(k, n, p).path = p /\ FileRequest(k, n, p).text = 0
  BY DEF FileRequest, RequestRecord

\* The messages on the wire are requests and answers.
LEMMA WireTyped ==
    ASSUME EditorTypes
    PROVE  /\ \A b \in Queued(toServer) : b \in RequestRecord
           /\ \A a \in Queued(toEditor) : a \in AnswerRecord
  BY QueuedTyped DEF EditorTypes

\* A request that is sent is the youngest.
Sends(m) == toServer' = Append(toServer, m) /\ ed'.seq = ed.seq + 1 /\ m \in RequestRecord /\ m.id = ed.seq + 1
            /\ UNCHANGED <<files, texts>> /\ Shrinks

\* A request with a new id keeps both queues in order.
LEMMA SendsKeeps ==
    ASSUME EditorInv, NEW m, Sends(m)
    PROVE  /\ toServer' \in Seq(RequestRecord) /\ WireInOrder'
           /\ Queued(toServer') = Queued(toServer) \cup {m}
           /\ \A a \in Queued(toEditor) : a.id < m.id /\ a.id # 0
           /\ \A b \in Queued(toServer) : b.id < m.id /\ b.id # 0
           /\ m.id # 0
<1>1. /\ toServer \in Seq(RequestRecord) /\ toEditor \in Seq(AnswerRecord) /\ ed.seq \in Nat
    BY DEF EditorInv, EditorTypes, EditorRecord
<1>2. \A b \in Queued(toServer) : b.id \in Nat
    BY WireTyped DEF EditorInv, RequestRecord
<1>3. \A a \in Queued(toEditor) : a.id \in Nat
    BY WireTyped DEF EditorInv, AnswerRecord
<1>4. m.id \in Nat /\ m.id = ed.seq + 1
    BY <1>1 DEF Sends
<1>5. /\ \A a \in Queued(toEditor) : a.id < m.id /\ a.id # 0
      /\ \A b \in Queued(toServer) : b.id < m.id /\ b.id # 0
    BY <1>1, <1>2, <1>3, <1>4 DEF EditorInv, WireInOrder
<1>6. /\ Append(toServer, m) \in Seq(RequestRecord) /\ InIdOrder(Append(toServer, m))
      /\ Queued(Append(toServer, m)) = Queued(toServer) \cup {m}
    BY <1>1, <1>5, QueuedNext DEF EditorInv, WireInOrder, Sends
<1>7. toServer' = Append(toServer, m) /\ Queued(toEditor') \subseteq Queued(toEditor) /\ InIdOrder(toEditor') /\ ed'.seq = m.id
    BY <1>4 DEF Sends, Shrinks
<1>8. WireInOrder'
    BY <1>1, <1>2, <1>3, <1>4, <1>5, <1>6, <1>7 DEF EditorInv, WireInOrder
<1> QED  BY <1>1, <1>4, <1>5, <1>6, <1>7, <1>8

\* A request other than a save: nothing of the editor but its identifiers changes.
LEMMA SentTexts ==
    ASSUME EditorInv, NEW m, Sends(m), m.text <= texts, ed'.text = ed.text, ghost'.kept = ghost.kept
    PROVE  TextsInv'
  BY SendsKeeps DEF Sends, Shrinks, EditorInv, TextsInv

\* The ghost variable when the text leaves the editor.
LEMMA LeavesIs ==
    ASSUME EditorInv, NEW asked \in BOOLEAN, Leaves(asked), Unsaved => asked \/ ghost.escaped
    PROVE  /\ ghost' \in GhostRecord /\ ghost'.kept = ghost.kept /\ ghost'.seen = ghost.seen
           /\ ghost'.blind = ghost.blind /\ ghost'.escaped = ghost.escaped
           /\ ghost'.lost => ghost'.escaped
<1>1. ghost \in GhostRecord /\ (ghost.lost => ghost.escaped)
    BY DEF EditorInv, EditorTypes, MarkedInv
<1> DEFINE l == ghost.lost \/ (Unsaved /\ ~asked)
<1>2. ghost' = [ghost EXCEPT !.lost = l]
    BY <1>1 DEF Leaves, GhostRecord
<1>3. l \in BOOLEAN /\ (l => ghost.escaped)
    BY <1>1 DEF GhostRecord
<1> HIDE DEF l
<1> QED  BY <1>1, <1>2, <1>3 DEF GhostRecord

\* open and refresh.
LEMMA OpenedKeeps ==
    ASSUME EditorInv, NEW p \in Paths, Opened(p), Leaves(FALSE), Unsaved => ghost.escaped,
           UNCHANGED <<files, toEditor, texts>>
    PROVE  EditorInv'
<1> DEFINE m == FileRequest("preview", ed.seq + 1, p)
<1>0. ed \in EditorRecord /\ ed.seq + 1 \in Nat /\ texts \in Nat
    BY DEF EditorInv, EditorTypes, EditorRecord
<1>1. /\ ed' \in EditorRecord /\ ed'.path = p /\ ed'.editing = FALSE /\ ed'.editId = 0 /\ ed'.saves = {}
      /\ ed'.seq = ed.seq + 1 /\ ed'.text = ed.text /\ ed'.lastSaved = ed.lastSaved
    BY <1>0 DEF Opened, EditorRecord
<1>2. Sends(m) /\ m.kind = "preview" /\ m.text <= texts
    BY <1>0, <1>1, RequestTyped, NotShrunk DEF Opened, Sends
<1>g. /\ ghost' \in GhostRecord /\ ghost'.kept = ghost.kept /\ ghost'.seen = ghost.seen
      /\ ghost'.blind = ghost.blind /\ ghost'.escaped = ghost.escaped /\ (ghost'.lost => ghost'.escaped)
    BY LeavesIs
<1> HIDE DEF m
<1>3. /\ toServer' \in Seq(RequestRecord) /\ WireInOrder' /\ Queued(toServer') = Queued(toServer) \cup {m}
      /\ \A a \in Queued(toEditor) : a.id < m.id /\ a.id # 0
      /\ \A b \in Queued(toServer) : b.id < m.id /\ b.id # 0
      /\ m.id # 0
    BY <1>2, SendsKeeps
<1>4. EditorTypes'
    BY <1>1, <1>3, <1>g DEF EditorInv, EditorTypes
<1>5. TextsInv'
    BY <1>1, <1>2, <1>g, SentTexts
<1>6. SavesInv' /\ MarkedInv'
    BY <1>0, <1>1, <1>g DEF EditorInv, SavesInv, MarkedInv, Unsaved, EditorRecord
<1>7. YoungerInv'
    BY <1>1, <1>3 DEF YoungerInv
<1>8. KnownInv'
    BY <1>1, <1>2, <1>3, <1>g DEF EditorInv, KnownInv
<1> QED  BY <1>3, <1>4, <1>5, <1>6, <1>7, <1>8 DEF EditorInv

\* Opening a file keeps the invariant.
LEMMA OpenFileKeeps ==
    ASSUME EditorInv, NEW p \in Paths, OpenFile(p)
    PROVE  EditorInv'
  BY OpenedKeeps DEF OpenFile, EditorInv, MarkedInv

\* Reading the file again keeps the invariant.
LEMMA RefreshFileKeeps ==
    ASSUME EditorInv, RefreshFile
    PROVE  EditorInv'
  BY OpenedKeeps DEF RefreshFile, Unsaved, EditorInv, EditorTypes

\* Asking for the text to edit keeps the invariant.
LEMMA EnterEditModeKeeps ==
    ASSUME EditorInv, EnterEditMode
    PROVE  EditorInv'
<1> DEFINE m == FileRequest("edit", ed.seq + 1, ed.path)
<1>0. ed \in EditorRecord /\ ed.seq + 1 \in Nat /\ texts \in Nat /\ ed.path \in Paths /\ ed.editing = FALSE
    BY DEF EditorInv, EditorTypes, EditorRecord, EnterEditMode
<1>1. /\ ed' \in EditorRecord /\ ed'.path = ed.path /\ ed'.editing = FALSE /\ ed'.editId = ed.seq + 1 /\ ed'.saves = ed.saves
      /\ ed'.seq = ed.seq + 1 /\ ed'.text = ed.text /\ ed'.lastSaved = ed.lastSaved
    BY <1>0 DEF EnterEditMode, EditorRecord
<1>2. Sends(m) /\ m.kind = "edit" /\ m.text <= texts /\ m.id = ed.seq + 1
    BY <1>0, <1>1, RequestTyped, NotShrunk DEF EnterEditMode, Sends
<1>g. ghost' = ghost /\ toEditor' = toEditor /\ files' = files
    BY DEF EnterEditMode
<1> HIDE DEF m
<1>3. /\ toServer' \in Seq(RequestRecord) /\ WireInOrder' /\ Queued(toServer') = Queued(toServer) \cup {m}
      /\ \A a \in Queued(toEditor) : a.id < m.id /\ a.id # 0
      /\ \A b \in Queued(toServer) : b.id < m.id /\ b.id # 0
      /\ m.id # 0
    BY <1>2, SendsKeeps
<1>4. EditorTypes'
    BY <1>0, <1>1, <1>3 DEF EnterEditMode, EditorInv, EditorTypes
<1>5. TextsInv'
    BY <1>1, <1>2, <1>g, SentTexts
<1>6. SavesInv' /\ MarkedInv'
  BY <1>0, <1>1, <1>g DEF EditorInv, SavesInv, EditorRecord, MarkedInv, Unsaved
<1>7. YoungerInv'
  BY <1>1, <1>2, <1>3, WireTyped, <1>0, <1>g DEF EditorInv, AnswerRecord, RequestRecord, YoungerInv
<1>8. KnownInv'
    BY <1>1, <1>2, <1>3, <1>g DEF EditorInv, KnownInv
<1> QED  BY <1>3, <1>4, <1>5, <1>6, <1>7, <1>8 DEF EditorInv

\* Typing keeps the invariant: the text is newer than every one sent.
LEMMA EditTextKeeps ==
    ASSUME EditorInv, EditText
    PROVE  EditorInv'
<1>0. ed \in EditorRecord /\ texts \in Nat /\ ed.editing = TRUE /\ ed.modal = TRUE /\ ghost \in GhostRecord
    BY DEF EditorInv, EditorTypes, EditorRecord, EditText
<1>1. /\ ed' \in EditorRecord /\ ed'.path = ed.path /\ ed'.editing = ed.editing /\ ed'.editId = ed.editId /\ ed'.saves = ed.saves
      /\ ed'.seq = ed.seq /\ ed'.text = texts + 1 /\ ed'.lastSaved = ed.lastSaved /\ ed'.dirty = TRUE /\ ed'.modal = ed.modal
      /\ ed'.base = ed.base /\ texts' = texts + 1
  <2> DEFINE t == texts + 1
  <2>1. t \in Nat /\ ed' = [ed EXCEPT !.text = t, !.dirty = TRUE] /\ texts' = t
      BY <1>0 DEF EditText
  <2> HIDE DEF t
  <2>2. /\ ed' \in EditorRecord /\ ed'.path = ed.path /\ ed'.editing = ed.editing /\ ed'.editId = ed.editId /\ ed'.saves = ed.saves
        /\ ed'.seq = ed.seq /\ ed'.text = t /\ ed'.lastSaved = ed.lastSaved /\ ed'.dirty = TRUE /\ ed'.modal = ed.modal
        /\ ed'.base = ed.base
      BY <1>0, <2>1 DEF EditorRecord
  <2> QED  BY <2>1, <2>2 DEF t
<1>g. UNCHANGED <<files, toServer, toEditor, ghost>>
    BY DEF EditText
<1>4. EditorTypes'
    BY <1>0, <1>1, <1>g DEF EditorInv, EditorTypes
<1>5. TextsInv'
  <2>1. /\ \A a \in Queued(toEditor) : a.text \in Nat
        /\ \A b \in Queued(toServer) : b.text \in Nat
        /\ \A p \in Paths : files[p].text \in Nat
        /\ ghost.kept \in Nat
      BY <1>0, WireTyped DEF EditorInv, EditorTypes, AnswerRecord, RequestRecord, GhostRecord
  <2> QED  BY <1>0, <1>1, <1>g, <2>1 DEF EditorInv, TextsInv
<1>6. SavesInv'
  BY <1>0, <1>1, <1>g DEF EditorRecord, GhostRecord, EditorInv, SavesInv, TextsInv
<1>7. MarkedInv'
    BY <1>0, <1>1, <1>g DEF EditorInv, MarkedInv
<1>8. WireInOrder' /\ YoungerInv' /\ KnownInv'
    BY <1>1, <1>g DEF EditorInv, WireInOrder, YoungerInv, KnownInv, Known
<1> QED  BY <1>4, <1>5, <1>6, <1>7, <1>8 DEF EditorInv

----------------------------------------------------------------------------
(* Steps that send nothing.                                                *)

QuietStep == UNCHANGED <<files, toServer, texts>> /\ ed'.seq = ed.seq /\ Shrinks

\* A step that sends nothing keeps the queues in order.
LEMMA QuietWire ==
    ASSUME EditorInv, QuietStep
    PROVE  WireInOrder'
  BY DEF EditorInv, QuietStep, Shrinks, WireInOrder

\* A step that sends nothing keeps every text on its way known.
LEMMA QuietTexts ==
    ASSUME EditorInv, QuietStep, ed'.text <= texts, ghost'.kept <= texts
    PROVE  TextsInv'
  BY DEF EditorInv, QuietStep, Shrinks, TextsInv

\* A step that sends nothing leaves the messages of the edit younger than it.
LEMMA QuietYounger ==
    ASSUME EditorInv, QuietStep, ed'.editing => ed.editing, ed'.editId = ed.editId \/ (ed'.editId = 0 /\ ~ed'.editing)
    PROVE  YoungerInv'
  BY WireTyped DEF EditorInv, RequestRecord, AnswerRecord, WireInOrder, QuietStep, Shrinks,
     YoungerInv

\* A step that sends nothing leaves the revision the editor holds known.
LEMMA QuietKnown ==
    ASSUME EditorInv, QuietStep, ed'.editing => ed.editing /\ ed'.path = ed.path /\ ed'.base = ed.base,
           ghost'.seen = ghost.seen, ghost'.blind = ghost.blind
    PROVE  KnownInv'
  BY DEF EditorInv, QuietStep, Shrinks, KnownInv, Known

\* Leaving the preview with Escape keeps the invariant; unsaved text is marked as escaped.
LEMMA EscapeKeeps ==
    ASSUME EditorInv, EscapePreview
    PROVE  EditorInv'
<1>0. ed \in EditorRecord /\ ghost \in GhostRecord
    BY DEF EditorInv, EditorTypes
<1>1. /\ ed' \in EditorRecord /\ ed'.path = ed.path /\ ed'.editing = ed.editing /\ ed'.editId = ed.editId /\ ed'.saves = ed.saves
      /\ ed'.seq = ed.seq /\ ed'.text = ed.text /\ ed'.lastSaved = ed.lastSaved /\ ed'.dirty = ed.dirty
      /\ ed'.base = ed.base /\ ed'.modal = FALSE
    BY <1>0 DEF EscapePreview, EditorRecord
<1>2. /\ ghost' \in GhostRecord /\ ghost'.kept = ghost.kept /\ ghost'.seen = ghost.seen /\ ghost'.blind = ghost.blind
      /\ ghost'.lost = ghost.lost /\ (ghost'.escaped <=> ghost.escaped \/ Unsaved)
  <2> DEFINE x == ghost.escaped \/ Unsaved
  <2>1. x \in BOOLEAN /\ ghost' = [ghost EXCEPT !.escaped = x]
      BY <1>0 DEF EscapePreview, GhostRecord
  <2> HIDE DEF x
  <2>2. /\ ghost' \in GhostRecord /\ ghost'.kept = ghost.kept /\ ghost'.seen = ghost.seen /\ ghost'.blind = ghost.blind
        /\ ghost'.lost = ghost.lost /\ ghost'.escaped = x
      BY <1>0, <2>1 DEF GhostRecord
  <2> QED  BY <2>2 DEF x
<1>3. QuietStep
    BY <1>1, NotShrunk DEF EscapePreview, QuietStep
<1>4. EditorTypes'
    BY <1>1, <1>2, <1>3 DEF EditorInv, EditorTypes, QuietStep, Shrinks
<1>5. WireInOrder' /\ TextsInv'
    BY <1>1, <1>2, <1>3, QuietWire, QuietTexts DEF EditorInv, TextsInv
<1>6. YoungerInv' /\ KnownInv'
    BY <1>1, <1>2, <1>3, QuietYounger, QuietKnown
<1>7. SavesInv'
    BY <1>1, <1>2 DEF EditorInv, SavesInv
<1>8. MarkedInv'
    BY <1>1, <1>2 DEF EditorInv, MarkedInv, Unsaved
<1> QED  BY <1>4, <1>5, <1>6, <1>7, <1>8 DEF EditorInv

\* The editor leaves the edit, with the user's agreement where text is marked.
LEMMA LeavesEdit ==
    ASSUME EditorInv, Leaves(ed.dirty), UNCHANGED <<files, toServer, toEditor, texts>>,
           ed' \in EditorRecord, ed'.editing = FALSE, ed'.saves = {}, ed'.seq = ed.seq, ed'.text <= texts,
           ed'.lastSaved = ed.lastSaved, ed'.editId \in {0, ed.editId}, ed'.modal => ed'.path = ed.path /\ ed.modal
    PROVE  EditorInv'
<1>0. ed \in EditorRecord /\ ghost \in GhostRecord /\ ed.dirty \in BOOLEAN /\ (Unsaved => ed.dirty)
    BY DEF EditorInv, EditorTypes, EditorRecord, MarkedInv
<1>g. /\ ghost' \in GhostRecord /\ ghost'.kept = ghost.kept /\ ghost'.seen = ghost.seen
      /\ ghost'.blind = ghost.blind /\ ghost'.escaped = ghost.escaped /\ (ghost'.lost => ghost'.escaped)
    BY <1>0, LeavesIs
<1>3. QuietStep
    BY NotShrunk DEF QuietStep
<1>4. EditorTypes'
    BY <1>g DEF EditorInv, EditorTypes
<1>5. WireInOrder' /\ TextsInv'
    BY <1>g, <1>3, QuietWire, QuietTexts DEF EditorInv, TextsInv
<1>6. YoungerInv' /\ KnownInv'
    BY <1>g, <1>3, QuietYounger, QuietKnown
<1>7. SavesInv' /\ MarkedInv'
  BY <1>0, <1>g DEF EditorInv, SavesInv, EditorRecord, MarkedInv, Unsaved
<1> QED  BY <1>4, <1>5, <1>6, <1>7 DEF EditorInv

\* clearPendingSave and exitEditMode.
LEMMA ClearedIs ==
    ASSUME NEW e \in EditorRecord
    PROVE  /\ Cleared(e) \in EditorRecord /\ Cleared(e).saves \subseteq e.saves
           /\ Cleared(e).path = e.path /\ Cleared(e).modal = e.modal /\ Cleared(e).editing = e.editing
           /\ Cleared(e).editId = e.editId /\ Cleared(e).dirty = e.dirty /\ Cleared(e).base = e.base
           /\ Cleared(e).text = e.text /\ Cleared(e).lastSaved = e.lastSaved /\ Cleared(e).seq = e.seq
<1> DEFINE some == {s \in e.saves : s.id # e.saveId}
<1>1. some \subseteq e.saves /\ some \in SUBSET [id : Nat, text : Nat]
    BY DEF EditorRecord
<1>2. Cleared(e) = [e EXCEPT !.saves = some, !.pending = FALSE, !.saveId = 0]
    BY DEF Cleared, EditorRecord
<1> HIDE DEF some
<1>3. Cleared(e) \in EditorRecord /\ Cleared(e).saves = some
  <2>1. [e EXCEPT !.saves = some, !.pending = FALSE, !.saveId = 0] \in EditorRecord
      BY <1>1 DEF EditorRecord
  <2>2. [e EXCEPT !.saves = some, !.pending = FALSE, !.saveId = 0].saves = some
      BY DEF EditorRecord
  <2> QED  BY <1>2, <2>1, <2>2
<1>4. /\ Cleared(e).path = e.path /\ Cleared(e).modal = e.modal /\ Cleared(e).editing = e.editing
      /\ Cleared(e).editId = e.editId /\ Cleared(e).dirty = e.dirty /\ Cleared(e).base = e.base
      /\ Cleared(e).text = e.text /\ Cleared(e).lastSaved = e.lastSaved /\ Cleared(e).seq = e.seq
    BY <1>2 DEF EditorRecord
<1> QED  BY <1>1, <1>3, <1>4

\* Leaving the editor forgets the saves and the edit.
LEMMA ExitedIs ==
    ASSUME NEW e \in EditorRecord
    PROVE  /\ Exited(e) \in EditorRecord /\ Exited(e).saves = {} /\ Exited(e).editing = FALSE
           /\ Exited(e).path = e.path /\ Exited(e).modal = e.modal /\ Exited(e).editId = e.editId
           /\ Exited(e).text = e.text /\ Exited(e).lastSaved = e.lastSaved /\ Exited(e).seq = e.seq
<1> DEFINE c == Cleared(e)
<1>1. /\ c \in EditorRecord /\ c.path = e.path /\ c.modal = e.modal /\ c.editId = e.editId
      /\ c.text = e.text /\ c.lastSaved = e.lastSaved /\ c.seq = e.seq
    BY ClearedIs
<1>2. Exited(e) = [c EXCEPT !.saves = {}, !.editing = FALSE, !.dirty = FALSE, !.base = 0]
    BY DEF Exited
<1> DEFINE x == [c EXCEPT !.saves = {}, !.editing = FALSE, !.dirty = FALSE, !.base = 0]
<1> HIDE DEF c
<1>3. x \in EditorRecord
    BY <1>1 DEF EditorRecord
<1>4. x.saves = {} /\ x.editing = FALSE
    BY <1>1 DEF EditorRecord
<1>5. x.path = c.path /\ x.modal = c.modal /\ x.editId = c.editId /\ x.text = c.text /\ x.lastSaved = c.lastSaved /\ x.seq = c.seq
    BY <1>1 DEF EditorRecord
<1>6. Exited(e) = x
    BY <1>2
<1> HIDE DEF x
<1> QED  BY <1>1, <1>3, <1>4, <1>5, <1>6

\* Cancelling the edit keeps the invariant.
LEMMA CancelEditKeeps ==
    ASSUME EditorInv, CancelEdit
    PROVE  EditorInv'
  BY ExitedIs, LeavesEdit DEF EditorInv, EditorTypes, TextsInv, CancelEdit

\* Closing the preview keeps the invariant.
LEMMA ClosePreviewKeeps ==
    ASSUME EditorInv, ClosePreview
    PROVE  EditorInv'
<1>1. ed \in EditorRecord /\ texts \in Nat
    BY DEF EditorInv, EditorTypes
<1>2. /\ ed' \in EditorRecord /\ ed'.editing = FALSE /\ ed'.saves = {} /\ ed'.seq = ed.seq /\ ed'.text = 0
      /\ ed'.lastSaved = ed.lastSaved /\ ed'.editId = 0 /\ ed'.modal = FALSE
    BY <1>1 DEF ClosePreview, Closed, EditorRecord
<1>3. Leaves(ed.dirty) /\ UNCHANGED <<files, toServer, toEditor, texts>>
    BY DEF ClosePreview
<1>4. ed'.text <= texts /\ ed'.editId \in {0, ed.editId}
    BY <1>1, <1>2
<1> QED  BY <1>2, <1>3, <1>4, LeavesEdit

\* interruptSave keeps the identities of the saves.
LEMMA InterruptedIs ==
    ASSUME NEW e \in EditorRecord
    PROVE  /\ Interrupted(e) \in EditorRecord /\ Interrupted(e).saves = e.saves
           /\ Interrupted(e).path = e.path /\ Interrupted(e).modal = e.modal /\ Interrupted(e).editing = e.editing
           /\ Interrupted(e).editId = e.editId /\ Interrupted(e).base = e.base
           /\ Interrupted(e).text = e.text /\ Interrupted(e).lastSaved = e.lastSaved /\ Interrupted(e).seq = e.seq
           /\ Interrupted(e).dirty = e.dirty \/ Interrupted(e).dirty = e.editing
<1>1. CASE ~e.pending
    BY <1>1 DEF Interrupted
<1>2. CASE e.pending
  <2> DEFINE d == e.editing
  <2>1. Interrupted(e) = [e EXCEPT !.pending = FALSE, !.saveId = 0, !.dirty = d] /\ d \in BOOLEAN
      BY <1>2 DEF Interrupted, EditorRecord
  <2>2. d = e.editing
      OBVIOUS
  <2> HIDE DEF d
  <2>3. Interrupted(e) \in EditorRecord /\ Interrupted(e).dirty = d
    <3>1. [e EXCEPT !.pending = FALSE, !.saveId = 0, !.dirty = d] \in EditorRecord
        BY <2>1 DEF EditorRecord
    <3>2. [e EXCEPT !.pending = FALSE, !.saveId = 0, !.dirty = d].dirty = d
        BY DEF EditorRecord
    <3> QED  BY <2>1, <3>1, <3>2
  <2>4. /\ Interrupted(e).path = e.path /\ Interrupted(e).modal = e.modal /\ Interrupted(e).editing = e.editing
        /\ Interrupted(e).editId = e.editId /\ Interrupted(e).base = e.base /\ Interrupted(e).saves = e.saves
        /\ Interrupted(e).text = e.text /\ Interrupted(e).lastSaved = e.lastSaved /\ Interrupted(e).seq = e.seq
      BY <2>1 DEF EditorRecord
  <2> QED  BY <2>2, <2>3, <2>4
<1> QED  BY <1>1, <1>2

\* The edit goes on with the same text.
EditStays ==
    /\ ed' \in EditorRecord /\ ed'.saves \subseteq ed.saves
    /\ ed'.path = ed.path /\ ed'.modal = ed.modal /\ ed'.editing = ed.editing
    /\ ed'.editId = ed.editId /\ ed'.base = ed.base /\ ed'.text = ed.text /\ ed'.lastSaved = ed.lastSaved
    /\ ed'.dirty = ed.dirty \/ ed'.dirty = ed.editing

\* A step that leaves the edit as it is keeps the invariant.
LEMMA StaysKeeps ==
    ASSUME EditorInv, QuietStep, EditStays, ghost' = ghost
    PROVE  EditorInv'
  BY QuietWire, QuietTexts, QuietYounger, QuietKnown DEF EditorInv, EditorTypes, QuietStep,
     Shrinks, EditStays, TextsInv, SavesInv, MarkedInv, Unsaved

\* A save that times out keeps the invariant: its text stays unsaved.
LEMMA SaveTimesOutKeeps ==
    ASSUME EditorInv, SaveTimesOut
    PROVE  EditorInv'
  BY InterruptedIs, NotShrunk, StaysKeeps DEF EditorInv, EditorTypes, SaveTimesOut, EditStays,
     QuietStep

\* saveEdit adds a save that is younger than all others and holds the text of the editor.
LEMMA SavingKeeps ==
    ASSUME EditorInv, NEW e \in EditorRecord, NEW swap \in BOOLEAN, Saving(e, swap), Shrinks,
           UNCHANGED <<files, texts, ghost>>, ed.editing, e.editing, e.saves \subseteq ed.saves, e.path = ed.path,
           e.modal = ed.modal, e.editId = ed.editId, e.base = ed.base, e.text = ed.text,
           e.lastSaved = ed.lastSaved, e.dirty = ed.dirty, e.seq = ed.seq
    PROVE  EditorInv'
<1> DEFINE n == ed.seq + 1
           new == [id |-> n, text |-> ed.text]
           all == e.saves \cup {new}
           r == FileRequest("save", n, ed.path)
           m == [r EXCEPT !.text = ed.text, !.rev = ed.base, !.swap = swap]
<1>0. /\ ed \in EditorRecord /\ n \in Nat /\ ed.path \in Paths /\ ed.text \in Nat /\ ed.base \in Nat /\ texts \in Nat
      /\ ed.editing = TRUE /\ ed.seq \in Nat /\ ghost.kept \in Nat /\ ed.lastSaved \in Nat
  <2>1. ed \in EditorRecord /\ ghost \in GhostRecord /\ ed.path \in Paths /\ texts \in Nat
      BY DEF EditorInv, EditorTypes
  <2> QED  BY <2>1 DEF EditorRecord, GhostRecord
<1>1. r \in RequestRecord /\ r.id = n /\ r.kind = "save" /\ r.path = ed.path
    BY <1>0, RequestTyped
<1>2. /\ m \in RequestRecord /\ m.id = n /\ m.kind = "save" /\ m.path = ed.path /\ m.text = ed.text /\ m.rev = ed.base
  <2> HIDE DEF r, n
  <2> QED  BY <1>0, <1>1 DEF RequestRecord
<1>3. new \in [id : Nat, text : Nat] /\ new.id = n /\ new.text = ed.text
    BY <1>0
<1>4. all \in SUBSET [id : Nat, text : Nat]
    BY <1>3 DEF EditorRecord
<1>5. /\ ed' = [e EXCEPT !.seq = n, !.saveId = n, !.pending = TRUE, !.saves = all]
      /\ toServer' = Append(toServer, m)
    BY DEF Saving, EditorRecord
<1> HIDE DEF new, all, m, r
<1>6. /\ ed' \in EditorRecord /\ ed'.saves = all /\ ed'.seq = n
  <2> HIDE DEF n
  <2>1. [e EXCEPT !.seq = n, !.saveId = n, !.pending = TRUE, !.saves = all] \in EditorRecord
      BY <1>0, <1>4 DEF EditorRecord
  <2> QED  BY <1>0, <1>5, <2>1 DEF EditorRecord
<1>7. /\ ed'.path = ed.path /\ ed'.modal = ed.modal /\ ed'.editing = TRUE /\ ed'.editId = ed.editId /\ ed'.base = ed.base
      /\ ed'.text = ed.text /\ ed'.lastSaved = ed.lastSaved /\ ed'.dirty = ed.dirty
    BY <1>0, <1>5 DEF EditorRecord
<1>8. Sends(m)
    BY <1>2, <1>5, <1>6 DEF Sends
<1>9. /\ toServer' \in Seq(RequestRecord) /\ WireInOrder' /\ Queued(toServer') = Queued(toServer) \cup {m}
      /\ \A a \in Queued(toEditor) : a.id < m.id /\ a.id # 0
      /\ \A b \in Queued(toServer) : b.id < m.id /\ b.id # 0
    BY <1>8, SendsKeeps
<1>10. EditorTypes'
    BY <1>0, <1>6, <1>7, <1>9 DEF EditorInv, EditorTypes, Shrinks
<1>11. TextsInv'
  <2>1. m.text <= texts
      BY <1>2 DEF EditorInv, TextsInv
  <2> QED  BY <1>7, <1>8, <2>1, SentTexts
<1>12. SavesInv'
  <2>1. \A s \in all : s \in ed.saves \/ s = new
      BY DEF all
  <2>2. \A s \in ed.saves : s.id \in Nat /\ s.text \in Nat /\ s.id <= ed.seq /\ s.text <= ed.text
      BY <1>0 DEF EditorInv, SavesInv, EditorRecord
  <2>3. ed.lastSaved <= ed.seq /\ ghost.kept <= ed.text
      BY <1>0 DEF EditorInv, SavesInv
  <2>4. \A s \in all : s.id <= n /\ s.text <= ed.text /\ (s.id > ed.lastSaved => ghost.kept <= s.text)
    BY <1>0, <1>3, <2>3, <2>2, <2>1 DEF EditorInv, SavesInv
  <2>5. \A s, u \in all : s.id < u.id => s.text <= u.text
    <3> SUFFICES ASSUME NEW s \in all, NEW u \in all, s.id < u.id
                 PROVE  s.text <= u.text
        OBVIOUS
    <3>1. CASE s \in ed.saves /\ u \in ed.saves
        BY <3>1 DEF EditorInv, SavesInv
    <3>2. CASE s \in ed.saves /\ u = new
        BY <1>3, <2>2, <3>2
    <3>3. CASE s = new
      <4>1. n < u.id
          BY <1>3, <3>3
      <4> QED  BY <1>0, <1>3, <2>1, <2>2, <4>1
    <3> QED  BY <2>1, <3>1, <3>2, <3>3
  <2>6. ed.lastSaved <= n /\ ed.editId <= n
      BY <1>0, <2>3 DEF EditorInv, SavesInv, EditorRecord
  <2> QED  BY <1>6, <1>7, <2>3, <2>4, <2>5, <2>6 DEF SavesInv
<1>13. MarkedInv'
    BY <1>0, <1>7 DEF EditorInv, MarkedInv, Unsaved
<1>14. YoungerInv'
  BY <1>0, <1>2, <1>9, WireTyped, <1>7 DEF EditorInv, SavesInv, EditorRecord, Shrinks, YoungerInv,
     RequestRecord, AnswerRecord
<1>15. KnownInv'
    BY <1>0, <1>2, <1>7, <1>9 DEF EditorInv, KnownInv, Known, Shrinks
<1> QED  BY <1>9, <1>10, <1>11, <1>12, <1>13, <1>14, <1>15 DEF EditorInv

\* Saving keeps the invariant.
LEMMA SaveEditKeeps ==
    ASSUME EditorInv, SaveEdit
    PROVE  EditorInv'
  BY NotShrunk, SavingKeeps DEF EditorInv, EditorTypes, EditorRecord, SaveEdit

----------------------------------------------------------------------------
(* Answers.                                                                *)

\* The first answer is taken from the queue.
LEMMA FirstAnswer ==
    ASSUME EditorInv, toEditor # <<>>, toEditor' = Tail(toEditor)
    PROVE  /\ Shrinks /\ Head(toEditor) \in AnswerRecord /\ Head(toEditor) \in Queued(toEditor)
           /\ \A a \in Queued(toEditor') : Head(toEditor).id < a.id
           /\ \A b \in Queued(toServer) : Head(toEditor).id < b.id
  BY QueuedRest DEF EditorInv, EditorTypes, WireInOrder, Shrinks

\* A preview that arrives keeps the invariant.
LEMMA PreviewShownKeeps ==
    ASSUME EditorInv, Shrinks, NEW m \in AnswerRecord, ed' = PreviewShown(m), UNCHANGED <<files, toServer, texts, ghost>>
    PROVE  EditorInv'
<1>0. ed \in EditorRecord
    BY DEF EditorInv, EditorTypes
<1>1. EditStays /\ ed'.seq = ed.seq
  <2>1. CASE m.id = ed.previewId
    <3> DEFINE v == IF m.ok THEN m.path ELSE ed.view
               k == m.ok
    <3>1. v \in Paths \cup {NoPath} /\ k \in BOOLEAN /\ ed' = [ed EXCEPT !.view = v, !.editable = k]
        BY <1>0, <2>1 DEF PreviewShown, AnswerRecord, EditorRecord
    <3> HIDE DEF v, k
    <3>2. ed' \in EditorRecord
      BY <1>0, <3>1 DEF EditorRecord
    <3> QED  BY <1>0, <3>1, <3>2 DEF EditorRecord, EditStays
  <2>2. CASE m.id # ed.previewId
    <3>1. ed' = ed
        BY <2>2 DEF PreviewShown
    <3> QED  BY <1>0, <3>1 DEF EditStays
  <2> QED  BY <2>1, <2>2
<1>2. QuietStep
    BY <1>1 DEF QuietStep
<1> QED  BY <1>1, <1>2, StaysKeeps

\* A save that failed keeps the invariant, also when it is sent again.
LEMMA SaveFailedKeeps ==
    ASSUME EditorInv, Shrinks, NEW m \in AnswerRecord, NEW agrees \in BOOLEAN, SaveFailed(m, agrees),
           UNCHANGED <<files, texts, ghost>>
    PROVE  EditorInv'
<1>0. ed \in EditorRecord
    BY DEF EditorInv, EditorTypes
<1> DEFINE c == Cleared(ed)
           e == [c EXCEPT !.swap = TRUE]
<1>1. /\ c \in EditorRecord /\ c.saves \subseteq ed.saves
      /\ c.path = ed.path /\ c.modal = ed.modal /\ c.editing = ed.editing
      /\ c.editId = ed.editId /\ c.dirty = ed.dirty /\ c.base = ed.base
      /\ c.text = ed.text /\ c.lastSaved = ed.lastSaved /\ c.seq = ed.seq
    BY <1>0, ClearedIs
<1>2. \/ UNCHANGED <<ed, toServer>>
      \/ ed.editing /\ Saving(e, TRUE)
      \/ ed' = c /\ UNCHANGED toServer
    BY DEF SaveFailed
<1> HIDE DEF c
<1>3. CASE UNCHANGED <<ed, toServer>>
  <2>1. EditStays /\ QuietStep
      BY <1>0, <1>3 DEF EditStays, QuietStep
  <2> QED  BY <2>1, StaysKeeps
<1>4. CASE ed.editing /\ Saving(e, TRUE)
  <2>1. e \in EditorRecord
      BY <1>1 DEF EditorRecord
  <2>2. /\ e.saves = c.saves /\ e.path = c.path /\ e.modal = c.modal /\ e.editing = c.editing
        /\ e.editId = c.editId /\ e.dirty = c.dirty /\ e.base = c.base
        /\ e.text = c.text /\ e.lastSaved = c.lastSaved /\ e.seq = c.seq
      BY <1>1 DEF EditorRecord
  <2> HIDE DEF e
  <2> QED  BY <1>1, <1>4, <2>1, <2>2, SavingKeeps
<1>5. CASE ed' = c /\ UNCHANGED toServer
  <2>1. EditStays /\ QuietStep
      BY <1>1, <1>5 DEF EditStays, QuietStep
  <2> QED  BY <2>1, StaysKeeps
<1> QED  BY <1>2, <1>3, <1>4, <1>5

\* handleEditData: only the answer of the last request starts the edit, and there is no edit then.
LEMMA EditLoadedKeeps ==
    ASSUME EditorInv, toEditor # <<>>, toEditor' = Tail(toEditor), Head(toEditor).kind = "edit",
           EditLoaded(Head(toEditor)), UNCHANGED <<files, toServer, texts>>
    PROVE  EditorInv'
<1> DEFINE m == Head(toEditor)
<1>0. ed \in EditorRecord /\ ghost \in GhostRecord /\ texts \in Nat
    BY DEF EditorInv, EditorTypes
<1>1. /\ Shrinks /\ m \in AnswerRecord /\ m \in Queued(toEditor)
      /\ \A a \in Queued(toEditor') : m.id < a.id
      /\ \A b \in Queued(toServer) : m.id < b.id
    BY FirstAnswer
<1>2. m.kind = "edit" /\ EditLoaded(m)
    OBVIOUS
<1>t. m.rev \in Nat /\ m.text \in Nat /\ m.id \in Nat /\ m.path \in Paths
    BY <1>1 DEF AnswerRecord
<1> HIDE DEF m
<1>3. CASE ~(EditMatches(m) /\ m.ok)
  BY <1>0, <1>1, <1>2, <1>3, StaysKeeps DEF EditLoaded, EditStays, QuietStep
<1>4. CASE EditMatches(m) /\ m.ok
  <2>1. m.id = ed.editId /\ m.path = ed.path
      BY <1>4 DEF EditMatches
  <2>2. ed.editing = FALSE /\ ed.saves = {}
    BY <1>1, <1>0, <1>t, <2>1 DEF EditorInv, YoungerInv, EditorRecord, SavesInv
  <2>3. /\ ed' \in EditorRecord /\ ed'.path = ed.path /\ ed'.editing = TRUE /\ ed'.editId = ed.editId /\ ed'.saves = {}
        /\ ed'.seq = ed.seq /\ ed'.text = m.text /\ ed'.lastSaved = ed.lastSaved /\ ed'.base = m.rev
    <3>1. ed' = [ed EXCEPT !.editing = TRUE, !.dirty = FALSE, !.base = m.rev, !.text = m.text]
        BY <1>2, <1>4 DEF EditLoaded
    <3> QED  BY <1>0, <1>t, <2>2, <3>1 DEF EditorRecord
  <2>4. /\ ghost' \in GhostRecord /\ ghost'.kept = m.text /\ ghost'.seen = {m.text} /\ ghost'.lost = ghost.lost
        /\ ghost'.escaped = ghost.escaped /\ ghost'.blind = ghost.blind
    <3> DEFINE l == ghost.lost \/ Unsaved
    <3>1. l = ghost.lost
        BY <1>0, <2>2 DEF Unsaved, GhostRecord
    <3>2. ghost' = [ghost EXCEPT !.lost = l, !.kept = m.text, !.seen = {m.text}]
        BY <1>0, <1>2, <1>4 DEF EditLoaded, GhostRecord
    <3> HIDE DEF l
    <3>3. l \in BOOLEAN
        BY <1>0, <3>1 DEF GhostRecord
    <3> QED  BY <1>0, <1>t, <3>1, <3>2, <3>3 DEF GhostRecord
  <2>5. QuietStep
      BY <1>1, <2>3 DEF QuietStep
  <2>6. m.text <= texts
      BY <1>1 DEF EditorInv, TextsInv
  <2>7. EditorTypes'
      BY <1>1, <1>t, <2>1, <2>3, <2>4 DEF EditorInv, EditorTypes, Shrinks
  <2>8. WireInOrder' /\ TextsInv'
      BY <2>3, <2>4, <2>5, <2>6, QuietWire, QuietTexts
  <2>9. SavesInv'
      BY <1>t, <2>3, <2>4 DEF EditorInv, SavesInv
  <2>10. MarkedInv'
      BY <2>3, <2>4 DEF EditorInv, MarkedInv, Unsaved
  <2>11. /\ \A a \in Queued(toEditor') : a.id > ed.editId /\ a.id # ed.editId /\ a.kind # "saved"
         /\ \A b \in Queued(toServer) : b.id > ed.editId /\ b.id # ed.editId /\ b.kind # "save"
    <3>1. \A b \in Queued(toServer) : b.id \in Nat
        BY WireTyped DEF EditorInv, RequestRecord
    <3>2. \A a \in Queued(toEditor) : a.id \in Nat
        BY WireTyped DEF EditorInv, AnswerRecord
    <3>3. Queued(toEditor') \subseteq Queued(toEditor)
        BY <1>1 DEF Shrinks
    <3>4. \A a \in Queued(toEditor') : a.kind # "saved"
      BY <1>1, <2>1, <3>2, <3>3, <1>t DEF EditorInv, YoungerInv
    <3>5. \A b \in Queued(toServer) : b.kind # "save"
        BY <1>1, <2>1 DEF EditorInv, YoungerInv
    <3>6. \A a \in Queued(toEditor') : a.id > ed.editId /\ a.id # ed.editId
        BY <1>1, <1>t, <2>1, <3>2, <3>3
    <3>7. \A b \in Queued(toServer) : b.id > ed.editId /\ b.id # ed.editId
        BY <1>1, <1>t, <2>1, <3>1
    <3> QED  BY <3>4, <3>5, <3>6, <3>7
  <2>12. YoungerInv'
      BY <2>3, <2>5, <2>11 DEF YoungerInv, QuietStep
  <2>13. KnownInv'
    BY <1>1, <1>2, <2>5, <2>1, <2>3, <2>4, <2>11 DEF EditorInv, KnownInv, QuietStep, Shrinks, Known
  <2> QED  BY <2>7, <2>8, <2>9, <2>10, <2>12, <2>13 DEF EditorInv
<1> QED  BY <1>3, <1>4

\* The save an answer belongs to leaves the list.
Answered(n, latest) == [(IF latest THEN Cleared(ed) ELSE ed) EXCEPT !.saves = {x \in ed.saves : x.id # n}]

\* A save that is answered is no longer waited for; the text stays.
LEMMA AnsweredIs ==
    ASSUME EditorInv, NEW n, NEW latest \in BOOLEAN
    PROVE  /\ Answered(n, latest) \in EditorRecord /\ Answered(n, latest).saves = {x \in ed.saves : x.id # n}
           /\ Answered(n, latest).path = ed.path /\ Answered(n, latest).modal = ed.modal
           /\ Answered(n, latest).editing = ed.editing /\ Answered(n, latest).editId = ed.editId
           /\ Answered(n, latest).dirty = ed.dirty /\ Answered(n, latest).base = ed.base
           /\ Answered(n, latest).text = ed.text /\ Answered(n, latest).lastSaved = ed.lastSaved
           /\ Answered(n, latest).seq = ed.seq
<1> DEFINE c == IF latest THEN Cleared(ed) ELSE ed
           some == {x \in ed.saves : x.id # n}
           e == [c EXCEPT !.saves = some]
<1>0. ed \in EditorRecord
    BY DEF EditorInv, EditorTypes
<1>1. /\ c \in EditorRecord
      /\ c.path = ed.path /\ c.modal = ed.modal /\ c.editing = ed.editing /\ c.editId = ed.editId
      /\ c.dirty = ed.dirty /\ c.base = ed.base /\ c.text = ed.text /\ c.lastSaved = ed.lastSaved /\ c.seq = ed.seq
    BY <1>0, ClearedIs
<1>2. some \in SUBSET [id : Nat, text : Nat]
    BY <1>0 DEF EditorRecord
<1> HIDE DEF c, some
<1>3. e \in EditorRecord
    BY <1>1, <1>2 DEF EditorRecord
<1>4. /\ e.saves = some
      /\ e.path = c.path /\ e.modal = c.modal /\ e.editing = c.editing /\ e.editId = c.editId
      /\ e.dirty = c.dirty /\ e.base = c.base /\ e.text = c.text /\ e.lastSaved = c.lastSaved /\ e.seq = c.seq
    BY <1>1 DEF EditorRecord
<1> HIDE DEF e
<1>5. /\ e \in EditorRecord /\ e.saves = some
      /\ e.path = ed.path /\ e.modal = ed.modal /\ e.editing = ed.editing /\ e.editId = ed.editId
      /\ e.dirty = ed.dirty /\ e.base = ed.base /\ e.text = ed.text /\ e.lastSaved = ed.lastSaved /\ e.seq = ed.seq
    BY <1>1, <1>3, <1>4
<1>6. Answered(n, latest) = e
    BY DEF Answered, e, c, some
<1> QED  BY <1>5, <1>6 DEF some

\* handleFileSaved: the answer of a save of this edit moves the base on, whether the
\* edit goes on, stays on screen or is over.
Confirms(m, s) ==
    /\ s \in ed.saves /\ s.id = m.id /\ s.id > ed.lastSaved /\ ed.editing /\ m.path = ed.path
    /\ ghost' \in GhostRecord /\ ghost'.kept = s.text /\ ghost'.lost = ghost.lost /\ ghost'.seen = ghost.seen
    /\ ghost'.blind = ghost.blind /\ ghost'.escaped = ghost.escaped

\* A save that is confirmed clears the mark only for the text it wrote.
LEMMA ConfirmedMarks ==
    ASSUME EditorInv, NEW m, NEW s, Confirms(m, s), ed'.text = ed.text, ed'.modal = ed.modal,
           ed'.dirty = TRUE \/ ed.text = s.text \/ ed'.editing = FALSE
    PROVE  MarkedInv'
  BY DEF EditorInv, EditorTypes, SavesInv, Confirms, EditorRecord, GhostRecord, MarkedInv, Unsaved

\* A save that is confirmed is the latest one that is confirmed.
LEMMA ConfirmedSaves ==
    ASSUME EditorInv, NEW m, NEW s, Confirms(m, s), ed'.text = ed.text, ed'.lastSaved = s.id, ed'.seq = ed.seq,
           ed'.editId = ed.editId, ed'.editing = TRUE, ed'.saves \subseteq ed.saves
    PROVE  SavesInv'
  BY DEF EditorInv, EditorTypes, EditorRecord, SavesInv, Confirms

\* A confirmed save keeps the invariant, of the edit at hand or of an earlier one.
LEMMA FileSavedKeeps ==
    ASSUME EditorInv, Shrinks, NEW m \in AnswerRecord, m \in Queued(toEditor), m.kind = "saved", FileSaved(m),
           UNCHANGED <<files, texts>>
    PROVE  EditorInv'
<1>0. ed \in EditorRecord /\ ghost \in GhostRecord /\ texts \in Nat /\ m.rev \in Nat /\ ed.seq + 1 \in Nat
  <2>1. ed \in EditorRecord /\ ghost \in GhostRecord /\ texts \in Nat
      BY DEF EditorInv, EditorTypes
  <2>2. m.rev \in Nat
      BY DEF AnswerRecord
  <2> QED  BY <2>1, <2>2 DEF EditorRecord
<1>1. CASE ~(ed.editing /\ m.path = ed.path /\ \E s \in ed.saves : s.id = m.id)
  BY <1>0, <1>1, StaysKeeps DEF FileSaved, EditStays, QuietStep
<1>2. CASE ed.editing /\ m.path = ed.path /\ \E s \in ed.saves : s.id = m.id
  <2> DEFINE s == CHOOSE x \in ed.saves : x.id = m.id
             latest == m.id = ed.saveId
             some == {x \in ed.saves : x.id # m.id}
             e == Answered(m.id, latest)
             f == [e EXCEPT !.lastSaved = s.id, !.base = m.rev]
             exits == ExitsAfterSave(ed, s, latest)
             l == ghost.lost \/ (exits /\ ed.text # s.text)
             g == [f EXCEPT !.dirty = TRUE]
             h == [f EXCEPT !.dirty = FALSE]
             x == [Exited(f) EXCEPT !.view = NoPath, !.editable = FALSE, !.seq = @ + 1, !.previewId = ed.seq + 1, !.editId = 0]
             r == FileRequest("preview", ed.seq + 1, ed.path)
  <2>1. s \in ed.saves /\ s.id = m.id /\ s.id \in Nat /\ s.text \in Nat
    <3>1. s \in ed.saves /\ s.id = m.id
        BY <1>2
    <3> HIDE DEF s
    <3> QED  BY <1>0, <3>1 DEF EditorRecord
  <2>2. /\ e \in EditorRecord /\ e.saves = some
        /\ e.path = ed.path /\ e.modal = ed.modal /\ e.editing = ed.editing /\ e.editId = ed.editId
        /\ e.dirty = ed.dirty /\ e.base = ed.base /\ e.text = ed.text /\ e.lastSaved = ed.lastSaved /\ e.seq = ed.seq
    <3>1. latest \in BOOLEAN
        OBVIOUS
    <3> HIDE DEF latest
    <3> QED  BY <3>1, AnsweredIs
  <2>3. IF s.id <= ed.lastSaved THEN ed' = e /\ UNCHANGED <<ghost, toServer>>
        ELSE /\ ghost' = [ghost EXCEPT !.kept = s.text, !.lost = l]
             /\ IF ~exits THEN ed' = g /\ UNCHANGED toServer
                ELSE IF m.warn THEN ed' = h /\ UNCHANGED toServer
                ELSE ed' = x /\ toServer' = Append(toServer, r)
      BY <1>0, <1>2 DEF FileSaved, GhostRecord, Answered
  <2>4. exits => ed.text = s.text
      BY DEF ExitsAfterSave
  <2>5. l = ghost.lost
      BY <1>0, <2>4 DEF GhostRecord
  <2>6. some \subseteq ed.saves
      OBVIOUS
  <2> HIDE DEF s, latest, some, e, exits, l
  <2>7. /\ f \in EditorRecord /\ f.saves = some /\ f.lastSaved = s.id /\ f.base = m.rev
        /\ f.path = ed.path /\ f.modal = ed.modal /\ f.editing = ed.editing /\ f.editId = ed.editId
        /\ f.text = ed.text /\ f.seq = ed.seq
    <3>1. f \in EditorRecord
        BY <1>0, <2>1, <2>2 DEF EditorRecord
    <3>2. f.lastSaved = s.id /\ f.base = m.rev
        BY <2>2 DEF EditorRecord
    <3>3. /\ f.saves = e.saves /\ f.path = e.path /\ f.modal = e.modal /\ f.editing = e.editing /\ f.editId = e.editId
          /\ f.text = e.text /\ f.seq = e.seq
        BY <2>2 DEF EditorRecord
    <3> HIDE DEF f
    <3> QED  BY <2>2, <3>1, <3>2, <3>3
  <2>8. CASE s.id <= ed.lastSaved
    BY <2>2, <2>3, <2>6, <2>8, StaysKeeps DEF EditStays, QuietStep
  <2>9. CASE ~(s.id <= ed.lastSaved)
    <3>1. Confirms(m, s)
      <4>1. ghost' = [ghost EXCEPT !.kept = s.text, !.lost = ghost.lost]
          BY <2>3, <2>5, <2>9
      <4>2. /\ ghost' \in GhostRecord /\ ghost'.kept = s.text /\ ghost'.lost = ghost.lost /\ ghost'.seen = ghost.seen
            /\ ghost'.blind = ghost.blind /\ ghost'.escaped = ghost.escaped
          BY <1>0, <2>1, <4>1 DEF GhostRecord
      <4>3. s.id > ed.lastSaved
          BY <1>0, <2>1, <2>9 DEF EditorRecord
      <4> QED  BY <1>2, <2>1, <4>2, <4>3 DEF Confirms
    <3>2. s.text <= texts
      BY <1>0, <2>1 DEF EditorInv, SavesInv, TextsInv, EditorRecord
    <3>3. Known(ed.path, m.rev) /\ ed.path \in Paths /\ ed.editing = TRUE
        BY <1>0, <1>2 DEF EditorInv, EditorTypes, KnownInv, EditorRecord
    <3>4. CASE ~exits \/ m.warn
      <4>1. /\ toServer' = toServer /\ (ed' = g \/ (ed' = h /\ ed.text = s.text))
        <5> HIDE DEF g, h, x, r
        <5>1. CASE ~exits
          BY <2>3, <2>9, <5>1
        <5>2. CASE exits /\ m.warn
            BY <2>3, <2>4, <2>9, <5>2
        <5> QED  BY <3>4, <5>1, <5>2
      <4>2. /\ ed' \in EditorRecord /\ ed'.saves = some /\ ed'.lastSaved = s.id /\ ed'.base = m.rev
            /\ ed'.path = ed.path /\ ed'.modal = ed.modal /\ ed'.editing = TRUE /\ ed'.editId = ed.editId
            /\ ed'.text = ed.text /\ ed'.seq = ed.seq /\ (ed'.dirty = TRUE \/ ed.text = s.text)
        <5> HIDE DEF f
        <5>1. CASE ed' = g
          BY <2>7, <3>3, <5>1 DEF EditorRecord
        <5>2. CASE ed' = h /\ ed.text = s.text
          BY <2>7, <3>3, <5>2 DEF EditorRecord
        <5> QED  BY <4>1, <5>1, <5>2
      <4>3. QuietStep
          BY <4>1, <4>2 DEF QuietStep
      <4>4. EditorTypes'
          BY <3>1, <3>3, <4>1, <4>2 DEF EditorInv, EditorTypes, Shrinks, Confirms
      <4>5. WireInOrder' /\ TextsInv'
          BY <3>1, <3>2, <4>2, <4>3, QuietWire, QuietTexts DEF Confirms, EditorInv, TextsInv
      <4>6. SavesInv' /\ MarkedInv'
          BY <2>6, <3>1, <4>2, ConfirmedSaves, ConfirmedMarks
      <4>7. YoungerInv'
          BY <3>3, <4>2, <4>3, QuietYounger
      <4>8. KnownInv'
        BY <3>1, <4>3, <3>3, <4>2 DEF QuietStep, Shrinks, Confirms, EditorInv, KnownInv, Known
      <4> QED  BY <4>4, <4>5, <4>6, <4>7, <4>8 DEF EditorInv
    <3>5. CASE exits /\ ~m.warn
      <4> DEFINE y == Exited(f)
                 n == ed.seq + 1
      <4>1. ed' = x /\ toServer' = Append(toServer, r)
          BY <2>3, <2>9, <3>5
      <4>2. /\ y \in EditorRecord /\ y.saves = {} /\ y.editing = FALSE /\ y.path = ed.path /\ y.modal = ed.modal
            /\ y.text = ed.text /\ y.lastSaved = s.id /\ y.seq = ed.seq
        <5> HIDE DEF f
        <5> QED  BY <2>7, ExitedIs
      <4>3. n \in Nat /\ y.seq + 1 = n
          BY <1>0, <4>2
      <4>4. ed' = [y EXCEPT !.view = NoPath, !.editable = FALSE, !.seq = n, !.previewId = n, !.editId = 0]
        <5> HIDE DEF y
        <5> QED  BY <4>1, <4>2, <4>3 DEF EditorRecord, y
      <4> HIDE DEF y, n
      <4>5. /\ ed' \in EditorRecord /\ ed'.saves = {} /\ ed'.editing = FALSE /\ ed'.path = ed.path /\ ed'.modal = ed.modal
            /\ ed'.text = ed.text /\ ed'.lastSaved = s.id /\ ed'.seq = n /\ ed'.editId = 0
        BY <4>2, <4>3, <4>4 DEF EditorRecord
      <4>6. Sends(r) /\ r.kind = "preview" /\ r.text <= texts
        BY <4>5, <1>0, <3>3, <4>1, RequestTyped DEF n, Sends
      <4> HIDE DEF r
      <4>7. /\ toServer' \in Seq(RequestRecord) /\ WireInOrder' /\ Queued(toServer') = Queued(toServer) \cup {r}
            /\ \A a \in Queued(toEditor) : a.id < r.id /\ a.id # 0
            /\ \A b \in Queued(toServer) : b.id < r.id /\ b.id # 0
            /\ r.id # 0
          BY <4>6, SendsKeeps
      <4>8. EditorTypes'
          BY <3>1, <3>3, <4>5, <4>7 DEF EditorInv, EditorTypes, Shrinks, Confirms
      <4>9. TextsInv'
        BY <3>1, <3>2, <4>5, <4>6, <4>7 DEF Shrinks, Confirms, EditorInv, TextsInv
      <4>10. SavesInv'
        BY <1>0, <2>1, <4>3, <4>5 DEF EditorInv, SavesInv, EditorRecord, n
      <4>11. MarkedInv'
          BY <3>1, <4>5, ConfirmedMarks
      <4>12. YoungerInv'
          BY <4>5, <4>7 DEF YoungerInv, Shrinks
      <4>13. KnownInv'
        BY <3>1, <4>5 DEF Shrinks, Confirms, EditorInv, KnownInv
      <4> QED  BY <4>7, <4>8, <4>9, <4>10, <4>11, <4>12, <4>13 DEF EditorInv
    <3> QED  BY <3>4, <3>5
  <2> QED  BY <2>8, <2>9
<1> QED  BY <1>1, <1>2

\* Every answer the page takes from the wire.
LEMMA ReceiveKeeps ==
    ASSUME EditorInv, NEW agrees \in BOOLEAN, Receive(agrees)
    PROVE  EditorInv'
<1> DEFINE m == Head(toEditor)
<1>1. toEditor # <<>> /\ toEditor' = Tail(toEditor) /\ UNCHANGED <<files, texts>>
    BY DEF Receive
<1>2. Shrinks /\ m \in AnswerRecord /\ m \in Queued(toEditor)
    BY <1>1, FirstAnswer
<1>3. m.kind \in {"preview", "edit", "saved", "failed"}
    BY <1>2 DEF AnswerRecord
<1>4. CASE m.kind = "preview"
  BY <1>4, <1>1, <1>2, PreviewShownKeeps DEF Receive
<1>5. CASE m.kind = "edit"
  BY <1>5, <1>1, EditLoadedKeeps DEF Receive
<1>6. CASE m.kind = "saved"
  <2>1. FileSaved(m)
      BY <1>6 DEF Receive
  <2> QED  BY <1>1, <1>2, <1>6, <2>1, FileSavedKeeps
<1>7. CASE m.kind = "failed"
  BY <1>7, <1>1, <1>2, SaveFailedKeeps DEF Receive
<1> QED  BY <1>3, <1>4, <1>5, <1>6, <1>7

\* A file that is written gets a revision nobody was given before.
FileWritten(p, n) == /\ files' = [files EXCEPT ![p] = [rev |-> files[p].rev + 1, text |-> n]]
                     /\ p \in Paths /\ n \in Nat

\* A file that is written has a new revision and the new text.
LEMMA WrittenIs ==
    ASSUME EditorInv, NEW p, NEW n, FileWritten(p, n)
    PROVE  /\ files' \in [Paths -> [rev : Nat, text : Nat]]
           /\ \A q \in Paths : q # p => files'[q] = files[q]
           /\ files'[p].rev = files[p].rev + 1 /\ files'[p].text = n
           /\ \A q \in Paths : \A r \in Nat : r <= files[q].rev => r <= files'[q].rev /\ (files'[q].rev = r => q # p)
<1>1. files \in [Paths -> [rev : Nat, text : Nat]]
    BY DEF EditorInv, EditorTypes
<1>2. \A q \in Paths : files[q].rev \in Nat
    BY <1>1
<1> DEFINE x == files[p].rev + 1
           w == [rev |-> x, text |-> n]
<1>3. x \in Nat
    BY <1>2 DEF FileWritten
<1>4. files' = [files EXCEPT ![p] = w] /\ p \in Paths /\ n \in Nat
    BY DEF FileWritten
<1>5. w \in [rev : Nat, text : Nat] /\ w.rev = x /\ w.text = n
  <2> HIDE DEF x
  <2> QED  BY <1>3, <1>4
<1> HIDE DEF w
<1>6. files' \in [Paths -> [rev : Nat, text : Nat]]
    BY <1>1, <1>4, <1>5
<1>7. files'[p] = w /\ \A q \in Paths : q # p => files'[q] = files[q]
    BY <1>1, <1>4
<1>8. ASSUME NEW q \in Paths, NEW r \in Nat, r <= files[q].rev PROVE r <= files'[q].rev /\ (files'[q].rev = r => q # p)
  BY <1>5, <1>7, <1>2, <1>8
<1> QED  BY <1>5, <1>6, <1>7, <1>8

\* What is known of a revision stays known, whoever writes.
LEMMA WrittenKnown ==
    ASSUME EditorInv, NEW p, NEW n, FileWritten(p, n), NEW q \in Paths, NEW r \in Nat, Known(q, r), ghost.seen \subseteq ghost'.seen
    PROVE  r <= files'[q].rev /\ (files'[q].rev = r => files'[q].text \in ghost'.seen)
  BY WrittenIs DEF Known

\* The same for everything that names a revision.
LEMMA WrittenKeepsKnown ==
    ASSUME EditorInv, NEW p, NEW n, FileWritten(p, n), ghost.seen \subseteq ghost'.seen, ghost'.blind = FALSE, ed' = ed,
           Queued(toServer') \subseteq Queued(toServer),
           \A a \in Queued(toEditor') : \/ a \in Queued(toEditor)
                                        \/ a.kind = "saved" /\ a.rev <= files'[a.path].rev /\ files'[a.path].text \in ghost'.seen
    PROVE  KnownInv'
<1>1. ed \in EditorRecord
    BY DEF EditorInv, EditorTypes
<1>2. ed.editing => Known(ed.path, ed.base)'
  BY <1>1, WrittenKnown DEF EditorInv, EditorTypes, KnownInv, EditorRecord, Known
<1>3. \A b \in Queued(toServer) : ed.editing /\ b.kind = "save" /\ ~b.orphan /\ b.path = ed.path =>
        b.rev <= files'[b.path].rev /\ (files'[b.path].rev = b.rev => files'[b.path].text \in ghost'.seen)
  BY WireTyped, WrittenKnown DEF EditorInv, KnownInv, RequestRecord
<1>4. \A a \in Queued(toEditor) : ed.editing /\ a.kind = "saved" /\ a.path = ed.path =>
        a.rev <= files'[a.path].rev /\ (files'[a.path].rev = a.rev => files'[a.path].text \in ghost'.seen)
  BY WireTyped, WrittenKnown DEF EditorInv, KnownInv, AnswerRecord
<1>5. \A a \in Queued(toEditor) : a.kind = "edit" =>
        a.rev <= files'[a.path].rev /\ (files'[a.path].rev = a.rev => files'[a.path].text = a.text)
  <2> SUFFICES ASSUME NEW a \in Queued(toEditor), a.kind = "edit"
               PROVE  a.rev <= files'[a.path].rev /\ (files'[a.path].rev = a.rev => files'[a.path].text = a.text)
      OBVIOUS
  <2>1. a.rev \in Nat /\ a.path \in Paths
      BY WireTyped DEF EditorInv, AnswerRecord
  <2>2. a.rev <= files[a.path].rev /\ (files[a.path].rev = a.rev => files[a.path].text = a.text)
      BY DEF EditorInv, KnownInv
  <2> QED  BY <2>1, <2>2, WrittenIs
<1>6. \A a \in Queued(toEditor') : ed.editing /\ a.kind = "saved" /\ a.path = ed.path =>
        a.rev <= files'[a.path].rev /\ (files'[a.path].rev = a.rev => files'[a.path].text \in ghost'.seen)
    BY <1>4
<1>7. \A a \in Queued(toEditor') : a.kind = "edit" =>
        a.rev <= files'[a.path].rev /\ (files'[a.path].rev = a.rev => files'[a.path].text = a.text)
    BY <1>5
<1> QED  BY <1>2, <1>3, <1>6, <1>7 DEF KnownInv, Known

\* Another writer.
LEMMA OtherWritesKeeps ==
    ASSUME EditorInv, NEW p \in Paths, OtherWrites(p)
    PROVE  EditorInv'
<1> DEFINE n == texts + 1
<1>1. ed \in EditorRecord /\ n \in Nat /\ texts \in Nat /\ texts <= n
    BY DEF EditorInv, EditorTypes
<1>2. FileWritten(p, n) /\ texts' = n /\ UNCHANGED <<ed, toServer, toEditor, ghost>>
    BY <1>1 DEF OtherWrites, FileWritten, EditorInv, EditorTypes
<1>n. \A k \in Nat : k <= texts => k <= n
    BY <1>1
<1> HIDE DEF n
<1>3. EditorTypes'
    BY <1>1, <1>2, WrittenIs DEF EditorInv, EditorTypes
<1>4. WireInOrder' /\ SavesInv' /\ MarkedInv' /\ YoungerInv'
    BY <1>2 DEF EditorInv, WireInOrder, SavesInv, MarkedInv, YoungerInv, Unsaved
<1>5. TextsInv'
  <2>1. ed.text \in Nat /\ ghost.kept \in Nat
      BY DEF EditorInv, EditorTypes, EditorRecord, GhostRecord
  <2>2. \A a \in Queued(toEditor) : a.text \in Nat
      BY WireTyped DEF EditorInv, AnswerRecord
  <2>3. \A b \in Queued(toServer) : b.text \in Nat
      BY WireTyped DEF EditorInv, RequestRecord
  <2>5. \A q \in Paths : files[q].text \in Nat
      BY DEF EditorInv, EditorTypes
  <2>6. \A q \in Paths : files'[q].text <= n
    BY <1>2, WrittenIs, <2>5, <1>1, <1>n DEF EditorInv, TextsInv
  <2> QED  BY <1>2, <1>n, <2>1, <2>2, <2>3, <2>6 DEF EditorInv, TextsInv
<1>6. KnownInv'
    BY <1>2, WrittenKeepsKnown DEF EditorInv, KnownInv
<1> QED  BY <1>3, <1>4, <1>5, <1>6 DEF EditorInv

\* The socket is lost: what is on the wire goes, but for a save that is being served.
LEMMA LoseSocketKeeps ==
    ASSUME EditorInv, NEW working \in BOOLEAN, LoseSocket(working)
    PROVE  EditorInv'
<1>1. ed \in EditorRecord /\ ed' = Interrupted(ed) /\ UNCHANGED <<files, texts, ghost>> /\ toEditor' = <<>>
    BY DEF EditorInv, EditorTypes, LoseSocket
<1>2. EditStays /\ ed'.seq = ed.seq
    BY <1>1, InterruptedIs DEF EditStays
<1>3. /\ toServer' \in Seq(RequestRecord) /\ InIdOrder(toServer')
      /\ \A x \in Queued(toServer') : x.orphan /\ \E b \in Queued(toServer) : x.id = b.id /\ x.text = b.text /\ x.kind = b.kind
      /\ \A x, y \in Queued(toServer') : x = y
  <2>1. CASE ~working
    <3>1. toServer' = <<>>
        BY <2>1 DEF LoseSocket
    <3> QED  BY <3>1, QueuedFew
  <2>2. CASE working
    <3> DEFINE b == Head(toServer)
               o == [b EXCEPT !.orphan = TRUE]
    <3>1. toServer' = <<o>> /\ toServer # <<>>
        BY <2>2 DEF LoseSocket
    <3>2. b \in RequestRecord /\ b \in Queued(toServer)
      BY <3>1, QueuedRest DEF EditorInv, EditorTypes, WireInOrder
    <3> HIDE DEF b
    <3>3. o \in RequestRecord /\ o.orphan = TRUE /\ o.id = b.id /\ o.text = b.text /\ o.kind = b.kind
        BY <3>2 DEF RequestRecord
    <3> HIDE DEF o
    <3>4. <<o>> \in Seq(RequestRecord) /\ Queued(<<o>>) = {o} /\ InIdOrder(<<o>>)
        BY <3>3, QueuedFew
    <3>5. \A x \in {o} : x.orphan /\ \E y \in Queued(toServer) : x.id = y.id /\ x.text = y.text /\ x.kind = y.kind
        BY <3>2, <3>3
    <3> QED  BY <3>1, <3>4, <3>5
  <2> QED  BY <2>1, <2>2
<1>4. Queued(toEditor') = {} /\ InIdOrder(toEditor') /\ toEditor' \in Seq(AnswerRecord)
    BY <1>1, QueuedFew
<1>5. EditorTypes'
    BY <1>1, <1>2, <1>3, <1>4 DEF EditorInv, EditorTypes, EditStays
<1>6. WireInOrder'
    BY <1>2, <1>3, <1>4 DEF EditorInv, WireInOrder
<1>7. TextsInv'
    BY <1>1, <1>2, <1>3, <1>4 DEF EditorInv, TextsInv, EditStays
<1>8. SavesInv' /\ MarkedInv'
  BY <1>1, <1>2 DEF EditorInv, SavesInv, EditStays, MarkedInv, Unsaved
<1>9. YoungerInv'
  BY <1>2, <1>3, WireTyped, <1>4 DEF EditorInv, YoungerInv, EditStays, RequestRecord
<1>10. KnownInv'
    BY <1>1, <1>2, <1>3, <1>4 DEF EditorInv, KnownInv, Known, EditStays
<1> QED  BY <1>5, <1>6, <1>7, <1>8, <1>9, <1>10 DEF EditorInv

\* An answer before its contents are known.
LEMMA AnswerTyped ==
    ASSUME NEW k \in {"preview", "edit", "saved", "failed"}, NEW m \in RequestRecord
    PROVE  /\ FileAnswer(k, m) \in AnswerRecord /\ FileAnswer(k, m).id = m.id /\ FileAnswer(k, m).path = m.path
           /\ FileAnswer(k, m).kind = k /\ FileAnswer(k, m).text = 0
  BY DEF FileAnswer, AnswerRecord, RequestRecord

\* What the server answers to a request.
LEMMA ServedIs ==
    ASSUME EditorInv, NEW m \in RequestRecord, NEW ok \in BOOLEAN, NEW warn \in BOOLEAN
    PROVE  /\ Served(m, ok, warn) \in AnswerRecord /\ Served(m, ok, warn).id = m.id /\ Served(m, ok, warn).path = m.path
           /\ Served(m, ok, warn).text \in {0, files[m.path].text}
           /\ Served(m, ok, warn).kind = "saved" => m.kind = "save" /\ ok /\ Served(m, ok, warn).rev = files[m.path].rev + 1
           /\ Served(m, ok, warn).kind = "edit" =>
                m.kind = "edit" /\ Served(m, ok, warn).rev = files[m.path].rev /\ Served(m, ok, warn).text = files[m.path].text
<1> DEFINE f == files[m.path]
           a == Served(m, ok, warn)
<1>0. m.id \in Nat /\ m.path \in Paths /\ m.kind \in {"preview", "edit", "save"}
    BY DEF RequestRecord
<1>1. f \in [rev : Nat, text : Nat]
    BY <1>0 DEF EditorInv, EditorTypes
<1>f. f.rev \in Nat /\ f.text \in Nat /\ f.rev + 1 \in Nat
    BY <1>1
<1> HIDE DEF f
<1>2. CASE m.kind = "preview"
  <2>1. a = [FileAnswer("preview", m) EXCEPT !.ok = ok]
      BY <1>2 DEF Served
  <2> DEFINE z == FileAnswer("preview", m)
  <2>z. z \in AnswerRecord /\ z.id = m.id /\ z.path = m.path /\ z.kind = "preview" /\ z.text = 0
      BY AnswerTyped
  <2> HIDE DEF z
  <2>3. [z EXCEPT !.ok = ok] \in AnswerRecord
      BY <2>z DEF AnswerRecord
  <2>2. a \in AnswerRecord /\ a.id = m.id /\ a.path = m.path /\ a.text = 0 /\ a.kind = "preview"
    BY <2>1, <2>z, <2>3 DEF z, AnswerRecord
  <2> QED  BY <2>2
<1>3. CASE m.kind = "edit"
  BY <1>3, <1>0, <1>f DEF Served, f, FileAnswer, AnswerRecord
<1>4. CASE m.kind = "save" /\ ok
  <2> DEFINE n == f.rev + 1
  <2>1. a = [FileAnswer("saved", m) EXCEPT !.rev = n, !.warn = warn]
      BY <1>4 DEF Served, f
  <2> HIDE DEF n
  <2> DEFINE z == FileAnswer("saved", m)
  <2>z. z \in AnswerRecord /\ z.id = m.id /\ z.path = m.path /\ z.kind = "saved" /\ z.text = 0
      BY AnswerTyped
  <2> HIDE DEF z
  <2>n. n \in Nat
      BY <1>f DEF n
  <2>3. [z EXCEPT !.rev = n, !.warn = warn] \in AnswerRecord
      BY <2>z, <2>n DEF AnswerRecord
  <2>2. a \in AnswerRecord /\ a.id = m.id /\ a.path = m.path /\ a.text = 0 /\ a.kind = "saved" /\ a.rev = n
    BY <2>1, <2>z, <2>3 DEF z, AnswerRecord
  <2> QED  BY <1>4, <2>2 DEF f, n
<1>5. CASE m.kind = "save" /\ ~ok
  <2> DEFINE w == f.rev = m.rev /\ SwapNeeded /\ ~m.swap
  <2>1. a = [FileAnswer("failed", m) EXCEPT !.swapNeeded = w] /\ w \in BOOLEAN
      BY <1>5 DEF Served, f
  <2> HIDE DEF w
  <2> DEFINE z == FileAnswer("failed", m)
  <2>z. z \in AnswerRecord /\ z.id = m.id /\ z.path = m.path /\ z.kind = "failed" /\ z.text = 0
      BY AnswerTyped
  <2> HIDE DEF z
  <2>3. [z EXCEPT !.swapNeeded = w] \in AnswerRecord
      BY <2>z, <2>1 DEF AnswerRecord
  <2>2. a \in AnswerRecord /\ a.id = m.id /\ a.path = m.path /\ a.text = 0 /\ a.kind = "failed"
    BY <2>1, <2>z, <2>3 DEF z, AnswerRecord
  <2> QED  BY <2>2
<1> QED  BY <1>0, <1>2, <1>3, <1>4, <1>5

\* The first request leaves the wire and its answer, unless it is an orphan, follows
\* the answers before it.
AnswersOldest(m, a) ==
    /\ m \in RequestRecord /\ m \in Queued(toServer) /\ a \in AnswerRecord /\ a.id = m.id /\ a.path = m.path
    /\ a.kind = "saved" => m.kind = "save"
    /\ ed' = ed /\ texts' = texts
    /\ toServer' \in Seq(RequestRecord) /\ InIdOrder(toServer') /\ Queued(toServer') \subseteq Queued(toServer)
    /\ \A x \in Queued(toServer') : m.id < x.id
    /\ toEditor' \in Seq(AnswerRecord) /\ InIdOrder(toEditor') /\ Queued(toEditor') \subseteq Queued(toEditor) \cup {a}
    /\ m.orphan => toEditor' = toEditor

\* An answer of the server keeps both queues in order.
LEMMA ServesWire ==
    ASSUME EditorInv, NEW m, NEW a, AnswersOldest(m, a)
    PROVE  WireInOrder' /\ YoungerInv'
<1>1. \A b \in Queued(toServer) : b.id \in Nat
    BY WireTyped DEF EditorInv, RequestRecord
<1>2. \A c \in Queued(toEditor) : c.id \in Nat
    BY WireTyped DEF EditorInv, AnswerRecord
<1>3. /\ m \in Queued(toServer) /\ a.id = m.id /\ ed' = ed /\ Queued(toServer') \subseteq Queued(toServer)
      /\ InIdOrder(toServer') /\ InIdOrder(toEditor')
      /\ \A x \in Queued(toServer') : m.id < x.id
      /\ Queued(toEditor') \subseteq Queued(toEditor) \cup {a} /\ (a.kind = "saved" => m.kind = "save") /\ m.id \in Nat
    BY <1>1 DEF AnswersOldest
<1>4. \A c \in Queued(toEditor) : c.id < m.id
    BY <1>3 DEF EditorInv, WireInOrder
<1>5. WireInOrder'
  BY <1>2, <1>3, <1>4, <1>1 DEF EditorInv, WireInOrder
<1>6. YoungerInv'
  <2>1. ed.editing => (\A c \in Queued(toEditor') : c.id > ed.editId) /\ (\A b \in Queued(toServer') : b.id > ed.editId)
      BY <1>3 DEF EditorInv, YoungerInv
  <2>2. \A c, b \in Queued(toServer') : c.id = ed.editId /\ b.kind = "save" => b.id < c.id
      BY <1>3 DEF EditorInv, YoungerInv
  <2>3. \A c, b \in Queued(toEditor') : c.id = ed.editId /\ b.kind = "saved" => b.id < c.id
    BY <1>3, <1>4 DEF EditorInv, YoungerInv
  <2>4. \A c \in Queued(toEditor'), b \in Queued(toServer') : c.id = ed.editId => b.kind # "save"
    BY <1>3, <1>1 DEF EditorInv, YoungerInv
  <2> QED  BY <1>3, <2>1, <2>2, <2>3, <2>4 DEF YoungerInv
<1> QED  BY <1>5, <1>6

\* The server answers the oldest request.
LEMMA ServesIs ==
    ASSUME EditorInv, NEW ok \in BOOLEAN, NEW warn \in BOOLEAN, ServeEditor(ok, warn)
    PROVE  AnswersOldest(Head(toServer), Served(Head(toServer), ok, warn))
<1> DEFINE m == Head(toServer)
           a == Served(m, ok, warn)
<1>1. toServer \in Seq(RequestRecord) /\ InIdOrder(toServer) /\ toEditor \in Seq(AnswerRecord) /\ InIdOrder(toEditor)
    BY DEF EditorInv, EditorTypes, WireInOrder
<1>2. toServer # <<>> /\ toServer' = Tail(toServer) /\ ed' = ed /\ texts' = texts
    BY DEF ServeEditor
<1>3. toEditor' = IF m.orphan THEN toEditor ELSE Append(toEditor, a)
    BY DEF ServeEditor
<1>4. /\ m \in RequestRecord /\ m \in Queued(toServer) /\ Tail(toServer) \in Seq(RequestRecord) /\ InIdOrder(Tail(toServer))
      /\ Queued(Tail(toServer)) \subseteq Queued(toServer) /\ \A x \in Queued(Tail(toServer)) : m.id < x.id
    BY <1>1, <1>2, QueuedRest
<1> HIDE DEF m
<1>5. a \in AnswerRecord /\ a.id = m.id /\ a.path = m.path /\ (a.kind = "saved" => m.kind = "save")
    BY <1>4, ServedIs
<1> HIDE DEF a
<1>6. \A x \in Queued(toEditor) : x.id < a.id
    BY <1>4, <1>5 DEF EditorInv, WireInOrder
<1>7. /\ toEditor' \in Seq(AnswerRecord) /\ InIdOrder(toEditor') /\ Queued(toEditor') \subseteq Queued(toEditor) \cup {a}
      /\ m.orphan => toEditor' = toEditor
  BY <1>1, <1>3, <1>5, <1>6, QueuedNext
<1>8. AnswersOldest(m, a)
    BY <1>2, <1>4, <1>5, <1>7 DEF AnswersOldest
<1> QED  BY <1>8 DEF m, a

\* A step of the server that writes nothing.
LEMMA ReadsKeep ==
    ASSUME EditorInv, NEW m, NEW a, AnswersOldest(m, a), UNCHANGED <<files, ghost>>, a.kind # "saved",
           a.text \in {0, files[m.path].text},
           a.kind = "edit" => a.rev = files[m.path].rev /\ a.text = files[m.path].text
    PROVE  EditorInv'
<1>1. /\ m \in Queued(toServer) /\ a.path = m.path /\ ed' = ed /\ texts' = texts /\ Queued(toServer') \subseteq Queued(toServer)
      /\ Queued(toEditor') \subseteq Queued(toEditor) \cup {a}
    BY DEF AnswersOldest
<1>2. EditorTypes'
    BY DEF AnswersOldest, EditorInv, EditorTypes
<1>3. WireInOrder' /\ YoungerInv'
    BY ServesWire
<1>4. SavesInv' /\ MarkedInv'
    BY <1>1 DEF EditorInv, SavesInv, MarkedInv, Unsaved
<1>5. m.path \in Paths /\ texts \in Nat /\ files[m.path].rev \in Nat
    BY DEF AnswersOldest, EditorInv, EditorTypes, RequestRecord
<1>6. TextsInv'
  BY <1>5, <1>1 DEF EditorInv, TextsInv
<1>7. KnownInv'
    BY <1>1, <1>5 DEF EditorInv, KnownInv, Known
<1> QED  BY <1>2, <1>3, <1>4, <1>6, <1>7 DEF EditorInv

\* A step of the server that writes the text of a save.
LEMMA SavesKeep ==
    ASSUME EditorInv, NEW m, NEW a, AnswersOldest(m, a), FileWritten(m.path, m.text), m.kind = "save", files[m.path].rev = m.rev,
           a.text \in {0, files[m.path].text}, a.kind = "saved", a.rev = files[m.path].rev + 1,
           ghost' \in GhostRecord, ghost'.kept = ghost.kept, ghost'.lost = ghost.lost, ghost'.escaped = ghost.escaped,
           ghost'.seen = ghost.seen \cup {m.text},
           ghost'.blind => ghost.blind \/ (~m.orphan /\ m.path = ed.path /\ ed.editing /\ files[m.path].text \notin ghost.seen)
    PROVE  EditorInv'
<1>1. /\ m \in Queued(toServer) /\ a.path = m.path /\ ed' = ed /\ texts' = texts /\ Queued(toServer') \subseteq Queued(toServer)
      /\ Queued(toEditor') \subseteq Queued(toEditor) \cup {a}
    BY DEF AnswersOldest
<1>2. EditorTypes'
    BY WrittenIs DEF AnswersOldest, EditorInv, EditorTypes
<1>3. WireInOrder' /\ YoungerInv'
    BY ServesWire
<1>4. SavesInv' /\ MarkedInv'
    BY <1>1 DEF EditorInv, SavesInv, MarkedInv, Unsaved
<1>5. m.path \in Paths /\ texts \in Nat /\ files[m.path].rev \in Nat /\ m.text <= texts
    BY <1>1 DEF AnswersOldest, EditorInv, EditorTypes, RequestRecord, TextsInv
<1>6. TextsInv'
  BY <1>5, WrittenIs, <1>1 DEF EditorInv, TextsInv
<1>7. ghost'.blind = FALSE
  BY <1>1 DEF EditorInv, KnownInv, Known, GhostRecord
<1>8. ghost.seen \subseteq ghost'.seen
    OBVIOUS
<1>9. a.rev <= files'[a.path].rev /\ files'[a.path].text \in ghost'.seen
    BY <1>1, <1>5, WrittenIs
<1>10. KnownInv'
    BY <1>1, <1>7, <1>8, <1>9, WrittenKeepsKnown
<1> QED  BY <1>2, <1>3, <1>4, <1>6, <1>10 DEF EditorInv

\* handle_save_file and the reads of the server.
LEMMA ServeEditorKeeps ==
    ASSUME EditorInv, NEW ok \in BOOLEAN, NEW warn \in BOOLEAN, ServeEditor(ok, warn)
    PROVE  EditorInv'
<1> DEFINE m == Head(toServer)
           a == Served(m, ok, warn)
<1>1. AnswersOldest(m, a)
    BY ServesIs
<1>2. m \in RequestRecord
    BY <1>1 DEF AnswersOldest
<1>3. /\ a.text \in {0, files[m.path].text}
      /\ a.kind = "saved" => m.kind = "save" /\ ok /\ a.rev = files[m.path].rev + 1
      /\ a.kind = "edit" => a.rev = files[m.path].rev /\ a.text = files[m.path].text
    BY <1>2, ServedIs
<1>4. m.kind = "save" /\ ok => a.kind = "saved"
    BY DEF Served, FileAnswer
<1>5. /\ m.kind = "save" /\ ok => MaySave(m)
      /\ files' = IF m.kind = "save" /\ ok THEN [files EXCEPT ![m.path] = [rev |-> @.rev + 1, text |-> m.text]] ELSE files
      /\ ghost' = IF m.kind = "save" /\ ok
                  THEN [ghost EXCEPT !.blind = @ \/ (~m.orphan /\ m.path = ed.path /\ ed.editing /\ files[m.path].text \notin ghost.seen),
                                     !.seen = @ \cup {m.text}]
                  ELSE ghost
    BY DEF ServeEditor
<1> HIDE DEF m, a
<1>6. CASE ~(m.kind = "save" /\ ok)
    BY <1>1, <1>3, <1>5, <1>6, ReadsKeep
<1>7. CASE m.kind = "save" /\ ok
  <2> DEFINE d == ghost.blind \/ (~m.orphan /\ m.path = ed.path /\ ed.editing /\ files[m.path].text \notin ghost.seen)
             k == ghost.seen \cup {m.text}
  <2>1. m.path \in Paths /\ m.text \in Nat /\ ghost \in GhostRecord /\ files \in [Paths -> [rev : Nat, text : Nat]]
      BY <1>2 DEF RequestRecord, EditorInv, EditorTypes
  <2>2. FileWritten(m.path, m.text)
      BY <1>5, <1>7, <2>1 DEF FileWritten
  <2>3. ghost' = [ghost EXCEPT !.blind = d, !.seen = k]
      BY <1>5, <1>7, <2>1 DEF GhostRecord
  <2>4. d \in BOOLEAN /\ k \in SUBSET Nat
      BY <2>1 DEF GhostRecord
  <2>5. k = ghost.seen \cup {m.text}
      OBVIOUS
  <2>6. d => ghost.blind \/ (~m.orphan /\ m.path = ed.path /\ ed.editing /\ files[m.path].text \notin ghost.seen)
      OBVIOUS
  <2> HIDE DEF d, k
  <2>7. /\ ghost' \in GhostRecord /\ ghost'.kept = ghost.kept /\ ghost'.lost = ghost.lost /\ ghost'.escaped = ghost.escaped
        /\ ghost'.seen = k /\ ghost'.blind = d
      BY <2>1, <2>3, <2>4 DEF GhostRecord
  <2>8. ghost'.seen = ghost.seen \cup {m.text}
      BY <2>5, <2>7
  <2>9. ghost'.blind => ghost.blind \/ (~m.orphan /\ m.path = ed.path /\ ed.editing /\ files[m.path].text \notin ghost.seen)
      BY <2>6, <2>7
  <2>10. files[m.path].rev = m.rev /\ a.kind = "saved" /\ a.rev = files[m.path].rev + 1
      BY <1>3, <1>4, <1>5, <1>7 DEF MaySave
  <2> QED  BY <1>1, <1>3, <1>7, <2>2, <2>7, <2>8, <2>9, <2>10, SavesKeep
<1> QED  BY <1>6, <1>7

\* The editor starts with the invariant.
LEMMA EditorStarts ==
    ASSUME EditorInit
    PROVE  EditorInv
<1>1. Queued(toServer) = {} /\ Queued(toEditor) = {} /\ InIdOrder(toServer) /\ InIdOrder(toEditor)
      /\ toServer \in Seq(RequestRecord) /\ toEditor \in Seq(AnswerRecord)
    BY QueuedFew DEF EditorInit
<1>2. /\ ed \in EditorRecord /\ ed.modal = FALSE /\ ed.editing = FALSE /\ ed.text = 0 /\ ed.lastSaved = 0 /\ ed.editId = 0
      /\ ed.seq = 0 /\ ed.saves = {}
    BY DEF EditorInit, Closed, EditorRecord
<1>3. /\ ghost \in GhostRecord /\ ghost.kept = 0 /\ ghost.lost = FALSE /\ ghost.blind = FALSE
    BY DEF EditorInit, GhostRecord
<1>4. files \in [Paths -> [rev : Nat, text : Nat]] /\ texts = 0 /\ \A p \in Paths : files[p].text = 0
    BY DEF EditorInit
<1>5. EditorTypes
    BY <1>1, <1>2, <1>3, <1>4 DEF EditorTypes
<1>6. WireInOrder /\ TextsInv /\ YoungerInv
    BY <1>1, <1>2, <1>3, <1>4 DEF WireInOrder, TextsInv, YoungerInv
<1>7. SavesInv /\ MarkedInv /\ KnownInv
    BY <1>1, <1>2, <1>3 DEF SavesInv, MarkedInv, KnownInv, Unsaved
<1> QED  BY <1>5, <1>6, <1>7 DEF EditorInv

\* Every step keeps the invariant.
LEMMA EditorSteps ==
    ASSUME EditorInv, [EditorNext]_editorVars
    PROVE  EditorInv'
<1>1. CASE EditorNext
  <2>1. CASE RefreshFile
      BY <2>1, RefreshFileKeeps
  <2>2. CASE EnterEditMode
      BY <2>2, EnterEditModeKeeps
  <2>3. CASE EditText
      BY <2>3, EditTextKeeps
  <2>4. CASE SaveEdit
      BY <2>4, SaveEditKeeps
  <2>5. CASE SaveTimesOut
      BY <2>5, SaveTimesOutKeeps
  <2>6. CASE CancelEdit
      BY <2>6, CancelEditKeeps
  <2>7. CASE ClosePreview
      BY <2>7, ClosePreviewKeeps
  <2>8. CASE EscapePreview
      BY <2>8, EscapeKeeps
  <2>9. CASE SocketBack
      BY <2>9 DEF SocketBack, EditorInv, EditorTypes, WireInOrder, TextsInv, SavesInv, MarkedInv, YoungerInv, KnownInv, Known, Unsaved
  <2>10. ASSUME NEW p \in Paths, OpenFile(p) PROVE EditorInv'
      BY <2>10, OpenFileKeeps
  <2>11. ASSUME NEW p \in Paths, OtherWrites(p) PROVE EditorInv'
      BY <2>11, OtherWritesKeeps
  <2>12. ASSUME NEW ok \in BOOLEAN, NEW warn \in BOOLEAN, ServeEditor(ok, warn) PROVE EditorInv'
      BY <2>12, ServeEditorKeeps
  <2>13. ASSUME NEW b \in BOOLEAN, Receive(b) PROVE EditorInv'
      BY <2>13, ReceiveKeeps
  <2>14. ASSUME NEW b \in BOOLEAN, LoseSocket(b) PROVE EditorInv'
      BY <2>14, LoseSocketKeeps
  <2> QED  BY <1>1, <2>1, <2>2, <2>3, <2>4, <2>5, <2>6, <2>7, <2>8, <2>9, <2>10, <2>11, <2>12, <2>13, <2>14 DEF EditorNext
<1>2. CASE UNCHANGED editorVars
    BY <1>2 DEF editorVars, EditorInv, EditorTypes, WireInOrder, TextsInv, SavesInv, MarkedInv, YoungerInv, KnownInv, Known, Unsaved
<1> QED  BY <1>1, <1>2

\* For every set of files, every number of requests and edits and whatever the
\* source can do, text typed into the editor leaves it only saved, with the user's
\* agreement or behind a dialog hidden by the Escape key, and a save of the open
\* editor never replaces a text the editor has neither loaded nor written
\* (FilePreview of app.js, handle_save_file of socket_events.py).
THEOREM EditsStaySafe == EditorSpec => []EditsSafe
<1>1. EditorInit => EditorInv
    BY EditorStarts
<1>2. EditorInv /\ [EditorNext]_editorVars => EditorInv'
    BY EditorSteps
<1>3. EditorInv => EditsSafe
    BY DEF EditorInv, MarkedInv, KnownInv, EditsSafe, NoEditLost, NoBlindOverwrite
<1> QED  BY <1>1, <1>2, <1>3, PTL DEF EditorSpec

----------------------------------------------------------------------------
(* Folder synchronisation.                                                 *)

SyncSpec == SyncInit /\ [][SyncNext]_syncVars

Here == Folders \cup {0}
Aims == Folders \cup {NoFolder}
InputRecord == [dirty : BOOLEAN, submitted : BOOLEAN, output : BOOLEAN]
ShellRecord == [line : {"empty", "typed", "running"}, left : BOOLEAN, cd : Aims, folder : Here]
ProbeRecord == [shell : Shells, live : BOOLEAN, target : Aims, fresh : BOOLEAN, next : Aims, nextFresh : BOOLEAN,
                ready : BOOLEAN, path : Here \cup {NoFolder}, served : BOOLEAN]
ChangeRecord == [on : BOOLEAN, previous : Here \cup {NoFolder}, polls : Nat, fresh : BOOLEAN]
KeyCodes == Folders \cup {Key, EnterKey}
ScreenCodes == Here \cup {LineFeed}

SyncTypes ==
    /\ shownShell \in Shells \cup {NoShell} /\ synced \subseteq Shells
    /\ input \in [Shells -> InputRecord] /\ shell \in [Shells -> ShellRecord]
    /\ keys \in [Shells -> Seq(KeyCodes)] /\ screen \in [Shells -> Seq(ScreenCodes)]
    /\ probes \in Seq(ProbeRecord) /\ change \in ChangeRecord
    /\ pasting \subseteq ahead /\ ahead \subseteq Shells

\* Keys of the user on their way: characters and, at their end, the line's end.
UserKeys(q) == \E i \in DOMAIN q : q[i] \in {Key, EnterKey}
OneLine(q) == \A i \in DOMAIN q : q[i] = Key \/ (i = Len(q) /\ q[i] = EnterKey)

\* Input typed only where a prompt waits: while a line of the user is in use the browser
\* takes it to be dirty and no prompt is on its way; while its keys are under way or on the
\* line nothing is, and no output of it was seen.
OutputSeen(s) == input[s].submitted /\ input[s].output
LineInv(s) ==
    /\ ~shell[s].left
    /\ LineInUse(s) => input[s].dirty /\ \A i \in DOMAIN screen[s] : screen[s][i] = LineFeed
    /\ UserKeys(keys[s]) \/ shell[s].line = "typed" =>
         OneLine(keys[s]) /\ screen[s] = <<>> /\ shell[s].line # "running" /\ ~OutputSeen(s)

\* A fresh answer that a shell waits, after output of the submitted line, and a fresh cd
\* command: the user's line is not in use any more.
Attests(t) == t.served /\ t.ready /\ t.fresh /\ OutputSeen(t.shell)
AskedInv(t) == /\ t.live => t.shell = shownShell
               /\ Attests(t) /\ t.shell \notin ahead => ~LineInUse(t.shell)

SyncInv ==
    /\ SyncTypes
    /\ \A s \in Shells : s \notin ahead => LineInv(s)
    /\ \A t \in Queued(probes) : AskedInv(t)
    /\ change.fresh /\ shownShell \in Shells \ ahead => ~LineInUse(shownShell)
    /\ mistyped = FALSE /\ followed[1] \in {NoShell, shownShell}

----------------------------------------------------------------------------
(* The requests on their way.                                               *)

\* A request of a step is a new one, or comes from one before and is no fresher.
Begun(x) == x.live /\ ~x.served /\ x.shell = shownShell'
ComesFrom(x, y) ==
    /\ x.shell = y.shell /\ x.served = y.served /\ x.ready = y.ready
    /\ x.live => y.live
    /\ x.fresh => y.fresh

\* Every change outdates the requests of its session, and leaves the others.
LEMMA OutdatedIs ==
    ASSUME NEW ps \in Seq(ProbeRecord), NEW s
    PROVE  /\ Outdated(ps, s) \in Seq(ProbeRecord)
           /\ \A x \in Queued(Outdated(ps, s)) : (x.shell = s => ~x.fresh) /\ \E y \in Queued(ps) : ComesFrom(x, y)
<1> DEFINE q == Outdated(ps, s)
<1>1. ps \in [1 .. Len(ps) -> ProbeRecord] /\ Len(ps) \in Nat /\ DOMAIN ps = 1 .. Len(ps)
    OBVIOUS
<1>2. ASSUME NEW i \in 1 .. Len(ps)
      PROVE  q[i] \in ProbeRecord /\ (q[i].shell = s => ~q[i].fresh) /\ ComesFrom(q[i], ps[i])
  <2> DEFINE t == ps[i]
  <2>1. t \in ProbeRecord
      BY <1>1
  <2>2. q[i] = IF t.shell = s THEN [t EXCEPT !.fresh = FALSE, !.nextFresh = FALSE] ELSE t
      BY <1>1 DEF Outdated
  <2> DEFINE v == [t EXCEPT !.fresh = FALSE, !.nextFresh = FALSE]
  <2>3. v \in ProbeRecord
      BY <2>1 DEF ProbeRecord
  <2>4. v.shell = t.shell /\ v.live = t.live /\ v.served = t.served /\ v.ready = t.ready /\ v.fresh = FALSE
      BY <2>1 DEF ProbeRecord
  <2>5. t.fresh \in BOOLEAN /\ t.live \in BOOLEAN
      BY <2>1 DEF ProbeRecord
  <2> HIDE DEF t, q, v
  <2>6. CASE t.shell = s
    <3>1. q[i] = v
        BY <2>2, <2>6 DEF v
    <3> QED  BY <2>3, <2>4, <3>1, <2>5 DEF ComesFrom, t
  <2>7. CASE t.shell # s
    <3>1. q[i] = t
        BY <2>2, <2>7
    <3> QED  BY <2>1, <2>5, <2>7, <3>1 DEF ComesFrom, t
  <2> QED  BY <2>6, <2>7
<1>3. q \in [1 .. Len(ps) -> ProbeRecord] /\ Len(q) = Len(ps) /\ q \in Seq(ProbeRecord)
  <2>1. q \in [1 .. Len(ps) -> ProbeRecord]
      BY <1>1, <1>2 DEF Outdated
  <2> HIDE DEF q
  <2> QED  BY <1>1, <2>1
<1> HIDE DEF q
<1>4. \A x \in Queued(q) : \E i \in 1 .. Len(ps) : x = q[i]
    BY <1>3 DEF Queued
<1>5. \A i \in 1 .. Len(ps) : ps[i] \in Queued(ps)
    BY DEF Queued
<1> QED  BY <1>2, <1>3, <1>4, <1>5 DEF q

\* Requests that are cancelled are heard by no one.
LEMMA DroppedIs ==
    ASSUME NEW ps \in Seq(ProbeRecord)
    PROVE  /\ Dropped(ps) \in Seq(ProbeRecord)
           /\ \A x \in Queued(Dropped(ps)) : ~x.live /\ \E y \in Queued(ps) : ComesFrom(x, y)
<1> DEFINE q == Dropped(ps)
<1>1. ps \in [1 .. Len(ps) -> ProbeRecord] /\ Len(ps) \in Nat /\ DOMAIN ps = 1 .. Len(ps)
    OBVIOUS
<1>2. ASSUME NEW i \in 1 .. Len(ps)
      PROVE  q[i] \in ProbeRecord /\ ~q[i].live /\ ComesFrom(q[i], ps[i])
  <2> DEFINE t == ps[i]
  <2>1. t \in ProbeRecord /\ q[i] = [t EXCEPT !.live = FALSE]
      BY <1>1 DEF Dropped
  <2> DEFINE v == [t EXCEPT !.live = FALSE]
  <2>2. v \in ProbeRecord
      BY <2>1 DEF ProbeRecord
  <2>3. v.shell = t.shell /\ v.live = FALSE /\ v.served = t.served /\ v.ready = t.ready /\ v.fresh = t.fresh
      BY <2>1 DEF ProbeRecord
  <2>4. q[i] = v
      BY <2>1
  <2> HIDE DEF q, v
  <2> QED  BY <2>2, <2>3, <2>4 DEF ComesFrom
<1>3. q \in [1 .. Len(ps) -> ProbeRecord] /\ Len(q) = Len(ps) /\ q \in Seq(ProbeRecord)
  <2>1. q \in [1 .. Len(ps) -> ProbeRecord]
      BY <1>1, <1>2 DEF Dropped
  <2> HIDE DEF q
  <2> QED  BY <1>1, <2>1
<1> HIDE DEF q
<1>4. \A x \in Queued(q) : \E i \in 1 .. Len(ps) : x = q[i]
    BY <1>3 DEF Queued
<1>5. \A i \in 1 .. Len(ps) : ps[i] \in Queued(ps)
    BY DEF Queued
<1> QED  BY <1>2, <1>3, <1>4, <1>5 DEF q

\* A poll adds one request, which is not served yet.
LEMMA PollIs ==
    ASSUME NEW ps \in Seq(ProbeRecord), NEW s \in Shells, NEW to \in Aims, NEW fr \in BOOLEAN
    PROVE  /\ Poll(ps, s, to, fr) \in Seq(ProbeRecord)
           /\ \A x \in Queued(Poll(ps, s, to, fr)) : x \in Queued(ps) \/ (x.live /\ ~x.served /\ x.shell = s)
<1> DEFINE t == [shell |-> s, live |-> TRUE, target |-> to, fresh |-> fr, next |-> NoFolder,
                 nextFresh |-> FALSE, ready |-> FALSE, path |-> NoFolder, served |-> FALSE]
<1>1. t \in ProbeRecord /\ t.live /\ ~t.served /\ t.shell = s /\ Poll(ps, s, to, fr) = Append(ps, t)
    BY DEF ProbeRecord, Aims, Poll
<1> HIDE DEF t
<1>2. Append(ps, t) \in Seq(ProbeRecord) /\ Len(Append(ps, t)) = Len(ps) + 1
    BY <1>1
<1>3. \A i \in 1 .. Len(ps) + 1 : Append(ps, t)[i] = IF i <= Len(ps) THEN ps[i] ELSE t
    BY <1>1
<1> QED  BY <1>1, <1>2, <1>3 DEF Queued

\* The requests after the first.
LEMMA OthersAre ==
    ASSUME NEW ps \in Seq(ProbeRecord), ps # <<>>
    PROVE  /\ Tail(ps) \in Seq(ProbeRecord) /\ Queued(Tail(ps)) \subseteq Queued(ps)
           /\ Head(ps) \in ProbeRecord /\ Head(ps) \in Queued(ps)
  BY DEF Queued

----------------------------------------------------------------------------
(* What a step may do to a session's line.                                  *)

\* The line did not come into use, nor was output of the line newly seen.
Eased(s) ==
    s \notin ahead' => /\ s \notin ahead
                       /\ LineInUse(s)' => LineInUse(s)
                       /\ OutputSeen(s)' => OutputSeen(s)

\* What was typed ahead of the prompt, what is on the line and on the screen stay.
SameLine(s) ==
    /\ keys'[s] = keys[s] /\ screen'[s] = screen[s] /\ shell'[s] = shell[s] /\ input'[s] = input[s]
    /\ s \in ahead' <=> s \in ahead

\* A session whose line stays keeps its invariant.
LEMMA LineStays ==
    ASSUME NEW s, SameLine(s), s \notin ahead => LineInv(s)
    PROVE  Eased(s) /\ (s \notin ahead' => LineInv(s)')
  BY DEF SameLine, Eased, LineInv, LineInUse, OutputSeen

\* Requests of the step are no better than those before.
LEMMA ProbesKeep ==
    ASSUME SyncInv,
           \A x \in Queued(probes') :
             \/ Begun(x)
             \/ /\ \E y \in Queued(probes) : ComesFrom(x, y)
                /\ x.live => shownShell' = shownShell
                /\ x.fresh => Eased(x.shell)
    PROVE  \A x \in Queued(probes') : AskedInv(x)'
  BY DEF Begun, AskedInv, Attests, SyncInv, ComesFrom, Eased

\* The controller's own fields, and the parts of the invariant that are about them.
ControlOK ==
    /\ shownShell \in Shells \cup {NoShell} /\ synced \subseteq Shells /\ probes \in Seq(ProbeRecord)
    /\ change \in ChangeRecord /\ followed[1] \in {NoShell, shownShell}
LineTypes ==
    /\ input \in [Shells -> InputRecord] /\ shell \in [Shells -> ShellRecord]
    /\ keys \in [Shells -> Seq(KeyCodes)] /\ screen \in [Shells -> Seq(ScreenCodes)]
    /\ pasting \subseteq ahead /\ ahead \subseteq Shells

\* An awaited change is no fresher than before.
NoFresher ==
    change'.fresh /\ shownShell' \in Shells \ ahead' =>
      change.fresh /\ shownShell' = shownShell /\ Eased(shownShell)

\* A step of the controller that leaves the sessions' lines alone.
LinesStay == UNCHANGED <<input, remoteVars, syncHistory>>

\* Where every line stays, what is known of the lines stays.
LEMMA LinesStayKeeps ==
    ASSUME SyncInv, LinesStay
    PROVE  /\ LineTypes' /\ mistyped' = FALSE
           /\ \A s \in Shells : Eased(s) /\ (s \notin ahead' => LineInv(s)')
  BY LineStays DEF LinesStay, remoteVars, syncHistory, SameLine, SyncInv, SyncTypes, LineTypes

\* A step of the controller that sends no command.
LEMMA ControlKeeps ==
    ASSUME SyncInv, LinesStay, ControlOK', NoFresher,
           \A x \in Queued(probes') :
             Begun(x) \/ ((\E y \in Queued(probes) : ComesFrom(x, y)) /\ (x.live => shownShell' = shownShell))
    PROVE  SyncInv'
<1>1. /\ LineTypes' /\ mistyped' = FALSE
      /\ \A s \in Shells : Eased(s) /\ (s \notin ahead' => LineInv(s)')
    BY LinesStayKeeps
<1>2. \A x \in Queued(probes') : x.shell \in Shells
  <2>1. probes' \in Seq(ProbeRecord)
      BY DEF ControlOK
  <2>2. \A x \in Queued(probes') : x \in ProbeRecord
      BY <2>1, QueuedTyped
  <2> QED  BY <2>2 DEF ProbeRecord
<1>3. \A x \in Queued(probes') : AskedInv(x)'
    BY <1>1, <1>2, ProbesKeep
<1>4. change'.fresh /\ shownShell' \in Shells \ ahead' => ~LineInUse(shownShell)'
  BY <1>1 DEF NoFresher, Eased, SyncInv, LineInUse
<1> QED  BY <1>1, <1>3, <1>4 DEF SyncInv, SyncTypes, ControlOK, LineTypes


\* Steps of the controller in one form: the requests before, cancelled or not, and
\* perhaps one more.
LEMMA RequestsKept ==
    ASSUME SyncInv, NEW more \in BOOLEAN, NEW drop \in BOOLEAN, NEW to \in Aims,
           more => shownShell' \in Shells, drop \/ shownShell' = shownShell,
           probes' = LET kept == IF drop THEN Dropped(probes) ELSE probes IN
                     IF more THEN Poll(kept, shownShell', to, TRUE) ELSE kept
    PROVE  /\ probes' \in Seq(ProbeRecord)
           /\ \A x \in Queued(probes') :
                Begun(x) \/ ((\E y \in Queued(probes) : ComesFrom(x, y)) /\ (x.live => shownShell' = shownShell))
<1> DEFINE kept == IF drop THEN Dropped(probes) ELSE probes
<1>1. probes \in Seq(ProbeRecord)
    BY DEF SyncInv, SyncTypes
<1>2. \A y : ComesFrom(y, y)
    BY DEF ComesFrom
<1>3. /\ kept \in Seq(ProbeRecord)
      /\ \A x \in Queued(kept) : (\E y \in Queued(probes) : ComesFrom(x, y)) /\ (x.live => shownShell' = shownShell)
    BY <1>1, <1>2, DroppedIs
<1>4. probes' = IF more THEN Poll(kept, shownShell', to, TRUE) ELSE kept
    OBVIOUS
<1> HIDE DEF kept
<1>5. CASE more
  <2> DEFINE s == shownShell'
  <2>1. s \in Shells /\ probes' = Poll(kept, s, to, TRUE)
      BY <1>4, <1>5
  <2> HIDE DEF s
  <2>2. /\ Poll(kept, s, to, TRUE) \in Seq(ProbeRecord)
        /\ \A x \in Queued(Poll(kept, s, to, TRUE)) : x \in Queued(kept) \/ (x.live /\ ~x.served /\ x.shell = s)
      BY <1>3, <2>1, PollIs
  <2>3. probes' \in Seq(ProbeRecord) /\ \A x \in Queued(probes') : x \in Queued(kept) \/ Begun(x)
      BY <2>1, <2>2 DEF Begun, s
  <2> QED  BY <1>3, <2>3
<1> QED  BY <1>3, <1>4, <1>5

\* No change is awaited to begin with.
LEMMA NoChangeIs == NoChange \in ChangeRecord /\ NoChange.fresh = FALSE
  BY DEF NoChange, ChangeRecord

\* A folder that is navigated to and a poll that has none.
LEMMA AimsAre == NoFolder \in Aims /\ \A p \in Folders : p \in Aims
  BY DEF Aims

\* Showing another session keeps the invariant: its requests begin anew.
LEMMA SetContextKeeps ==
    ASSUME SyncInv, NEW s \in Shells, SetContext(s)
    PROVE  SyncInv'
<1>1. /\ shownShell' = s /\ followed' = <<NoShell, NoFolder>> /\ change' = NoChange /\ LinesStay
      /\ probes' = LET kept == IF TRUE THEN Dropped(probes) ELSE probes IN
                   IF s \in synced THEN Poll(kept, shownShell', NoFolder, TRUE) ELSE kept
      /\ synced' = synced
    BY DEF SetContext, LinesStay
<1>2. /\ probes' \in Seq(ProbeRecord)
      /\ \A x \in Queued(probes') :
           Begun(x) \/ ((\E y \in Queued(probes) : ComesFrom(x, y)) /\ (x.live => shownShell' = shownShell))
  <2> DEFINE m == s \in synced
  <2>1. m \in BOOLEAN /\ TRUE \in BOOLEAN /\ NoFolder \in Aims /\ shownShell' \in Shells
      BY <1>1, AimsAre
  <2>2. probes' = LET kept == IF TRUE THEN Dropped(probes) ELSE probes IN
                  IF m THEN Poll(kept, shownShell', NoFolder, TRUE) ELSE kept
      BY <1>1
  <2> HIDE DEF m
  <2> QED  BY <2>1, <2>2, RequestsKept
<1>3. ControlOK' /\ NoFresher
    BY <1>1, <1>2, NoChangeIs DEF ControlOK, NoFresher, SyncInv, SyncTypes
<1> QED  BY <1>1, <1>2, <1>3, ControlKeeps

\* Switching synchronisation on or off keeps the invariant.
LEMMA SetEnabledKeeps ==
    ASSUME SyncInv, NEW on \in BOOLEAN, SetEnabled(on)
    PROVE  SyncInv'
  BY AimsAre, RequestsKept, NoChangeIs, ControlKeeps DEF SetEnabled, LinesStay, SyncInv, SyncTypes,
     ControlOK, NoFresher


\* A click on a folder keeps the invariant: it waits for the answer under way, or asks.
LEMMA NavigateKeeps ==
    ASSUME SyncInv, NEW p \in Folders, Navigate(p)
    PROVE  SyncInv'
<1>0. /\ shownShell' = shownShell /\ followed' = followed /\ change' = change /\ LinesStay /\ synced' = synced
      /\ shownShell \in Shells
    BY DEF Navigate, LinesStay, SyncInv, SyncTypes, Active
<1>1. NoFresher
  BY <1>0, LineStays DEF LinesStay, remoteVars, syncHistory, SameLine, NoFresher, SyncInv
<1>2. probes \in Seq(ProbeRecord) /\ p \in Aims
    BY AimsAre DEF SyncInv, SyncTypes
<1>3. ASSUME probes' \in Seq(ProbeRecord),
             \A x \in Queued(probes') :
               Begun(x) \/ ((\E y \in Queued(probes) : ComesFrom(x, y)) /\ (x.live => shownShell' = shownShell))
      PROVE  SyncInv'
  <2>1. ControlOK'
      BY <1>0, <1>3 DEF ControlOK, SyncInv, SyncTypes
  <2> QED  BY <1>0, <1>1, <1>3, <2>1, ControlKeeps
<1>4. \A y : ComesFrom(y, y)
    BY DEF ComesFrom
<1>5. CASE probes' = probes
    BY <1>0, <1>2, <1>3, <1>4, <1>5
<1>6. CASE probes' = Poll(probes, shownShell, p, TRUE)
  <2>1. /\ probes' \in Seq(ProbeRecord)
        /\ \A x \in Queued(probes') : x \in Queued(probes) \/ (x.live /\ ~x.served /\ x.shell = shownShell)
      BY <1>0, <1>2, <1>6, PollIs
  <2>2. \A x \in Queued(probes') :
          Begun(x) \/ ((\E y \in Queued(probes) : ComesFrom(x, y)) /\ (x.live => shownShell' = shownShell))
      BY <1>0, <1>4, <2>1 DEF Begun
  <2> QED  BY <1>3, <2>1, <2>2
<1>7. CASE probes' = [i \in DOMAIN probes |-> IF i \in Requests
                        THEN [probes[i] EXCEPT !.next = p, !.nextFresh = TRUE] ELSE probes[i]]
  <2>1. Len(probes) \in Nat /\ DOMAIN probes = 1 .. Len(probes) /\ \A i \in 1 .. Len(probes) : probes[i] \in ProbeRecord
      BY <1>2
  <2>2. ASSUME NEW i \in 1 .. Len(probes)
        PROVE  probes'[i] \in ProbeRecord /\ ComesFrom(probes'[i], probes[i])
    <3> DEFINE t == probes[i]
               v == [t EXCEPT !.next = p, !.nextFresh = TRUE]
    <3>1. t \in ProbeRecord /\ probes'[i] = IF i \in Requests THEN v ELSE t
        BY <1>7, <2>1
    <3>2. v \in ProbeRecord
        BY <1>2, <3>1 DEF ProbeRecord
    <3>3. v.shell = t.shell /\ v.live = t.live /\ v.served = t.served /\ v.ready = t.ready /\ v.fresh = t.fresh
        BY <3>1 DEF ProbeRecord
    <3> HIDE DEF v
    <3> QED  BY <1>4, <3>1, <3>2, <3>3 DEF ComesFrom
  <2>3. probes' \in [1 .. Len(probes) -> ProbeRecord]
      BY <1>7, <2>1, <2>2
  <2>4. probes' \in Seq(ProbeRecord) /\ Len(probes') = Len(probes)
      BY <2>1, <2>3
  <2>5. \A x \in Queued(probes') : \E i \in 1 .. Len(probes) : x = probes'[i]
      BY <2>4 DEF Queued
  <2>6. \A i \in 1 .. Len(probes) : probes[i] \in Queued(probes)
      BY DEF Queued
  <2> QED  BY <1>0, <1>3, <2>2, <2>4, <2>5, <2>6
<1> QED  BY <1>5, <1>6, <1>7 DEF Navigate

\* A poll of the timer, a request that times out and a late folder keep the invariant.
LEMMA PollTimerKeeps ==
    ASSUME SyncInv, PollTimer
    PROVE  SyncInv'
<1>0. /\ shownShell' = shownShell /\ followed' = followed /\ change' = change /\ LinesStay /\ synced' = synced
    BY DEF PollTimer, LinesStay
<1> DEFINE m == Active /\ Requests = {}
<1>1. probes' = LET kept == IF FALSE THEN Dropped(probes) ELSE probes IN
                IF m THEN Poll(kept, shownShell', NoFolder, TRUE) ELSE kept
    BY <1>0 DEF PollTimer
<1>2. m \in BOOLEAN /\ FALSE \in BOOLEAN /\ (m => shownShell' \in Shells) /\ NoFolder \in Aims
    BY <1>0, AimsAre DEF Active, SyncInv, SyncTypes
<1> HIDE DEF m
<1>3. /\ probes' \in Seq(ProbeRecord)
      /\ \A x \in Queued(probes') :
           Begun(x) \/ ((\E y \in Queued(probes) : ComesFrom(x, y)) /\ (x.live => shownShell' = shownShell))
    BY <1>0, <1>1, <1>2, RequestsKept
<1>4. NoFresher
  BY <1>0, LineStays DEF LinesStay, remoteVars, syncHistory, SameLine, NoFresher, SyncInv
<1>5. ControlOK'
    BY <1>0, <1>3 DEF ControlOK, SyncInv, SyncTypes
<1> QED  BY <1>0, <1>3, <1>4, <1>5, ControlKeeps

\* A request for the folder that times out keeps the invariant.
LEMMA RequestTimesOutKeeps ==
    ASSUME SyncInv, RequestTimesOut
    PROVE  SyncInv'
  BY AimsAre, RequestsKept, NoChangeIs, ControlKeeps DEF RequestTimesOut, LinesStay, NoFresher,
     ControlOK, SyncInv, SyncTypes

\* A folder the shell announced leaves the change that is awaited, or ends it.
LEMMA OscFollowsIs ==
    ASSUME SyncInv, NEW p, OscFollows(shownShell, p), shownShell' = shownShell
    PROVE  /\ followed'[1] \in {NoShell, shownShell'} /\ change' \in ChangeRecord
           /\ change'.fresh => change.fresh
  BY NoChangeIs DEF OscFollows, SyncInv, SyncTypes

\* The timer after a folder was reported by the terminal keeps the invariant.
LEMMA OscTimerKeeps ==
    ASSUME SyncInv, OscTimer
    PROVE  SyncInv'
<1>0. shownShell' = shownShell /\ LinesStay /\ synced' = synced /\ probes' = probes
    BY DEF OscTimer, LinesStay
<1>1. followed'[1] \in {NoShell, shownShell'} /\ change' \in ChangeRecord /\ (change'.fresh => change.fresh)
    BY <1>0, OscFollowsIs DEF OscTimer, SyncInv, SyncTypes
<1>2. NoFresher
  BY <1>0, <1>1, LineStays DEF LinesStay, remoteVars, syncHistory, SameLine, NoFresher, SyncInv
<1>3. ControlOK'
    BY <1>0, <1>1 DEF ControlOK, SyncInv, SyncTypes
<1>4. \A x \in Queued(probes') :
        Begun(x) \/ ((\E y \in Queued(probes) : ComesFrom(x, y)) /\ (x.live => shownShell' = shownShell))
    BY <1>0 DEF ComesFrom
<1> QED  BY <1>0, <1>2, <1>3, <1>4, ControlKeeps


\* A probe that is served attests a prompt only when the line is not in use: keys of the
\* user are gone from the wire by the time output of the line was seen.
LEMMA ServeProbeKeeps ==
    ASSUME SyncInv, ServeProbe
    PROVE  SyncInv'
<1>0. /\ shownShell' = shownShell /\ followed' = followed /\ change' = change /\ LinesStay /\ synced' = synced
    BY DEF ServeProbe, LinesStay
<1>1. PICK i \in DOMAIN probes :
        LET s == probes[i].shell IN
        probes' = [probes EXCEPT ![i].served = TRUE, ![i].path = shell[s].folder, ![i].ready = shell[s].line # "running"]
    BY DEF ServeProbe
<1>2. /\ probes \in Seq(ProbeRecord) /\ Len(probes) \in Nat /\ DOMAIN probes = 1 .. Len(probes)
      /\ i \in 1 .. Len(probes) /\ probes[i] \in ProbeRecord /\ probes[i] \in Queued(probes)
    BY <1>1 DEF SyncInv, SyncTypes, Queued
<1> DEFINE t == probes[i]
           s == t.shell
           f == shell[s].folder
           r == shell[s].line # "running"
           v == [t EXCEPT !.served = TRUE, !.path = f, !.ready = r]
<1>3. s \in Shells /\ f \in Here /\ r \in BOOLEAN
    BY <1>2 DEF ProbeRecord, SyncInv, SyncTypes, ShellRecord
<1>4. probes' = [probes EXCEPT ![i] = v]
    BY <1>1, <1>2
<1>t. t \in ProbeRecord /\ t \in Queued(probes)
    BY <1>2
<1>r. r = (shell[s].line # "running")
    OBVIOUS
<1> HIDE DEF f, r, t
<1>5. v \in ProbeRecord
    BY <1>3, <1>t DEF ProbeRecord
<1>6. v.shell = s /\ v.live = t.live /\ v.fresh = t.fresh /\ v.ready = r
    BY <1>t DEF ProbeRecord
<1> HIDE DEF v, s
<1>7. PICK w, u : w = v /\ u = s
    OBVIOUS
<1>8. /\ probes' \in Seq(ProbeRecord) /\ \A x \in Queued(probes') : x \in Queued(probes) \/ x = w
      /\ w.shell = u /\ u \in Shells /\ w.live = t.live /\ w.ready = r
    BY <1>2, <1>3, <1>4, <1>5, <1>6, <1>7 DEF Queued
<1>9. /\ LineTypes' /\ mistyped' = FALSE
      /\ \A c \in Shells : Eased(c) /\ (c \notin ahead' => LineInv(c)')
    BY <1>0, LinesStayKeeps
<1>10. /\ \A c \in Shells : (LineInUse(c)' <=> LineInUse(c)) /\ (OutputSeen(c)' <=> OutputSeen(c))
       /\ ahead' = ahead
    BY <1>0 DEF LinesStay, remoteVars, syncHistory, LineInUse, OutputSeen
<1>11. AskedInv(w)'
  <2>1. w.live => w.shell = shownShell'
      BY <1>0, <1>7, <1>8, <1>t DEF SyncInv, AskedInv, s
  <2>2. ASSUME r, OutputSeen(u), u \notin ahead PROVE ~LineInUse(u)
      BY <1>7, <1>8, <1>r, <2>2 DEF SyncInv, LineInv, LineInUse, UserKeys
  <2>3. Attests(w)' => w.ready /\ OutputSeen(u)'
      BY <1>8 DEF Attests, OutputSeen
  <2> QED  BY <1>8, <1>10, <2>1, <2>2, <2>3 DEF AskedInv
<1>12. \A x \in Queued(probes) : x.shell \in Shells
  <2>1. \A x \in Queued(probes) : x \in ProbeRecord
      BY <1>2, QueuedTyped
  <2> QED  BY <2>1 DEF ProbeRecord
<1>13. \A x \in Queued(probes) : AskedInv(x)'
    BY <1>0, <1>10, <1>12 DEF SyncInv, AskedInv, Attests
<1>14. change'.fresh /\ shownShell' \in Shells \ ahead' => ~LineInUse(shownShell)'
  BY <1>0, <1>10 DEF LinesStay, remoteVars, LineInUse, SyncInv
<1>15. SyncTypes'
    BY <1>0, <1>8, <1>9 DEF SyncInv, SyncTypes, LineTypes
<1>16. \A x \in Queued(probes') : AskedInv(x)'
    BY <1>8, <1>11, <1>13
<1> QED  BY <1>0, <1>9, <1>14, <1>15, <1>16 DEF SyncInv

----------------------------------------------------------------------------
(* Keys on their way to a shell.                                            *)

\* A key at the end.
LEMMA KeysAppend ==
    ASSUME NEW q \in Seq(KeyCodes), NEW k \in KeyCodes
    PROVE  /\ Append(q, k) \in Seq(KeyCodes) /\ q \o <<k>> = Append(q, k)
           /\ UserKeys(Append(q, k)) <=> UserKeys(q) \/ k \in {Key, EnterKey}
           /\ k \in {Key, EnterKey} /\ (\A i \in DOMAIN q : q[i] = Key) => OneLine(Append(q, k))
<1> DEFINE z == Append(q, k)
<1>1. z \in Seq(KeyCodes) /\ q \o <<k>> = z
    OBVIOUS
<1>2. DOMAIN q = 1 .. Len(q) /\ Len(q) \in Nat /\ Len(z) = Len(q) + 1 /\ DOMAIN z = 1 .. Len(q) + 1
    OBVIOUS
<1>3. \A i \in 1 .. Len(q) + 1 : z[i] = IF i <= Len(q) THEN q[i] ELSE k
    OBVIOUS
<1> HIDE DEF z
<1>4. UserKeys(z) <=> UserKeys(q) \/ k \in {Key, EnterKey}
    BY <1>2, <1>3 DEF UserKeys
<1>5. k \in {Key, EnterKey} /\ (\A i \in DOMAIN q : q[i] = Key) => OneLine(z)
    BY <1>2, <1>3 DEF OneLine
<1> QED  BY <1>1, <1>4, <1>5 DEF z

\* The first key.
LEMMA KeysTail ==
    ASSUME NEW q \in Seq(KeyCodes), q # <<>>
    PROVE  /\ Tail(q) \in Seq(KeyCodes) /\ Head(q) \in KeyCodes
           /\ UserKeys(Tail(q)) => UserKeys(q)
           /\ Head(q) \in {Key, EnterKey} => UserKeys(q)
           /\ OneLine(q) => /\ OneLine(Tail(q))
                            /\ Head(q) = Key \/ (Head(q) = EnterKey /\ ~UserKeys(Tail(q)))
<1> DEFINE z == Tail(q)
<1>1. z \in Seq(KeyCodes) /\ Head(q) = q[1] /\ q[1] \in KeyCodes
    OBVIOUS
<1>2. DOMAIN q = 1 .. Len(q) /\ Len(q) \in Nat /\ Len(q) > 0 /\ Len(z) = Len(q) - 1 /\ DOMAIN z = 1 .. Len(q) - 1
    OBVIOUS
<1>3. \A i \in 1 .. Len(q) - 1 : z[i] = q[i + 1]
    OBVIOUS
<1> HIDE DEF z
<1>4. (UserKeys(z) => UserKeys(q)) /\ (Head(q) \in {Key, EnterKey} => UserKeys(q))
    BY <1>1, <1>2, <1>3 DEF UserKeys
<1>5. ASSUME OneLine(q) PROVE OneLine(z)
    BY <1>2, <1>3, <1>5 DEF OneLine
<1>6. ASSUME OneLine(q) PROVE Head(q) = Key \/ (Head(q) = EnterKey /\ ~UserKeys(z))
    BY <1>1, <1>2, <1>6 DEF OneLine, UserKeys
<1> QED  BY <1>1, <1>4, <1>5, <1>6 DEF z

\* Codes differ.
LEMMA CodesDiffer ==
    /\ \A p \in Folders : p # NoFolder /\ p \notin {Key, EnterKey}
    /\ Key # EnterKey /\ Key \in KeyCodes /\ EnterKey \in KeyCodes /\ \A p \in Folders : p \in KeyCodes
  BY FoldersAssumption DEF Key, EnterKey, KeyCodes


----------------------------------------------------------------------------
(* Steps at one session's line.                                             *)

OthersStay(s) == \A u \in Shells \ {s} : SameLine(u)

\* A step at the line of one session keeps the invariant if its requests and the change it
\* awaits are outdated, or the line did not come into use.
LEMMA OneLineKeeps ==
    ASSUME SyncInv, NEW s \in Shells, OthersStay(s), ControlOK', LineTypes', mistyped' = FALSE, shownShell' = shownShell,
           s \notin ahead' => LineInv(s)',
           \A x \in Queued(probes') : (\E y \in Queued(probes) : ComesFrom(x, y)) /\ (x.fresh /\ x.shell = s => Eased(s)),
           change'.fresh => \/ change.fresh /\ (shownShell = s => Eased(s))
                            \/ shownShell = s /\ (s \notin ahead' => ~LineInUse(s)')
    PROVE  SyncInv'
<1>1. \A u \in Shells \ {s} : Eased(u) /\ (u \notin ahead' => LineInv(u)')
    BY LineStays DEF OthersStay, SyncInv
<1>2. \A x \in Queued(probes') : x.shell \in Shells
  <2>1. probes' \in Seq(ProbeRecord)
      BY DEF ControlOK
  <2>2. \A x \in Queued(probes') : x \in ProbeRecord
      BY <2>1, QueuedTyped
  <2> QED  BY <2>2 DEF ProbeRecord
<1>3. \A x \in Queued(probes') : AskedInv(x)'
    BY <1>1, <1>2, ProbesKeep
<1>4. change'.fresh /\ shownShell' \in Shells \ ahead' => ~LineInUse(shownShell)'
  BY <1>1 DEF Eased, SyncInv, LineInUse
<1>5. SyncTypes' /\ \A u \in Shells : u \notin ahead' => LineInv(u)'
    BY <1>1 DEF SyncTypes, ControlOK, LineTypes
<1> QED  BY <1>3, <1>4, <1>5 DEF SyncInv, ControlOK

\* The controller stays, up to what is outdated.
Outdates(s) == /\ probes' = Outdated(probes, s) /\ change' = OutdatedChange(change, s)
               /\ UNCHANGED <<shownShell, synced, followed>>

\* Outdating the requests of a session leaves none of them fresh.
LEMMA OutdatesIs ==
    ASSUME SyncInv, NEW s, Outdates(s)
    PROVE  /\ ControlOK' /\ (change'.fresh => change.fresh /\ shownShell # s)
           /\ \A x \in Queued(probes') : (\E y \in Queued(probes) : ComesFrom(x, y)) /\ ~(x.fresh /\ x.shell = s)
<1> DEFINE c == [change EXCEPT !.fresh = FALSE]
<1>1. probes \in Seq(ProbeRecord) /\ change \in ChangeRecord
    BY DEF SyncInv, SyncTypes
<1>2. /\ probes' \in Seq(ProbeRecord)
      /\ \A x \in Queued(probes') : (x.shell = s => ~x.fresh) /\ \E y \in Queued(probes) : ComesFrom(x, y)
    BY <1>1, OutdatedIs DEF Outdates
<1>3. c \in ChangeRecord /\ c.fresh = FALSE /\ change' = IF s = shownShell THEN c ELSE change
    BY <1>1 DEF ChangeRecord, Outdates, OutdatedChange
<1> HIDE DEF c
<1>4. change' \in ChangeRecord /\ (change'.fresh => change.fresh /\ shownShell # s)
    BY <1>1, <1>3
<1>5. ControlOK'
    BY <1>2, <1>4 DEF ControlOK, Outdates, SyncInv, SyncTypes
<1> QED  BY <1>2, <1>4, <1>5

\* The controller stays as it is.
ControlStays == UNCHANGED <<shownShell, synced, followed, probes, change>>

\* Where the page's own state stays, it stays in order.
LEMMA ControlStaysIs ==
    ASSUME SyncInv, ControlStays
    PROVE  ControlOK' /\ (change'.fresh => change.fresh) /\ \A x \in Queued(probes') : \E y \in Queued(probes) : ComesFrom(x, y)
  BY DEF ControlStays, ControlOK, SyncInv, SyncTypes, ComesFrom

\* Noting input marks the line as dirty.
LEMMA NoteInputIs ==
    ASSUME SyncInv, NEW s \in Shells, NEW submits \in BOOLEAN, input' = NoteInput(s, submits)
    PROVE  /\ input' \in [Shells -> InputRecord] /\ \A u \in Shells \ {s} : input'[u] = input[u]
           /\ input'[s].dirty = TRUE /\ input'[s].output = FALSE /\ ~OutputSeen(s)'
  BY DEF SyncInv, SyncTypes, NoteInput, InputRecord, OutputSeen

----------------------------------------------------------------------------
(* The user at the terminal.                                                *)

\* One key is typed: onto a line that waits, or ahead of the prompt.
LEMMA KeyTyped ==
    ASSUME SyncInv, NEW s \in Shells, NEW submits \in BOOLEAN, NEW k \in {Key, EnterKey}, Typed(s, submits, <<k>>),
           ahead' = IF Settled(s) THEN ahead ELSE ahead \cup {s},
           UNCHANGED <<shownShell, synced, followed, shell, screen, pasting, mistyped>>
    PROVE  SyncInv'
<1>1. keys \in [Shells -> Seq(KeyCodes)] /\ k \in KeyCodes /\ keys[s] \in Seq(KeyCodes)
    BY CodesDiffer DEF SyncInv, SyncTypes
<1>2. /\ keys[s] \o <<k>> = Append(keys[s], k) /\ Append(keys[s], k) \in Seq(KeyCodes)
      /\ (\A i \in DOMAIN keys[s] : keys[s][i] = Key) => OneLine(Append(keys[s], k))
    BY <1>1, KeysAppend
<1>3. /\ keys' \in [Shells -> Seq(KeyCodes)] /\ keys'[s] = Append(keys[s], k)
      /\ \A u \in Shells \ {s} : keys'[u] = keys[u]
    BY <1>1, <1>2 DEF Typed
<1>4. /\ input' \in [Shells -> InputRecord] /\ \A u \in Shells \ {s} : input'[u] = input[u]
      /\ input'[s].dirty = TRUE /\ ~OutputSeen(s)'
    BY NoteInputIs DEF Typed
<1>5. OthersStay(s)
    BY <1>3, <1>4 DEF OthersStay, SameLine
<1>6. LineTypes'
    BY <1>3, <1>4 DEF LineTypes, SyncInv, SyncTypes
<1>7. s \notin ahead' => LineInv(s)'
  BY <1>2, <1>3, <1>4 DEF Settled, SyncInv, LineInv
<1>8. /\ ControlOK' /\ (change'.fresh => change.fresh /\ shownShell # s)
      /\ \A x \in Queued(probes') : (\E y \in Queued(probes) : ComesFrom(x, y)) /\ ~(x.fresh /\ x.shell = s)
    BY OutdatesIs DEF Typed, Outdates
<1>9. mistyped' = FALSE /\ shownShell' = shownShell
    BY DEF SyncInv
<1> QED  BY <1>5, <1>6, <1>7, <1>8, <1>9, OneLineKeeps


\* Typing and submitting keep the invariant.
LEMMA TypingKeeps ==
    ASSUME SyncInv, NEW s \in Shells, Type(s) \/ Enter(s)
    PROVE  SyncInv'
  BY KeyTyped DEF Type, Enter

\* A paste types ahead of the prompt, so its session's line is exempt from then on.
LEMMA PasteKeeps ==
    ASSUME SyncInv, NEW s \in Shells, Paste(s)
    PROVE  SyncInv'
<1>1. keys \in [Shells -> Seq(KeyCodes)] /\ keys[s] \in Seq(KeyCodes) /\ <<Key, EnterKey>> \in Seq(KeyCodes)
    BY CodesDiffer DEF SyncInv, SyncTypes
<1>2. keys[s] \o <<Key, EnterKey>> \in Seq(KeyCodes)
    BY <1>1
<1>3. keys' \in [Shells -> Seq(KeyCodes)] /\ \A u \in Shells \ {s} : keys'[u] = keys[u]
    BY <1>1, <1>2 DEF Paste, Typed
<1>4. input' \in [Shells -> InputRecord] /\ \A u \in Shells \ {s} : input'[u] = input[u]
    BY NoteInputIs DEF Paste, Typed
<1>5. OthersStay(s) /\ s \in ahead'
    BY <1>3, <1>4 DEF OthersStay, SameLine, Paste
<1>6. LineTypes'
    BY <1>3, <1>4 DEF LineTypes, SyncInv, SyncTypes, Paste
<1>7. /\ ControlOK' /\ (change'.fresh => change.fresh /\ shownShell # s)
      /\ \A x \in Queued(probes') : (\E y \in Queued(probes) : ComesFrom(x, y)) /\ ~(x.fresh /\ x.shell = s)
    BY OutdatesIs DEF Paste, Typed, Outdates
<1>8. mistyped' = FALSE /\ shownShell' = shownShell
    BY DEF SyncInv, Paste
<1> QED  BY <1>5, <1>6, <1>7, <1>8, OneLineKeeps

\* The rest of a paste keeps the invariant.
LEMMA PasteEndsKeeps ==
    ASSUME SyncInv, NEW s \in Shells, PasteEnds(s)
    PROVE  SyncInv'
<1>1. keys \in [Shells -> Seq(KeyCodes)] /\ Append(keys[s], Key) \in Seq(KeyCodes)
    BY CodesDiffer, KeysAppend DEF SyncInv, SyncTypes
<1>2. keys' \in [Shells -> Seq(KeyCodes)] /\ \A u \in Shells \ {s} : keys'[u] = keys[u]
    BY <1>1 DEF PasteEnds
<1>3. OthersStay(s) /\ s \in ahead' /\ ControlStays /\ mistyped' = FALSE
    BY <1>2 DEF OthersStay, SameLine, PasteEnds, SyncInv, SyncTypes, controlVars, syncHistory, ControlStays
<1>4. LineTypes' /\ Eased(s)
    BY <1>2, <1>3 DEF LineTypes, SyncInv, SyncTypes, PasteEnds, syncHistory, Eased
<1>5. ControlOK' /\ (change'.fresh => change.fresh) /\ \A x \in Queued(probes') : \E y \in Queued(probes) : ComesFrom(x, y)
    BY <1>3, ControlStaysIs
<1> QED  BY <1>3, <1>4, <1>5, OneLineKeeps DEF ControlStays

\* A replay of the terminal keeps the invariant: the line counts as dirty.
LEMMA ReplayKeeps ==
    ASSUME SyncInv, NEW s \in Shells, Replay(s)
    PROVE  SyncInv'
<1>1. /\ input' \in [Shells -> InputRecord] /\ \A u \in Shells \ {s} : input'[u] = input[u]
      /\ input'[s].dirty = TRUE /\ ~OutputSeen(s)'
    BY NoteInputIs DEF Replay
<1>2. OthersStay(s) /\ mistyped' = FALSE /\ shownShell' = shownShell
    BY <1>1 DEF OthersStay, SameLine, Replay, SyncInv, remoteVars, syncHistory
<1>3. LineTypes'
    BY <1>1 DEF LineTypes, SyncInv, SyncTypes, Replay, remoteVars, syncHistory
<1>4. s \notin ahead' => LineInv(s)'
    BY <1>1 DEF SyncInv, LineInv, LineInUse, Replay, remoteVars, syncHistory
<1>5. /\ ControlOK' /\ (change'.fresh => change.fresh /\ shownShell # s)
      /\ \A x \in Queued(probes') : (\E y \in Queued(probes) : ComesFrom(x, y)) /\ ~(x.fresh /\ x.shell = s)
    BY OutdatesIs DEF Replay, Outdates
<1> QED  BY <1>2, <1>3, <1>4, <1>5, OneLineKeeps

----------------------------------------------------------------------------
(* The remote shell and its output.                                         *)

\* The line a shell has after a key.
Keyed(h) == [h EXCEPT !.line = IF @ = "running" THEN @ ELSE "typed", !.left = h.left \/ h.line = "running"]
Started(h, k) == [h EXCEPT !.line = "running", !.cd = IF k # EnterKey /\ h.line = "empty" THEN k ELSE NoFolder]

\* What a shell does with a key that is typed.
LEMMA ShellAfterKey ==
    ASSUME NEW h \in ShellRecord, NEW k \in KeyCodes
    PROVE  /\ Keyed(h) \in ShellRecord /\ Keyed(h).cd = h.cd
           /\ h.line # "running" => Keyed(h).line = "typed" /\ Keyed(h).left = h.left
           /\ k # Key => /\ Started(h, k) \in ShellRecord /\ Started(h, k).line = "running" /\ Started(h, k).left = h.left
                         /\ Started(h, k).cd = IF k # EnterKey /\ h.line = "empty" THEN k ELSE NoFolder
<1>1. h.left \in BOOLEAN /\ h.line \in {"empty", "typed", "running"}
    BY DEF ShellRecord
<1>2. /\ Keyed(h) \in ShellRecord /\ Keyed(h).cd = h.cd
      /\ h.line # "running" => Keyed(h).line = "typed" /\ Keyed(h).left = h.left
  <2> DEFINE li == IF h.line = "running" THEN h.line ELSE "typed"
             le == h.left \/ h.line = "running"
  <2>1. li \in {"empty", "typed", "running"} /\ le \in BOOLEAN /\ Keyed(h) = [h EXCEPT !.line = li, !.left = le]
      BY <1>1 DEF Keyed
  <2>2. h.line # "running" => li = "typed" /\ le = h.left
      BY <1>1
  <2> HIDE DEF li, le
  <2> QED  BY <2>1, <2>2 DEF ShellRecord
<1>3. ASSUME k # Key
      PROVE  /\ Started(h, k) \in ShellRecord /\ Started(h, k).line = "running" /\ Started(h, k).left = h.left
             /\ Started(h, k).cd = IF k # EnterKey /\ h.line = "empty" THEN k ELSE NoFolder
  <2> DEFINE c == IF k # EnterKey /\ h.line = "empty" THEN k ELSE NoFolder
  <2>1. c \in Aims /\ Started(h, k) = [h EXCEPT !.line = "running", !.cd = c]
      BY <1>3 DEF Started, Aims, KeyCodes
  <2> HIDE DEF c
  <2>2. Started(h, k) \in ShellRecord /\ Started(h, k).line = "running" /\ Started(h, k).left = h.left /\ Started(h, k).cd = c
      BY <2>1 DEF ShellRecord
  <2> QED  BY <2>2 DEF c
<1> QED  BY <1>2, <1>3


\* What a step at the remote side leaves alone.
RemoteStep(s) ==
    /\ ControlStays /\ UNCHANGED <<input, pasting, syncHistory>>
    /\ keys' \in [Shells -> Seq(KeyCodes)] /\ shell' \in [Shells -> ShellRecord] /\ screen' \in [Shells -> Seq(ScreenCodes)]
    /\ \A u \in Shells \ {s} : keys'[u] = keys[u] /\ shell'[u] = shell[u] /\ screen'[u] = screen[u]

\* A step of the shell by which its line does not come into use.
LEMMA RemoteKeeps ==
    ASSUME SyncInv, NEW s \in Shells, RemoteStep(s), s \notin ahead => LineInv(s)' /\ (LineInUse(s)' => LineInUse(s))
    PROVE  SyncInv'
<1>1. OthersStay(s) /\ mistyped' = FALSE /\ shownShell' = shownShell /\ ahead' = ahead
    BY DEF OthersStay, SameLine, RemoteStep, syncHistory, SyncInv, ControlStays
<1>2. LineTypes'
    BY DEF LineTypes, SyncInv, SyncTypes, RemoteStep, syncHistory
<1>3. Eased(s)
    BY <1>1 DEF Eased, OutputSeen, RemoteStep
<1>4. ControlOK' /\ (change'.fresh => change.fresh) /\ \A x \in Queued(probes') : \E y \in Queued(probes) : ComesFrom(x, y)
    BY ControlStaysIs DEF RemoteStep
<1> QED  BY <1>1, <1>2, <1>3, <1>4, OneLineKeeps

\* The line feed of a line that starts.
LEMMA ScreenAppend ==
    ASSUME NEW q \in Seq(ScreenCodes), NEW c \in ScreenCodes
    PROVE  /\ Append(q, c) \in Seq(ScreenCodes)
           /\ c = LineFeed /\ (\A i \in DOMAIN q : q[i] = LineFeed) => \A i \in DOMAIN Append(q, c) : Append(q, c)[i] = LineFeed
<1> DEFINE z == Append(q, c)
<1>1. z \in Seq(ScreenCodes) /\ DOMAIN q = 1 .. Len(q) /\ Len(q) \in Nat /\ DOMAIN z = 1 .. Len(q) + 1
    OBVIOUS
<1>2. \A i \in 1 .. Len(q) + 1 : z[i] = IF i <= Len(q) THEN q[i] ELSE c
    OBVIOUS
<1> HIDE DEF z
<1>3. c = LineFeed /\ (\A i \in DOMAIN q : q[i] = LineFeed) => \A i \in DOMAIN z : z[i] = LineFeed
    BY <1>1, <1>2
<1> QED  BY <1>1, <1>3 DEF z

\* A shell that reads a key keeps the invariant.
LEMMA ShellReadsKeeps ==
    ASSUME SyncInv, NEW s \in Shells, ShellReads(s)
    PROVE  SyncInv'
<1> DEFINE q == keys[s]
           h == shell[s]
           k == Head(q)
           g == screen[s]
<1>1. /\ keys \in [Shells -> Seq(KeyCodes)] /\ shell \in [Shells -> ShellRecord] /\ screen \in [Shells -> Seq(ScreenCodes)]
      /\ q \in Seq(KeyCodes) /\ q # <<>> /\ h \in ShellRecord /\ g \in Seq(ScreenCodes)
    BY DEF SyncInv, SyncTypes, ShellReads
<1>2. /\ Tail(q) \in Seq(KeyCodes) /\ k \in KeyCodes
      /\ UserKeys(Tail(q)) => UserKeys(q)
      /\ k \in {Key, EnterKey} => UserKeys(q)
      /\ OneLine(q) => OneLine(Tail(q)) /\ (k = Key \/ (k = EnterKey /\ ~UserKeys(Tail(q))))
    BY <1>1, KeysTail
<1>3. /\ keys' \in [Shells -> Seq(KeyCodes)] /\ keys'[s] = Tail(q) /\ \A u \in Shells \ {s} : keys'[u] = keys[u]
      /\ UNCHANGED <<controlVars, input, pasting, syncHistory, syncActs>> /\ ControlStays
    BY <1>1, <1>2 DEF ShellReads, controlVars, ControlStays
<1>4. s \notin ahead => /\ LineInv(s)
                        /\ LineInUse(s) <=> h.line = "typed" \/ (h.line = "running" /\ h.cd = NoFolder) \/ UserKeys(q)
    BY DEF SyncInv, LineInUse, UserKeys
<1>5. ASSUME NEW v \in ShellRecord, NEW z \in Seq(ScreenCodes), shell' = [shell EXCEPT ![s] = v], screen' = [screen EXCEPT ![s] = z]
      PROVE  /\ RemoteStep(s) /\ shell'[s] = v /\ screen'[s] = z /\ input'[s] = input[s]
             /\ LineInUse(s)' <=> v.line = "typed" \/ (v.line = "running" /\ v.cd = NoFolder) \/ UserKeys(Tail(q))
  BY <1>1, <1>5, <1>3 DEF RemoteStep, LineInUse, UserKeys
<1>6. screen = [screen EXCEPT ![s] = g]
    BY <1>1
<1>n. \A f \in Folders : f # NoFolder
    BY CodesDiffer
<1> HIDE DEF q, h, k, g
<1>7. CASE k = Key
  <2>1. shell' = [shell EXCEPT ![s] = Keyed(h)] /\ screen' = [screen EXCEPT ![s] = g]
      BY <1>1, <1>6, <1>7 DEF ShellReads, Keyed, h, k, q
  <2>2. Keyed(h) \in ShellRecord /\ (h.line # "running" => Keyed(h).line = "typed" /\ Keyed(h).left = h.left)
      BY <1>1, <1>2, ShellAfterKey
  <2>3. /\ RemoteStep(s) /\ shell'[s] = Keyed(h) /\ screen'[s] = g /\ input'[s] = input[s]
        /\ LineInUse(s)' <=> Keyed(h).line = "typed" \/ (Keyed(h).line = "running" /\ Keyed(h).cd = NoFolder) \/ UserKeys(Tail(q))
      BY <1>1, <1>5, <2>1, <2>2
  <2>4. ASSUME s \notin ahead PROVE LineInv(s)' /\ LineInUse(s)
    BY <1>2, <1>4, <1>7, <2>4, <2>3, <1>3, <2>2 DEF LineInv, q, h, g, OutputSeen
  <2> QED  BY <2>3, <2>4, RemoteKeeps
<1>8. CASE k # Key /\ h.line = "running"
  BY <1>1, <1>6, <1>8, <1>5, <1>2, <1>4, <1>3, RemoteKeeps DEF ShellReads, h, k, q, LineInv, g
<1>9. CASE k # Key /\ h.line # "running"
  <2> DEFINE v == Started(h, k)
             z == Append(g, LineFeed)
  <2>1. shell' = [shell EXCEPT ![s] = v] /\ screen' = [screen EXCEPT ![s] = z]
      BY <1>1, <1>9 DEF ShellReads, Started, h, k, q, g
  <2>2. /\ v \in ShellRecord /\ v.line = "running" /\ v.left = h.left
        /\ v.cd = IF k # EnterKey /\ h.line = "empty" THEN k ELSE NoFolder
      BY <1>1, <1>2, <1>9, ShellAfterKey
  <2>3. z \in Seq(ScreenCodes) /\ ((\A i \in DOMAIN g : g[i] = LineFeed) => \A i \in DOMAIN z : z[i] = LineFeed)
    BY <1>1, ScreenAppend DEF ScreenCodes
  <2> HIDE DEF v, z
  <2>4. /\ RemoteStep(s) /\ shell'[s] = v /\ screen'[s] = z /\ input'[s] = input[s]
        /\ LineInUse(s)' <=> v.line = "typed" \/ (v.line = "running" /\ v.cd = NoFolder) \/ UserKeys(Tail(q))
      BY <1>5, <2>1, <2>2, <2>3
  <2>5. ASSUME s \notin ahead PROVE LineInv(s)' /\ (LineInUse(s)' => LineInUse(s))
    <3>1. LineInv(s) /\ ~h.left
        BY <1>4, <2>5 DEF LineInv, h
    <3>2. UserKeys(q) \/ h.line = "typed" => OneLine(q)
        BY <3>1 DEF LineInv, q, h
    <3>3. ~UserKeys(Tail(q))
        BY <1>2, <1>9, <3>2
    <3>4. LineInUse(s)' => LineInUse(s)
      <4>1. CASE k = EnterKey
          BY <1>2, <1>4, <2>5, <4>1
      <4>2. CASE k # EnterKey
        BY <1>2, <1>9, <3>2, <4>2, <1>1, <1>n, <2>2, <2>4, <3>3 DEF ShellRecord, KeyCodes
      <4> QED  BY <4>1, <4>2
    <3>5. LineInUse(s) => input[s].dirty /\ \A i \in DOMAIN g : g[i] = LineFeed
        BY <3>1 DEF LineInv, g
    <3> QED  BY <1>3, <2>2, <2>3, <2>4, <3>1, <3>3, <3>4, <3>5 DEF LineInv
  <2> QED  BY <2>4, <2>5, RemoteKeeps
<1> QED  BY <1>7, <1>8, <1>9


\* A command that ends leaves an empty line: nothing was typed while it ran.
LEMMA ShellPromptsKeeps ==
    ASSUME SyncInv, NEW s \in Shells, NEW ok \in BOOLEAN, ShellPrompts(s, ok)
    PROVE  SyncInv'
<1> DEFINE h == shell[s]
           f == IF ok /\ h.cd # NoFolder THEN h.cd ELSE h.folder
           v == [line |-> IF h.left THEN "typed" ELSE "empty", left |-> FALSE, cd |-> NoFolder, folder |-> f]
<1>1. /\ keys \in [Shells -> Seq(KeyCodes)] /\ shell \in [Shells -> ShellRecord] /\ screen \in [Shells -> Seq(ScreenCodes)]
      /\ h \in ShellRecord /\ h.line = "running"
    BY DEF SyncInv, SyncTypes, ShellPrompts
<1>2. f \in Here
    BY <1>1 DEF ShellRecord, Here, Aims
<1>3. shell' = [shell EXCEPT ![s] = v] /\ (screen' = [screen EXCEPT ![s] = Append(@, shell'[s].folder)] \/ screen' = screen)
    BY <1>1 DEF ShellPrompts
<1> HIDE DEF f
<1>4. v \in ShellRecord /\ v.left = FALSE /\ v.folder = f /\ v.line = IF h.left THEN "typed" ELSE "empty"
    BY <1>1, <1>2 DEF ShellRecord, Aims
<1> HIDE DEF v
<1>5. shell' \in [Shells -> ShellRecord] /\ shell'[s] = v /\ \A u \in Shells \ {s} : shell'[u] = shell[u]
    BY <1>1, <1>3, <1>4
<1>6. screen' \in [Shells -> Seq(ScreenCodes)] /\ \A u \in Shells \ {s} : screen'[u] = screen[u]
  <2>1. CASE screen' = screen
      BY <1>1, <2>1
  <2>2. CASE screen' = [screen EXCEPT ![s] = Append(@, shell'[s].folder)]
    BY <1>1, <1>2, <1>4, <1>5, <2>2 DEF ScreenCodes
  <2> QED  BY <1>3, <2>1, <2>2
<1>7. RemoteStep(s) /\ keys' = keys
    BY <1>1, <1>5, <1>6 DEF RemoteStep, ShellPrompts, controlVars, ControlStays
<1>8. ASSUME s \notin ahead PROVE LineInv(s)' /\ (LineInUse(s)' => LineInUse(s))
  BY <1>1, <1>8, <1>4, <1>5, <1>7 DEF SyncInv, LineInv, LineInUse, UserKeys
<1> QED  BY <1>7, <1>8, RemoteKeeps

\* What the browser does with the first of a session's output.
ScreenStep(s) ==
    /\ screen[s] # <<>> /\ screen' = [screen EXCEPT ![s] = Tail(@)]
    /\ UNCHANGED <<shownShell, synced, shell, keys, pasting, syncHistory>>

\* Output that goes to a screen leaves the lines alone.
LEMMA ScreenStepIs ==
    ASSUME SyncInv, NEW s \in Shells, ScreenStep(s), input' \in [Shells -> InputRecord],
           \A u \in Shells \ {s} : input'[u] = input[u], input'[s].submitted = input[s].submitted
    PROVE  /\ LineTypes' /\ OthersStay(s) /\ mistyped' = FALSE /\ shownShell' = shownShell /\ ahead' = ahead
           /\ LineInUse(s)' <=> LineInUse(s)
           /\ (\A i \in DOMAIN screen[s] : screen[s][i] = LineFeed) => \A i \in DOMAIN screen'[s] : screen'[s][i] = LineFeed
<1>1. screen \in [Shells -> Seq(ScreenCodes)] /\ screen[s] \in Seq(ScreenCodes) /\ screen[s] # <<>>
    BY DEF SyncInv, SyncTypes, ScreenStep
<1>2. Tail(screen[s]) \in Seq(ScreenCodes)
    BY <1>1
<1>3. screen' \in [Shells -> Seq(ScreenCodes)] /\ screen'[s] = Tail(screen[s]) /\ \A u \in Shells \ {s} : screen'[u] = screen[u]
    BY <1>1, <1>2 DEF ScreenStep
<1>4. ahead' = ahead /\ mistyped' = FALSE /\ shownShell' = shownShell
    BY DEF ScreenStep, syncHistory, SyncInv
<1>5. OthersStay(s)
    BY <1>3, <1>4 DEF OthersStay, SameLine, ScreenStep
<1>6. LineTypes'
    BY <1>3, <1>4 DEF LineTypes, SyncInv, SyncTypes, ScreenStep
<1>7. LineInUse(s)' <=> LineInUse(s)
    BY DEF LineInUse, ScreenStep
<1>8. ASSUME \A i \in DOMAIN screen[s] : screen[s][i] = LineFeed
      PROVE  \A i \in DOMAIN screen'[s] : screen'[s][i] = LineFeed
  <2> DEFINE g == screen[s]
  <2>1. g \in Seq(ScreenCodes) /\ g # <<>> /\ \A i \in DOMAIN g : g[i] = LineFeed
      BY <1>1, <1>8
  <2> HIDE DEF g
  <2>2. \A i \in DOMAIN Tail(g) : Tail(g)[i] = g[i + 1] /\ i + 1 \in DOMAIN g
      BY <2>1
  <2> QED  BY <1>3, <2>1, <2>2 DEF g
<1> QED  BY <1>4, <1>5, <1>6, <1>7, <1>8

\* A prompt that is seen keeps the invariant: no line of the user was in use when the
\* shell prompted.
LEMMA PromptSeenKeeps ==
    ASSUME SyncInv, NEW s \in Shells, PromptSeen(s)
    PROVE  SyncInv'
<1>1. ScreenStep(s) /\ input' = [input EXCEPT ![s].dirty = FALSE] /\ Head(screen[s]) # LineFeed
    BY DEF PromptSeen, ScreenStep
<1>2. input \in [Shells -> InputRecord]
    BY DEF SyncInv, SyncTypes
<1>3. /\ input' \in [Shells -> InputRecord] /\ \A u \in Shells \ {s} : input'[u] = input[u]
      /\ input'[s].submitted = input[s].submitted /\ input'[s].output = input[s].output
    BY <1>1, <1>2 DEF InputRecord
<1>4. /\ LineTypes' /\ OthersStay(s) /\ mistyped' = FALSE /\ shownShell' = shownShell /\ ahead' = ahead
      /\ LineInUse(s)' <=> LineInUse(s)
    BY <1>1, <1>3, ScreenStepIs
<1>5. Eased(s)
    BY <1>3, <1>4 DEF Eased, OutputSeen
<1>6. ASSUME s \notin ahead PROVE LineInv(s)'
  BY <1>6, <1>1, <1>4 DEF SyncInv, SyncTypes, ScreenStep, LineInv, LineInUse, UserKeys
<1>7. /\ probes' \in Seq(ProbeRecord) /\ \A x \in Queued(probes') : \E y \in Queued(probes) : ComesFrom(x, y)
      /\ change' \in ChangeRecord /\ (change'.fresh => change.fresh)
      /\ followed'[1] \in {NoShell, shownShell'}
  <2>1. probes \in Seq(ProbeRecord) /\ change \in ChangeRecord /\ followed[1] \in {NoShell, shownShell}
      BY DEF SyncInv, SyncTypes
  <2>2. CASE UNCHANGED <<probes, change, followed>>
      BY <1>4, <2>1, <2>2 DEF ComesFrom
  <2>3. CASE probes' = Dropped(probes) /\ UNCHANGED <<followed, change>>
      BY <1>4, <2>1, <2>3, DroppedIs
  <2>4. CASE probes' = Dropped(probes) /\ s = shownShell /\ OscFollows(s, Head(screen[s]))
      BY <1>4, <2>1, <2>4, DroppedIs, OscFollowsIs
  <2> QED  BY <2>2, <2>3, <2>4 DEF PromptSeen
<1>8. ControlOK'
    BY <1>1, <1>7 DEF ControlOK, SyncInv, SyncTypes, ScreenStep
<1>9. \A x \in Queued(probes') : (\E y \in Queued(probes) : ComesFrom(x, y)) /\ (x.fresh /\ x.shell = s => Eased(s))
    BY <1>5, <1>7
<1>10. s \notin ahead' => LineInv(s)'
    BY <1>4, <1>6
<1>11. change'.fresh => change.fresh /\ (shownShell = s => Eased(s))
    BY <1>5, <1>7
<1> QED  BY <1>4, <1>8, <1>9, <1>10, <1>11, OneLineKeeps

\* Output that is seen keeps the invariant: the first output of a submitted line outdates
\* what was asked before.
LEMMA LineFeedSeenKeeps ==
    ASSUME SyncInv, NEW s \in Shells, LineFeedSeen(s)
    PROVE  SyncInv'
<1> DEFINE first == input[s].submitted /\ ~input[s].output
<1>1. ScreenStep(s) /\ UNCHANGED followed
    BY DEF LineFeedSeen, ScreenStep
<1>2. input \in [Shells -> InputRecord]
    BY DEF SyncInv, SyncTypes
<1>3. /\ input' \in [Shells -> InputRecord] /\ \A u \in Shells \ {s} : input'[u] = input[u]
      /\ input'[s].submitted = input[s].submitted /\ input'[s].dirty = input[s].dirty
      /\ ~first => input' = input
    BY <1>2 DEF InputRecord, LineFeedSeen
<1>4. /\ LineTypes' /\ OthersStay(s) /\ mistyped' = FALSE /\ shownShell' = shownShell /\ ahead' = ahead
      /\ LineInUse(s)' <=> LineInUse(s)
      /\ (\A i \in DOMAIN screen[s] : screen[s][i] = LineFeed) => \A i \in DOMAIN screen'[s] : screen'[s][i] = LineFeed
    BY <1>1, <1>3, ScreenStepIs
<1>5. ASSUME s \notin ahead' PROVE LineInv(s)'
  BY <1>1, <1>4, <1>5, <1>3 DEF SyncInv, ScreenStep, LineInv
<1>6. CASE first
  BY <1>1, <1>6, OutdatesIs, <1>4, <1>5, OneLineKeeps DEF LineFeedSeen, Outdates
<1>7. CASE ~first
  BY <1>1, <1>7, ControlStaysIs, <1>3, <1>4, <1>5, OneLineKeeps DEF LineFeedSeen, ControlStays,
     Eased, OutputSeen
<1> QED  BY <1>6, <1>7


----------------------------------------------------------------------------
(* The answers of the probes.                                               *)

\* A command is sent onto a line nobody uses.
LEMMA SendCdKeeps ==
    ASSUME SyncInv, NEW s \in Shells, s = shownShell, NEW p \in Folders, SendCd(s, p), s \notin ahead => ~LineInUse(s),
           UNCHANGED <<shownShell, synced, followed>>, change' \in ChangeRecord, probes' \in Seq(ProbeRecord),
           \A x \in Queued(probes') : \E y \in Queued(probes) : ComesFrom(x, y)
    PROVE  SyncInv'
<1>1. keys \in [Shells -> Seq(KeyCodes)] /\ keys[s] \in Seq(KeyCodes) /\ p \in KeyCodes /\ p \notin {Key, EnterKey}
    BY CodesDiffer DEF SyncInv, SyncTypes
<1>2. Append(keys[s], p) \in Seq(KeyCodes) /\ (UserKeys(Append(keys[s], p)) <=> UserKeys(keys[s]))
    BY <1>1, KeysAppend
<1>3. /\ keys' \in [Shells -> Seq(KeyCodes)] /\ keys'[s] = Append(keys[s], p)
      /\ \A u \in Shells \ {s} : keys'[u] = keys[u]
    BY <1>1, <1>2 DEF SendCd
<1>4. /\ input' \in [Shells -> InputRecord] /\ \A u \in Shells \ {s} : input'[u] = input[u]
      /\ input'[s].dirty = TRUE /\ ~OutputSeen(s)'
    BY NoteInputIs DEF SendCd
<1>5. OthersStay(s) /\ shell' = shell /\ ahead' = ahead
    BY <1>3, <1>4 DEF OthersStay, SameLine, SendCd
<1>6. LineTypes'
    BY <1>3, <1>4 DEF LineTypes, SyncInv, SyncTypes, SendCd
<1>7. mistyped' = FALSE
  BY DEF SyncInv, SendCd
<1>8. LineInUse(s)' <=> LineInUse(s)
  BY <1>2, <1>3, <1>5 DEF UserKeys, LineInUse
<1>9. ASSUME s \notin ahead' PROVE LineInv(s)'
  BY <1>5, <1>8, <1>9 DEF SyncInv, LineInUse, UserKeys, LineInv
<1>10. Eased(s)
    BY <1>4, <1>5, <1>8 DEF Eased
<1>11. ControlOK'
    BY DEF ControlOK, SyncInv, SyncTypes
<1>12. change'.fresh => \/ change.fresh /\ (shownShell = s => Eased(s))
                        \/ shownShell = s /\ (s \notin ahead' => ~LineInUse(s)')
    BY <1>5, <1>8
<1> QED  BY <1>5, <1>6, <1>7, <1>9, <1>10, <1>11, <1>12, OneLineKeeps

\* The answer of a poll while a change is awaited clears the mark only where nothing was
\* typed since the command, so that the line is the command's own.
LEMMA AwaitedAnswerKeeps ==
    ASSUME SyncInv, NEW t, t \in Queued(probes), t.live, shownShell \in Shells, AwaitedAnswer(t),
           UNCHANGED <<shownShell, synced>>, probes' \in Seq(ProbeRecord),
           \A x \in Queued(probes') : \E y \in Queued(probes) : ComesFrom(x, y)
    PROVE  SyncInv'
<1> DEFINE s == shownShell
           confirmed == s \in TmuxShells /\ t.ready /\ t.path # change.previous /\ change.fresh /\ s \notin pasting
           d == input[s].dirty /\ ~confirmed
           polls == change.polls + 1
           more == [change EXCEPT !.polls = polls]
<1>1. input \in [Shells -> InputRecord] /\ change \in ChangeRecord /\ polls \in Nat /\ input[s].dirty \in BOOLEAN
    BY DEF SyncInv, SyncTypes, ChangeRecord, InputRecord
<1>2. input' = [input EXCEPT ![s].dirty = d] /\ UNCHANGED <<remoteVars, syncHistory>>
    BY DEF AwaitedAnswer
<1>3. (change' = NoChange \/ change' = more) /\ (followed' = followed \/ followed' = <<t.shell, t.path>>)
    BY DEF AwaitedAnswer
<1>d. d \in BOOLEAN /\ (d = input[s].dirty \/ (change.fresh /\ d = FALSE))
    BY <1>1
<1> HIDE DEF d, polls, confirmed
<1>4. more \in ChangeRecord /\ more.fresh = change.fresh
    BY <1>1 DEF ChangeRecord
<1> HIDE DEF more
<1>5. t.shell = s
    BY DEF SyncInv, AskedInv
<1>6. /\ input' \in [Shells -> InputRecord] /\ \A u \in Shells \ {s} : input'[u] = input[u]
      /\ input'[s].dirty = d /\ input'[s].submitted = input[s].submitted /\ input'[s].output = input[s].output
    BY <1>1, <1>2, <1>d DEF InputRecord
<1>7. OthersStay(s) /\ mistyped' = FALSE /\ shell' = shell /\ keys' = keys /\ screen' = screen /\ ahead' = ahead
    BY <1>2, <1>6 DEF OthersStay, SameLine, remoteVars, syncHistory, SyncInv
<1>8. LineTypes'
    BY <1>2, <1>6 DEF LineTypes, SyncInv, SyncTypes, remoteVars, syncHistory
<1>9. (LineInUse(s)' <=> LineInUse(s)) /\ (OutputSeen(s)' <=> OutputSeen(s))
    BY <1>6, <1>7 DEF LineInUse, OutputSeen
<1>10. ASSUME s \notin ahead' PROVE LineInv(s)'
  BY <1>7, <1>10, <1>6, <1>9, <1>d DEF SyncInv, LineInv
<1>11. Eased(s)
    BY <1>7, <1>9 DEF Eased
<1>12. ControlOK' /\ (change'.fresh => change.fresh)
    BY <1>3, <1>4, <1>5, NoChangeIs DEF ControlOK, SyncInv, SyncTypes
<1> QED  BY <1>7, <1>8, <1>10, <1>11, <1>12, OneLineKeeps

\* The answer of a navigation sends a command only where its answer attests an empty line.
LEMMA NavigationAnswerKeeps ==
    ASSUME SyncInv, NEW t, t \in Queued(probes), t.live, t.served, t.target \in Folders, t.path \in Here \cup {NoFolder},
           shownShell \in Shells, NavigationAnswer(t),
           UNCHANGED <<shownShell, synced>>, probes' \in Seq(ProbeRecord),
           \A x \in Queued(probes') : \E y \in Queued(probes) : ComesFrom(x, y)
    PROVE  SyncInv'
<1>1. t.shell = shownShell
    BY DEF SyncInv, AskedInv
<1>2. CASE UNCHANGED <<input, change, remoteVars, syncHistory>> /\ (followed' = followed \/ followed' = <<t.shell, t.path>>)
  <2>1. LinesStay /\ ControlOK'
      BY <1>1, <1>2 DEF LinesStay, ControlOK, SyncInv, SyncTypes
  <2>2. NoFresher
    <3>1. SameLine(shownShell)
        BY <2>1 DEF LinesStay, remoteVars, syncHistory, SameLine
    <3> QED  BY <1>2, <3>1, LineStays DEF NoFresher, SyncInv
  <2> QED  BY <2>1, <2>2, ControlKeeps
<1>3. CASE /\ t.ready /\ CanSend(shownShell, t) /\ t.fresh
           /\ change' = [on |-> TRUE, previous |-> t.path, polls |-> 0, fresh |-> TRUE]
           /\ SendCd(shownShell, t.target) /\ UNCHANGED followed
  <2> DEFINE s == shownShell
  <2>1. change' \in ChangeRecord
      BY <1>3 DEF ChangeRecord
  <2>2. ASSUME s \notin ahead PROVE ~LineInUse(s)
    <3>1. CASE ~input[s].dirty
        BY <2>2, <3>1 DEF SyncInv, LineInv
    <3>2. CASE input[s].submitted /\ input[s].output
      <4>1. AskedInv(t)
          BY DEF SyncInv
      <4> QED  BY <1>1, <1>3, <2>2, <3>2, <4>1 DEF AskedInv, Attests, OutputSeen
    <3> QED  BY <1>3, <3>1, <3>2 DEF CanSend
  <2> QED  BY <1>3, <2>1, <2>2, SendCdKeeps
<1> QED  BY <1>2, <1>3 DEF NavigationAnswer


\* An answer keeps the invariant: dropped, followed, asked again or made a command.
LEMMA ProbeAnsweredKeeps ==
    ASSUME SyncInv, NEW failed \in BOOLEAN, ProbeAnswered(failed)
    PROVE  SyncInv'
<1> DEFINE t == Head(probes)
           rest == Tail(probes)
<1>1. /\ probes \in Seq(ProbeRecord) /\ probes # <<>> /\ t.served
      /\ UNCHANGED <<shownShell, synced, oscWaits, syncActs>>
    BY DEF ProbeAnswered, SyncInv, SyncTypes
<1>2. rest \in Seq(ProbeRecord) /\ Queued(rest) \subseteq Queued(probes) /\ t \in ProbeRecord /\ t \in Queued(probes)
    BY <1>1, OthersAre
<1>3. \A y : ComesFrom(y, y)
    BY DEF ComesFrom
<1>4. probes' \in {rest, Outdated(rest, shownShell)} =>
        probes' \in Seq(ProbeRecord) /\ \A x \in Queued(probes') : \E y \in Queued(probes) : ComesFrom(x, y)
  BY <1>2, <1>3, OutdatedIs
<1>5. t.live => t.shell = shownShell
    BY <1>2 DEF SyncInv, AskedInv
<1>6. Heard(t) => t.live /\ shownShell \in Shells
    BY DEF Heard, Active, SyncInv, SyncTypes
<1>7. \/ /\ ~Heard(t) /\ probes' = rest /\ UNCHANGED <<change, followed, input, remoteVars, syncHistory>>
      \/ /\ Heard(t) /\ t.next # NoFolder /\ probes' = Poll(rest, shownShell, t.next, TRUE)
         /\ UNCHANGED <<change, followed, input, remoteVars, syncHistory>>
      \/ /\ Heard(t) /\ probes' \in {rest, Outdated(rest, shownShell)}
         /\ \/ UNCHANGED <<change, followed, input, remoteVars, syncHistory>>
            \/ change' = NoChange /\ UNCHANGED <<followed, input, remoteVars, syncHistory>>
            \/ t.target # NoFolder /\ NavigationAnswer(t)
            \/ AwaitedAnswer(t)
            \/ followed' = <<t.shell, t.path>> /\ UNCHANGED <<change, input, remoteVars, syncHistory>>
    BY DEF ProbeAnswered
<1> HIDE DEF t, rest
<1>8. ASSUME LinesStay, probes' \in Seq(ProbeRecord), change' = change \/ change' = NoChange,
             followed' = followed \/ (followed' = <<t.shell, t.path>> /\ t.live),
             \A x \in Queued(probes') :
               Begun(x) \/ ((\E y \in Queued(probes) : ComesFrom(x, y)) /\ (x.live => shownShell' = shownShell))
      PROVE  SyncInv'
  <2>1. ControlOK'
      BY <1>1, <1>5, <1>8, NoChangeIs DEF ControlOK, SyncInv, SyncTypes
  <2>2. NoFresher
    <3>1. SameLine(shownShell)
        BY <1>8 DEF LinesStay, remoteVars, syncHistory, SameLine
    <3> QED  BY <1>1, <1>8, <3>1, LineStays, NoChangeIs DEF NoFresher, SyncInv
  <2> QED  BY <1>8, <2>1, <2>2, ControlKeeps
<1>9. CASE ~Heard(t) /\ probes' = rest /\ UNCHANGED <<change, followed, input, remoteVars, syncHistory>>
    BY <1>1, <1>4, <1>8, <1>9 DEF LinesStay
<1>10. CASE /\ Heard(t) /\ t.next # NoFolder /\ probes' = Poll(rest, shownShell, t.next, TRUE)
            /\ UNCHANGED <<change, followed, input, remoteVars, syncHistory>>
  <2>1. t.next \in Aims /\ shownShell \in Shells
      BY <1>2, <1>6, <1>10 DEF ProbeRecord
  <2>2. /\ probes' \in Seq(ProbeRecord)
        /\ \A x \in Queued(probes') : x \in Queued(rest) \/ (x.live /\ ~x.served /\ x.shell = shownShell)
      BY <1>2, <1>10, <2>1, PollIs
  <2>3. \A x \in Queued(probes') :
          Begun(x) \/ ((\E y \in Queued(probes) : ComesFrom(x, y)) /\ (x.live => shownShell' = shownShell))
      BY <1>1, <1>2, <1>3, <2>2 DEF Begun
  <2> QED  BY <1>8, <1>10, <2>2, <2>3 DEF LinesStay
<1>11. ASSUME Heard(t), probes' \in {rest, Outdated(rest, shownShell)}, t.target # NoFolder, NavigationAnswer(t)
       PROVE  SyncInv'
  BY <1>2, <1>11, <1>1, <1>4, <1>6, NavigationAnswerKeeps DEF ProbeRecord, Aims, t
<1>12. ASSUME Heard(t), probes' \in {rest, Outdated(rest, shownShell)}, AwaitedAnswer(t)
       PROVE  SyncInv'
    BY <1>1, <1>2, <1>4, <1>6, <1>12, AwaitedAnswerKeeps
<1>13. ASSUME Heard(t), probes' \in {rest, Outdated(rest, shownShell)}, UNCHANGED <<input, remoteVars, syncHistory>>,
              change' = change \/ change' = NoChange, followed' = followed \/ followed' = <<t.shell, t.path>>
       PROVE  SyncInv'
    BY <1>1, <1>4, <1>6, <1>8, <1>13 DEF LinesStay
<1> QED  BY <1>7, <1>9, <1>10, <1>11, <1>12, <1>13

----------------------------------------------------------------------------
(* The whole of it.                                                         *)

\* At the start nothing is on its way.
LEMMA SyncStarts ==
    ASSUME SyncInit
    PROVE  SyncInv
<1>1. /\ input \in [Shells -> InputRecord] /\ shell \in [Shells -> ShellRecord] /\ change \in ChangeRecord
    BY NoChangeIs DEF SyncInit, InputRecord, ShellRecord, Aims, Here
<1>2. \A S : <<>> \in Seq(S) /\ Len(<<>>) = 0
    OBVIOUS
<1>3. SyncTypes
    BY <1>1, <1>2 DEF SyncInit, SyncTypes
<1>4. \A s \in Shells : LineInv(s)
  BY DEF SyncInit, LineInUse, UserKeys, LineInv
<1>5. Queued(probes) = {} /\ change.fresh = FALSE /\ mistyped = FALSE /\ followed[1] = NoShell
    BY <1>2, NoChangeIs DEF Queued, SyncInit
<1> QED  BY <1>3, <1>4, <1>5 DEF SyncInv

\* Every step keeps the invariant.
LEMMA SyncSteps ==
    ASSUME SyncInv, [SyncNext]_syncVars
    PROVE  SyncInv'
<1>1. CASE UNCHANGED syncVars
  BY <1>1, ControlStaysIs, LineStays, ControlKeeps DEF syncVars, LinesStay, remoteVars,
     syncHistory, ControlStays, SameLine, NoFresher, SyncInv
<1>2. CASE SyncNext
  <2>1. CASE PollTimer \/ RequestTimesOut \/ ServeProbe \/ OscTimer
      BY <2>1, PollTimerKeeps, RequestTimesOutKeeps, ServeProbeKeeps, OscTimerKeeps
  <2>2. ASSUME NEW failed \in BOOLEAN, ProbeAnswered(failed) PROVE SyncInv'
      BY <2>2, ProbeAnsweredKeeps
  <2>3. ASSUME NEW p \in Folders, Navigate(p) PROVE SyncInv'
      BY <2>3, NavigateKeeps
  <2>4. ASSUME NEW on \in BOOLEAN, SetEnabled(on) PROVE SyncInv'
      BY <2>4, SetEnabledKeeps
  <2>5. ASSUME NEW s \in Shells \cap {shownShell}, Type(s) \/ Enter(s) \/ Paste(s) \/ Replay(s) PROVE SyncInv'
      BY <2>5, TypingKeeps, PasteKeeps, ReplayKeeps
  <2>6. ASSUME NEW s \in Shells, SetContext(s) \/ PasteEnds(s) \/ ShellReads(s) \/ PromptSeen(s) \/ LineFeedSeen(s) PROVE SyncInv'
      BY <2>6, SetContextKeeps, PasteEndsKeeps, ShellReadsKeeps, PromptSeenKeeps, LineFeedSeenKeeps
  <2>7. ASSUME NEW s \in Shells, NEW ok \in BOOLEAN, ShellPrompts(s, ok) PROVE SyncInv'
      BY <2>7, ShellPromptsKeeps
  <2> QED  BY <1>2, <2>1, <2>2, <2>3, <2>4, <2>5, <2>6, <2>7 DEF SyncNext
<1> QED  BY <1>1, <1>2

\* Folder synchronisation never types cd onto a line that is in use, and takes the panel
\* only to folders of the session it shows, for any sessions, folders and order of
\* keystrokes, output and answers (session-directory-sync.js).
THEOREM SyncStaysSafe == SyncSpec => []SyncSafe
<1>1. SyncInit => SyncInv
    BY SyncStarts
<1>2. SyncInv /\ [SyncNext]_syncVars => SyncInv'
    BY SyncSteps
<1>3. SyncInv => SyncSafe
    BY DEF SyncInv, SyncSafe, NeverMistypes, FollowsOwnShell
<1> QED  BY <1>1, <1>2, <1>3, PTL DEF SyncSpec

-----------------------------------------------------------------------------
(* The output of a session on its screen.                                   *)

OutputSpec == OutputInit /\ [][OutputNext]_outputVars

WriteRecord == [data : Seq(Nat), acks : SUBSET Nat, barrier : BOOLEAN]

OutputTypes ==
    /\ outSeq \in Nat /\ emitted \in Nat /\ snapshot \in Nat /\ lastNumber \in Nat
    /\ outLink \in {"down", "joined", "snapped", "up"} /\ resynced \in BOOLEAN /\ inView \in BOOLEAN
    /\ term \in {"none", "opening", "ready", "syncing"}
    /\ outWire \in Seq(Nat) /\ numbered \in Seq(Nat) /\ transcript \in Seq(Nat)
    /\ heldOutput \in Seq(Nat) /\ hiddenBatch \in Seq(Nat) /\ onScreen \in Seq(Nat)
    /\ xterm \in Seq(WriteRecord)

\* s is a run of consecutive numbers that ends with e.
RunTo(s, e) == \A i \in DOMAIN s : s[i] = e + i - Len(s)

\* The server numbers and sends one piece after the other.
SentInv ==
    /\ emitted <= outSeq /\ outSeq <= emitted + 1
    /\ snapshot <= outSeq /\ lastNumber <= outSeq

\* The events of a socket: consecutive numbers up to the last one sent, with the
\* restored event somewhere between as long as it has been sent and not handled.
Unmarked == \A i \in DOMAIN outWire : outWire[i] > 0 /\ outWire[i] = emitted + i - Len(outWire)
Marked == \E z \in DOMAIN outWire : \A i \in DOMAIN outWire :
    IF i = z THEN outWire[i] = 0
    ELSE /\ outWire[i] > 0
         /\ IF i > z THEN outWire[i] = emitted + i - Len(outWire)
                     ELSE outWire[i] = emitted + i + 1 - Len(outWire)
Waiting == outLink = "up" /\ ~resynced   \* for the restored event
Pieces == IF Waiting THEN Len(outWire) - 1 ELSE Len(outWire)
WireInv ==
    /\ IF Waiting THEN Marked ELSE Unmarked
    /\ outLink = "down" => outWire = <<>>
    /\ resynced => outLink = "up"

\* Nothing was lost since the snapshot: what is not on its way has arrived, or is in
\* the snapshot.
NothingLost ==
    outLink \in {"snapped", "up"} =>
        emitted <= Pieces + (IF lastNumber > snapshot \/ resynced THEN lastNumber ELSE snapshot)

\* What arrived after the snapshot ends the numbered pieces.
NumberedInv ==
    /\ \A i \in DOMAIN numbered : numbered[i] <= lastNumber
    /\ outLink = "snapped" \/ Waiting =>
         /\ \A i \in DOMAIN numbered :
              IF i + lastNumber > Len(numbered) + snapshot THEN numbered[i] = lastNumber + i - Len(numbered)
                                                           ELSE numbered[i] <= snapshot
         /\ Len(numbered) < MaxTranscript => lastNumber <= snapshot + Len(numbered)

\* What the terminal was given.
TermInv ==
    /\ term # "ready" => hiddenBatch = <<>>
    /\ term \in {"none", "opening"} => xterm = <<>>
    /\ term = "ready" => \A k \in DOMAIN xterm : ~xterm[k].barrier
    /\ term = "syncing" => xterm # <<>> /\ \A k \in DOMAIN xterm : xterm[k].barrier <=> k = Len(xterm)

\* The screen, what xterm has not finished and what waits hidden are one run.
Follows(display, writes, hidden, last, e) ==
    /\ RunTo(display, e[0])
    /\ \A k \in DOMAIN writes : RunTo(writes[k].data, e[k]) /\ e[k] = e[k - 1] + Len(writes[k].data)
    /\ RunTo(hidden, last) /\ last = e[Len(writes)] + Len(hidden)
Continuous(display, writes, hidden, last) ==
    \E e \in [0 .. Len(writes) -> Int] : Follows(display, writes, hidden, last, e)
OneRun == resynced /\ term = "ready" => Continuous(onScreen, xterm, hiddenBatch, lastNumber)

TranscriptInv == resynced => RunTo(transcript, lastNumber)

OutputInv == OutputTypes /\ SentInv /\ WireInv /\ NothingLost /\ NumberedInv /\ TermInv /\ TranscriptInv /\ OneRun

\* Newest keeps the end of a sequence.
LEMMA NewestIs ==
    ASSUME NEW S, NEW s \in Seq(S), NEW n \in Nat
    PROVE  /\ Newest(s, n) \in Seq(S)
           /\ Len(Newest(s, n)) = IF Len(s) > n THEN n ELSE Len(s)
           /\ \A i \in DOMAIN Newest(s, n) : /\ Len(s) - Len(Newest(s, n)) + i \in DOMAIN s
                                             /\ Newest(s, n)[i] = s[Len(s) - Len(Newest(s, n)) + i]
<1> DEFINE m == IF Len(s) > n THEN Len(s) - n + 1 ELSE 1
<1>1. m \in 1 .. Len(s) + 1
    OBVIOUS
<1> HIDE DEF m
<1>2. /\ SubSeq(s, m, Len(s)) \in Seq(S) /\ Len(SubSeq(s, m, Len(s))) = Len(s) - m + 1
      /\ \A i \in 1 .. Len(s) - m + 1 : SubSeq(s, m, Len(s))[i] = s[m + i - 1]
    BY <1>1
<1>3. Newest(s, n) = SubSeq(s, m, Len(s))
    BY DEF Newest, m
<1>4. Len(s) - m + 1 = IF Len(s) > n THEN n ELSE Len(s)
    BY DEF m
<1>5. DOMAIN Newest(s, n) = 1 .. Len(s) - m + 1
    BY <1>2, <1>3
<1>6. ASSUME NEW i \in DOMAIN Newest(s, n)
      PROVE  /\ Len(s) - Len(Newest(s, n)) + i \in DOMAIN s
             /\ Newest(s, n)[i] = s[Len(s) - Len(Newest(s, n)) + i]
  <2>1. i \in 1 .. Len(s) - m + 1 /\ Newest(s, n)[i] = s[m + i - 1]
      BY <1>2, <1>3, <1>5, <1>6
  <2>2. Len(Newest(s, n)) = Len(s) - m + 1
      BY <1>2, <1>3
  <2>3. Len(s) - Len(Newest(s, n)) + i = m + i - 1 /\ m + i - 1 \in DOMAIN s
      BY <1>1, <2>1, <2>2
  <2> QED  BY <2>1, <2>3
<1> QED  BY <1>2, <1>3, <1>4, <1>6

\* Its end is a run when the sequence is one.
LEMMA NewestRuns ==
    ASSUME NEW s \in Seq(Nat), NEW n \in Nat, NEW e \in Int, RunTo(s, e)
    PROVE  RunTo(Newest(s, n), e)
<1> SUFFICES ASSUME NEW i \in DOMAIN Newest(s, n)
             PROVE  Newest(s, n)[i] = e + i - Len(Newest(s, n))
    BY DEF RunTo
<1>1. Newest(s, n) \in Seq(Nat)
    BY NewestIs
<1> DEFINE d == Len(s) - Len(Newest(s, n))
<1>2. PICK k \in DOMAIN s : k = d + i /\ Newest(s, n)[i] = s[k]
    BY NewestIs
<1>3. s[k] = e + k - Len(s) /\ s[k] \in Nat
    BY DEF RunTo
<1>4. i \in Nat /\ k \in Nat /\ Len(Newest(s, n)) \in Nat /\ Len(s) \in Nat
    BY <1>1
<1> QED  BY <1>2, <1>3, <1>4

\* Two runs, one after the other.
LEMMA RunsJoin ==
    ASSUME NEW s \in Seq(Nat), NEW t \in Seq(Nat), NEW e \in Int, NEW f \in Int,
           RunTo(s, e), RunTo(t, f), f = e + Len(t)
    PROVE  s \o t \in Seq(Nat) /\ RunTo(s \o t, f)
<1>1. s \o t \in Seq(Nat) /\ Len(s \o t) = Len(s) + Len(t)
    OBVIOUS
<1>2. ASSUME NEW i \in DOMAIN (s \o t)
      PROVE  (s \o t)[i] = f + i - Len(s \o t)
  BY <1>1, <1>2 DEF RunTo
<1> QED  BY <1>1, <1>2 DEF RunTo

\* A run of one piece, and of none.
LEMMA ShortRuns ==
    ASSUME NEW n \in Nat, NEW e \in Int
    PROVE  /\ <<n>> \in Seq(Nat) /\ Len(<<n>>) = 1 /\ RunTo(<<n>>, n)
           /\ RunTo(<<>>, e)
    BY DEF RunTo

\* The snapshot of the server.
LEMMA UpToRuns ==
    ASSUME NEW n \in Nat
    PROVE  UpTo(n) \in Seq(Nat) /\ RunTo(UpTo(n), n)
<1> DEFINE s == [i \in 1 .. n |-> i]
<1>1. s \in Seq(Nat) /\ Len(s) = n
    OBVIOUS
<1>2. RunTo(s, n)
    BY <1>1 DEF RunTo
<1> HIDE DEF s
<1>3. UpTo(n) = Newest(s, MaxTranscript)
    BY DEF UpTo, s
<1> QED  BY <1>1, <1>2, <1>3, NewestIs, NewestRuns, OutputAssumption

\* A join that keeps nothing of the first part.
LEMMA NewestOfJoin ==
    ASSUME NEW s \in Seq(Nat), NEW t \in Seq(Nat), NEW n \in Nat, NEW f \in Int,
           RunTo(t, f), Len(t) >= n
    PROVE  Newest(s \o t, n) \in Seq(Nat) /\ RunTo(Newest(s \o t, n), f)
<1>1. s \o t \in Seq(Nat) /\ Len(s \o t) = Len(s) + Len(t)
    OBVIOUS
<1>2. Newest(s \o t, n) \in Seq(Nat) /\ Len(Newest(s \o t, n)) = n
  <2>1. Len(s) + Len(t) >= n /\ Len(s) \in Nat /\ Len(t) \in Nat
      OBVIOUS
  <2>2. /\ Newest(s \o t, n) \in Seq(Nat)
        /\ Len(Newest(s \o t, n)) = IF Len(s \o t) > n THEN n ELSE Len(s \o t)
      BY <1>1, NewestIs
  <2> QED  BY <1>1, <2>1, <2>2
<1>3. ASSUME NEW i \in DOMAIN Newest(s \o t, n)
      PROVE  Newest(s \o t, n)[i] = f + i - Len(Newest(s \o t, n))
  <2> DEFINE k == Len(s) + Len(t) - n + i
  <2>0. i \in 1 .. n
      BY <1>2, <1>3
  <2>1. k \in DOMAIN (s \o t) /\ Newest(s \o t, n)[i] = (s \o t)[k]
    <3>1. Len(s \o t) - Len(Newest(s \o t, n)) + i = k
        BY <1>1, <1>2
    <3>2. /\ Len(s \o t) - Len(Newest(s \o t, n)) + i \in DOMAIN (s \o t)
          /\ Newest(s \o t, n)[i] = (s \o t)[Len(s \o t) - Len(Newest(s \o t, n)) + i]
        BY <1>1, <1>3, NewestIs
    <3> QED  BY <3>1, <3>2
  <2>2. PICK j \in DOMAIN t : j = k - Len(s) /\ (s \o t)[k] = t[j]
      BY <1>1, <2>0
  <2>3. t[j] = f + j - Len(t) /\ t[j] \in Nat
      BY DEF RunTo
  <2>4. Len(s) \in Nat /\ Len(t) \in Nat /\ i \in Nat /\ j \in Nat
      BY <2>0
  <2> QED  BY <1>2, <2>1, <2>2, <2>3, <2>4
<1> QED  BY <1>2, <1>3 DEF RunTo

\* What seedRestoredOutput makes of the pieces that came since the snapshot.
LEMMA SeedRuns ==
    ASSUME OutputTypes, NumberedInv, Waiting, Seeded
    PROVE  /\ numbered' \in Seq(Nat) /\ transcript' \in Seq(Nat) /\ lastNumber' \in Nat
           /\ lastNumber' = IF lastNumber > snapshot THEN lastNumber ELSE snapshot
           /\ \A i \in DOMAIN numbered' : numbered'[i] <= lastNumber'
           /\ RunTo(transcript', lastNumber')
<1> DEFINE N == Len(numbered)
           d == lastNumber - snapshot
           p == IF d <= 0 THEN N ELSE IF N > d THEN N - d ELSE 0
           Splits(k) == \A i \in DOMAIN numbered : numbered[i] > snapshot <=> i > k
<1>1. numbered \in Seq(Nat) /\ snapshot \in Nat /\ lastNumber \in Nat /\ N \in Nat /\ DOMAIN numbered = 1 .. N
    BY DEF OutputTypes
<1>2. p \in 0 .. N
    BY <1>1
<1>3. ASSUME NEW i \in DOMAIN numbered
      PROVE  numbered[i] \in Nat /\ (numbered[i] > snapshot <=> i > p)
             /\ (i > p => numbered[i] = lastNumber + i - N)
    BY <1>1, <1>3 DEF NumberedInv
<1>4. Splits(p)
    BY <1>3
<1>5. ASSUME NEW k \in 0 .. N, Splits(k)
      PROVE  k = p
  <2>1. CASE k < p
    <3>1. p \in DOMAIN numbered /\ p > k /\ ~(p > p)
        BY <1>1, <1>2, <2>1
    <3> QED  BY <1>4, <1>5, <3>1
  <2>2. CASE k > p
    <3>1. k \in DOMAIN numbered /\ k > p /\ ~(k > k)
        BY <1>1, <1>2, <2>2
    <3> QED  BY <1>4, <1>5, <3>1
  <2> QED  BY <1>2, <2>1, <2>2
<1> DEFINE last == CHOOSE k \in 0 .. Len(numbered) : Splits(k)
<1>6. last \in 0 .. N /\ Splits(last)
    BY <1>2, <1>4
<1>7. last = p
    BY <1>5, <1>6
<1> HIDE DEF p
<1>8. Newer = SubSeq(numbered, last + 1, Len(numbered))
    BY DEF Newer
<1> DEFINE t == SubSeq(numbered, p + 1, N)
<1>9. t \in Seq(Nat) /\ Len(t) = N - p /\ \A i \in 1 .. N - p : t[i] = numbered[p + i]
  <2>1. p + 1 \in 1 .. N + 1 /\ N - (p + 1) + 1 = N - p
      BY <1>1, <1>2
  <2>2. /\ t \in Seq(Nat) /\ Len(t) = N - (p + 1) + 1
        /\ \A i \in 1 .. N - (p + 1) + 1 : t[i] = numbered[(p + 1) + i - 1]
    <3>1. ASSUME NEW s \in Seq(Nat), NEW a \in 1 .. Len(s) + 1
          PROVE  /\ SubSeq(s, a, Len(s)) \in Seq(Nat) /\ Len(SubSeq(s, a, Len(s))) = Len(s) - a + 1
                 /\ \A i \in 1 .. Len(s) - a + 1 : SubSeq(s, a, Len(s))[i] = s[a + i - 1]
        OBVIOUS
    <3> QED  BY <1>1, <2>1, <3>1
  <2>3. ASSUME NEW i \in 1 .. N - p
        PROVE  t[i] = numbered[p + i]
    <3>1. (p + 1) + i - 1 = p + i
        BY <1>1, <1>2
    <3> QED  BY <2>1, <2>2, <3>1
  <2> QED  BY <2>1, <2>2, <2>3
<1>10. RunTo(t, lastNumber)
  <2>1. ASSUME NEW i \in DOMAIN t
        PROVE  t[i] = lastNumber + i - Len(t)
    <3>0. i \in 1 .. N - p
        BY <1>9, <2>1
    <3>1. PICK k \in DOMAIN numbered : k = p + i /\ t[i] = numbered[k]
      <4>1. p + i \in DOMAIN numbered
          BY <1>1, <1>2, <3>0
      <4> QED  BY <1>9, <3>0, <4>1
    <3>2. numbered[k] = lastNumber + k - N /\ numbered[k] \in Nat
        BY <1>2, <1>3, <3>0, <3>1
    <3>3. i \in Nat /\ p \in Nat /\ k \in Nat
        BY <1>1, <1>2, <3>0
    <3>4. Len(t) = N - p /\ N \in Nat
        BY <1>1, <1>9
    <3> HIDE DEF t
    <3> QED  BY <1>1, <3>1, <3>2, <3>3, <3>4
  <2> QED  BY <2>1 DEF RunTo
<1>11. Newer = t
    BY <1>7, <1>8
<1> HIDE DEF t, last, Splits
<1>p. p = IF d <= 0 THEN N ELSE IF N > d THEN N - d ELSE 0
    BY DEF p
<1> DEFINE u == UpTo(snapshot)
<1>12. u \in Seq(Nat) /\ RunTo(u, snapshot)
    BY <1>1, UpToRuns
<1>13. /\ numbered' = t /\ transcript' = Newest(u \o t, MaxTranscript)
       /\ lastNumber' = IF lastNumber > snapshot THEN lastNumber ELSE snapshot
    BY <1>11 DEF Seeded
<1> HIDE DEF u
<1>i. snapshot \in Int /\ lastNumber \in Int /\ (d > 0 => lastNumber > snapshot)
    BY <1>1
<1>14. u \o t \in Seq(Nat)
    BY <1>9, <1>12
<1>15. transcript' \in Seq(Nat)
    BY <1>13, <1>14, NewestIs, OutputAssumption
<1>16. RunTo(transcript', lastNumber')
  <2>1. CASE d <= 0
    <3>1. t = <<>>
        BY <1>1, <1>9, <2>1, <1>p
    <3>2. RunTo(t, snapshot)
        BY <3>1 DEF RunTo
    <3>3. snapshot = snapshot + Len(t) /\ lastNumber' = snapshot
        BY <3>1, <1>1, <1>13, <2>1
    <3>4. RunTo(u \o t, snapshot)
        BY <1>1, <1>9, <1>12, <3>2, <3>3, RunsJoin
    <3>5. RunTo(Newest(u \o t, MaxTranscript), snapshot)
        BY <1>i, <1>14, <3>4, NewestRuns, OutputAssumption
    <3> QED  BY <1>13, <3>3, <3>5
  <2>2. CASE d > 0 /\ N >= d
    <3>1. Len(t) = d /\ lastNumber = snapshot + Len(t) /\ lastNumber' = lastNumber
      <4>1. N - p = d
          BY <1>1, <2>2, <1>p
      <4>2. lastNumber = snapshot + d
          BY <1>1
      <4> QED  BY <1>9, <1>13, <1>i, <2>2, <4>1, <4>2
    <3>2. RunTo(u \o t, lastNumber)
        BY <1>i, <1>9, <1>10, <1>12, <3>1, RunsJoin
    <3>3. RunTo(Newest(u \o t, MaxTranscript), lastNumber)
        BY <1>i, <1>14, <3>2, NewestRuns, OutputAssumption
    <3> QED  BY <1>13, <3>1, <3>3
  <2>3. CASE d > 0 /\ N < d
    <3>1. Len(t) = N /\ lastNumber' = lastNumber
      <4>0. p = 0
          BY <1>1, <2>3, <1>p
      <4>1. N - p = N
          BY <1>1, <4>0
      <4> QED  BY <1>9, <1>13, <1>i, <2>3, <4>1
    <3>2. Len(t) >= MaxTranscript
        BY <1>1, <2>3, <3>1, OutputAssumption DEF NumberedInv
    <3> QED  BY <1>1, <1>9, <1>10, <1>12, <1>13, <3>1, <3>2, NewestOfJoin, OutputAssumption
  <2> QED  BY <1>1, <2>1, <2>2, <2>3
<1>17. ASSUME NEW i \in DOMAIN t
       PROVE  t[i] <= lastNumber'
  BY <1>9, <1>10, <1>1, <1>13 DEF RunTo
<1> QED  BY <1>1, <1>9, <1>13, <1>15, <1>16, <1>17

\* What the page has been given and keeps, untouched by a step.
PageRests == UNCHANGED <<lastNumber, numbered, transcript, term, heldOutput, hiddenBatch, inView, xterm, onScreen>>

\* The server numbers a piece.
LEMMA RecordKeeps ==
    ASSUME OutputInv, RecordOutput
    PROVE  OutputInv'
<1> USE DEF OutputInv, RecordOutput
<1>1. OutputTypes' /\ SentInv'
    BY DEF OutputTypes, SentInv
<1>2. WireInv' /\ NothingLost' /\ NumberedInv'
    BY DEF WireInv, NothingLost, NumberedInv, Waiting, Pieces, Marked, Unmarked
<1>3. TermInv' /\ TranscriptInv' /\ OneRun'
    BY DEF TermInv, TranscriptInv, OneRun
<1> QED  BY <1>1, <1>2, <1>3

\* What follows the steps of the server in the page.
LEMMA PageStays ==
    ASSUME OutputInv, PageRests, resynced' = TRUE => resynced = TRUE
    PROVE  TermInv' /\ TranscriptInv' /\ OneRun'
<1> USE DEF PageRests, OutputInv
<1>1. TermInv'
    BY DEF TermInv
<1>2. TranscriptInv'
    BY DEF TranscriptInv
<1>3. OneRun'
    BY DEF OneRun
<1> QED  BY <1>1, <1>2, <1>3

\* A piece at the end of what is on its way.
LEMMA WireGrows ==
    ASSUME NEW w \in Seq(Nat), NEW x \in Nat, NEW v, v = Append(w, x)
    PROVE  /\ v \in Seq(Nat) /\ Len(v) = Len(w) + 1
           /\ \A i \in DOMAIN v : (i \in DOMAIN w /\ v[i] = w[i]) \/ (i = Len(v) /\ v[i] = x)
           /\ \A i \in DOMAIN w : i \in DOMAIN v /\ i # Len(v)
<1>1. v \in Seq(Nat) /\ Len(v) = Len(w) + 1 /\ Len(w) \in Nat /\ DOMAIN w = 1 .. Len(w) /\ DOMAIN v = 1 .. Len(v)
    OBVIOUS
<1>2. v[Len(w) + 1] = x /\ \A i \in 1 .. Len(w) : v[i] = w[i]
    OBVIOUS
<1>3. ASSUME NEW i \in 1 .. Len(v)
      PROVE  (i \in 1 .. Len(w) /\ v[i] = w[i]) \/ (i = Len(v) /\ v[i] = x)
  <2>1. i \in 1 .. Len(w) \/ i = Len(w) + 1
      BY <1>1
  <2>2. CASE i \in 1 .. Len(w)
    <3>1. v[i] = w[i]
        BY <1>2, <2>2
    <3> QED  BY <2>2, <3>1
  <2>3. CASE i = Len(w) + 1
    <3>1. i = Len(v) /\ v[i] = x
        BY <1>1, <1>2, <2>3
    <3> QED  BY <3>1
  <2> QED  BY <2>1, <2>2, <2>3
<1>4. \A i \in 1 .. Len(w) : i \in 1 .. Len(v) /\ i # Len(v)
    BY <1>1
<1> QED  BY <1>1, <1>3, <1>4

\* The server sends the piece, when a browser is in the room.
LEMMA EmitKeeps ==
    ASSUME OutputInv, EmitOutput
    PROVE  OutputInv'
<1> USE DEF OutputInv, EmitOutput
<1>1. /\ PageRests /\ UNCHANGED <<resynced, outSeq, outLink, snapshot>> /\ emitted' = emitted + 1 /\ emitted \in Nat
      /\ emitted' <= outSeq
    BY DEF PageRests, SentInv, OutputTypes
<1>2. TermInv' /\ TranscriptInv' /\ OneRun'
    BY <1>1, PageStays
<1>3. CASE outLink = "down"
  BY <1>3, <1>1, <1>2 DEF WireInv, Waiting, OutputTypes, SentInv, NumberedInv, PageRests,
     NothingLost, Unmarked
<1>4. CASE outLink # "down"
  <2> DEFINE x == outSeq
  <2>1. outWire' = Append(outWire, x) /\ outWire \in Seq(Nat) /\ x \in Nat /\ x = emitted + 1
      BY <1>1, <1>4 DEF OutputTypes, SentInv
  <2>2. /\ outWire' \in Seq(Nat) /\ Len(outWire') = Len(outWire) + 1
        /\ \A i \in DOMAIN outWire' : (i \in DOMAIN outWire /\ outWire'[i] = outWire[i]) \/ (i = Len(outWire') /\ outWire'[i] = x)
        /\ \A i \in DOMAIN outWire : i \in DOMAIN outWire' /\ i # Len(outWire')
      BY <2>1, WireGrows, <1>1
  <2>3. OutputTypes' /\ SentInv'
      BY <1>1, <2>2 DEF OutputTypes, SentInv, PageRests
  <2>4. NumberedInv'
      BY <1>1 DEF NumberedInv, Waiting, PageRests
  <2>5. Waiting' = Waiting
      BY <1>1 DEF Waiting
  <2>6. WireInv'
    <3>1. ASSUME ~Waiting
          PROVE  Unmarked'
      <4>1. ASSUME NEW i \in DOMAIN outWire'
            PROVE  outWire'[i] > 0 /\ outWire'[i] = emitted' + i - Len(outWire')
        <5>1. CASE i \in DOMAIN outWire /\ outWire'[i] = outWire[i]
            BY <1>1, <2>1, <2>2, <3>1, <5>1 DEF WireInv, Unmarked
        <5>2. CASE i = Len(outWire') /\ outWire'[i] = x
          <6>0. i \in Nat /\ outWire'[i] = emitted + 1
              BY <2>1, <2>2, <5>2
          <6>1. outWire'[i] = emitted + 1 /\ emitted' + i - Len(outWire') = emitted + 1
              BY <1>1, <5>2, <6>0
          <6> QED  BY <1>1, <6>1
        <5> QED  BY <2>2, <5>1, <5>2
      <4> QED  BY <4>1 DEF Unmarked
    <3>2. ASSUME Waiting
          PROVE  Marked'
      <4>1. PICK z \in DOMAIN outWire : \A i \in DOMAIN outWire :
                    IF i = z THEN outWire[i] = 0
                    ELSE /\ outWire[i] > 0
                         /\ IF i > z THEN outWire[i] = emitted + i - Len(outWire)
                                     ELSE outWire[i] = emitted + i + 1 - Len(outWire)
          BY <3>2 DEF WireInv, Marked
      <4>2. z \in DOMAIN outWire' /\ z # Len(outWire') /\ z < Len(outWire')
          BY <2>1, <2>2
      <4>3. ASSUME NEW i \in DOMAIN outWire'
            PROVE  IF i = z THEN outWire'[i] = 0
                   ELSE /\ outWire'[i] > 0
                        /\ IF i > z THEN outWire'[i] = emitted' + i - Len(outWire')
                                    ELSE outWire'[i] = emitted' + i + 1 - Len(outWire')
        <5>1. CASE i \in DOMAIN outWire /\ outWire'[i] = outWire[i]
          <6>1. i \in Nat /\ z \in Nat /\ Len(outWire) \in Nat /\ Len(outWire') = Len(outWire) + 1
              BY <2>1, <2>2, <5>1
          <6>2. IF i = z THEN outWire'[i] = 0
                ELSE /\ outWire'[i] > 0
                     /\ IF i > z THEN outWire'[i] = emitted + i - Len(outWire)
                                 ELSE outWire'[i] = emitted + i + 1 - Len(outWire)
              BY <4>1, <5>1
          <6>n. emitted' = emitted + 1 /\ emitted \in Nat
              BY <1>1
          <6> HIDE DEF OutputInv, EmitOutput
          <6>3. emitted' + i - Len(outWire') = emitted + i - Len(outWire)
              BY <6>1, <6>n
          <6>4. emitted' + i + 1 - Len(outWire') = emitted + i + 1 - Len(outWire)
              BY <6>1, <6>n
          <6> QED  BY <6>2, <6>3, <6>4
        <5>2. CASE i = Len(outWire') /\ outWire'[i] = x
          <6>0. i \in Nat /\ z \in Nat /\ outWire'[i] = emitted + 1
              BY <2>1, <2>2, <4>2, <5>2
          <6>1. outWire'[i] = emitted + 1 /\ emitted' + i - Len(outWire') = emitted + 1 /\ i # z /\ i > z
              BY <1>1, <4>2, <5>2, <6>0
          <6> QED  BY <1>1, <6>1
        <5> QED  BY <2>2, <5>1, <5>2
      <4> QED  BY <4>2, <4>3 DEF Marked
    <3> QED  BY <1>1, <1>4, <2>5, <3>1, <3>2 DEF WireInv
  <2>7. NothingLost'
    <3>1. Pieces' = Pieces + 1 /\ Pieces \in Int
        BY <2>1, <2>2, <2>5 DEF Pieces
    <3>2. lastNumber \in Nat /\ snapshot \in Nat
        BY DEF OutputTypes
    <3> QED  BY <1>1, <3>1, <3>2 DEF NothingLost, PageRests
  <2> QED  BY <1>2, <2>3, <2>4, <2>6, <2>7
<1> QED  BY <1>3, <1>4

\* A socket joins the room and the snapshot is taken.
LEMMA JoinKeeps ==
    ASSUME OutputInv, JoinRoom \/ TakeSnapshot
    PROVE  OutputInv'
<1> USE DEF OutputInv, JoinRoom, TakeSnapshot
<1>1. /\ PageRests /\ UNCHANGED <<resynced, outSeq, emitted, outWire>> /\ outLink \in {"down", "joined"}
      /\ outLink' \in {"joined", "snapped"} /\ ~resynced /\ snapshot' \in {snapshot, outSeq}
    BY DEF PageRests, WireInv
<1>2. TermInv' /\ TranscriptInv' /\ OneRun'
    BY <1>1, PageStays
<1>3. OutputTypes' /\ SentInv'
    BY <1>1 DEF OutputTypes, SentInv, PageRests
<1>4. ~Waiting /\ ~Waiting'
    BY <1>1 DEF Waiting
<1>5. WireInv'
    BY <1>1, <1>4 DEF WireInv, Unmarked
<1>6. outLink' = "snapped" => snapshot' = outSeq
    OBVIOUS
<1>7. NothingLost'
    BY <1>1, <1>4, <1>6 DEF NothingLost, Pieces, SentInv, OutputTypes, PageRests
<1>8. NumberedInv'
  BY <1>1, <1>4, <1>6 DEF PageRests, OutputTypes, SentInv, NumberedInv
<1> QED  BY <1>2, <1>3, <1>5, <1>7, <1>8

\* The restored event is put behind what was sent before.
LEMMA SendKeeps ==
    ASSUME OutputInv, SendSnapshot
    PROVE  OutputInv'
<1> USE DEF OutputInv, SendSnapshot
<1>1. /\ PageRests /\ UNCHANGED <<resynced, outSeq, emitted, snapshot>> /\ outLink = "snapped" /\ outLink' = "up" /\ ~resynced
    BY DEF PageRests, WireInv
<1>2. TermInv' /\ TranscriptInv' /\ OneRun'
    BY <1>1, PageStays
<1>3. /\ outWire' \in Seq(Nat) /\ Len(outWire') = Len(outWire) + 1
      /\ \A i \in DOMAIN outWire' : (i \in DOMAIN outWire /\ outWire'[i] = outWire[i]) \/ (i = Len(outWire') /\ outWire'[i] = 0)
      /\ \A i \in DOMAIN outWire : i \in DOMAIN outWire' /\ i # Len(outWire')
  <2>1. outWire \in Seq(Nat) /\ outWire' = Append(outWire, 0) /\ 0 \in Nat
      BY DEF OutputTypes
  <2> HIDE DEF SendSnapshot, OutputInv
  <2> QED  BY <2>1, WireGrows
<1>4. OutputTypes' /\ SentInv'
    BY <1>1, <1>3 DEF OutputTypes, SentInv, PageRests
<1>5. ~Waiting /\ Waiting'
    BY <1>1 DEF Waiting
<1>6. emitted \in Nat /\ outWire \in Seq(Nat) /\ Len(outWire') \in DOMAIN outWire'
    BY <1>3 DEF OutputTypes
<1>7. Marked'
  <2>1. ASSUME NEW i \in DOMAIN outWire'
        PROVE  IF i = Len(outWire') THEN outWire'[i] = 0
               ELSE /\ outWire'[i] > 0
                    /\ IF i > Len(outWire') THEN outWire'[i] = emitted' + i - Len(outWire')
                                            ELSE outWire'[i] = emitted' + i + 1 - Len(outWire')
    BY <1>5, <1>3, <1>6, <1>1 DEF WireInv, Unmarked
  <2> QED  BY <1>6, <2>1 DEF Marked
<1>8. WireInv'
    BY <1>1, <1>5, <1>7 DEF WireInv
<1>9. NothingLost'
    BY <1>1, <1>3, <1>5, <1>6 DEF NothingLost, Pieces, PageRests
<1>10. NumberedInv'
    BY <1>1, <1>5 DEF NumberedInv, PageRests
<1> QED  BY <1>2, <1>4, <1>8, <1>9, <1>10

\* The socket is lost, with all that was on its way.
LEMMA DropKeeps ==
    ASSUME OutputInv, DropSocket
    PROVE  OutputInv'
<1> USE DEF OutputInv, DropSocket
<1>1. /\ PageRests /\ resynced' = FALSE /\ UNCHANGED <<outSeq, emitted, snapshot>> /\ outLink' = "down" /\ outWire' = <<>>
    BY DEF PageRests
<1>2. TermInv' /\ TranscriptInv' /\ OneRun'
    BY <1>1, PageStays
<1>3. OutputTypes' /\ SentInv'
  <2>1. outWire' \in Seq(Nat)
      BY <1>1
  <2> QED  BY <1>1, <2>1 DEF OutputTypes, SentInv, PageRests
<1>4. ~Waiting'
    BY <1>1 DEF Waiting
<1>5. WireInv' /\ NothingLost'
    BY <1>1, <1>4 DEF WireInv, NothingLost, Unmarked
<1>6. NumberedInv'
    BY <1>1, <1>4 DEF NumberedInv, PageRests
<1> QED  BY <1>2, <1>3, <1>5, <1>6

\* The steps of the page that leave what arrives alone.
WireRests == UNCHANGED <<outSeq, emitted, outLink, snapshot, outWire, resynced, lastNumber, numbered>>

\* What holds on the wire does not depend on the terminal.
LEMMA WireStays ==
    ASSUME OutputInv, WireRests
    PROVE  SentInv' /\ WireInv' /\ NothingLost' /\ NumberedInv'
    BY DEF OutputInv, WireRests, SentInv, WireInv, NothingLost, NumberedInv, Waiting, Pieces, Marked, Unmarked

\* What waits hidden is given to xterm.
LEMMA GivesHidden ==
    ASSUME NEW display \in Seq(Nat), NEW writes \in Seq(WriteRecord), NEW hidden \in Seq(Nat), NEW last \in Nat,
           NEW acks \in SUBSET Nat, Continuous(display, writes, hidden, last)
    PROVE  /\ Append(writes, Write(hidden, acks)) \in Seq(WriteRecord)
           /\ Continuous(display, Append(writes, Write(hidden, acks)), <<>>, last)
<1> DEFINE w == Write(hidden, acks)
           v == Append(writes, w)
           n == Len(writes)
<1>1. w \in WriteRecord /\ w.data = hidden
    BY DEF Write, WriteRecord
<1> HIDE DEF w
<1>2. v \in Seq(WriteRecord) /\ Len(v) = n + 1 /\ n \in Nat /\ v[n + 1] = w /\ \A k \in 1 .. n : v[k] = writes[k]
    BY <1>1
<1>d. DOMAIN v = 1 .. n + 1 /\ DOMAIN writes = 1 .. n
    BY <1>2
<1> HIDE DEF v, n
<1>3. PICK e \in [0 .. n -> Int] : Follows(display, writes, hidden, last, e)
    BY DEF Continuous, n
<1> DEFINE f == [k \in 0 .. n + 1 |-> IF k <= n THEN e[k] ELSE last]
<1>4. f \in [0 .. n + 1 -> Int] /\ f[n + 1] = last /\ \A k \in 0 .. n : f[k] = e[k]
    BY <1>2
<1> HIDE DEF f
<1>5. RunTo(display, f[0])
    BY <1>2, <1>3, <1>4 DEF Follows
<1>6. ASSUME NEW k \in DOMAIN v
      PROVE  RunTo(v[k].data, f[k]) /\ f[k] = f[k - 1] + Len(v[k].data)
  <2>1. CASE k \in 1 .. n
    <3>1. v[k] = writes[k] /\ k \in 0 .. n /\ k - 1 \in 0 .. n
        BY <1>2, <2>1
    <3>2. RunTo(writes[k].data, e[k]) /\ e[k] = e[k - 1] + Len(writes[k].data)
        BY <1>3, <1>d, <2>1 DEF Follows
    <3> QED  BY <1>4, <3>1, <3>2
  <2>2. CASE k = n + 1
    <3>1. v[k].data = hidden /\ f[k] = last /\ f[k - 1] = e[n]
        BY <1>1, <1>2, <1>4, <2>2
    <3>2. RunTo(hidden, last) /\ last = e[n] + Len(hidden)
        BY <1>3 DEF Follows, n
    <3> QED  BY <3>1, <3>2
  <2> QED  BY <1>2, <1>d, <2>1, <2>2
<1>7. RunTo(<<>>, last) /\ Len(<<>>) = 0
    BY DEF RunTo
<1>8. Follows(display, v, <<>>, last, f)
  BY <1>2, <1>4, <1>7, <1>5, <1>6 DEF Follows
<1>9. Continuous(display, v, <<>>, last)
    BY <1>2, <1>4, <1>8 DEF Continuous
<1> QED  BY <1>2, <1>9 DEF v, w

\* The next piece is added to what waits hidden.
LEMMA HiddenGrows ==
    ASSUME NEW display \in Seq(Nat), NEW writes \in Seq(WriteRecord), NEW hidden \in Seq(Nat), NEW last \in Nat,
           NEW next \in Nat, next = last + 1, Continuous(display, writes, hidden, last)
    PROVE  hidden \o <<next>> \in Seq(Nat) /\ Continuous(display, writes, hidden \o <<next>>, next)
<1>1. PICK e \in [0 .. Len(writes) -> Int] : Follows(display, writes, hidden, last, e)
    BY DEF Continuous
<1>2. <<next>> \in Seq(Nat) /\ Len(<<next>>) = 1 /\ RunTo(<<next>>, next) /\ last \in Int /\ next \in Int
    BY ShortRuns
<1>3. hidden \o <<next>> \in Seq(Nat) /\ RunTo(hidden \o <<next>>, next)
  <2>1. RunTo(hidden, last)
      BY <1>1 DEF Follows
  <2> QED  BY <1>2, <2>1, RunsJoin
<1>4. Len(hidden \o <<next>>) = Len(hidden) + 1
    OBVIOUS
<1>5. next = e[Len(writes)] + Len(hidden \o <<next>>)
  <2>1. last = e[Len(writes)] + Len(hidden) /\ Len(hidden) \in Nat /\ Len(writes) \in 0 .. Len(writes)
      BY <1>1 DEF Follows
  <2>2. e[Len(writes)] \in Int
      BY <2>1
  <2> QED  BY <1>4, <2>1, <2>2
<1>6. Follows(display, writes, hidden \o <<next>>, next, e)
    BY <1>1, <1>3, <1>5 DEF Follows
<1> QED  BY <1>3, <1>6 DEF Continuous

\* A sequence without its first element.
LEMMA TailIs ==
    ASSUME NEW T, NEW q \in Seq(T), q # <<>>
    PROVE  /\ Tail(q) \in Seq(T) /\ Len(Tail(q)) = Len(q) - 1 /\ Len(q) \in Nat /\ Len(q) >= 1
           /\ DOMAIN q = 1 .. Len(q) /\ DOMAIN Tail(q) = 1 .. Len(q) - 1
           /\ \A k \in DOMAIN Tail(q) : k + 1 \in DOMAIN q /\ k \in Nat /\ Tail(q)[k] = q[k + 1]
           /\ Tail(q) = <<>> <=> Len(q) = 1
           /\ 1 \in DOMAIN q /\ Head(q) = q[1] /\ Head(q) \in T
<1>1. Len(q) \in Nat /\ Len(q) >= 1 /\ DOMAIN q = 1 .. Len(q)
    OBVIOUS
<1>2. /\ Tail(q) \in Seq(T) /\ Len(Tail(q)) = Len(q) - 1 /\ DOMAIN Tail(q) = 1 .. Len(q) - 1
      /\ \A k \in 1 .. Len(q) - 1 : Tail(q)[k] = q[k + 1]
    BY <1>1
<1>3. ASSUME NEW k \in 1 .. Len(q) - 1
      PROVE  k + 1 \in DOMAIN q /\ k \in Nat
    BY <1>1
<1> DEFINE t == Tail(q)
<1>4. t \in Seq(T) /\ Len(t) = Len(q) - 1
    BY <1>2
<1> HIDE DEF t
<1>5. t = <<>> <=> Len(q) = 1
  <2>1. ASSUME Len(q) # 1
        PROVE  t # <<>>
    <3>1. Len(t) > 0
        BY <1>1, <1>4, <2>1
    <3> QED  BY <1>4, <3>1
  <2>2. ASSUME Len(q) = 1
        PROVE  t = <<>>
      BY <1>4, <2>2
  <2> QED  BY <2>1, <2>2
<1>6. 1 \in DOMAIN q /\ Head(q) = q[1] /\ q[1] \in T
    BY <1>1
<1>7. Tail(q) = <<>> <=> Len(q) = 1
    BY <1>5 DEF t
<1> QED  BY <1>1, <1>2, <1>3, <1>6, <1>7

\* xterm finishes a write.
LEMMA WriteParsed ==
    ASSUME NEW display \in Seq(Nat), NEW writes \in Seq(WriteRecord), NEW hidden \in Seq(Nat), NEW last \in Nat,
           NEW m \in Nat, Continuous(display, writes, hidden, last), writes # <<>>
    PROVE  Continuous(Newest(display \o Head(writes).data, m), Tail(writes), hidden, last)
<1> DEFINE n == Len(writes)
           v == Tail(writes)
           d == Head(writes).data
<1>1. n \in Nat /\ n >= 1 /\ DOMAIN writes = 1 .. n
    OBVIOUS
<1>2. v \in Seq(WriteRecord) /\ Len(v) = n - 1 /\ \A k \in 1 .. n - 1 : v[k] = writes[k + 1]
    BY <1>1
<1>d. DOMAIN v = 1 .. n - 1
    BY <1>2
<1>3. d = writes[1].data /\ d \in Seq(Nat)
  <2>1. writes[1] \in WriteRecord /\ Head(writes) = writes[1]
      BY <1>1
  <2> QED  BY <2>1 DEF WriteRecord
<1> HIDE DEF v, n, d
<1>4. PICK e \in [0 .. n -> Int] : Follows(display, writes, hidden, last, e)
    BY DEF Continuous, n
<1> DEFINE f == [k \in 0 .. n - 1 |-> e[k + 1]]
<1>5. f \in [0 .. n - 1 -> Int] /\ \A k \in 0 .. n - 1 : f[k] = e[k + 1]
    BY <1>1
<1> HIDE DEF f
<1>6. RunTo(Newest(display \o d, m), f[0])
  <2>1. RunTo(display, e[0]) /\ RunTo(d, e[1]) /\ e[1] = e[0] + Len(d)
    <3>1. 1 \in DOMAIN writes /\ 1 - 1 = 0
        BY <1>1
    <3> QED  BY <1>3, <1>4, <3>1 DEF Follows
  <2>2. e[0] \in Int /\ e[1] \in Int /\ f[0] = e[1]
      BY <1>1, <1>5
  <2>3. display \o d \in Seq(Nat) /\ RunTo(display \o d, e[1])
      BY <1>3, <2>1, <2>2, RunsJoin
  <2> QED  BY <2>2, <2>3, NewestRuns
<1>7. ASSUME NEW k \in DOMAIN v
      PROVE  RunTo(v[k].data, f[k]) /\ f[k] = f[k - 1] + Len(v[k].data)
  <2>1. k + 1 \in DOMAIN writes /\ v[k] = writes[k + 1] /\ f[k] = e[k + 1] /\ f[k - 1] = e[(k + 1) - 1]
    <3>1. k \in 1 .. n - 1 /\ k - 1 \in 0 .. n - 1 /\ k \in 0 .. n - 1 /\ k - 1 + 1 = (k + 1) - 1
        BY <1>1, <1>d
    <3>2. f[k] = e[k + 1] /\ f[k - 1] = e[k - 1 + 1] /\ v[k] = writes[k + 1]
        BY <1>2, <1>5, <3>1
    <3>3. k + 1 \in DOMAIN writes
        BY <1>1, <3>1
    <3> QED  BY <3>1, <3>2, <3>3
  <2> QED  BY <1>4, <2>1 DEF Follows
<1>8. last = f[Len(v)] + Len(hidden) /\ RunTo(hidden, last)
  <2>1. f[n - 1] = e[n]
      BY <1>1, <1>5
  <2> QED  BY <1>2, <1>4, <2>1 DEF Follows, n
<1>9. Follows(Newest(display \o d, m), v, hidden, last, f)
    BY <1>6, <1>7, <1>8 DEF Follows
<1> QED  BY <1>2, <1>5, <1>9 DEF Continuous, v, d

\* A terminal that was reset.
LEMMA StartsAnew ==
    ASSUME NEW hidden \in Seq(Nat), NEW last \in Nat, RunTo(hidden, last)
    PROVE  Continuous(<<>>, <<>>, hidden, last)
<1> DEFINE f == [k \in 0 .. 0 |-> last - Len(hidden)]
<1>1. f \in [0 .. 0 -> Int] /\ f[0] = last - Len(hidden)
    OBVIOUS
<1> HIDE DEF f
<1>2. Len(<<>>) = 0 /\ DOMAIN <<>> = {} /\ RunTo(<<>>, f[0]) /\ Len(hidden) \in Nat
    BY DEF RunTo
<1>3. last = f[0] + Len(hidden)
    BY <1>1, <1>2
<1>4. Follows(<<>>, <<>>, hidden, last, f)
    BY <1>2, <1>3 DEF Follows
<1> QED  BY <1>1, <1>2, <1>4 DEF Continuous

\* A terminal that is filled with the transcript.
LEMMA FilledRuns ==
    ASSUME OutputInv, Filled(<<>>), onScreen' = <<>>, hiddenBatch = <<>>, WireRests, UNCHANGED <<transcript, inView>>
    PROVE  OutputInv'
<1> USE DEF OutputInv
<1>1. SentInv' /\ WireInv' /\ NothingLost' /\ NumberedInv'
    BY WireStays
<1>2. /\ transcript \in Seq(Nat) /\ lastNumber \in Nat /\ lastNumber' = lastNumber /\ transcript' = transcript
      /\ resynced' = resynced
    BY DEF OutputTypes, WireRests
<1>3. TranscriptInv'
    BY <1>2 DEF TranscriptInv
<1>4. Range(heldOutput) \in SUBSET Nat
    BY DEF OutputTypes, Range
<1>5. term' = "ready" /\ heldOutput' = <<>>
    BY DEF Filled
<1> DEFINE w == Write(transcript, Range(heldOutput))
<1>6. w \in WriteRecord /\ ~w.barrier
    BY <1>2, <1>4 DEF Write, WriteRecord
<1>7. CASE xterm' = <<>> /\ hiddenBatch' = <<>> /\ transcript = <<>>
  <2>1. Continuous(<<>>, <<>>, <<>>, lastNumber)
    <3>1. <<>> \in Seq(Nat) /\ RunTo(<<>>, lastNumber)
        BY DEF RunTo
    <3> QED  BY <1>2, <3>1, StartsAnew
  <2>2. OneRun'
      BY <1>2, <1>7, <2>1 DEF OneRun
  <2>3. TermInv' /\ OutputTypes'
      BY <1>2, <1>5, <1>7 DEF TermInv, OutputTypes, WireRests
  <2> QED  BY <1>1, <1>3, <2>2, <2>3
<1>8. CASE xterm' = <<>> /\ hiddenBatch' = transcript
  BY <1>2, StartsAnew, <1>8, <1>5, <1>1, <1>3 DEF TranscriptInv, OneRun, TermInv, OutputTypes,
     WireRests
<1>9. CASE xterm' = Append(<<>>, w) /\ hiddenBatch' = <<>>
  <2>0. <<>> \in Seq(Nat) /\ <<>> \in Seq(WriteRecord)
      OBVIOUS
  <2>1. resynced => Continuous(<<>>, Append(<<>>, w), <<>>, lastNumber)
    BY <1>2, StartsAnew, <1>4, <2>0, GivesHidden DEF TranscriptInv
  <2>2. OneRun'
      BY <1>2, <1>9, <2>1 DEF OneRun
  <2> HIDE DEF w
  <2>3. xterm' = <<w>> /\ xterm' \in Seq(WriteRecord) /\ Len(xterm') = 1 /\ xterm'[1] = w
      BY <1>6, <1>9
  <2>4. TermInv' /\ OutputTypes'
      BY <1>2, <1>5, <1>6, <1>9, <2>3 DEF TermInv, OutputTypes, WireRests
  <2> QED  BY <1>1, <1>3, <2>2, <2>4
<1>10. \/ xterm' = <<>> /\ hiddenBatch' = <<>> /\ transcript = <<>>
       \/ xterm' = <<>> /\ hiddenBatch' = transcript
       \/ xterm' = Append(<<>>, w) /\ hiddenBatch' = <<>>
    BY DEF Filled
<1> QED  BY <1>7, <1>8, <1>9, <1>10

\* The terminal is hidden, opened or filled.
LEMMA AttachKeeps ==
    ASSUME OutputInv, HidePane \/ Attach \/ AttachReady
    PROVE  OutputInv'
<1> USE DEF OutputInv
<1>1. CASE HidePane \/ Attach
  <2>1. /\ WireRests /\ UNCHANGED <<transcript, heldOutput, hiddenBatch, xterm, onScreen>>
        /\ inView' \in BOOLEAN
        /\ term' = term \/ (term = "none" /\ term' = "opening")
    BY <1>1 DEF HidePane, WireRests, serverVars, Attach, OutputTypes
  <2>2. SentInv' /\ WireInv' /\ NothingLost' /\ NumberedInv'
      BY <2>1, WireStays
  <2>3. OutputTypes' /\ TermInv' /\ TranscriptInv'
      BY <2>1 DEF OutputTypes, TermInv, TranscriptInv, WireRests
  <2>4. OneRun'
      BY <2>1 DEF OneRun, WireRests
  <2> QED  BY <2>2, <2>3, <2>4
<1>2. CASE AttachReady
  BY <1>2, FilledRuns DEF AttachReady, WireRests, serverVars, TermInv
<1> QED  BY <1>1, <1>2

\* What waited hidden is written.
LEMMA FlushKeeps ==
    ASSUME OutputInv, NEW shows \in BOOLEAN, FlushBackground(shows)
    PROVE  OutputInv'
<1> USE DEF OutputInv
<1>1. /\ WireRests /\ UNCHANGED <<transcript, heldOutput, term, onScreen>> /\ hiddenBatch' = <<>> /\ inView' \in BOOLEAN
      /\ xterm' = IF hiddenBatch = <<>> THEN xterm ELSE Append(xterm, Write(hiddenBatch, Range(hiddenBatch)))
    BY DEF FlushBackground, WireRests, serverVars, OutputTypes
<1>2. SentInv' /\ WireInv' /\ NothingLost' /\ NumberedInv'
    BY <1>1, WireStays
<1>3. TranscriptInv'
    BY <1>1 DEF TranscriptInv, WireRests
<1>4. CASE hiddenBatch = <<>>
  BY <1>1, <1>4, <1>2, <1>3 DEF OutputTypes, TermInv, OneRun, WireRests
<1>5. CASE hiddenBatch # <<>>
  <2> DEFINE acks == Range(hiddenBatch)
             w == Write(hiddenBatch, acks)
  <2>1. /\ acks \in SUBSET Nat /\ hiddenBatch \in Seq(Nat) /\ onScreen \in Seq(Nat) /\ xterm \in Seq(WriteRecord)
        /\ lastNumber \in Nat /\ term = "ready"
      BY <1>5 DEF OutputTypes, Range, TermInv
  <2>2. xterm' = Append(xterm, w)
      BY <1>1, <1>5
  <2>3. w \in WriteRecord /\ ~w.barrier
      BY <2>1 DEF Write, WriteRecord
  <2>4. OneRun'
      BY <1>1, <2>1, <2>2, GivesHidden DEF OneRun, WireRests
  <2> HIDE DEF w, acks
  <2>5. xterm' \in Seq(WriteRecord) /\ \A k \in DOMAIN xterm' : (k \in DOMAIN xterm /\ xterm'[k] = xterm[k]) \/ xterm'[k] = w
      BY <2>1, <2>2, <2>3
  <2>6. OutputTypes' /\ TermInv'
      BY <1>1, <2>1, <2>3, <2>5 DEF OutputTypes, TermInv, WireRests
  <2> QED  BY <1>2, <1>3, <2>4, <2>6
<1> QED  BY <1>4, <1>5

\* xterm finishes a write, or reaches the barrier.
LEMMA ParsedKeeps ==
    ASSUME OutputInv, Parsed
    PROVE  OutputInv'
<1> USE DEF OutputInv
<1>1. /\ WireRests /\ UNCHANGED <<transcript, inView>> /\ xterm # <<>> /\ xterm \in Seq(WriteRecord) /\ onScreen \in Seq(Nat)
      /\ lastNumber \in Nat /\ hiddenBatch \in Seq(Nat)
    BY DEF Parsed, WireRests, serverVars, OutputTypes
<1>2. Head(xterm) = xterm[1] /\ 1 \in DOMAIN xterm /\ xterm[1] \in WriteRecord
    BY <1>1
<1>t. /\ Tail(xterm) \in Seq(WriteRecord) /\ Len(Tail(xterm)) = Len(xterm) - 1 /\ Len(xterm) \in Nat /\ Len(xterm) >= 1
      /\ DOMAIN xterm = 1 .. Len(xterm) /\ DOMAIN Tail(xterm) = 1 .. Len(xterm) - 1
      /\ \A k \in DOMAIN Tail(xterm) : k + 1 \in DOMAIN xterm /\ k \in Nat /\ Tail(xterm)[k] = xterm[k + 1]
      /\ Tail(xterm) = <<>> <=> Len(xterm) = 1
    BY <1>1, TailIs
<1>3. CASE Head(xterm).barrier
  BY <1>1, <1>2, <1>3, <1>t, FilledRuns DEF TermInv, OutputTypes, Parsed
<1>4. CASE ~Head(xterm).barrier
  <2>1. SentInv' /\ WireInv' /\ NothingLost' /\ NumberedInv'
      BY <1>1, WireStays
  <2>2. /\ onScreen' = Newest(onScreen \o Head(xterm).data, 2 * MaxTranscript) /\ xterm' = Tail(xterm)
        /\ UNCHANGED <<term, heldOutput, hiddenBatch>>
      BY <1>4 DEF Parsed
  <2>3. 2 * MaxTranscript \in Nat
      BY OutputAssumption
  <2>4. onScreen' \in Seq(Nat)
    <3>1. Head(xterm).data \in Seq(Nat)
        BY <1>2 DEF WriteRecord
    <3>2. onScreen \o Head(xterm).data \in Seq(Nat)
        BY <1>1, <3>1
    <3> QED  BY <2>2, <2>3, <3>2, NewestIs
  <2>5. TranscriptInv'
      BY <1>1 DEF TranscriptInv, WireRests
  <2>6. OneRun'
      BY <1>1, <2>2, <2>3, WriteParsed DEF OneRun, WireRests
  <2>7. OutputTypes'
      BY <1>1, <1>t, <2>2, <2>4 DEF OutputTypes, WireRests
  <2>8. TermInv'
    <3>1. ASSUME term = "syncing"
          PROVE  xterm' # <<>> /\ \A k \in DOMAIN xterm' : xterm'[k].barrier <=> k = Len(xterm')
      <4>1. \A k \in DOMAIN xterm : xterm[k].barrier <=> k = Len(xterm)
          BY <3>1 DEF TermInv
      <4>2. Len(xterm) # 1 /\ Len(xterm) > 1
        <5>1. Len(xterm) # 1
            BY <1>2, <1>4, <4>1
        <5> QED  BY <1>1, <1>t, <5>1
      <4>3. ASSUME NEW k \in 1 .. Len(xterm) - 1
            PROVE  Tail(xterm)[k].barrier <=> k = Len(xterm) - 1
        <5>1. PICK j \in DOMAIN xterm : j = k + 1 /\ Tail(xterm)[k] = xterm[j]
            BY <1>t
        <5>2. xterm[j].barrier <=> j = Len(xterm)
            BY <4>1
        <5>3. j = Len(xterm) <=> k = Len(xterm) - 1
            BY <1>t, <5>1
        <5> QED  BY <5>1, <5>2, <5>3
      <4>4. Tail(xterm) # <<>>
          BY <1>t, <4>2
      <4>5. DOMAIN Tail(xterm) = 1 .. Len(xterm) - 1 /\ Len(Tail(xterm)) = Len(xterm) - 1 /\ xterm' = Tail(xterm)
          BY <1>t, <2>2
      <4> HIDE DEF OutputInv
      <4> QED  BY <4>3, <4>4, <4>5
    <3>2. ASSUME term = "ready"
          PROVE  \A k \in DOMAIN xterm' : ~xterm'[k].barrier
      BY <1>t, <3>2, <2>2 DEF TermInv
    <3>3. term \notin {"none", "opening"}
        BY <1>1 DEF TermInv
    <3> QED  BY <2>2, <3>1, <3>2, <3>3 DEF TermInv
  <2> QED  BY <2>1, <2>5, <2>6, <2>7, <2>8
<1> QED  BY <1>3, <1>4

\* The first event of the socket is taken from the wire.
LEMMA PieceLeaves ==
    ASSUME OutputInv, outWire # <<>>, Head(outWire) # 0, outWire' = Tail(outWire),
           UNCHANGED <<outSeq, emitted, outLink, snapshot, resynced>>
    PROVE  /\ outWire' \in Seq(Nat) /\ WireInv' /\ (Waiting' <=> Waiting) /\ outLink # "down"
           /\ Pieces \in Nat /\ Pieces' = Pieces - 1 /\ Pieces >= 1
           /\ Head(outWire) = emitted + 1 - Pieces /\ Head(outWire) \in Nat
<1> USE DEF OutputInv
<1>1. outWire \in Seq(Nat) /\ emitted \in Nat
    BY DEF OutputTypes
<1> DEFINE L == Len(outWire)
<1>2. /\ outWire' \in Seq(Nat) /\ Len(outWire') = L - 1 /\ L \in Nat /\ L >= 1
      /\ DOMAIN outWire = 1 .. L /\ DOMAIN outWire' = 1 .. L - 1
      /\ \A k \in DOMAIN outWire' : k + 1 \in DOMAIN outWire /\ k \in Nat /\ outWire'[k] = outWire[k + 1]
      /\ 1 \in DOMAIN outWire /\ Head(outWire) = outWire[1] /\ Head(outWire) \in Nat
  <2> HIDE DEF OutputInv
  <2> QED  BY <1>1, TailIs
<1>3. outLink # "down" /\ (Waiting' <=> Waiting)
    BY DEF WireInv, Waiting
<1>n. L \in Nat /\ Len(outWire') = L - 1 /\ emitted \in Nat /\ emitted' = emitted
    BY <1>1, <1>2
<1>p. ASSUME NEW k \in DOMAIN outWire'
      PROVE  \E j \in DOMAIN outWire : j = k + 1 /\ outWire'[k] = outWire[j] /\ k \in Nat
    BY <1>2
<1>4. CASE ~Waiting
  <2>1. Unmarked
      BY <1>4 DEF WireInv
  <2>2. Head(outWire) = emitted + 1 - L
      BY <1>2, <2>1 DEF Unmarked
  <2>3. Pieces = L /\ Pieces' = L - 1
      BY <1>2, <1>3, <1>4 DEF Pieces
  <2>4. Unmarked'
    BY <1>p, <2>1, <1>1, <1>2 DEF Unmarked
  <2>5. WireInv'
      BY <1>3, <1>4, <2>4 DEF WireInv
  <2> QED  BY <1>2, <1>3, <2>2, <2>3, <2>5
<1>5. CASE Waiting
  <2>1. PICK z \in DOMAIN outWire : \A i \in DOMAIN outWire :
            IF i = z THEN outWire[i] = 0
            ELSE /\ outWire[i] > 0
                 /\ IF i > z THEN outWire[i] = emitted + i - Len(outWire)
                             ELSE outWire[i] = emitted + i + 1 - Len(outWire)
      BY <1>5 DEF WireInv, Marked
  <2>2. z # 1 /\ z \in Nat /\ z > 1 /\ z <= L
    <3>1. z # 1
        BY <1>2, <2>1
    <3> QED  BY <1>2, <3>1
  <2>3. Head(outWire) = emitted + 2 - L
    BY <2>2, <1>2, <2>1, <1>n
  <2>4. Pieces = L - 1 /\ Pieces' = L - 2
      BY <1>2, <1>3, <1>5 DEF Pieces
  <2>5. z - 1 \in DOMAIN outWire'
      BY <1>2, <2>2
  <2>6. ASSUME NEW k \in DOMAIN outWire'
        PROVE  IF k = z - 1 THEN outWire'[k] = 0
               ELSE /\ outWire'[k] > 0
                    /\ IF k > z - 1 THEN outWire'[k] = emitted' + k - Len(outWire')
                                    ELSE outWire'[k] = emitted' + k + 1 - Len(outWire')
    <3>1. PICK j \in DOMAIN outWire : j = k + 1 /\ outWire'[k] = outWire[j] /\ k \in Nat
        BY <1>p
    <3>2. IF j = z THEN outWire[j] = 0
          ELSE /\ outWire[j] > 0
               /\ IF j > z THEN outWire[j] = emitted + j - L
                           ELSE outWire[j] = emitted + j + 1 - L
        BY <2>1
    <3>n. j = k + 1 /\ k \in Nat /\ z \in Nat
        BY <2>2, <3>1
    <3> HIDE DEF OutputInv, L
    <3>3. emitted + j - L = emitted' + k - Len(outWire')
        BY <1>n, <3>n
    <3>4. emitted + j + 1 - L = emitted' + k + 1 - Len(outWire')
        BY <1>n, <3>n
    <3>5. (j = z <=> k = z - 1) /\ (j > z <=> k > z - 1)
        BY <3>n
    <3> QED  BY <3>1, <3>2, <3>3, <3>4, <3>5
  <2>7. Marked'
      BY <2>5, <2>6 DEF Marked
  <2>8. WireInv'
      BY <1>3, <1>5, <2>7 DEF WireInv
  <2>9. Pieces >= 1 /\ Pieces \in Nat /\ Pieces' = Pieces - 1 /\ Head(outWire) = emitted + 1 - Pieces
      BY <1>1, <1>2, <2>2, <2>3, <2>4
  <2> QED  BY <1>2, <1>3, <2>8, <2>9
<1> QED  BY <1>4, <1>5

\* A number above all others is added to the numbered pieces, which stay below it.
LEMMA NumbersBelow ==
    ASSUME NEW s \in Seq(Nat), NEW l \in Nat, NEW n \in Nat, n > l, \A i \in DOMAIN s : s[i] <= l
    PROVE  LET t == Newest(Append(s, n), MaxTranscript) IN t \in Seq(Nat) /\ \A i \in DOMAIN t : t[i] <= n
<1> DEFINE v == Append(s, n)
           t == Newest(v, MaxTranscript)
<1>1. /\ v \in Seq(Nat) /\ Len(v) = Len(s) + 1 /\ Len(s) \in Nat /\ DOMAIN s = 1 .. Len(s) /\ DOMAIN v = 1 .. Len(v)
      /\ \A i \in DOMAIN v : (i \in DOMAIN s /\ v[i] = s[i]) \/ (i = Len(v) /\ v[i] = n)
    BY WireGrows
<1> HIDE DEF v
<1>2. /\ t \in Seq(Nat) /\ Len(t) = (IF Len(v) > MaxTranscript THEN MaxTranscript ELSE Len(v)) /\ Len(t) \in Nat
      /\ DOMAIN t = 1 .. Len(t)
      /\ \A i \in DOMAIN t : Len(v) - Len(t) + i \in DOMAIN v /\ t[i] = v[Len(v) - Len(t) + i]
    BY <1>1, NewestIs, OutputAssumption
<1> HIDE DEF t
<1>p. ASSUME NEW i \in DOMAIN t
      PROVE  \E k \in DOMAIN v : k = Len(v) - Len(t) + i /\ t[i] = v[k] /\ i \in Nat /\ k \in Nat
    BY <1>1, <1>2
<1>3. ASSUME NEW i \in DOMAIN t
      PROVE  t[i] <= n
  <2>1. PICK k \in DOMAIN v : t[i] = v[k]
      BY <1>p
  <2>2. CASE k \in DOMAIN s /\ v[k] = s[k]
    BY <2>2, <2>1
  <2>3. CASE k = Len(v) /\ v[k] = n
      BY <2>1, <2>3
  <2> QED  BY <1>1, <2>2, <2>3
<1> QED  BY <1>2, <1>3 DEF t, v

\* What came after a snapshot still ends them.
LEMMA NumbersGrow ==
    ASSUME NEW s \in Seq(Nat), NEW l \in Nat, NEW snap \in Nat, NEW n \in Nat, n > l,
           \A i \in DOMAIN s : s[i] <= l
    PROVE  LET t == Newest(Append(s, n), MaxTranscript) IN
              (/\ n <= l + 1 \/ n <= snap + 1
               /\ \A i \in DOMAIN s : IF i + l > Len(s) + snap THEN s[i] = l + i - Len(s) ELSE s[i] <= snap
               /\ Len(s) < MaxTranscript => l <= snap + Len(s))
              => /\ \A i \in DOMAIN t : IF i + n > Len(t) + snap THEN t[i] = n + i - Len(t) ELSE t[i] <= snap
                 /\ Len(t) < MaxTranscript => n <= snap + Len(t)
<1> DEFINE v == Append(s, n)
           t == Newest(v, MaxTranscript)
<1>1. /\ v \in Seq(Nat) /\ Len(v) = Len(s) + 1 /\ Len(s) \in Nat /\ DOMAIN s = 1 .. Len(s) /\ DOMAIN v = 1 .. Len(v)
      /\ \A i \in DOMAIN v : (i \in DOMAIN s /\ v[i] = s[i]) \/ (i = Len(v) /\ v[i] = n)
    BY WireGrows
<1> HIDE DEF v
<1>2. /\ t \in Seq(Nat) /\ Len(t) = (IF Len(v) > MaxTranscript THEN MaxTranscript ELSE Len(v)) /\ Len(t) \in Nat
      /\ DOMAIN t = 1 .. Len(t)
      /\ \A i \in DOMAIN t : Len(v) - Len(t) + i \in DOMAIN v /\ t[i] = v[Len(v) - Len(t) + i]
    BY <1>1, NewestIs, OutputAssumption
<1> HIDE DEF t
<1>p. ASSUME NEW i \in DOMAIN t
      PROVE  \E k \in DOMAIN v : k = Len(v) - Len(t) + i /\ t[i] = v[k] /\ i \in Nat /\ k \in Nat
    BY <1>1, <1>2
<1>4. ASSUME n <= l + 1 \/ n <= snap + 1,
             \A i \in DOMAIN s : IF i + l > Len(s) + snap THEN s[i] = l + i - Len(s) ELSE s[i] <= snap,
             Len(s) < MaxTranscript => l <= snap + Len(s)
      PROVE  /\ \A i \in DOMAIN t : IF i + n > Len(t) + snap THEN t[i] = n + i - Len(t) ELSE t[i] <= snap
             /\ Len(t) < MaxTranscript => n <= snap + Len(t)
  <2>1. ASSUME NEW k \in DOMAIN v
        PROVE  IF k + n > Len(v) + snap THEN v[k] = n + k - Len(v) ELSE v[k] <= snap
    <3>1. CASE k \in DOMAIN s /\ v[k] = s[k]
      <4>1. k \in Nat /\ k <= Len(s) /\ s[k] \in Nat /\ s[k] <= l
          BY <1>1, <3>1
      <4>2. IF k + l > Len(s) + snap THEN s[k] = l + k - Len(s) ELSE s[k] <= snap
          BY <1>4, <3>1
      <4>3. CASE l > snap
        <5>1. n = l + 1
            BY <1>4, <4>3
        <5>n. n = l + 1 /\ Len(v) = Len(s) + 1 /\ Len(s) \in Nat /\ k \in Nat
            BY <1>1, <4>1, <5>1
        <5>2. k + l > Len(s) + snap <=> k + n > Len(v) + snap
            BY <5>n
        <5>3. l + k - Len(s) = n + k - Len(v)
            BY <5>n
        <5> QED  BY <3>1, <4>2, <5>2, <5>3
      <4>4. CASE ~(l > snap)
        BY <1>1, <1>4, <4>1, <4>4, <3>1
      <4> QED  BY <4>3, <4>4
    <3>2. CASE k = Len(v) /\ v[k] = n
        BY <1>1, <3>2
    <3> QED  BY <1>1, <3>1, <3>2
  <2>2. ASSUME NEW i \in DOMAIN t
        PROVE  IF i + n > Len(t) + snap THEN t[i] = n + i - Len(t) ELSE t[i] <= snap
    <3>1. PICK k \in DOMAIN v : k = Len(v) - Len(t) + i /\ t[i] = v[k] /\ i \in Nat /\ k \in Nat
        BY <1>p
    <3>2. IF k + n > Len(v) + snap THEN v[k] = n + k - Len(v) ELSE v[k] <= snap
        BY <2>1
    <3>n. k = Len(v) - Len(t) + i /\ Len(v) \in Nat /\ Len(t) \in Nat /\ i \in Nat
        BY <1>1, <1>2, <3>1
    <3>3. k + n > Len(v) + snap <=> i + n > Len(t) + snap
        BY <3>n
    <3>4. n + k - Len(v) = n + i - Len(t)
        BY <3>n
    <3> QED  BY <3>1, <3>2, <3>3, <3>4
  <2>3. Len(t) < MaxTranscript => n <= snap + Len(t)
      BY <1>1, <1>2, <1>4, OutputAssumption
  <2> QED  BY <2>2, <2>3
<1> QED  BY <1>4 DEF t, v

\* A piece that is new on the page.
NewPiece(n) ==
    /\ n > lastNumber /\ lastNumber' = n
    /\ numbered' = Newest(Append(numbered, n), MaxTranscript)
    /\ transcript' = Newest(Append(transcript, n), MaxTranscript)

\* How far the page is behind what was sent.
LEMMA NextNumber ==
    ASSUME OutputInv, Pieces \in Nat, NEW n \in Nat, n = emitted + 1 - Pieces, outLink # "down"
    PROVE  /\ resynced => n <= lastNumber + 1
           /\ outLink = "snapped" \/ Waiting => n <= lastNumber + 1 \/ n <= snapshot + 1
<1> USE DEF OutputInv
<1>1. emitted \in Nat /\ lastNumber \in Nat /\ snapshot \in Nat
    BY DEF OutputTypes
<1>2. ASSUME outLink \in {"snapped", "up"}
      PROVE  /\ resynced => n <= lastNumber + 1
             /\ n <= lastNumber + 1 \/ n <= snapshot + 1
  <2>1. emitted <= Pieces + (IF lastNumber > snapshot \/ resynced THEN lastNumber ELSE snapshot)
      BY <1>2 DEF NothingLost
  <2> HIDE DEF OutputInv
  <2>2. CASE resynced
      BY <1>1, <2>1, <2>2
  <2>3. CASE ~resynced
      BY <1>1, <2>1, <2>3
  <2> QED  BY <2>2, <2>3
<1> QED  BY <1>2 DEF WireInv, Waiting

\* What the terminal and its queues become when a new piece is written.
LEMMA WrittenKeeps ==
    ASSUME OutputInv, NEW n \in Nat, term # "none", Written({n}, <<n>>), UNCHANGED <<term, onScreen, resynced>>,
           lastNumber' = n, resynced => n = lastNumber + 1
    PROVE  /\ xterm' \in Seq(WriteRecord) /\ hiddenBatch' \in Seq(Nat) /\ heldOutput' \in Seq(Nat)
           /\ TermInv' /\ OneRun'
<1> USE DEF OutputInv
<1>1. /\ xterm \in Seq(WriteRecord) /\ hiddenBatch \in Seq(Nat) /\ heldOutput \in Seq(Nat) /\ onScreen \in Seq(Nat)
      /\ lastNumber \in Nat
    BY DEF OutputTypes
<1>2. <<n>> \in Seq(Nat) /\ {n} \in SUBSET Nat
    OBVIOUS
<1>3. CASE term # "ready"
  <2>1. xterm' = xterm /\ hiddenBatch' = hiddenBatch /\ heldOutput' = Newest(heldOutput \o <<n>>, MaxPending)
      BY <1>3 DEF Written
  <2>2. heldOutput \o <<n>> \in Seq(Nat)
      BY <1>1, <1>2
  <2>3. heldOutput' \in Seq(Nat)
      BY <2>1, <2>2, NewestIs, OutputAssumption
  <2>4. TermInv' /\ OneRun'
      BY <1>3, <2>1 DEF TermInv, OneRun
  <2> QED  BY <1>1, <2>1, <2>3, <2>4
<1>4. CASE term = "ready" /\ ~inView
  <2>1. xterm' = xterm /\ hiddenBatch' = hiddenBatch \o <<n>> /\ heldOutput' = heldOutput
      BY <1>4 DEF Written
  <2>2. hiddenBatch' \in Seq(Nat)
      BY <1>1, <1>2, <2>1
  <2>3. OneRun'
      BY <1>1, <1>4, <2>1, HiddenGrows DEF OneRun
  <2>4. TermInv'
      BY <1>4, <2>1 DEF TermInv
  <2> QED  BY <1>1, <2>1, <2>2, <2>3, <2>4
<1>5. CASE term = "ready" /\ inView
  <2> DEFINE w == Write(<<n>>, {n})
             o == Write(hiddenBatch, Range(hiddenBatch))
             base == IF hiddenBatch = <<>> THEN xterm ELSE Append(xterm, o)
  <2>1. xterm' = base \o <<w>> /\ hiddenBatch' = <<>> /\ heldOutput' = heldOutput
      BY <1>5 DEF Written
  <2>2. w \in WriteRecord /\ ~w.barrier
      BY <1>2 DEF Write, WriteRecord
  <2>3. Range(hiddenBatch) \in SUBSET Nat
      BY <1>1 DEF Range
  <2>4. o \in WriteRecord /\ ~o.barrier
      BY <1>1, <2>3 DEF Write, WriteRecord
  <2>5. /\ base \in Seq(WriteRecord)
        /\ resynced => Continuous(onScreen, base, <<>>, lastNumber)
    <3>1. CASE hiddenBatch = <<>>
        BY <1>1, <1>5, <3>1 DEF OneRun
    <3>2. CASE hiddenBatch # <<>>
      <4>1. base = Append(xterm, o)
          BY <3>2
      <4>2. resynced => Continuous(onScreen, Append(xterm, o), <<>>, lastNumber)
          BY <1>1, <1>5, <2>3, GivesHidden DEF OneRun
      <4> HIDE DEF o, base
      <4>3. Append(xterm, o) \in Seq(WriteRecord)
          BY <1>1, <2>4
      <4> QED  BY <4>1, <4>2, <4>3
    <3> QED  BY <3>1, <3>2
  <2>6. \A k \in DOMAIN base : ~base[k].barrier
    <3>1. \A k \in DOMAIN xterm : ~xterm[k].barrier
        BY <1>5 DEF TermInv
    <3> HIDE DEF o, OutputInv
    <3>2. CASE hiddenBatch = <<>>
        BY <3>1, <3>2
    <3>3. CASE hiddenBatch # <<>>
      <4> DEFINE v == Append(xterm, o)
      <4>1. /\ DOMAIN v = 1 .. Len(xterm) + 1 /\ v[Len(xterm) + 1] = o /\ DOMAIN xterm = 1 .. Len(xterm)
            /\ \A k \in 1 .. Len(xterm) : v[k] = xterm[k]
          BY <1>1, <2>4
      <4>2. Len(xterm) \in Nat /\ base = v
          BY <1>1, <3>3
      <4> HIDE DEF v, base
      <4>3. ASSUME NEW k \in DOMAIN v
            PROVE  ~v[k].barrier
        BY <4>1, <4>2, <3>1, <2>4
      <4> QED  BY <4>2, <4>3
    <3> QED  BY <3>2, <3>3
  <2> HIDE DEF base, o
  <2>7. xterm' = Append(base, w)
      BY <2>1, <2>2, <2>5
  <2>8. resynced => Continuous(onScreen, base, <<n>>, n)
    <3>1. <<>> \in Seq(Nat) /\ <<>> \o <<n>> = <<n>>
        BY <1>2
    <3> QED  BY <1>1, <2>5, <3>1, HiddenGrows
  <2>9. xterm' \in Seq(WriteRecord) /\ (resynced => Continuous(onScreen, xterm', <<>>, n))
    <3>1. resynced => Continuous(onScreen, Append(base, w), <<>>, n)
        BY <1>1, <1>2, <2>5, <2>8, GivesHidden
    <3>2. Append(base, w) \in Seq(WriteRecord)
      <4> HIDE DEF w
      <4> QED  BY <2>2, <2>5
    <3> QED  BY <2>7, <3>1, <3>2
  <2>10. OneRun'
      BY <1>5, <2>1, <2>9 DEF OneRun
  <2> HIDE DEF w
  <2>11. \A k \in DOMAIN xterm' : ~xterm'[k].barrier
    <3> DEFINE v == Append(base, w)
    <3>1. /\ DOMAIN v = 1 .. Len(base) + 1 /\ v[Len(base) + 1] = w /\ DOMAIN base = 1 .. Len(base)
          /\ \A k \in 1 .. Len(base) : v[k] = base[k]
        BY <2>2, <2>5
    <3>2. Len(base) \in Nat
        BY <2>5
    <3> HIDE DEF v
    <3>3. ASSUME NEW k \in DOMAIN v
          PROVE  ~v[k].barrier
      BY <3>1, <3>2, <2>6, <2>2
    <3>4. xterm' = v
        BY <2>7 DEF v
    <3> QED  BY <3>3, <3>4
  <2>12. TermInv'
      BY <1>5, <2>1, <2>11 DEF TermInv
  <2>13. <<>> \in Seq(Nat)
      OBVIOUS
  <2> QED  BY <1>1, <2>1, <2>9, <2>10, <2>12, <2>13
<1> QED  BY <1>3, <1>4, <1>5

\* A piece of output reaches the page.
LEMMA ArrivesKeeps ==
    ASSUME OutputInv, OutputArrives
    PROVE  OutputInv'
<1> DEFINE n == Head(outWire)
<1>1. /\ outWire # <<>> /\ n # 0 /\ outWire' = Tail(outWire) /\ UNCHANGED <<outSeq, emitted, outLink, snapshot, resynced>>
      /\ UNCHANGED <<term, inView, onScreen>>
    BY DEF OutputArrives, serverVars
<1>2. /\ outWire' \in Seq(Nat) /\ WireInv' /\ (Waiting' <=> Waiting) /\ outLink # "down"
      /\ Pieces \in Nat /\ Pieces' = Pieces - 1 /\ Pieces >= 1
      /\ n = emitted + 1 - Pieces /\ n \in Nat
    BY <1>1, PieceLeaves
<1> HIDE DEF n
<1>3. /\ emitted \in Nat /\ outSeq \in Nat /\ snapshot \in Nat /\ lastNumber \in Nat
      /\ emitted <= outSeq /\ snapshot <= outSeq /\ lastNumber <= outSeq /\ outSeq <= emitted + 1
      /\ numbered \in Seq(Nat) /\ transcript \in Seq(Nat)
    BY DEF OutputInv, OutputTypes, SentInv
<1>4. CASE n <= lastNumber
  <2>1. UNCHANGED <<lastNumber, numbered, transcript, heldOutput, hiddenBatch, xterm>>
      BY <1>4 DEF OutputArrives, n
  <2>2. OutputTypes' /\ SentInv'
      BY <1>1, <1>2, <2>1 DEF OutputInv, OutputTypes, SentInv
  <2>3. NumberedInv'
      BY <1>1, <1>2, <2>1 DEF OutputInv, NumberedInv
  <2>4. TermInv' /\ TranscriptInv' /\ OneRun'
      BY <1>1, <2>1 DEF OutputInv, TermInv, TranscriptInv, OneRun
  <2>5. NothingLost'
    <3>1. emitted <= Pieces' + lastNumber
        BY <1>2, <1>3, <1>4
    <3>2. lastNumber' = lastNumber /\ snapshot' = snapshot /\ emitted' = emitted /\ Pieces' \in Nat
        BY <1>1, <1>2, <2>1
    <3>3. CASE lastNumber' > snapshot' \/ resynced'
        BY <3>1, <3>2, <3>3 DEF NothingLost
    <3>4. CASE ~(lastNumber' > snapshot' \/ resynced')
      <4>1. lastNumber <= snapshot
          BY <1>3, <3>2, <3>4
      <4>2. emitted <= Pieces' + snapshot
        <5>1. PICK p \in Nat : p = Pieces'
            BY <3>2
        <5>2. emitted <= p + lastNumber /\ emitted \in Nat /\ lastNumber \in Nat /\ snapshot \in Nat
            BY <1>3, <3>1, <5>1
        <5>3. emitted <= p + snapshot
            BY <4>1, <5>2
        <5> QED  BY <5>1, <5>3
      <4> QED  BY <3>2, <3>4, <4>2 DEF NothingLost
    <3> QED  BY <3>3, <3>4
  <2> QED  BY <1>2, <2>2, <2>3, <2>4, <2>5 DEF OutputInv
<1>5. CASE n > lastNumber
  <2>1. NewPiece(n)
      BY <1>2, <1>3, <1>5 DEF OutputArrives, NewPiece, n
  <2>2. ASSUME term = "none"
        PROVE  heldOutput' \in Seq(Nat) /\ hiddenBatch' \in Seq(Nat) /\ xterm' \in Seq(WriteRecord) /\ TermInv' /\ OneRun'
    BY <1>2, <1>3, <1>5, <2>2, <1>1 DEF OutputArrives, n, OutputInv, OutputTypes, TermInv, OneRun
  <2>3. ASSUME term # "none"
        PROVE  heldOutput' \in Seq(Nat) /\ hiddenBatch' \in Seq(Nat) /\ xterm' \in Seq(WriteRecord) /\ TermInv' /\ OneRun'
    <3>1. Written({n}, <<n>>)
        BY <1>2, <1>3, <1>5, <2>3 DEF OutputArrives, n
    <3>2. resynced => n = lastNumber + 1
        BY <1>2, <1>3, <1>5, NextNumber
    <3>3. lastNumber' = n /\ UNCHANGED <<term, onScreen, resynced>>
        BY <1>1, <2>1 DEF NewPiece
    <3> QED  BY <1>2, <2>3, <3>1, <3>2, <3>3, WrittenKeeps
  <2>4. heldOutput' \in Seq(Nat) /\ hiddenBatch' \in Seq(Nat) /\ xterm' \in Seq(WriteRecord) /\ TermInv' /\ OneRun'
      BY <2>2, <2>3
  <2>5. lastNumber' = n /\ n <= emitted
      BY <1>2, <1>3, <2>1 DEF NewPiece
  <2>6. SentInv'
    BY <1>2, <1>3, <2>5, <1>1 DEF SentInv
  <2>7. /\ numbered' \in Seq(Nat)
        /\ NumberedInv'
    <3>1. \A i \in DOMAIN numbered : numbered[i] <= lastNumber
        BY DEF OutputInv, NumberedInv
    <3>2. numbered' = Newest(Append(numbered, n), MaxTranscript)
        BY <2>1 DEF NewPiece
    <3>3. numbered' \in Seq(Nat) /\ \A i \in DOMAIN numbered' : numbered'[i] <= n
        BY <1>2, <1>3, <1>5, <3>1, <3>2, NumbersBelow
    <3>4. ASSUME outLink = "snapped" \/ Waiting
          PROVE  /\ \A i \in DOMAIN numbered' : IF i + n > Len(numbered') + snapshot THEN numbered'[i] = n + i - Len(numbered')
                                                ELSE numbered'[i] <= snapshot
                 /\ Len(numbered') < MaxTranscript => n <= snapshot + Len(numbered')
      BY <3>4, <1>2, NextNumber, <1>3, <1>5, <3>1, <3>2, NumbersGrow DEF OutputInv, NumberedInv
    <3>5. (outLink = "snapped" \/ Waiting)' <=> (outLink = "snapped" \/ Waiting)
        BY <1>1, <1>2
    <3>6. snapshot' = snapshot /\ lastNumber' = n
        BY <1>1, <2>5
    <3>7. NumberedInv'
        BY <3>3, <3>4, <3>5, <3>6 DEF NumberedInv
    <3> QED  BY <3>3, <3>7
  <2>8. NothingLost'
    BY <1>1, <1>2, <1>3, <2>5 DEF NothingLost
  <2>9. transcript' \in Seq(Nat) /\ TranscriptInv'
    <3>1. transcript' = Newest(transcript \o <<n>>, MaxTranscript)
      <4>1. Append(transcript, n) = transcript \o <<n>>
          BY <1>2, <1>3
      <4> QED  BY <2>1, <4>1 DEF NewPiece
    <3>2. transcript \o <<n>> \in Seq(Nat)
        BY <1>2, <1>3
    <3>3. ASSUME resynced
          PROVE  RunTo(transcript', n)
      <4>1. n = lastNumber + 1 /\ RunTo(transcript, lastNumber)
          BY <1>2, <1>3, <1>5, <3>3, NextNumber DEF OutputInv, TranscriptInv
      <4>2. <<n>> \in Seq(Nat) /\ Len(<<n>>) = 1 /\ RunTo(<<n>>, n) /\ n \in Int /\ lastNumber \in Int
          BY <1>2, <1>3, ShortRuns
      <4>3. RunTo(transcript \o <<n>>, n)
          BY <1>3, <4>1, <4>2, RunsJoin
      <4> QED  BY <3>1, <3>2, <4>2, <4>3, NewestRuns, OutputAssumption
    <3>4. transcript' \in Seq(Nat)
        BY <3>1, <3>2, NewestIs, OutputAssumption
    <3> QED  BY <1>1, <2>5, <3>3, <3>4 DEF TranscriptInv
  <2>10. OutputTypes'
      BY <1>1, <1>2, <2>4, <2>5, <2>7, <2>9 DEF OutputInv, OutputTypes
  <2> QED  BY <1>2, <2>4, <2>6, <2>7, <2>8, <2>9, <2>10 DEF OutputInv
<1> QED  BY <1>2, <1>3, <1>4, <1>5

\* The restored event reaches the page.
LEMMA RestoredKeeps ==
    ASSUME OutputInv, Restored
    PROVE  OutputInv'
<1> DEFINE L == Len(outWire)
<1>1. /\ outWire # <<>> /\ Head(outWire) = 0 /\ outWire' = Tail(outWire) /\ resynced' = TRUE
      /\ UNCHANGED <<outSeq, emitted, outLink, snapshot>> /\ UNCHANGED <<inView, onScreen>> /\ Seeded
    BY DEF Restored, serverVars
<1>2. outWire \in Seq(Nat) /\ emitted \in Nat /\ outSeq \in Nat /\ snapshot \in Nat /\ lastNumber \in Nat
    BY DEF OutputInv, OutputTypes
<1>3. /\ outWire' \in Seq(Nat) /\ Len(outWire') = L - 1 /\ L \in Nat /\ L >= 1
      /\ DOMAIN outWire = 1 .. L /\ DOMAIN outWire' = 1 .. L - 1
      /\ \A k \in DOMAIN outWire' : k + 1 \in DOMAIN outWire /\ k \in Nat /\ outWire'[k] = outWire[k + 1]
      /\ 1 \in DOMAIN outWire /\ outWire[1] = 0
    BY <1>1, <1>2, TailIs
<1> HIDE DEF L
<1>4. Waiting
    BY <1>3 DEF OutputInv, WireInv, Unmarked
<1>5. /\ numbered' \in Seq(Nat) /\ transcript' \in Seq(Nat) /\ lastNumber' \in Nat
      /\ lastNumber' = IF lastNumber > snapshot THEN lastNumber ELSE snapshot
      /\ \A i \in DOMAIN numbered' : numbered'[i] <= lastNumber'
      /\ RunTo(transcript', lastNumber')
    BY <1>1, <1>4, SeedRuns DEF OutputInv
<1>6. PICK z \in DOMAIN outWire : \A i \in DOMAIN outWire :
          IF i = z THEN outWire[i] = 0
          ELSE /\ outWire[i] > 0
               /\ IF i > z THEN outWire[i] = emitted + i - Len(outWire)
                           ELSE outWire[i] = emitted + i + 1 - Len(outWire)
    BY <1>4 DEF OutputInv, WireInv, Marked
<1>7. z = 1
    BY <1>3, <1>6
<1>8. ~Waiting' /\ outLink = "up" /\ outLink' = "up"
    BY <1>1, <1>4 DEF Waiting
<1>9. WireInv'
  BY <1>3, <1>7, <1>6, <1>1, <1>2, <1>8 DEF L, WireInv, Unmarked
<1>10. SentInv'
  BY <1>2, <1>5, <1>1 DEF OutputInv, SentInv
<1>11. NothingLost'
  BY <1>3, <1>4, <1>8, <1>1, <1>5 DEF Pieces, L, OutputInv, NothingLost, Waiting
<1>12. NumberedInv'
    BY <1>5, <1>8 DEF NumberedInv
<1>13. TranscriptInv'
    BY <1>5 DEF TranscriptInv
<1>14. CASE term # "ready"
  BY <1>14, <1>1, <1>3, <1>5, <1>9, <1>10, <1>11, <1>12, <1>13 DEF Restored, OutputInv,
     OutputTypes, TermInv, OneRun
<1>15. CASE term = "ready"
  <2> DEFINE silent == [i \in DOMAIN xterm |-> [xterm[i] EXCEPT !.acks = {}]]
  <2>1. term' = "syncing" /\ heldOutput' = <<>> /\ hiddenBatch' = <<>> /\ xterm' = Append(silent, Barrier)
      BY <1>15 DEF Restored, HeldBack
  <2>2. xterm \in Seq(WriteRecord) /\ \A k \in DOMAIN xterm : ~xterm[k].barrier
      BY <1>15 DEF OutputInv, OutputTypes, TermInv
  <2>3. ASSUME NEW k \in DOMAIN xterm
        PROVE  [xterm[k] EXCEPT !.acks = {}] \in WriteRecord /\ ~[xterm[k] EXCEPT !.acks = {}].barrier
    <3>1. xterm[k] \in WriteRecord
        BY <2>2
    <3> QED  BY <2>2, <3>1 DEF WriteRecord
  <2>4. silent \in Seq(WriteRecord) /\ \A k \in DOMAIN silent : ~silent[k].barrier
    <3>1. DOMAIN xterm = 1 .. Len(xterm) /\ Len(xterm) \in Nat
        BY <2>2
    <3>2. silent \in [1 .. Len(xterm) -> WriteRecord]
        BY <2>3, <3>1
    <3>3. silent \in Seq(WriteRecord)
        BY <3>1, <3>2
    <3> QED  BY <2>3, <3>3
  <2>5. Barrier \in WriteRecord /\ Barrier.barrier
    BY DEF Barrier, WriteRecord
  <2> HIDE DEF silent
  <2> DEFINE v == Append(silent, Barrier)
  <2>6. /\ v \in Seq(WriteRecord) /\ DOMAIN v = 1 .. Len(silent) + 1 /\ v[Len(silent) + 1] = Barrier
        /\ Len(v) = Len(silent) + 1 /\ Len(silent) \in Nat /\ DOMAIN silent = 1 .. Len(silent)
        /\ \A k \in 1 .. Len(silent) : v[k] = silent[k]
      BY <2>4, <2>5
  <2>7. xterm' = v
      BY <2>1
  <2> HIDE DEF v
  <2>8. ASSUME NEW k \in DOMAIN v
        PROVE  v[k].barrier <=> k = Len(v)
    BY <2>6, <2>4, <2>5
  <2>9. v # <<>>
    <3>1. Len(v) > 0
        BY <2>6
    <3> QED  BY <2>6, <3>1
  <2>10. TermInv'
      BY <2>1, <2>7, <2>8, <2>9 DEF TermInv
  <2>11. OneRun'
      BY <2>1 DEF OneRun
  <2>12. <<>> \in Seq(Nat)
      OBVIOUS
  <2>13. OutputTypes'
      BY <1>1, <1>3, <1>5, <2>1, <2>6, <2>7, <2>12 DEF OutputInv, OutputTypes
  <2> QED  BY <1>9, <1>10, <1>11, <1>12, <1>13, <2>10, <2>11, <2>13 DEF OutputInv
<1> QED  BY <1>14, <1>15

\* Nothing has been sent, and nothing is shown.
LEMMA OutputStarts ==
    ASSUME OutputInit
    PROVE  OutputInv
<1> USE DEF OutputInit
<1>1. <<>> \in Seq(Nat) /\ <<>> \in Seq(WriteRecord) /\ DOMAIN <<>> = {} /\ Len(<<>>) = 0
    OBVIOUS
<1>2. OutputTypes
    BY <1>1 DEF OutputTypes
<1>5. SentInv
    BY DEF SentInv
<1>3. WireInv /\ NothingLost /\ NumberedInv
    BY <1>1 DEF WireInv, NothingLost, NumberedInv, Waiting, Unmarked
<1>4. TermInv /\ TranscriptInv /\ OneRun
    BY <1>1 DEF TermInv, TranscriptInv, OneRun
<1> QED  BY <1>2, <1>3, <1>4, <1>5 DEF OutputInv

\* Every step of the session's output keeps the invariant.
LEMMA OutputSteps ==
    ASSUME OutputInv, [OutputNext]_outputVars
    PROVE  OutputInv'
<1>1. CASE RecordOutput
    BY <1>1, RecordKeeps
<1>2. CASE EmitOutput
    BY <1>2, EmitKeeps
<1>3. CASE JoinRoom \/ TakeSnapshot
    BY <1>3, JoinKeeps
<1>4. CASE SendSnapshot
    BY <1>4, SendKeeps
<1>5. CASE DropSocket
    BY <1>5, DropKeeps
<1>6. CASE OutputArrives
    BY <1>6, ArrivesKeeps
<1>7. CASE HidePane \/ Attach \/ AttachReady
    BY <1>7, AttachKeeps
<1>8. CASE Restored
    BY <1>8, RestoredKeeps
<1>9. CASE Parsed
    BY <1>9, ParsedKeeps
<1>10. CASE \E shows \in BOOLEAN : FlushBackground(shows)
    BY <1>10, FlushKeeps
<1>11. CASE UNCHANGED outputVars
  <2>1. PageRests /\ UNCHANGED <<outSeq, emitted, outLink, snapshot, outWire, resynced>>
      BY <1>11 DEF outputVars, PageRests
  <2>2. TermInv' /\ TranscriptInv' /\ OneRun'
      BY <2>1, PageStays
  <2>3. OutputTypes' /\ SentInv'
      BY <2>1 DEF OutputInv, OutputTypes, SentInv, PageRests
  <2>4. WireInv' /\ NothingLost' /\ NumberedInv'
      BY <2>1 DEF OutputInv, WireInv, NothingLost, NumberedInv, PageRests, Waiting, Pieces, Marked, Unmarked
  <2> QED  BY <2>2, <2>3, <2>4 DEF OutputInv
<1> QED  BY <1>1, <1>2, <1>3, <1>4, <1>5, <1>6, <1>7, <1>8, <1>9, <1>10, <1>11 DEF OutputNext

\* Consecutive numbers on the screen, whatever happens to the socket, the pane and
\* the terminal (writeOutput, seedRestoredOutput, resyncRestoredOutput,
\* flushBackgroundOutput, attachTerminal).
THEOREM ScreenStaysInOrder == OutputSpec => []ScreenInOrder
<1>1. ASSUME OutputInv
      PROVE  ScreenInOrder
  <2> SUFFICES ASSUME resynced, term = "ready", NEW i \in 1 .. Len(onScreen) - 1
               PROVE  onScreen[i + 1] = onScreen[i] + 1
      BY DEF ScreenInOrder
  <2>1. PICK e \in [0 .. Len(xterm) -> Int] : Follows(onScreen, xterm, hiddenBatch, lastNumber, e)
      BY <1>1 DEF OutputInv, OneRun, Continuous
  <2>2. RunTo(onScreen, e[0]) /\ e[0] \in Int
    <3>1. Len(xterm) \in Nat
        BY <1>1 DEF OutputInv, OutputTypes
    <3>2. 0 \in 0 .. Len(xterm)
        BY <3>1
    <3> QED  BY <2>1, <3>2 DEF Follows
  <2>3. onScreen \in Seq(Nat)
      BY <1>1 DEF OutputInv, OutputTypes
  <2>4. i \in DOMAIN onScreen /\ i + 1 \in DOMAIN onScreen /\ i \in Nat /\ Len(onScreen) \in Nat
      BY <2>3
  <2>5. onScreen[i] = e[0] + i - Len(onScreen) /\ onScreen[i + 1] = e[0] + (i + 1) - Len(onScreen)
      BY <2>2, <2>4 DEF RunTo
  <2> QED  BY <2>2, <2>4, <2>5
<1> QED  BY <1>1, OutputStarts, OutputSteps, PTL DEF OutputSpec

==============================================================================
