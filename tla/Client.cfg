CONSTANTS
    h1 = h1 h2 = h2 h3 = h3
    PaneSessions = {a1, a2, a3} PaneLayouts = {1, 2} NoSession = none MaxPaneActs = 5
    Hosts = {h1, h2, h3} Groups = {g1} Ungrouped = ungrouped NoHost = none MaxHostActs = 2
    Shells = {s1, s2} TmuxShells = {s2} OscShells = {s1} NoShell = none Folders = {0, 1} MaxSyncActs = 3
    Targets = {t1, t2} NoTarget = none MaxToolActs = 3
    MaxChunks = 4 MaxTranscript = 2 MaxPending = 1 OutputWindow = 3 MaxDrops = 2
    Paths = {p1, p2} NoPath = none SwapNeeded = TRUE MaxRequests = 4 MaxTexts = 2
    Consoles = {c1, c2} MaxSends = 3 MaxPieces = 2 MaxRetries = 1 MaxEmits = 5
    SavedCommands = {k1, k2, k3} CommandSets = {x1} NoCommand = none MaxCommandActs = 5
    Tabs = {b1} MaxLayoutActs = 6
    Sides = {l, r} NoSide = none ShareIds = {e1} NoShare = none MaxDialogActs = 5 MaxTries = 2 MaxLosses = 1
    Flows = {f1, f2} NoFlow = none Factors = {q1, q2} NoFactor = none
SPECIFICATION ClientSpec
INVARIANTS
    PanesKeepSessions
    HostsInPlace
    SyncSafe
    ToolsHold
    ScreenInOrder
    EditsSafe
    InputInOrder
    CommandsSafe
    LayoutSafe
    SourcesSafe
    AccountSafe
CHECK_DEADLOCK FALSE
