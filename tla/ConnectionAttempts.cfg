CONSTANTS
    Requests = {r1}
    Reconnects = {q1}
    Candidates = {p1}
    None = None
    MaxActs = 3
    MaxDrops = 1
SPECIFICATION FairSpec
INVARIANT ConnectionsAgree
PROPERTY BusyEnds
CHECK_DEADLOCK FALSE
