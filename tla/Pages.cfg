CONSTANTS
    MaxTabs = 2 Sources = {s1, s2} None = none Embedded = embedded Picker = picker MaxRequests = 2 MaxActs = 3
    Admins = {u1, u2} MaxArchives = 2 Nobody = 0 MaxCalls = 2
SPECIFICATION PagesSpec
INVARIANTS ListingsTrue AdminSafe
CHECK_DEADLOCK FALSE
SYMMETRY Symmetry
