CONSTANTS
    c1 = c1 c2 = c2 b1 = b1 u1 = u1 p1 = p1 d1 = d1 q1 = q1
    Uploads = {u1, p1} Drops = {p1} Downloads = {d1} None = none
    Copies = {c1, c2}
    BatchOf <- MCBatchOf
    Quick = {q1} Uses <- MCUses MoveSource = q1 MoveItems = 2 MaxActs = 3
SPECIFICATION FairSpec
INVARIANT HoldsBalance
PROPERTY QueueDrains
CHECK_DEADLOCK FALSE
