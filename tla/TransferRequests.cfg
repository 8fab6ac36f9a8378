SPECIFICATION Spec
CONSTANTS
    Transfers = {t1, t2}
    Requests = {q1, q2}
    Conns = {c1}
    Users = {u1}
    Sids = {s1}
    Directions = {"upload", "server_to_server"}
    PerUserLimit = 1
    GlobalLimit = 2
SYMMETRY Interchangeable
INVARIANT RequestsSafe
