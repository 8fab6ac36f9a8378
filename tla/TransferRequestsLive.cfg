SPECIFICATION Spec
CONSTANTS
    Transfers = {t1}
    Requests = {q1}
    Conns = {c1, c2}
    Users = {u1}
    Sids = {s1}
    Directions = {"download", "server_to_server"}
    PerUserLimit = 1
    GlobalLimit = 2
PROPERTY TransfersEnd
