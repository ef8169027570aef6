SPECIFICATION PSpec
CONSTANTS
    r1 = r1
    r2 = r2
    c1 = c1
    c2 = c2
    u1 = u1
    u2 = u2
    w1 = w1
    w2 = w2
    x = x
    y = y
    Unset = None
    Server = Server
    Requests = {r1, r2}
    Changes = {c1, c2}
    Users = {u1, u2}
    Workspaces = {w1}
    Configs = {x}
    MaxFaults = 1
    MaxCrashes = 1
SYMMETRY Interchangeable
INVARIANTS
    ProviderIsEntitled
    SettledCacheIsFresh
CHECK_DEADLOCK FALSE
