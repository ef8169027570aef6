SPECIFICATION WSpec
CONSTANTS
    r1 = r1
    r2 = r2
    e1 = e1
    e2 = e2
    ann = ann
    bob = bob
    core = core
    x = x
    y = y
    None = None
    Requests = {r1, r2}
    Edits = {e1, e2}
    Users = {ann, bob}
    Founder = ann
    Teams = {core}
    Texts = {x, y}
    MaxFaults = 1
    MaxTaken = 3
SYMMETRY Interchangeable
INVARIANTS
    NoPhaseSkipped
    MembershipSound
PROPERTIES
    KeepsPromise
    RemovalIsNotUndone
    KeeperMadeByKeeper
CHECK_DEADLOCK FALSE
