SPECIFICATION Spec
CONSTANTS
    r1 = r1
    r2 = r2
    r3 = r3
    u1 = u1
    u2 = u2
    u3 = u3
    c1 = c1
    l1 = l1
    l2 = l2
    None = None
    Requests = {r1, r2, r3}
    Users = {u1, u2, u3}
    Members = {u1, u2}
    Checkpoints = {c1}
    Leaves = {l1, l2}
    LeafLists <- TwoLeaves
    MaxFaults = 1
    MaxCrashes = 1
SYMMETRY Interchangeable
INVARIANTS
    OneSignalPerUser
    AgreementBehind
    PromotionPursued
PROPERTIES
    KeepsPromise
CHECK_DEADLOCK FALSE
