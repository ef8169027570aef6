SPECIFICATION Spec
CONSTANTS
    u1 = u1
    u2 = u2
    l1 = l1
    l2 = l2
    l3 = l3
    l4 = l4
    b1 = b1
    b2 = b2
    b3 = b3
    r1 = r1
    r2 = r2
    r3 = r3
    None = None
    Origin = Origin
    Users = {u1, u2}
    Members = {u1}
    Leaves <- MCLeaves
    Branches = {b1, b2, b3}
    Planted <- MCPlanted
    Connected <- MCConnected
    LeafLists <- MCLeafLists
    Depths = {1, 2}
    Requests = {r1, r2, r3}
    Deliverables = {d1}
    Contents = {c1, c2}
    Seeds = {s1}
    Constraints = {k1, k2}
    Positions = {Origin, p1}
    SignalTypes = {upvote, flag}
    InApp = InApp
    InBoth = InBoth
    Daily = Daily
    Weekly = Weekly
    ChannelSets = {InApp, InBoth}
    Digests = {Daily, Weekly}
    Wishes <- MCWishes
    MaxFaults = 1
SYMMETRY Symmetry
INVARIANT WalksAreSound
PROPERTY KeepsPromise
CHECK_DEADLOCK FALSE
