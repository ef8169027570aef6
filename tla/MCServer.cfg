SPECIFICATION FairSpec
CONSTANTS
    r1 = r1
    r2 = r2
    k1 = k1
    ann = ann
    bob = bob
    x = x
    None = None
    Requests = {r1, r2}
    Keys = {k1}
    Subjects = {ann}
    Texts = {x}
    MaxFaults = 1
    MaxStarts = 2
INVARIANTS
    PublishedKeyIsKnown
    OneUserPerSubject
    ServedToTheEnd
PROPERTIES
    RetiredKeyIsRefused
    ShutdownEnds
CHECK_DEADLOCK FALSE
