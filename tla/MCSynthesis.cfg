SPECIFICATION FairSpec
CONSTANTS
    w1 = w1
    w2 = w2
    o1 = o1
    o2 = o2
    a = a
    b = b
    z = z
    None = None
    Runs = {w1}
    Overrides = {o1, o2}
    Leaves = {a, b}
    Unknown = {z}
    SourceLists <- Lists
    MaxChunks = 1
    MaxFaults = 1
    MaxCrashes = 1
INVARIANTS
    ResultsSound
    OutcomeTold
PROPERTIES
    TerminalIsFinal
    WorkflowSettles
CHECK_DEADLOCK FALSE
