SPECIFICATION Spec
CONSTANTS
    r1 = r1
    r2 = r2
    r3 = r3
    s1 = s1
    hi = hi
    yes = yes
    None = None
    Requests = {r1, r2, r3}
    Sessions = {s1}
    Texts = {hi, yes}
    MaxChunks = 1
    Words <- MCWords
    ReplyWords = 700
    PartWords <- MCPartWords
    MaxFaults = 1
    MaxCrashes = 1
SYMMETRY Interchangeable
INVARIANTS
    NoEchoedMessage
    ReplyFollowsPrompt
    ModelSeesPrompt
PROPERTIES
    StreamsAddUp
    KeepsPromise
CHECK_DEADLOCK FALSE
