SPECIFICATION RFairSpec
CONSTANTS
    c1 = c1
    c2 = c2
    c3 = c3
    Nil = Nil
    Callers = {c1, c2, c3}
    Prompts <- MCPrompts
    MaxSize = 1
    TTL = 1
    MaxTime = 3
    MaxFailures = 1
INVARIANTS
    AnswersSound
    OneFlightPerKey
PROPERTIES
    WaitersReleased
CHECK_DEADLOCK FALSE
