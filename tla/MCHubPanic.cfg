SPECIFICATION Spec
CONSTANTS
    c1 = c1
    c2 = c2
    s1 = s1
    w1 = w1
    w2 = w2
    None = None
    Clients = {c1, c2}
    Senders = {s1}
    Rooms = {w1}
    SendBufferSize = 1
    MaxMessages = 1
    Races = FALSE
INVARIANTS
    NoSendOnClosed
CHECK_DEADLOCK FALSE
