SPECIFICATION FairSpec
CONSTANTS
    e1 = e1
    e2 = e2
    u1 = u1
    None = None
    Events = {e1, e2}
    Users = {u1, u2}
    Actor <- MCActor
    Members = {u1, u2}
    audit = audit
    Auditors = {audit}
    Recorded <- MCRecorded
    NotifyMapped = {e1}
    Requests = {q1}
    MaxFaults = 1
    MaxCrashes = 1
INVARIANTS
    AckedIsWritten
    MembersNotified
PROPERTIES
    ReadMarkKept
    EventsSettle
CHECK_DEADLOCK FALSE
