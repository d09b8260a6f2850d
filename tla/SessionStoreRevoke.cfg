SPECIFICATION Spec
CONSTANTS
    Session = {s1}
    Op = {o1, o2, o3}
    w1 = w1
    Sweeper = {w1}
    Kinds = {"create", "cookie", "ping", "refresh", "mark", "revoke", "bulk"}
    Lifetimes = {1}
    MaxAge = 1
    PingThreshold = 1
    BatchSize = 1
    MaxTime = 3
INVARIANTS TypeOK Lifecycle EndedIsUnreadable ToldOnlyWhenGone
PROPERTIES GoneStaysGone LateRequestNeverWrites StampKept
CONSTRAINT RaceAtOneInstant
SYMMETRY Requesters
CHECK_DEADLOCK FALSE
