SPECIFICATION Spec
CONSTANTS
    Session = {s1}
    Op = {o1, o2}
    Sweeper = {}
    Kinds = {"create", "ping", "mark"}
    Lifetimes = {2}
    MaxAge = 2
    PingThreshold = 1
    BatchSize = 1
    MaxTime = 2
INVARIANT CachedStampKept
CHECK_DEADLOCK FALSE
