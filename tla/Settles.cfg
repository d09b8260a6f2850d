SPECIFICATION SettlesSpec
CONSTANTS
    r0 = r0
    r1 = r1
    o1 = o1
    o2 = o2
    s1 = s1
    w1 = w1
    Token = {r0, r1}
    Root = r0
    Op = {o1, o2}
    Grace = 1
    MaxTime = 3
    Session = {s1}
    Sweeper = {w1}
    Kinds = {"create", "cookie", "revoke"}
    Lifetimes = {1}
    MaxAge = 2
    PingThreshold = 1
    BatchSize = 1
INVARIANTS RowsNeedSession LateNeverAnswered PredecessorInactive
PROPERTIES ReplayEndsFamily EndedBecomesUnreadable
CHECK_DEADLOCK FALSE
