CONSTANTS
    o1 = o1
    o2 = o2
    o3 = o3
    Op = {o1, o2, o3}
    Threshold = 2
    MaxBucket = 2
    Gap = FALSE
    Faults = {"cache", "count", "record", "crash"}
    c1 = c1
    c2 = c2
    u1 = u1
    Code = {c1, c2}
    UserCode = {u1}
    Kinds = {"issue", "lookup", "deny"}
    Limit = 2
    Lifetime = 1
    Retention = 1
    Interval = 1
    Draws = 2
    MaxTime = 1
    l1 = l1
    Login = {l1}
    MaxGrant = 3
    MaxGen = 2
    LossyGen = 1
    p1 = p1
    p2 = p2
    Process = {p1, p2}
    MaxToken = 3
    Deaths = 1
    a1 = a1
    a2 = a2
    Aggregator = {a1, a2}
    LastPart = 7
    EventsKept = 5
    DayLength = 2
    Fill = 1
    MaxEvents = 2
SPECIFICATION SideSpec
SYMMETRY Symmetric
CONSTRAINTS FewFaults LockStands
CHECK_DEADLOCK FALSE
INVARIANTS PartsTypeOK SlotsExact WithinThreshold MissesBounded
INVARIANTS TornStaysTorn OneIdentity NoOrphan LockKept FinalIsFull CountedIsKept
