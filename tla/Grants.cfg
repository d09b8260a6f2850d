CONSTANTS
    c1 = c1
    u1 = u1
    o1 = o1
    o2 = o2
    Code = {c1}
    UserCode = {u1}
    Op = {o1, o2}
    Kinds = {"issue", "approve", "deny", "poll", "flush"}
    Lifetime = 2
    Retention = 1
    Interval = 1
    Draws = 1
    Limit = 1
    MaxTime = 3
    AuthCode = {a1}
    Session = {s1, s2}
    Ticket = {t1}
    RecoveryCode = {k1}
    MaxSet = 2
SPECIFICATION GrantsSpec
SYMMETRY Symmetric
CHECK_DEADLOCK FALSE
INVARIANTS PartsTypeOK RedeemedOnce DecisionBinds ApprovalKept
INVARIANTS NothingForRefused ExtendedOnlyProved CodesSpentOnce
PROPERTY ImplementsVouchers
