CONSTANTS
    t1 = t1
    o1 = o1
    o2 = o2
    Token = {t1}
    Op = {o1, o2}
    Lifetime = 2
    Fallback = 2
    Leeway = 1
    MaxTime = 4
SPECIFICATION Spec
CHECK_DEADLOCK FALSE
INVARIANT ExpiredRefused
