CONSTANTS
    t1 = t1
    o1 = o1
    o2 = o2
    o3 = o3
    Token = {t1}
    Op = {o1, o2, o3}
    Lifetime = 2
    Fallback = 1
    Leeway = 1
    MaxTime = 4
    Realm = {"a", "b"}
    Wide = 3
    WidePolicies = {"none", "attributes"}
    Held = 1
    HeldPolicies = {"none", "attributes", "names", "binding"}
SPECIFICATION RequestSpec
SYMMETRY Symmetric
CHECK_DEADLOCK FALSE
INVARIANTS TypeOK StopBinds RevokeBinds MarkFollowsStatus ListedIsGranted
CONSTRAINT Orderly
