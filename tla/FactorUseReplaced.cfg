CONSTANTS
    k1 = k1
    o1 = o1
    o2 = o2
    Code = {k1}
    Op = {o1, o2}
    Kinds = {"verify", "enroll", "delete"}
    Faults = {}
    MaxSet = 2
SPECIFICATION Spec
CHECK_DEADLOCK FALSE
INVARIANT RetiredStaysRetired
