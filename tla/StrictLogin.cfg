CONSTANTS
    r0 = r0
    r1 = r1
    r2 = r2
    o1 = o1
    o2 = o2
    Token = {r0, r1, r2}
    Root = r0
    Op = {o1, o2}
    Grace = 0
    MaxTime = 1
    s1 = s1
    s2 = s2
    t1 = t1
    e1 = e1
    TwoStep = {t1}
    OneStep = {e1}
    Mailed = {e1}
    Session = {s1, s2}
SPECIFICATION StrictSpec
SYMMETRY Symmetric
CHECK_DEADLOCK FALSE
INVARIANTS PartsTypeOK SingleSuccessor NoUnprovedOutlives
PROPERTIES ImplementsFamily OwnChangeProved
