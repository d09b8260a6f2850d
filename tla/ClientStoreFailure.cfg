CONSTANTS
    l1 = l1
    Login = {l1}
    MaxGrant = 3
    MaxGen = 2
    Faults = {}
SPECIFICATION Spec
CHECK_DEADLOCK FALSE
INVARIANT FailureIsOwn
