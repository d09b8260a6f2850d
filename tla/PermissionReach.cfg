SPECIFICATION Spec
CONSTANTS
    Realm = {"a", "b"}
    Policies = {"none"}
    MaxChildren = 1
    MaxGrants = 1
INVARIANT GateRefusesNothingGranted
CHECK_DEADLOCK FALSE
