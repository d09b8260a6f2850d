CONSTANTS
    a1 = a1
    Aggregator = {a1}
    MaxTime = 7
    DayLength = 2
    Retention = 2
    Fill = 1
    MaxEvents = 2
SPECIFICATION Spec
INVARIANT CountedIsKept
CHECK_DEADLOCK FALSE
