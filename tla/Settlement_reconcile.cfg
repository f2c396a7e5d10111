SPECIFICATION Spec
CONSTANTS
    Order = {o1, o2}
    Commission = 2
    Amount = {2}
    Week = 2
    WorkerShift = 1
    Grace = 1
    MaxTime = 4
    MaxEntries = 4
    MaxNamed = 0
    Zone = {1, 2}
    MaxZones = 3
    MaxDue = 4
INVARIANTS
    Reconciles
CHECK_DEADLOCK FALSE
