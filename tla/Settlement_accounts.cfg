SPECIFICATION Spec
CONSTANTS
    Order = {o1, o2}
    Commission = 2
    Amount = {3}
    Week = 2
    WorkerShift = 1
    Grace = 0
    MaxTime = 2
    MaxEntries = 4
    MaxNamed = 2
    Zone = {1, 2}
    MaxZones = 3
    MaxDue = 4
SYMMETRY Symmetry
INVARIANTS
    TypeOK
    ProjectionIsRebuildable
    BilledOnce
    ReportsAgree
PROPERTIES
    OldestFirst
CHECK_DEADLOCK FALSE
