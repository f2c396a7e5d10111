SPECIFICATION FairSpec
CONSTANTS
    Order = {o1}
    Courier = {c1, c2}
    NoCourier = NoCourier
    Worker = {w1, w2}
    AcceptanceWindow = 1
    Settings <- MCSettings
    MaxTime = 2
    MaxVersion = 5
INVARIANTS
    TypeOK
    RowsAgree
PROPERTIES
    DecidedOnWhatWasSeen
    DeadlinesDecide
    EventsExplainStatus
    WorkerKeepsDeadlines
    ImplementsContract
CHECK_DEADLOCK FALSE
