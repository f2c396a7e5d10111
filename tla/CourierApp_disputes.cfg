SPECIFICATION Spec
CONSTANTS
    Order = {o1}
    Start = {"SEARCHING_COURIER", "AT_DROPOFF"}
    Call = {c1}
    MaxVersion = 3
INVARIANTS
    DisputesCanBeAnswered
CHECK_DEADLOCK FALSE
