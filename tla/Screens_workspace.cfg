SPECIFICATION Spec
CONSTANTS
    Draft <- Drafts
    Call = {c1, c2}
    MaxQuotes = 2
    MaxOrders = 1
    MaxVersion = 2
    MaxWrites = 3
INVARIANTS
    TypeOK
    OrdersAreAsConfirmed
PROPERTIES
    ListCatchesUp
CHECK_DEADLOCK FALSE
