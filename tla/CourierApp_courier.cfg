SPECIFICATION AppSpec
CONSTANTS
    Draft <- Drafts
    Call = {}
    MaxQuotes = 0
    MaxOrders = 0
    MaxWrites = 0
    Order = {o1}
    Start = {"SEARCHING_COURIER", "NO_COURIER_AVAILABLE",
        "NO_COURIER_AVAILABLE_FINAL", "COURIER_ASSIGNED",
        "COURIER_ARRIVING_PICKUP", "AT_PICKUP", "PICKED_UP", "IN_TRANSIT",
        "AT_DROPOFF", "DELIVERED", "DELIVERY_DISPUTED", "DELIVERY_FAILED",
        "RETURNING_TO_STORE", "RETURN_AWAITING_MERCHANT_CONFIRMATION",
        "RETURNED", "COMPLETED", "CANCELLED"}
    AppCall = {c1, c2}
    MaxVersion = 3
INVARIANTS
    AppTypeOK
    NoOrderIsStranded
PROPERTIES
    TabsCatchUp
CHECK_DEADLOCK FALSE
