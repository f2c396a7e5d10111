SPECIFICATION EditedSpec
CONSTANTS
    Admin = {a1, a2}
    Merchant = {m1}
    Family = {f1}
    Parcel <- Parcels
    Terms <- Prices
    Commission = 1250
    MaxZones = 2
    MaxRules = 2
    MaxVersion = 2
    MaxQuotes = 1
    Point <- Places
    NoPoint = "none"
    SixDecimals <- CutPlaces
    Fallback = "shop"
    Link = {"short"}
    NoLink = "none"
    Trail <- Pages
    MaxReviews = 2
SYMMETRY Symmetry
INVARIANTS
    EditedTypeOK
    RulesAreOrderly
    PricesAddUp
    PlacesAreReviewed
CHECK_DEADLOCK FALSE
