SPECIFICATION RequestsSpec
CONSTANTS
    Courier = {c1, c2}
    NoCourier = NoCourier
    Key = {k1}
    Handler = {h1, h2}
    MaxVersion = 4
    QuoteKey = {q1, q2}
    NoKey = NoKey
    Ttl = 1
    MaxTime = 1
    MaxQuotes = 2
SYMMETRY Symmetry
INVARIANTS
    RequestsTypeOK
    FirstCourierWins
PROPERTIES
    RequestsAreAnsweredTruly
    SpentAsReviewed
CHECK_DEADLOCK FALSE
