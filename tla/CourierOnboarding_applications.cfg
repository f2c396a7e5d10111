SPECIFICATION Spec
CONSTANTS
    DocType = {licence}
    VehicleLicence = licence
    File = {f1, f2}
    Handler = {h1, h2}
    Admin = {a1}
    UserStatus = {"ACTIVE"}
    CityZones = {z1}
    MaxDocs = 2
    MaxKeys = 2
    MaxVersion = 4
    MaxReviews = 2
SYMMETRY Symmetry
INVARIANTS
    TypeOK
    EvidenceIsKept
    SubmittedIsComplete
PROPERTIES
    HistoryTellsEveryMove
CHECK_DEADLOCK FALSE
