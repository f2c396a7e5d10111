SPECIFICATION Spec
CONSTANTS
    User = {u1, u2}
    Founder = u1
    Request = {r1, r2, r3}
    Name = {n1, n2}
    Phone = {p1}
    Point = {here, there}
    MaxServing = 2
    MaxMerchants = 2
SYMMETRY Symmetry
INVARIANTS
    TypeOK
    OwnersRemain
    BookIsConsistent
PROPERTIES
    EditsSeeTheRow
CHECK_DEADLOCK FALSE
