\* Two users that collide on two ports, one request at a time.
SPECIFICATION Spec
CONSTANTS
    Users = {u1, u2}
    Ports = {p1, p2}
    Vals = {a, b}
    Requests = {r1}
    Queries = {q1, q2}
    None = None
    Asked = Asked
    NoRow = NoRow
    Gone = Gone
    Scenarios <- MCSequential
    MaxQueue = 1
SYMMETRY MCSymmetry
\* Without losses, once every id has been created and deleted nothing is left.
CHECK_DEADLOCK FALSE
INVARIANTS
    TypeOK
    NothingMissing
    NothingLeftOver
