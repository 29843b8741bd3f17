\* Every loss, with two requests for one user at a time or a stale SYNC_CONFIG.
SPECIFICATION FairSpec
CONSTANTS
    Users = {u1}
    Ports = {p1, p2}
    Vals = {a}
    Requests = {r1, r2}
    Queries = {q1, q2}
    None = None
    Asked = Asked
    NoRow = NoRow
    Gone = Gone
    Scenarios <- MCOverlap
    MaxQueue = 1
INVARIANTS
    RestartRepairs
PROPERTIES
    EventuallyServed
