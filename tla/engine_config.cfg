\* Two users that pass two ports between them, one connection.
SPECIFICATION Spec
CONSTANTS
    Conns = {c1}
    Users = {u1, u2}
    Ports = {p1, p2}
    Passwords = {pw1, pw2}
    Limits <- MCLimits
    NoPort = NoPort
    NoRow = NoRow
    Gone = Gone
    NoCred = NoCred
SYMMETRY MCSymmetry
\* With every id created and deleted, and no connection, nothing is left to do.
CHECK_DEADLOCK FALSE
INVARIANTS
    TypeOK
    ConfigMirrored
    NoOrphanListener
PROPERTIES
    RevokedIsRefused
