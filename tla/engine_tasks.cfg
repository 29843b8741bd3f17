\* Two connections, and two users that follow each other on one port, which
\* closes and opens again.
SPECIFICATION FairSpec
CONSTANTS
    Conns = {c1, c2}
    Users = {u1, u2}
    Ports = {p1}
    Passwords = {pw1}
    Limits <- MCLimits
    NoPort = NoPort
    NoRow = NoRow
    Gone = Gone
    NoCred = NoCred
\* With every id created and deleted, and no connection, nothing is left to do.
CHECK_DEADLOCK FALSE
INVARIANTS
    SlotAccounting
PROPERTIES
    CommandsFinish
