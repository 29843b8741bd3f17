\* Two SOCKS5 users, an account and two ranges; two calls at a time.
SPECIFICATION TabSpec
CONSTANTS
    Socks = {a, b}
    Accounts = {m}
    Ports = {p1, p2}
    Limits = {x1, x2}
    Ranges = {"1h", "24h"}
    DefaultRange = "24h"
    NoRow = NoRow
    Gone = Gone
    Nil = Nil
    Scenarios <- MCScenarios
    MaxCalls = 2
SYMMETRY Symmetry
INVARIANTS
    TabTypeOK
    AtRestCurrent
    FormExact
PROPERTIES
    NoLostUpdate
