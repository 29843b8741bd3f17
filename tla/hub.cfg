\* Connections that end only, every fault but overlapping connections, and
\* every fault.
SPECIFICATION FairSpec
CONSTANTS
    Servers = {s1}
    Sockets = {k1, k2}
    Instances = {i1}
    None = None
    Scenarios <- MCScenarios
    MaxLate = 2
INVARIANTS
    TypeOK
    ConnectedIsReachable
    StatusTruthful
PROPERTIES
    HalfOpenEnds
    ConnectedIsOnline
