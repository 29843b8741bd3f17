\* An agent reconnects before the hub has noticed that its old connection is gone.
SPECIFICATION FairSpec
CONSTANTS
    Servers = {s1}
    Sockets = {k1, k2}
    Instances = {i1}
    None = None
    Scenarios <- MCOverlap
    MaxLate = 2
PROPERTIES
    ReconnectedIsReachable
