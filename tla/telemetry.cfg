\* One relay, two instances of the hub and two dashboards, in four scenarios.
SPECIFICATION FairSpec
CONSTANTS
    Conns = {c1}
    Accounts = {o, x}
    Owner = o
    Instances = {i1, i2}
    AgentHome = i1
    Sockets = {k1, k2}
    Home <- MCHome
    Handlers = {h1, h2}
    None = None
    Scenarios <- MCScenarios
    i1 = i1
    i2 = i2
    k1 = k1
    k2 = k2
    h1 = h1
INVARIANTS
    TypeOK
    RelayExact
    DashboardsSee
PROPERTIES
    ReportedInTheEnd
    RelaysEnd
