\* Two agents installed with one token, and everything that can fail.
SPECIFICATION FairSpec
CONSTANTS
    Agents = {a1, a2}
    ByArgument = {a1, a2}
    Handlers = {h1, h2}
    None = None
    Torn = Torn
    Faults <- MCFaults
    MaxServers = 2
\* A file that is torn stays so.
CHECK_DEADLOCK FALSE
INVARIANTS
    TypeOK
    TokenIsOwn
PROPERTIES
    IdentityKept
    EventuallyUp
