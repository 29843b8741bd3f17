\* Two connections of one user and the command task.
SPECIFICATION FairSpec
CONSTANTS
    Conns = {c1, c2}
    Users = {u1}
    Limits <- MCLimits
    Word = 4
INVARIANTS
    TypeOK
    SlotAccounting
    ReadsStayValid
PROPERTIES
    ImplementsPool
    CallsReturn
