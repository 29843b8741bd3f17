\* Two browsers of one account, one of them with two calls under way.
SPECIFICATION Spec
CONSTANTS
    b1 = b1
    b2 = b2
    c1 = c1
    c2 = c2
    c3 = c3
    Browsers = {b1, b2}
    AllCalls <- MCCalls
    None = None
    Faults <- MCFaults
    MaxPairs = 3
SYMMETRY MCSymmetry
INVARIANTS
    TypeOK
    OneLivePerLogin
    SessionSurvives
