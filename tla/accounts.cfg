\* The seeded administrator and two accounts made later, two requests at a time.
SPECIFICATION Spec
CONSTANTS
    Users = {u1, u2, u3}
    Emails = {e1, e2}
    Servers = {s1}
    Tokens = {t1}
    Requests = {r1, r2}
    None = None
    u2 = u2
    e2 = e2
    s1 = s1
    Seeded = u1
    SeededEmail = e1
    Asked <- MCAsked
SYMMETRY Symmetry
INVARIANTS
    TypeOK
    Integrity
PROPERTIES
    Authority
