SPECIFICATION Spec
CONSTANTS
    Workers = {w1, w2}
    Emails = {e1, e2}
    Passwords = {p1, p2}
    Devices = {d1, d2}
    Uuids = {i1, i2, i3}
    Printed = Printed
SYMMETRY Symmetry
INVARIANTS
    TypeOK
    
    ReplayBounded
    EmailUniqueUnlessRaced
    
    BoundIsComplete
    
CHECK_DEADLOCK FALSE

    
