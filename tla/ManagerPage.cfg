SPECIFICATION Spec
CONSTANTS
    Sites = {s1, s2}
    Names = {n1, n2}
    Secrets = {p1, p2}
    Blank = Blank
    Oids = {o1, o2}
    MaxActs = 2
    MaxEdits = 2
    MaxDepth = 2
SYMMETRY Symmetry
INVARIANTS
    TypeOK
    FieldsAgree
PROPERTIES
    PasswordKept
CHECK_DEADLOCK FALSE
