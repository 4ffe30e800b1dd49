SPECIFICATION Spec
CONSTANTS
    Workers = {w1, w2}
    Urls = {u1, u2}
    Names = {n1, n2}
    Secrets = {s1}
    Oids = {o1, o2}
SYMMETRY Symmetry
INVARIANTS
    UpdateStaysOnSite
