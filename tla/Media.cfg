SPECIFICATION Spec
CONSTANTS
    o1 = o1
    o2 = o2
    e1 = e1
    e2 = e2
    Users = {o1, o2, a1}
    Owner <- MCOwner
    Paths = {p1, p2, p3}
    Sizes <- MCSizes
    MAX_MEDIA_BYTES = 2
    Workers = {w1, w2}
    Nil = Nil
CHECK_DEADLOCK FALSE
SYMMETRY MCSymmetry
INVARIANTS
    TypeOK
    NoDeadLinks
    StoredWhole
    OrphansAreFailures
