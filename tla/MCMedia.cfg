CONSTANTS
    Ids = {m1, m2}
    Contents = {c1}
    Names = {n1}
    Requests = {r1, r2, r3}
    MaxNow = 1
    MaxFailures = 1
    None = None
SPECIFICATION Spec
SYMMETRY Symmetry
CHECK_DEADLOCK FALSE
INVARIANTS
    TypeOK
    NoOrphanObjects
    RowsHaveObjects
