CONSTANTS
    Ids = {m1, m2}
    Contents = {c1}
    Requests = {r1, r2}
    MaxVersion = 2
    MaxFailures = 1
    MaxCopies = 2
    Types = {"EPISODE", "MOVIE"}
    Titles = {1}
    Durations = {0, 172801}
    None = None
SPECIFICATION Spec
SYMMETRY Symmetry
CHECK_DEADLOCK FALSE
INVARIANTS
    TypeOK
    HistoryReachesBack
PROPERTIES
    ChangesAreVersioned
