CONSTANTS
    ProgramIds = {p1}
    EpisodeIds = {e1, e2}
    Requests = {r1, r2}
    MaxServed = 3
    Titles = {t1}
    Numbers = {1, 2}
    MaxNow = 0
    SiblingPage = 2
    Failures = FALSE
    None = None
SPECIFICATION Spec
SYMMETRY Symmetry
CHECK_DEADLOCK FALSE
INVARIANT
    EpisodeNumbersUnique
