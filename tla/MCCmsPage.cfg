CONSTANTS
    ProgramIds = {p1}
    EpisodeIds = {e1, e2, e3}
    Requests = {r1}
    MaxServed = 4
    Titles = {t1}
    Numbers = {1, 2}
    MaxNow = 0
    SiblingPage = 1
    Failures = FALSE
    None = None
SPECIFICATION Spec
SYMMETRY Symmetry
CHECK_DEADLOCK FALSE
INVARIANT
    EpisodeNumbersUnique
