CONSTANTS
    ProgramIds = {p1}
    EpisodeIds = {}
    Requests = {r1}
    MaxServed = 3
    Titles = {t1}
    Numbers = {}
    MaxNow = 0
    SiblingPage = 2
    Failures = FALSE
    None = None
SPECIFICATION Spec
SYMMETRY Symmetry
CHECK_DEADLOCK FALSE
PROPERTY
    StatusChangesAnnounced
