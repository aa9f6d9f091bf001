CONSTANTS
    ProgramIds = {p1}
    EpisodeIds = {e1}
    Requests = {r1, r2}
    MaxServed = 4
    Titles = {t1}
    Numbers = {0, 1, 2}
    MaxNow = 1
    SiblingPage = 2
    Failures = TRUE
    None = None
SPECIFICATION Spec
SYMMETRY Symmetry
CHECK_DEADLOCK FALSE
INVARIANTS
    TypeOK
    PublishedHasDate
    EpisodesHaveProgram
PROPERTIES
    PublishedAtKept
    ArchivedIsFinal
