CONSTANTS
    ProgramIds = {p1}
    EpisodeIds = {e1, e2}
    Requests = {r1}
    MaxServed = 4
    Titles = {t1, t2}
    Numbers = {1, 2}
    MaxNow = 0
    SiblingPage = 2
    Failures = FALSE
    None = None
SPECIFICATION FairSpec
CHECK_DEADLOCK FALSE
INVARIANTS
    EpisodeNumbersUnique
    EventsTellTitle
PROPERTY
    CreatedIsAnnounced
