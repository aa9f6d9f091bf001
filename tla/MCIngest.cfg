CONSTANTS
    JobIds = {j1, j2}
    YouTubeJobs = {j1}
    RSSJobs = {j2}
    Slots = {s1, s2}
    BatchSize = 1
    Limits = {2}
    MaxNow = 1
    Stalls = FALSE
    Faults = {"restart", "db"}
    MaxFaults = 1
    NoRow = NoRow
SPECIFICATION Spec
CHECK_DEADLOCK FALSE
SYMMETRY Symmetry
INVARIANTS
    TypeOK
    StatusMatchesRetries
    OneAttemptAtATime
    AnnouncedMatchesRow
PROPERTY
    ImplementsLifecycle
