CONSTANTS
    JobIds = {j1}
    YouTubeJobs = {}
    RSSJobs = {}
    Slots = {s1, s2}
    BatchSize = 1
    Limits = {2, 3}
    MaxNow = 0
    Stalls = TRUE
    Faults = {"restart", "db"}
    MaxFaults = 1
    NoRow = NoRow
SPECIFICATION FairSpec
CHECK_DEADLOCK FALSE
PROPERTY
    PendingSettles
