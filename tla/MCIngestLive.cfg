CONSTANTS
    JobIds = {j1, j2}
    YouTubeJobs = {}
    RSSJobs = {j1}
    Slots = {s1, s2}
    BatchSize = 1
    Limits = {2}
    MaxNow = 0
    Stalls = FALSE
    Faults = {}
    MaxFaults = 0
    NoRow = NoRow
SPECIFICATION FairSpec
CHECK_DEADLOCK FALSE
PROPERTY
    JobsSettle
