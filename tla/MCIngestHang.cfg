CONSTANTS
    JobIds = {j1}
    YouTubeJobs = {j1}
    RSSJobs = {}
    Slots = {s1}
    BatchSize = 1
    Limits = {2}
    MaxNow = 0
    Stalls = FALSE
    Faults = {}
    MaxFaults = 0
    NoRow = NoRow
SPECIFICATION FairSpec
CHECK_DEADLOCK FALSE
PROPERTY
    JobsSettle
