CONSTANTS
    JobIds = {j1}
    YouTubeJobs = {}
    RSSJobs = {j1}
    Slots = {s1}
    BatchSize = 1
    Limits = {2}
    MaxNow = 0
    Stalls = FALSE
    Faults = {"restart"}
    MaxFaults = 1
    NoRow = NoRow
SPECIFICATION FairSpec
CHECK_DEADLOCK FALSE
PROPERTY
    JobsSettle
