CONSTANTS
    JobIds = {j1, j2}
    YouTubeJobs = {}
    RSSJobs = {j1}
    Slots = {s1}
    BatchSize = 1
    Limits = {2}
    MaxNow = 0
    Stalls = FALSE
    Faults = {}
    MaxFaults = 0
    NoRow = NoRow
SPECIFICATION Spec
CHECK_DEADLOCK FALSE
INVARIANT
    WithinConcurrencyLimit
