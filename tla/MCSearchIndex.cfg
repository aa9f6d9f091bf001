CONSTANTS
    ProgramIds = {p1}
    EpisodeIds = {e1}
    Stored = {p1}
    MaxChanges = 2
    MaxFailures = 1
    MaxReindexes = 1
    Page = 2
    BatchSize = 2
    DynamoEnabled = TRUE
    None = None
SPECIFICATION FairSpec
CHECK_DEADLOCK FALSE
INVARIANT
    TypeOK
PROPERTIES
    CommittedNotUndone
    ReindexRepairs
    AnnouncedIsIndexed
