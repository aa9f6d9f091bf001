CONSTANTS
    Programs = {p1}
    Kinds = {"program", "trending10"}
    Readers = {r1, r2}
    MaxChanges = 2
    MaxFailures = 1
    DynamoEnabled = TRUE
    None = None
SPECIFICATION Spec
CHECK_DEADLOCK FALSE
INVARIANTS
    TypeOK
    AnnouncedChangeShows
