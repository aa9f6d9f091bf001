CONSTANTS
    Requests = {r1, r2}
    MaxAttempts = 2
    FailureThreshold = 3
    SuccessThreshold = 2
    Timeout = 2
    MonitoringPeriod = 2
    ClientErrors = TRUE
    MaxOutages = 1
SPECIFICATION CalledSpec
INVARIANTS
    TypeOK
    CleanSlate
PROPERTIES
    AdmittedAfterCoolDown
    Recovers
    RequestsEnd
