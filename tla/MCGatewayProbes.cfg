CONSTANTS
    Requests = {r1, r2}
    MaxAttempts = 2
    FailureThreshold = 2
    SuccessThreshold = 2
    Timeout = 2
    MonitoringPeriod = 2
    ClientErrors = FALSE
    MaxOutages = 1
SPECIFICATION Spec
INVARIANT
    OneProbe
