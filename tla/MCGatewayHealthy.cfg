CONSTANTS
    Requests = {r1}
    MaxAttempts = 3
    FailureThreshold = 5
    SuccessThreshold = 2
    Timeout = 2
    MonitoringPeriod = 2
    ClientErrors = TRUE
    MaxOutages = 1
SPECIFICATION Spec
INVARIANT
    HealthyStaysClosed
