CONSTANTS
    Requests = {r1}
    MaxAttempts = 1
    FailureThreshold = 3
    SuccessThreshold = 2
    Timeout = 2
    MonitoringPeriod = 2
    ClientErrors = FALSE
    MaxOutages = 2
SPECIFICATION Spec
PROPERTY
    FailedProbeReopens
