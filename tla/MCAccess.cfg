SPECIFICATION AccessSpec
CONSTANTS
    Unit = 20
    Neighbours = 2
INVARIANTS
    ForwardedWithinLimit
    AdmittedByService
    ValidatedBodyIsAccepted
