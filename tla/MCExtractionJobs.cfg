SPECIFICATION FairSpec
CONSTANTS
    j1 = j1
    c1 = c1
    Job = {j1}
    Call = {c1}
    Uploads <- SmallUploads
    Retention = 1
    Lost = Lost
    MaxDay = 2
    MaxFaults = 2
    MaxRestarts = 1
INVARIANT TypeOK
INVARIANT DiagnosticsSurvive
INVARIANT JobRowTruthful
INVARIANT FailureHasCause
PROPERTY JobSettles
CHECK_DEADLOCK FALSE
