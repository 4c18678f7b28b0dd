SPECIFICATION Spec
CONSTANTS
    r1 = r1
    r2 = r2
    Reports <- MCReports
    None = none
    Copies <- MCCopies
    MaxAttempts = 2
    MaxCopies = 2
    MaxHistory = 9
    MaxKept = 0
    MaxSubmissions = 3
INVARIANTS
    SnapshotsAreValid
    BroadcastIsJournaled
PROPERTIES
    OperationsEnd
