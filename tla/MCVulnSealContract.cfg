SPECIFICATION Spec
CONSTANTS
    Programs = {p1, p2}
    Program = p1
    Secrets = {vendor, researcher}
    VendorSecret = vendor
    ReportDigests = {d1, d2}
    Salts = {salt}
    CiphertextDigests = {c1}
    Decisions = {accepted}
    PatchDigests = {patch1, patch2}
    EvidenceDigests = {e1}
    Uint8Inputs = {0, 1, 4, 5}
    MaxSequence = 14
INVARIANTS
    TypeOK
    RecordsFitStatus
    PayoutFollowsVerifiedPatch
    ReceiptsMatchReports
    SequenceOrdersCalls
PROPERTIES
    ImplementsLifecycle
SYMMETRY Interchangeable
CHECK_DEADLOCK FALSE
