SPECIFICATION MaintenanceLiveSpec
CONSTANTS
    Processes = {server1, backuptool, retiretool}
    Servers = {server1}
    BackupTool = backuptool
    RetireTool = retiretool
    Nobody = nobody
    small = small
    large = large
    Digests = {small, large}
    Retired = {small, large}
    NoDigest = noDigest
    Requests = {r1, r2}
    Probe = probe
    Size <- BlobSize
    MaxBytes = 3
    MaxBlobs = 2
    MaxConcurrentUploads = 1
    MaxRequestsPerSocket = 1
    Policies <- ServerPolicies
INVARIANTS
    BackupIsComplete
    AuditAccounts
PROPERTIES
    RetirementIsReviewed
    RequestsAreAnswered
    StopReleasesLease
