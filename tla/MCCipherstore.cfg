SPECIFICATION Spec
CONSTANTS
    Processes = {server1, server2}
    Servers = {server1, server2}
    Nobody = nobody
    small = small
    large = large
    Digests = {small, large}
    NoDigest = noDigest
    Requests = {r1, r2, r3}
    Probe = probe
    Size <- BlobSize
    MaxBytes = 2
    MaxBlobs = 2
    MaxConcurrentUploads = 2
    MaxRequestsPerSocket = 2
    Policies <- RetiresNothingOrSmall
INVARIANTS
    TypeOK
    OneHolder
    OneWriter
    SlotsAreReturned
    AcknowledgedIsFound
PROPERTIES
    ImplementsImmutableStore
SYMMETRY Interchangeable
