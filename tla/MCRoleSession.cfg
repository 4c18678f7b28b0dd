SPECIFICATION Spec
CONSTANTS
    MaxRetired = 1
    Nothing = nothing
    vendor = vendor
    alice = alice
    bob = bob
    p1 = p1
    p2 = p2
    secretV = secretV
    secretA = secretA
    secretB = secretB
    program = program
    digestA = digestA
    digestB = digestB
    salt = salt
    cipherA = cipherA
    cipherB = cipherB
    cipherX = cipherX
    Sessions = {vendor, alice, bob}
    identity <- MCIdentity
    providerOf <- MCProviderOf
    Prepared <- MCPrepared
    Packages <- MCPackages
    Stores = {st1, st2}
    Programs = {program}
    Program = program
    Secrets = {secretV, secretA, secretB}
    VendorSecret = secretV
    ReportDigests = {digestA, digestB}
    Salts = {salt}
    CiphertextDigests = {cipherA, cipherB}
    Decisions = {decided}
    PatchDigests = {patch}
    EvidenceDigests = {e1}
    Uint8Inputs = {1}
    MaxSequence = 6
INVARIANTS
    RecordsAreWhole
    LedgerReportsAreStored
    UsableHasNoCallLeft
SYMMETRY MCSymmetry
CHECK_DEADLOCK FALSE
