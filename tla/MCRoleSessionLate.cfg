SPECIFICATION Spec
CONSTANTS
    MaxRetired = 0
    Nothing = nothing
    vendor = vendor
    alice = alice
    aliceAgain = aliceAgain
    p1 = p1
    p2 = p2
    p3 = p3
    secretV = secretV
    secretA = secretA
    program = program
    digestA = digestA
    salt = salt
    cipherA = cipherA
    Sessions = {vendor, alice, aliceAgain}
    identity <- MCIdentity
    providerOf <- MCProviderOf
    Prepared <- MCPrepared
    Packages <- MCPackages
    Stores = {st1}
    Programs = {program}
    Program = program
    Secrets = {secretV, secretA}
    VendorSecret = secretV
    ReportDigests = {digestA}
    Salts = {salt}
    CiphertextDigests = {cipherA}
    Decisions = {decided}
    PatchDigests = {patch1, patch2}
    EvidenceDigests = {e1}
    Uint8Inputs = {1}
    MaxSequence = 8
PROPERTIES
    StageHoldsWhenApplied
CHECK_DEADLOCK FALSE
