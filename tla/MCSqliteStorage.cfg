SPECIFICATION Spec
CONSTANTS
    first = first
    second = second
    Adapters <- MCAdapters
    Digests = {"small", "large"}
    Size <- MCSize
    MaxBytes = 2
    MaxBlobs = 2
    Operations = {"ready"}
    MaxPending = 1
    MaxId <- MCMaxId
INVARIANTS
    RefusalLosesNothing
PROPERTIES
    ImplementsImmutableStore
    RequestsSettle
