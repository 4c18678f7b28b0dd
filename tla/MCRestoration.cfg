SPECIFICATION Spec
CONSTANTS
    Processes = {restorer, server}
    Nobody = nobody
    Restorer = restorer
    Server = server
    Digests = {d1, d2, d3}
    Manifest = {d1, d2}
    Retired = {d3}
INVARIANTS
    ServedStoreIsWhole
    UnmarkedMeansWhole
