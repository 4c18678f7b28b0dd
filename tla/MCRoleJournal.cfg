SPECIFICATION Spec
CONSTANTS
    Tabs = {tab1, tab2}
    CopyIds = {copy1}
    TxIds = {tx1}
    Reports = {report1}
    Nothing = nothing
    Null = null
    copy1 = copy1
    report1 = report1
    oldTx = oldTx
    FirstCopies <- OneResearcher
    Circuits = {"submitReport"}
    Edits = {"draft"}
    MaxEdits = 1
    MaxAttempts = 2
    MaxReports = 2
INVARIANTS
    BroadcastIsRecorded
    BackedUpIsRestorable
PROPERTIES
    SavesOnlyAdd
SYMMETRY Interchangeable
CHECK_DEADLOCK FALSE
