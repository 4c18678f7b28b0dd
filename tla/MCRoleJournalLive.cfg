SPECIFICATION LiveSpec
CONSTANTS
    Tabs = {tab1}
    CopyIds = {copy1, copy2}
    TxIds = {tx1, tx2}
    Reports = {report1}
    Nothing = nothing
    Null = null
    copy1 = copy1
    report1 = report1
    oldTx = tx2
    FirstCopies <- Anyone
    Circuits = {"submitRetest", "beginTriage", "constructor"}
    Edits = {"draft", "attachmentDraft", "programDraft", "reportNotes", "reports"}
    MaxEdits = 1
    MaxAttempts = 2
    MaxReports = 1
INVARIANTS
    NoAttemptWhileUnknown
    VaultsCanBeSaved
PROPERTIES
    LateCheckpointSendsNothing
    SubmissionsEnd
CHECK_DEADLOCK FALSE
