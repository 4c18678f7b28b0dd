SPECIFICATION Spec
CONSTANTS
    None = None
    txD = txD
    txX = txX
    txY = txY
    txA = txA
    txT = txT
    txE = txE
    program = program
    policy = policy
    otherPolicy = otherPolicy
    keys = keys
    reportR = reportR
    reportQ = reportQ
    c1 = c1
    c2 = c2
    yes = yes
    no = no
    raw <- MCraw
    Forks <- MCForks
    Release <- MCRelease
    Subjects <- MCSubjects
    MaxActions = 5
    MaxRuns = 2
INVARIANTS
    FinalizedStaysTrue
    ReconciledIsTrue
    ComparedBlocksAreTrue
    ShownIsForSelected
