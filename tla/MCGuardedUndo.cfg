SPECIFICATION FairSpec
CONSTANTS
    pathA = pathA
    pathB = pathB
    Sets = 2
    Manifest <- TwoTurns
    MaxOps = 3
    MaxEdits = 1
    MaxFaults = 1
    MaxCrashes = 2
    None = None
INVARIANTS TypeOK NoFileIsLost AllOrNothing NoOrphanSibling UndoneInOrder NothingInFlight
PROPERTY RecoveryEnds
CHECK_DEADLOCK FALSE
