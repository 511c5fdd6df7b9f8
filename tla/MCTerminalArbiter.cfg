SPECIFICATION FairSpec
CONSTANTS
    Keys = {k1, k2}
    Callers = {c1, c2}
    MaxActive = 1
    MaxTombstones = 1
    MaxOwner = 4
    MaxSlices = 2
    None = None
INVARIANTS
    TypeOK
    LeaderHoldsClaim
    NoWorkAfterCommit
    TombstonesMatchDurable
    AnswersMatchDurable
    RegistryIsBounded
    OrderMatchesTombstones
    InsertedOnce
PROPERTIES
    DurableIsFinal
    KeepsPromise
    FollowersGetOut
CHECK_DEADLOCK TRUE
