SPECIFICATION FairSpec
CONSTANTS
    Turns = {t1, t2, t3}
    Bindings = {b1, b2}
    Senders = {s1}
    Aborters = {}
    StoreFaults = FALSE
    None = None
INVARIANTS OneOpenTurn CompletedWasDone OpenTurnIsAttended
PROPERTY EveryTurnEnds
