SPECIFICATION FairSpec
CONSTANTS
    t1 = t1
    t2 = t2
    t3 = t3
    w = w
    x = x
    c = c
    Turns = {t1, t2}
    Mutators = {m1, m2}
    Roots = {w, x, c}
    Worktree <- InWAndX
    GitRoots <- CommonDir
    LeaseRoots <- Leases
    MaxGeneration = 1
    MaxRootGenerations = 3
    MaxRestarts = 1
INVARIANTS TypeOK LeasesExclude NothingLeaks OverlapDirtiesBoth EligibleUnmutated
PROPERTY CaptureEnds
CHECK_DEADLOCK FALSE
