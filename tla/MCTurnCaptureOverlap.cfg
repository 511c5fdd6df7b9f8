SPECIFICATION Spec
CONSTANTS
    t1 = t1
    t2 = t2
    t3 = t3
    w = w
    x = x
    c = c
    Turns = {t1, t2}
    Mutators = {}
    Roots = {w, x, c}
    Worktree <- BothInW
    GitRoots <- CommonDir
    LeaseRoots <- Leases
    MaxGeneration = 1
    MaxRootGenerations = 3
    MaxRestarts = 0
INVARIANT EligibleIsAlone
CHECK_DEADLOCK FALSE
