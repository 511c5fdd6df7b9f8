SPECIFICATION Spec
CONSTANTS
    d1 = d1
    d2 = d2
    t1 = t1
    Delegations = {d1, d2}
    Tasks = {}
    Editors = {d1, d2}
    Hooks = {h}
    Watchdog = dog
    MaxTurns = 1
    MaxRows = 2
    MaxActive = 2
    MaxWaits = 1
    MaxRestarts = 0
    None = None
INVARIANT OneEditor
