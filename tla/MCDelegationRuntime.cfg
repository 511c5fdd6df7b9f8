SPECIFICATION FairSpec
CONSTANTS
    d1 = d1
    d2 = d2
    t1 = t1
    Delegations = {d1}
    Tasks = {t1}
    Editors = {d1, t1}
    Hooks = {h}
    Watchdog = dog
    MaxTurns = 2
    MaxRows = 1
    MaxActive = 1
    MaxWaits = 1
    MaxRestarts = 1
    None = None
INVARIANTS TypeOK DeliveredOnce
PROPERTIES CancelledIsSilent SettlesEventually
