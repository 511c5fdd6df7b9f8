SPECIFICATION Spec
CONSTANTS
    Prompts = {p1, p2, p3}
    Clients = {c1}
    Dispatchers = {d1, d2}
    Orders <- Permuted
    MaxAttempts = 4
    Direct = Direct
    None = None
SYMMETRY Symmetry
INVARIANTS TypeOK EveryTurnExactlyOnce DeliveredAtMostOnce RemovalSticks
