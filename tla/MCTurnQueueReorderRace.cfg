SPECIFICATION Spec
CONSTANTS
    Prompts = {p1, p2}
    Clients = {c1, c2}
    Dispatchers = {d1}
    Orders <- Permuted
    MaxAttempts = 2
    Direct = Direct
    None = None
INVARIANT EveryTurnExactlyOnce
