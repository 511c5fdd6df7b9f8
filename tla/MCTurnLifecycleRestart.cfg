SPECIFICATION Spec
CONSTANTS
    Turns = {t1, t2}
    Bindings = {b1, b2}
    Senders = {s1}
    Aborters = {a1}
    StoreFaults = FALSE
    None = None
PROPERTY RestartEndsEveryTurn
