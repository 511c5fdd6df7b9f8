SPECIFICATION Spec
CONSTANTS
    Turns = {t1, t2}
    Bindings = {b1}
    Senders = {s1}
    Aborters = {a1}
    StoreFaults = TRUE
    None = None
SYMMETRY Symmetry
INVARIANTS NoLeakedGuards
