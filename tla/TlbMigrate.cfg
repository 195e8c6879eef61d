SPECIFICATION Spec
CONSTANTS
    None = None
    Harts = {h1, h2}
    Shooters = {s1, s2}
    Movable = {s1, s2}
    Masked = {}
    MaxChanges = 2
CHECK_DEADLOCK FALSE
INVARIANTS
    PurgedEverywhere
