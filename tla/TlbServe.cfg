\* Two harts shoot down at once with interrupts on, as the callers in mm/vms.c do.
SPECIFICATION FairSpec
CONSTANTS
    None = None
    Harts = {h1, h2}
    Shooters = {s1, s2}
    Movable = {}
    Masked = {}
    MaxChanges = 2
CHECK_DEADLOCK FALSE
PROPERTIES
    ShootdownReturns
