\* Two programs or clients of each device, four drivers on two harts, three devices in the tree, two readers, two threads on a volume, four processes.
CONSTANT
    None = None
SPECIFICATION Scenes
INVARIANTS
    RemovedIsLeft
    DevicesAreCounted
    RequestsAreTrue
    InterruptsFindTheirLine
    TreeSettles
    VnodesAreCounted
    NamesAreTrue
    UnmountLeavesNone
    ReadersAreServed
    ReferencesAgree
    DeathIsTold
CHECK_DEADLOCK FALSE
