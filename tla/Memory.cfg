\* One page of two sectors for a file, two of one for a device; three frames; four pages of regions.
CONSTANTS
    Played = {"written", "mapped", "copied", "device", "anonymous", "private", "listed", "synced"}
    c = c
    k = k
    a = a
    b = b
    f1 = f1
    f2 = f2
    f3 = f3
    exe = exe
    lib = lib
    None = None
    Other = Other
    Callers = {c, k}
    NumPages = 1
    PageSize = 2
    Values = {1}
    Stores = {2}
    IsDevice = FALSE
    Does <- WriterDoes
SPECIFICATION Scenes
SYMMETRY Symmetry
INVARIANTS
    FilesAreKept
    DirtyIsFound
    FramesAreSafe
    PrivateStaysPrivate
    SyncMissesNone
PROPERTIES
    ImplementsAddrMap
CHECK_DEADLOCK FALSE
