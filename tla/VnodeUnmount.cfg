\* A file is opened and unlinked on a volume that is unmounted.
CONSTANTS
    t = t
    u = u
    None = None
    Threads = {t, u}
    Nodes = {1, 2, 3}
    Inos = {1}
    Names = {"a"}
    MaxUnused = 1
    Does <- Opening
    MayUnmount = TRUE
SPECIFICATION Spec
INVARIANT
    OpenKeepsMounted
CHECK_DEADLOCK FALSE
