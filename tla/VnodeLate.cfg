\* Two threads create and unlink one name.
CONSTANTS
    t = t
    u = u
    None = None
    Threads = {t, u}
    Nodes = {1, 2, 3}
    Inos = {1}
    Names = {"a"}
    MaxUnused = 1
    Does <- Creating
    MayUnmount = FALSE
SPECIFICATION Spec
INVARIANT
    NewFileHasNewNode
CHECK_DEADLOCK FALSE
