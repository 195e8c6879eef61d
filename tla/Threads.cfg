\* Two threads on two harts; two threads and two signals; three processes and a terminal.
CONSTANTS
    t1 = t1
    t2 = t2
    h1 = h1
    h2 = h2
    a = a
    b = b
    i = i
    p = p
    q = q
    g1 = g1
    g2 = g2
    g3 = g3
    None = None
    Process = Process
    Threads = {t1, t2}
    Harts = {h1, h2}
    Bound <- OneBound
SPECIFICATION Scenes
INVARIANTS
    OneHartPerThread
    HartsAgree
    SignalsAreSeen
    HandlersUnwind
    GroupsAgree
PROPERTIES
    ImplementsThreadLife
