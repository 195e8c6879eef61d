\* Three threads contend for the mutex; one or two in the other scenes.
CONSTANTS
    t1 = t1
    t2 = t2
    e1 = e1
    c1 = c1
    h1 = h1
    h2 = h2
    d1 = d1
    d2 = d2
    s1 = s1
    s2 = s2
    a1 = a1
    Threads = {m1, m2, m3}
    NoThread = NoThread
    MaxPending = 2
SPECIFICATION Scenes
CHECK_DEADLOCK FALSE
INVARIANTS
    Sound
    NoLostWakeup
PROPERTIES
    ImplementsLock
    EveryWaitReturns
    EveryHartIsServed
