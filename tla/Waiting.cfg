\* Two threads in Event, three in Futex, two harts run deferred triggers, three keep TLBs or log to two consoles.
CONSTANTS
    t1 = t1
    t2 = t2
    t3 = t3
    e1 = e1
    e2 = e2
    c1 = c1
    c2 = c2
    h1 = h1
    h2 = h2
    h3 = h3
    d1 = d1
    d2 = d2
    s1 = s1
    s2 = s2
    a1 = a1
    a2 = a2
    NoOne = NoOne
    Threads = {t1, t2}
    Events = {e1, e2}
    Callers = {c1, c2}
    Waits <- TwoEvents
    Modes = {"blocking", "timeout", "interruptible", "unlock", "unlock_timeout"}
    MaxPending = 2
    CondEvent = e1
    Signalled = {t1, t2}
    Interrupted = {}
SYMMETRY Symmetry
SPECIFICATION Scenes
INVARIANTS
    ListsAreTrue
    ResultIsTrue
    NoSleepOnTrue
    NoneLost
    PurgedEverywhere
    RingIsSound
    ConsolesShowAll
PROPERTIES
    RingIsRecordLog
    ReleasedIsLeftAlone
