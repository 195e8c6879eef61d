\* Three threads on one hart, two of which only run, under fairness.
CONSTANTS
    t1 = t1
    t2 = t2
    t3 = t3
    h1 = h1
    None = None
    Threads = {t1, t2, t3}
    Harts = {h1}
    Bound <- AllFree
SPECIFICATION Contended
PROPERTIES
    TurnsComeRound
