\* Three threads of a process and a killer; three processes, under fairness.
CONSTANTS
    m = m
    t2 = t2
    t3 = t3
    k1 = k1
    i = i
    p = p
    q1 = q1
    any = any
    ti = ti
    p1 = p1
    None = None
    Main = m
    Killers = {k1}
    Threads = {m, t2, t3}
SPECIFICATION FairScenes
INVARIANTS
    ThreadsAgree
PROPERTIES
    EveryoneGoes
CHECK_DEADLOCK FALSE
