\* A trigger from an interrupt on the hart of a thread that unregisters.
CONSTANTS
    e1 = e1
    NoOne = NoOne
    Threads = {t1}
    Events = {e1}
    Callers = {c1}
    Waits <- OneEvent
    Modes = {"timeout"}
    MaxPending = 1
    CondEvent = e1
    Signalled = {}
    Interrupted = {t1}
SPECIFICATION Spec
INVARIANTS
    NoWaitOnOwnHart
