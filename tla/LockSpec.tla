------------------------------ MODULE LockSpec -------------------------------
(* What a sleeping lock promises: a thread that asks for it gets it while    *)
(* nobody holds it, keeps it until it lets go itself, and nobody else can    *)
(* take it away or hand it over.                                             *)
CONSTANTS Threads, NoThread

VARIABLES holder,   \* the thread that holds the lock, or NoThread
          wanting   \* the threads that have asked and not yet got it

vars == <<holder, wanting>>

Init == holder = NoThread /\ wanting = {}

Ask(t) ==
    /\ t \notin wanting /\ holder # t
    /\ wanting' = wanting \cup {t}
    /\ UNCHANGED holder

\* A thread that asked, or one that tries without waiting.
Take(t) ==
    /\ holder = NoThread
    /\ holder' = t
    /\ wanting' = wanting \ {t}

LetGo(t) ==
    /\ holder = t
    /\ holder' = NoThread
    /\ UNCHANGED wanting

Next == \E t \in Threads : Ask(t) \/ Take(t) \/ LetGo(t)

Spec == Init /\ [][Next]_vars
==============================================================================
