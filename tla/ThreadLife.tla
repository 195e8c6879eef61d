------------------------------ MODULE ThreadLife ------------------------------
(* What the scheduler promises each thread: it is woken when blocked, taken   *)
(* by one hart when runnable, stays with that hart until the hart lets go,    *)
(* and after its death is reaped once, having been let go of by nobody else.  *)
CONSTANTS Threads, Harts, None

VARIABLES life,      \* [Threads -> thread state]
          place      \* [Threads -> the hart that has it, or None]

vars == <<life, place>>

Init == /\ life = [t \in Threads |-> "blocked"]
        /\ place = [t \in Threads |-> None]

Becomes(t, s) == life'[t] = s /\ place'[t] = place[t]

Woken(t) == life[t] = "blocked" /\ Becomes(t, "runnable")
Taken(t) == life[t] = "runnable" /\ place[t] = None /\ life'[t] = "running" /\ place'[t] \in Harts
Kept(t)  == life[t] = "runnable" /\ place[t] # None /\ Becomes(t, "running")
Left(t)  == life[t] \in {"blocked", "runnable"} /\ place[t] # None /\ life'[t] = life[t] /\ place'[t] = None
Reaped(t) == life[t] = "dead" /\ Becomes(t, "free")
\* Preempted, blocking or dying, on the hart that runs it.
Stops(t) == life[t] = "running" /\ place[t] # None /\ life'[t] \in {"runnable", "blocked", "dead"} /\ place'[t] = place[t]

Same(t) == Becomes(t, life[t])

\* A hart that switches moves two threads at once, each along its own life.
Next ==
    /\ life' \in [Threads -> {"blocked", "runnable", "running", "dead", "free"}]
    /\ place' \in [Threads -> Harts \cup {None}]
    /\ \A t \in Threads : Woken(t) \/ Taken(t) \/ Kept(t) \/ Left(t) \/ Reaped(t) \/ Stops(t) \/ Same(t)

Spec == Init /\ [][Next]_vars
=============================================================================
