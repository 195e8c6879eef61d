------------------------------- MODULE MCSched -------------------------------
(* Three threads that share one hart, under fairness.  Bound: two of them are   *)
(* started, and from then on only use the hart, so that the queue has turns to   *)
(* take while the first one blocks, is woken, holds spinlocks and ends.          *)
EXTENDS Sched, TLC

CONSTANTS t1, t2, t3, h1

AllFree == [t \in Threads |-> None]

\* It holds no spinlock, wakes nobody, and neither blocks nor ends.
OnlyRuns(t) ==
    /\ preempt_count'[t] = 0 /\ who'[t] = None
    /\ state'[t] \in {"runnable", "running"} \/ state'[t] = state[t]

Contended == Init /\ [][Next /\ OnlyRuns(t2) /\ OnlyRuns(t3)]_vars /\ Fairness
=============================================================================
