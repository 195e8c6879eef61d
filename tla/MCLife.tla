-------------------------------- MODULE MCLife --------------------------------
(* The life of processes: the threads of one process (ThreadGroup), and the      *)
(* parents and children of several (Family).  A behaviour is of one scene.       *)
EXTENDS ThreadGroup, TLC

CONSTANTS m, t2, t3, k1,
          i, p, q1, any, ti, p1

VARIABLES scene,
          life, proctable, ppid, children, zombies, collected, refcount, located, note,
          at, want, target, parent, destroyed, told

familyVars == <<life, proctable, ppid, children, zombies, collected, refcount, located, note,
                at, want, target, parent, destroyed, told>>

\* One thread each, and init, which waits for ever.
Orphaning == INSTANCE Family WITH
    Procs <- {i, p, q1}, InitProc <- i, First <- p, Threads <- {ti, p1},
    Of <- ti :> i @@ p1 :> p, Wants <- ti :> {any} @@ p1 :> {any}, Kids <- ti :> {} @@ p1 :> {q1},
    ForksFail <- FALSE, AnyChild <- any, pc <- at

ASSUME Orphaning!TreeAssumption /\ Orphaning!ThreadsAssumption /\ Orphaning!KidsAssumption /\ Orphaning!OutsideAssumption

Start == scene \in {"threads", "orphans"} /\ Init /\ Orphaning!Init

Act ==
    /\ UNCHANGED scene
    /\ \/ scene = "threads" /\ Next           /\ UNCHANGED familyVars
       \/ scene = "orphans" /\ Orphaning!Next /\ UNCHANGED vars

\* Nobody calls anything in the part that is not played.
FairScenes == Start /\ [][Act]_<<scene, vars, familyVars>> /\ Fairness /\ Orphaning!Fairness

(***************************************************************************)
(* The properties of the parts that are not extended                       *)
(***************************************************************************)

\* begin_exit, process_dethread and notify_parent: a process that exits or is killed becomes
\* a zombie, an exec returns, and init, if it waits, collects every zombie it is left with.
EveryoneGoes == ExitCompletes /\ DethreadReturns /\ Orphaning!OrphansAreCollected
===============================================================================
