----------------------------- MODULE ThreadGroup -----------------------------
(* kernel/proc/process.c: the threads of one process and the four ways they    *)
(* leave it: an exit of the process, a kill from outside it, the exit of one   *)
(* thread, and an exec by another, which waits until it is the only one.       *)
(*                                                                             *)
(* One step per critical section of process->lock, per atomic operation on the *)
(* flags, and per store of the exit status, which is identified with whoever   *)
(* passed it to begin_exit.  The file table and the signals are left out.      *)
EXTENDS Integers, FiniteSets

CONSTANTS Threads,      \* the threads the process may ever have
          Main,         \* the first of them, created with the process
          Killers,      \* threads of other processes that send it SIGKILL
          None

ASSUME MainAssumption == Main \in Threads /\ IsFiniteSet(Threads)
ASSUME ActorsAssumption == Threads \cap Killers = {} /\ None \notin Threads \cup Killers

VARIABLES exiting,              \* PROCESS_EXITING
          zombie,               \* PROCESS_ZOMBIE
          exit_status,          \* exit_code and exit_signal: whose they are
          threads,              \* process->threads
          num_threads, num_live_threads,
          exec_thread,
          exit_work,            \* the threads with THREAD_WORK_EXIT
          tid,                  \* [Threads -> Main for the pid, or an id of its own]
          pc,                   \* [Threads \cup Killers -> where it is]
          after,                \* [Threads \cup Killers -> where begin_exit returns to]
          to_wake               \* [Threads -> the exec_thread its reaper is to enqueue]

vars == <<exiting, zombie, exit_status, threads, num_threads, num_live_threads,
          exec_thread, exit_work, tid, pc, after, to_wake>>
listVars == <<threads, num_threads, num_live_threads, tid>>

Actors == Threads \cup Killers

Init ==
    /\ exiting = FALSE /\ zombie = FALSE
    /\ exit_status = None
    /\ threads = {Main} /\ num_threads = 1 /\ num_live_threads = 1
    /\ exec_thread = None
    /\ exit_work = {}
    /\ tid = [t \in Threads |-> t]
    /\ pc = [a \in Actors |-> IF a \in Threads \ {Main} THEN "none" ELSE "user"]
    /\ after = [a \in Actors |-> "user"]
    /\ to_wake = [t \in Threads |-> None]

Goto(a, label) == pc' = [pc EXCEPT ![a] = label]

-------------------------------------------------------------------------------
(* begin_exit, called at "exit": only the first caller gets past the flag. *)
FirstToExit(a) ==
    /\ pc[a] = "exit" /\ ~exiting
    /\ exiting' = TRUE
    /\ Goto(a, "status")
    /\ UNCHANGED <<zombie, exit_status, listVars, exec_thread, exit_work, after, to_wake>>

AlreadyExiting(a) ==
    /\ pc[a] = "exit" /\ exiting
    /\ pc' = [pc EXCEPT ![a] = after[a]]
    /\ after' = [after EXCEPT ![a] = "user"]
    /\ UNCHANGED <<exiting, zombie, exit_status, listVars, exec_thread, exit_work, to_wake>>

StoreStatus(a) ==
    /\ pc[a] = "status"
    /\ exit_status' = a
    /\ Goto(a, "flag")
    /\ UNCHANGED <<exiting, zombie, listVars, exec_thread, exit_work, after, to_wake>>

FlagThreads(a) ==
    /\ pc[a] = "flag"
    /\ exit_work' = exit_work \cup threads
    /\ pc' = [pc EXCEPT ![a] = after[a]]
    /\ after' = [after EXCEPT ![a] = "user"]
    /\ UNCHANGED <<exiting, zombie, exit_status, listVars, exec_thread, to_wake>>

BeginExit(a) == FirstToExit(a) \/ AlreadyExiting(a) \/ StoreStatus(a) \/ FlagThreads(a)

CallExit(a, returns_to) ==
    /\ pc[a] = "user"
    /\ Goto(a, "exit")
    /\ after' = [after EXCEPT ![a] = returns_to]
    /\ UNCHANGED <<exiting, zombie, exit_status, listVars, exec_thread, exit_work, to_wake>>

SysExit(t) == CallExit(t, "leaving")

\* A fault or a fatal signal of its own: the thread leaves on its way back.
Fault(t) == CallExit(t, "return")

\* signal_send with SIGKILL
Kill(k) == CallExit(k, "done")

-------------------------------------------------------------------------------
(* process_thread_exit *)
ThreadExit(t) ==
    /\ pc[t] = "user" /\ t \notin exit_work
    /\ num_live_threads' = num_live_threads - 1
    /\ exit_work' = exit_work \cup {t}
    /\ IF num_live_threads = 1 THEN /\ Goto(t, "exit")
                                    /\ after' = [after EXCEPT ![t] = "leaving"]
                               ELSE Goto(t, "leaving") /\ UNCHANGED after
    /\ UNCHANGED <<exiting, zombie, exit_status, threads, num_threads, tid, exec_thread, to_wake>>

\* Going already: not counted.
ThreadExitFlagged(t) ==
    /\ pc[t] = "user" /\ t \in exit_work
    /\ Goto(t, "leaving")
    /\ UNCHANGED <<exiting, zombie, exit_status, listVars, exec_thread, exit_work, after, to_wake>>

\* begin_exit and process_dethread kick the threads they flag: one that runs in userspace
\* enters the kernel.
Kicked(t) ==
    /\ pc[t] = "user" /\ t \in exit_work
    /\ Goto(t, "return")
    /\ UNCHANGED <<exiting, zombie, exit_status, listVars, exec_thread, exit_work, after, to_wake>>

exit_to_user(t) ==
    /\ pc[t] = "return"
    /\ Goto(t, IF t \in exit_work THEN "dead" ELSE "user")
    /\ UNCHANGED <<exiting, zombie, exit_status, listVars, exec_thread, exit_work, after, to_wake>>

Terminate(t) ==
    /\ pc[t] = "leaving"
    /\ Goto(t, "dead")
    /\ UNCHANGED <<exiting, zombie, exit_status, listVars, exec_thread, exit_work, after, to_wake>>

-------------------------------------------------------------------------------
(* thread_create_sibling; the new thread runs once it is enqueued. *)
Attach(t, new, flagged) ==
    /\ pc[t] = "user" /\ pc[new] = "none"
    /\ pc' = [pc EXCEPT ![t] = "create", ![new] = "new"]
    /\ threads' = threads \cup {new}
    /\ num_threads' = num_threads + 1
    /\ num_live_threads' = num_live_threads + 1
    /\ exit_work' = IF flagged THEN exit_work \cup {new} ELSE exit_work
    /\ UNCHANGED <<exiting, zombie, exit_status, tid, exec_thread, after, to_wake>>

\* Slip: a thread that is added past an exec's walk stays.
AttachIfExiting(t, new) == Attach(t, new, exiting)

\* Slip: a thread that is added past begin_exit's walk stays.
AttachIfExec(t, new) == Attach(t, new, exec_thread # None)

attach_thread_user(t, new) == Attach(t, new, exiting \/ exec_thread # None)

SpawnNew(t, new) ==
    /\ pc[t] = "create" /\ pc[new] = "new"
    /\ pc' = [pc EXCEPT ![t] = "return", ![new] = "user"]
    /\ UNCHANGED <<exiting, zombie, exit_status, listVars, exec_thread, exit_work, after, to_wake>>

-------------------------------------------------------------------------------
(* process_dethread *)
DethreadRefused(t) ==
    /\ pc[t] = "user"
    /\ exiting \/ exec_thread # None
    /\ Goto(t, "return")
    /\ UNCHANGED <<exiting, zombie, exit_status, listVars, exec_thread, exit_work, after, to_wake>>

\* The other threads are told to go, and this one blocks until it is woken.
DethreadBegin(t) ==
    /\ pc[t] = "user" /\ ~exiting /\ exec_thread = None
    /\ num_threads > 1
    /\ exec_thread' = t
    /\ exit_work' = exit_work \cup (threads \ {t})
    /\ Goto(t, "blocked")
    /\ UNCHANGED <<exiting, zombie, exit_status, tid, threads, num_threads, num_live_threads, after, to_wake>>

AloneWith(t, live) ==
    /\ exec_thread' = None
    /\ IF exiting THEN Goto(t, "return") /\ UNCHANGED <<num_live_threads, tid>>
                  ELSE /\ Goto(t, "image")
                       /\ num_live_threads' = live
                       /\ tid' = [tid EXCEPT ![t] = Main]
    /\ UNCHANGED <<exiting, zombie, exit_status, threads, num_threads, exit_work, after, to_wake>>

Alone(t) == AloneWith(t, 1)

DethreadAlone(t) ==
    /\ pc[t] = "user" /\ ~exiting /\ exec_thread = None
    /\ num_threads = 1
    /\ Alone(t)

DethreadWoken(t) ==
    /\ pc[t] = "woken"
    /\ IF num_threads > 1
          THEN /\ Goto(t, "blocked")
               /\ UNCHANGED <<exiting, zombie, exit_status, listVars, exec_thread, exit_work, after, to_wake>>
          ELSE Alone(t)

\* The rest of exec_image: the thread puts the new address space in place.
Exec(t) ==
    /\ pc[t] = "image"
    /\ Goto(t, "return")
    /\ UNCHANGED <<exiting, zombie, exit_status, listVars, exec_thread, exit_work, after, to_wake>>

-------------------------------------------------------------------------------
(* process_thread_reaped *)
UnlinkThread(t) ==
    /\ pc[t] = "dead"
    /\ threads' = threads \ {t}
    /\ num_threads' = num_threads - 1
    /\ to_wake' = [to_wake EXCEPT ![t] = IF num_threads = 2 THEN exec_thread ELSE None]
    /\ Goto(t, IF num_threads = 1 THEN "last" ELSE "unlinked")
    /\ UNCHANGED <<exiting, zombie, exit_status, num_live_threads, tid, exec_thread, exit_work, after>>

\* sched_enqueue wakes a blocked thread and no other.
Reaped(t) ==
    /\ pc[t] = "unlinked"
    /\ pc' = [a \in Actors |-> CASE a = t -> "gone"
                                 [] a = to_wake[t] /\ pc[a] = "blocked" -> "woken"
                                 [] OTHER -> pc[a]]
    /\ to_wake' = [to_wake EXCEPT ![t] = None]
    /\ UNCHANGED <<exiting, zombie, exit_status, listVars, exec_thread, exit_work, after>>

LastReaped(t) ==
    /\ pc[t] = "last"
    /\ zombie' = TRUE
    /\ Goto(t, "gone")
    /\ to_wake' = [to_wake EXCEPT ![t] = None]
    /\ UNCHANGED <<exiting, exit_status, listVars, exec_thread, exit_work, after>>

-------------------------------------------------------------------------------
Dethread(t) == DethreadWoken(t) \/ Exec(t)

Reap(t) == UnlinkThread(t) \/ Reaped(t) \/ LastReaped(t)

\* What a thread does of its own accord.
Call(t) ==
    \/ SysExit(t) \/ Fault(t) \/ ThreadExit(t) \/ ThreadExitFlagged(t)
    \/ DethreadRefused(t) \/ DethreadBegin(t) \/ DethreadAlone(t)
    \/ \E new \in Threads : attach_thread_user(t, new)

\* What the kernel does for it.
Step(t) ==
    \/ BeginExit(t) \/ Kicked(t) \/ exit_to_user(t) \/ Terminate(t) \/ Dethread(t) \/ Reap(t)
    \/ \E new \in Threads : SpawnNew(t, new)

Next ==
    \/ \E t \in Threads : Call(t) \/ Step(t)
    \/ \E k \in Killers : Kill(k) \/ BeginExit(k)

Spec == Init /\ [][Next]_vars

Fairness == /\ \A t \in Threads : WF_vars(Step(t))
            /\ \A k \in Killers : WF_vars(BeginExit(k))

-------------------------------------------------------------------------------
Places == {"none", "new", "user", "exit", "status", "flag", "leaving", "return", "create", "blocked",
           "woken", "image", "dead", "unlinked", "last", "gone", "done"}

TypeOK ==
    /\ exiting \in BOOLEAN /\ zombie \in BOOLEAN
    /\ exit_status \in Actors \cup {None}
    /\ threads \subseteq Threads /\ num_threads = Cardinality(threads)
    /\ num_live_threads \in 0..Cardinality(Threads)
    /\ exec_thread \in Threads \cup {None}
    /\ exit_work \subseteq Threads
    /\ tid \in [Threads -> Threads]
    /\ pc \in [Actors -> Places]
    /\ after \in [Actors -> {"user", "return", "leaving", "done"}]
    /\ to_wake \in [Threads -> Threads \cup {None}]

\* The last-thread rule of process_thread_exit: outside of an exit and of an exec, the
\* threads it counts as live are the ones that are not leaving.
LiveAreCounted ==
    (~exiting /\ exec_thread = None) => num_live_threads = Cardinality(threads \ exit_work)

\* However its threads left, the process whose last thread is reaped is exiting, and has
\* the status its parent will read, unless a killer outside it has still to store it.
EndsByExit == zombie => exiting /\ (exit_status # None \/ \E k \in Killers : pc[k] = "status")

\* exec_image replaces the address space without a lock: the thread that gets to it is the
\* only one of the process, and every other is unlinked, none running or to run.
ExecIsAlone ==
    \A t \in Threads : pc[t] = "image" =>
        /\ threads = {t}
        /\ \A o \in Threads \ {t} : pc[o] \in {"none", "unlinked", "gone"}

\* "An exit meanwhile takes the other threads too, so the wakeup from
\* process_thread_reaped comes either way" (process.c:438): a thread blocked in
\* process_dethread has threads to wait for, all of them leaving, or its wakeup is due.
ExecIsWoken ==
    \A t \in Threads : pc[t] = "blocked" =>
        /\ exec_thread = t
        /\ \/ threads \ {t} # {} /\ threads \ {t} \subseteq exit_work
           \/ \E o \in Threads : pc[o] = "unlinked" /\ to_wake[o] = t

\* process_thread_reaped enqueues exec_thread after it let go of the lock: the thread is
\* still there then, blocked for that wakeup.
WakesTheBlocked ==
    \A o \in Threads : (pc[o] = "unlinked" /\ to_wake[o] # None) => pc[to_wake[o]] = "blocked"

\* attach_thread_user and process_dethread: no two threads of the process have one id.
UniqueTids == \A t, o \in threads : tid[t] = tid[o] => t = o

\* process_thread_exit, process_dethread and process_thread_reaped keep both counts of
\* threads right in every order of exits, so the last one to go is known to be the last;
\* an exec waits while there is somebody to wait for, is woken by the last, and goes on alone.
ThreadsAgree ==
    TypeOK /\ LiveAreCounted /\ EndsByExit /\ UniqueTids /\ ExecIsAlone /\ ExecIsWoken /\ WakesTheBlocked

\* begin_exit: a process that exits or is killed becomes a zombie, an exec on its way or
\* threads that are being created notwithstanding.
ExitCompletes == exiting ~> zombie

\* process_dethread returns, whoever exits or is created meanwhile.
DethreadReturns == (exec_thread # None) ~> (exec_thread = None)
===============================================================================
