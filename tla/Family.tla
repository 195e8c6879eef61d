------------------------------- MODULE Family -------------------------------
(* kernel/proc/process.c and sys_process.c: parents and children.  A process   *)
(* whose last thread is reaped becomes a zombie, tells its parent and leaves   *)
(* its children to init; threads of the parent fork, wait and collect.         *)
(*                                                                             *)
(* One step per critical section, atomic flag or reference taken.  The lists   *)
(* of children are sets, which InItsParentsList shows to be enough; process    *)
(* groups to wait for are left out.  Init never exits (process.h:74).          *)
EXTENDS Integers, FiniteSets

CONSTANTS Procs, InitProc,
          First,        \* a child of init that runs from the start
          Threads, Of,  \* threads that fork and wait, and the process of each
          Wants,        \* bound: [Threads -> the pids each waits for]
          Kids,         \* bound: [Threads -> the processes each forks]
          ForksFail,    \* whether a fork may run out of memory past process_create
          AnyChild, None

TreeAssumption == InitProc \in Procs /\ First \in Procs \ {InitProc}
ThreadsAssumption == Of \in [Threads -> Procs] /\ Wants \in [Threads -> SUBSET (Procs \cup {AnyChild})] /\ ForksFail \in BOOLEAN
KidsAssumption == Kids \in [Threads -> SUBSET Procs]
OutsideAssumption == None \notin Procs /\ AnyChild \notin Procs

VARIABLES life,         \* [Procs -> where the process, or the reaping of its last thread, is]
          proctable,    \* the processes process_locate finds
          ppid,         \* [Procs -> Procs]
          children,     \* [Procs -> SUBSET Procs]
          zombies,      \* PROCESS_ZOMBIE
          collected,    \* PROCESS_COLLECTED
          refcount,     \* [Procs -> Nat]
          located,      \* [Procs -> the parent or init that its reaper has a reference to]
          note,         \* [Procs -> whether its reaper found a zombie for init to adopt]
          pc,           \* [Threads -> where the thread is]
          want,         \* [Threads -> what it waits for]
          target,       \* [Threads -> the child it creates or destroys]
          parent,       \* [Threads -> the parent process_destroy located]
          destroyed,    \* history: the processes whose first reference is dropped
          told          \* history: [Procs -> the zombies a SIGCHLD stands for]

treeVars  == <<ppid, children>>
flagVars  == <<zombies, collected>>
reapVars  == <<life, located, note>>
threadVars == <<pc, want, target, parent>>
vars == <<proctable, treeVars, flagVars, refcount, reapVars, threadVars, destroyed, told>>

Init ==
    /\ life = [p \in Procs |-> IF p \in {InitProc, First} THEN "alive" ELSE "none"]
    /\ proctable = {InitProc, First}
    /\ ppid = [p \in Procs |-> InitProc]
    /\ children = [p \in Procs |-> IF p = InitProc THEN {First} ELSE {}]
    /\ zombies = {} /\ collected = {}
    /\ refcount = [p \in Procs |-> IF p \in {InitProc, First} THEN 2 ELSE 0]
    /\ located = [p \in Procs |-> None]
    /\ note = [p \in Procs |-> FALSE]
    /\ pc = [t \in Threads |-> "idle"]
    /\ want = [t \in Threads |-> None]
    /\ target = [t \in Threads |-> None]
    /\ parent = [t \in Threads |-> None]
    /\ destroyed = {}
    /\ told = [p \in Procs |-> {}]

ThreadsOf(p) == {t \in Threads : Of[t] = p}

Refs(p, n) == refcount' = [refcount EXCEPT ![p] = @ + n]

\* event_trigger of child_exited: whoever is registered looks again.
Wake(p) == pc' = [t \in Threads |-> IF Of[t] = p /\ pc[t] = "asleep" THEN "look" ELSE pc[t]]

-------------------------------------------------------------------------------
(* process_thread_reaped for the last thread.  A thread that waits or forks is *)
(* not reaped before it is back.                                               *)
BecomeZombie(p) ==
    /\ life[p] = "alive" /\ p # InitProc
    /\ \A t \in ThreadsOf(p) : pc[t] = "idle"
    /\ zombies' = zombies \cup {p}
    /\ life' = [life EXCEPT ![p] = "notify"]
    /\ UNCHANGED <<proctable, treeVars, collected, refcount, located, note, threadVars, destroyed, told>>

\* notify_parent: process_locate takes its reference with the table locked.
Locate(p, holds) ==
    /\ life[p] = "notify"
    /\ ppid[p] \in proctable
    /\ located' = [located EXCEPT ![p] = ppid[p]]
    /\ Refs(ppid[p], holds)
    /\ life' = [life EXCEPT ![p] = "trigger"]
    /\ UNCHANGED <<proctable, treeVars, flagVars, note, threadVars, destroyed, told>>

\* Slip: the parent is used without a reference.
LocateBorrowed(p) == Locate(p, 0)

LocateParent(p) == Locate(p, 1)

NoParent(p) ==
    /\ life[p] = "notify"
    /\ ppid[p] \notin proctable
    /\ life' = [life EXCEPT ![p] = "adopt"]
    /\ UNCHANGED <<proctable, treeVars, flagVars, refcount, located, note, threadVars, destroyed, told>>

TriggerParent(p) ==
    /\ life[p] = "trigger"
    /\ life' = [life EXCEPT ![p] = "signal"]
    /\ Wake(located[p])
    /\ UNCHANGED <<proctable, treeVars, flagVars, refcount, located, note, want, target, parent, destroyed, told>>

\* A SIGCHLD merges with a pending one, so it stands for every zombie there is.
Tell(p) == told' = [told EXCEPT ![p] = @ \cup (children[p] \cap zombies)]

SignalParent(p) ==
    /\ life[p] = "signal"
    /\ Tell(located[p])
    /\ Refs(located[p], -1)
    /\ located' = [located EXCEPT ![p] = None]
    /\ life' = [life EXCEPT ![p] = "adopt"]
    /\ UNCHANGED <<proctable, treeVars, flagVars, note, threadVars, destroyed>>

\* reparent_children
LocateInit(p) ==
    /\ life[p] = "adopt"
    /\ located' = [located EXCEPT ![p] = InitProc]
    /\ Refs(InitProc, 1)
    /\ life' = [life EXCEPT ![p] = "move"]
    /\ UNCHANGED <<proctable, treeVars, flagVars, note, threadVars, destroyed, told>>

Move(p, new_parent, found) ==
    /\ life[p] = "move"
    /\ ppid' = [c \in Procs |-> IF c \in children[p] THEN new_parent ELSE ppid[c]]
    /\ children' = [children EXCEPT ![InitProc] = @ \cup children[p], ![p] = {}]
    /\ note' = [note EXCEPT ![p] = found]
    /\ life' = [life EXCEPT ![p] = "told_init"]
    /\ UNCHANGED <<proctable, flagVars, refcount, located, threadVars, destroyed, told>>

\* Slip: zombies that told their dead parent are taken over silently.
MoveSilently(p) == Move(p, InitProc, FALSE)

MoveChildren(p) == Move(p, InitProc, children[p] \cap zombies # {})

TriggerInit(p) ==
    /\ life[p] = "told_init" /\ note[p]
    /\ Wake(InitProc)
    /\ life' = [life EXCEPT ![p] = "signal_init"]
    /\ UNCHANGED <<proctable, treeVars, flagVars, refcount, located, note, want, target, parent, destroyed, told>>

SignalInit(p) ==
    /\ life[p] = "signal_init"
    /\ Tell(InitProc)
    /\ note' = [note EXCEPT ![p] = FALSE]
    /\ life' = [life EXCEPT ![p] = "told_init"]
    /\ UNCHANGED <<proctable, treeVars, flagVars, refcount, located, threadVars, destroyed>>

\* The reaper drops its reference to init and then that of the thread.
Reaped(p) ==
    /\ life[p] = "told_init" /\ ~note[p]
    /\ refcount' = [refcount EXCEPT ![InitProc] = @ - 1, ![p] = @ - 1]
    /\ located' = [located EXCEPT ![p] = None]
    /\ life' = [life EXCEPT ![p] = "reaped"]
    /\ UNCHANGED <<proctable, treeVars, flagVars, note, threadVars, destroyed, told>>

ReapLast(p) ==
    \/ LocateParent(p) \/ NoParent(p) \/ TriggerParent(p) \/ SignalParent(p)
    \/ LocateInit(p) \/ MoveChildren(p) \/ TriggerInit(p) \/ SignalInit(p) \/ Reaped(p)

-------------------------------------------------------------------------------
(* sys_fork: process_create links the child, then puts it into the table. *)
Fork(t, c) ==
    /\ c \in Kids[t] /\ pc[t] = "idle" /\ life[Of[t]] = "alive"
    /\ life[c] = "none"
    /\ life' = [life EXCEPT ![c] = "created"]
    /\ ppid' = [ppid EXCEPT ![c] = Of[t]]
    /\ children' = [children EXCEPT ![Of[t]] = @ \cup {c}]
    /\ refcount' = [refcount EXCEPT ![c] = 1]
    /\ target' = [target EXCEPT ![t] = c]
    /\ pc' = [pc EXCEPT ![t] = "hash"]
    /\ UNCHANGED <<proctable, flagVars, located, note, want, parent, destroyed, told>>

Hash(t) ==
    /\ pc[t] = "hash"
    /\ proctable' = proctable \cup {target[t]}
    /\ pc' = [pc EXCEPT ![t] = "copy"]
    /\ UNCHANGED <<treeVars, flagVars, refcount, reapVars, want, target, parent, destroyed, told>>

\* The thread of the child has a reference to it.
ForkDone(t) ==
    /\ pc[t] = "copy"
    /\ life' = [life EXCEPT ![target[t]] = "alive"]
    /\ Refs(target[t], 1)
    /\ target' = [target EXCEPT ![t] = None]
    /\ pc' = [pc EXCEPT ![t] = "idle"]
    /\ UNCHANGED <<proctable, treeVars, flagVars, located, note, want, parent, destroyed, told>>

ForkFails(t) ==
    /\ ForksFail /\ pc[t] = "copy"
    /\ life' = [life EXCEPT ![target[t]] = "failed"]
    /\ pc' = [pc EXCEPT ![t] = "unhash"]
    /\ UNCHANGED <<proctable, treeVars, flagVars, refcount, located, note, want, target, parent, destroyed, told>>

-------------------------------------------------------------------------------
(* wait_child: one look at the children under the lock, from which the thread  *)
(* claims a zombie, registers with child_exited before it lets go, or gives up.*)
Matches(t, w) == {c \in children[Of[t]] : w \in {AnyChild, c}}
Waitable(t, w) == Matches(t, w) \ collected

Looks(t, w) == \/ pc[t] = "look" /\ w = want[t]
               \/ pc[t] = "idle" /\ life[Of[t]] = "alive"

ClaimZombie(t, w) ==
    /\ Looks(t, w)
    /\ \E c \in Waitable(t, w) \cap zombies :
          /\ collected' = collected \cup {c}
          /\ Refs(c, 1)
          /\ target' = [target EXCEPT ![t] = c]
    /\ want' = [want EXCEPT ![t] = None]
    /\ pc' = [pc EXCEPT ![t] = "unhash"]
    /\ UNCHANGED <<proctable, treeVars, zombies, reapVars, parent, destroyed, told>>

Sleep(t, w) ==
    /\ Looks(t, w)
    /\ Waitable(t, w) # {} /\ Waitable(t, w) \cap zombies = {}
    /\ want' = [want EXCEPT ![t] = w]
    /\ pc' = [pc EXCEPT ![t] = "asleep"]
    /\ UNCHANGED <<proctable, treeVars, flagVars, refcount, reapVars, target, parent, destroyed, told>>

\* -ECHILD, for a thread that had waited
NoChild(t) ==
    /\ pc[t] = "look" /\ Waitable(t, want[t]) = {}
    /\ want' = [want EXCEPT ![t] = None]
    /\ pc' = [pc EXCEPT ![t] = "idle"]
    /\ UNCHANGED <<proctable, treeVars, flagVars, refcount, reapVars, target, parent, destroyed, told>>

\* A signal, or the exit of its process
Interrupted(t) ==
    /\ pc[t] = "asleep"
    /\ want' = [want EXCEPT ![t] = None]
    /\ pc' = [pc EXCEPT ![t] = "idle"]
    /\ UNCHANGED <<proctable, treeVars, flagVars, refcount, reapVars, target, parent, destroyed, told>>

-------------------------------------------------------------------------------
(* process_destroy, of a zombie that was claimed or of the child of a fork     *)
(* that failed                                                                 *)
Unhash(t) ==
    /\ pc[t] = "unhash"
    /\ proctable' = proctable \ {target[t]}
    /\ pc' = [pc EXCEPT ![t] = "locate"]
    /\ UNCHANGED <<treeVars, flagVars, refcount, reapVars, want, target, parent, destroyed, told>>

LocateOf(t) ==
    /\ pc[t] = "locate"
    /\ LET q == ppid[target[t]] IN
          IF q \in proctable THEN /\ Refs(q, 1)
                                  /\ parent' = [parent EXCEPT ![t] = q]
                                  /\ pc' = [pc EXCEPT ![t] = "unlink"]
                             ELSE /\ pc' = [pc EXCEPT ![t] = "drop"]
                                  /\ UNCHANGED <<refcount, parent>>
    /\ UNCHANGED <<proctable, treeVars, flagVars, reapVars, want, target, destroyed, told>>

Unlink(t) ==
    /\ pc[t] = "unlink"
    /\ children' = [children EXCEPT ![parent[t]] = @ \ {target[t]}]
    /\ Refs(parent[t], -1)
    /\ parent' = [parent EXCEPT ![t] = None]
    /\ pc' = [pc EXCEPT ![t] = "drop"]
    /\ UNCHANGED <<proctable, ppid, flagVars, reapVars, want, target, destroyed, told>>

\* process_destroy drops the first reference, and collect_child its own.
Drop(t) ==
    /\ pc[t] = "drop"
    /\ Refs(target[t], -1 - (IF target[t] \in collected THEN 1 ELSE 0))
    /\ destroyed' = destroyed \cup {target[t]}
    /\ target' = [target EXCEPT ![t] = None]
    /\ pc' = [pc EXCEPT ![t] = "idle"]
    /\ UNCHANGED <<proctable, treeVars, flagVars, reapVars, want, parent, told>>

Destroy(t) == Unhash(t) \/ LocateOf(t) \/ Unlink(t) \/ Drop(t)

WaitChild(t, w) == ClaimZombie(t, w) \/ Sleep(t, w)

Next ==
    \/ \E p \in Procs : BecomeZombie(p) \/ ReapLast(p)
    \/ \E t \in Threads : \/ \E c \in Procs : Fork(t, c)
                          \/ Hash(t) \/ ForkDone(t) \/ ForkFails(t)
                          \/ \E w \in Wants[t] : WaitChild(t, w)
                          \/ NoChild(t) \/ Interrupted(t) \/ Destroy(t)

Spec == Init /\ [][Next]_vars

\* The kernel finishes what it began, and init waits for any child again and again.
Fairness ==
    /\ \A p \in Procs : WF_vars(ReapLast(p))
    /\ \A t \in Threads : WF_vars(Hash(t) \/ ForkDone(t) \/ NoChild(t) \/ Destroy(t))
    /\ \A t \in ThreadsOf(InitProc) : WF_vars(ClaimZombie(t, AnyChild))

-------------------------------------------------------------------------------
Reaping == {"notify", "trigger", "signal", "adopt", "move", "told_init", "signal_init"}

TypeOK ==
    /\ life \in [Procs -> {"none", "created", "alive", "failed", "reaped"} \cup Reaping]
    /\ proctable \subseteq Procs
    /\ ppid \in [Procs -> Procs] /\ children \in [Procs -> SUBSET Procs]
    /\ collected \subseteq zombies /\ zombies \subseteq Procs
    /\ refcount \in [Procs -> Nat]
    /\ located \in [Procs -> Procs \cup {None}] /\ note \in [Procs -> BOOLEAN]
    /\ pc \in [Threads -> {"idle", "hash", "copy", "look", "asleep", "unhash", "locate", "unlink", "drop"}]
    /\ want \in [Threads -> Procs \cup {AnyChild, None}]
    /\ target \in [Threads -> Procs \cup {None}] /\ parent \in [Threads -> Procs \cup {None}]
    /\ destroyed \subseteq Procs /\ told \in [Procs -> SUBSET Procs]

\* reparent_children and process_destroy change the siblings' links under the lock of one
\* parent: a child is in the list of the process its ppid names and in no other, and
\* process_destroy, which looks the parent up by pid, unlinks it from that very list.
InItsParentsList ==
    /\ \A p, c \in Procs : c \in children[p] => ppid[c] = p
    /\ \A t \in Threads : pc[t] = "locate" => /\ ppid[target[t]] \in proctable
                                              /\ target[t] \in children[ppid[target[t]]]
    /\ \A t \in Threads : pc[t] = "unlink" => target[t] \in children[parent[t]]

Freed(p) == life[p] # "none" /\ refcount[p] = 0

\* process_incref and process_decref: a process that was freed is in no list, and neither
\* a reaper, a fork nor a waiter is about to use it.
NoUseAfterFree ==
    \A p \in Procs : Freed(p) =>
        /\ life[p] \in {"reaped", "failed"}
        /\ p \notin proctable
        /\ \A q \in Procs : p \notin children[q] /\ located[q] # p
        /\ \A t \in Threads : target[t] # p /\ parent[t] # p

\* process_destroy and collect_child: a process nobody has to do with any more is freed.
NoLeak ==
    \A p \in destroyed :
        (/\ life[p] \in {"reaped", "failed"}
         /\ \A q \in Procs : located[q] # p
         /\ \A t \in Threads : target[t] # p /\ parent[t] # p) => refcount[p] = 0

\* A reaper is about to trigger the child_exited of p.
TriggerIsDue(p) ==
    \E x \in Procs : \/ life[x] = "notify" /\ ppid[x] = p
                     \/ life[x] = "trigger" /\ located[x] = p
                     \/ life[x] = "told_init" /\ note[x] /\ p = InitProc

SignalIsDue(p) ==
    \/ TriggerIsDue(p)
    \/ \E x \in Procs : \/ life[x] = "signal" /\ located[x] = p
                        \/ life[x] = "signal_init" /\ p = InitProc

\* "One side or the other always gets to init" (process.c:117): however the death of a
\* child and that of its parent interleave, the parent it ends up with gets a SIGCHLD that
\* stands for it.
ZombieIsTold ==
    \A p \in Procs : life[p] = "alive" =>
        \A c \in children[p] \cap zombies : c \in told[p] \/ SignalIsDue(p)

\* wait_child: a waiter does not sleep over a zombie it may collect, unless the trigger
\* that wakes it is due, be it that several wait or that the child was adopted.
SleeperIsWoken ==
    \A t \in Threads : (pc[t] = "asleep" /\ Waitable(t, want[t]) \cap zombies # {}) =>
                           TriggerIsDue(Of[t])

\* A waiter does not wait for a child that "won't trigger child_exited again"
\* (sys_process.c:295): it sleeps only for a child it may still collect, and gets -ECHILD
\* when there is none (test.process.c:84-85).
SleeperHasChild ==
    \A t \in Threads : pc[t] = "asleep" => Waitable(t, want[t]) # {} \/ TriggerIsDue(Of[t])

\* With init waiting for its children, every zombie init is left with is collected, and
\* its memory freed.
OrphansAreCollected ==
    \A c \in Procs : (c \in zombies /\ ppid[c] = InitProc) ~> Freed(c)
===============================================================================
