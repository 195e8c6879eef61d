-------------------------------- MODULE Sched --------------------------------
(* kernel/proc/sched.c: threads, the harts (hardware threads) that run them, *)
(* one run queue per hart, and the interrupt handler that switches.          *)
(*                                                                           *)
(* A context is a thread, or a hart inside its scheduler interrupt handler,  *)
(* which runs on top of the thread that is current there.  What is done      *)
(* under a run queue's lock is one step: nothing waits with it held.  A      *)
(* thread's sched_lock is held across steps.                                 *)
EXTENDS Integers, Sequences, FiniteSets

CONSTANTS Threads,
          Harts,
          None,
          Bound         \* [Threads -> Harts \cup {None}], thread->bound_hart

ASSUME SetsAssumption == /\ Threads \cap Harts = {}
                         /\ None \notin Threads \cup Harts
                         /\ Harts # {}
ASSUME BoundAssumption == Bound \in [Threads -> Harts \cup {None}]

VARIABLES state,         \* [Threads -> thread state]; "free" once reaped
          hart_lock,     \* [Threads -> the hart whose code holds it, or None]
          sched_lock,    \* [Threads -> the context that holds it, or None]
          last_hart,
          yield_await,   \* [Threads -> BOOLEAN], held or not
          preempt_count, \* [Threads -> 0..1], one spinlock at most
          need_resched,
          curr,          \* [Harts -> current thread, None is the idle thread]
          active,        \* [Harts -> HART_FLAG_ACTIVE]
          dead_thread,
          queue,         \* [Harts -> Seq(Threads)], the run queue
          ipi,           \* [Harts -> a scheduler interrupt is pending]
          idle,          \* [Harts -> where the idle thread is]
          pc,            \* [Threads \cup Harts -> where the context is]
          who,           \* [Threads \cup Harts -> the thread it is waking]
          target,        \* [Threads \cup Harts -> the hart it queued it on]
          next,          \* [Harts -> the handler's next]
          unlock         \* [Harts -> the thread of the handler's curr_hart_lock]

threadVars == <<state, hart_lock, sched_lock, last_hart, yield_await, preempt_count, need_resched>>
hartVars   == <<curr, active, dead_thread, queue, ipi, idle>>
localVars  == <<pc, who, target, next, unlock>>
vars == <<threadVars, hartVars, localVars>>

Contexts == Threads \cup Harts

\* After sched_init and sched_start: every hart idles, every thread is created
\* and waits for its first sched_enqueue.
Init ==
    /\ state = [t \in Threads |-> "blocked"]
    /\ hart_lock = [t \in Threads |-> None]
    /\ sched_lock = [t \in Threads |-> None]
    /\ last_hart = [t \in Threads |-> None]
    /\ yield_await = [t \in Threads |-> FALSE]
    /\ preempt_count = [t \in Threads |-> 0]
    /\ need_resched = [t \in Threads |-> FALSE]
    /\ curr = [h \in Harts |-> None]
    /\ active = [h \in Harts |-> FALSE]
    /\ dead_thread = [h \in Harts |-> None]
    /\ queue = [h \in Harts |-> <<>>]
    /\ ipi = [h \in Harts |-> TRUE]
    /\ idle = [h \in Harts |-> "start"]
    /\ pc = [c \in Contexts |-> IF c \in Harts THEN "none" ELSE "run"]
    /\ who = [c \in Contexts |-> None]
    /\ target = [c \in Contexts |-> None]
    /\ next = [h \in Harts |-> None]
    /\ unlock = [h \in Harts |-> None]

(***************************************************************************)
(* Contexts and run queues                                                 *)
(***************************************************************************)

\* A thread runs where it is current, unless the handler is on top of it.
RunsOn(t, h) == curr[h] = t /\ pc[h] = "none"

\* The hart a context executes on.
At(c, h) == IF c \in Harts THEN c = h /\ pc[h] # "none" ELSE RunsOn(c, h)

\* Interrupts are off in the handler, with a sched_lock held, and in the idle
\* thread between its check of the queue and the halt.
InterruptsOn(h) ==
    /\ pc[h] = "none"
    /\ curr[h] = None => idle[h] # "checking"
    /\ curr[h] # None => pc[curr[h]] # "push"

\* Unlinking a thread, which is on a queue once at most (rq_remove_nolock).
Without(q, t) ==
    LET places == {i \in 1..Len(q) : q[i] = t}
        at == CHOOSE i \in places : TRUE
    IN  IF places = {} THEN q ELSE SubSeq(q, 1, at - 1) \o SubSeq(q, at + 1, Len(q))
InQueue(t, h) == \E i \in 1..Len(queue[h]) : queue[h][i] = t

\* Slip: the thread's hart_lock is not tried.
CanTakeHeld(t, h) == Bound[t] \in {None, h} /\ sched_lock[t] = None

\* What rq_take_nolock may take for hart h from a queue: the first thread whose
\* locks can be had and that may run there.
CanTake(t, h) == Bound[t] \in {None, h} /\ hart_lock[t] = None /\ sched_lock[t] = None
Takeable(v, h) == {i \in 1..Len(queue[v]) : CanTake(queue[v][i], h)}
FirstTakeable(v, h) == queue[v][CHOOSE i \in Takeable(v, h) : \A j \in Takeable(v, h) : i <= j]

\* The queues once t is off all of them (rq_unlink).
Unlinked(t) == [h \in Harts |-> Without(queue[h], t)]

HartIsIdle(h) == ~active[h]

\* The current thread of h is not the idle one, and is in this state.
CurrIs(h, s) == curr[h] # None /\ state[curr[h]] = s

Goto(c, place) == pc' = [pc EXCEPT ![c] = place]

(***************************************************************************)
(* sched_enqueue and sched_kick, from a thread or from a handler           *)
(***************************************************************************)

\* choose_hart, called at hart h; the idle flags are read one after another, so
\* a hart that is idle may be missed.
Targets(t, h) ==
    LET last == last_hart[t]
        fallback == IF last # None THEN last ELSE h
    IN  IF Bound[t] # None THEN {Bound[t]}
        ELSE IF last # None /\ (hart_lock[t] # None \/ HartIsIdle(last)) THEN {last}
        ELSE {g \in Harts : HartIsIdle(g)} \cup {fallback}

\* Where a context goes when its wakeup is done.
Back(c) == IF c \in Harts THEN "work" ELSE "run"

\* sched_enqueue, or sched_kick of a thread whose wait may be interrupted (which
\* waits may is in Event), finds the thread blocked: sched_lock is taken and a
\* hart chosen.
WakeChoose(c, t, h, Choice(_, _)) ==
    /\ pc[c] = Back(c) /\ At(c, h)
    /\ t # c /\ state[t] = "blocked" /\ sched_lock[t] = None
    /\ sched_lock' = [sched_lock EXCEPT ![t] = c]
    /\ who' = [who EXCEPT ![c] = t]
    /\ \E g \in Choice(t, h) : target' = [target EXCEPT ![c] = g]
    /\ Goto(c, "push")
    /\ UNCHANGED <<state, hart_lock, last_hart, yield_await, preempt_count, need_resched, hartVars, next, unlock>>

SchedEnqueue(c, t, h) == WakeChoose(c, t, h, Targets)

\* sched_kick of a running thread interrupts its hart, if it is another one.
SchedKickRunning(c, t, h) ==
    /\ pc[c] = Back(c) /\ At(c, h) /\ state[t] = "running" /\ sched_lock[t] = None
    /\ last_hart[t] \notin {None, h}
    /\ ipi' = [ipi EXCEPT ![last_hart[t]] = TRUE]
    /\ UNCHANGED <<threadVars, curr, active, dead_thread, queue, idle, localVars>>

\* The push under the target's queue lock; both locks are released.
WakePush(c, h) ==
    /\ pc[c] = "push" /\ At(c, h)
    /\ state' = [state EXCEPT ![who[c]] = "runnable"]
    /\ queue' = [queue EXCEPT ![target[c]] = Append(@, who[c])]
    /\ sched_lock' = [sched_lock EXCEPT ![who[c]] = None]
    /\ Goto(c, "kick")
    /\ UNCHANGED <<hart_lock, last_hart, yield_await, preempt_count, need_resched, curr, active, dead_thread, ipi, idle, who, target, next, unlock>>

\* kick_hart: an idle target is interrupted.
KickTarget(c, h) ==
    /\ pc[c] = "kick" /\ At(c, h) /\ HartIsIdle(target[c])
    /\ ipi' = [ipi EXCEPT ![target[c]] = TRUE]
    /\ Goto(c, Back(c))
    /\ who' = [who EXCEPT ![c] = None]
    /\ target' = [target EXCEPT ![c] = None]
    /\ UNCHANGED <<threadVars, curr, active, dead_thread, queue, idle, next, unlock>>

KickBusy(c, h) ==
    /\ pc[c] = "kick" /\ At(c, h) /\ ~HartIsIdle(target[c])
    /\ Goto(c, "scan")
    /\ UNCHANGED <<threadVars, hartVars, who, target, next, unlock>>

\* A busy one is left alone, and an idle hart may come and steal.  The thread
\* may be gone by now, in which case bound_hart reads as anything.
KickScan(c, h) ==
    /\ pc[c] = "scan" /\ At(c, h)
    /\ \/ UNCHANGED ipi
       \/ /\ Bound[who[c]] = None \/ state[who[c]] = "free"
          /\ \E g \in Harts : HartIsIdle(g) /\ ipi' = [ipi EXCEPT ![g] = TRUE]
    /\ Goto(c, Back(c))
    /\ who' = [who EXCEPT ![c] = None]
    /\ target' = [target EXCEPT ![c] = None]
    /\ UNCHANGED <<threadVars, curr, active, dead_thread, queue, idle, next, unlock>>

(***************************************************************************)
(* What a thread does to itself                                            *)
(***************************************************************************)

\* sched_dequeue; a wakeup that came first is undone.  An interruptible wait does
\* not start when there is work pending, which is any time here.
SchedDequeue(t, h, interruptible) ==
    /\ RunsOn(t, h) /\ pc[t] = "run" /\ preempt_count[t] = 0
    /\ state[t] \in {"running", "runnable"} /\ sched_lock[t] = None
    /\ \/ /\ state' = [state EXCEPT ![t] = "blocked"]
          /\ queue' = Unlinked(t)
       \/ interruptible /\ UNCHANGED <<state, queue>>
    /\ Goto(t, "blocking")
    /\ UNCHANGED <<hart_lock, sched_lock, last_hart, yield_await, preempt_count, need_resched, curr, active, dead_thread, ipi, idle, who, target, next, unlock>>

\* sched_yield up to where interrupts come back: a self-IPI.
SchedYield(t, h) ==
    /\ RunsOn(t, h) /\ pc[t] \in {"run", "blocking", "resched"} /\ preempt_count[t] = 0
    /\ ~yield_await[t]
    /\ yield_await' = [yield_await EXCEPT ![t] = TRUE]
    /\ ipi' = [ipi EXCEPT ![h] = TRUE]
    /\ Goto(t, "yielding")
    /\ UNCHANGED <<state, hart_lock, sched_lock, last_hart, preempt_count, need_resched, curr, active, dead_thread, queue, idle, who, target, next, unlock>>

\* The handler has released yield_await: taken and released once more.
YieldReturn(t, h) ==
    /\ RunsOn(t, h) /\ pc[t] = "yielding" /\ ~yield_await[t]
    /\ Goto(t, "run")
    /\ UNCHANGED <<threadVars, hartVars, who, target, next, unlock>>

SchedTerminate(t, h) ==
    /\ RunsOn(t, h) /\ pc[t] = "run" /\ preempt_count[t] = 0 /\ sched_lock[t] = None
    /\ state' = [state EXCEPT ![t] = "dead"]
    /\ queue' = Unlinked(t)
    /\ ipi' = [ipi EXCEPT ![h] = TRUE]
    /\ Goto(t, "dead")
    /\ UNCHANGED <<hart_lock, sched_lock, last_hart, yield_await, preempt_count, need_resched, curr, active, dead_thread, idle, who, target, next, unlock>>

PreemptDisable(t, h) ==
    /\ RunsOn(t, h) /\ pc[t] = "run" /\ state[t] = "running" /\ preempt_count[t] = 0
    /\ preempt_count' = [preempt_count EXCEPT ![t] = 1]
    /\ UNCHANGED <<state, hart_lock, sched_lock, last_hart, yield_await, need_resched, hartVars, localVars>>

\* preempt_enable yields if the handler asked for it meanwhile.
PreemptEnable(t, h) ==
    /\ RunsOn(t, h) /\ pc[t] = "run" /\ preempt_count[t] > 0
    /\ preempt_count' = [preempt_count EXCEPT ![t] = @ - 1]
    /\ Goto(t, IF need_resched[t] THEN "resched" ELSE "run")
    /\ UNCHANGED <<state, hart_lock, sched_lock, last_hart, yield_await, need_resched, hartVars, who, target, next, unlock>>

(***************************************************************************)
(* sched_idle                                                              *)
(***************************************************************************)

IdleCheck(h) ==
    /\ curr[h] = None /\ pc[h] = "none" /\ idle[h] = "start"
    /\ idle' = [idle EXCEPT ![h] = "checking"]
    /\ UNCHANGED <<threadVars, curr, active, dead_thread, queue, ipi, localVars>>

Halt(h, looks) ==
    /\ curr[h] = None /\ pc[h] = "none" /\ idle[h] = "checking"
    /\ ipi' = [ipi EXCEPT ![h] = IF looks /\ queue[h] # <<>> THEN TRUE ELSE @]
    /\ idle' = [idle EXCEPT ![h] = "halted"]
    /\ UNCHANGED <<threadVars, curr, active, dead_thread, queue, localVars>>

\* Slip: the queue is not looked at before the halt.
IdleHaltBlindly(h) == Halt(h, FALSE)
IdleHalt(h) == Halt(h, TRUE)

(***************************************************************************)
(* sched_irq_handler                                                       *)
(***************************************************************************)

\* A tick or an IPI: the handler starts, and may wake sleepers and listeners.
Irq(h) ==
    /\ InterruptsOn(h)
    /\ ipi' = [ipi EXCEPT ![h] = FALSE]
    /\ Goto(h, "work")
    /\ UNCHANGED <<threadVars, curr, active, dead_thread, queue, idle, who, target, next, unlock>>

\* Slip: a running thread is never switched away from.
PreemptibleNever(h) == ~CurrIs(h, "running")

\* A thread that runs with preemption disabled is not switched away from.
Preemptible(h) == CurrIs(h, "running") => preempt_count[curr[h]] = 0

\* The thread that died here is freed; then the handler gives up, or goes on.
IrqStart(h) ==
    /\ pc[h] = "work"
    /\ state' = [t \in Threads |-> IF t = dead_thread[h] THEN "free" ELSE state[t]]
    /\ dead_thread' = [dead_thread EXCEPT ![h] = None]
    /\ need_resched' = [t \in Threads |-> IF t = curr[h] THEN ~Preemptible(h) ELSE need_resched[t]]
    /\ yield_await' = [t \in Threads |-> yield_await[t] /\ (t = curr[h] => ~Preemptible(h))]
    /\ Goto(h, IF ~Preemptible(h) THEN "none" ELSE IF curr[h] = None THEN "pick" ELSE "lock")
    /\ UNCHANGED <<hart_lock, sched_lock, last_hart, preempt_count, curr, active, queue, ipi, idle, who, target, next, unlock>>

IrqLock(h) ==
    /\ pc[h] = "lock" /\ sched_lock[curr[h]] = None
    /\ sched_lock' = [sched_lock EXCEPT ![curr[h]] = h]
    /\ Goto(h, "pick")
    /\ UNCHANGED <<state, hart_lock, last_hart, yield_await, preempt_count, need_resched, hartVars, who, target, next, unlock>>

\* The thread taken from the hart's own queue, None if there is none to take.
Own(h) == IF Takeable(h, h) = {} THEN None ELSE FirstTakeable(h, h)

\* The current thread, which is not the idle one, is kept.
Keep(h, removes) ==
    /\ pc[h] = "pick" /\ Own(h) = None
    /\ CurrIs(h, "running") \/ CurrIs(h, "runnable")
    /\ state' = [state EXCEPT ![curr[h]] = "running"]
    /\ queue' = [queue EXCEPT ![h] = IF removes THEN Without(@, curr[h]) ELSE @]
    /\ sched_lock' = [sched_lock EXCEPT ![curr[h]] = None]
    /\ Goto(h, "none")
    /\ UNCHANGED <<hart_lock, last_hart, yield_await, preempt_count, need_resched, curr, active, dead_thread, ipi, idle, who, target, next, unlock>>

IrqKeep(h) == Keep(h, TRUE)

\* The current thread is left: put back on the queue if it still runs, handed
\* to the next handler on this hart if it is dead.
Leave(h, released) ==
    LET t == Own(h)
        c == curr[h]
    IN  /\ pc[h] = "pick"
        /\ c = None \/ t # None \/ CurrIs(h, "blocked") \/ CurrIs(h, "dead")
        /\ state' = [u \in Threads |-> IF u = t THEN "running"
                                       ELSE IF u = c /\ CurrIs(h, "running") THEN "runnable"
                                       ELSE state[u]]
        /\ queue' = [queue EXCEPT ![h] = Without(@, t) \o (IF CurrIs(h, "running") THEN <<c>> ELSE <<>>)]
        /\ hart_lock' = [u \in Threads |-> IF u = t THEN h
                                           ELSE IF u = c /\ released THEN None
                                           ELSE hart_lock[u]]
        /\ sched_lock' = [u \in Threads |-> IF u = c THEN None ELSE sched_lock[u]]
        /\ dead_thread' = [dead_thread EXCEPT ![h] = IF CurrIs(h, "dead") THEN c ELSE @]
        /\ unlock' = [unlock EXCEPT ![h] = IF c # None /\ ~CurrIs(h, "dead") /\ ~released THEN c ELSE None]
        /\ next' = [next EXCEPT ![h] = t]
        /\ Goto(h, IF t = None THEN "steal" ELSE "switch")
        /\ UNCHANGED <<last_hart, yield_await, preempt_count, need_resched, curr, active, ipi, idle, who, target>>

\* Slip: the thread's hart_lock is released with the handler still on its stack.
IrqLeaveEarly(h) == Leave(h, TRUE)
IrqLeave(h) == Leave(h, FALSE)

\* rq_steal: from another hart's queue.  A victim is passed over when its queue
\* lock is taken, so nothing may be found although there is something.
StealFrom(h, v) ==
    LET t == FirstTakeable(v, h)
    IN  /\ pc[h] = "steal" /\ v # h /\ Takeable(v, h) # {}
        /\ queue' = [queue EXCEPT ![v] = Without(@, t)]
        /\ state' = [state EXCEPT ![t] = "running"]
        /\ hart_lock' = [hart_lock EXCEPT ![t] = h]
        /\ next' = [next EXCEPT ![h] = t]
        /\ Goto(h, "switch")
        /\ UNCHANGED <<sched_lock, last_hart, yield_await, preempt_count, need_resched, curr, active, dead_thread, ipi, idle, who, target, unlock>>

StealNothing(h) ==
    /\ pc[h] = "steal"
    /\ Goto(h, "switch")
    /\ UNCHANGED <<threadVars, hartVars, who, target, next, unlock>>

\* The hart goes idle, or its current thread becomes next.
IrqSwitch(h) ==
    /\ pc[h] = "switch"
    /\ active' = [active EXCEPT ![h] = next[h] # None]
    /\ last_hart' = [t \in Threads |-> IF t = next[h] THEN h ELSE last_hart[t]]
    /\ curr' = [curr EXCEPT ![h] = next[h]]
    /\ next' = [next EXCEPT ![h] = None]
    /\ Goto(h, "enter")
    /\ UNCHANGED <<state, hart_lock, sched_lock, yield_await, preempt_count, need_resched, dead_thread, queue, ipi, idle, who, target, unlock>>

\* sched_enter: off the old stack, whose thread may now run elsewhere.  The idle
\* thread starts over: its context is never saved.
SchedEnter(h) ==
    /\ pc[h] = "enter"
    /\ hart_lock' = [t \in Threads |-> IF t = unlock[h] THEN None ELSE hart_lock[t]]
    /\ unlock' = [unlock EXCEPT ![h] = None]
    /\ idle' = [idle EXCEPT ![h] = "start"]
    /\ Goto(h, "none")
    /\ UNCHANGED <<state, sched_lock, last_hart, yield_await, preempt_count, need_resched, curr, active, dead_thread, queue, ipi, who, target, next>>

Handler(h) ==
    \/ IrqStart(h) \/ IrqLock(h) \/ IrqKeep(h) \/ IrqLeave(h)
    \/ StealNothing(h) \/ \E v \in Harts : StealFrom(h, v)
    \/ IrqSwitch(h) \/ SchedEnter(h)

Waking(c, h) == WakePush(c, h) \/ KickTarget(c, h) \/ KickBusy(c, h) \/ KickScan(c, h)

ThreadStep(t, h) ==
    \/ \E interruptible \in BOOLEAN : SchedDequeue(t, h, interruptible)
    \/ SchedYield(t, h) \/ YieldReturn(t, h) \/ SchedTerminate(t, h)
    \/ PreemptDisable(t, h) \/ PreemptEnable(t, h)

Next ==
    \E h \in Harts :
        \/ Irq(h) \/ Handler(h) \/ IdleCheck(h) \/ IdleHalt(h)
        \/ \E t \in Threads : ThreadStep(t, h)
        \/ \E c \in Contexts : Waking(c, h)
        \/ \E c \in Contexts, t \in Threads :
               \/ SchedEnqueue(c, t, h) \/ SchedKickRunning(c, t, h)

Spec == Init /\ [][Next]_vars

\* Each handler re-arms the hart's timer, so ticks keep coming; a handler runs
\* with interrupts off and handles a finite list of work; between two ticks the
\* current thread executes, and neither holds a spinlock nor stays between
\* sched_dequeue and sched_yield for ever.
Fairness ==
    /\ \A h \in Harts :
        /\ WF_vars(Irq(h)) /\ WF_vars(Handler(h)) /\ SF_vars(IrqStart(h))
        /\ WF_vars(IdleCheck(h) \/ IdleHalt(h))
    /\ \A c \in Contexts : SF_vars(\E h \in Harts : Waking(c, h))
    /\ \A t \in Threads :
        SF_vars(\E h \in Harts : PreemptEnable(t, h) \/ YieldReturn(t, h) \/ (pc[t] # "run" /\ SchedYield(t, h)))

FairSpec == Spec /\ Fairness

(***************************************************************************)
(* Properties                                                              *)
(***************************************************************************)

\* Every variable has its type.
TypeOK ==
    /\ state \in [Threads -> {"blocked", "runnable", "running", "dead", "free"}]
    /\ hart_lock \in [Threads -> Harts \cup {None}]
    /\ sched_lock \in [Threads -> Contexts \cup {None}]
    /\ last_hart \in [Threads -> Harts \cup {None}]
    /\ yield_await \in [Threads -> BOOLEAN]
    /\ preempt_count \in [Threads -> 0..1]
    /\ need_resched \in [Threads -> BOOLEAN]
    /\ curr \in [Harts -> Threads \cup {None}]
    /\ active \in [Harts -> BOOLEAN]
    /\ dead_thread \in [Harts -> Threads \cup {None}]
    /\ queue \in [Harts -> Seq(Threads)]
    /\ ipi \in [Harts -> BOOLEAN]
    /\ idle \in [Harts -> {"start", "checking", "halted"}]
    /\ pc \in [Contexts -> {"none", "run", "work", "push", "kick", "scan", "blocking", "resched",
                            "yielding", "dead", "lock", "pick", "steal", "switch", "enter"}]
    /\ who \in [Contexts -> Threads \cup {None}]
    /\ target \in [Contexts -> Harts \cup {None}]
    /\ next \in [Harts -> Threads \cup {None}]
    /\ unlock \in [Harts -> Threads \cup {None}]

\* A hart uses a thread's stack and context while the thread is current there,
\* about to be, or being left.
Uses(h, t) == curr[h] = t \/ next[h] = t \/ unlock[h] = t

\* No two harts use one thread's stack: hart_lock is held by the hart that does,
\* from rq_take_nolock to sched_enter's release of it.
OneHartPerThread == \A g, h \in Harts, t \in Threads : Uses(g, t) /\ Uses(h, t) => g = h

\* Where thread t is queued: a hart and a position.
QueuedAt(t) == UNION {{h} \X {i \in 1..Len(queue[h]) : queue[h][i] = t} : h \in Harts}

\* A thread is on one run queue if it is runnable, and on none otherwise.
QueuedOnce ==
    \A t \in Threads : Cardinality(QueuedAt(t)) = IF state[t] = "runnable" THEN 1 ELSE 0

\* kassert(curr->runqueue == runqueue) in sched_irq_handler: a thread woken
\* while it is still on its way off a hart is queued on that hart.
WokenOnItsHart ==
    \A h \in Harts : pc[h] = "pick" /\ CurrIs(h, "runnable") => InQueue(curr[h], h)

\* The handler never overwrites a dead thread that is still to be reaped.
DeadThreadKept ==
    \A h \in Harts : pc[h] = "pick" /\ CurrIs(h, "dead") => dead_thread[h] = None

\* A thread that died is reaped only when no hart uses it and nobody queues it.
ReapedUnused ==
    \A t \in Threads : state[t] = "free" =>
        /\ \A h \in Harts : ~Uses(h, t) /\ ~InQueue(t, h) /\ dead_thread[h] # t
        /\ sched_lock[t] = None

\* A thread that holds a spinlock is not taken off its hart.
LockHolderStays ==
    \A t \in Threads : preempt_count[t] > 0 => \E h \in Harts : curr[h] = t /\ pc[h] \notin {"switch", "enter", "steal"}

\* A hart that halts with threads on its queue has an interrupt pending, or a
\* waker about to send it one: the push, the flag and the check in sched_idle
\* are ordered so that one of the two sides sees the other.
HaltedHartIsKicked ==
    \A h \in Harts :
        curr[h] = None /\ pc[h] = "none" /\ idle[h] = "halted" /\ queue[h] # <<>> =>
            \/ ipi[h]
            \/ \E c \in Contexts : pc[c] = "kick" /\ target[c] = h

\* A bound thread only ever runs on its hart, though others steal.
BoundThreadStays == \A h \in Harts, t \in Threads : Uses(h, t) => Bound[t] \in {None, h}

\* sched_irq_handler loses no thread and keeps none too many: every thread is queued,
\* current, blocked, dead on one hart or reaped, as its state says.
Accounted == TypeOK /\ QueuedOnce /\ WokenOnItsHart /\ DeadThreadKept /\ ReapedUnused

\* Neither a thread that holds a spinlock nor a bound one is moved by preemption or by
\* a hart that steals.
StaysPut == LockHolderStays /\ BoundThreadStays

\* sched_irq_handler, sched_enqueue and the idle loop: every thread is queued, current, blocked,
\* dead on one hart or reaped, as its state says; one that holds a spinlock or is bound stays on
\* its hart; and a hart does not halt with a thread in its queue and no interrupt to wake it.
HartsAgree == Accounted /\ StaysPut /\ HaltedHartIsKicked

Life == INSTANCE ThreadLife WITH life <- state, place <- hart_lock

\* Each thread goes through its life as ThreadLife says, hart_lock telling which
\* hart has it.
ImplementsThreadLife == Life!Spec

\* A runnable thread gets to run: queues are served in turn, and a thread that
\* rq_take_nolock passes over is found again later.
RunnableRuns == \A t \in Threads : state[t] = "runnable" ~> state[t] = "running"

\* sched_yield returns in a thread that is not blocked, whatever interrupt came
\* before the one it sent itself.
YieldReturns == \A t \in Threads : pc[t] = "yielding" /\ state[t] # "blocked" ~> pc[t] = "run"

\* sched_irq_handler serves its queue in turn: every runnable thread comes to run, and
\* every sched_yield of one returns.
TurnsComeRound == RunnableRuns /\ YieldReturns
=============================================================================
