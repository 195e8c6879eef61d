-------------------------------- MODULE Event --------------------------------
(* kernel/proc/event.c: threads that wait for one of several events, and the *)
(* contexts that trigger them.                                               *)
(*                                                                           *)
(* Grain: one step per spinlock acquired, and one step for everything done   *)
(* while a set of locks is held; releasing a lock is merged with the last    *)
(* step under it.  The scheduler appears as the promises event.c relies on:  *)
(* sched_dequeue blocks, sched_enqueue wakes a blocked thread and does       *)
(* nothing to any other, sched_yield returns once the thread is not blocked. *)
EXTENDS Integers, Sequences, FiniteSets

CONSTANTS Threads,      \* the threads that call event_await and its variants
          Events,
          Callers,      \* the contexts that trigger: another hart, or an interrupt
          NoOne,        \* a spinlock nobody holds, an interrupt on no thread's hart
          Modes,        \* the variants of event_await they call
          Waits,        \* the lists of events the threads pass, e.g. <<e>>
          MaxPending,   \* stands for UINT32_MAX, where num_pending saturates
          CondEvent,    \* the event that event_await_unlock is used with
          Signalled,    \* the threads that signals or exit requests reach
          Interrupted   \* the threads that Callers may interrupt in await_until

\* Event lists hold distinct events: locking one twice would never return.
ASSUME WaitsAssumption ==
    Waits \subseteq {w \in Seq(Events) : /\ Len(w) > 0
                                         /\ \A i, j \in 1..Len(w) : w[i] = w[j] => i = j}
ASSUME ModesAssumption ==
    Modes \subseteq {"poll", "blocking", "timeout", "interruptible", "unlock", "unlock_timeout"}
ASSUME BoundAssumption == MaxPending \in Nat \ {0}
ASSUME NamesAssumption == /\ CondEvent \in Events
                          /\ Interrupted \subseteq Threads /\ Signalled \subseteq Threads
                          /\ NoOne \notin Threads \cup Callers
                          /\ Threads \cap Callers = {}

VARIABLES lock,         \* [Events -> holder], event_t.lock
          num_pending,  \* [Events -> Nat]
          listeners,    \* [Events -> Seq of listener], event_t.listeners
          state,        \* [Threads -> thread state], thread_t.state
          wait_interrupt,
          pending_work, \* [Threads -> BOOLEAN], any bit of thread_t.pending_work
          kicks,        \* the threads whose work was posted but not yet kicked
          wakeup_index,
          sleepers,     \* the threads on the scheduler's sleep list
          pc,           \* [Threads -> where the thread is in its await]
          args,         \* [Threads -> the call's arguments]
          idx,          \* [Threads -> the loop index i]
          triggered,    \* [Threads -> the local of await_until]
          result,       \* [Threads -> what the last await returned]
          call,         \* [Callers -> the trigger in progress]
          guard,        \* the lock event_await_unlock is given
          condition,    \* what that lock guards
          taken         \* history: the events whose trigger took the thread off

eventVars  == <<lock, num_pending, listeners>>
threadVars == <<state, wait_interrupt, pending_work, kicks, wakeup_index, sleepers>>
awaitVars  == <<pc, args, idx, triggered, result, taken>>
guardVars  == <<guard, condition>>
vars == <<eventVars, threadVars, awaitVars, call, guardVars>>

HasDeadline(mode)   == mode \in {"timeout", "unlock_timeout"}
Interruptible(mode) == mode \in {"interruptible", "unlock", "unlock_timeout"}
WithLock(mode)      == mode \in {"unlock", "unlock_timeout"}

\* Results: an index into the events (from 1 on), or an error.
EAGAIN    == -206
ENOMEM    == -247
ERESTART  == -4095
ETIMEDOUT == -273
NoResult  == 0

Listener(t, i) == [thread |-> t, wakeup_index |-> i]
EventSet(t) == {args[t].events[i] : i \in 1..Len(args[t].events)}
Listens(t, e) == \E j \in 1..Len(listeners[e]) : listeners[e][j].thread = t

NoCall == [at |-> "idle", event |-> CondEvent, max |-> 0, i |-> 1, on |-> NoOne]

\* An interrupt on a thread's hart runs to its end before the thread goes on.
OnHart(t) == \A c \in Callers : call[c].on # t

Init ==
    /\ lock = [e \in Events |-> NoOne]
    /\ num_pending = [e \in Events |-> 0]
    /\ listeners = [e \in Events |-> <<>>]
    /\ state = [t \in Threads |-> "running"]
    /\ wait_interrupt = [t \in Threads |-> FALSE]
    /\ pending_work = [t \in Threads |-> FALSE]
    /\ kicks = {}
    /\ wakeup_index = [t \in Threads |-> 0]
    /\ sleepers = {}
    /\ pc = [t \in Threads |-> "idle"]
    /\ args = [t \in Threads |-> [events |-> <<>>, mode |-> "poll"]]
    /\ idx = [t \in Threads |-> 1]
    /\ triggered = [t \in Threads |-> FALSE]
    /\ result = [t \in Threads |-> NoResult]
    /\ call = [c \in Callers |-> NoCall]
    /\ guard = NoOne
    /\ condition = FALSE
    /\ taken = [t \in Threads |-> {}]

(***************************************************************************)
(* The scheduler's part                                                    *)
(***************************************************************************)

\* sched_enqueue: wakes a blocked thread and does nothing to any other.
Woken(t) == IF state[t] = "blocked" THEN "runnable" ELSE state[t]

\* Slip: work posted before the thread blocks is not looked at.
DequeuedAlways(t, interruptible) == "blocked"

\* sched_dequeue: an interruptible wait does not start with work pending.
Dequeued(t, interruptible) ==
    IF interruptible /\ pending_work[t] THEN state[t] ELSE "blocked"

\* wake_expired: the tick takes a thread off the sleep list and wakes it, both
\* under sleep_lock.
WakeExpired(t) ==
    /\ t \in sleepers
    /\ sleepers' = sleepers \ {t}
    /\ state' = [state EXCEPT ![t] = Woken(t)]
    /\ UNCHANGED <<eventVars, wait_interrupt, pending_work, kicks, wakeup_index, awaitVars, call, guardVars>>

\* A signal or an exit request: pending_work first, then sched_kick, both before
\* the locks that exit_to_user handles the work under are released.
PostWork(t) ==
    /\ t \in Signalled /\ ~pending_work[t]
    /\ pending_work' = [pending_work EXCEPT ![t] = TRUE]
    /\ kicks' = kicks \cup {t}
    /\ UNCHANGED <<eventVars, state, wait_interrupt, wakeup_index, sleepers, awaitVars, call, guardVars>>

SchedKick(t) ==
    /\ t \in kicks
    /\ kicks' = kicks \ {t}
    /\ state' = [state EXCEPT ![t] = IF wait_interrupt[t] THEN Woken(t) ELSE @]
    /\ UNCHANGED <<eventVars, wait_interrupt, pending_work, wakeup_index, sleepers, awaitVars, call, guardVars>>

\* sched_kick wakes the thread out of an interruptible wait only.

\* exit_to_user handles the work between two system calls.
HandleWork(t) ==
    /\ pc[t] = "idle" /\ pending_work[t] /\ t \notin kicks
    /\ pending_work' = [pending_work EXCEPT ![t] = FALSE]
    /\ UNCHANGED <<eventVars, state, wait_interrupt, kicks, wakeup_index, sleepers, awaitVars, call, guardVars>>

(***************************************************************************)
(* event_await, event_await_blocking, _timeout, _interruptible, _unlock    *)
(***************************************************************************)

\* The caller's side of event_await and of await_until without a lock.
Await(t, w, mode) ==
    /\ pc[t] = "idle" /\ ~WithLock(mode)
    /\ pc' = [pc EXCEPT ![t] = "try"]
    /\ args' = [args EXCEPT ![t] = [events |-> w, mode |-> mode]]
    /\ result' = [result EXCEPT ![t] = NoResult]
    /\ taken' = [taken EXCEPT ![t] = {}]
    /\ UNCHANGED <<idx, triggered, eventVars, threadVars, call, guardVars>>

\* A user of event_await_unlock: takes its lock, checks its condition under it,
\* and either consumes the condition or waits with the lock still held.
CheckCondition(t, mode) ==
    /\ pc[t] = "idle" /\ WithLock(mode) /\ guard = NoOne
    /\ \/ /\ condition
          /\ condition' = FALSE
          /\ UNCHANGED <<guard, awaitVars>>
       \/ /\ ~condition
          /\ guard' = t
          /\ pc' = [pc EXCEPT ![t] = "lock"]
          /\ args' = [args EXCEPT ![t] = [events |-> <<CondEvent>>, mode |-> mode]]
          /\ result' = [result EXCEPT ![t] = NoResult]
          /\ taken' = [taken EXCEPT ![t] = {}]
          /\ UNCHANGED <<condition, idx, triggered>>
    /\ UNCHANGED <<eventVars, threadVars, call>>

\* spinlock_acquire(&events[i]->lock), in the order of the list.
AcquireNext(t, where) ==
    /\ pc[t] = where /\ idx[t] <= Len(args[t].events)
    /\ LET e == args[t].events[idx[t]] IN
         /\ lock[e] = NoOne
         /\ lock' = [lock EXCEPT ![e] = t]
    /\ idx' = [idx EXCEPT ![t] = @ + 1]
    /\ UNCHANGED <<num_pending, listeners, threadVars, pc, args, triggered, result, taken, call, guardVars>>

TryLock(t)    == AcquireNext(t, "try")
\* Slip: the caller's lock is dropped before the thread listens.
ListenLockUnguarded(t) ==
    /\ pc[t] = "lock" /\ idx[t] <= Len(args[t].events)
    /\ lock[args[t].events[idx[t]]] = NoOne
    /\ IF guard = t
       THEN guard' = NoOne /\ UNCHANGED <<lock, idx>>
       ELSE /\ lock' = [lock EXCEPT ![args[t].events[idx[t]]] = t]
            /\ idx' = [idx EXCEPT ![t] = @ + 1]
            /\ UNCHANGED guard
    /\ UNCHANGED <<num_pending, listeners, threadVars, pc, args, triggered, result, taken, call, condition>>

ListenLock(t) == AcquireNext(t, "lock")

HoldsAll(t, where) == pc[t] = where /\ idx[t] = Len(args[t].events) + 1

\* The events of the list that have a wakeup pending, and the first of them.
PendingIndices(t) == {i \in 1..Len(args[t].events) : num_pending[args[t].events[i]] > 0}
FirstPending(t) == CHOOSE i \in PendingIndices(t) : \A j \in PendingIndices(t) : i <= j

ReleaseAll(t) == lock' = [e \in Events |-> IF e \in EventSet(t) THEN NoOne ELSE lock[e]]
ReleaseGuard(t) == guard' = IF guard = t THEN NoOne ELSE guard

Finish(t, value) ==
    /\ result' = [result EXCEPT ![t] = value]
    /\ pc' = [pc EXCEPT ![t] = "idle"]
    /\ idx' = [idx EXCEPT ![t] = 1]
    /\ triggered' = [triggered EXCEPT ![t] = FALSE]

TakePending(t) ==
    /\ PendingIndices(t) # {}
    /\ num_pending' = [num_pending EXCEPT ![args[t].events[FirstPending(t)]] = @ - 1]
    /\ Finish(t, FirstPending(t))

\* The body of event_await under the locks: take a pending wakeup or go on.
TryTake(t) ==
    /\ HoldsAll(t, "try")
    /\ ReleaseAll(t)
    /\ \/ TakePending(t)
       \/ /\ PendingIndices(t) = {} /\ args[t].mode = "poll"
          /\ Finish(t, EAGAIN)
          /\ UNCHANGED num_pending
       \/ /\ PendingIndices(t) = {} /\ args[t].mode # "poll"
          /\ pc' = [pc EXCEPT ![t] = "lock"]
          /\ idx' = [idx EXCEPT ![t] = 1]
          /\ UNCHANGED <<num_pending, result, triggered>>
    /\ UNCHANGED <<listeners, threadVars, args, taken, call, guardVars>>

\* Something became pending since event_await dropped the locks.
RetakePending(t) ==
    /\ HoldsAll(t, "lock")
    /\ TakePending(t)
    /\ ReleaseAll(t) /\ ReleaseGuard(t)
    /\ UNCHANGED <<listeners, threadVars, args, taken, call, condition>>

\* krealloc failed; the events registered so far are taken back.
ListenNoMemory(t) ==
    /\ HoldsAll(t, "lock") /\ PendingIndices(t) = {}
    /\ Finish(t, ENOMEM)
    /\ ReleaseAll(t) /\ ReleaseGuard(t)
    /\ UNCHANGED <<num_pending, listeners, threadVars, args, taken, call, condition>>

RegisteredWith(t) ==
    [e \in Events |->
        IF e \in EventSet(t)
        THEN Append(listeners[e], Listener(t, CHOOSE i \in 1..Len(args[t].events) : args[t].events[i] = e))
        ELSE listeners[e]]

Block(t, unchecked, deadline) ==
    /\ HoldsAll(t, "lock") /\ (unchecked \/ PendingIndices(t) = {})
    /\ listeners' = RegisteredWith(t)
    /\ wait_interrupt' = [wait_interrupt EXCEPT ![t] = Interruptible(args[t].mode)]
    /\ state' = [state EXCEPT ![t] = Dequeued(t, Interruptible(args[t].mode))]
    /\ sleepers' = IF deadline THEN sleepers \cup {t} ELSE sleepers
    /\ ReleaseAll(t) /\ ReleaseGuard(t)
    /\ pc' = [pc EXCEPT ![t] = "yield"]
    /\ UNCHANGED <<num_pending, pending_work, kicks, wakeup_index, args, idx, triggered, result, taken, call, condition>>

\* Registers with every event, blocks, and only then releases the locks.
Listen(t) == Block(t, FALSE, HasDeadline(args[t].mode))

Yield(t) ==
    /\ pc[t] = "yield" /\ state[t] # "blocked"
    /\ state' = [state EXCEPT ![t] = "running"]
    /\ pc' = [pc EXCEPT ![t] = IF HasDeadline(args[t].mode) THEN "cancel" ELSE "unlisten"]
    /\ idx' = [idx EXCEPT ![t] = 1]
    /\ UNCHANGED <<eventVars, wait_interrupt, pending_work, kicks, wakeup_index, sleepers, args, triggered, result, taken, call, guardVars>>

\* sched_yield returns once the thread is not blocked.

SchedWakeCancel(t) ==
    /\ pc[t] = "cancel"
    /\ sleepers' = sleepers \ {t}
    /\ pc' = [pc EXCEPT ![t] = "unlisten"]
    /\ UNCHANGED <<eventVars, state, wait_interrupt, pending_work, kicks, wakeup_index, args, idx, triggered, result, taken, call, guardVars>>

\* The lock is taken with interrupts enabled, unlike everywhere else.
UnlistenLock(t) ==
    /\ pc[t] = "unlisten" /\ OnHart(t)
    /\ LET e == args[t].events[idx[t]] IN
         /\ lock[e] = NoOne
         /\ lock' = [lock EXCEPT ![e] = t]
    /\ pc' = [pc EXCEPT ![t] = "unlistening"]
    /\ UNCHANGED <<num_pending, listeners, threadVars, args, idx, triggered, result, taken, call, guardVars>>

\* The last listener takes the place of the one that leaves.
Removed(seq, t) ==
    LET j == CHOOSE k \in 1..Len(seq) : seq[k].thread = t
        n == Len(seq)
    IN  SubSeq([seq EXCEPT ![j] = seq[n]], 1, n - 1)

Unregister(t, before) ==
    /\ pc[t] = "unlistening" /\ OnHart(t)
    /\ LET e == args[t].events[idx[t]] IN
         /\ listeners' = [listeners EXCEPT ![e] = IF Listens(t, e) THEN Removed(@, t) ELSE @]
         /\ triggered' = [triggered EXCEPT ![t] = before \/ ~Listens(t, e)]
         /\ lock' = [lock EXCEPT ![e] = NoOne]
    /\ IF idx[t] < Len(args[t].events)
       THEN pc' = [pc EXCEPT ![t] = "unlisten"] /\ idx' = [idx EXCEPT ![t] = @ + 1]
       ELSE pc' = [pc EXCEPT ![t] = "return"] /\ UNCHANGED idx
    /\ UNCHANGED <<num_pending, threadVars, args, result, taken, call, guardVars>>

\* Slip: only the last event decides.
UnlistenForgets(t) == Unregister(t, FALSE)

Unlisten(t) == Unregister(t, triggered[t])

AwaitReturn(t) ==
    /\ pc[t] = "return"
    /\ \/ triggered[t] /\ Finish(t, wakeup_index[t])
       \/ /\ ~triggered[t] /\ Interruptible(args[t].mode) /\ pending_work[t]
          /\ Finish(t, ERESTART)
       \/ /\ ~triggered[t] /\ ~(Interruptible(args[t].mode) /\ pending_work[t])
          /\ Finish(t, ETIMEDOUT)
    /\ UNCHANGED <<eventVars, threadVars, args, taken, call, guardVars>>

(***************************************************************************)
(* trigger, event_trigger, event_reset                                     *)
(***************************************************************************)

\* event_trigger lingers up to MaxPending or not at all; a deferred trigger
\* keeps at most one wakeup.
TriggerCall(c, e, max, on) ==
    /\ call[c].at = "idle"
    /\ on # NoOne => on \in Interrupted /\ pc[on] \in {"unlisten", "unlistening"} /\ OnHart(on)
    /\ call' = [call EXCEPT ![c] = [at |-> "lock", event |-> e, max |-> max, i |-> 1, on |-> on]]
    /\ UNCHANGED <<eventVars, threadVars, awaitVars, guardVars>>

\* A user of event_await_unlock makes its condition true and triggers, both
\* under the lock.
MakeCondition(c) ==
    /\ call[c].at = "idle" /\ guard = NoOne /\ \E mode \in Modes : WithLock(mode)
    /\ guard' = c
    /\ condition' = TRUE
    /\ call' = [call EXCEPT ![c] = [at |-> "lock", event |-> CondEvent, max |-> 0, i |-> 1, on |-> NoOne]]
    /\ UNCHANGED <<eventVars, threadVars, awaitVars>>

TriggerReturn(c) ==
    /\ call' = [call EXCEPT ![c] = NoCall]
    /\ ReleaseGuard(c)

KeepPending(c, max) ==
    LET e == call[c].event IN
    /\ call[c].at = "lock" /\ lock[e] = NoOne /\ listeners[e] = <<>>
    /\ num_pending' = [num_pending EXCEPT ![e] = IF @ < max THEN @ + 1 ELSE @]
    /\ TriggerReturn(c)
    /\ UNCHANGED <<lock, listeners, threadVars, awaitVars, condition>>

\* With nobody listening the wakeup is kept, up to max, or dropped.
TriggerPending(c) == KeepPending(c, call[c].max)

TriggerLock(c) ==
    LET e == call[c].event IN
    /\ call[c].at = "lock" /\ lock[e] = NoOne /\ listeners[e] # <<>>
    /\ lock' = [lock EXCEPT ![e] = c]
    /\ call' = [call EXCEPT ![c].at = "wake"]
    /\ UNCHANGED <<num_pending, listeners, threadVars, awaitVars, guardVars>>

TriggerWake(c) ==
    LET e == call[c].event
        dest == listeners[e][call[c].i]
    IN
    /\ call[c].at = "wake" /\ call[c].i <= Len(listeners[e])
    /\ wakeup_index' = [wakeup_index EXCEPT ![dest.thread] = dest.wakeup_index]
    /\ state' = [state EXCEPT ![dest.thread] = Woken(dest.thread)]
    /\ taken' = [taken EXCEPT ![dest.thread] = @ \cup {e}]
    /\ call' = [call EXCEPT ![c].i = @ + 1]
    /\ UNCHANGED <<eventVars, wait_interrupt, pending_work, kicks, sleepers, pc, args, idx, triggered, result, guardVars>>

\* One turn of the loop: the listener learns its index and is woken.

TriggerDone(c) ==
    LET e == call[c].event IN
    /\ call[c].at = "wake" /\ call[c].i > Len(listeners[call[c].event])
    /\ listeners' = [listeners EXCEPT ![e] = <<>>]
    /\ lock' = [lock EXCEPT ![e] = NoOne]
    /\ TriggerReturn(c)
    /\ UNCHANGED <<num_pending, threadVars, awaitVars, condition>>

EventReset(e) ==
    /\ lock[e] = NoOne /\ num_pending[e] > 0
    /\ num_pending' = [num_pending EXCEPT ![e] = 0]
    /\ UNCHANGED <<lock, listeners, threadVars, awaitVars, call, guardVars>>

(***************************************************************************)
(* Specification                                                           *)
(***************************************************************************)

AwaitStep(t) ==
    \/ TryLock(t) \/ TryTake(t) \/ ListenLock(t) \/ RetakePending(t)
    \/ Listen(t) \/ Yield(t) \/ SchedWakeCancel(t)
    \/ UnlistenLock(t) \/ Unlisten(t) \/ AwaitReturn(t)

TriggerStep(c) ==
    TriggerPending(c) \/ TriggerLock(c) \/ TriggerWake(c) \/ TriggerDone(c)

Environment(t) ==
    \/ \E w \in Waits, mode \in Modes : Await(t, w, mode)
    \/ \E mode \in Modes : CheckCondition(t, mode)
    \/ PostWork(t) \/ HandleWork(t)

Next ==
    \/ \E t \in Threads : \/ AwaitStep(t) \/ ListenNoMemory(t)
                          \/ WakeExpired(t) \/ SchedKick(t) \/ Environment(t)
    \/ \E c \in Callers : \/ TriggerStep(c) \/ MakeCondition(c)
                          \/ \E e \in Events, max \in {0, 1, MaxPending}, on \in Threads \cup {NoOne} :
                                 TriggerCall(c, e, max, on)
    \/ \E e \in Events : EventReset(e)

Spec == Init /\ [][Next]_vars

\* Every hart keeps executing, so a thread that can go on and a trigger that was
\* called go on; a test-and-set spinlock that keeps becoming free is won in the
\* end (strong fairness).  The tick keeps coming, so a deadline expires, and who
\* posts work calls sched_kick.
Fairness ==
    /\ \A t \in Threads : SF_vars(AwaitStep(t)) /\ WF_vars(WakeExpired(t)) /\ WF_vars(SchedKick(t))
    /\ \A c \in Callers : SF_vars(TriggerStep(c))

FairSpec == Spec /\ Fairness

(***************************************************************************)
(* Properties                                                              *)
(***************************************************************************)

Holders == Threads \cup Callers \cup {NoOne}
CallType == [at : {"idle", "lock", "wake"}, event : Events, max : {0, 1, MaxPending},
             i : 1..Cardinality(Threads) + 1, on : Threads \cup {NoOne}]
Places == {"idle", "try", "lock", "yield", "cancel", "unlisten", "unlistening", "return"}

\* Every variable has its type: num_pending saturates at its bound, every list of
\* listeners holds threads, every thread is at a place of await_until.
TypeOK ==
    /\ lock \in [Events -> Holders]
    /\ num_pending \in [Events -> 0..MaxPending]
    /\ \A e \in Events : listeners[e] \in Seq([thread : Threads, wakeup_index : Nat])
    /\ state \in [Threads -> {"running", "runnable", "blocked"}]
    /\ wait_interrupt \in [Threads -> BOOLEAN]
    /\ pending_work \in [Threads -> BOOLEAN]
    /\ kicks \subseteq Threads
    /\ wakeup_index \in [Threads -> Nat]
    /\ sleepers \subseteq Threads
    /\ pc \in [Threads -> Places]
    /\ \A t \in Threads : args[t].mode \in Modes \cup {"poll"} /\ args[t].events \in Waits \cup {<<>>, <<CondEvent>>}
    /\ idx \in [Threads -> Nat]
    /\ triggered \in [Threads -> BOOLEAN]
    /\ \A t \in Threads : result[t] \in Nat \cup {EAGAIN, ENOMEM, ERESTART, ETIMEDOUT}
    /\ call \in [Callers -> CallType]
    /\ guard \in Holders
    /\ condition \in BOOLEAN
    /\ taken \in [Threads -> SUBSET Events]

\* A wakeup is never kept for later while somebody waits for it: await_until looks
\* for pending wakeups again under the locks it registers under, and trigger only
\* adds one when it finds no listener.
NoPendingWhileListening ==
    \A e \in Events : num_pending[e] = 0 \/ listeners[e] = <<>>

\* A blocked thread can be found by every trigger it waits for: it listens to each
\* of its events from before sched_dequeue until something wakes it.
BlockedThreadListens ==
    \A t \in Threads : state[t] = "blocked" => \A e \in EventSet(t) : Listens(t, e)

InWait(t) == pc[t] \in {"yield", "cancel", "unlisten", "unlistening"}

\* trigger writes to the thread of every listener it finds; each is a thread still
\* inside await_until (so alive), registered once, with the index of this event.
ListenersAreWaiting ==
    \A e \in Events : \A j \in 1..Len(listeners[e]) :
        LET l == listeners[e][j] IN
        /\ InWait(l.thread)
        /\ l.wakeup_index \in 1..Len(args[l.thread].events)
        /\ args[l.thread].events[l.wakeup_index] = e
        /\ \A k \in 1..Len(listeners[e]) : listeners[e][k].thread = l.thread => k = j

\* The result tells whether a trigger took the thread: a trigger that counted it as
\* woken is never reported as a timeout or an interruption, even when the deadline,
\* a signal or a second trigger races it, and the index is that of such a trigger.
ResultMatchesTrigger ==
    \A t \in Threads : pc[t] = "idle" =>
        /\ result[t] < 0 => taken[t] = {}
        /\ taken[t] # {} => /\ result[t] \in 1..Len(args[t].events)
                            /\ args[t].events[result[t]] \in taken[t]

\* A deadline never outlives its wait: once sched_wake_cancel has returned the tick
\* cannot wake the thread out of a later wait.
SleepersAreWaiting ==
    \A t \in sleepers : HasDeadline(args[t].mode) /\ pc[t] \in {"yield", "cancel"}

\* event_await_unlock never misses a trigger: nobody sleeps on a condition that is
\* true and whose lock is free.
ConditionNotMissed ==
    condition /\ guard = NoOne =>
        \A t \in Threads : ~(state[t] = "blocked" /\ WithLock(args[t].mode))

\* A wait that a trigger has ended returns.
TriggeredAwaitReturns ==
    \A t \in Threads : (taken[t] # {} /\ InWait(t)) ~> pc[t] = "idle"

\* A wait with a deadline returns, whether or not anything triggers its events.
DeadlineAwaitReturns ==
    \A t \in Threads : (pc[t] = "yield" /\ HasDeadline(args[t].mode)) ~> pc[t] = "idle"

\* An interruptible wait returns once work is pending, also when the work was
\* posted just before the thread blocked and no kick follows.
InterruptedAwaitReturns ==
    \A t \in Threads :
        (pc[t] = "yield" /\ Interruptible(args[t].mode) /\ pending_work[t]) ~> pc[t] = "idle"

\* A wait without a timeout never times out: await_until reports -ETIMEDOUT for every
\* wakeup that is neither a trigger nor pending work, and none reaches such a wait (a
\* deadline of an earlier wait, a kick in the middle of an uninterruptible one).
UntimedAwaitNeverTimesOut ==
    \A t \in Threads : pc[t] = "idle" /\ ~HasDeadline(args[t].mode) => result[t] # ETIMEDOUT

\* spinlock.h: a waiter on the same hart never spins out the holder's timeslice.
\* No interrupt handler waits for a lock that the thread it interrupted holds.
NoWaitOnOwnHart ==
    \A c \in Callers : call[c].at = "lock" /\ call[c].on # NoOne => lock[call[c].event] # call[c].on
==============================================================================
