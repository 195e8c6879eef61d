-------------------------------- MODULE Mutex --------------------------------
(* kernel/proc/mutex.c: a sleeping lock over a spinlock and the event        *)
(* `released`.                                                               *)
(*                                                                           *)
(* What is done under mtx->lock is one step.  The event is the one of module *)
(* Event at a coarser grain: a look for a pending wakeup, a second look that *)
(* either takes one or registers, and a trigger that takes every listener    *)
(* are one step each, being done under the event's lock.                     *)
EXTENDS Integers, FiniteSets

CONSTANTS Threads,
          NoThread,     \* the null owner
          MaxPending    \* stands for UINT32_MAX, where num_pending saturates

ASSUME ThreadsAssumption == IsFiniteSet(Threads) /\ NoThread \notin Threads
ASSUME PendingAssumption == MaxPending \in Nat \ {0}

VARIABLES owner,        \* mtx->owner
          num_waiters,  \* mtx->num_waiters
          num_pending,  \* mtx->released.num_pending
          listening,    \* the threads in mtx->released.listeners
          pc            \* [Threads -> where the thread is]

vars == <<owner, num_waiters, num_pending, listening, pc>>

\* "await", "listen", "blocked", "woken": inside event_await_blocking and back.
Waiting == {t \in Threads : pc[t] \in {"await", "listen", "blocked", "woken"}}

Init ==
    /\ owner = NoThread
    /\ num_waiters = 0
    /\ num_pending = 0
    /\ listening = {}
    /\ pc = [t \in Threads |-> "out"]

Goto(t, place) == pc' = [pc EXCEPT ![t] = place]

(***************************************************************************)
(* mutex_try_acquire, mutex_acquire                                        *)
(***************************************************************************)

\* Either finds the mutex free; mutex_try_acquire that does not changes nothing.
Acquire(t) ==
    /\ pc[t] = "out" /\ owner = NoThread
    /\ owner' = t
    /\ Goto(t, "in")
    /\ UNCHANGED <<num_waiters, num_pending, listening>>

\* A caller with interrupts enabled counts itself and waits for the event.
AcquireWait(t) ==
    /\ pc[t] = "out" /\ owner # NoThread
    /\ num_waiters' = num_waiters + 1
    /\ Goto(t, "await")
    /\ UNCHANGED <<owner, num_pending, listening>>

\* One with interrupts disabled spins.
AcquireSpin(t) ==
    /\ pc[t] = "out" /\ owner # NoThread
    /\ Goto(t, "spin")
    /\ UNCHANGED <<owner, num_waiters, num_pending, listening>>

SpinDone(t) ==
    /\ pc[t] = "spin" /\ owner = NoThread
    /\ owner' = t
    /\ Goto(t, "in")
    /\ UNCHANGED <<num_waiters, num_pending, listening>>

\* event_await_blocking looks for a pending wakeup twice before it registers.
AwaitTake(t) ==
    /\ pc[t] \in {"await", "listen"} /\ num_pending > 0
    /\ num_pending' = num_pending - 1
    /\ Goto(t, "woken")
    /\ UNCHANGED <<owner, num_waiters, listening>>

AwaitMiss(t) ==
    /\ pc[t] = "await" /\ num_pending = 0
    /\ Goto(t, "listen")
    /\ UNCHANGED <<owner, num_waiters, num_pending, listening>>

Listen(t) ==
    /\ pc[t] = "listen" /\ num_pending = 0
    /\ listening' = listening \cup {t}
    /\ Goto(t, "blocked")
    /\ UNCHANGED <<owner, num_waiters, num_pending>>

\* The result is ignored: no memory to listen ends the wait early.
AwaitFails(t) ==
    /\ pc[t] = "listen" /\ num_pending = 0
    /\ Goto(t, "woken")
    /\ UNCHANGED <<owner, num_waiters, num_pending, listening>>

\* sched.h lets a wakeup be spurious, so mutex_acquire may not rely on a trigger.
SpuriousWakeup(t) ==
    /\ pc[t] = "blocked"
    /\ listening' = listening \ {t}
    /\ Goto(t, "woken")
    /\ UNCHANGED <<owner, num_waiters, num_pending>>

Recheck(t, free, decrement) ==
    /\ pc[t] = "woken" /\ free
    /\ num_waiters' = num_waiters - decrement
    /\ owner' = t
    /\ Goto(t, "in")
    /\ UNCHANGED <<num_pending, listening>>

\* Slips: the owner is not looked at again; the waiter stays counted; it stands
\* back for other waiters.
RecheckTakeBlindly(t) == Recheck(t, TRUE, 1)
RecheckTakeCounted(t) == Recheck(t, owner = NoThread, 0)
RecheckTakeLast(t) == Recheck(t, owner = NoThread /\ num_waiters = 1, 1)

\* Back under mtx->lock: uncounted, and either the owner or counted again.
RecheckTake(t) == Recheck(t, owner = NoThread, 1)

RecheckWait(t) ==
    /\ pc[t] = "woken" /\ owner # NoThread
    /\ Goto(t, "await")
    /\ UNCHANGED <<owner, num_waiters, num_pending, listening>>

(***************************************************************************)
(* mutex_release                                                           *)
(***************************************************************************)

GiveUp(t, contended) ==
    /\ pc[t] = "in" /\ owner = t
    /\ owner' = NoThread
    /\ Goto(t, IF contended THEN "trigger" ELSE "out")
    /\ UNCHANGED <<num_waiters, num_pending, listening>>

\* Slip: only threads that already listen count as contention.
ReleaseToListeners(t) == GiveUp(t, listening # {})

\* Slip: the mutex is handed over to a thread that was woken before.
ReleaseHandsOver(t) ==
    \/ GiveUp(t, num_waiters > 0)
    \/ \E u \in Threads :
           /\ pc[t] = "in" /\ owner = t /\ pc[u] = "woken"
           /\ owner' = u
           /\ num_waiters' = num_waiters - 1
           /\ pc' = [pc EXCEPT ![t] = "out", ![u] = "in"]
           /\ UNCHANGED <<num_pending, listening>>

\* The owner goes before the trigger, so another thread may be in by then.
Release(t) == GiveUp(t, num_waiters > 0)

TriggerPending(t) ==
    /\ pc[t] = "trigger" /\ listening = {}
    /\ num_pending' = IF num_pending < MaxPending THEN num_pending + 1 ELSE num_pending
    /\ Goto(t, "out")
    /\ UNCHANGED <<owner, num_waiters, listening>>

\* event_trigger(&mtx->released, true) with nobody listening.

\* With listeners: every one of them is taken.
TriggerWake(t) ==
    /\ pc[t] = "trigger" /\ listening # {}
    /\ listening' = {}
    /\ pc' = [u \in Threads |-> IF u = t THEN "out" ELSE IF u \in listening THEN "woken" ELSE pc[u]]
    /\ UNCHANGED <<owner, num_waiters, num_pending>>

AcquireStep(t) ==
    \/ SpinDone(t) \/ AwaitTake(t) \/ AwaitMiss(t) \/ Listen(t)
    \/ RecheckTake(t) \/ RecheckWait(t)

ReleaseStep(t) == TriggerPending(t) \/ TriggerWake(t)

Next ==
    \E t \in Threads :
        \/ Acquire(t) \/ AcquireWait(t) \/ AcquireSpin(t)
        \/ AcquireStep(t) \/ AwaitFails(t) \/ SpuriousWakeup(t)
        \/ Release(t) \/ ReleaseStep(t)

Spec == Init /\ [][Next]_vars

\* A thread inside mutex_acquire or mutex_release keeps running; nothing makes
\* anybody call them, fail an allocation or wake anybody spuriously.  An owner
\* releases in the end.
Fairness ==
    \A t \in Threads : WF_vars(AcquireStep(t)) /\ WF_vars(ReleaseStep(t)) /\ WF_vars(Release(t))

FairSpec == Spec /\ Fairness

(***************************************************************************)
(* Properties                                                              *)
(***************************************************************************)

\* Every variable has its type; in particular num_waiters never wraps below zero.
TypeOK ==
    /\ owner \in Threads \cup {NoThread}
    /\ num_waiters \in Nat
    /\ num_pending \in 0..MaxPending
    /\ listening \subseteq Threads
    /\ pc \in [Threads -> {"out", "in", "spin", "await", "listen", "blocked", "woken", "trigger"}]

\* No two threads are between mutex_acquire and mutex_release, however the wakeups
\* race: a woken thread looks at the owner again.
MutualExclusion == \A t \in Threads : pc[t] = "in" <=> owner = t

\* num_waiters counts exactly the threads between the two updates of it in
\* mutex_acquire, so mutex_release sees contention whenever there is some and
\* mutex_deinit's assertion holds once they are gone.
WaitersCounted == num_waiters = Cardinality(Waiting)

\* mutex_acquire and mutex_release keep the owner and the count of waiters in step with
\* what the threads do.
Sound == TypeOK /\ MutualExclusion /\ WaitersCounted

\* The listeners of `released` are the threads blocked in it.
ListeningBlocked == \A t \in Threads : t \in listening <=> pc[t] = "blocked"

\* No wakeup is kept while somebody listens for it.
NoPendingWhileListening == num_pending = 0 \/ listening = {}

Coming == num_pending > 0 \/ \E u \in Threads : pc[u] \in {"trigger", "woken"}

\* A free mutex with waiters has a wakeup on its way: pending, about to be
\* triggered, or already with a thread that is going to look at the owner.
WakeupOnItsWay == owner = NoThread /\ Waiting # {} => Coming

\* No thread sleeps on a free mutex unless somebody is about to wake it or to take
\* the mutex, and so to release it again: mutex_release reads num_waiters under the
\* lock that waiters count themselves under.
NoLostWakeup ==
    owner = NoThread /\ (\E t \in Threads : pc[t] = "blocked") =>
        \E u \in Threads : pc[u] \in {"trigger", "woken"}

\* A free mutex that somebody waits for is taken: mutex_acquire never leaves every
\* waiter asleep.
FreeMutexIsTaken == (owner = NoThread /\ Waiting # {}) ~> owner # NoThread

Lock == INSTANCE LockSpec WITH
            holder <- owner,
            wanting <- {t \in Threads : pc[t] \in {"spin", "await", "listen", "blocked", "woken"}}

\* The mutex is a sleeping lock: LockSpec with the owner as its holder.
ImplementsLock == Lock!Spec
==============================================================================
