--------------------------- MODULE SchedStepProofs ---------------------------
(* The inductive invariant of Sched, and that every step keeps each of its    *)
(* parts, for any sets of threads and harts.                                  *)
EXTENDS Sched, TLAPS

\* The leaves are small; those that go to Zenon say so.
USE SMTT(30)

(* The invariant.  A hart that uses a thread holds its hart_lock; so         *)
(* sched_enter may release it only if the thread it leaves is not also the   *)
(* one it enters, which follows from where the handler's two locals are set. *)
UserHoldsLock == \A h \in Harts, t \in Threads : Uses(h, t) => hart_lock[t] = h
UnlockPlace == \A h \in Harts : unlock[h] # None => pc[h] \in {"steal", "switch", "enter"}
NextPlace == \A h \in Harts : next[h] # None => pc[h] = "switch" /\ next[h] # unlock[h]
EnterOther == \A h \in Harts : pc[h] = "enter" /\ unlock[h] # None => curr[h] # unlock[h]

WakerSet == \A c \in Contexts : pc[c] \in {"push", "kick", "scan"} => who[c] \in Threads /\ target[c] \in Harts

Inv ==
    /\ TypeOK
    /\ WakerSet
    /\ UserHoldsLock
    /\ UnlockPlace
    /\ NextPlace
    /\ EnterOther

(* Where a thread is.  The second part of the invariant relates a thread's state to the *)
(* harts, the queues and the contexts that are waking it.                               *)

\* What is on a hart's queue.
On(q) == {q[i] : i \in 1..Len(q)}
NoDuplicates(q) == \A i, j \in 1..Len(q) : q[i] = q[j] => i = j

HartPlaces == {"none", "work", "push", "kick", "scan", "lock", "pick", "steal", "switch", "enter"}
ThreadPlaces == {"run", "push", "kick", "scan", "blocking", "resched", "yielding", "dead"}

\* A thread that ended stays where it ended.
InPlaces ==
    /\ \A h \in Harts : pc[h] \in HartPlaces
    /\ \A t \in Threads : pc[t] \in ThreadPlaces /\ (pc[t] = "dead" <=> state[t] \in {"dead", "free"})

\* Who holds a sched_lock: a waker, until it has queued the blocked thread, or the handler for the
\* thread it may leave.
LockHasHolder ==
    \A t \in Threads : sched_lock[t] # None =>
        \/ pc[sched_lock[t]] = "push" /\ who[sched_lock[t]] = t
        \/ sched_lock[t] \in Harts /\ pc[sched_lock[t]] = "pick" /\ curr[sched_lock[t]] = t
PushHolds == \A c \in Contexts : pc[c] = "push" => sched_lock[who[c]] = c /\ state[who[c]] = "blocked"
PickHolds == \A h \in Harts : pc[h] = "pick" /\ curr[h] # None => sched_lock[curr[h]] = h
LockHasCurr == \A h \in Harts : pc[h] = "lock" => curr[h] # None

\* The queues hold the runnable threads, each once; and one that a hart still holds, or will when it
\* is woken, is on the queue of that hart.
Once ==
    /\ \A h \in Harts : NoDuplicates(queue[h])
    /\ \A g, h \in Harts, t \in Threads : t \in On(queue[g]) /\ t \in On(queue[h]) => g = h
    /\ \A t \in Threads : state[t] = "runnable" <=> \E h \in Harts : t \in On(queue[h])
HeldQueued == \A t \in Threads, h \in Harts : state[t] = "runnable" /\ hart_lock[t] = h => t \in On(queue[h])
PushHome == \A c \in Contexts : pc[c] = "push" => hart_lock[who[c]] \in {None, target[c]}

\* The hart that holds a thread is one it may run on, and the last it ran on once it has.
Held ==
    \A t \in Threads, h \in Harts : hart_lock[t] = h =>
        Bound[t] \in {None, h} /\ (last_hart[t] = h \/ next[h] = t)

\* The state of a thread that a hart uses: about to run, left, or current.
NextRuns == \A h \in Harts : next[h] # None => state[next[h]] = "running"
LeftStopped == \A h \in Harts : unlock[h] # None => state[unlock[h]] \in {"blocked", "runnable"}
CurrRuns ==
    \A h \in Harts : curr[h] # None /\ pc[h] \notin {"steal", "switch"} /\ pc[curr[h]] \in {"run", "push", "kick", "scan", "resched"} =>
        state[curr[h]] = "running"
YieldedRuns ==
    \A h \in Harts : /\ curr[h] # None /\ pc[h] \notin {"lock", "pick", "steal", "switch"}
                     /\ pc[curr[h]] = "yielding" /\ ~yield_await[curr[h]]
                     => state[curr[h]] = "running"

\* A dead thread is with the hart it died on, for the next handler there to free.
DeadKept ==
    \A h \in Harts : dead_thread[h] # None =>
        /\ state[dead_thread[h]] = "dead" /\ hart_lock[dead_thread[h]] = h
        /\ pc[h] \notin {"lock", "pick"}
        /\ curr[h] = dead_thread[h] => pc[h] \in {"steal", "switch"}
FreeUnused == \A t \in Threads, h \in Harts : state[t] = "free" => ~Uses(h, t) /\ dead_thread[h] # t

\* A thread with preemption disabled runs, and no handler gets past its first step on top of it.
Unpreempted ==
    \A t \in Threads : preempt_count[t] # 0 =>
        /\ state[t] = "running"
        /\ hart_lock[t] \in Harts /\ curr[hart_lock[t]] = t
        /\ pc[hart_lock[t]] \notin {"lock", "pick", "steal", "switch", "enter"}

\* The flag that wakers read.
ActiveHasCurr == \A h \in Harts : active[h] <=> curr[h] # None

\* What rq_take_nolock finds: a thread of the queue it may have.
TakesQueued ==
    \A v, h \in Harts : Takeable(v, h) # {} =>
        FirstTakeable(v, h) \in Threads \cap On(queue[v]) /\ CanTake(FirstTakeable(v, h), h)

Whole ==
    /\ Inv
    /\ TakesQueued
    /\ InPlaces
    /\ LockHasHolder /\ PushHolds /\ PickHolds /\ LockHasCurr
    /\ Once /\ HeldQueued /\ PushHome
    /\ Held
    /\ NextRuns /\ LeftStopped /\ CurrRuns /\ YieldedRuns
    /\ DeadKept /\ FreeUnused
    /\ Unpreempted
    /\ ActiveHasCurr /\ HaltedHartIsKicked

\* What a hart takes from its own queue.
LEMMA OwnTaken ==
    ASSUME TakesQueued, NEW h \in Harts
    PROVE  /\ Own(h) \in Threads \cup {None}
           /\ Own(h) # None => Own(h) \in On(queue[h]) /\ CanTake(Own(h), h)
  BY SetsAssumption, Zenon DEF Own, TakesQueued

\* A thread that nobody has, and that this hart may run.
Free(t, v, h) == /\ t \in Threads /\ t \in On(queue[v]) /\ state[t] = "runnable"
                 /\ hart_lock[t] = None /\ sched_lock[t] = None /\ Bound[t] \in {None, h}

\* What is taken was free.
LEMMA TakenWas ==
    ASSUME Whole, NEW v \in Harts, NEW h \in Harts
    PROVE  /\ Takeable(v, h) # {} => Free(FirstTakeable(v, h), v, h)
           /\ Own(h) # None => Free(Own(h), h, h)
  BY OwnTaken, SetsAssumption, Zenon DEF Whole, Inv, Once, CanTake, Free, TakesQueued

\* A step that leaves every thread with the harts it is with.
Quiet == UNCHANGED <<state, hart_lock, last_hart, curr, active, dead_thread, queue, next, unlock>>

\* The steps that do not.
LEMMA NotQuiet ==
    ASSUME [Next]_vars, ~Quiet
    PROVE  \E h \in Harts :
               \/ IrqStart(h) \/ IrqKeep(h) \/ IrqLeave(h) \/ (\E v \in Harts : StealFrom(h, v)) \/ IrqSwitch(h) \/ SchedEnter(h)
               \/ \E t \in Threads : SchedTerminate(t, h) \/ \E i \in BOOLEAN : SchedDequeue(t, h, i)
               \/ \E c \in Contexts : WakePush(c, h)
<1>1. ASSUME UNCHANGED vars PROVE Quiet
  BY <1>1, Zenon DEF Quiet, vars, threadVars, hartVars, localVars
<1>2. ASSUME NEW h \in Harts, Irq(h) \/ IdleCheck(h) \/ IdleHalt(h) PROVE Quiet
  BY <1>2, Zenon DEF Quiet, Irq, IdleCheck, IdleHalt, Halt, threadVars, localVars
<1>3. ASSUME NEW h \in Harts, IrqLock(h) \/ StealNothing(h) PROVE Quiet
  BY <1>3, Zenon DEF Quiet, IrqLock, StealNothing, threadVars, hartVars
<1>4. ASSUME NEW h \in Harts, NEW t \in Threads, SchedYield(t, h) \/ YieldReturn(t, h) \/ PreemptDisable(t, h) \/ PreemptEnable(t, h) PROVE Quiet
  BY <1>4, Zenon DEF Quiet, SchedYield, YieldReturn, PreemptDisable, PreemptEnable, threadVars, hartVars, localVars
<1>5. ASSUME NEW h \in Harts, NEW c \in Contexts, KickTarget(c, h) \/ KickBusy(c, h) \/ KickScan(c, h) PROVE Quiet
  BY <1>5, Zenon DEF Quiet, KickTarget, KickBusy, KickScan, threadVars, hartVars
<1>6. ASSUME NEW h \in Harts, NEW c \in Contexts, NEW t \in Threads, SchedEnqueue(c, t, h) \/ SchedKickRunning(c, t, h) PROVE Quiet
  BY <1>6, Zenon DEF Quiet, SchedEnqueue, WakeChoose, SchedKickRunning, threadVars, hartVars, localVars
<1> QED BY <1>1, <1>2, <1>3, <1>4, <1>5, <1>6, Zenon DEF Next, Handler, ThreadStep, Waking

\* A step that only sends or takes an interrupt, or moves the idle thread.
Still == UNCHANGED <<threadVars, curr, active, dead_thread, queue, localVars>>

\* The steps that do more.
LEMMA NotStill ==
    ASSUME [Next]_vars, ~Still
    PROVE  \E h \in Harts :
               \/ Irq(h) \/ IrqStart(h) \/ IrqLock(h) \/ IrqKeep(h) \/ IrqLeave(h)
               \/ (\E v \in Harts : StealFrom(h, v)) \/ StealNothing(h) \/ IrqSwitch(h) \/ SchedEnter(h)
               \/ \E t \in Threads : ThreadStep(t, h)
               \/ \E c \in Contexts : Waking(c, h) \/ \E t \in Threads : SchedEnqueue(c, t, h)
<1>1. ASSUME UNCHANGED vars PROVE Still
  BY <1>1, Zenon DEF Still, vars, threadVars, hartVars, localVars
<1>2. ASSUME NEW h \in Harts, IdleCheck(h) \/ IdleHalt(h) PROVE Still
  BY <1>2, Zenon DEF Still, IdleCheck, IdleHalt, Halt, threadVars, localVars
<1>3. ASSUME NEW h \in Harts, NEW c \in Contexts, NEW t \in Threads, SchedKickRunning(c, t, h) PROVE Still
  BY <1>3, Zenon DEF Still, SchedKickRunning, threadVars, localVars
<1> QED BY <1>1, <1>2, <1>3, Zenon DEF Next, Handler

\* The last steps of a waker.
Kick(c, h) == KickTarget(c, h) \/ KickBusy(c, h) \/ KickScan(c, h)

\* They move the waker on and forget whom and where, and nothing else.
LEMMA KickMoves ==
    ASSUME NEW h \in Harts, NEW c \in Contexts, Kick(c, h)
    PROVE  /\ pc[c] \in {"kick", "scan"} /\ At(c, h)
           /\ \E p \in {"scan", Back(c)} : Goto(c, p)
           /\ UNCHANGED who \/ who' = [who EXCEPT ![c] = None]
           /\ UNCHANGED target \/ target' = [target EXCEPT ![c] = None]
           /\ UNCHANGED <<threadVars, curr, active, dead_thread, queue, idle, next, unlock>>
<1>1. CASE KickTarget(c, h)
  BY <1>1, Zenon DEF KickTarget
<1>2. CASE KickBusy(c, h)
  BY <1>2, Zenon DEF KickBusy, hartVars
<1>3. CASE KickScan(c, h)
  BY <1>3, Zenon DEF KickScan
<1> QED BY <1>1, <1>2, <1>3, Zenon DEF Kick

\* Contexts stay in their places, and a thread that ended in the last one.
LEMMA PlacesStep == ASSUME Whole, [Next]_vars PROVE InPlaces'
<1>1. /\ pc \in [Contexts -> HartPlaces \cup ThreadPlaces]
      /\ state \in [Threads -> {"blocked", "runnable", "running", "dead", "free"}]
  BY Zenon DEF Whole, Inv, TypeOK, HartPlaces, ThreadPlaces
<1>2. InPlaces /\ PushHolds /\ DeadKept
  BY Zenon DEF Whole, Inv
<1> USE SetsAssumption, <1>1, <1>2 DEF InPlaces, Contexts, HartPlaces, ThreadPlaces
<1>3. CASE Still
  BY <1>3, Zenon DEF Still, threadVars, localVars
<1>4. ASSUME NEW h \in Harts, Irq(h) PROVE InPlaces'
  BY <1>4, Zenon DEF Irq, InterruptsOn, Goto, threadVars, hartVars, localVars
<1>5. ASSUME NEW h \in Harts, IrqStart(h) PROVE InPlaces'
  BY <1>5 DEF IrqStart, Goto, DeadKept
<1>6. ASSUME NEW h \in Harts, IrqLock(h) PROVE InPlaces'
  BY <1>6, Zenon DEF IrqLock, Goto, threadVars, hartVars, localVars
<1>7. ASSUME NEW h \in Harts, IrqKeep(h) PROVE InPlaces'
  BY <1>7 DEF IrqKeep, Keep, CurrIs, Goto
<1>8. ASSUME NEW h \in Harts, IrqLeave(h) PROVE InPlaces'
  BY <1>8, TakenWas DEF IrqLeave, Leave, CurrIs, Goto, Free
<1>9. ASSUME NEW h \in Harts, NEW v \in Harts, StealFrom(h, v) PROVE InPlaces'
  <2> DEFINE t == FirstTakeable(v, h)
  <2>1. Free(t, v, h)
    BY <1>9, TakenWas, Zenon DEF StealFrom
  <2> HIDE DEF t
  <2> QED BY <1>9, <2>1 DEF t, StealFrom, Goto, Free
<1>10. ASSUME NEW h \in Harts, StealNothing(h) PROVE InPlaces'
  BY <1>10, Zenon DEF StealNothing, Goto, threadVars, hartVars, localVars
<1>11. ASSUME NEW h \in Harts, IrqSwitch(h) PROVE InPlaces'
  BY <1>11, Zenon DEF IrqSwitch, Goto, threadVars, hartVars, localVars
<1>12. ASSUME NEW h \in Harts, SchedEnter(h) PROVE InPlaces'
  BY <1>12, Zenon DEF SchedEnter, Goto, threadVars, hartVars, localVars
<1>13. ASSUME NEW h \in Harts, NEW t \in Threads, NEW i \in BOOLEAN, SchedDequeue(t, h, i) PROVE InPlaces'
  BY <1>13 DEF SchedDequeue, Goto
<1>14. ASSUME NEW h \in Harts, NEW t \in Threads, SchedYield(t, h) \/ YieldReturn(t, h) PROVE InPlaces'
  BY <1>14 DEF SchedYield, YieldReturn, Goto, threadVars
<1>15. ASSUME NEW h \in Harts, NEW t \in Threads, SchedTerminate(t, h) PROVE InPlaces'
  BY <1>15 DEF SchedTerminate, Goto
<1>16. ASSUME NEW h \in Harts, NEW t \in Threads, PreemptDisable(t, h) \/ PreemptEnable(t, h) PROVE InPlaces'
  BY <1>16 DEF PreemptDisable, PreemptEnable, Goto, localVars
<1>17. ASSUME NEW h \in Harts, NEW c \in Contexts, WakePush(c, h) PROVE InPlaces'
  BY <1>17 DEF WakePush, Goto, PushHolds
<1>18. ASSUME NEW h \in Harts, NEW c \in Contexts, Kick(c, h) PROVE InPlaces'
  BY <1>18, KickMoves DEF Goto, Back, threadVars
<1>19. ASSUME NEW h \in Harts, NEW c \in Contexts, NEW t \in Threads, SchedEnqueue(c, t, h) PROVE InPlaces'
  BY <1>19, Zenon DEF SchedEnqueue, WakeChoose, Back, At, Goto, threadVars, hartVars, localVars
<1> HIDE SetsAssumption, <1>1, <1>2 DEF InPlaces, Contexts, HartPlaces, ThreadPlaces
<1> QED BY <1>3, <1>4, <1>5, <1>6, <1>7, <1>8, <1>9, <1>10, <1>11, <1>12, <1>13, <1>14, <1>15, <1>16, <1>17, <1>18, <1>19, NotStill, Zenon DEF ThreadStep, Waking, Kick

\* A sched_lock has its holder.
LEMMA HolderStep == ASSUME Whole, [Next]_vars PROVE LockHasHolder'
<1>1. /\ pc \in [Contexts -> HartPlaces \cup ThreadPlaces]
      /\ sched_lock \in [Threads -> Contexts \cup {None}]
      /\ who \in [Contexts -> Threads \cup {None}]
  BY Zenon DEF Whole, Inv, TypeOK, HartPlaces, ThreadPlaces
<1>2. LockHasHolder
  BY Zenon DEF Whole, Inv
<1> USE SetsAssumption, <1>1, <1>2 DEF LockHasHolder
<1>3. CASE Still
  BY <1>3, Zenon DEF Still, threadVars, localVars
<1>4. ASSUME NEW h \in Harts, Irq(h) PROVE LockHasHolder'
  BY <1>4 DEF Irq, InterruptsOn, Goto, threadVars
<1>5. ASSUME NEW h \in Harts, IrqStart(h) PROVE LockHasHolder'
  BY <1>5 DEF IrqStart, Goto
<1>6. ASSUME NEW h \in Harts, IrqLock(h) PROVE LockHasHolder'
  BY <1>6 DEF IrqLock, Goto, hartVars, Contexts
<1>7. ASSUME NEW h \in Harts, IrqKeep(h) PROVE LockHasHolder'
  BY <1>7 DEF IrqKeep, Keep, Goto
<1>8. ASSUME NEW h \in Harts, IrqLeave(h) PROVE LockHasHolder'
  BY <1>8, TakenWas DEF IrqLeave, Leave, Goto
<1>9. ASSUME NEW h \in Harts, NEW v \in Harts, StealFrom(h, v) PROVE LockHasHolder'
  <2> DEFINE t == FirstTakeable(v, h)
  <2>1. Free(t, v, h)
    BY <1>9, TakenWas, Zenon DEF StealFrom
  <2> HIDE DEF t
  <2> QED BY <1>9, <2>1 DEF t, StealFrom, Goto
<1>10. ASSUME NEW h \in Harts, StealNothing(h) PROVE LockHasHolder'
  BY <1>10 DEF StealNothing, Goto, threadVars, hartVars
<1>11. ASSUME NEW h \in Harts, IrqSwitch(h) PROVE LockHasHolder'
  BY <1>11 DEF IrqSwitch, Goto
<1>12. ASSUME NEW h \in Harts, SchedEnter(h) PROVE LockHasHolder'
  BY <1>12 DEF SchedEnter, Goto
<1>13. ASSUME NEW h \in Harts, NEW t \in Threads, NEW i \in BOOLEAN, SchedDequeue(t, h, i) PROVE LockHasHolder'
  BY <1>13 DEF SchedDequeue, Goto
<1>14. ASSUME NEW h \in Harts, NEW t \in Threads, SchedYield(t, h) \/ YieldReturn(t, h) PROVE LockHasHolder'
  BY <1>14 DEF SchedYield, YieldReturn, Goto, threadVars, hartVars
<1>15. ASSUME NEW h \in Harts, NEW t \in Threads, SchedTerminate(t, h) PROVE LockHasHolder'
  BY <1>15 DEF SchedTerminate, Goto
<1>16. ASSUME NEW h \in Harts, NEW t \in Threads, PreemptDisable(t, h) \/ PreemptEnable(t, h) PROVE LockHasHolder'
  BY <1>16 DEF PreemptDisable, PreemptEnable, Goto, hartVars, localVars
<1>17. ASSUME NEW h \in Harts, NEW c \in Contexts, WakePush(c, h) PROVE LockHasHolder'
  BY <1>17 DEF WakePush, Goto
<1>18. ASSUME NEW h \in Harts, NEW c \in Contexts, Kick(c, h) PROVE LockHasHolder'
  BY <1>18, KickMoves DEF Goto, Back, threadVars
<1>19. ASSUME NEW h \in Harts, NEW c \in Contexts, NEW t \in Threads, SchedEnqueue(c, t, h) PROVE LockHasHolder'
  BY <1>19 DEF SchedEnqueue, WakeChoose, Back, Goto, hartVars
<1> HIDE SetsAssumption, <1>1, <1>2 DEF LockHasHolder
<1> QED BY <1>3, <1>4, <1>5, <1>6, <1>7, <1>8, <1>9, <1>10, <1>11, <1>12, <1>13, <1>14, <1>15, <1>16, <1>17, <1>18, <1>19, NotStill, Zenon DEF ThreadStep, Waking, Kick

\* A waker holds the lock of a blocked thread.
LEMMA PushStep == ASSUME Whole, [Next]_vars PROVE PushHolds'
<1>1. /\ pc \in [Contexts -> HartPlaces \cup ThreadPlaces]
      /\ state \in [Threads -> {"blocked", "runnable", "running", "dead", "free"}]
      /\ sched_lock \in [Threads -> Contexts \cup {None}]
      /\ who \in [Contexts -> Threads \cup {None}]
  BY Zenon DEF Whole, Inv, TypeOK, HartPlaces, ThreadPlaces
<1>2. PushHolds /\ PickHolds /\ WakerSet /\ DeadKept
  BY Zenon DEF Whole, Inv
<1> USE SetsAssumption, <1>1, <1>2 DEF PushHolds
<1>3. CASE Still
  BY <1>3, Zenon DEF Still, threadVars, localVars
<1>4. ASSUME NEW h \in Harts, Irq(h) PROVE PushHolds'
  BY <1>4, Zenon DEF Irq, InterruptsOn, Goto, threadVars, hartVars, localVars
<1>5. ASSUME NEW h \in Harts, IrqStart(h) PROVE PushHolds'
  BY <1>5 DEF IrqStart, Goto, WakerSet, DeadKept
<1>6. ASSUME NEW h \in Harts, IrqLock(h) PROVE PushHolds'
  BY <1>6 DEF IrqLock, Goto, Contexts
<1>7. ASSUME NEW h \in Harts, IrqKeep(h) PROVE PushHolds'
  BY <1>7 DEF IrqKeep, Keep, Goto, PickHolds
<1>8. ASSUME NEW h \in Harts, IrqLeave(h) PROVE PushHolds'
  BY <1>8, TakenWas DEF IrqLeave, Leave, Goto, Free, PickHolds, WakerSet
<1>9. ASSUME NEW h \in Harts, NEW v \in Harts, StealFrom(h, v) PROVE PushHolds'
  <2> DEFINE t == FirstTakeable(v, h)
  <2>1. Free(t, v, h)
    BY <1>9, TakenWas, Zenon DEF StealFrom
  <2> HIDE DEF t
  <2> QED BY <1>9, <2>1 DEF t, StealFrom, Goto, Free
<1>10. ASSUME NEW h \in Harts, StealNothing(h) PROVE PushHolds'
  BY <1>10, Zenon DEF StealNothing, Goto, threadVars, hartVars, localVars
<1>11. ASSUME NEW h \in Harts, IrqSwitch(h) PROVE PushHolds'
  BY <1>11, Zenon DEF IrqSwitch, Goto, threadVars, hartVars, localVars
<1>12. ASSUME NEW h \in Harts, SchedEnter(h) PROVE PushHolds'
  BY <1>12, Zenon DEF SchedEnter, Goto, threadVars, hartVars, localVars
<1>13. ASSUME NEW h \in Harts, NEW t \in Threads, NEW i \in BOOLEAN, SchedDequeue(t, h, i) PROVE PushHolds'
  BY <1>13 DEF SchedDequeue, Goto, WakerSet
<1>14. ASSUME NEW h \in Harts, NEW t \in Threads, SchedYield(t, h) \/ YieldReturn(t, h) PROVE PushHolds'
  BY <1>14 DEF SchedYield, YieldReturn, Goto, threadVars
<1>15. ASSUME NEW h \in Harts, NEW t \in Threads, SchedTerminate(t, h) PROVE PushHolds'
  BY <1>15 DEF SchedTerminate, Goto, Contexts
<1>16. ASSUME NEW h \in Harts, NEW t \in Threads, PreemptDisable(t, h) \/ PreemptEnable(t, h) PROVE PushHolds'
  BY <1>16 DEF PreemptDisable, PreemptEnable, Goto, localVars
<1>17. ASSUME NEW h \in Harts, NEW c \in Contexts, WakePush(c, h) PROVE PushHolds'
  BY <1>17 DEF WakePush, Goto
<1>18. ASSUME NEW h \in Harts, NEW c \in Contexts, Kick(c, h) PROVE PushHolds'
  BY <1>18, KickMoves DEF Goto, Back, threadVars
<1>19. ASSUME NEW h \in Harts, NEW c \in Contexts, NEW t \in Threads, SchedEnqueue(c, t, h) PROVE PushHolds'
  BY <1>19 DEF SchedEnqueue, WakeChoose, Goto, Contexts
<1> HIDE SetsAssumption, <1>1, <1>2 DEF PushHolds
<1> QED BY <1>3, <1>4, <1>5, <1>6, <1>7, <1>8, <1>9, <1>10, <1>11, <1>12, <1>13, <1>14, <1>15, <1>16, <1>17, <1>18, <1>19, NotStill, Zenon DEF ThreadStep, Waking, Kick

\* The handler holds the lock of the current thread.
LEMMA PickStep == ASSUME Whole, [Next]_vars PROVE PickHolds'
<1>1. /\ pc \in [Contexts -> HartPlaces \cup ThreadPlaces]
      /\ sched_lock \in [Threads -> Contexts \cup {None}]
      /\ curr \in [Harts -> Threads \cup {None}]
  BY Zenon DEF Whole, Inv, TypeOK, HartPlaces, ThreadPlaces
<1>2. PushHolds /\ PickHolds
  BY Zenon DEF Whole, Inv
<1> USE SetsAssumption, <1>1, <1>2 DEF PickHolds, Contexts
<1>3. CASE Still
  BY <1>3, Zenon DEF Still, threadVars, localVars
<1>4. ASSUME NEW h \in Harts, Irq(h) PROVE PickHolds'
  BY <1>4, Zenon DEF Irq, InterruptsOn, Goto, threadVars, hartVars, localVars
<1>5. ASSUME NEW h \in Harts, IrqStart(h) PROVE PickHolds'
  BY <1>5, Zenon DEF IrqStart, Preemptible, CurrIs, Goto, threadVars, hartVars, localVars
<1>6. ASSUME NEW h \in Harts, IrqLock(h) PROVE PickHolds'
  BY <1>6 DEF IrqLock, Goto, hartVars
<1>7. ASSUME NEW h \in Harts, IrqKeep(h) PROVE PickHolds'
  BY <1>7 DEF IrqKeep, Keep, Goto
<1>8. ASSUME NEW h \in Harts, IrqLeave(h) PROVE PickHolds'
  BY <1>8, TakenWas DEF IrqLeave, Leave, Goto
<1>9. ASSUME NEW h \in Harts, NEW v \in Harts, StealFrom(h, v) PROVE PickHolds'
  <2> DEFINE t == FirstTakeable(v, h)
  <2>1. Free(t, v, h)
    BY <1>9, TakenWas, Zenon DEF StealFrom
  <2> HIDE DEF t
  <2> QED BY <1>9, <2>1, Zenon DEF t, StealFrom, Goto, threadVars, hartVars, localVars, Free
<1>10. ASSUME NEW h \in Harts, StealNothing(h) PROVE PickHolds'
  BY <1>10, Zenon DEF StealNothing, Goto, threadVars, hartVars, localVars
<1>11. ASSUME NEW h \in Harts, IrqSwitch(h) PROVE PickHolds'
  BY <1>11, Zenon DEF IrqSwitch, Goto, threadVars, hartVars, localVars
<1>12. ASSUME NEW h \in Harts, SchedEnter(h) PROVE PickHolds'
  BY <1>12, Zenon DEF SchedEnter, Goto, threadVars, hartVars, localVars
<1>13. ASSUME NEW h \in Harts, NEW t \in Threads, NEW i \in BOOLEAN, SchedDequeue(t, h, i) PROVE PickHolds'
  BY <1>13, Zenon DEF SchedDequeue, RunsOn, Goto, threadVars, hartVars, localVars
<1>14. ASSUME NEW h \in Harts, NEW t \in Threads, SchedYield(t, h) \/ YieldReturn(t, h) PROVE PickHolds'
  BY <1>14 DEF SchedYield, YieldReturn, Goto, threadVars, hartVars
<1>15. ASSUME NEW h \in Harts, NEW t \in Threads, SchedTerminate(t, h) PROVE PickHolds'
  BY <1>15, Zenon DEF SchedTerminate, RunsOn, Goto, threadVars, hartVars, localVars
<1>16. ASSUME NEW h \in Harts, NEW t \in Threads, PreemptDisable(t, h) \/ PreemptEnable(t, h) PROVE PickHolds'
  BY <1>16 DEF PreemptDisable, PreemptEnable, Goto, hartVars, localVars
<1>17. ASSUME NEW h \in Harts, NEW c \in Contexts, WakePush(c, h) PROVE PickHolds'
  BY <1>17 DEF WakePush, Goto, PushHolds
<1>18. ASSUME NEW h \in Harts, NEW c \in Contexts, Kick(c, h) PROVE PickHolds'
  BY <1>18, KickMoves DEF Goto, Back, threadVars
<1>19. ASSUME NEW h \in Harts, NEW c \in Contexts, NEW t \in Threads, SchedEnqueue(c, t, h) PROVE PickHolds'
  BY <1>19 DEF SchedEnqueue, WakeChoose, Goto, hartVars
<1> HIDE SetsAssumption, <1>1, <1>2 DEF PickHolds, Contexts
<1> QED BY <1>3, <1>4, <1>5, <1>6, <1>7, <1>8, <1>9, <1>10, <1>11, <1>12, <1>13, <1>14, <1>15, <1>16, <1>17, <1>18, <1>19, NotStill, Zenon DEF ThreadStep, Waking, Kick

\* It only asks for it if there is one.
LEMMA CurrStep == ASSUME Whole, [Next]_vars PROVE LockHasCurr'
<1>1. /\ pc \in [Contexts -> HartPlaces \cup ThreadPlaces]
      /\ curr \in [Harts -> Threads \cup {None}]
  BY Zenon DEF Whole, Inv, TypeOK, HartPlaces, ThreadPlaces
<1>2. LockHasCurr
  BY Zenon DEF Whole, Inv
<1> USE SetsAssumption, <1>1, <1>2 DEF LockHasCurr, Contexts
<1>3. CASE Still
  BY <1>3, Zenon DEF Still, threadVars, localVars
<1>4. ASSUME NEW h \in Harts, Irq(h) PROVE LockHasCurr'
  BY <1>4, Zenon DEF Irq, InterruptsOn, Goto, threadVars, hartVars, localVars
<1>5. ASSUME NEW h \in Harts, IrqStart(h) PROVE LockHasCurr'
  BY <1>5, Zenon DEF IrqStart, Preemptible, CurrIs, Goto, threadVars, hartVars, localVars
<1>6. ASSUME NEW h \in Harts, IrqLock(h) PROVE LockHasCurr'
  BY <1>6, Zenon DEF IrqLock, Goto, threadVars, hartVars, localVars
<1>7. ASSUME NEW h \in Harts, IrqKeep(h) PROVE LockHasCurr'
  BY <1>7, Zenon DEF IrqKeep, Keep, CurrIs, Goto, threadVars, hartVars, localVars
<1>8. ASSUME NEW h \in Harts, IrqLeave(h) PROVE LockHasCurr'
  BY <1>8, TakenWas, Zenon DEF IrqLeave, Leave, CurrIs, Goto, threadVars, hartVars, localVars, Free
<1>9. ASSUME NEW h \in Harts, NEW v \in Harts, StealFrom(h, v) PROVE LockHasCurr'
  <2> DEFINE t == FirstTakeable(v, h)
  <2>1. Free(t, v, h)
    BY <1>9, TakenWas, Zenon DEF StealFrom
  <2> HIDE DEF t
  <2> QED BY <1>9, <2>1, Zenon DEF t, StealFrom, Goto, threadVars, hartVars, localVars, Free
<1>10. ASSUME NEW h \in Harts, StealNothing(h) PROVE LockHasCurr'
  BY <1>10, Zenon DEF StealNothing, Goto, threadVars, hartVars, localVars
<1>11. ASSUME NEW h \in Harts, IrqSwitch(h) PROVE LockHasCurr'
  BY <1>11, Zenon DEF IrqSwitch, Goto, threadVars, hartVars, localVars
<1>12. ASSUME NEW h \in Harts, SchedEnter(h) PROVE LockHasCurr'
  BY <1>12, Zenon DEF SchedEnter, Goto, threadVars, hartVars, localVars
<1>13. ASSUME NEW h \in Harts, NEW t \in Threads, NEW i \in BOOLEAN, SchedDequeue(t, h, i) PROVE LockHasCurr'
  BY <1>13, Zenon DEF SchedDequeue, RunsOn, Goto, threadVars, hartVars, localVars
<1>14. ASSUME NEW h \in Harts, NEW t \in Threads, SchedYield(t, h) \/ YieldReturn(t, h) PROVE LockHasCurr'
  BY <1>14, Zenon DEF SchedYield, YieldReturn, RunsOn, Goto, threadVars, hartVars, localVars
<1>15. ASSUME NEW h \in Harts, NEW t \in Threads, SchedTerminate(t, h) PROVE LockHasCurr'
  BY <1>15, Zenon DEF SchedTerminate, RunsOn, Goto, threadVars, hartVars, localVars
<1>16. ASSUME NEW h \in Harts, NEW t \in Threads, PreemptDisable(t, h) \/ PreemptEnable(t, h) PROVE LockHasCurr'
  BY <1>16, Zenon DEF PreemptDisable, PreemptEnable, RunsOn, Goto, threadVars, hartVars, localVars
<1>17. ASSUME NEW h \in Harts, NEW c \in Contexts, WakePush(c, h) PROVE LockHasCurr'
  BY <1>17, Zenon DEF WakePush, At, Goto, threadVars, hartVars, localVars
<1>18. ASSUME NEW h \in Harts, NEW c \in Contexts, Kick(c, h) PROVE LockHasCurr'
  BY <1>18, KickMoves DEF Goto, Back, threadVars
<1>19. ASSUME NEW h \in Harts, NEW c \in Contexts, NEW t \in Threads, SchedEnqueue(c, t, h) PROVE LockHasCurr'
  BY <1>19, Zenon DEF SchedEnqueue, WakeChoose, Back, At, Goto, threadVars, hartVars, localVars
<1> HIDE SetsAssumption, <1>1, <1>2 DEF LockHasCurr, Contexts
<1> QED BY <1>3, <1>4, <1>5, <1>6, <1>7, <1>8, <1>9, <1>10, <1>11, <1>12, <1>13, <1>14, <1>15, <1>16, <1>17, <1>18, <1>19, NotStill, Zenon DEF ThreadStep, Waking, Kick

\* A thread is held where it may run, and ran there last.
LEMMA HeldStep == ASSUME Whole, [Next]_vars PROVE Held'
<1>1. /\ next \in [Harts -> Threads \cup {None}]
  BY Zenon DEF Whole, Inv, TypeOK, HartPlaces, ThreadPlaces
<1>2. Held /\ NextPlace /\ UserHoldsLock
  BY Zenon DEF Whole, Inv
<1> USE SetsAssumption, <1>1, <1>2 DEF Held
<1>3. CASE Quiet
  BY <1>3, Zenon DEF Quiet
<1>4. ASSUME NEW h \in Harts, IrqStart(h) PROVE Held'
  BY <1>4, Zenon DEF IrqStart, Preemptible, CurrIs, Goto, threadVars, hartVars, localVars
<1>5. ASSUME NEW h \in Harts, IrqKeep(h) PROVE Held'
  BY <1>5, Zenon DEF IrqKeep, Keep, CurrIs, Goto, threadVars, hartVars, localVars
<1>6. ASSUME NEW h \in Harts, IrqLeave(h) PROVE Held'
  BY <1>6, TakenWas DEF IrqLeave, Leave, Free, NextPlace
<1>7. ASSUME NEW h \in Harts, NEW v \in Harts, StealFrom(h, v) PROVE Held'
  <2> DEFINE t == FirstTakeable(v, h)
  <2>1. Free(t, v, h)
    BY <1>7, TakenWas, Zenon DEF StealFrom
  <2> HIDE DEF t
  <2> QED BY <1>7, <2>1 DEF t, StealFrom, Free, NextPlace
<1>8. ASSUME NEW h \in Harts, IrqSwitch(h) PROVE Held'
  BY <1>8 DEF IrqSwitch, UserHoldsLock, Uses
<1>9. ASSUME NEW h \in Harts, SchedEnter(h) PROVE Held'
  BY <1>9 DEF SchedEnter
<1>10. ASSUME NEW h \in Harts, NEW t \in Threads, NEW i \in BOOLEAN, SchedDequeue(t, h, i) PROVE Held'
  BY <1>10 DEF SchedDequeue
<1>11. ASSUME NEW h \in Harts, NEW t \in Threads, SchedTerminate(t, h) PROVE Held'
  BY <1>11 DEF SchedTerminate
<1>12. ASSUME NEW h \in Harts, NEW c \in Contexts, WakePush(c, h) PROVE Held'
  BY <1>12, Zenon DEF WakePush, At, Goto, threadVars, hartVars, localVars
<1> HIDE SetsAssumption, <1>1, <1>2 DEF Held
<1> QED BY <1>3, <1>4, <1>5, <1>6, <1>7, <1>8, <1>9, <1>10, <1>11, <1>12, NotQuiet, Zenon

\* A thread that was taken runs.
LEMMA NextStep == ASSUME Whole, [Next]_vars PROVE NextRuns'
<1>1. /\ state \in [Threads -> {"blocked", "runnable", "running", "dead", "free"}]
      /\ next \in [Harts -> Threads \cup {None}]
  BY Zenon DEF Whole, Inv, TypeOK, HartPlaces, ThreadPlaces
<1>2. NextRuns /\ NextPlace /\ UserHoldsLock /\ PushHolds /\ DeadKept
  BY Zenon DEF Whole, Inv
<1> USE SetsAssumption, <1>1, <1>2 DEF NextRuns
<1>3. CASE Quiet
  BY <1>3, Zenon DEF Quiet
<1>4. ASSUME NEW h \in Harts, IrqStart(h) PROVE NextRuns'
  BY <1>4 DEF IrqStart, DeadKept
<1>5. ASSUME NEW h \in Harts, IrqKeep(h) PROVE NextRuns'
  BY <1>5 DEF IrqKeep, Keep
<1>6. ASSUME NEW h \in Harts, IrqLeave(h) PROVE NextRuns'
  BY <1>6, TakenWas DEF IrqLeave, Leave, Free, UserHoldsLock, Uses
<1>7. ASSUME NEW h \in Harts, NEW v \in Harts, StealFrom(h, v) PROVE NextRuns'
  <2> DEFINE t == FirstTakeable(v, h)
  <2>1. Free(t, v, h)
    BY <1>7, TakenWas, Zenon DEF StealFrom
  <2> HIDE DEF t
  <2> QED BY <1>7, <2>1 DEF t, StealFrom, Free
<1>8. ASSUME NEW h \in Harts, IrqSwitch(h) PROVE NextRuns'
  BY <1>8 DEF IrqSwitch
<1>9. ASSUME NEW h \in Harts, SchedEnter(h) PROVE NextRuns'
  BY <1>9, Zenon DEF SchedEnter, Goto, threadVars, hartVars, localVars
<1>10. ASSUME NEW h \in Harts, NEW t \in Threads, NEW i \in BOOLEAN, SchedDequeue(t, h, i) PROVE NextRuns'
  BY <1>10 DEF SchedDequeue, RunsOn, NextPlace, UserHoldsLock, Uses
<1>11. ASSUME NEW h \in Harts, NEW t \in Threads, SchedTerminate(t, h) PROVE NextRuns'
  BY <1>11 DEF SchedTerminate, RunsOn, NextPlace, UserHoldsLock, Uses
<1>12. ASSUME NEW h \in Harts, NEW c \in Contexts, WakePush(c, h) PROVE NextRuns'
  BY <1>12 DEF WakePush, PushHolds
<1> HIDE SetsAssumption, <1>1, <1>2 DEF NextRuns
<1> QED BY <1>3, <1>4, <1>5, <1>6, <1>7, <1>8, <1>9, <1>10, <1>11, <1>12, NotQuiet, Zenon

\* A thread that is left does not.
LEMMA LeftStep == ASSUME Whole, [Next]_vars PROVE LeftStopped'
<1>1. /\ state \in [Threads -> {"blocked", "runnable", "running", "dead", "free"}]
      /\ unlock \in [Harts -> Threads \cup {None}]
      /\ curr \in [Harts -> Threads \cup {None}]
  BY Zenon DEF Whole, Inv, TypeOK, HartPlaces, ThreadPlaces
<1>2. LeftStopped /\ UnlockPlace /\ FreeUnused /\ UserHoldsLock /\ DeadKept
  BY Zenon DEF Whole, Inv
<1> USE SetsAssumption, <1>1, <1>2 DEF LeftStopped
<1>3. CASE Quiet
  BY <1>3, Zenon DEF Quiet
<1>4. ASSUME NEW h \in Harts, IrqStart(h) PROVE LeftStopped'
  BY <1>4 DEF IrqStart, DeadKept
<1>5. ASSUME NEW h \in Harts, IrqKeep(h) PROVE LeftStopped'
  BY <1>5 DEF IrqKeep, Keep, UnlockPlace, UserHoldsLock, Uses
<1>6. ASSUME NEW h \in Harts, IrqLeave(h) PROVE LeftStopped'
  BY <1>6, TakenWas DEF IrqLeave, Leave, CurrIs, Free, FreeUnused, UserHoldsLock, Uses
<1>7. ASSUME NEW h \in Harts, NEW v \in Harts, StealFrom(h, v) PROVE LeftStopped'
  <2> DEFINE t == FirstTakeable(v, h)
  <2>1. Free(t, v, h)
    BY <1>7, TakenWas, Zenon DEF StealFrom
  <2> HIDE DEF t
  <2> QED BY <1>7, <2>1 DEF t, StealFrom, Free, UserHoldsLock, Uses
<1>8. ASSUME NEW h \in Harts, IrqSwitch(h) PROVE LeftStopped'
  BY <1>8, Zenon DEF IrqSwitch, Goto, threadVars, hartVars, localVars
<1>9. ASSUME NEW h \in Harts, SchedEnter(h) PROVE LeftStopped'
  BY <1>9 DEF SchedEnter
<1>10. ASSUME NEW h \in Harts, NEW t \in Threads, NEW i \in BOOLEAN, SchedDequeue(t, h, i) PROVE LeftStopped'
  BY <1>10 DEF SchedDequeue
<1>11. ASSUME NEW h \in Harts, NEW t \in Threads, SchedTerminate(t, h) PROVE LeftStopped'
  BY <1>11 DEF SchedTerminate, RunsOn, UnlockPlace, UserHoldsLock, Uses
<1>12. ASSUME NEW h \in Harts, NEW c \in Contexts, WakePush(c, h) PROVE LeftStopped'
  BY <1>12 DEF WakePush
<1> HIDE SetsAssumption, <1>1, <1>2 DEF LeftStopped
<1> QED BY <1>3, <1>4, <1>5, <1>6, <1>7, <1>8, <1>9, <1>10, <1>11, <1>12, NotQuiet, Zenon

\* A current thread that is not about to yield runs.
LEMMA CurrRunsStep == ASSUME Whole, [Next]_vars PROVE CurrRuns'
<1>1. /\ pc \in [Contexts -> HartPlaces \cup ThreadPlaces]
      /\ state \in [Threads -> {"blocked", "runnable", "running", "dead", "free"}]
      /\ curr \in [Harts -> Threads \cup {None}]
  BY Zenon DEF Whole, Inv, TypeOK, HartPlaces, ThreadPlaces
<1>2. CurrRuns /\ YieldedRuns /\ NextRuns /\ UserHoldsLock /\ PushHolds /\ DeadKept
  BY Zenon DEF Whole, Inv
<1> USE SetsAssumption, <1>1, <1>2 DEF CurrRuns, Contexts
<1>3. CASE Still
  BY <1>3, Zenon DEF Still, threadVars, localVars
<1>4. ASSUME NEW h \in Harts, Irq(h) PROVE CurrRuns'
  BY <1>4 DEF Irq, InterruptsOn, Goto, threadVars
<1>5. ASSUME NEW h \in Harts, IrqStart(h) PROVE CurrRuns'
  BY <1>5 DEF IrqStart, Goto, DeadKept
<1>6. ASSUME NEW h \in Harts, IrqLock(h) PROVE CurrRuns'
  BY <1>6 DEF IrqLock, Goto, hartVars
<1>7. ASSUME NEW h \in Harts, IrqKeep(h) PROVE CurrRuns'
  BY <1>7 DEF IrqKeep, Keep, Goto
<1>8. ASSUME NEW h \in Harts, IrqLeave(h) PROVE CurrRuns'
  BY <1>8, TakenWas DEF IrqLeave, Leave, Goto, UserHoldsLock, Uses
<1>9. ASSUME NEW h \in Harts, NEW v \in Harts, StealFrom(h, v) PROVE CurrRuns'
  <2> DEFINE t == FirstTakeable(v, h)
  <2>1. Free(t, v, h)
    BY <1>9, TakenWas, Zenon DEF StealFrom
  <2> HIDE DEF t
  <2> QED BY <1>9, <2>1 DEF t, StealFrom, Goto
<1>10. ASSUME NEW h \in Harts, StealNothing(h) PROVE CurrRuns'
  BY <1>10 DEF StealNothing, Goto, threadVars, hartVars
<1>11. ASSUME NEW h \in Harts, IrqSwitch(h) PROVE CurrRuns'
  BY <1>11 DEF IrqSwitch, Goto, NextRuns
<1>12. ASSUME NEW h \in Harts, SchedEnter(h) PROVE CurrRuns'
  BY <1>12 DEF SchedEnter, Goto
<1>13. ASSUME NEW h \in Harts, NEW t \in Threads, NEW i \in BOOLEAN, SchedDequeue(t, h, i) PROVE CurrRuns'
  BY <1>13 DEF SchedDequeue, Goto
<1>14. ASSUME NEW h \in Harts, NEW t \in Threads, SchedYield(t, h) \/ YieldReturn(t, h) PROVE CurrRuns'
  BY <1>14 DEF SchedYield, YieldReturn, RunsOn, Goto, threadVars, hartVars, YieldedRuns
<1>15. ASSUME NEW h \in Harts, NEW t \in Threads, SchedTerminate(t, h) PROVE CurrRuns'
  BY <1>15 DEF SchedTerminate, Goto
<1>16. ASSUME NEW h \in Harts, NEW t \in Threads, PreemptDisable(t, h) \/ PreemptEnable(t, h) PROVE CurrRuns'
  BY <1>16 DEF PreemptDisable, PreemptEnable, Goto, hartVars, localVars
<1>17. ASSUME NEW h \in Harts, NEW c \in Contexts, WakePush(c, h) PROVE CurrRuns'
  BY <1>17 DEF WakePush, Goto, PushHolds
<1>18. ASSUME NEW h \in Harts, NEW c \in Contexts, Kick(c, h) PROVE CurrRuns'
  BY <1>18, KickMoves DEF Goto, Back, threadVars
<1>19. ASSUME NEW h \in Harts, NEW c \in Contexts, NEW t \in Threads, SchedEnqueue(c, t, h) PROVE CurrRuns'
  BY <1>19 DEF SchedEnqueue, WakeChoose, Back, Goto, hartVars
<1> HIDE SetsAssumption, <1>1, <1>2 DEF CurrRuns, Contexts
<1> QED BY <1>3, <1>4, <1>5, <1>6, <1>7, <1>8, <1>9, <1>10, <1>11, <1>12, <1>13, <1>14, <1>15, <1>16, <1>17, <1>18, <1>19, NotStill, Zenon DEF ThreadStep, Waking, Kick

\* Nor does sched_yield return in one that does not.
LEMMA YieldedStep == ASSUME Whole, [Next]_vars PROVE YieldedRuns'
<1>1. /\ pc \in [Contexts -> HartPlaces \cup ThreadPlaces]
      /\ state \in [Threads -> {"blocked", "runnable", "running", "dead", "free"}]
      /\ curr \in [Harts -> Threads \cup {None}]
      /\ yield_await \in [Threads -> BOOLEAN]
  BY Zenon DEF Whole, Inv, TypeOK, HartPlaces, ThreadPlaces
<1>2. YieldedRuns /\ NextRuns /\ UserHoldsLock /\ PushHolds /\ DeadKept
  BY Zenon DEF Whole, Inv
<1> USE SetsAssumption, <1>1, <1>2 DEF YieldedRuns
<1>3. CASE Still
  BY <1>3, Zenon DEF Still, threadVars, localVars
<1>4. ASSUME NEW h \in Harts, Irq(h) PROVE YieldedRuns'
  BY <1>4 DEF Irq, InterruptsOn, Goto, threadVars
<1>5. ASSUME NEW h \in Harts, IrqStart(h) PROVE YieldedRuns'
  BY <1>5 DEF IrqStart, Goto, UserHoldsLock, DeadKept, Contexts, Uses
<1>6. ASSUME NEW h \in Harts, IrqLock(h) PROVE YieldedRuns'
  BY <1>6 DEF IrqLock, Goto, hartVars
<1>7. ASSUME NEW h \in Harts, IrqKeep(h) PROVE YieldedRuns'
  BY <1>7 DEF IrqKeep, Keep, Goto
<1>8. ASSUME NEW h \in Harts, IrqLeave(h) PROVE YieldedRuns'
  BY <1>8, TakenWas DEF IrqLeave, Leave, Goto, UserHoldsLock, Uses
<1>9. ASSUME NEW h \in Harts, NEW v \in Harts, StealFrom(h, v) PROVE YieldedRuns'
  <2> DEFINE t == FirstTakeable(v, h)
  <2>1. Free(t, v, h)
    BY <1>9, TakenWas, Zenon DEF StealFrom
  <2> HIDE DEF t
  <2> QED BY <1>9, <2>1 DEF t, StealFrom, Goto
<1>10. ASSUME NEW h \in Harts, StealNothing(h) PROVE YieldedRuns'
  BY <1>10 DEF StealNothing, Goto, threadVars, hartVars
<1>11. ASSUME NEW h \in Harts, IrqSwitch(h) PROVE YieldedRuns'
  BY <1>11 DEF IrqSwitch, Goto, NextRuns
<1>12. ASSUME NEW h \in Harts, SchedEnter(h) PROVE YieldedRuns'
  BY <1>12 DEF SchedEnter, Goto
<1>13. ASSUME NEW h \in Harts, NEW t \in Threads, NEW i \in BOOLEAN, SchedDequeue(t, h, i) PROVE YieldedRuns'
  BY <1>13 DEF SchedDequeue, Goto
<1>14. ASSUME NEW h \in Harts, NEW t \in Threads, SchedYield(t, h) \/ YieldReturn(t, h) PROVE YieldedRuns'
  BY <1>14 DEF SchedYield, YieldReturn, Goto, threadVars, hartVars, Contexts
<1>15. ASSUME NEW h \in Harts, NEW t \in Threads, SchedTerminate(t, h) PROVE YieldedRuns'
  BY <1>15 DEF SchedTerminate, Goto
<1>16. ASSUME NEW h \in Harts, NEW t \in Threads, PreemptDisable(t, h) \/ PreemptEnable(t, h) PROVE YieldedRuns'
  BY <1>16 DEF PreemptDisable, PreemptEnable, Goto, hartVars, localVars, Contexts
<1>17. ASSUME NEW h \in Harts, NEW c \in Contexts, WakePush(c, h) PROVE YieldedRuns'
  BY <1>17 DEF WakePush, Goto, PushHolds
<1>18. ASSUME NEW h \in Harts, NEW c \in Contexts, Kick(c, h) PROVE YieldedRuns'
  BY <1>18, KickMoves DEF Goto, Back, threadVars, Contexts
<1>19. ASSUME NEW h \in Harts, NEW c \in Contexts, NEW t \in Threads, SchedEnqueue(c, t, h) PROVE YieldedRuns'
  BY <1>19 DEF SchedEnqueue, WakeChoose, Back, Goto, hartVars
<1> HIDE SetsAssumption, <1>1, <1>2 DEF YieldedRuns
<1> QED BY <1>3, <1>4, <1>5, <1>6, <1>7, <1>8, <1>9, <1>10, <1>11, <1>12, <1>13, <1>14, <1>15, <1>16, <1>17, <1>18, <1>19, NotStill, Zenon DEF ThreadStep, Waking, Kick

\* The dead are kept for the handler of their hart.
LEMMA DeadStep == ASSUME Whole, [Next]_vars PROVE DeadKept'
<1>1. /\ pc \in [Contexts -> HartPlaces \cup ThreadPlaces]
      /\ state \in [Threads -> {"blocked", "runnable", "running", "dead", "free"}]
      /\ curr \in [Harts -> Threads \cup {None}]
      /\ dead_thread \in [Harts -> Threads \cup {None}]
  BY Zenon DEF Whole, Inv, TypeOK, HartPlaces, ThreadPlaces
<1>2. DeadKept /\ NextRuns /\ LeftStopped /\ UserHoldsLock /\ PushHolds
  BY Zenon DEF Whole, Inv
<1> USE SetsAssumption, <1>1, <1>2 DEF DeadKept, Contexts
<1>3. CASE Still
  BY <1>3, Zenon DEF Still, threadVars, localVars
<1>4. ASSUME NEW h \in Harts, Irq(h) PROVE DeadKept'
  BY <1>4, Zenon DEF Irq, InterruptsOn, Goto, threadVars, hartVars, localVars
<1>5. ASSUME NEW h \in Harts, IrqStart(h) PROVE DeadKept'
  BY <1>5 DEF IrqStart, Goto
<1>6. ASSUME NEW h \in Harts, IrqLock(h) PROVE DeadKept'
  BY <1>6 DEF IrqLock, Goto, hartVars
<1>7. ASSUME NEW h \in Harts, IrqKeep(h) PROVE DeadKept'
  BY <1>7 DEF IrqKeep, Keep, Goto, UserHoldsLock, Uses
<1>8. ASSUME NEW h \in Harts, IrqLeave(h) PROVE DeadKept'
  BY <1>8, TakenWas DEF IrqLeave, Leave, CurrIs, Goto, Free, UserHoldsLock, Uses
<1>9. ASSUME NEW h \in Harts, NEW v \in Harts, StealFrom(h, v) PROVE DeadKept'
  <2> DEFINE t == FirstTakeable(v, h)
  <2>1. Free(t, v, h)
    BY <1>9, TakenWas, Zenon DEF StealFrom
  <2> HIDE DEF t
  <2> QED BY <1>9, <2>1 DEF t, StealFrom, Goto, Free
<1>10. ASSUME NEW h \in Harts, StealNothing(h) PROVE DeadKept'
  BY <1>10, Zenon DEF StealNothing, Goto, threadVars, hartVars, localVars
<1>11. ASSUME NEW h \in Harts, IrqSwitch(h) PROVE DeadKept'
  BY <1>11 DEF IrqSwitch, Goto, NextRuns
<1>12. ASSUME NEW h \in Harts, SchedEnter(h) PROVE DeadKept'
  BY <1>12 DEF SchedEnter, Goto, LeftStopped
<1>13. ASSUME NEW h \in Harts, NEW t \in Threads, NEW i \in BOOLEAN, SchedDequeue(t, h, i) PROVE DeadKept'
  BY <1>13 DEF SchedDequeue, Goto
<1>14. ASSUME NEW h \in Harts, NEW t \in Threads, SchedYield(t, h) \/ YieldReturn(t, h) PROVE DeadKept'
  BY <1>14 DEF SchedYield, YieldReturn, Goto, threadVars, hartVars
<1>15. ASSUME NEW h \in Harts, NEW t \in Threads, SchedTerminate(t, h) PROVE DeadKept'
  BY <1>15 DEF SchedTerminate, Goto
<1>16. ASSUME NEW h \in Harts, NEW t \in Threads, PreemptDisable(t, h) \/ PreemptEnable(t, h) PROVE DeadKept'
  BY <1>16 DEF PreemptDisable, PreemptEnable, Goto, hartVars, localVars
<1>17. ASSUME NEW h \in Harts, NEW c \in Contexts, WakePush(c, h) PROVE DeadKept'
  BY <1>17 DEF WakePush, Goto, PushHolds
<1>18. ASSUME NEW h \in Harts, NEW c \in Contexts, Kick(c, h) PROVE DeadKept'
  BY <1>18, KickMoves DEF Goto, Back, threadVars
<1>19. ASSUME NEW h \in Harts, NEW c \in Contexts, NEW t \in Threads, SchedEnqueue(c, t, h) PROVE DeadKept'
  BY <1>19, Zenon DEF SchedEnqueue, WakeChoose, Back, At, Goto, threadVars, hartVars, localVars
<1> HIDE SetsAssumption, <1>1, <1>2 DEF DeadKept, Contexts
<1> QED BY <1>3, <1>4, <1>5, <1>6, <1>7, <1>8, <1>9, <1>10, <1>11, <1>12, <1>13, <1>14, <1>15, <1>16, <1>17, <1>18, <1>19, NotStill, Zenon DEF ThreadStep, Waking, Kick
===============================================================================
