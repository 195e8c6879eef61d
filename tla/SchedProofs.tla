----------------------------- MODULE SchedProofs -----------------------------
(* Theorems about Sched for any sets of threads and harts.                   *)
EXTENDS SchedQueueProofs, FiniteSetTheorems, WellFoundedInduction

\* As in SchedStepProofs, the leaves that go to Zenon say so.
USE SMTT(30)

\* A set of naturals has a least element.
LEMMA LeastOf ==
    ASSUME NEW S, S \subseteq Nat, S # {}
    PROVE  \E i \in S : \A j \in S : i <= j
<1> DEFINE less == {p \in Nat \X Nat : p[1] < p[2]}
<1>1. OpToRel(<, Nat) = less
  BY Zenon DEF OpToRel
<1>2. IsWellFoundedOn(less, Nat)
  BY <1>1, NatLessThanWellFounded, Zenon
<1>3. PICK i \in S : \A j \in S : ~ (<<j, i>> \in less)
  <2> HIDE DEF less
  <2> QED BY <1>2, WFMin, Zenon
<1>4. \A j \in S : i <= j
  <2> TAKE j \in S
  <2>1. i \in Nat /\ j \in Nat /\ ~ (<<j, i>> \in less)
    BY <1>3, Zenon
  <2>2. ~ (j < i)
    BY <2>1, Zenon
  <2> QED BY <2>1, <2>2
<1> QED BY <1>4, Zenon

\* rq_take_nolock finds a thread of the queue, whose locks are free.
LEMMA FirstTakeableIs ==
    ASSUME TypeOK, NEW v \in Harts, NEW h \in Harts, Takeable(v, h) # {}
    PROVE  FirstTakeable(v, h) \in Threads /\ hart_lock[FirstTakeable(v, h)] = None
<1> DEFINE S == Takeable(v, h)
           first == CHOOSE i \in S : \A j \in S : i <= j
<1>1. queue[v] \in Seq(Threads) /\ S \subseteq 1..Len(queue[v])
  BY Zenon DEF TypeOK, Takeable
<1>2. S \subseteq Nat
  BY <1>1
<1>4. \E i \in S : \A j \in S : i <= j
  <2> HIDE DEF S
  <2> QED BY <1>2, LeastOf, Zenon DEF S
<1>5. first \in S
  BY <1>4, Zenon
<1>6. CanTake(queue[v][first], h)
  BY <1>5, Zenon DEF Takeable
<1>7. queue[v][first] \in Threads
  BY <1>1, <1>5
<1> QED BY <1>6, <1>7, Zenon DEF FirstTakeable, CanTake

\* The same for the hart's own queue, None if nothing is found.
LEMMA OwnIs ==
    ASSUME TypeOK, NEW h \in Harts
    PROVE  Own(h) \in Threads \cup {None} /\ (Own(h) # None => Own(h) \in Threads /\ hart_lock[Own(h)] = None)
  BY FirstTakeableIs, Zenon DEF Own

\* The invariant holds when the scheduler starts.
LEMMA InitInv == Init => Inv
<1> SUFFICES ASSUME Init PROVE Inv
  BY Zenon
<1>1. TypeOK
  BY SetsAssumption DEF Init, TypeOK, Contexts
<1> QED
  BY <1>1, SetsAssumption, Zenon DEF Init, Inv, WakerSet, UserHoldsLock, Uses, UnlockPlace, NextPlace, EnterOther, Contexts

\* Every step keeps the types.
LEMMA TypeStep == TypeOK /\ WakerSet /\ [Next]_vars => TypeOK'
<1> SUFFICES ASSUME TypeOK, WakerSet, [Next]_vars PROVE TypeOK'
  BY Zenon
<1> USE SetsAssumption DEF Contexts, Goto
<1>1. CASE UNCHANGED vars
  BY <1>1, Zenon DEF TypeOK, vars, threadVars, hartVars, localVars
<1>2. ASSUME NEW h \in Harts, Irq(h) \/ IdleCheck(h) \/ IdleHalt(h) PROVE TypeOK'
  <2>1. CASE Irq(h)
    BY <2>1, Zenon DEF TypeOK, Irq, threadVars
  <2>2. CASE IdleCheck(h)
    BY <2>2, Zenon DEF TypeOK, IdleCheck, threadVars, localVars
  <2>3. CASE IdleHalt(h)
    BY <2>3, Zenon DEF TypeOK, IdleHalt, Halt, threadVars, localVars
  <2> QED BY <1>2, <2>1, <2>2, <2>3, Zenon
<1>3. ASSUME NEW h \in Harts, IrqStart(h) PROVE TypeOK'
  <2>1. need_resched' \in [Threads -> BOOLEAN] /\ yield_await' \in [Threads -> BOOLEAN]
    BY <1>3, Zenon DEF TypeOK, IrqStart, Preemptible
  <2> QED BY <1>3, <2>1, Zenon DEF TypeOK, IrqStart
<1>4. ASSUME NEW h \in Harts, IrqLock(h) PROVE TypeOK'
  BY <1>4, Zenon DEF TypeOK, IrqLock, hartVars
<1>5. ASSUME NEW h \in Harts, IrqKeep(h) PROVE TypeOK'
  <2>1. queue' \in [Harts -> Seq(Threads)]
    BY <1>5, WithoutType, Zenon DEF TypeOK, IrqKeep, Keep
  <2> QED BY <1>5, <2>1, Zenon DEF TypeOK, IrqKeep, Keep
<1>6. ASSUME NEW h \in Harts, IrqLeave(h) PROVE TypeOK'
  <2>1. Own(h) \in Threads \cup {None}
    BY OwnIs, ZenonT(30)
  <2>2. queue' \in [Harts -> Seq(Threads)]
    BY <1>6, WithoutType DEF TypeOK, IrqLeave, Leave, CurrIs
  <2> QED BY <1>6, <2>1, <2>2, Zenon DEF TypeOK, IrqLeave, Leave, CurrIs
<1>7. ASSUME NEW h \in Harts, NEW v \in Harts, StealFrom(h, v) PROVE TypeOK'
  <2>1. FirstTakeable(v, h) \in Threads
    BY <1>7, FirstTakeableIs, Zenon DEF StealFrom
  <2>2. queue' \in [Harts -> Seq(Threads)]
    BY <1>7, WithoutType, Zenon DEF TypeOK, StealFrom
  <2> QED BY <1>7, <2>1, <2>2, Zenon DEF TypeOK, StealFrom
<1>8. ASSUME NEW h \in Harts, StealNothing(h) PROVE TypeOK'
  BY <1>8, Zenon DEF TypeOK, StealNothing, threadVars, hartVars
<1>9. ASSUME NEW h \in Harts, IrqSwitch(h) PROVE TypeOK'
  BY <1>9, Zenon DEF TypeOK, IrqSwitch
<1>10. ASSUME NEW h \in Harts, SchedEnter(h) PROVE TypeOK'
  BY <1>10, Zenon DEF TypeOK, SchedEnter
<1>11. ASSUME NEW h \in Harts, NEW t \in Threads, ThreadStep(t, h) PROVE TypeOK'
  <2>1. ASSUME NEW i \in BOOLEAN, SchedDequeue(t, h, i) PROVE TypeOK'
    <3>1. queue' \in [Harts -> Seq(Threads)]
      BY <2>1, WithoutType DEF TypeOK, SchedDequeue, Unlinked
    <3> QED BY <2>1, <3>1, Zenon DEF TypeOK, SchedDequeue
  <2>2. CASE SchedYield(t, h)
    BY <2>2, Zenon DEF TypeOK, SchedYield
  <2>3. CASE YieldReturn(t, h)
    BY <2>3, Zenon DEF TypeOK, YieldReturn, threadVars, hartVars
  <2>4. CASE SchedTerminate(t, h)
    <3>1. queue' \in [Harts -> Seq(Threads)]
      BY <2>4, WithoutType, Zenon DEF TypeOK, SchedTerminate, Unlinked
    <3> QED BY <2>4, <3>1, Zenon DEF TypeOK, SchedTerminate
  <2>5. CASE PreemptDisable(t, h)
    BY <2>5 DEF TypeOK, PreemptDisable, hartVars, localVars
  <2>6. CASE PreemptEnable(t, h)
    BY <2>6 DEF TypeOK, PreemptEnable, hartVars
  <2> QED BY <1>11, <2>1, <2>2, <2>3, <2>4, <2>5, <2>6, Zenon DEF ThreadStep
<1>12. ASSUME NEW h \in Harts, NEW c \in Contexts, WakePush(c, h) PROVE TypeOK'
  <2>1. who[c] \in Threads /\ target[c] \in Harts
    BY <1>12, Zenon DEF WakerSet, WakePush
  <2> QED BY <1>12, <2>1 DEF TypeOK, WakePush
<1>13. ASSUME NEW h \in Harts, NEW c \in Contexts, KickTarget(c, h) \/ KickBusy(c, h) \/ KickScan(c, h) PROVE TypeOK'
  <2>1. CASE KickTarget(c, h)
    BY <2>1, Zenon DEF TypeOK, KickTarget, Back, threadVars
  <2>2. CASE KickBusy(c, h)
    BY <2>2, Zenon DEF TypeOK, KickBusy, threadVars, hartVars
  <2>3. CASE KickScan(c, h)
    BY <2>3, Zenon DEF TypeOK, KickScan, Back, threadVars
  <2> QED BY <1>13, <2>1, <2>2, <2>3, Zenon
<1>14. ASSUME NEW h \in Harts, NEW c \in Contexts, NEW t \in Threads, SchedEnqueue(c, t, h) PROVE TypeOK'
  <2>1. Targets(t, h) \subseteq Harts
    BY BoundAssumption DEF TypeOK, Targets
  <2> QED BY <1>14, <2>1 DEF TypeOK, SchedEnqueue, WakeChoose, hartVars
<1>15. ASSUME NEW h \in Harts, NEW c \in Contexts, NEW t \in Threads, SchedKickRunning(c, t, h) PROVE TypeOK'
  BY <1>15, Zenon DEF TypeOK, SchedKickRunning, threadVars, localVars
<1> QED
  BY <1>1, <1>2, <1>3, <1>4, <1>5, <1>6, <1>7, <1>8, <1>9, <1>10, <1>11, <1>12, <1>13, <1>14, <1>15, Zenon
  DEF Next, Handler, Waking

\* A context that is waking a thread has said which, and where it goes.
LEMMA WakerStep == TypeOK /\ WakerSet /\ [Next]_vars => WakerSet'
<1> SUFFICES ASSUME TypeOK, WakerSet, [Next]_vars PROVE WakerSet'
  BY Zenon
<1>0. /\ pc \in [Contexts -> HartPlaces \cup ThreadPlaces]
      /\ who \in [Contexts -> Threads \cup {None}]
      /\ target \in [Contexts -> Harts \cup {None}]
  BY Zenon DEF TypeOK, HartPlaces, ThreadPlaces
<1> USE SetsAssumption, <1>0 DEF Contexts, Goto, WakerSet
<1>1. CASE UNCHANGED vars
  BY <1>1, Zenon DEF vars, localVars
<1>2. ASSUME NEW h \in Harts, Irq(h) \/ IdleCheck(h) \/ IdleHalt(h) PROVE WakerSet'
  BY <1>2, ZenonT(30) DEF Irq, IdleCheck, IdleHalt, Halt, localVars
<1>3. ASSUME NEW h \in Harts, Handler(h) PROVE WakerSet'
  BY <1>3 DEF Handler, IrqStart, IrqLock, IrqKeep, Keep, IrqLeave, Leave, StealNothing, StealFrom, IrqSwitch, SchedEnter
<1>4. ASSUME NEW h \in Harts, NEW t \in Threads, ThreadStep(t, h) PROVE WakerSet'
  BY <1>4 DEF ThreadStep, SchedDequeue, SchedYield, YieldReturn, SchedTerminate, PreemptDisable, PreemptEnable, localVars
<1>5. ASSUME NEW h \in Harts, NEW c \in Contexts, Waking(c, h) PROVE WakerSet'
  <2>1. CASE WakePush(c, h)
    BY <2>1, Zenon DEF WakePush
  <2>2. CASE KickTarget(c, h)
    BY <2>2, Zenon DEF KickTarget, Back
  <2>3. CASE KickBusy(c, h)
    BY <2>3, Zenon DEF KickBusy
  <2>4. CASE KickScan(c, h)
    BY <2>4, Zenon DEF KickScan, Back
  <2> QED BY <1>5, <2>1, <2>2, <2>3, <2>4, Zenon DEF Waking
<1>6. ASSUME NEW h \in Harts, NEW c \in Contexts, NEW t \in Threads, SchedEnqueue(c, t, h) PROVE WakerSet'
  <2>1. Targets(t, h) \subseteq Harts
    BY BoundAssumption DEF TypeOK, Targets
  <2> QED BY <1>6, <2>1 DEF SchedEnqueue, WakeChoose
<1>7. ASSUME NEW h \in Harts, NEW c \in Contexts, NEW t \in Threads, SchedKickRunning(c, t, h) PROVE WakerSet'
  BY <1>7, Zenon DEF SchedKickRunning, localVars
<1> HIDE SetsAssumption, <1>0 DEF WakerSet
<1> QED BY <1>1, <1>2, <1>3, <1>4, <1>5, <1>6, <1>7, Zenon DEF Next

\* The part of the invariant about hart_lock and the handler's locals.
LockPart == UserHoldsLock /\ UnlockPlace /\ NextPlace /\ EnterOther

\* A step that leaves them alone and moves no hart into or out of a switch.
LEMMA LockFrame ==
    ASSUME TypeOK, LockPart, UNCHANGED <<hart_lock, curr, next, unlock>>,
           \A h \in Harts : pc[h] \in {"steal", "switch", "enter"} => pc'[h] = pc[h],
           \A h \in Harts : pc'[h] = "enter" => pc[h] = "enter"
    PROVE  LockPart'
<1>1. UserHoldsLock'
  BY Zenon DEF LockPart, UserHoldsLock, Uses
<1>2. UnlockPlace'
  BY Zenon DEF LockPart, UnlockPlace
<1>3. NextPlace'
  BY Zenon DEF LockPart, NextPlace
<1>4. EnterOther'
  BY Zenon DEF LockPart, EnterOther
<1> QED BY <1>1, <1>2, <1>3, <1>4, Zenon DEF LockPart

\* A hart takes a thread nobody uses.
LEMMA TakeStep ==
    ASSUME TypeOK, LockPart, NEW h \in Harts, NEW t \in Threads, hart_lock[t] = None,
           hart_lock' = [hart_lock EXCEPT ![t] = h],
           next' = [next EXCEPT ![h] = t], UNCHANGED curr,
           unlock' = [unlock EXCEPT ![h] = unlock'[h]], unlock'[h] \in {unlock[h], curr[h], None},
           pc' = [pc EXCEPT ![h] = "switch"]
    PROVE  LockPart'
<1>1. \A g \in Harts : ~Uses(g, t)
  BY SetsAssumption, Zenon DEF LockPart, UserHoldsLock
<1> USE SetsAssumption DEF Contexts, TypeOK
<1>2. \A g \in Harts : curr[g] # t /\ next[g] # t /\ unlock[g] # t
  BY <1>1, Zenon DEF Uses
<1>3. UserHoldsLock'
  BY <1>2 DEF LockPart, UserHoldsLock, Uses
<1>4. UnlockPlace' /\ EnterOther'
  BY DEF LockPart, UnlockPlace, EnterOther
<1>5. NextPlace'
  BY <1>2 DEF LockPart, NextPlace
<1> QED BY <1>3, <1>4, <1>5, Zenon DEF LockPart

\* Every step keeps that part.
LEMMA LockStep == TypeOK /\ LockPart /\ [Next]_vars => LockPart'
<1> SUFFICES ASSUME TypeOK, LockPart, [Next]_vars PROVE LockPart'
  BY Zenon
<1> USE SetsAssumption DEF Contexts, Goto
<1>1. CASE UNCHANGED vars
  BY <1>1, LockFrame, Zenon DEF vars, threadVars, hartVars, localVars
<1>2. ASSUME NEW h \in Harts, Irq(h) \/ IdleCheck(h) \/ IdleHalt(h) PROVE LockPart'
  <2>1. CASE Irq(h)
    BY <2>1, LockFrame, Zenon DEF TypeOK, Irq, InterruptsOn, threadVars
  <2>2. CASE IdleCheck(h) \/ IdleHalt(h)
    BY <2>2, LockFrame, Zenon DEF IdleCheck, IdleHalt, Halt, threadVars, localVars
  <2> QED BY <1>2, <2>1, <2>2, Zenon
<1>3. ASSUME NEW h \in Harts, IrqStart(h) \/ IrqLock(h) \/ IrqKeep(h) PROVE LockPart'
  BY <1>3, LockFrame, ZenonT(30) DEF TypeOK, IrqStart, IrqLock, IrqKeep, Keep, hartVars
<1>4. ASSUME NEW h \in Harts, IrqLeave(h) PROVE LockPart'
  <2>1. unlock[h] = None /\ next[h] = None
    BY <1>4, Zenon DEF LockPart, UnlockPlace, NextPlace, IrqLeave, Leave
  <2>2. unlock' = [unlock EXCEPT ![h] = unlock'[h]] /\ unlock'[h] \in {curr[h], None} /\ UNCHANGED curr
    BY <1>4, ZenonT(30) DEF IrqLeave, Leave, TypeOK
  <2>3. CASE Own(h) = None
    <3>1. hart_lock' = hart_lock /\ pc' = [pc EXCEPT ![h] = "steal"] /\ next' = next
      BY <1>4, <2>1, <2>3 DEF IrqLeave, Leave, TypeOK
    <3> QED BY <2>1, <2>2, <3>1 DEF LockPart, UserHoldsLock, Uses, UnlockPlace, NextPlace, EnterOther, TypeOK
  <2>4. CASE Own(h) # None
    <3>1. Own(h) \in Threads /\ hart_lock[Own(h)] = None
      BY <2>4, OwnIs, Zenon
    <3>2. /\ hart_lock' = [hart_lock EXCEPT ![Own(h)] = h]
          /\ next' = [next EXCEPT ![h] = Own(h)]
          /\ pc' = [pc EXCEPT ![h] = "switch"]
      BY <1>4, <2>4, Zenon DEF IrqLeave, Leave, TypeOK
    <3> QED BY <2>2, <3>1, <3>2, TakeStep, Zenon
  <2> QED BY <2>3, <2>4, Zenon
<1>5. ASSUME NEW h \in Harts, NEW v \in Harts, StealFrom(h, v) PROVE LockPart'
  <2>1. FirstTakeable(v, h) \in Threads /\ hart_lock[FirstTakeable(v, h)] = None
    BY <1>5, FirstTakeableIs, Zenon DEF StealFrom
  <2>2. /\ hart_lock' = [hart_lock EXCEPT ![FirstTakeable(v, h)] = h]
        /\ next' = [next EXCEPT ![h] = FirstTakeable(v, h)]
        /\ pc' = [pc EXCEPT ![h] = "switch"]
        /\ UNCHANGED <<curr, unlock>>
    BY <1>5, Zenon DEF StealFrom
  <2>3. unlock' = [unlock EXCEPT ![h] = unlock'[h]] /\ unlock'[h] = unlock[h]
    BY <2>2, Zenon DEF TypeOK
  <2> QED BY <2>1, <2>2, <2>3, TakeStep, Zenon
<1>6. ASSUME NEW h \in Harts, StealNothing(h) PROVE LockPart'
  BY <1>6 DEF StealNothing, threadVars, hartVars, LockPart, UserHoldsLock, Uses, UnlockPlace, NextPlace, EnterOther, TypeOK
<1>7. ASSUME NEW h \in Harts, IrqSwitch(h) PROVE LockPart'
  <2>1. UserHoldsLock'
    BY <1>7, Zenon DEF IrqSwitch, LockPart, UserHoldsLock, Uses, TypeOK
  <2>2. UnlockPlace' /\ NextPlace'
    BY <1>7, Zenon DEF IrqSwitch, LockPart, UnlockPlace, NextPlace, TypeOK
  <2>3. EnterOther'
    BY <1>7, Zenon DEF IrqSwitch, LockPart, NextPlace, EnterOther, TypeOK
  <2> QED BY <2>1, <2>2, <2>3, Zenon DEF LockPart
<1>8. ASSUME NEW h \in Harts, SchedEnter(h) PROVE LockPart'
  <2>1. next[h] = None /\ (unlock[h] # None => curr[h] # unlock[h])
    BY <1>8, Zenon DEF SchedEnter, LockPart, NextPlace, EnterOther
  <2>2. UserHoldsLock'
    BY <1>8, <2>1 DEF SchedEnter, LockPart, UserHoldsLock, Uses, TypeOK
  <2>3. UnlockPlace'
    BY <1>8, Zenon DEF SchedEnter, LockPart, UnlockPlace, TypeOK
  <2>4. NextPlace'
    BY <1>8, Zenon DEF SchedEnter, LockPart, NextPlace, TypeOK
  <2>5. EnterOther'
    BY <1>8, ZenonT(30) DEF SchedEnter, LockPart, EnterOther, TypeOK
  <2> QED BY <2>2, <2>3, <2>4, <2>5, Zenon DEF LockPart
<1>9. ASSUME NEW h \in Harts, NEW t \in Threads, ThreadStep(t, h) PROVE LockPart'
  BY <1>9, LockFrame DEF TypeOK, ThreadStep, SchedDequeue, SchedYield, YieldReturn, SchedTerminate, PreemptDisable, PreemptEnable, threadVars, hartVars, localVars
<1>10. ASSUME NEW h \in Harts, NEW c \in Contexts, Waking(c, h) PROVE LockPart'
  BY <1>10, LockFrame, Zenon DEF TypeOK, Waking, WakePush, KickTarget, KickBusy, KickScan, Back, threadVars, hartVars
<1>11. ASSUME NEW h \in Harts, NEW c \in Contexts, NEW t \in Threads, SchedEnqueue(c, t, h) \/ SchedKickRunning(c, t, h) PROVE LockPart'
  BY <1>11, LockFrame, Zenon DEF TypeOK, SchedEnqueue, WakeChoose, SchedKickRunning, Back, threadVars, hartVars, localVars
<1> QED BY <1>1, <1>2, <1>3, <1>4, <1>5, <1>6, <1>7, <1>8, <1>9, <1>10, <1>11, Zenon DEF Next, Handler

\* The invariant holds in every state of every behaviour.
THEOREM Invariance == Spec => []Inv
<1>1. Inv /\ [Next]_vars => Inv'
  BY TypeStep, WakerStep, LockStep, Zenon DEF Inv, LockPart
<1> QED BY InitInv, <1>1, PTL DEF Spec

\* The types are right for any sets of threads and harts.
THEOREM SchedTypes == Spec => []TypeOK
<1>1. Inv => TypeOK
  BY Zenon DEF Inv
<1> QED BY Invariance, <1>1, PTL

\* However many threads and harts there are, no thread's stack is used by two
\* harts: what rq_take_nolock's try of hart_lock and sched_enter's late release
\* of it are for.
THEOREM SchedOneHart == Spec => []OneHartPerThread
<1>1. Inv => OneHartPerThread
  BY Zenon DEF Inv, UserHoldsLock, OneHartPerThread
<1> QED BY Invariance, <1>1, PTL

-------------------------------------------------------------------------------
\* What rq_take_nolock finds: a thread of the queue it may have.
LEMMA TakenIs ==
    ASSUME TypeOK, NEW v \in Harts, NEW h \in Harts, Takeable(v, h) # {}
    PROVE  FirstTakeable(v, h) \in Threads \cap On(queue[v]) /\ CanTake(FirstTakeable(v, h), h)
<1> DEFINE S == Takeable(v, h)
           first == CHOOSE i \in S : \A j \in S : i <= j
<1>1. S \subseteq 1..Len(queue[v]) /\ S \subseteq Nat
  BY DEF TypeOK, Takeable
<1>2. \E i \in S : \A j \in S : i <= j
  <2> HIDE DEF S
  <2> QED BY <1>1, LeastOf, Zenon DEF S
<1>3. first \in S
  BY <1>2, Zenon
<1>4. FirstTakeable(v, h) \in On(queue[v]) /\ CanTake(FirstTakeable(v, h), h)
  BY <1>1, <1>3, Zenon DEF Takeable, FirstTakeable, On
<1> QED BY <1>4, FirstTakeableIs, Zenon

\* So it is in every state.
LEMMA TypesTake == TypeOK => TakesQueued
  BY TakenIs, Zenon DEF TakesQueued

\* The second part holds when the scheduler starts too.
LEMMA InitWhole == Init => Whole
<1> SUFFICES ASSUME Init PROVE Whole
  BY Zenon
<1>1. Once /\ HeldQueued /\ PushHome
  <2>1. \A h \in Harts : queue[h] = <<>>
    BY Zenon DEF Init
  <2>2. On(<<>>) = {} /\ NoDuplicates(<<>>)
    BY DEF On, NoDuplicates
  <2> QED BY <2>1, <2>2, SetsAssumption, Zenon DEF Init, Once, HeldQueued, PushHome, Contexts
<1>2. InPlaces /\ LockHasHolder /\ PushHolds /\ PickHolds /\ LockHasCurr /\ Held
  BY SetsAssumption, Zenon DEF Init, InPlaces, HartPlaces, ThreadPlaces, LockHasHolder, PushHolds, PickHolds, LockHasCurr, Held, Contexts
<1>3. NextRuns /\ LeftStopped /\ CurrRuns /\ YieldedRuns /\ DeadKept /\ FreeUnused
  BY SetsAssumption, Zenon DEF Init, NextRuns, LeftStopped, CurrRuns, YieldedRuns, DeadKept, FreeUnused
<1>4. Unpreempted /\ ActiveHasCurr /\ HaltedHartIsKicked
  BY SetsAssumption, Zenon DEF Init, Unpreempted, ActiveHasCurr, HaltedHartIsKicked
<1> QED BY <1>1, <1>2, <1>3, <1>4, InitInv, TypesTake, Zenon DEF Whole, Inv

\* Every step keeps both parts.
LEMMA WholeStep == Whole /\ [Next]_vars => Whole'
<1> SUFFICES ASSUME Whole, [Next]_vars PROVE Whole'
  BY Zenon
<1>1. Inv'
  BY TypeStep, WakerStep, LockStep, Zenon DEF Whole, Inv, LockPart
<1>2. (InPlaces /\ LockHasHolder /\ PushHolds /\ PickHolds /\ LockHasCurr)'
  BY PlacesStep, HolderStep, PushStep, PickStep, CurrStep, Zenon
<1>3. (Once /\ HeldQueued /\ PushHome /\ Held)'
  BY OnceStep, HeldQueuedStep, HomeStep, HeldStep, Zenon
<1>4. (NextRuns /\ LeftStopped /\ CurrRuns /\ YieldedRuns)'
  BY NextStep, LeftStep, CurrRunsStep, YieldedStep, Zenon
<1>5. (DeadKept /\ FreeUnused /\ Unpreempted /\ ActiveHasCurr /\ HaltedHartIsKicked)'
  BY DeadStep, FreeStep, UnpreemptedStep, ActiveStep, HaltStep, Zenon
<1>6. TypeOK' => TakesQueued'
  BY TypesTake, PTL
<1> QED BY <1>1, <1>2, <1>3, <1>4, <1>5, <1>6, Zenon DEF Whole, Inv

\* The whole invariant holds in every state of every behaviour.
THEOREM WholeInvariance == Spec => []Whole
  BY InitWhole, WholeStep, PTL DEF Spec

\* What the queues hold, counted.
LEMMA CountedOnce == ASSUME Whole PROVE QueuedOnce
<1>1. Once /\ queue \in [Harts -> Seq(Threads)]
  BY QueueFacts, Zenon
<1> SUFFICES ASSUME NEW t \in Threads
             PROVE  Cardinality(QueuedAt(t)) = IF state[t] = "runnable" THEN 1 ELSE 0
  BY Zenon DEF QueuedOnce
<1>2. \A h \in Harts : \A i \in 1..Len(queue[h]) : queue[h][i] = t => t \in On(queue[h])
  BY Zenon DEF On
<1>3. CASE state[t] = "runnable"
  <2>1. PICK h \in Harts : t \in On(queue[h])
    BY <1>1, <1>3, Zenon DEF Once
  <2>2. PICK i \in 1..Len(queue[h]) : queue[h][i] = t
    BY <2>1, Zenon DEF On
  <2>3. \A g \in Harts : \A j \in 1..Len(queue[g]) : queue[g][j] = t => g = h /\ j = i
    BY <1>1, <1>2, <2>1, <2>2 DEF Once, NoDuplicates
  <2>4. QueuedAt(t) = {<<h, i>>}
    BY <2>2, <2>3 DEF QueuedAt
  <2> QED BY <1>3, <2>4, FS_Singleton, Zenon
<1>4. CASE state[t] # "runnable"
  <2>1. QueuedAt(t) = {}
    BY <1>1, <1>2, <1>4 DEF Once, QueuedAt
  <2> QED BY <1>4, <2>1, FS_EmptySet, Zenon
<1> QED BY <1>3, <1>4, Zenon

\* Whatever threads block, yield, end, wake each other and are stolen on however many harts: each is
\* where its state says, once; a bound one and a lock holder stay; and no hart sleeps on its queue.
THEOREM SchedAgrees == Spec => []HartsAgree
<1>1. ASSUME Whole PROVE HartsAgree
  <2>1. TypeOK /\ UserHoldsLock
    BY <1>1, Zenon DEF Whole, Inv
  <2>2. WokenOnItsHart
    <3> SUFFICES ASSUME NEW h \in Harts, pc[h] = "pick", CurrIs(h, "runnable") PROVE InQueue(curr[h], h)
      BY Zenon DEF WokenOnItsHart
    <3>1. curr[h] \in Threads /\ state[curr[h]] = "runnable"
      BY <2>1, Zenon DEF TypeOK, CurrIs
    <3>2. hart_lock[curr[h]] = h
      BY <2>1, <3>1, Zenon DEF UserHoldsLock, Uses
    <3>3. curr[h] \in On(queue[h])
      BY <1>1, <3>1, <3>2, Zenon DEF Whole, HeldQueued
    <3> QED BY <3>3, Zenon DEF On, InQueue
  <2>3. DeadThreadKept
    BY <1>1, Zenon DEF Whole, DeadThreadKept, DeadKept
  <2>4. ReapedUnused
    <3> SUFFICES ASSUME NEW t \in Threads, state[t] = "free"
                 PROVE  (\A h \in Harts : ~Uses(h, t) /\ ~InQueue(t, h) /\ dead_thread[h] # t) /\ sched_lock[t] = None
      BY Zenon DEF ReapedUnused
    <3>1. \A h \in Harts : ~Uses(h, t) /\ dead_thread[h] # t
      BY <1>1, Zenon DEF Whole, FreeUnused
    <3>2. \A h \in Harts : t \notin On(queue[h])
      BY <1>1, Zenon DEF Whole, Once
    <3>3. sched_lock[t] = None
      <4>1. LockHasHolder /\ PushHolds /\ sched_lock[t] \in Contexts \cup {None}
        BY <1>1, <2>1, Zenon DEF Whole, TypeOK
      <4> QED BY <3>1, <4>1, Zenon DEF LockHasHolder, PushHolds, Uses
    <3> QED BY <3>1, <3>2, <3>3, Zenon DEF InQueue, On
  <2>5. LockHolderStays
    <3> SUFFICES ASSUME NEW t \in Threads, preempt_count[t] > 0
                 PROVE  \E h \in Harts : curr[h] = t /\ pc[h] \notin {"switch", "enter", "steal"}
      BY Zenon DEF LockHolderStays
    <3>1. Unpreempted /\ preempt_count[t] # 0
      BY <1>1 DEF Whole
    <3> QED BY <3>1, Zenon DEF Unpreempted
  <2>6. BoundThreadStays
    BY <1>1, <2>1, Zenon DEF Whole, Held, UserHoldsLock, BoundThreadStays
  <2>7. QueuedOnce /\ HaltedHartIsKicked
    BY <1>1, CountedOnce, Zenon DEF Whole
  <2> QED BY <2>1, <2>2, <2>3, <2>4, <2>5, <2>6, <2>7, Zenon DEF HartsAgree, Accounted, StaysPut
<1> QED BY <1>1, WholeInvariance, PTL

\* Every step takes each thread along its life, or leaves it.
LEMMA LifeStep == ASSUME Whole, [Next]_vars 
    PROVE  \A x \in Threads : Life!Woken(x) \/ Life!Taken(x) \/ Life!Kept(x) \/ Life!Left(x) \/ Life!Reaped(x) \/ Life!Stops(x) \/ Life!Same(x)
<1> DEFINE Each == \A x \in Threads : Life!Woken(x) \/ Life!Taken(x) \/ Life!Kept(x) \/ Life!Left(x) \/ Life!Reaped(x) \/ Life!Stops(x) \/ Life!Same(x)
<1>1. /\ state \in [Threads -> {"blocked", "runnable", "running", "dead", "free"}]
      /\ hart_lock \in [Threads -> Harts \cup {None}]
  BY Zenon DEF Whole, Inv, TypeOK, HartPlaces, ThreadPlaces
<1>2. UserHoldsLock /\ CurrRuns /\ LeftStopped /\ PushHolds /\ DeadKept
  BY Zenon DEF Whole, Inv
<1> USE SetsAssumption, <1>1, <1>2 DEF Life!Same, Life!Becomes
<1>3. CASE Quiet
  BY <1>3, Zenon DEF Quiet
<1>4. ASSUME NEW h \in Harts, IrqStart(h) PROVE Each
  BY <1>4 DEF IrqStart, Preemptible, CurrIs, Goto, threadVars, hartVars, localVars, DeadKept, Life!Reaped
<1>5. ASSUME NEW h \in Harts, IrqKeep(h) PROVE Each
  BY <1>5 DEF IrqKeep, Keep, CurrIs, Goto, threadVars, hartVars, localVars, UserHoldsLock, Uses, Life!Kept
<1>6. ASSUME NEW h \in Harts, IrqLeave(h) PROVE Each
  BY <1>6, TakenWas DEF IrqLeave, Leave, CurrIs, Goto, threadVars, hartVars, localVars, Free, UserHoldsLock, Uses, Life!Taken, Life!Stops
<1>7. ASSUME NEW h \in Harts, NEW v \in Harts, StealFrom(h, v) PROVE Each
  <2> DEFINE t == FirstTakeable(v, h)
  <2>1. Free(t, v, h)
    BY <1>7, TakenWas, Zenon DEF StealFrom
  <2> HIDE DEF t
  <2> QED BY <1>7, <2>1 DEF t, StealFrom, Goto, threadVars, hartVars, localVars, Free, Life!Taken
<1>8. ASSUME NEW h \in Harts, IrqSwitch(h) PROVE Each
  BY <1>8, Zenon DEF IrqSwitch, Goto, threadVars, hartVars, localVars
<1>9. ASSUME NEW h \in Harts, SchedEnter(h) PROVE Each
  BY <1>9 DEF SchedEnter, Goto, threadVars, hartVars, localVars, LeftStopped, Life!Left
<1>10. ASSUME NEW h \in Harts, NEW t \in Threads, NEW i \in BOOLEAN, SchedDequeue(t, h, i) PROVE Each
  BY <1>10 DEF SchedDequeue, RunsOn, Goto, threadVars, hartVars, localVars, UserHoldsLock, CurrRuns, Uses, Life!Stops
<1>11. ASSUME NEW h \in Harts, NEW t \in Threads, SchedTerminate(t, h) PROVE Each
  BY <1>11 DEF SchedTerminate, RunsOn, Goto, threadVars, hartVars, localVars, UserHoldsLock, CurrRuns, Uses, Life!Stops
<1>12. ASSUME NEW h \in Harts, NEW c \in Contexts, WakePush(c, h) PROVE Each
  BY <1>12 DEF WakePush, At, Goto, threadVars, hartVars, localVars, PushHolds, Life!Woken
<1> HIDE SetsAssumption, <1>1, <1>2 DEF Life!Same, Life!Becomes
<1> QED BY <1>3, <1>4, <1>5, <1>6, <1>7, <1>8, <1>9, <1>10, <1>11, <1>12, NotQuiet, Zenon


\* The scheduler implements the life of a thread, for any sets of threads and harts.
THEOREM SchedImplementsLife == Spec => ImplementsThreadLife
<1>1. Init => Life!Init
  BY Zenon DEF Init, Life!Init
<1>2. ASSUME Whole, Whole', [Next]_vars PROVE [Life!Next]_<<state, hart_lock>>
  BY <1>2, LifeStep, Zenon DEF Whole, Inv, TypeOK, Life!Next
<1> QED BY <1>1, <1>2, WholeInvariance, PTL DEF Spec, ImplementsThreadLife, Life!Spec, Life!vars
===============================================================================
