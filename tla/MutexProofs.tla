----------------------------- MODULE MutexProofs -----------------------------
(* Theorems about Mutex for any number of threads and any MaxPending.        *)
EXTENDS Mutex, FiniteSetTheorems, TLAPS

(* The invariant: none of its parts is inductive alone.  That a free mutex   *)
(* with waiters has a wakeup on its way needs mutex_release to see the       *)
(* waiters, hence WaitersCounted; and needs a thread that registers to find  *)
(* no pending wakeup, hence NoPendingWhileListening and ListeningBlocked.    *)
Inv ==
    /\ TypeOK
    /\ MutualExclusion
    /\ WaitersCounted
    /\ ListeningBlocked
    /\ NoPendingWhileListening
    /\ WakeupOnItsWay

Places == {"out", "in", "spin", "await", "listen", "blocked", "woken", "trigger"}

WaitPlaces == {"await", "listen", "blocked", "woken"}

\* Waiting is a finite set.
LEMMA WaitingFinite ==
    IsFiniteSet(Waiting) /\ Cardinality(Waiting) \in Nat
<1>1. Waiting \subseteq Threads
  BY DEF Waiting
<1> QED BY <1>1, ThreadsAssumption, FS_Subset, FS_CardinalityType

\* The count is zero exactly when nobody waits.
LEMMA WaitingEmpty ==
    Cardinality(Waiting) = 0 <=> Waiting = {}
  BY WaitingFinite, FS_EmptySet

\* Types, ownership and the listeners are right at the start.
LEMMA InitInv == Init => Inv
<1> SUFFICES ASSUME Init PROVE Inv
  OBVIOUS
<1>1. Waiting = {}
  BY DEF Init, Waiting
<1>2. WaitersCounted
  BY <1>1, FS_EmptySet DEF Init, WaitersCounted
<1> QED
  BY <1>1, <1>2, ThreadsAssumption, PendingAssumption
  DEF Init, Inv, TypeOK, MutualExclusion, ListeningBlocked, NoPendingWhileListening, WakeupOnItsWay

\* What a step of one thread from place a to place b does to the set of waiters.
LEMMA WaitersMove ==
    ASSUME NEW t \in Threads, NEW b \in Places,
           TypeOK, pc' = [pc EXCEPT ![t] = b]
    PROVE  /\ b \in WaitPlaces => Waiting' = Waiting \cup {t}
           /\ b \notin WaitPlaces => Waiting' = Waiting \ {t}
           /\ t \in Waiting <=> pc[t] \in WaitPlaces
  BY DEF TypeOK, Waiting, WaitPlaces, Places

\* The same for the count.
LEMMA CountMove ==
    ASSUME NEW t \in Threads, NEW b \in Places,
           TypeOK, pc' = [pc EXCEPT ![t] = b]
    PROVE  /\ b \in WaitPlaces /\ pc[t] \in WaitPlaces => Cardinality(Waiting') = Cardinality(Waiting)
           /\ b \notin WaitPlaces /\ pc[t] \notin WaitPlaces => Cardinality(Waiting') = Cardinality(Waiting)
           /\ b \in WaitPlaces /\ pc[t] \notin WaitPlaces => Cardinality(Waiting') = Cardinality(Waiting) + 1
           /\ b \notin WaitPlaces /\ pc[t] \in WaitPlaces => Cardinality(Waiting') = Cardinality(Waiting) - 1
<1>1. /\ b \in WaitPlaces => Waiting' = Waiting \cup {t}
      /\ b \notin WaitPlaces => Waiting' = Waiting \ {t}
      /\ t \in Waiting <=> pc[t] \in WaitPlaces
  BY WaitersMove
<1>2. Cardinality(Waiting \cup {t}) = IF t \in Waiting THEN Cardinality(Waiting) ELSE Cardinality(Waiting) + 1
  BY WaitingFinite, FS_AddElement
<1>3. Cardinality(Waiting \ {t}) = IF t \in Waiting THEN Cardinality(Waiting) - 1 ELSE Cardinality(Waiting)
  BY WaitingFinite, FS_RemoveElement
<1> QED BY <1>1, <1>2, <1>3

\* Everything but the count and the wakeup on its way follows action by action
\* from the definitions.
LEMMA TypeStep == Inv /\ [Next]_vars => TypeOK'
<1> SUFFICES ASSUME Inv, [Next]_vars PROVE TypeOK'
  OBVIOUS
<1> USE ThreadsAssumption, PendingAssumption DEF Inv, TypeOK, Goto
<1>1. CASE UNCHANGED vars
  BY <1>1 DEF vars
<1>2. ASSUME NEW t \in Threads, Acquire(t) \/ AcquireSpin(t) \/ SpinDone(t) \/ AcquireWait(t)
      PROVE TypeOK'
  BY <1>2 DEF Acquire, AcquireSpin, SpinDone, AcquireWait
<1>3. ASSUME NEW t \in Threads, AwaitTake(t) \/ AwaitMiss(t) \/ Listen(t) \/ AwaitFails(t) \/ SpuriousWakeup(t)
      PROVE TypeOK'
  BY <1>3 DEF AwaitTake, AwaitMiss, Listen, AwaitFails, SpuriousWakeup
<1>4. ASSUME NEW t \in Threads, RecheckTake(t)
      PROVE TypeOK'
  <2>1. t \in Waiting
    BY <1>4 DEF RecheckTake, Recheck, Waiting
  <2>2. num_waiters > 0
    BY <2>1, WaitingFinite, WaitingEmpty DEF WaitersCounted
  <2> QED BY <1>4, <2>2 DEF RecheckTake, Recheck
<1>5. ASSUME NEW t \in Threads, RecheckWait(t) \/ Release(t) \/ TriggerPending(t) \/ TriggerWake(t)
      PROVE TypeOK'
  BY <1>5 DEF RecheckWait, Release, GiveUp, TriggerPending, TriggerWake
<1> QED BY <1>1, <1>2, <1>3, <1>4, <1>5 DEF Next, AcquireStep, ReleaseStep

\* A step keeps what relates the owner, the listeners and the pending wakeups: who is
\* past mutex_acquire is the owner, who listens is blocked, and a wakeup is only kept
\* while nobody listens.
LEMMA OwnerStep == Inv /\ [Next]_vars => (MutualExclusion /\ ListeningBlocked /\ NoPendingWhileListening)'
<1> SUFFICES ASSUME Inv, [Next]_vars PROVE (MutualExclusion /\ ListeningBlocked /\ NoPendingWhileListening)'
  OBVIOUS
<1> USE ThreadsAssumption, PendingAssumption
    DEF Inv, TypeOK, Goto, MutualExclusion, ListeningBlocked, NoPendingWhileListening
<1>1. CASE UNCHANGED vars
  BY <1>1 DEF vars
<1>2. ASSUME NEW t \in Threads, Acquire(t) \/ AcquireSpin(t) \/ SpinDone(t) \/ AcquireWait(t)
      PROVE (MutualExclusion /\ ListeningBlocked /\ NoPendingWhileListening)'
  BY <1>2 DEF Acquire, AcquireSpin, SpinDone, AcquireWait
<1>3. ASSUME NEW t \in Threads, AwaitTake(t) \/ AwaitMiss(t) \/ Listen(t) \/ AwaitFails(t) \/ SpuriousWakeup(t)
      PROVE (MutualExclusion /\ ListeningBlocked /\ NoPendingWhileListening)'
  BY <1>3 DEF AwaitTake, AwaitMiss, Listen, AwaitFails, SpuriousWakeup
<1>4. ASSUME NEW t \in Threads, RecheckTake(t) \/ RecheckWait(t) \/ Release(t)
      PROVE (MutualExclusion /\ ListeningBlocked /\ NoPendingWhileListening)'
  BY <1>4 DEF RecheckTake, Recheck, RecheckWait, Release, GiveUp
<1>5. ASSUME NEW t \in Threads, TriggerPending(t) \/ TriggerWake(t)
      PROVE (MutualExclusion /\ ListeningBlocked /\ NoPendingWhileListening)'
  BY <1>5 DEF TriggerPending, TriggerWake
<1> QED BY <1>1, <1>2, <1>3, <1>4, <1>5 DEF Next, AcquireStep, ReleaseStep

\* The count follows every move into and out of the wait.
LEMMA CountStep == Inv /\ [Next]_vars => WaitersCounted'
<1> SUFFICES ASSUME Inv, [Next]_vars PROVE WaitersCounted'
  OBVIOUS
<1> USE DEF Inv, WaitersCounted
<1>1. CASE UNCHANGED vars
  BY <1>1 DEF vars, Waiting
<1>2. ASSUME NEW t \in Threads, Acquire(t) \/ AcquireSpin(t) \/ SpinDone(t) \/ Release(t) \/ TriggerPending(t)
      PROVE WaitersCounted'
  <2>1. PICK b \in Places : /\ pc' = [pc EXCEPT ![t] = b]
                            /\ b \notin WaitPlaces /\ pc[t] \notin WaitPlaces
                            /\ num_waiters' = num_waiters
    BY <1>2 DEF Acquire, AcquireSpin, SpinDone, Release, GiveUp, TriggerPending, Goto, Places, WaitPlaces
  <2> QED BY <2>1, CountMove
<1>3. ASSUME NEW t \in Threads, AcquireWait(t)
      PROVE WaitersCounted'
  <2>1. /\ pc' = [pc EXCEPT ![t] = "await"]
        /\ "await" \in Places /\ "await" \in WaitPlaces /\ pc[t] \notin WaitPlaces
        /\ num_waiters' = num_waiters + 1
    BY <1>3 DEF AcquireWait, Goto, Places, WaitPlaces
  <2> QED BY <2>1, CountMove
<1>4. ASSUME NEW t \in Threads, AwaitTake(t) \/ AwaitMiss(t) \/ Listen(t) \/ AwaitFails(t) \/ SpuriousWakeup(t) \/ RecheckWait(t)
      PROVE WaitersCounted'
  <2>1. PICK b \in Places : /\ pc' = [pc EXCEPT ![t] = b]
                            /\ b \in WaitPlaces /\ pc[t] \in WaitPlaces
                            /\ num_waiters' = num_waiters
    BY <1>4 DEF AwaitTake, AwaitMiss, Listen, AwaitFails, SpuriousWakeup, RecheckWait, Goto, Places, WaitPlaces
  <2> QED BY <2>1, CountMove
<1>5. ASSUME NEW t \in Threads, RecheckTake(t)
      PROVE WaitersCounted'
  <2>1. /\ pc' = [pc EXCEPT ![t] = "in"]
        /\ "in" \in Places /\ "in" \notin WaitPlaces /\ pc[t] \in WaitPlaces
        /\ num_waiters' = num_waiters - 1
    BY <1>5 DEF RecheckTake, Recheck, Goto, Places, WaitPlaces
  <2> QED BY <2>1, CountMove
<1>6. ASSUME NEW t \in Threads, TriggerWake(t)
      PROVE WaitersCounted'
  <2>1. Waiting' = Waiting
    BY <1>6 DEF TriggerWake, Waiting, TypeOK, ListeningBlocked
  <2> QED BY <1>6, <2>1 DEF TriggerWake
<1> QED BY <1>1, <1>2, <1>3, <1>4, <1>5, <1>6 DEF Next, AcquireStep, ReleaseStep

\* A release that leaves waiters behind goes on to trigger, a trigger is kept or
\* taken, and whoever takes it looks at the owner.
LEMMA WakeupStep == Inv /\ [Next]_vars => WakeupOnItsWay'
<1> SUFFICES ASSUME Inv, [Next]_vars PROVE WakeupOnItsWay'
  OBVIOUS
<1> USE ThreadsAssumption, PendingAssumption DEF Inv, TypeOK, Goto, WakeupOnItsWay, Coming
<1>1. CASE UNCHANGED vars
  BY <1>1 DEF vars, Waiting
<1>2. ASSUME NEW t \in Threads, Acquire(t) \/ SpinDone(t) \/ RecheckTake(t)
      PROVE WakeupOnItsWay'
  BY <1>2 DEF Acquire, SpinDone, RecheckTake, Recheck
<1>3. ASSUME NEW t \in Threads, AcquireSpin(t) \/ AcquireWait(t) \/ RecheckWait(t)
      PROVE WakeupOnItsWay'
  BY <1>3 DEF AcquireSpin, AcquireWait, RecheckWait
<1>4. ASSUME NEW t \in Threads, AwaitTake(t) \/ AwaitFails(t) \/ SpuriousWakeup(t)
      PROVE WakeupOnItsWay'
  BY <1>4 DEF AwaitTake, AwaitFails, SpuriousWakeup
<1>5. ASSUME NEW t \in Threads, AwaitMiss(t) \/ Listen(t)
      PROVE WakeupOnItsWay'
  <2>1. t \in Waiting
    BY <1>5 DEF AwaitMiss, Listen, Waiting
  <2>2. owner = NoThread => \E u \in Threads : pc[u] \in {"trigger", "woken"}
    BY <1>5, <2>1 DEF AwaitMiss, Listen
  <2> QED BY <1>5, <2>2 DEF AwaitMiss, Listen
<1>6. ASSUME NEW t \in Threads, Release(t)
      PROVE WakeupOnItsWay'
  <2>1. CASE num_waiters > 0
    BY <1>6, <2>1 DEF Release, GiveUp
  <2>2. CASE ~(num_waiters > 0)
    <3>1. Waiting = {}
      BY <2>2, WaitingFinite, WaitingEmpty DEF WaitersCounted
    <3>2. Waiting' = {}
      BY <1>6, <2>2, <3>1 DEF Release, GiveUp, Waiting
    <3> QED BY <3>2
  <2> QED BY <2>1, <2>2
<1>7. ASSUME NEW t \in Threads, TriggerPending(t)
      PROVE WakeupOnItsWay'
  BY <1>7 DEF TriggerPending
<1>8. ASSUME NEW t \in Threads, TriggerWake(t)
      PROVE WakeupOnItsWay'
  <2>1. PICK u \in Threads : u \in listening
    BY <1>8 DEF TriggerWake
  <2>2. u # t
    BY <1>8, <2>1 DEF TriggerWake, ListeningBlocked
  <2> QED BY <1>8, <2>1, <2>2 DEF TriggerWake
<1> QED BY <1>1, <1>2, <1>3, <1>4, <1>5, <1>6, <1>7, <1>8 DEF Next, AcquireStep, ReleaseStep

\* Inv holds in every reachable state.
THEOREM Invariance == Spec => []Inv
<1>1. Inv /\ [Next]_vars => Inv'
  BY TypeStep, OwnerStep, CountStep, WakeupStep DEF Inv
<1> QED BY InitInv, <1>1, PTL DEF Spec

\* At most the owner is between mutex_acquire and mutex_release, and num_waiters counts
\* exactly the threads in the wait of mutex_acquire.
THEOREM MutexSafe == Spec => []Sound
<1>1. Inv => Sound
  BY DEF Inv, Sound
<1> QED BY <1>1, Invariance, PTL

\* No thread sleeps on a free mutex without a wakeup on its way.
THEOREM MutexNoLostWakeup == Spec => []NoLostWakeup
<1>1. Inv => NoLostWakeup
  <2> SUFFICES ASSUME Inv, owner = NoThread, NEW t \in Threads, pc[t] = "blocked"
               PROVE  \E u \in Threads : pc[u] \in {"trigger", "woken"}
    BY DEF NoLostWakeup
  <2>1. Waiting # {}
    BY DEF Waiting
  <2>2. num_pending = 0
    BY DEF Inv, ListeningBlocked, NoPendingWhileListening
  <2> QED BY <2>1, <2>2 DEF Inv, WakeupOnItsWay, Coming
<1> QED BY <1>1, Invariance, PTL

\* num_waiters is the number of threads inside the wait of mutex_acquire.
THEOREM MutexCounts == Spec => []WaitersCounted
<1>1. Inv => WaitersCounted
  BY DEF Inv
<1> QED BY <1>1, Invariance, PTL

\* The mutex implements the sleeping lock of LockSpec.
THEOREM MutexImplementsLock == Spec => ImplementsLock
<1>1. Init => Lock!Init
  BY DEF Init, Lock!Init
<1>2. Inv /\ [Next]_vars => [Lock!Next]_(Lock!vars)
  <2> SUFFICES ASSUME Inv, [Next]_vars PROVE [Lock!Next]_(Lock!vars)
    OBVIOUS
  <2> USE ThreadsAssumption DEF Inv, TypeOK, MutualExclusion, Goto
  <2>1. CASE UNCHANGED vars
    BY <2>1 DEF vars, Lock!vars
  <2>2. ASSUME NEW t \in Threads, Acquire(t) \/ SpinDone(t) \/ RecheckTake(t)
        PROVE Lock!Take(t)
    BY <2>2 DEF Acquire, SpinDone, RecheckTake, Recheck, Lock!Take
  <2>3. ASSUME NEW t \in Threads, AcquireSpin(t) \/ AcquireWait(t)
        PROVE Lock!Ask(t)
    BY <2>3 DEF AcquireSpin, AcquireWait, Lock!Ask
  <2>4. ASSUME NEW t \in Threads, AwaitTake(t) \/ AwaitMiss(t) \/ Listen(t) \/ AwaitFails(t) \/ SpuriousWakeup(t) \/ RecheckWait(t)
        PROVE UNCHANGED Lock!vars
    BY <2>4 DEF AwaitTake, AwaitMiss, Listen, AwaitFails, SpuriousWakeup, RecheckWait, Lock!vars
  <2>5. ASSUME NEW t \in Threads, Release(t)
        PROVE Lock!LetGo(t)
    BY <2>5 DEF Release, GiveUp, Lock!LetGo
  <2>6. ASSUME NEW t \in Threads, TriggerPending(t) \/ TriggerWake(t)
        PROVE UNCHANGED Lock!vars
    BY <2>6 DEF TriggerPending, TriggerWake, Lock!vars, ListeningBlocked
  <2> QED BY <2>1, <2>2, <2>3, <2>4, <2>5, <2>6 DEF Next, AcquireStep, ReleaseStep, Lock!Next
<1> QED BY <1>1, <1>2, Invariance, PTL DEF Spec, ImplementsLock, Lock!Spec
====
