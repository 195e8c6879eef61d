-------------------------- MODULE SchedQueueProofs ---------------------------
(* That every step of Sched keeps the parts of the invariant on the reaped,   *)
(* the harts' flags, the queues, and a halted hart with work on its own.      *)
EXTENDS SchedStepProofs

\* As in SchedStepProofs, the leaves that go to Zenon say so.
USE SMTT(30)

\* Who is freed is not used.
LEMMA FreeStep == ASSUME Whole, [Next]_vars PROVE FreeUnused'
<1>1. /\ state \in [Threads -> {"blocked", "runnable", "running", "dead", "free"}]
      /\ dead_thread \in [Harts -> Threads \cup {None}]
  BY Zenon DEF Whole, Inv, TypeOK, HartPlaces, ThreadPlaces
<1>2. FreeUnused /\ DeadKept /\ NextRuns /\ LeftStopped /\ UserHoldsLock
  BY Zenon DEF Whole, Inv
<1> USE SetsAssumption, <1>1, <1>2 DEF FreeUnused, Uses
<1>3. CASE Quiet
  BY <1>3 DEF Quiet
<1>4. ASSUME NEW h \in Harts, IrqStart(h) PROVE FreeUnused'
  BY <1>4 DEF IrqStart, DeadKept, NextRuns, LeftStopped, UserHoldsLock
<1>5. ASSUME NEW h \in Harts, IrqKeep(h) PROVE FreeUnused'
  BY <1>5 DEF IrqKeep, Keep
<1>6. ASSUME NEW h \in Harts, IrqLeave(h) PROVE FreeUnused'
  BY <1>6, TakenWas DEF IrqLeave, Leave
<1>7. ASSUME NEW h \in Harts, NEW v \in Harts, StealFrom(h, v) PROVE FreeUnused'
  <2> DEFINE t == FirstTakeable(v, h)
  <2>1. Free(t, v, h)
    BY <1>7, TakenWas, Zenon DEF StealFrom
  <2> HIDE DEF t
  <2> QED BY <1>7, <2>1 DEF t, StealFrom
<1>8. ASSUME NEW h \in Harts, IrqSwitch(h) PROVE FreeUnused'
  BY <1>8 DEF IrqSwitch
<1>9. ASSUME NEW h \in Harts, SchedEnter(h) PROVE FreeUnused'
  BY <1>9 DEF SchedEnter
<1>10. ASSUME NEW h \in Harts, NEW t \in Threads, NEW i \in BOOLEAN, SchedDequeue(t, h, i) PROVE FreeUnused'
  BY <1>10 DEF SchedDequeue
<1>11. ASSUME NEW h \in Harts, NEW t \in Threads, SchedTerminate(t, h) PROVE FreeUnused'
  BY <1>11 DEF SchedTerminate
<1>12. ASSUME NEW h \in Harts, NEW c \in Contexts, WakePush(c, h) PROVE FreeUnused'
  BY <1>12 DEF WakePush
<1> HIDE SetsAssumption, <1>1, <1>2 DEF FreeUnused, Uses
<1> QED BY <1>3, <1>4, <1>5, <1>6, <1>7, <1>8, <1>9, <1>10, <1>11, <1>12, NotQuiet, Zenon

\* Nobody takes the hart from a thread that disabled preemption.
LEMMA UnpreemptedStep == ASSUME Whole, [Next]_vars PROVE Unpreempted'
<1>1. /\ pc \in [Contexts -> HartPlaces \cup ThreadPlaces]
      /\ state \in [Threads -> {"blocked", "runnable", "running", "dead", "free"}]
      /\ preempt_count \in [Threads -> 0..1]
  BY Zenon DEF Whole, Inv, TypeOK, HartPlaces, ThreadPlaces
<1>2. Unpreempted /\ UserHoldsLock /\ PushHolds /\ DeadKept
  BY Zenon DEF Whole, Inv
<1> USE SetsAssumption, <1>1, <1>2 DEF Unpreempted
<1>3. CASE Still
  BY <1>3, Zenon DEF Still, threadVars, localVars
<1>4. ASSUME NEW h \in Harts, Irq(h) PROVE Unpreempted'
  BY <1>4, Zenon DEF Irq, InterruptsOn, Goto, threadVars, hartVars, localVars, Contexts
<1>5. ASSUME NEW h \in Harts, IrqStart(h) PROVE Unpreempted'
  BY <1>5 DEF IrqStart, Preemptible, CurrIs, Goto, DeadKept
<1>6. ASSUME NEW h \in Harts, IrqLock(h) PROVE Unpreempted'
  BY <1>6 DEF IrqLock, Goto, hartVars
<1>7. ASSUME NEW h \in Harts, IrqKeep(h) PROVE Unpreempted'
  BY <1>7 DEF IrqKeep, Keep, Goto
<1>8. ASSUME NEW h \in Harts, IrqLeave(h) PROVE Unpreempted'
  BY <1>8, TakenWas DEF IrqLeave, Leave, Goto, Free, UserHoldsLock, Uses
<1>9. ASSUME NEW h \in Harts, NEW v \in Harts, StealFrom(h, v) PROVE Unpreempted'
  <2> DEFINE t == FirstTakeable(v, h)
  <2>1. Free(t, v, h)
    BY <1>9, TakenWas, Zenon DEF StealFrom
  <2> HIDE DEF t
  <2> QED BY <1>9, <2>1 DEF t, StealFrom, Goto, Free
<1>10. ASSUME NEW h \in Harts, StealNothing(h) PROVE Unpreempted'
  BY <1>10 DEF StealNothing, Goto, threadVars, hartVars
<1>11. ASSUME NEW h \in Harts, IrqSwitch(h) PROVE Unpreempted'
  BY <1>11 DEF IrqSwitch, Goto
<1>12. ASSUME NEW h \in Harts, SchedEnter(h) PROVE Unpreempted'
  BY <1>12 DEF SchedEnter, Goto, UserHoldsLock, Uses
<1>13. ASSUME NEW h \in Harts, NEW t \in Threads, NEW i \in BOOLEAN, SchedDequeue(t, h, i) PROVE Unpreempted'
  BY <1>13 DEF SchedDequeue, Goto
<1>14. ASSUME NEW h \in Harts, NEW t \in Threads, SchedYield(t, h) \/ YieldReturn(t, h) PROVE Unpreempted'
  BY <1>14 DEF SchedYield, YieldReturn, Goto, threadVars, hartVars, Contexts
<1>15. ASSUME NEW h \in Harts, NEW t \in Threads, SchedTerminate(t, h) PROVE Unpreempted'
  BY <1>15 DEF SchedTerminate, Goto
<1>16. ASSUME NEW h \in Harts, NEW t \in Threads, PreemptDisable(t, h) \/ PreemptEnable(t, h) PROVE Unpreempted'
  BY <1>16 DEF PreemptDisable, PreemptEnable, RunsOn, Goto, hartVars, localVars, UserHoldsLock, Contexts, Uses
<1>17. ASSUME NEW h \in Harts, NEW c \in Contexts, WakePush(c, h) PROVE Unpreempted'
  BY <1>17 DEF WakePush, Goto, PushHolds
<1>18. ASSUME NEW h \in Harts, NEW c \in Contexts, Kick(c, h) PROVE Unpreempted'
  BY <1>18, KickMoves DEF Goto, Back, threadVars, Contexts
<1>19. ASSUME NEW h \in Harts, NEW c \in Contexts, NEW t \in Threads, SchedEnqueue(c, t, h) PROVE Unpreempted'
  BY <1>19, Zenon DEF SchedEnqueue, WakeChoose, Back, At, Goto, threadVars, hartVars, localVars, Contexts
<1> HIDE SetsAssumption, <1>1, <1>2 DEF Unpreempted
<1> QED BY <1>3, <1>4, <1>5, <1>6, <1>7, <1>8, <1>9, <1>10, <1>11, <1>12, <1>13, <1>14, <1>15, <1>16, <1>17, <1>18, <1>19, NotStill, Zenon DEF ThreadStep, Waking, Kick

\* A hart is active when it has a thread.
LEMMA ActiveStep == ASSUME Whole, [Next]_vars PROVE ActiveHasCurr'
<1>1. /\ active \in [Harts -> BOOLEAN]
      /\ curr \in [Harts -> Threads \cup {None}]
  BY Zenon DEF Whole, Inv, TypeOK, HartPlaces, ThreadPlaces
<1>2. ActiveHasCurr
  BY Zenon DEF Whole, Inv
<1> USE SetsAssumption, <1>1, <1>2 DEF ActiveHasCurr
<1>3. CASE Quiet
  BY <1>3 DEF Quiet
<1>4. ASSUME NEW h \in Harts, IrqStart(h) PROVE ActiveHasCurr'
  BY <1>4, Zenon DEF IrqStart, Preemptible, CurrIs, Goto, threadVars, hartVars, localVars
<1>5. ASSUME NEW h \in Harts, IrqKeep(h) PROVE ActiveHasCurr'
  BY <1>5, Zenon DEF IrqKeep, Keep, CurrIs, Goto, threadVars, hartVars, localVars
<1>6. ASSUME NEW h \in Harts, IrqLeave(h) PROVE ActiveHasCurr'
  BY <1>6, TakenWas, Zenon DEF IrqLeave, Leave, CurrIs, Goto, threadVars, hartVars, localVars, Free
<1>7. ASSUME NEW h \in Harts, NEW v \in Harts, StealFrom(h, v) PROVE ActiveHasCurr'
  <2> DEFINE t == FirstTakeable(v, h)
  <2>1. Free(t, v, h)
    BY <1>7, TakenWas, Zenon DEF StealFrom
  <2> HIDE DEF t
  <2> QED BY <1>7, <2>1, Zenon DEF t, StealFrom, Goto, threadVars, hartVars, localVars, Free
<1>8. ASSUME NEW h \in Harts, IrqSwitch(h) PROVE ActiveHasCurr'
  BY <1>8, Zenon DEF IrqSwitch, Goto, threadVars, hartVars, localVars
<1>9. ASSUME NEW h \in Harts, SchedEnter(h) PROVE ActiveHasCurr'
  BY <1>9, Zenon DEF SchedEnter, Goto, threadVars, hartVars, localVars
<1>10. ASSUME NEW h \in Harts, NEW t \in Threads, NEW i \in BOOLEAN, SchedDequeue(t, h, i) PROVE ActiveHasCurr'
  BY <1>10, Zenon DEF SchedDequeue, RunsOn, Goto, threadVars, hartVars, localVars
<1>11. ASSUME NEW h \in Harts, NEW t \in Threads, SchedTerminate(t, h) PROVE ActiveHasCurr'
  BY <1>11, Zenon DEF SchedTerminate, RunsOn, Goto, threadVars, hartVars, localVars
<1>12. ASSUME NEW h \in Harts, NEW c \in Contexts, WakePush(c, h) PROVE ActiveHasCurr'
  BY <1>12, Zenon DEF WakePush, At, Goto, threadVars, hartVars, localVars
<1> HIDE SetsAssumption, <1>1, <1>2 DEF ActiveHasCurr
<1> QED BY <1>3, <1>4, <1>5, <1>6, <1>7, <1>8, <1>9, <1>10, <1>11, <1>12, NotQuiet, Zenon

(* Queues as sets *)

\* Unlinking leaves a queue of threads.
LEMMA WithoutType ==
    ASSUME NEW q \in Seq(Threads), NEW t
    PROVE  Without(q, t) \in Seq(Threads)
<1> DEFINE places == {i \in 1..Len(q) : q[i] = t}
           at == CHOOSE i \in places : TRUE
<1>1. CASE places = {}
  BY <1>1, Zenon DEF Without
<1>2. CASE places # {}
  <2>1. at \in 1..Len(q)
    BY <1>2, Zenon
  <2> HIDE DEF at
  <2>2. SubSeq(q, 1, at - 1) \o SubSeq(q, at + 1, Len(q)) \in Seq(Threads)
    BY <2>1
  <2> QED BY <1>2, <2>2, Zenon DEF Without, at
<1> QED BY <1>1, <1>2, Zenon

\* Unlinking a thread takes it out, and nobody else.
LEMMA WithoutOn ==
    ASSUME NEW q \in Seq(Threads), NEW t, NoDuplicates(q)
    PROVE  NoDuplicates(Without(q, t)) /\ On(Without(q, t)) = On(q) \ {t}
<1> DEFINE places == {i \in 1..Len(q) : q[i] = t}
           at == CHOOSE i \in places : TRUE
<1>1. CASE places = {}
  BY <1>1, Zenon DEF Without, On
<1>2. CASE places # {}
  <2>1. at \in 1..Len(q) /\ q[at] = t
    BY <1>2, Zenon
  <2> HIDE DEF at
  <2> DEFINE p == SubSeq(q, 1, at - 1)
             r == SubSeq(q, at + 1, Len(q))
             w == p \o r
  <2>2. Without(q, t) = w
    BY <1>2, Zenon DEF Without, at
  <2>3. Len(w) = Len(q) - 1 /\ \A i \in 1..Len(w) : w[i] = IF i < at THEN q[i] ELSE q[i + 1]
    <3>1. p \in Seq(Threads) /\ r \in Seq(Threads)
      BY <2>1
    <3>2. Len(p) = at - 1 /\ Len(r) = Len(q) - at
      BY <2>1
    <3>3. /\ \A i \in 1..at - 1 : p[i] = q[i]
          /\ \A i \in 1..Len(q) - at : r[i] = q[at + i]
      BY <2>1
    <3> HIDE DEF p, r
    <3>4. Len(w) = Len(p) + Len(r) /\ \A i \in 1..Len(w) : w[i] = IF i <= Len(p) THEN p[i] ELSE r[i - Len(p)]
      BY <3>1
    <3> HIDE DEF w
    <3>5. ASSUME NEW i \in 1..Len(w) PROVE w[i] = IF i < at THEN q[i] ELSE q[i + 1]
      <4>1. CASE i < at
        BY <2>1, <3>2, <3>3, <3>4, <4>1
      <4>2. CASE ~(i < at)
        <5>1. i - (at - 1) \in 1..Len(q) - at /\ at + (i - (at - 1)) = i + 1
          BY <2>1, <3>2, <3>4, <4>2
        <5>2. w[i] = r[i - (at - 1)]
          BY <2>1, <3>2, <3>4, <4>2
        <5> QED BY <3>3, <4>2, <5>1, <5>2, Zenon
      <4> QED BY <4>1, <4>2, Zenon
    <3> QED BY <2>1, <3>2, <3>4, <3>5
  <2> HIDE DEF w
  <2>4. Len(q) \in Nat
    OBVIOUS
  <2>5. \A i \in 1..Len(w) : \E j \in 1..Len(q) : j # at /\ w[i] = q[j] /\ j = IF i < at THEN i ELSE i + 1
    BY <2>1, <2>3, <2>4
  <2>6. \A j \in 1..Len(q) : j # at => \E i \in 1..Len(w) : w[i] = q[j]
    <3> TAKE j \in 1..Len(q)
    <3> HAVE j # at
    <3>1. CASE j < at
      BY <2>1, <2>3, <2>4, <3>1
    <3>2. CASE j > at
      <4>1. j - 1 \in 1..Len(w) /\ ~(j - 1 < at) /\ (j - 1) + 1 = j
        BY <2>1, <2>3, <2>4, <3>2
      <4>2. w[j - 1] = q[j]
        BY <2>3, <4>1, Zenon
      <4> QED BY <4>1, <4>2, Zenon
    <3> QED BY <2>1, <3>1, <3>2
  <2>7. NoDuplicates(w)
    BY <2>1, <2>3, <2>4, <2>5 DEF NoDuplicates
  <2>8. \A j \in 1..Len(q) : q[j] = t => j = at
    BY <2>1, Zenon DEF NoDuplicates
  <2>9. On(w) = On(q) \ {t}
    <3>1. \A x \in On(w) : x \in On(q) /\ x # t
      BY <2>5, <2>8 DEF On
    <3>2. \A x \in On(q) : x # t => x \in On(w)
      BY <2>6, <2>1, Zenon DEF On
    <3> QED BY <3>1, <3>2, Zenon
  <2> QED BY <2>2, <2>7, <2>9, Zenon
<1> QED BY <1>1, <1>2, Zenon

\* Queueing a thread that is not on the queue adds it, once.
LEMMA AppendOn ==
    ASSUME NEW q \in Seq(Threads), NEW t \in Threads, NoDuplicates(q), t \notin On(q)
    PROVE  /\ NoDuplicates(Append(q, t)) /\ On(Append(q, t)) = On(q) \cup {t}
           /\ q \o <<t>> = Append(q, t) /\ q \o <<>> = q
<1>1. Len(q) \in Nat /\ Len(Append(q, t)) = Len(q) + 1 /\ Append(q, t)[Len(q) + 1] = t
  OBVIOUS
<1>2. \A i \in 1..Len(q) : Append(q, t)[i] = q[i]
  OBVIOUS
<1>3. NoDuplicates(Append(q, t))
  BY <1>1, <1>2 DEF NoDuplicates, On
<1>4. On(Append(q, t)) = On(q) \cup {t}
  <2>1. \A i \in 1..Len(q) + 1 : i = Len(q) + 1 \/ i \in 1..Len(q)
    BY <1>1
  <2>2. Len(q) + 1 \in 1..Len(q) + 1 /\ 1..Len(q) \subseteq 1..Len(q) + 1
    BY <1>1
  <2> QED BY <1>1, <1>2, <2>1, <2>2, Zenon DEF On
<1>5. q \o <<t>> = Append(q, t) /\ q \o <<>> = q
  OBVIOUS
<1> QED BY <1>3, <1>4, <1>5, Zenon

\* Nothing is unlinked from an empty queue.
LEMMA WithoutNone == ASSUME NEW t PROVE Without(<<>>, t) = <<>>
<1>1. {i \in 1..Len(<<>>) : <<>>[i] = t} = {}
  OBVIOUS
<1> QED BY <1>1, Zenon DEF Without

\* A step that takes no interrupt back, keeps the wakers that have to kick, and neither halts a hart
\* nor fills the queue of one that has halted.
LEMMA HaltFrame ==
    ASSUME Whole,
           \A g \in Harts : ipi[g] => ipi'[g] \/ pc'[g] # "none",
           \A c \in Contexts : pc[c] = "kick" => pc'[c] = "kick" /\ target'[c] = target[c],
           \A g \in Harts : curr'[g] = None /\ pc'[g] = "none" /\ idle'[g] = "halted" =>
               /\ curr[g] = None /\ pc[g] = "none" /\ idle[g] = "halted"
               /\ queue[g] = <<>> => queue'[g] = <<>>
    PROVE  HaltedHartIsKicked'
<1> SUFFICES ASSUME NEW h \in Harts, curr'[h] = None, pc'[h] = "none", idle'[h] = "halted", queue'[h] # <<>>
             PROVE  ipi'[h] \/ \E c \in Contexts : pc'[c] = "kick" /\ target'[c] = h
  BY Zenon DEF HaltedHartIsKicked
<1>1. ipi[h] \/ \E c \in Contexts : pc[c] = "kick" /\ target[c] = h
  BY Zenon DEF Whole, HaltedHartIsKicked
<1> QED BY <1>1, Zenon

\* A hart halts with a queue only if it is to be interrupted.
LEMMA HaltStep == ASSUME Whole, [Next]_vars PROVE HaltedHartIsKicked'
<1>1. /\ pc \in [Contexts -> HartPlaces \cup ThreadPlaces]
      /\ active \in [Harts -> BOOLEAN]
      /\ curr \in [Harts -> Threads \cup {None}]
      /\ queue \in [Harts -> Seq(Threads)]
      /\ ipi \in [Harts -> BOOLEAN]
      /\ idle \in [Harts -> {"start", "checking", "halted"}]
      /\ target \in [Contexts -> Harts \cup {None}]
  BY Zenon DEF Whole, Inv, TypeOK, HartPlaces, ThreadPlaces
<1>2. ActiveHasCurr /\ WakerSet
  BY Zenon DEF Whole, Inv
<1> USE SetsAssumption, <1>1, <1>2 DEF Contexts
<1>3. CASE UNCHANGED vars
  BY <1>3, HaltFrame, Zenon DEF vars, threadVars, hartVars, localVars
<1>4. ASSUME NEW h \in Harts, Irq(h) PROVE HaltedHartIsKicked'
  BY <1>4, HaltFrame, Zenon DEF Irq, InterruptsOn, Goto, threadVars, hartVars, localVars
<1>5. ASSUME NEW h \in Harts, IdleCheck(h) \/ IdleHalt(h) PROVE HaltedHartIsKicked'
  <2>1. CASE IdleCheck(h)
    BY <2>1, HaltFrame, Zenon DEF IdleCheck, IdleHalt, Halt, Goto, threadVars, hartVars, localVars
  <2>2. CASE IdleHalt(h)
    <3>1. queue[h] # <<>> => ipi'[h]
      BY <2>2, Zenon DEF IdleCheck, IdleHalt, Halt, Goto, threadVars, hartVars, localVars
    <3>2. UNCHANGED <<curr, pc, queue, target>> /\ \A g \in Harts \ {h} : ipi'[g] = ipi[g] /\ idle'[g] = idle[g]
      BY <2>2, Zenon DEF IdleCheck, IdleHalt, Halt, Goto, threadVars, hartVars, localVars
    <3> SUFFICES ASSUME NEW g \in Harts, curr[g] = None, pc[g] = "none", idle'[g] = "halted", queue[g] # <<>>
                 PROVE  ipi'[g] \/ \E c \in Contexts : pc[c] = "kick" /\ target[c] = g
      BY <3>2 DEF HaltedHartIsKicked
    <3>3. CASE g = h
      BY <3>1, <3>3, Zenon
    <3>4. CASE g # h
      <4>1. ipi[g] \/ \E c \in Contexts : pc[c] = "kick" /\ target[c] = g
        BY <3>2, <3>4, Zenon DEF Whole, HaltedHartIsKicked
      <4> QED BY <3>2, <3>4, <4>1, Zenon
    <3> QED BY <3>3, <3>4, Zenon
  <2> QED BY <1>5, <2>1, <2>2, Zenon
<1>6. ASSUME NEW h \in Harts, IrqStart(h) PROVE HaltedHartIsKicked'
  BY <1>6, HaltFrame, Zenon DEF IrqStart, Preemptible, CurrIs, Goto, threadVars, hartVars, localVars
<1>7. ASSUME NEW h \in Harts, IrqLock(h) PROVE HaltedHartIsKicked'
  BY <1>7, HaltFrame, Zenon DEF IrqLock, Goto, threadVars, hartVars, localVars
<1>8. ASSUME NEW h \in Harts, IrqKeep(h) PROVE HaltedHartIsKicked'
  BY <1>8, HaltFrame, Zenon DEF IrqKeep, Keep, CurrIs, Goto, threadVars, hartVars, localVars
<1>9. ASSUME NEW h \in Harts, IrqLeave(h) PROVE HaltedHartIsKicked'
  BY <1>9, HaltFrame, Zenon DEF IrqLeave, Leave, CurrIs, Goto, threadVars, hartVars, localVars
<1>10. ASSUME NEW h \in Harts, NEW v \in Harts, StealFrom(h, v) PROVE HaltedHartIsKicked'
  BY <1>10, HaltFrame, WithoutNone DEF StealFrom, Goto, Unlinked
<1>11. ASSUME NEW h \in Harts, StealNothing(h) PROVE HaltedHartIsKicked'
  BY <1>11, HaltFrame, Zenon DEF StealNothing, Goto, threadVars, hartVars, localVars
<1>12. ASSUME NEW h \in Harts, IrqSwitch(h) PROVE HaltedHartIsKicked'
  BY <1>12, HaltFrame, Zenon DEF IrqSwitch, Goto, threadVars, hartVars, localVars
<1>13. ASSUME NEW h \in Harts, SchedEnter(h) PROVE HaltedHartIsKicked'
  BY <1>13, HaltFrame, Zenon DEF SchedEnter, Goto, threadVars, hartVars, localVars
<1>14. ASSUME NEW h \in Harts, NEW t \in Threads, NEW i \in BOOLEAN, SchedDequeue(t, h, i) PROVE HaltedHartIsKicked'
  BY <1>14, HaltFrame, WithoutNone DEF SchedDequeue, Goto, Unlinked
<1>15. ASSUME NEW h \in Harts, NEW t \in Threads, SchedYield(t, h) \/ YieldReturn(t, h) PROVE HaltedHartIsKicked'
  <2>1. CASE SchedYield(t, h)
    BY <2>1, HaltFrame DEF SchedYield, RunsOn, Goto
  <2>2. CASE YieldReturn(t, h)
    BY <2>2, HaltFrame DEF YieldReturn, RunsOn, Goto, threadVars, hartVars
  <2> QED BY <1>15, <2>1, <2>2, Zenon
<1>16. ASSUME NEW h \in Harts, NEW t \in Threads, SchedTerminate(t, h) PROVE HaltedHartIsKicked'
  BY <1>16, HaltFrame, WithoutNone DEF SchedTerminate, Goto, Unlinked
<1>17. ASSUME NEW h \in Harts, NEW t \in Threads, PreemptDisable(t, h) \/ PreemptEnable(t, h) PROVE HaltedHartIsKicked'
  BY <1>17, HaltFrame DEF PreemptDisable, PreemptEnable, Goto, hartVars, localVars
<1>18. ASSUME NEW h \in Harts, NEW c \in Contexts, WakePush(c, h) PROVE HaltedHartIsKicked'
  <2> SUFFICES ASSUME NEW g \in Harts, curr'[g] = None, pc'[g] = "none", idle'[g] = "halted", queue'[g] # <<>>
               PROVE  ipi'[g] \/ \E d \in Contexts : pc'[d] = "kick" /\ target'[d] = g
    BY Zenon DEF HaltedHartIsKicked
  <2>1. CASE g = target[c]
    BY <1>18, <2>1, Zenon DEF WakePush, At, Goto, threadVars, hartVars, localVars
  <2>2. CASE g # target[c]
    <3>1. ipi[g] \/ \E d \in Contexts : pc[d] = "kick" /\ target[d] = g
      BY <1>18, <2>2 DEF Whole, HaltedHartIsKicked, WakePush, Goto
    <3> QED BY <1>18, <3>1, ZenonT(30) DEF WakePush, At, Goto, threadVars, hartVars, localVars
  <2> QED BY <2>1, <2>2, Zenon
<1>19. ASSUME NEW h \in Harts, NEW c \in Contexts, KickTarget(c, h) \/ KickBusy(c, h) \/ KickScan(c, h) PROVE HaltedHartIsKicked'
  <2> SUFFICES ASSUME NEW g \in Harts, curr'[g] = None, pc'[g] = "none", idle'[g] = "halted", queue'[g] # <<>>
               PROVE  ipi'[g] \/ \E d \in Contexts : pc'[d] = "kick" /\ target'[d] = g
    BY Zenon DEF HaltedHartIsKicked
  <2>1. ipi[g] \/ \E d \in Contexts : pc[d] = "kick" /\ target[d] = g
    BY <1>19 DEF Whole, HaltedHartIsKicked, KickTarget, KickBusy, KickScan, Back, HartIsIdle, Goto, threadVars, hartVars, HartPlaces
  <2>2. CASE KickTarget(c, h)
    BY <2>1, <2>2, Zenon DEF KickTarget, KickBusy, KickScan, Back, At, HartIsIdle, Goto, threadVars, hartVars, localVars
  <2>3. CASE KickBusy(c, h)
    BY <2>1, <2>3, Zenon DEF KickTarget, KickBusy, KickScan, Back, At, HartIsIdle, Goto, threadVars, hartVars, localVars, ActiveHasCurr
  <2>4. CASE KickScan(c, h)
    <3>1. pc[c] = "scan" /\ \A d \in Contexts \ {c} : pc'[d] = pc[d] /\ target'[d] = target[d]
      BY <2>4, Zenon DEF KickScan, Goto
    <3>2. ipi[g] => ipi'[g]
      BY <2>4 DEF KickScan, ActiveHasCurr, WakerSet, ThreadPlaces
    <3> QED BY <2>1, <3>1, <3>2, Zenon
  <2> QED BY <1>19, <2>2, <2>3, <2>4, ZenonT(30)
<1>20. ASSUME NEW h \in Harts, NEW c \in Contexts, NEW t \in Threads, SchedEnqueue(c, t, h) PROVE HaltedHartIsKicked'
  BY <1>20, HaltFrame, Zenon DEF SchedEnqueue, WakeChoose, Back, At, Goto, threadVars, hartVars, localVars
<1>21. ASSUME NEW h \in Harts, NEW c \in Contexts, NEW t \in Threads, SchedKickRunning(c, t, h) PROVE HaltedHartIsKicked'
  BY <1>21, HaltFrame, Zenon DEF SchedKickRunning, Back, At, Goto, threadVars, hartVars, localVars
<1> HIDE SetsAssumption, <1>1, <1>2 DEF Contexts
<1> QED BY <1>3, <1>4, <1>5, <1>6, <1>7, <1>8, <1>9, <1>10, <1>11, <1>12, <1>13, <1>14, <1>15, <1>16, <1>17, <1>18, <1>19, <1>20, <1>21, Zenon
  DEF Next, Handler, ThreadStep, Waking, Contexts

\* A waker queues a thread on the hart that holds it.
LEMMA TargetsIs ==
    ASSUME Whole, NEW t \in Threads, NEW h \in Harts, state[t] = "blocked", hart_lock[t] # None
    PROVE  Targets(t, h) = {hart_lock[t]}
<1>1. hart_lock[t] \in Harts /\ last_hart[t] \in Harts \cup {None}
  BY Zenon DEF Whole, Inv, TypeOK
<1>2. Bound[t] \in {None, hart_lock[t]} /\ last_hart[t] = hart_lock[t]
  BY <1>1, SetsAssumption DEF Whole, Held, NextRuns
<1> QED BY <1>1, <1>2, SetsAssumption, Zenon DEF Targets

\* The types and parts of the invariant that the lemmas on queues use.
LEMMA QueueFacts ==
    ASSUME Whole
    PROVE  /\ queue \in [Harts -> Seq(Threads)] /\ state \in [Threads -> {"blocked", "runnable", "running", "dead", "free"}]
           /\ curr \in [Harts -> Threads \cup {None}] /\ None \notin Threads
           /\ Once /\ PushHolds /\ PickHolds /\ WakerSet /\ UserHoldsLock /\ HeldQueued
  BY SetsAssumption, Zenon DEF Whole, Inv, TypeOK

\* sched_enqueue adds a thread that was on no queue.
LEMMA PushQueues ==
    ASSUME Whole, NEW h \in Harts, NEW c \in Contexts, WakePush(c, h)
    PROVE  /\ who[c] \in Threads /\ target[c] \in Harts /\ state[who[c]] = "blocked"
           /\ \A f \in Harts : who[c] \notin On(queue[f])
           /\ \A f \in Harts : /\ NoDuplicates(queue'[f])
                               /\ f = target[c] => On(queue'[f]) = On(queue[f]) \cup {who[c]}
                               /\ f # target[c] => On(queue'[f]) = On(queue[f])
                               /\ On(queue[f]) \subseteq On(queue'[f])
<1> DEFINE u == who[c]
           g == target[c]
<1>1. u \in Threads /\ g \in Harts /\ state[u] = "blocked" /\ queue' = [queue EXCEPT ![g] = Append(@, u)]
  BY QueueFacts, Zenon DEF WakePush, WakerSet, PushHolds
<1> HIDE DEF u, g
<1>2. \A f \in Harts : u \notin On(queue[f]) /\ NoDuplicates(queue[f]) /\ queue[f] \in Seq(Threads)
  BY <1>1, QueueFacts, Zenon DEF Once
<1>3. ASSUME NEW f \in Harts
      PROVE  /\ NoDuplicates(queue'[f])
             /\ f = g => On(queue'[f]) = On(queue[f]) \cup {u}
             /\ f # g => On(queue'[f]) = On(queue[f])
             /\ On(queue[f]) \subseteq On(queue'[f])
  <2>1. NoDuplicates(Append(queue[f], u)) /\ On(Append(queue[f], u)) = On(queue[f]) \cup {u}
    BY <1>1, <1>2, AppendOn, Zenon
  <2>2. (f = g => queue'[f] = Append(queue[f], u)) /\ (f # g => queue'[f] = queue[f])
    BY <1>1, QueueFacts, Zenon
  <2> QED BY <1>2, <2>1, <2>2, Zenon
<1> QED BY <1>1, <1>2, <1>3, Zenon DEF u, g

TakesOff(v, t) == queue' = [queue EXCEPT ![v] = Without(@, t)]
Becomes(t, s) == state' = [state EXCEPT ![t] = s]

\* Taking a thread off the queue of one hart.
LEMMA OffQueue ==
    ASSUME Whole, NEW v \in Harts, NEW t, TakesOff(v, t)
    PROVE  \A f \in Harts : /\ NoDuplicates(queue'[f])
                            /\ f = v => On(queue'[f]) = On(queue[f]) \ {t}
                            /\ f # v => On(queue'[f]) = On(queue[f])
                            /\ On(queue[f]) \ {t} \subseteq On(queue'[f])
<1>1. \A f \in Harts : NoDuplicates(queue[f]) /\ queue[f] \in Seq(Threads)
  BY QueueFacts, Zenon DEF Once
<1>2. \A f \in Harts : NoDuplicates(Without(queue[f], t)) /\ On(Without(queue[f], t)) = On(queue[f]) \ {t}
  BY <1>1, WithoutOn, Zenon
<1>3. \A f \in Harts : (f = v => queue'[f] = Without(queue[f], t)) /\ (f # v => queue'[f] = queue[f])
  BY QueueFacts, Zenon DEF TakesOff
<1> TAKE f \in Harts
<1>4. CASE f = v
  BY <1>2, <1>3, <1>4, Zenon
<1>5. CASE f # v
  BY <1>1, <1>3, <1>5, Zenon
<1> QED BY <1>4, <1>5, Zenon

\* rq_unlink takes it off whichever it is on.
LEMMA UnlinkedQueues ==
    ASSUME Whole, NEW t, queue' = Unlinked(t)
    PROVE  \A f \in Harts : /\ NoDuplicates(queue'[f]) /\ On(queue'[f]) = On(queue[f]) \ {t}
                            /\ \A x : x # t /\ x \in On(queue[f]) => x \in On(queue'[f])
<1>1. \A f \in Harts : NoDuplicates(queue[f]) /\ queue[f] \in Seq(Threads)
  BY QueueFacts, Zenon DEF Once
<1>2. \A f \in Harts : queue'[f] = Without(queue[f], t)
  BY Zenon DEF Unlinked
<1> QED BY <1>1, <1>2, WithoutOn

\* The handler takes the next thread off its queue, and puts the one that still runs at the end.
LEMMA LeaveQueues ==
    ASSUME Whole, NEW h \in Harts, IrqLeave(h)
    PROVE  \A f \in Harts :
             /\ NoDuplicates(queue'[f])
             /\ f # h => On(queue'[f]) = On(queue[f])
             /\ f = h /\ CurrIs(h, "running") => On(queue'[f]) = (On(queue[f]) \ {Own(h)}) \cup {curr[h]}
             /\ f = h /\ ~CurrIs(h, "running") => On(queue'[f]) = On(queue[f]) \ {Own(h)}
             /\ \A x : x # Own(h) /\ x \in On(queue[f]) => x \in On(queue'[f])
<1> DEFINE t == Own(h)
           u == curr[h]
           runs == CurrIs(h, "running")
           w == Without(queue[h], t)
<1>1. queue' = [queue EXCEPT ![h] = w \o (IF runs THEN <<u>> ELSE <<>>)]
  BY Zenon DEF IrqLeave, Leave
<1>2. runs => u \in Threads /\ state[u] = "running"
  BY QueueFacts, Zenon DEF CurrIs
<1>3. queue[h] \in Seq(Threads) /\ NoDuplicates(queue[h]) /\ (runs => u \notin On(queue[h]))
  BY <1>2, QueueFacts, Zenon DEF Once
<1>4. w \in Seq(Threads) /\ NoDuplicates(w) /\ On(w) = On(queue[h]) \ {t}
  BY <1>3, WithoutType, WithoutOn, Zenon
<1> HIDE DEF t, u, runs, w
<1>5. CASE runs
  <2>1. w \o <<u>> = Append(w, u) /\ NoDuplicates(Append(w, u)) /\ On(Append(w, u)) = On(w) \cup {u}
    BY <1>2, <1>3, <1>4, <1>5, AppendOn, Zenon
  <2>2. \A f \in Harts : (f = h => queue'[f] = Append(w, u)) /\ (f # h => queue'[f] = queue[f])
    BY <1>1, <1>5, <2>1, QueueFacts, Zenon
  <2> QED BY <1>4, <1>5, <2>1, <2>2, QueueFacts, Zenon DEF Once, t, u, runs
<1>6. CASE ~runs
  <2>1. w \o <<>> = w
    BY <1>4
  <2>2. \A f \in Harts : (f = h => queue'[f] = w) /\ (f # h => queue'[f] = queue[f])
    BY <1>1, <1>6, <2>1, QueueFacts, Zenon
  <2> QED BY <1>4, <1>6, <2>2, QueueFacts, Zenon DEF Once, t, u, runs
<1> QED BY <1>5, <1>6, Zenon

\* The threads R leave the queues as they stop being runnable, and A join the one of h as they become it.
Moves(R, A, h) ==
    /\ \A f \in Harts : NoDuplicates(queue'[f])
    /\ \A f \in Harts, x \in Threads : x \in On(queue'[f]) <=> (x \in On(queue[f]) /\ x \notin R) \/ (f = h /\ x \in A)
    /\ \A f \in Harts, x \in Threads : x \in A /\ x \in On(queue[f]) => x \in R
    /\ \A x \in Threads : state'[x] = "runnable" <=> (state[x] = "runnable" /\ x \notin R) \/ x \in A

\* Then the queues are as they should be.
LEMMA QueuesMove == ASSUME Whole, NEW R, NEW A, NEW h \in Harts, Moves(R, A, h) PROVE Once'
<1> USE DEF Moves
<1>1. Once
  BY QueueFacts, Zenon
<1>2. \A f, g \in Harts, x \in Threads : x \in On(queue'[f]) /\ x \in On(queue'[g]) => f = g
  BY <1>1 DEF Once
<1>3. \A x \in Threads : state'[x] = "runnable" <=> \E f \in Harts : x \in On(queue'[f])
  BY <1>1, Zenon DEF Once
<1> QED BY <1>2, <1>3, Zenon DEF Once

\* sched_enqueue keeps the queues as they should be.
LEMMA OncePush == ASSUME Whole, NEW h \in Harts, NEW c \in Contexts, WakePush(c, h) PROVE Once'
<1>1. state' = [state EXCEPT ![who[c]] = "runnable"]
  BY Zenon DEF WakePush
<1>2. \A x \in Threads : state'[x] = "runnable" <=> (state[x] = "runnable" /\ x \notin {}) \/ x \in {who[c]}
  BY <1>1, PushQueues, QueueFacts, Zenon
<1>3. target[c] \in Harts /\ \A f \in Harts : NoDuplicates(queue'[f]) /\ who[c] \notin On(queue[f])
  BY PushQueues, Zenon
<1>4. ASSUME NEW f \in Harts, NEW x \in Threads
      PROVE  x \in On(queue'[f]) <=> (x \in On(queue[f]) /\ x \notin {}) \/ (f = target[c] /\ x \in {who[c]})
  <2>1. CASE f = target[c]
    <3>1. On(queue'[f]) = On(queue[f]) \cup {who[c]}
      BY <2>1, PushQueues, Zenon
    <3> QED BY <2>1, <3>1, Zenon
  <2>2. CASE f # target[c]
    <3>1. On(queue'[f]) = On(queue[f])
      BY <2>2, PushQueues
    <3> QED BY <2>2, <3>1, Zenon
  <2> QED BY <2>1, <2>2, Zenon
<1>5. Moves({}, {who[c]}, target[c])
  BY <1>2, <1>3, <1>4 DEF Moves
<1> QED BY <1>3, <1>5, QueuesMove, Zenon

\* So do sched_dequeue and sched_terminate,
LEMMA OnceUnlink ==
    ASSUME Whole, NEW h \in Harts, NEW t \in Threads, NEW s \in {"blocked", "dead"},
           state' = [state EXCEPT ![t] = s], queue' = Unlinked(t)
    PROVE  Once'
<1>1. \A x \in Threads : state'[x] = "runnable" <=> (state[x] = "runnable" /\ x \notin {t}) \/ x \in {}
  BY QueueFacts, Zenon
<1>2. \A f \in Harts, x \in Threads : x \in On(queue'[f]) <=> (x \in On(queue[f]) /\ x \notin {t}) \/ (f = h /\ x \in {})
  BY UnlinkedQueues
<1>3. \A f \in Harts : NoDuplicates(queue'[f])
  BY UnlinkedQueues, Zenon
<1>4. Moves({t}, {}, h)
  BY <1>1, <1>2, <1>3, Zenon DEF Moves
<1> QED BY <1>4, QueuesMove, Zenon

\* the handler that takes a thread or keeps the current one,
LEMMA OnceTake ==
    ASSUME Whole, NEW v \in Harts, NEW t \in Threads, \A f \in Harts : t \in On(queue[f]) => f = v,
           Becomes(t, "running"), TakesOff(v, t)
    PROVE  Once'
<1>1. \A x \in Threads : state'[x] = "runnable" <=> (state[x] = "runnable" /\ x \notin {t}) \/ x \in {}
  BY QueueFacts, Zenon DEF Becomes
<1>2. ASSUME NEW f \in Harts, NEW x \in Threads
      PROVE  x \in On(queue'[f]) <=> (x \in On(queue[f]) /\ x \notin {t}) \/ (f = v /\ x \in {})
  <2>1. (f = v => On(queue'[f]) = On(queue[f]) \ {t}) /\ (f # v => On(queue'[f]) = On(queue[f]))
    BY OffQueue, Zenon
  <2> QED BY <2>1, Zenon
<1>3. \A f \in Harts : NoDuplicates(queue'[f])
  BY OffQueue, Zenon
<1>4. Moves({t}, {}, v)
  BY <1>1, <1>2, <1>3, Zenon DEF Moves
<1> QED BY <1>4, QueuesMove, Zenon

\* and the handler that leaves it.
LEMMA OnceLeave == ASSUME Whole, NEW h \in Harts, IrqLeave(h) PROVE Once'
<1> DEFINE t == Own(h)
           A == IF CurrIs(h, "running") THEN {curr[h]} ELSE {}
<1>1. t = None \/ Free(t, h, h)
  BY TakenWas, Zenon
<1>2. \A x \in Threads : x \in A <=> CurrIs(h, "running") /\ x = curr[h]
  BY Zenon
<1>3. \A x \in Threads : x \in A => state[x] = "running" /\ x # t
  BY <1>1, <1>2, Zenon DEF CurrIs, Free
<1>4. \A x \in Threads : state'[x] = IF x = t THEN "running" ELSE IF x \in A THEN "runnable" ELSE state[x]
  BY <1>2, Zenon DEF IrqLeave, Leave
<1>5. \A f \in Harts : f # h => On(queue'[f]) = On(queue[f])
  BY LeaveQueues, Zenon
<1>6. On(queue'[h]) = (On(queue[h]) \ {t}) \cup A
  BY LeaveQueues, Zenon
<1> HIDE DEF t, A
<1>7. \A x \in Threads : state'[x] = "runnable" <=> (state[x] = "runnable" /\ x \notin {t}) \/ x \in A
  BY <1>3, <1>4, Zenon
<1>8. \A f \in Harts, x \in Threads : x \in On(queue[f]) => state[x] = "runnable" /\ (x = t => f = h)
  BY <1>1, QueueFacts, Zenon DEF Once, Free
<1>9. ASSUME NEW f \in Harts, NEW x \in Threads
      PROVE  x \in On(queue'[f]) <=> (x \in On(queue[f]) /\ x \notin {t}) \/ (f = h /\ x \in A)
  <2>1. CASE f = h
    BY <1>6, <2>1, Zenon
  <2>2. CASE f # h
    BY <1>5, <1>8, <2>2, Zenon
  <2> QED BY <2>1, <2>2, Zenon
<1>10. \A f \in Harts, x \in Threads : x \in A /\ x \in On(queue[f]) => x \in {t}
  BY <1>3, <1>8, Zenon
<1>11. \A f \in Harts : NoDuplicates(queue'[f])
  BY LeaveQueues, Zenon
<1>12. Moves({t}, A, h)
  BY <1>7, <1>9, <1>10, <1>11, Zenon DEF Moves
<1> QED BY <1>12, QueuesMove, Zenon

\* The queues hold what is runnable.
LEMMA OnceStep == ASSUME Whole, [Next]_vars PROVE Once'
<1>1. /\ curr \in [Harts -> Threads \cup {None}]
  BY Zenon DEF Whole, Inv, TypeOK, HartPlaces, ThreadPlaces
<1>2. Once /\ UserHoldsLock /\ DeadKept /\ HeldQueued
  BY Zenon DEF Whole, Inv
<1> USE SetsAssumption, <1>1, <1>2 DEF Once
<1>3. CASE Quiet
  BY <1>3, Zenon DEF Quiet
<1>4. ASSUME NEW h \in Harts, IrqStart(h) PROVE Once'
  <2>1. queue' = queue /\ \A x \in Threads : state'[x] = "runnable" <=> state[x] = "runnable"
    BY <1>4 DEF IrqStart, DeadKept
  <2> QED BY <2>1, Zenon
<1>5. ASSUME NEW h \in Harts, IrqKeep(h) PROVE Once'
  <2>1. /\ curr[h] \in Threads
        /\ Becomes(curr[h], "running") /\ TakesOff(h, curr[h])
    BY <1>5 DEF IrqKeep, Keep, CurrIs, Becomes, TakesOff
  <2>2. \A f \in Harts : curr[h] \in On(queue[f]) => f = h
    BY <2>1 DEF UserHoldsLock, HeldQueued, Uses
  <2> QED BY <2>1, <2>2, OnceTake
<1>6. ASSUME NEW h \in Harts, IrqLeave(h) PROVE Once'
  BY <1>6, OnceLeave, Zenon
<1>7. ASSUME NEW h \in Harts, NEW v \in Harts, StealFrom(h, v) PROVE Once'
  <2> DEFINE u == FirstTakeable(v, h)
  <2>1. Free(u, v, h)
    BY <1>7, TakenWas, Zenon DEF StealFrom
  <2>2. Becomes(u, "running") /\ TakesOff(v, u)
    BY <1>7, Zenon DEF StealFrom, Becomes, TakesOff
  <2> HIDE DEF u
  <2>3. \A f \in Harts : u \in On(queue[f]) => f = v
    BY <2>1, Zenon DEF Free
  <2>4. u \in Threads
    BY <2>1, Zenon DEF Free
  <2> QED BY <2>2, <2>3, <2>4, OnceTake, Zenon
<1>8. ASSUME NEW h \in Harts, IrqSwitch(h) PROVE Once'
  BY <1>8, Zenon DEF IrqSwitch, Goto, threadVars, hartVars, localVars
<1>9. ASSUME NEW h \in Harts, SchedEnter(h) PROVE Once'
  BY <1>9, Zenon DEF SchedEnter, Goto, threadVars, hartVars, localVars
<1>10. ASSUME NEW h \in Harts, NEW t \in Threads, NEW i \in BOOLEAN, SchedDequeue(t, h, i) PROVE Once'
  <2>1. CASE UNCHANGED <<state, queue>>
    BY <2>1, Zenon
  <2>2. CASE state' = [state EXCEPT ![t] = "blocked"] /\ queue' = Unlinked(t)
    BY <2>2, OnceUnlink, Zenon
  <2> QED BY <1>10, <2>1, <2>2, Zenon DEF SchedDequeue
<1>11. ASSUME NEW h \in Harts, NEW t \in Threads, SchedTerminate(t, h) PROVE Once'
  BY <1>11, OnceUnlink, Zenon DEF SchedTerminate
<1>12. ASSUME NEW h \in Harts, NEW c \in Contexts, WakePush(c, h) PROVE Once'
  BY <1>12, OncePush, Zenon
<1> HIDE SetsAssumption, <1>1, <1>2 DEF Once
<1> QED BY <1>3, <1>4, <1>5, <1>6, <1>7, <1>8, <1>9, <1>10, <1>11, <1>12, NotQuiet, Zenon

\* A runnable thread that a hart holds is on its queue.
LEMMA HeldQueuedStep == ASSUME Whole, [Next]_vars PROVE HeldQueued'
<1>1. /\ pc \in [Contexts -> HartPlaces \cup ThreadPlaces]
      /\ state \in [Threads -> {"blocked", "runnable", "running", "dead", "free"}]
      /\ curr \in [Harts -> Threads \cup {None}]
  BY Zenon DEF Whole, Inv, TypeOK, HartPlaces, ThreadPlaces
<1>2. HeldQueued /\ UserHoldsLock /\ DeadKept /\ PushHome
  BY Zenon DEF Whole, Inv
<1> USE SetsAssumption, <1>1, <1>2 DEF HeldQueued
<1>3. CASE Quiet
  BY <1>3, Zenon DEF Quiet
<1>4. ASSUME NEW h \in Harts, IrqStart(h) PROVE HeldQueued'
  BY <1>4, Zenon DEF IrqStart, Preemptible, CurrIs, Goto, threadVars, hartVars, localVars
<1>5. ASSUME NEW h \in Harts, IrqKeep(h) PROVE HeldQueued'
  <2>1. /\ curr[h] \in Threads /\ UNCHANGED hart_lock
        /\ Becomes(curr[h], "running") /\ TakesOff(h, curr[h])
    BY <1>5 DEF IrqKeep, Keep, CurrIs, Becomes, TakesOff
  <2>2. \A f \in Harts, x \in Threads : x # curr[h] /\ x \in On(queue[f]) => x \in On(queue'[f])
    <3>1. \A f \in Harts : On(queue[f]) \ {curr[h]} \subseteq On(queue'[f])
      BY <2>1, OffQueue, Zenon
    <3> QED BY <3>1, Zenon
  <2> QED BY <2>1, <2>2 DEF Becomes
<1>6. ASSUME NEW h \in Harts, IrqLeave(h) PROVE HeldQueued'
  <2>1. Own(h) = None \/ Free(Own(h), h, h)
    BY TakenWas, Zenon
  <2>2. \A x \in Threads : /\ x = Own(h) => state'[x] = "running"
                           /\ x # Own(h) => hart_lock'[x] = hart_lock[x]
                           /\ x # Own(h) /\ ~(x = curr[h] /\ CurrIs(h, "running")) => state'[x] = state[x]
    BY <1>6, Zenon DEF IrqLeave, Leave
  <2>3. CurrIs(h, "running") => hart_lock[curr[h]] = h /\ curr[h] \in On(queue'[h])
    <3>1. CurrIs(h, "running") => curr[h] \in Threads /\ On(queue'[h]) = (On(queue[h]) \ {Own(h)}) \cup {curr[h]}
      BY <1>6, LeaveQueues DEF CurrIs, DeadKept, PushHome, HartPlaces
    <3> QED BY <3>1 DEF UserHoldsLock, Uses
  <2>4. \A f \in Harts, x \in Threads : x # Own(h) /\ x \in On(queue[f]) => x \in On(queue'[f])
    BY <1>6, LeaveQueues, Zenon
  <2>5. ASSUME NEW x \in Threads, NEW f \in Harts, state'[x] = "runnable", hart_lock'[x] = f PROVE x \in On(queue'[f])
    <3>1. x # Own(h)
      BY <2>2, <2>5, Zenon
    <3>4. hart_lock[x] = f
      BY <2>2, <2>5, <3>1, Zenon
    <3>2. CASE x = curr[h] /\ CurrIs(h, "running")
      BY <2>3, <3>4, <3>2, Zenon
    <3>3. CASE ~(x = curr[h] /\ CurrIs(h, "running"))
      BY <2>2, <2>4, <2>5, <3>1, <3>3, <3>4, Zenon
    <3> QED BY <3>2, <3>3, Zenon
  <2> QED BY <2>5, Zenon
<1>7. ASSUME NEW h \in Harts, NEW v \in Harts, StealFrom(h, v) PROVE HeldQueued'
  <2> DEFINE u == FirstTakeable(v, h)
  <2>1. Free(u, v, h)
    BY <1>7, TakenWas, Zenon DEF StealFrom
  <2>2. Becomes(u, "running") /\ TakesOff(v, u) /\ hart_lock' = [hart_lock EXCEPT ![u] = h]
    BY <1>7, Zenon DEF StealFrom, Becomes, TakesOff
  <2> HIDE DEF u
  <2>3. \A f \in Harts, x \in Threads : x # u /\ x \in On(queue[f]) => x \in On(queue'[f])
    <3>1. \A f \in Harts : On(queue[f]) \ {u} \subseteq On(queue'[f])
      BY <2>2, OffQueue, Zenon
    <3> QED BY <3>1, Zenon
  <2> QED BY <2>1, <2>2, <2>3 DEF Becomes
<1>8. ASSUME NEW h \in Harts, IrqSwitch(h) PROVE HeldQueued'
  BY <1>8, Zenon DEF IrqSwitch, Goto, threadVars, hartVars, localVars
<1>9. ASSUME NEW h \in Harts, SchedEnter(h) PROVE HeldQueued'
  BY <1>9 DEF SchedEnter
<1>10. ASSUME NEW h \in Harts, NEW t \in Threads, NEW i \in BOOLEAN, SchedDequeue(t, h, i) PROVE HeldQueued'
  <2>1. CASE UNCHANGED <<state, queue>>
    BY <1>10, <2>1, Zenon DEF SchedDequeue
  <2>2. CASE state' = [state EXCEPT ![t] = "blocked"] /\ queue' = Unlinked(t)
    <3>1. \A f \in Harts, x \in Threads : x # t /\ x \in On(queue[f]) => x \in On(queue'[f])
      BY <2>2, UnlinkedQueues, Zenon
    <3>2. hart_lock' = hart_lock
      BY <1>10, Zenon DEF SchedDequeue
    <3> QED BY <2>2, <3>1, <3>2
  <2> QED BY <1>10, <2>1, <2>2, Zenon DEF SchedDequeue
<1>11. ASSUME NEW h \in Harts, NEW t \in Threads, SchedTerminate(t, h) PROVE HeldQueued'
  <2>1. state' = [state EXCEPT ![t] = "dead"] /\ queue' = Unlinked(t) /\ UNCHANGED hart_lock
    BY <1>11, Zenon DEF SchedTerminate
  <2>2. \A f \in Harts, x \in Threads : x # t /\ x \in On(queue[f]) => x \in On(queue'[f])
    BY <2>1, UnlinkedQueues, Zenon
  <2> QED BY <2>1, <2>2
<1>12. ASSUME NEW h \in Harts, NEW c \in Contexts, WakePush(c, h) PROVE HeldQueued'
  <2>1. hart_lock[who[c]] \in {None, target[c]} /\ UNCHANGED hart_lock /\ state' = [state EXCEPT ![who[c]] = "runnable"]
    BY <1>12, Zenon DEF WakePush, PushHome
  <2>2. who[c] \in Threads /\ target[c] \in Harts /\ who[c] \in On(queue'[target[c]]) /\ \A f \in Harts : On(queue[f]) \subseteq On(queue'[f])
    <3>1. who[c] \in Threads /\ target[c] \in Harts /\ \A f \in Harts : On(queue[f]) \subseteq On(queue'[f])
      BY <1>12, PushQueues, Zenon
    <3>2. On(queue'[target[c]]) = On(queue[target[c]]) \cup {who[c]}
      BY <1>12, <3>1, PushQueues, Zenon
    <3> QED BY <3>1, <3>2, Zenon
  <2> QED BY <2>1, <2>2 DEF DeadKept
<1> HIDE SetsAssumption, <1>1, <1>2 DEF HeldQueued
<1> QED BY <1>3, <1>4, <1>5, <1>6, <1>7, <1>8, <1>9, <1>10, <1>11, <1>12, NotQuiet, Zenon

\* A waker pushes to the hart that still holds the thread.
LEMMA HomeStep == ASSUME Whole, [Next]_vars PROVE PushHome'
<1>1. /\ pc \in [Contexts -> HartPlaces \cup ThreadPlaces]
      /\ hart_lock \in [Threads -> Harts \cup {None}]
      /\ who \in [Contexts -> Threads \cup {None}]
      /\ target \in [Contexts -> Harts \cup {None}]
  BY Zenon DEF Whole, Inv, TypeOK, HartPlaces, ThreadPlaces
<1>2. PushHome /\ PushHolds /\ WakerSet
  BY Zenon DEF Whole, Inv
<1> USE SetsAssumption, <1>1, <1>2 DEF PushHome
<1>3. CASE Still
  BY <1>3, Zenon DEF Still, threadVars, localVars
<1>4. ASSUME NEW h \in Harts, Irq(h) PROVE PushHome'
  BY <1>4, Zenon DEF Irq, InterruptsOn, Goto, threadVars, hartVars, localVars
<1>5. ASSUME NEW h \in Harts, IrqStart(h) PROVE PushHome'
  BY <1>5, Zenon DEF IrqStart, Preemptible, CurrIs, Goto, threadVars, hartVars, localVars
<1>6. ASSUME NEW h \in Harts, IrqLock(h) PROVE PushHome'
  BY <1>6, Zenon DEF IrqLock, Goto, threadVars, hartVars, localVars
<1>7. ASSUME NEW h \in Harts, IrqKeep(h) PROVE PushHome'
  BY <1>7, ZenonT(30) DEF IrqKeep, Keep, Goto
<1>8. ASSUME NEW h \in Harts, IrqLeave(h) PROVE PushHome'
  BY <1>8, TakenWas DEF IrqLeave, Leave, Goto, Free, PushHolds, WakerSet
<1>9. ASSUME NEW h \in Harts, NEW v \in Harts, StealFrom(h, v) PROVE PushHome'
  <2> DEFINE t == FirstTakeable(v, h)
  <2>1. Free(t, v, h)
    BY <1>9, TakenWas, Zenon DEF StealFrom
  <2> HIDE DEF t
  <2> QED BY <1>9, <2>1, Zenon DEF t, StealFrom, Goto, threadVars, hartVars, localVars, Free, PushHolds, WakerSet, Contexts
<1>10. ASSUME NEW h \in Harts, StealNothing(h) PROVE PushHome'
  BY <1>10, Zenon DEF StealNothing, Goto, threadVars, hartVars, localVars
<1>11. ASSUME NEW h \in Harts, IrqSwitch(h) PROVE PushHome'
  BY <1>11, Zenon DEF IrqSwitch, Goto, threadVars, hartVars, localVars
<1>12. ASSUME NEW h \in Harts, SchedEnter(h) PROVE PushHome'
  BY <1>12, Zenon DEF SchedEnter, Goto, threadVars, hartVars, localVars, WakerSet
<1>13. ASSUME NEW h \in Harts, NEW t \in Threads, NEW i \in BOOLEAN, SchedDequeue(t, h, i) PROVE PushHome'
  BY <1>13, Zenon DEF SchedDequeue, RunsOn, Goto, threadVars, hartVars, localVars
<1>14. ASSUME NEW h \in Harts, NEW t \in Threads, SchedYield(t, h) \/ YieldReturn(t, h) PROVE PushHome'
  BY <1>14 DEF SchedYield, YieldReturn, Goto, threadVars
<1>15. ASSUME NEW h \in Harts, NEW t \in Threads, SchedTerminate(t, h) PROVE PushHome'
  BY <1>15, Zenon DEF SchedTerminate, RunsOn, Goto, threadVars, hartVars, localVars
<1>16. ASSUME NEW h \in Harts, NEW t \in Threads, PreemptDisable(t, h) \/ PreemptEnable(t, h) PROVE PushHome'
  BY <1>16 DEF PreemptDisable, PreemptEnable, Goto, localVars
<1>17. ASSUME NEW h \in Harts, NEW c \in Contexts, WakePush(c, h) PROVE PushHome'
  BY <1>17, Zenon DEF WakePush, At, Goto, threadVars, hartVars, localVars
<1>18. ASSUME NEW h \in Harts, NEW c \in Contexts, Kick(c, h) PROVE PushHome'
  BY <1>18, KickMoves DEF Goto, Back, threadVars
<1>19. ASSUME NEW h \in Harts, NEW c \in Contexts, NEW t \in Threads, SchedEnqueue(c, t, h) PROVE PushHome'
  <2>1. hart_lock[t] # None => target'[c] = hart_lock[t]
    BY <1>19, TargetsIs DEF SchedEnqueue, WakeChoose
  <2> QED BY <1>19, <2>1, Zenon DEF SchedEnqueue, WakeChoose, Back, At, Goto, threadVars, hartVars, localVars
<1> HIDE SetsAssumption, <1>1, <1>2 DEF PushHome
<1> QED BY <1>3, <1>4, <1>5, <1>6, <1>7, <1>8, <1>9, <1>10, <1>11, <1>12, <1>13, <1>14, <1>15, <1>16, <1>17, <1>18, <1>19, NotStill, Zenon DEF ThreadStep, Waking, Kick

===============================================================================
