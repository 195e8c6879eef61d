-------------------------- MODULE ThreadGroupProofs --------------------------
(* Theorems about ThreadGroup for any number of threads and killers.         *)
EXTENDS ThreadGroup, FiniteSetTheorems, TLAPS

Out == {"none", "unlinked", "last", "gone"}
InBeginExit == {"exit", "status", "flag"}

\* A thread is in the list from attach_thread_user to process_thread_reaped.
Linked ==
    /\ pc[Main] # "none"
    /\ \A t \in Threads : /\ pc[t] # "done"
                          /\ t \in threads <=> pc[t] \notin Out
                          /\ pc[t] \in InBeginExit <=> after[t] # "user"
                          /\ after[t] # "done"
    /\ \A k \in Killers : /\ pc[k] \in {"user", "done"} \cup InBeginExit
                          /\ pc[k] \in InBeginExit <=> after[k] # "user"
                          /\ after[k] \in {"user", "done"}

\* Who is flagged: nobody before it is linked; and, outside of an exit and an exec, exactly the threads
\* that leave.  A thread that leaves before any exit has been flagged.
Flagged ==
    /\ \A t \in Threads : pc[t] = "none" => t \notin exit_work
    /\ ~exiting => \A t \in Threads : pc[t] \in {"leaving", "dead"} => t \in exit_work
    /\ (~exiting /\ exec_thread = None) =>
        \A t \in threads \cap exit_work : pc[t] \in {"leaving", "dead"} \/ (pc[t] = "exit" /\ after[t] = "leaving")
    /\ (~exiting /\ exec_thread # None) => exec_thread \notin exit_work

\* The last thread to leave calls begin_exit, and whoever got past the flag there stores the status.
Exits ==
    /\ (~exiting /\ threads \subseteq exit_work) => \E t \in threads : pc[t] = "exit" /\ after[t] = "leaving"
    /\ \A a \in Actors : pc[a] \in {"status", "flag"} => exiting
    /\ exiting => exit_status # None \/ \E a \in Actors : pc[a] = "status"
    /\ (zombie \/ \E t \in Threads : pc[t] = "last") => exiting /\ threads = {}

\* exec_thread is the thread in process_dethread, everyone else is flagged; and the one reaper that
\* has its wakeup left it alone and blocked.
Execs ==
    /\ \A t \in Threads : pc[t] \in {"blocked", "woken"} <=> exec_thread = t
    /\ exec_thread # None => threads \ {exec_thread} \subseteq exit_work
    /\ \A t \in Threads : pc[t] = "blocked" =>
        threads # {t} \/ \E o \in Threads : pc[o] = "unlinked" /\ to_wake[o] = t
    /\ \A o \in Threads : to_wake[o] # None =>
        pc[o] = "unlinked" /\ pc[to_wake[o]] = "blocked" /\ threads = {to_wake[o]}
    /\ \A o, p \in Threads : to_wake[o] # None /\ to_wake[p] # None => o = p
    /\ \A t \in Threads : pc[t] \in {"woken", "image"} => threads = {t}

\* A thread has its own id or the one of the process, which is Main's.
Tids ==
    /\ \A t \in Threads : tid[t] \in {t, Main} /\ (pc[t] = "none" => tid[t] = t)
    /\ UniqueTids

Started == {t \in Threads : pc[t] # "none"}

\* The count of live threads.
Counts ==
    /\ num_live_threads >= Cardinality(threads \ exit_work)
    /\ num_live_threads <= Cardinality(Started)
    /\ LiveAreCounted

Inv == TypeOK /\ Linked /\ Flagged /\ Exits /\ Execs /\ Tids /\ Counts

-------------------------------------------------------------------------------
(* Counting the threads *)

\* The list of threads is finite, and so is what is left of it.
LEMMA ThreadsFinite ==
    ASSUME TypeOK
    PROVE  /\ IsFiniteSet(threads) /\ num_threads \in Nat
           /\ \A S : IsFiniteSet(threads \ S) /\ Cardinality(threads \ S) \in Nat
<1>1. IsFiniteSet(threads)
  BY MainAssumption, FS_Subset DEF TypeOK
<1>2. \A S : threads \ S \subseteq threads
  OBVIOUS
<1>3. \A S : IsFiniteSet(threads \ S)
  BY <1>1, <1>2, FS_Subset
<1> QED BY <1>1, <1>3, FS_CardinalityType DEF TypeOK

\* A list of one holds nobody else, and a longer one does.
LEMMA OthersOf ==
    ASSUME TypeOK, NEW t \in threads
    PROVE  /\ num_threads = 1 <=> threads = {t}
           /\ num_threads > 1 <=> threads # {t}
           /\ num_threads > 1 <=> threads \ {t} # {}
           /\ Cardinality(threads \ {t}) = num_threads - 1
<1>1. Cardinality(threads \ {t}) = num_threads - 1 /\ num_threads \in Nat
  BY ThreadsFinite, FS_RemoveElement DEF TypeOK
<1>2. threads \ {t} = {} <=> Cardinality(threads \ {t}) = 0
  BY ThreadsFinite, FS_EmptySet
<1>3. Cardinality(threads \ {t}) \in Nat
  BY ThreadsFinite
<1>4. threads \ {t} = {} <=> threads = {t}
  OBVIOUS
<1> QED BY <1>1, <1>2, <1>3, <1>4

\* The process starts with one thread, which is not leaving.
LEMMA InitInv == Init => Inv
<1> SUFFICES ASSUME Init PROVE Inv
  OBVIOUS
<1>1. Cardinality({Main}) = 1 /\ {Main} \ {} = {Main} /\ Started = {Main}
  BY MainAssumption, FS_Singleton DEF Init, Started, Actors
<1>2. Cardinality(Threads) \in Nat /\ Cardinality({Main}) <= Cardinality(Threads)
  BY MainAssumption, FS_CardinalityType, FS_Subset
<1>3. TypeOK
  <2>1. num_live_threads \in 0..Cardinality(Threads)
    BY <1>1, <1>2 DEF Init
  <2> QED BY <1>1, <2>1, MainAssumption, ActorsAssumption DEF Init, TypeOK, Places, Actors
<1>4. Linked /\ Flagged /\ Tids
  BY MainAssumption, ActorsAssumption DEF Init, Linked, Flagged, Tids, UniqueTids, Out, InBeginExit, Actors
<1>6. Exits /\ Execs
  BY MainAssumption, ActorsAssumption DEF Init, Exits, Execs, Actors
<1>5. Counts
  BY <1>1 DEF Init, Counts, LiveAreCounted
<1> QED BY <1>3, <1>4, <1>5, <1>6 DEF Inv

\* Threads are linked and unlinked where their place says.
LEMMA LinkedStep == ASSUME Inv, [Next]_vars PROVE Linked'
<1> USE MainAssumption, ActorsAssumption DEF Inv, TypeOK, Linked, Goto, Actors, Places, Out, InBeginExit
<1>1. CASE UNCHANGED vars
  BY <1>1 DEF vars, listVars
<1>2. ASSUME NEW a \in Actors, FirstToExit(a) \/ AlreadyExiting(a)
      PROVE  Linked'
  BY <1>2 DEF FirstToExit, AlreadyExiting, listVars
<1>3. ASSUME NEW a \in Actors, StoreStatus(a) \/ FlagThreads(a)
      PROVE  Linked'
  BY <1>3 DEF StoreStatus, FlagThreads, listVars
<1>4. ASSUME NEW t \in Threads, SysExit(t) \/ Fault(t)
      PROVE  Linked'
  BY <1>4 DEF SysExit, Fault, CallExit, listVars
<1>5. ASSUME NEW k \in Killers, Kill(k)
      PROVE  Linked'
  BY <1>5 DEF Kill, CallExit, listVars
<1>6. ASSUME NEW t \in Threads, ThreadExit(t)
      PROVE  Linked'
  BY <1>6 DEF ThreadExit, listVars
<1>7. ASSUME NEW t \in Threads, ThreadExitFlagged(t) \/ Kicked(t)
      PROVE  Linked'
  BY <1>7 DEF ThreadExitFlagged, Kicked, listVars
<1>8. ASSUME NEW t \in Threads, exit_to_user(t) \/ Terminate(t)
      PROVE  Linked'
  BY <1>8 DEF exit_to_user, Terminate, listVars
<1>9. ASSUME NEW t \in Threads, NEW new \in Threads, attach_thread_user(t, new)
      PROVE  Linked'
  BY <1>9 DEF attach_thread_user, Attach, listVars
<1>10. ASSUME NEW t \in Threads, NEW new \in Threads, SpawnNew(t, new)
      PROVE  Linked'
  BY <1>10 DEF SpawnNew, listVars
<1>11. ASSUME NEW t \in Threads, DethreadRefused(t)
      PROVE  Linked'
  BY <1>11 DEF DethreadRefused, listVars
<1>12. ASSUME NEW t \in Threads, DethreadBegin(t)
      PROVE  Linked'
  BY <1>12 DEF DethreadBegin, listVars
<1>13. ASSUME NEW t \in Threads, DethreadAlone(t)
      PROVE  Linked'
  BY <1>13 DEF DethreadAlone, Alone, AloneWith, listVars
<1>14. ASSUME NEW t \in Threads, DethreadWoken(t)
      PROVE  Linked'
  BY <1>14 DEF DethreadWoken, Alone, AloneWith, listVars
<1>15. ASSUME NEW t \in Threads, Exec(t)
      PROVE  Linked'
  BY <1>15 DEF Exec, listVars
<1>16. ASSUME NEW t \in Threads, UnlinkThread(t)
      PROVE  Linked'
  BY <1>16 DEF UnlinkThread, listVars
<1>17. ASSUME NEW t \in Threads, Reaped(t)
      PROVE  Linked'
  BY <1>17 DEF Reaped, listVars
<1>18. ASSUME NEW t \in Threads, LastReaped(t)
      PROVE  Linked'
  BY <1>18 DEF LastReaped, listVars
<1> QED BY <1>1, <1>2, <1>3, <1>4, <1>5, <1>6, <1>7, <1>8, <1>9, <1>10, <1>11, <1>12, <1>13, <1>14, <1>15, <1>16, <1>17, <1>18
  DEF Next, Call, Step, BeginExit, Dethread, Reap, Actors

\* Flags are set where a thread leaves, or is told to.
LEMMA FlaggedStep == ASSUME Inv, [Next]_vars PROVE Flagged'
<1> USE MainAssumption, ActorsAssumption DEF Inv, TypeOK, Linked, Goto, Actors, Places, Out, InBeginExit, Flagged, Execs
<1>1. CASE UNCHANGED vars
  BY <1>1 DEF vars, listVars
<1>2. ASSUME NEW a \in Actors, FirstToExit(a) \/ AlreadyExiting(a)
      PROVE  Flagged'
  BY <1>2 DEF FirstToExit, AlreadyExiting, listVars
<1>3. ASSUME NEW a \in Actors, StoreStatus(a) \/ FlagThreads(a)
      PROVE  Flagged'
  BY <1>3 DEF StoreStatus, FlagThreads, listVars, Exits
<1>4. ASSUME NEW t \in Threads, SysExit(t) \/ Fault(t)
      PROVE  Flagged'
  BY <1>4 DEF SysExit, Fault, CallExit, listVars
<1>5. ASSUME NEW k \in Killers, Kill(k)
      PROVE  Flagged'
  BY <1>5 DEF Kill, CallExit, listVars
<1>6. ASSUME NEW t \in Threads, ThreadExit(t)
      PROVE  Flagged'
  BY <1>6 DEF ThreadExit, listVars
<1>7. ASSUME NEW t \in Threads, ThreadExitFlagged(t) \/ Kicked(t)
      PROVE  Flagged'
  BY <1>7 DEF ThreadExitFlagged, Kicked, listVars
<1>8. ASSUME NEW t \in Threads, exit_to_user(t) \/ Terminate(t)
      PROVE  Flagged'
  BY <1>8 DEF exit_to_user, Terminate, listVars
<1>9. ASSUME NEW t \in Threads, NEW new \in Threads, attach_thread_user(t, new)
      PROVE  Flagged'
  BY <1>9 DEF attach_thread_user, Attach, listVars
<1>10. ASSUME NEW t \in Threads, NEW new \in Threads, SpawnNew(t, new)
      PROVE  Flagged'
  BY <1>10 DEF SpawnNew, listVars
<1>11. ASSUME NEW t \in Threads, DethreadRefused(t)
      PROVE  Flagged'
  BY <1>11 DEF DethreadRefused, listVars
<1>12. ASSUME NEW t \in Threads, DethreadBegin(t)
      PROVE  Flagged'
  BY <1>12 DEF DethreadBegin, listVars
<1>13. ASSUME NEW t \in Threads, DethreadAlone(t)
      PROVE  Flagged'
  BY <1>13 DEF DethreadAlone, Alone, AloneWith, listVars
<1>14. ASSUME NEW t \in Threads, DethreadWoken(t)
      PROVE  Flagged'
  <2>1. t \in threads /\ exec_thread = t
    BY <1>14 DEF DethreadWoken
  <2>2. ~(num_threads > 1) => threads = {t}
    BY <2>1, OthersOf
  <2> QED BY <1>14, <2>1, <2>2 DEF DethreadWoken, Alone, AloneWith, listVars
<1>15. ASSUME NEW t \in Threads, Exec(t)
      PROVE  Flagged'
  BY <1>15 DEF Exec, listVars
<1>16. ASSUME NEW t \in Threads, UnlinkThread(t)
      PROVE  Flagged'
  BY <1>16 DEF UnlinkThread, listVars
<1>17. ASSUME NEW t \in Threads, Reaped(t)
      PROVE  Flagged'
  BY <1>17 DEF Reaped, listVars
<1>18. ASSUME NEW t \in Threads, LastReaped(t)
      PROVE  Flagged'
  BY <1>18 DEF LastReaped, listVars
<1> QED BY <1>1, <1>2, <1>3, <1>4, <1>5, <1>6, <1>7, <1>8, <1>9, <1>10, <1>11, <1>12, <1>13, <1>14, <1>15, <1>16, <1>17, <1>18
  DEF Next, Call, Step, BeginExit, Dethread, Reap, Actors

\* The last thread to leave makes the process exit, with a status.
LEMMA ExitsStep == ASSUME Inv, [Next]_vars PROVE Exits'
<1> USE MainAssumption, ActorsAssumption DEF Inv, TypeOK, Linked, Goto, Actors, Places, Out, InBeginExit, Flagged, Exits
<1>1. CASE UNCHANGED vars
  BY <1>1 DEF vars, listVars
<1>2. ASSUME NEW a \in Actors, FirstToExit(a) \/ AlreadyExiting(a)
      PROVE  Exits'
  BY <1>2 DEF FirstToExit, AlreadyExiting, listVars
<1>3. ASSUME NEW a \in Actors, StoreStatus(a) \/ FlagThreads(a)
      PROVE  Exits'
  BY <1>3 DEF StoreStatus, FlagThreads, listVars
<1>4. ASSUME NEW t \in Threads, SysExit(t) \/ Fault(t)
      PROVE  Exits'
  BY <1>4 DEF SysExit, Fault, CallExit, listVars
<1>5. ASSUME NEW k \in Killers, Kill(k)
      PROVE  Exits'
  BY <1>5 DEF Kill, CallExit, listVars
<1>6. ASSUME NEW t \in Threads, ThreadExit(t)
      PROVE  Exits'
  <2>1. t \in threads \ exit_work /\ pc[t] = "user"
    BY <1>6 DEF ThreadExit
  <2>2. CASE exiting
    BY <1>6, <2>2 DEF ThreadExit
  <2>3. CASE ~exiting /\ exec_thread # None
    <3>1. exec_thread \in threads /\ exec_thread # t /\ exec_thread \notin exit_work
      BY <2>1, <2>3 DEF Execs
    <3> QED BY <1>6, <2>3, <3>1 DEF ThreadExit
  <2>4. CASE ~exiting /\ exec_thread = None
    <3>1. num_live_threads = Cardinality(threads \ exit_work)
      BY <2>4 DEF Counts, LiveAreCounted
    <3>2. Cardinality((threads \ exit_work) \ {t}) = num_live_threads - 1
      BY <2>1, <3>1, ThreadsFinite, FS_RemoveElement
    <3>3. (threads \ exit_work) \ {t} = {} => num_live_threads = 1
      BY <2>1, <3>1, <3>2, ThreadsFinite, FS_EmptySet
    <3>4. threads \subseteq exit_work \cup {t} => num_live_threads = 1
      BY <3>3
    <3> QED BY <1>6, <2>1, <2>4, <3>4 DEF ThreadExit
  <2> QED BY <2>2, <2>3, <2>4
<1>7. ASSUME NEW t \in Threads, ThreadExitFlagged(t) \/ Kicked(t)
      PROVE  Exits'
  BY <1>7 DEF ThreadExitFlagged, Kicked, listVars
<1>8. ASSUME NEW t \in Threads, exit_to_user(t) \/ Terminate(t)
      PROVE  Exits'
  BY <1>8 DEF exit_to_user, Terminate, listVars
<1>9. ASSUME NEW t \in Threads, NEW new \in Threads, attach_thread_user(t, new)
      PROVE  Exits'
  BY <1>9 DEF attach_thread_user, Attach, listVars
<1>10. ASSUME NEW t \in Threads, NEW new \in Threads, SpawnNew(t, new)
      PROVE  Exits'
  BY <1>10 DEF SpawnNew, listVars
<1>11. ASSUME NEW t \in Threads, DethreadRefused(t)
      PROVE  Exits'
  BY <1>11 DEF DethreadRefused, listVars
<1>12. ASSUME NEW t \in Threads, DethreadBegin(t)
      PROVE  Exits'
  BY <1>12 DEF DethreadBegin, listVars
<1>13. ASSUME NEW t \in Threads, DethreadAlone(t)
      PROVE  Exits'
  BY <1>13 DEF DethreadAlone, Alone, AloneWith, listVars
<1>14. ASSUME NEW t \in Threads, DethreadWoken(t)
      PROVE  Exits'
  BY <1>14 DEF DethreadWoken, Alone, AloneWith, listVars
<1>15. ASSUME NEW t \in Threads, Exec(t)
      PROVE  Exits'
  BY <1>15 DEF Exec, listVars
<1>16. ASSUME NEW t \in Threads, UnlinkThread(t)
      PROVE  Exits'
  <2>1. t \in threads /\ pc[t] = "dead"
    BY <1>16 DEF UnlinkThread
  <2>2. num_threads = 1 => threads = {t}
    BY <2>1, OthersOf
  <2>3. num_threads = 1 => exiting
    BY <2>1, <2>2
  <2> QED BY <1>16, <2>1, <2>2, <2>3 DEF UnlinkThread
<1>17. ASSUME NEW t \in Threads, Reaped(t)
      PROVE  Exits'
  BY <1>17 DEF Reaped, listVars
<1>18. ASSUME NEW t \in Threads, LastReaped(t)
      PROVE  Exits'
  BY <1>18 DEF LastReaped, listVars
<1> QED BY <1>1, <1>2, <1>3, <1>4, <1>5, <1>6, <1>7, <1>8, <1>9, <1>10, <1>11, <1>12, <1>13, <1>14, <1>15, <1>16, <1>17, <1>18
  DEF Next, Call, Step, BeginExit, Dethread, Reap, Actors

\* A new thread has an id of its own, and one that execs is alone.
LEMMA TidsStep == ASSUME Inv, [Next]_vars PROVE Tids'
<1> USE MainAssumption, ActorsAssumption DEF Inv, TypeOK, Linked, Goto, Actors, Places, Out, InBeginExit, Tids, UniqueTids
<1>1. CASE UNCHANGED vars
  BY <1>1 DEF vars, listVars
<1>2. ASSUME NEW a \in Actors, FirstToExit(a) \/ AlreadyExiting(a)
      PROVE  Tids'
  BY <1>2 DEF FirstToExit, AlreadyExiting, listVars
<1>3. ASSUME NEW a \in Actors, StoreStatus(a) \/ FlagThreads(a)
      PROVE  Tids'
  BY <1>3 DEF StoreStatus, FlagThreads, listVars
<1>4. ASSUME NEW t \in Threads, SysExit(t) \/ Fault(t)
      PROVE  Tids'
  BY <1>4 DEF SysExit, Fault, CallExit, listVars
<1>5. ASSUME NEW k \in Killers, Kill(k)
      PROVE  Tids'
  BY <1>5 DEF Kill, CallExit, listVars
<1>6. ASSUME NEW t \in Threads, ThreadExit(t)
      PROVE  Tids'
  BY <1>6 DEF ThreadExit, listVars
<1>7. ASSUME NEW t \in Threads, ThreadExitFlagged(t) \/ Kicked(t)
      PROVE  Tids'
  BY <1>7 DEF ThreadExitFlagged, Kicked, listVars
<1>8. ASSUME NEW t \in Threads, exit_to_user(t) \/ Terminate(t)
      PROVE  Tids'
  BY <1>8 DEF exit_to_user, Terminate, listVars
<1>9. ASSUME NEW t \in Threads, NEW new \in Threads, attach_thread_user(t, new)
      PROVE  Tids'
  BY <1>9 DEF attach_thread_user, Attach, listVars
<1>10. ASSUME NEW t \in Threads, NEW new \in Threads, SpawnNew(t, new)
      PROVE  Tids'
  BY <1>10 DEF SpawnNew, listVars
<1>11. ASSUME NEW t \in Threads, DethreadRefused(t)
      PROVE  Tids'
  BY <1>11 DEF DethreadRefused, listVars
<1>12. ASSUME NEW t \in Threads, DethreadBegin(t)
      PROVE  Tids'
  BY <1>12 DEF DethreadBegin, listVars
<1>13. ASSUME NEW t \in Threads, DethreadAlone(t)
      PROVE  Tids'
  <2>1. t \in threads
    BY <1>13 DEF DethreadAlone
  <2>2. ~(num_threads > 1) => threads = {t}
    BY <2>1, OthersOf
  <2> QED BY <1>13, <2>1, <2>2 DEF DethreadAlone, Alone, AloneWith, listVars
<1>14. ASSUME NEW t \in Threads, DethreadWoken(t)
      PROVE  Tids'
  <2>1. t \in threads
    BY <1>14 DEF DethreadWoken
  <2>2. ~(num_threads > 1) => threads = {t}
    BY <2>1, OthersOf
  <2> QED BY <1>14, <2>1, <2>2 DEF DethreadWoken, Alone, AloneWith, listVars
<1>15. ASSUME NEW t \in Threads, Exec(t)
      PROVE  Tids'
  BY <1>15 DEF Exec, listVars
<1>16. ASSUME NEW t \in Threads, UnlinkThread(t)
      PROVE  Tids'
  BY <1>16 DEF UnlinkThread, listVars
<1>17. ASSUME NEW t \in Threads, Reaped(t)
      PROVE  Tids'
  BY <1>17 DEF Reaped, listVars
<1>18. ASSUME NEW t \in Threads, LastReaped(t)
      PROVE  Tids'
  BY <1>18 DEF LastReaped, listVars
<1> QED BY <1>1, <1>2, <1>3, <1>4, <1>5, <1>6, <1>7, <1>8, <1>9, <1>10, <1>11, <1>12, <1>13, <1>14, <1>15, <1>16, <1>17, <1>18
  DEF Next, Call, Step, BeginExit, Dethread, Reap, Actors

\* Who waits in process_dethread has somebody to wait for, or a reaper to wake it.
LEMMA ExecsStep == ASSUME Inv, [Next]_vars PROVE Execs'
<1> USE MainAssumption, ActorsAssumption DEF Inv, TypeOK, Linked, Goto, Actors, Places, Out, InBeginExit, Execs
<1>1. CASE UNCHANGED vars
  BY <1>1 DEF vars, listVars
<1>2. ASSUME NEW a \in Actors, FirstToExit(a) \/ AlreadyExiting(a)
      PROVE  Execs'
  BY <1>2 DEF FirstToExit, AlreadyExiting, listVars
<1>3. ASSUME NEW a \in Actors, StoreStatus(a) \/ FlagThreads(a)
      PROVE  Execs'
  BY <1>3 DEF StoreStatus, FlagThreads, listVars
<1>4. ASSUME NEW t \in Threads, SysExit(t) \/ Fault(t)
      PROVE  Execs'
  BY <1>4 DEF SysExit, Fault, CallExit, listVars
<1>5. ASSUME NEW k \in Killers, Kill(k)
      PROVE  Execs'
  BY <1>5 DEF Kill, CallExit, listVars
<1>6. ASSUME NEW t \in Threads, ThreadExit(t)
      PROVE  Execs'
  BY <1>6 DEF ThreadExit, listVars
<1>7. ASSUME NEW t \in Threads, ThreadExitFlagged(t) \/ Kicked(t)
      PROVE  Execs'
  BY <1>7 DEF ThreadExitFlagged, Kicked, listVars
<1>8. ASSUME NEW t \in Threads, exit_to_user(t) \/ Terminate(t)
      PROVE  Execs'
  BY <1>8 DEF exit_to_user, Terminate, listVars
<1>9. ASSUME NEW t \in Threads, NEW new \in Threads, attach_thread_user(t, new)
      PROVE  Execs'
  BY <1>9 DEF attach_thread_user, Attach, listVars
<1>10. ASSUME NEW t \in Threads, NEW new \in Threads, SpawnNew(t, new)
      PROVE  Execs'
  BY <1>10 DEF SpawnNew, listVars
<1>11. ASSUME NEW t \in Threads, DethreadRefused(t)
      PROVE  Execs'
  BY <1>11 DEF DethreadRefused, listVars
<1>12. ASSUME NEW t \in Threads, DethreadBegin(t)
      PROVE  Execs'
  <2>1. t \in threads
    BY <1>12 DEF DethreadBegin
  <2>2. threads # {t}
    BY <1>12, <2>1, OthersOf DEF DethreadBegin
  <2>3. \A o \in Threads : to_wake[o] = None
    BY <1>12 DEF DethreadBegin
  <2> QED BY <1>12, <2>1, <2>2, <2>3 DEF DethreadBegin, listVars
<1>13. ASSUME NEW t \in Threads, DethreadAlone(t)
      PROVE  Execs'
  <2>1. t \in threads
    BY <1>13 DEF DethreadAlone
  <2>2. ~(num_threads > 1) => threads = {t}
    BY <2>1, OthersOf
  <2> QED BY <1>13, <2>1, <2>2 DEF DethreadAlone, Alone, AloneWith, listVars
<1>14. ASSUME NEW t \in Threads, DethreadWoken(t)
      PROVE  Execs'
  <2>1. t \in threads
    BY <1>14 DEF DethreadWoken
  <2>2. ~(num_threads > 1) => threads = {t}
    BY <2>1, OthersOf
  <2>3. num_threads > 1 => threads # {t}
    BY <2>1, OthersOf
  <2>4. \A o \in Threads : to_wake[o] = None
    BY <1>14 DEF DethreadWoken
  <2> QED BY <1>14, <2>1, <2>2, <2>3, <2>4 DEF DethreadWoken, Alone, AloneWith, listVars
<1>15. ASSUME NEW t \in Threads, Exec(t)
      PROVE  Execs'
  BY <1>15 DEF Exec, listVars
<1>16. ASSUME NEW t \in Threads, UnlinkThread(t)
      PROVE  Execs'
  <2>1. t \in threads /\ pc[t] = "dead"
    BY <1>16 DEF UnlinkThread
  <2>2. CASE exec_thread = None
    BY <1>16, <2>1, <2>2 DEF UnlinkThread
  <2>3. CASE exec_thread # None
    <3>1. exec_thread \in threads \ {t}
      BY <2>1, <2>3
    <3>2. \A o \in Threads : to_wake[o] = None
      BY <2>1, <3>1
    <3>3. Cardinality(threads \ {t}) = num_threads - 1 /\ num_threads \in Nat /\ num_threads # 1
      BY <2>1, <3>1, OthersOf, ThreadsFinite
    <3>4. threads \ {t} = {exec_thread} <=> Cardinality(threads \ {t}) = 1
      <4> DEFINE S == threads \ {t}
      <4>1. IsFiniteSet(S) /\ exec_thread \in S
        BY <3>1, ThreadsFinite
      <4> HIDE DEF S
      <4>2. IsFiniteSet(S \ {exec_thread}) /\ Cardinality(S \ {exec_thread}) = Cardinality(S) - 1
        BY <4>1, FS_RemoveElement
      <4>3. S \ {exec_thread} = {} <=> Cardinality(S \ {exec_thread}) = 0
        BY <4>2, FS_EmptySet
      <4>4. Cardinality(S) \in Nat
        BY <4>1, FS_CardinalityType
      <4>5. S = {exec_thread} <=> Cardinality(S) = 1
        BY <4>1, <4>2, <4>3, <4>4
      <4> QED BY <4>5 DEF S
    <3>5. threads \ {t} = {exec_thread} <=> num_threads = 2
      BY <3>3, <3>4
    <3>6. /\ to_wake' = [to_wake EXCEPT ![t] = IF num_threads = 2 THEN exec_thread ELSE None]
          /\ pc' = [pc EXCEPT ![t] = "unlinked"] /\ threads' = threads \ {t}
          /\ UNCHANGED <<exec_thread, exit_work>>
      BY <1>16, <3>3 DEF UnlinkThread
    <3>7. exec_thread \in Threads /\ exec_thread # t /\ pc[exec_thread] \in {"blocked", "woken"}
      BY <2>3, <3>1
    <3>8. pc[exec_thread] = "blocked"
      <4>1. threads # {exec_thread}
        BY <2>1, <3>7
      <4> QED BY <4>1, <3>7
    <3> QED BY <2>1, <3>2, <3>5, <3>6, <3>7, <3>8
  <2> QED BY <2>2, <2>3
<1>17. ASSUME NEW t \in Threads, Reaped(t)
      PROVE  Execs'
  BY <1>17 DEF Reaped, listVars
<1>18. ASSUME NEW t \in Threads, LastReaped(t)
      PROVE  Execs'
  BY <1>18 DEF LastReaped, listVars
<1> QED BY <1>1, <1>2, <1>3, <1>4, <1>5, <1>6, <1>7, <1>8, <1>9, <1>10, <1>11, <1>12, <1>13, <1>14, <1>15, <1>16, <1>17, <1>18
  DEF Next, Call, Step, BeginExit, Dethread, Reap, Actors

\* A step that makes no thread live, and makes no count matter that did not, keeps the counts.
LEMMA CountsKept ==
    ASSUME Inv, threads' \ exit_work' \subseteq threads \ exit_work, num_live_threads' = num_live_threads,
           Started \subseteq Started',
           (~exiting' /\ exec_thread' = None) =>
               ~exiting /\ exec_thread = None /\ threads' \ exit_work' = threads \ exit_work
    PROVE  Counts'
<1>1. Cardinality(threads' \ exit_work') <= Cardinality(threads \ exit_work)
  BY ThreadsFinite, FS_Subset DEF Inv
<1>2. Cardinality(Started) <= Cardinality(Started') /\ Cardinality(Started) \in Nat /\ Cardinality(Started') \in Nat
  BY MainAssumption, FS_Subset, FS_CardinalityType DEF Started
<1>3. Cardinality(threads \ exit_work) \in Nat /\ Cardinality(threads' \ exit_work') \in Nat
  BY ThreadsFinite, FS_Subset, FS_CardinalityType DEF Inv
<1>4. num_live_threads \in Nat
  BY DEF Inv, TypeOK
<1> QED BY <1>1, <1>2, <1>3, <1>4 DEF Inv, Counts, LiveAreCounted

\* num_live_threads follows every thread that is attached and that leaves.
LEMMA CountsStep == ASSUME Inv, [Next]_vars PROVE Counts' /\ num_live_threads' \in Int
<1> USE MainAssumption, ActorsAssumption DEF Inv, TypeOK
<1>0. /\ Cardinality(Started) \in Nat /\ Cardinality(threads \ exit_work) \in Nat
      /\ IsFiniteSet(Started) /\ IsFiniteSet(threads \ exit_work) /\ num_live_threads \in Nat
  BY ThreadsFinite, FS_Subset, FS_CardinalityType DEF Started
<1>1. CASE UNCHANGED vars
  BY <1>1, CountsKept DEF vars, Started
<1>2. ASSUME NEW a \in Actors, FirstToExit(a) \/ AlreadyExiting(a) \/ StoreStatus(a) \/ FlagThreads(a)
      PROVE  Counts' /\ num_live_threads' \in Int
  <2>1. UNCHANGED <<threads, num_live_threads, exec_thread>> /\ exit_work \subseteq exit_work'
    BY <1>2 DEF FirstToExit, AlreadyExiting, StoreStatus, FlagThreads, listVars
  <2>2. Started \subseteq Started'
    BY <1>2 DEF FirstToExit, AlreadyExiting, StoreStatus, FlagThreads, Goto, Started, Actors
  <2>3. exiting' \/ (exiting' = exiting /\ exit_work' = exit_work)
    BY <1>2 DEF FirstToExit, AlreadyExiting, StoreStatus, FlagThreads, Exits
  <2> QED BY <2>1, <2>2, <2>3, CountsKept
<1>3. ASSUME NEW a \in Actors, NEW place, CallExit(a, place)
      PROVE  Counts' /\ num_live_threads' \in Int
  <2>1. UNCHANGED <<threads, num_live_threads, exec_thread, exiting, exit_work>> /\ Started \subseteq Started'
    BY <1>3 DEF CallExit, listVars, Goto, Started, Actors
  <2> QED BY <2>1, CountsKept
<1>4. ASSUME NEW t \in Threads,
             \/ ThreadExitFlagged(t) \/ Kicked(t) \/ exit_to_user(t) \/ Terminate(t) \/ DethreadRefused(t) \/ Exec(t)
             \/ Reaped(t) \/ LastReaped(t) \/ \E new \in Threads : SpawnNew(t, new)
      PROVE  Counts' /\ num_live_threads' \in Int
  <2>1. UNCHANGED <<threads, num_live_threads, exec_thread, exiting, exit_work>>
    BY <1>4 DEF ThreadExitFlagged, Kicked, exit_to_user, Terminate, DethreadRefused, Exec, Reaped, LastReaped, SpawnNew,
                listVars
  <2>2. Started \subseteq Started'
    BY <1>4 DEF ThreadExitFlagged, Kicked, exit_to_user, Terminate, DethreadRefused, Exec, Reaped, LastReaped, SpawnNew,
                Goto, Started, Actors
  <2> QED BY <2>1, <2>2, CountsKept
<1>5. ASSUME NEW t \in Threads, ThreadExit(t)
      PROVE  Counts' /\ num_live_threads' \in Int
  <2>1. t \in threads \ exit_work
    BY <1>5 DEF ThreadExit, Linked, Out
  <2>2. threads' \ exit_work' = (threads \ exit_work) \ {t} /\ Started' = Started
    BY <1>5 DEF ThreadExit, Goto, Started, Actors
  <2>3. Cardinality(threads' \ exit_work') = Cardinality(threads \ exit_work) - 1
    <3> DEFINE S == threads \ exit_work
    <3>1. IsFiniteSet(S) /\ t \in S /\ threads' \ exit_work' = S \ {t}
      BY <1>0, <2>1, <2>2
    <3> HIDE DEF S
    <3>2. Cardinality(S \ {t}) = Cardinality(S) - 1
      BY <3>1, FS_RemoveElement
    <3> QED BY <3>1, <3>2 DEF S
  <2>4. num_live_threads' = num_live_threads - 1 /\ exiting' = exiting /\ exec_thread' = exec_thread
    BY <1>5 DEF ThreadExit
  <2> QED BY <1>0, <2>2, <2>3, <2>4 DEF Counts, LiveAreCounted
<1>6. ASSUME NEW t \in Threads, NEW new \in Threads, attach_thread_user(t, new)
      PROVE  Counts' /\ num_live_threads' \in Int
  <2>1. /\ pc[new] = "none" /\ new \notin threads /\ new \notin exit_work /\ threads' = threads \cup {new}
        /\ num_live_threads' = num_live_threads + 1 /\ exiting' = exiting /\ exec_thread' = exec_thread
        /\ exit_work' = IF exiting \/ exec_thread # None THEN exit_work \cup {new} ELSE exit_work
    BY <1>6 DEF attach_thread_user, Attach, Linked, Out, Flagged
  <2>2. Started' = Started \cup {new} /\ new \notin Started
    BY <1>6, <2>1 DEF attach_thread_user, Attach, Started, Actors
  <2>3. Cardinality(Started') = Cardinality(Started) + 1
    BY <1>0, <2>2, FS_AddElement
  <2>4. CASE exiting \/ exec_thread # None
    <3>1. threads' \ exit_work' = threads \ exit_work
      BY <2>1, <2>4
    <3>2. LiveAreCounted'
      BY <2>1, <2>4 DEF LiveAreCounted
    <3>3. /\ num_live_threads' >= Cardinality(threads' \ exit_work') /\ num_live_threads' <= Cardinality(Started')
          /\ num_live_threads' \in Int
      <4>1. Cardinality(threads' \ exit_work') = Cardinality(threads \ exit_work)
        BY <3>1
      <4>2. num_live_threads' = num_live_threads + 1
        BY <2>1
      <4>3. num_live_threads \in Int /\ num_live_threads >= Cardinality(threads \ exit_work) /\ num_live_threads <= Cardinality(Started)
        BY <1>0 DEF Counts
      <4> QED BY <1>0, <2>3, <4>1, <4>2, <4>3
    <3> QED BY <3>2, <3>3 DEF Counts
  <2>5. CASE ~(exiting \/ exec_thread # None)
    <3>1. threads' \ exit_work' = (threads \ exit_work) \cup {new}
      BY <2>1, <2>5
    <3>2. Cardinality(threads' \ exit_work') = Cardinality(threads \ exit_work) + 1
      BY <1>0, <2>1, <3>1, FS_AddElement
    <3> QED BY <1>0, <2>1, <2>3, <2>5, <3>2 DEF Counts, LiveAreCounted
  <2> QED BY <2>4, <2>5
<1>7. ASSUME NEW t \in Threads, DethreadBegin(t)
      PROVE  Counts' /\ num_live_threads' \in Int
  <2>1. /\ UNCHANGED <<threads, num_live_threads>> /\ exec_thread' # None /\ exit_work \subseteq exit_work'
        /\ Started \subseteq Started'
    BY <1>7 DEF DethreadBegin, Goto, Started, Actors
  <2> QED BY <2>1, CountsKept
<1>8. ASSUME NEW t \in Threads, t \in threads, threads = {t}, Alone(t), ~exiting => t \notin exit_work, pc[t] # "none"
      PROVE  Counts' /\ num_live_threads' \in Int
  <2>1. /\ exec_thread' = None /\ UNCHANGED <<exiting, threads, exit_work>>
        /\ exiting => num_live_threads' = num_live_threads
        /\ ~exiting => num_live_threads' = 1
    BY <1>8 DEF Alone, AloneWith
  <2>2. Started' = Started /\ t \in Started
    BY <1>8 DEF Alone, AloneWith, Goto, Started, Actors
  <2>3. CASE exiting
    BY <2>1, <2>2, <2>3, CountsKept
  <2>4. CASE ~exiting
    <3>1. threads \ exit_work = {t} /\ {t} \subseteq Started
      BY <1>8, <2>2, <2>4
    <3>2. Cardinality({t}) = 1 /\ Cardinality({t}) <= Cardinality(Started)
      BY <1>0, <3>1, FS_Singleton, FS_Subset
    <3> QED BY <1>0, <2>1, <2>2, <2>4, <3>1, <3>2 DEF Counts, LiveAreCounted
  <2> QED BY <2>3, <2>4
<1>9. ASSUME NEW t \in Threads, DethreadAlone(t)
      PROVE  Counts' /\ num_live_threads' \in Int
  <2>1. t \in threads /\ t \notin exit_work /\ pc[t] # "none" /\ num_threads = 1 /\ Alone(t)
    BY <1>9 DEF DethreadAlone, Linked, Out, Flagged
  <2>2. threads = {t}
    BY <2>1, OthersOf
  <2> QED BY <1>8, <2>1, <2>2
<1>10. ASSUME NEW t \in Threads, DethreadWoken(t)
      PROVE  Counts' /\ num_live_threads' \in Int
  <2>1. t \in threads /\ pc[t] = "woken" /\ exec_thread = t /\ t # None /\ (~exiting => t \notin exit_work)
    BY <1>10 DEF DethreadWoken, Linked, Out, Flagged, Execs
  <2>2. CASE num_threads > 1
    <3>1. UNCHANGED <<threads, num_live_threads, exec_thread, exiting, exit_work>> /\ Started \subseteq Started'
      BY <1>10, <2>2 DEF DethreadWoken, listVars, Goto, Started, Actors
    <3> QED BY <3>1, CountsKept
  <2>3. CASE ~(num_threads > 1)
    <3>1. threads = {t}
      BY <2>1, <2>3, OthersOf
    <3>2. Alone(t)
      BY <1>10, <2>3 DEF DethreadWoken
    <3> QED BY <1>8, <2>1, <3>1, <3>2
  <2> QED BY <2>2, <2>3
<1>11. ASSUME NEW t \in Threads, UnlinkThread(t)
      PROVE  Counts' /\ num_live_threads' \in Int
  <2>1. /\ threads' = threads \ {t} /\ UNCHANGED <<num_live_threads, exec_thread, exiting, exit_work>>
        /\ Started \subseteq Started' /\ (~exiting => t \in exit_work)
    BY <1>11 DEF UnlinkThread, Goto, Started, Actors, Flagged
  <2> QED BY <2>1, CountsKept
<1> QED BY <1>1, <1>2, <1>3, <1>4, <1>5, <1>6, <1>7, <1>9, <1>10, <1>11
  DEF Next, Call, Step, BeginExit, Dethread, Reap, Actors, SysExit, Fault, Kill

\* The count of threads follows the list, and the variables keep their types.
LEMMA TypeStep == ASSUME Inv, [Next]_vars PROVE TypeOK'
<1> USE MainAssumption, ActorsAssumption DEF Inv
<1>1. num_live_threads' \in 0..Cardinality(Threads)
  <2>1. Started' \subseteq Threads
    BY DEF Started
  <2>2. Cardinality(Started') <= Cardinality(Threads) /\ Cardinality(Threads) \in Nat /\ Cardinality(Started') \in Nat
    BY <2>1, FS_Subset, FS_CardinalityType
  <2>3. num_live_threads' \in Int /\ num_live_threads' <= Cardinality(Started')
    BY CountsStep DEF Counts
  <2>4. num_live_threads' >= Cardinality(threads' \ exit_work')
    BY CountsStep DEF Counts
  <2>5. threads' \subseteq Threads
    <3> USE DEF TypeOK
    <3>1. CASE UNCHANGED threads
      BY <3>1
    <3>2. ASSUME NEW t \in Threads, NEW new \in Threads, attach_thread_user(t, new) PROVE threads' \subseteq Threads
      BY <3>2 DEF attach_thread_user, Attach
    <3>3. ASSUME NEW t \in Threads, UnlinkThread(t) PROVE threads' \subseteq Threads
      BY <3>3 DEF UnlinkThread
    <3> QED BY <3>1, <3>2, <3>3 DEF Next, Call, Step, BeginExit, Dethread, Reap, SysExit, Fault, Kill, CallExit,
          FirstToExit, AlreadyExiting, StoreStatus, FlagThreads, ThreadExit, ThreadExitFlagged, Kicked, exit_to_user,
          Terminate, SpawnNew, DethreadRefused, DethreadBegin, DethreadAlone, DethreadWoken, Alone, AloneWith, Exec,
          Reaped, LastReaped, listVars, vars
  <2>6. IsFiniteSet(threads' \ exit_work')
    BY <2>5, FS_Subset
  <2>7. Cardinality(threads' \ exit_work') \in Nat
    BY <2>6, FS_CardinalityType
  <2> QED BY <2>2, <2>3, <2>4, <2>7
<1> USE DEF TypeOK, Goto, Actors, Places
<1>3. CASE UNCHANGED vars
  BY <1>1, <1>3 DEF vars, listVars
<1>4. ASSUME NEW a \in Actors, FirstToExit(a) PROVE TypeOK'
  BY <1>1, <1>4 DEF FirstToExit, listVars
<1>5. ASSUME NEW a \in Actors, AlreadyExiting(a) PROVE TypeOK'
  <2>1. after[a] \in Places
    BY <1>5
  <2> QED BY <1>1, <1>5, <2>1 DEF AlreadyExiting, listVars
<1>6. ASSUME NEW a \in Actors, StoreStatus(a) PROVE TypeOK'
  BY <1>1, <1>6 DEF StoreStatus, listVars
<1>7. ASSUME NEW a \in Actors, FlagThreads(a) PROVE TypeOK'
  <2>1. after[a] \in Places
    BY <1>7
  <2> QED BY <1>1, <1>7, <2>1 DEF FlagThreads, listVars
<1>8. ASSUME NEW t \in Threads, SysExit(t) \/ Fault(t) PROVE TypeOK'
  BY <1>1, <1>8 DEF SysExit, Fault, CallExit, listVars
<1>9. ASSUME NEW k \in Killers, Kill(k) PROVE TypeOK'
  BY <1>1, <1>9 DEF Kill, CallExit, listVars
<1>10. ASSUME NEW t \in Threads, ThreadExit(t) PROVE TypeOK'
  BY <1>1, <1>10 DEF ThreadExit, listVars
<1>11. ASSUME NEW t \in Threads, ThreadExitFlagged(t) \/ Kicked(t) \/ exit_to_user(t) \/ Terminate(t) PROVE TypeOK'
  BY <1>1, <1>11 DEF ThreadExitFlagged, Kicked, exit_to_user, Terminate, listVars
<1>12. ASSUME NEW t \in Threads, NEW new \in Threads, attach_thread_user(t, new) PROVE TypeOK'
  <2>1. /\ new \notin threads /\ threads' = threads \cup {new} /\ num_threads' = num_threads + 1
        /\ UNCHANGED <<exiting, zombie, exit_status, tid, exec_thread, after, to_wake>>
        /\ pc' \in [Actors -> Places] /\ exit_work' \subseteq Threads /\ threads' \subseteq Threads
    BY <1>12 DEF attach_thread_user, Attach, Linked, Out
  <2>2. Cardinality(threads \cup {new}) = Cardinality(threads) + 1
    BY <2>1, ThreadsFinite, FS_AddElement
  <2>3. num_threads' = Cardinality(threads')
    BY <2>1, <2>2
  <2> QED BY <1>1, <2>1, <2>3
<1>13. ASSUME NEW t \in Threads, NEW new \in Threads, SpawnNew(t, new) PROVE TypeOK'
  BY <1>1, <1>13 DEF SpawnNew, listVars
<1>14. ASSUME NEW t \in Threads, DethreadRefused(t) \/ DethreadBegin(t) \/ Exec(t) PROVE TypeOK'
  BY <1>1, <1>14 DEF DethreadRefused, DethreadBegin, Exec, listVars
<1>15. ASSUME NEW t \in Threads, DethreadAlone(t) \/ DethreadWoken(t) PROVE TypeOK'
  BY <1>1, <1>15 DEF DethreadAlone, DethreadWoken, Alone, AloneWith, listVars
<1>16. ASSUME NEW t \in Threads, UnlinkThread(t) PROVE TypeOK'
  <2>1. /\ t \in threads /\ threads' = threads \ {t} /\ num_threads' = num_threads - 1
        /\ UNCHANGED <<exiting, zombie, exit_status, tid, exec_thread, exit_work, after>>
        /\ pc' \in [Actors -> Places] /\ to_wake' \in [Threads -> Threads \cup {None}] /\ threads' \subseteq Threads
    BY <1>16 DEF UnlinkThread, Linked, Out
  <2>2. num_threads' = Cardinality(threads')
    BY <2>1, OthersOf
  <2> QED BY <1>1, <2>1, <2>2
<1>17. ASSUME NEW t \in Threads, LastReaped(t) PROVE TypeOK'
  BY <1>1, <1>17 DEF LastReaped, listVars
<1>18. ASSUME NEW t \in Threads, Reaped(t) PROVE TypeOK'
  <2>1. pc' \in [Actors -> Places]
    <3>1. \A a \in Actors : pc[a] \in Places
      OBVIOUS
    <3> QED BY <1>18, <3>1 DEF Reaped
  <2>2. to_wake' \in [Threads -> Threads \cup {None}]
    BY <1>18 DEF Reaped
  <2> QED BY <1>1, <1>18, <2>1, <2>2 DEF Reaped, listVars
<1> QED BY <1>3, <1>4, <1>5, <1>6, <1>7, <1>8, <1>9, <1>10, <1>11, <1>12, <1>13, <1>14, <1>15, <1>16, <1>17, <1>18
  DEF Next, Call, Step, BeginExit, Dethread, Reap

-------------------------------------------------------------------------------
\* The inductive invariant of a process' threads.
THEOREM Invariance == Spec => []Inv
<1>1. ASSUME Inv, [Next]_vars PROVE Inv'
  BY <1>1, TypeStep, LinkedStep, FlaggedStep, ExitsStep, ExecsStep, TidsStep, CountsStep DEF Inv
<1> QED BY <1>1, InitInv, PTL DEF Spec

\* process_thread_exit, process_dethread, process_thread_reaped and begin_exit, in any order and for
\* any number of threads: both counts are right, the process ends by an exit with a status, and an exec
\* that waits is woken, goes on alone, and takes the id of the process that nobody else has.
THEOREM ThreadsAlwaysAgree == Spec => []ThreadsAgree
<1>1. ASSUME Inv PROVE ThreadsAgree
  <2> USE <1>1 DEF Inv
  <2>1. EndsByExit
    BY ActorsAssumption DEF EndsByExit, Exits, Linked, Out, Actors, TypeOK
  <2>2. ExecIsAlone
    BY DEF ExecIsAlone, Execs, Exits, Linked, Out, TypeOK
  <2>3. ExecIsWoken
    BY ActorsAssumption DEF ExecIsWoken, Execs, Linked, Out, TypeOK
  <2>4. WakesTheBlocked
    BY DEF WakesTheBlocked, Execs
  <2> QED BY <2>1, <2>2, <2>3, <2>4 DEF ThreadsAgree, Tids, Counts
<1> QED BY <1>1, Invariance, PTL
===============================================================================
