------------------------------ MODULE TlbProofs ------------------------------
(* Theorems about Tlb for any number of harts, shooters and changes.  A       *)
(* context that a switch may move in the middle of a shootdown must be the    *)
(* only one that shoots down: see Stay.                                       *)
EXTENDS Tlb, TLAPS

\* What the theorems are about: contexts that stay on their hart, or one that may be moved while
\* nobody else shoots down.  (Two that shoot down while one of them moves are the run tlb_migrate.)
Stay == ContextsAssumption /\ BoundAssumption /\ \A s \in Movable : Shooters = {s}

Places == {"idle", "self", "bump", "flush", "store", "ipi", "wait", "poll", "pollstore", "returned"}

\* The types the argument needs; the generation is a number of its own.
Types ==
    /\ tables \in Nat /\ generation \in Nat
    /\ tlb \in [Harts -> Nat]
    /\ flushed \in [Harts -> Nat]
    /\ irq \in [Harts -> Nat \cup {None}]
    /\ at \in [Shooters -> Harts \cup {None}]
    /\ pc \in [Shooters -> Places]
    /\ self \in [Shooters -> Harts \cup {None}]
    /\ gen \in [Shooters -> Nat]
    /\ polled \in [Shooters -> Nat]
    /\ left \in [Shooters -> SUBSET Harts]
    /\ changed \in [Shooters -> Nat]

\* The shootdown has a generation of its own.
Bumped(s) == pc[s] \in {"flush", "store", "ipi", "wait", "poll", "pollstore", "returned"}

\* Nothing is ahead of the tables or of the generation.
Behind ==
    /\ \A h \in Harts : tlb[h] <= tables /\ flushed[h] <= generation /\ (irq[h] # None => irq[h] <= generation)
    /\ \A s \in Shooters : changed[s] <= tables /\ gen[s] <= generation /\ polled[s] <= generation

\* Where this_hart() said the context is, it still is, or the switch away from there has flushed.
SelfIsHere ==
    \A s \in Shooters :
        /\ s \notin Movable => at[s] # None
        /\ pc[s] \notin {"idle", "self"} =>
            self[s] \in Harts /\ (self[s] = at[s] \/ (s \in Movable /\ tlb[self[s]] >= changed[s]))

\* A hart that says it flushed for a generation did so after the change that the shootdown of this
\* generation is for; and one that is about to say so did.
Reached(h, g) == \A r \in Shooters : Bumped(r) /\ gen[r] <= g => tlb[h] >= changed[r]

FlushedIsFlushed ==
    /\ \A h \in Harts : Reached(h, flushed[h])
    /\ \A s \in Shooters : pc[s] = "store" => Reached(self[s], gen[s])
    /\ \A s \in Shooters : pc[s] = "pollstore" => Reached(self[s], polled[s])

\* The hart of a shootdown flushes first, and the ones it is done waiting for have flushed.
WaitedFlushed ==
    /\ \A s \in Shooters : pc[s] \in {"store", "ipi"} => tlb[self[s]] >= changed[s]
    /\ \A s \in Shooters : pc[s] \in {"wait", "poll", "pollstore"} => \A h \in Harts \ left[s] : tlb[h] >= changed[s]
    /\ PurgedEverywhere

(* The invariant.  That every hart a shootdown waited for has flushed follows   *)
(* from what flushed[h] >= generation means, which is only true if a hart that  *)
(* stores a generation flushed after the last change before it: at StoreFlushed *)
(* and PollStore that was a step ago, on the hart that self names.              *)
Inv == Types /\ Behind /\ SelfIsHere /\ FlushedIsFlushed /\ WaitedFlushed

\* Before the first shootdown nothing is stale.
LEMMA InitInv == ASSUME Stay, Init PROVE Inv
  BY DEF Stay, ContextsAssumption, Init, Inv, Types, Places, Behind, SelfIsHere, FlushedIsFlushed, Reached, Bumped,
         WaitedFlushed, PurgedEverywhere

\* Every step keeps the types.
LEMMA TypesStep == ASSUME Stay, Inv, [Next]_vars PROVE Types'
<1> USE DEF Inv, Types, Places, Goto, FlushAll, Stay, ContextsAssumption, BoundAssumption
<1>1. CASE UNCHANGED vars
  BY <1>1 DEF vars
<1>2. ASSUME NEW s \in Shooters, ChangeTables(s) PROVE Types'
  BY <1>2 DEF ChangeTables, Runs
<1>3. ASSUME NEW s \in Shooters, ReadSelf(s) PROVE Types'
  BY <1>3 DEF ReadSelf, Runs
<1>4. ASSUME NEW s \in Shooters, BumpGeneration(s) PROVE Types'
  BY <1>4 DEF BumpGeneration, Runs
<1>5. ASSUME NEW s \in Shooters, FlushSelf(s) PROVE Types'
  BY <1>5 DEF FlushSelf, Flush, Runs
<1>6. ASSUME NEW s \in Shooters, StoreFlushed(s) PROVE Types'
  BY <1>6 DEF StoreFlushed, Runs
<1>7. ASSUME NEW s \in Shooters, SendIpi(s) PROVE Types'
  BY <1>7 DEF SendIpi, Ipi, Runs
<1>8. ASSUME NEW s \in Shooters, ShootdownReturn(s) PROVE Types'
  BY <1>8 DEF ShootdownReturn, Runs
<1>9. ASSUME NEW s \in Shooters, Again(s) PROVE Types'
  BY <1>9 DEF Again
<1>10. ASSUME NEW s \in Shooters, PollLoad(s) PROVE Types'
  BY <1>10 DEF PollLoad, Runs
<1>11. ASSUME NEW s \in Shooters, PollFlush(s) PROVE Types'
  BY <1>11 DEF PollFlush, Runs
<1>12. ASSUME NEW s \in Shooters, PollStore(s) PROVE Types'
  BY <1>12 DEF PollStore, Runs
<1>13. ASSUME NEW s \in Shooters, NEW h \in Harts, WaitedFor(s, h) PROVE Types'
  BY <1>13 DEF WaitedFor, Runs
<1>14. ASSUME NEW h \in Harts, IrqLoad(h) PROVE Types'
  BY <1>14 DEF IrqLoad
<1>15. ASSUME NEW h \in Harts, IrqStore(h) PROVE Types'
  BY <1>15 DEF IrqStore
<1>16. ASSUME NEW s \in Shooters, SwitchOut(s) PROVE Types'
  BY <1>16 DEF SwitchOut, Runs
<1>17. ASSUME NEW s \in Shooters, NEW h \in Harts, SwitchIn(s, h) PROVE Types'
  BY <1>17 DEF SwitchIn
<1> QED BY <1>1, <1>2, <1>3, <1>4, <1>5, <1>6, <1>7, <1>8,
            <1>9, <1>10, <1>11, <1>12, <1>13, <1>14, <1>15, <1>16, <1>17 DEF Next, ShooterStep

\* tables and generation only grow, and what is copied from them stays behind them; a context that is
\* not on the hart it named was switched away from it, and the switch flushed there.
LEMMA BehindStep == ASSUME Stay, Inv, [Next]_vars PROVE Behind' /\ SelfIsHere'
<1> USE DEF Inv, Types, Behind, SelfIsHere, Goto, FlushAll, Stay, ContextsAssumption, BoundAssumption
<1>1. CASE UNCHANGED vars
  BY <1>1 DEF vars
<1>2. ASSUME NEW s \in Shooters, ChangeTables(s) PROVE Behind' /\ SelfIsHere'
  BY <1>2 DEF ChangeTables, Runs
<1>3. ASSUME NEW s \in Shooters, ReadSelf(s) PROVE Behind' /\ SelfIsHere'
  BY <1>3 DEF ReadSelf, Runs
<1>4. ASSUME NEW s \in Shooters, BumpGeneration(s) PROVE Behind' /\ SelfIsHere'
  BY <1>4 DEF BumpGeneration, Runs
<1>5. ASSUME NEW s \in Shooters, FlushSelf(s) PROVE Behind' /\ SelfIsHere'
  BY <1>5 DEF FlushSelf, Flush, Runs
<1>6. ASSUME NEW s \in Shooters, StoreFlushed(s) PROVE Behind' /\ SelfIsHere'
  BY <1>6 DEF StoreFlushed, Runs
<1>7. ASSUME NEW s \in Shooters, SendIpi(s) PROVE Behind' /\ SelfIsHere'
  BY <1>7 DEF SendIpi, Ipi, Runs
<1>8. ASSUME NEW s \in Shooters, ShootdownReturn(s) PROVE Behind' /\ SelfIsHere'
  BY <1>8 DEF ShootdownReturn, Runs
<1>9. ASSUME NEW s \in Shooters, Again(s) PROVE Behind' /\ SelfIsHere'
  BY <1>9 DEF Again
<1>10. ASSUME NEW s \in Shooters, PollLoad(s) PROVE Behind' /\ SelfIsHere'
  BY <1>10 DEF PollLoad, Runs
<1>11. ASSUME NEW s \in Shooters, PollFlush(s) PROVE Behind' /\ SelfIsHere'
  BY <1>11 DEF PollFlush, Runs
<1>12. ASSUME NEW s \in Shooters, PollStore(s) PROVE Behind' /\ SelfIsHere'
  BY <1>12 DEF PollStore, Runs
<1>13. ASSUME NEW s \in Shooters, NEW h \in Harts, WaitedFor(s, h) PROVE Behind' /\ SelfIsHere'
  BY <1>13 DEF WaitedFor, Runs
<1>14. ASSUME NEW h \in Harts, IrqLoad(h) PROVE Behind' /\ SelfIsHere'
  BY <1>14 DEF IrqLoad
<1>15. ASSUME NEW h \in Harts, IrqStore(h) PROVE Behind' /\ SelfIsHere'
  BY <1>15 DEF IrqStore
<1>16. ASSUME NEW s \in Shooters, SwitchOut(s) PROVE Behind' /\ SelfIsHere'
  BY <1>16 DEF SwitchOut, Runs
<1>17. ASSUME NEW s \in Shooters, NEW h \in Harts, SwitchIn(s, h) PROVE Behind' /\ SelfIsHere'
  BY <1>17 DEF SwitchIn
<1> QED BY <1>1, <1>2, <1>3, <1>4, <1>5, <1>6, <1>7, <1>8,
            <1>9, <1>10, <1>11, <1>12, <1>13, <1>14, <1>15, <1>16, <1>17 DEF Next, ShooterStep

\* Whoever stores a generation, in tlb_shootdown, tlb_poll or the interrupt handler, did flush.
LEMMA FlushedStep == ASSUME Stay, Inv, [Next]_vars PROVE FlushedIsFlushed'
<1> USE DEF Inv, Types, Behind, SelfIsHere, FlushedIsFlushed, Reached, Bumped, Goto, FlushAll, Stay, ContextsAssumption,
            BoundAssumption
<1>1. CASE UNCHANGED vars
  BY <1>1 DEF vars
<1>2. ASSUME NEW s \in Shooters, ChangeTables(s) PROVE FlushedIsFlushed'
  BY <1>2 DEF ChangeTables, Runs
<1>3. ASSUME NEW s \in Shooters, ReadSelf(s) PROVE FlushedIsFlushed'
  BY <1>3 DEF ReadSelf, Runs
<1>4. ASSUME NEW s \in Shooters, BumpGeneration(s) PROVE FlushedIsFlushed'
  BY <1>4 DEF BumpGeneration, Runs
<1>5. ASSUME NEW s \in Shooters, FlushSelf(s) PROVE FlushedIsFlushed'
  BY <1>5 DEF FlushSelf, Flush, Runs
<1>6. ASSUME NEW s \in Shooters, StoreFlushed(s) PROVE FlushedIsFlushed'
  BY <1>6 DEF StoreFlushed, Runs
<1>7. ASSUME NEW s \in Shooters, SendIpi(s) PROVE FlushedIsFlushed'
  BY <1>7 DEF SendIpi, Ipi, Runs
<1>8. ASSUME NEW s \in Shooters, ShootdownReturn(s) PROVE FlushedIsFlushed'
  BY <1>8 DEF ShootdownReturn, Runs
<1>9. ASSUME NEW s \in Shooters, Again(s) PROVE FlushedIsFlushed'
  BY <1>9 DEF Again
<1>10. ASSUME NEW s \in Shooters, PollLoad(s) PROVE FlushedIsFlushed'
  BY <1>10 DEF PollLoad, Runs
<1>11. ASSUME NEW s \in Shooters, PollFlush(s) PROVE FlushedIsFlushed'
  <2>1. \A r \in Shooters : Bumped(r)' => Bumped(r) /\ gen'[r] = gen[r] /\ changed'[r] = changed[r]
    BY <1>11 DEF PollFlush
  <2> HIDE DEF Bumped
  <2>2. \A h \in Harts : tlb'[h] \in Nat /\ tlb'[h] >= tlb[h] /\ flushed'[h] = flushed[h]
    BY <1>11 DEF PollFlush, Runs
  <2>3. \A h \in Harts : Reached(h, flushed[h])'
    BY <2>1, <2>2
  <2>4. \A r \in Shooters : pc'[r] = "store" => Reached(self[r], gen[r])'
    BY <1>11, <2>1, <2>2 DEF PollFlush
  <2>5. \A r \in Shooters \ {s} : pc'[r] = "pollstore" => Reached(self[r], polled[r])'
    BY <1>11, <2>1, <2>2 DEF PollFlush
  <2>6. pc'[s] = "pollstore" => Reached(self[s], polled[s])'
    <3>1. pc'[s] = "pollstore" => self'[s] \in Harts /\ \A r \in Shooters : tlb'[self'[s]] >= changed'[r]
      BY <1>11 DEF PollFlush, Runs
    <3> QED BY <3>1
  <2> QED BY <2>3, <2>4, <2>5, <2>6
<1>12. ASSUME NEW s \in Shooters, PollStore(s) PROVE FlushedIsFlushed'
  BY <1>12 DEF PollStore, Runs
<1>13. ASSUME NEW s \in Shooters, NEW h \in Harts, WaitedFor(s, h) PROVE FlushedIsFlushed'
  BY <1>13 DEF WaitedFor, Runs
<1>14. ASSUME NEW h \in Harts, IrqLoad(h) PROVE FlushedIsFlushed'
  BY <1>14 DEF IrqLoad
<1>15. ASSUME NEW h \in Harts, IrqStore(h) PROVE FlushedIsFlushed'
  BY <1>15 DEF IrqStore
<1>16. ASSUME NEW s \in Shooters, SwitchOut(s) PROVE FlushedIsFlushed'
  BY <1>16 DEF SwitchOut, Runs
<1>17. ASSUME NEW s \in Shooters, NEW h \in Harts, SwitchIn(s, h) PROVE FlushedIsFlushed'
  BY <1>17 DEF SwitchIn
<1> QED BY <1>1, <1>2, <1>3, <1>4, <1>5, <1>6, <1>7, <1>8,
            <1>9, <1>10, <1>11, <1>12, <1>13, <1>14, <1>15, <1>16, <1>17 DEF Next, ShooterStep

\* A hart that is left out of the wait has flushed, and none goes back to older translations.
LEMMA WaitedStep == ASSUME Stay, Inv, [Next]_vars PROVE WaitedFlushed'
<1> USE DEF Inv, Types, Behind, SelfIsHere, WaitedFlushed, PurgedEverywhere, Goto, FlushAll
<1>1. CASE UNCHANGED vars
  BY <1>1 DEF vars
<1>2. ASSUME NEW s \in Shooters, ChangeTables(s) PROVE WaitedFlushed'
  BY <1>2 DEF ChangeTables, Runs
<1>3. ASSUME NEW s \in Shooters, ReadSelf(s) PROVE WaitedFlushed'
  BY <1>3 DEF ReadSelf, Runs
<1>4. ASSUME NEW s \in Shooters, BumpGeneration(s) PROVE WaitedFlushed'
  BY <1>4 DEF BumpGeneration, Runs
<1>5. ASSUME NEW s \in Shooters, FlushSelf(s) PROVE WaitedFlushed'
  BY <1>5 DEF FlushSelf, Flush, Runs
<1>6. ASSUME NEW s \in Shooters, StoreFlushed(s) PROVE WaitedFlushed'
  BY <1>6 DEF StoreFlushed, Runs
<1>7. ASSUME NEW s \in Shooters, SendIpi(s) PROVE WaitedFlushed'
  BY <1>7 DEF SendIpi, Ipi, Runs
<1>8. ASSUME NEW s \in Shooters, ShootdownReturn(s) PROVE WaitedFlushed'
  BY <1>8 DEF ShootdownReturn, Runs
<1>9. ASSUME NEW s \in Shooters, Again(s) PROVE WaitedFlushed'
  BY <1>9 DEF Again
<1>10. ASSUME NEW s \in Shooters, PollLoad(s) PROVE WaitedFlushed'
  BY <1>10 DEF PollLoad, Runs
<1>11. ASSUME NEW s \in Shooters, PollFlush(s) PROVE WaitedFlushed'
  BY <1>11 DEF PollFlush, Runs
<1>12. ASSUME NEW s \in Shooters, PollStore(s) PROVE WaitedFlushed'
  BY <1>12 DEF PollStore, Runs
<1>13. ASSUME NEW s \in Shooters, NEW h \in Harts, WaitedFor(s, h) PROVE WaitedFlushed'
  <2>1. tlb[h] >= changed[s]
    BY <1>13 DEF WaitedFor, FlushedIsFlushed, Reached, Bumped
  <2> QED BY <1>13, <2>1 DEF WaitedFor
<1>14. ASSUME NEW h \in Harts, IrqLoad(h) PROVE WaitedFlushed'
  BY <1>14 DEF IrqLoad
<1>15. ASSUME NEW h \in Harts, IrqStore(h) PROVE WaitedFlushed'
  BY <1>15 DEF IrqStore
<1>16. ASSUME NEW s \in Shooters, SwitchOut(s) PROVE WaitedFlushed'
  BY <1>16 DEF SwitchOut, Runs
<1>17. ASSUME NEW s \in Shooters, NEW h \in Harts, SwitchIn(s, h) PROVE WaitedFlushed'
  BY <1>17 DEF SwitchIn
<1> QED BY <1>1, <1>2, <1>3, <1>4, <1>5, <1>6, <1>7, <1>8,
            <1>9, <1>10, <1>11, <1>12, <1>13, <1>14, <1>15, <1>16, <1>17 DEF Next, ShooterStep

\* Inv holds in every reachable state.
THEOREM Invariance == Stay => (Spec => []Inv)
<1> SUFFICES ASSUME Stay PROVE Spec => []Inv
  OBVIOUS
<1>1. Init => Inv
  BY InitInv
<1>2. Inv /\ [Next]_vars => Inv'
  BY TypesStep, BehindStep, FlushedStep, WaitedStep DEF Inv
<1> QED BY <1>1, <1>2, PTL DEF Spec

\* tlb_shootdown: when it returns, whatever other shootdowns, polls and interrupts came between its
\* steps, no hart translates by tables older than the change it was called for.
THEOREM ShootdownPurges == Stay => (Spec => []PurgedEverywhere)
<1>1. Inv => PurgedEverywhere
  BY DEF Inv, WaitedFlushed
<1> QED BY <1>1, Invariance, PTL
=============================================================================
