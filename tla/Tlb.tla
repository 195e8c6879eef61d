--------------------------------- MODULE Tlb ---------------------------------
(* kernel/mm/tlb.c: after the page tables change, a shootdown makes every    *)
(* hart flush its TLB and waits until each has said so.                      *)
(*                                                                           *)
(* The page tables are their number of changes; a TLB is the oldest of these *)
(* versions it may still translate by.  Every hart is online: bring-up is    *)
(* over before anything is unmapped.                                         *)
EXTENDS Naturals, FiniteSets

CONSTANTS Harts,
          Shooters,    \* contexts that change page tables and shoot down
          Movable,     \* those that are threads and may be switched to another hart
          Masked,      \* those that run with interrupts disabled
          None,
          MaxChanges   \* bound on the changes of the page tables

ContextsAssumption == /\ Movable \subseteq Shooters /\ Masked \subseteq Shooters
                             /\ Movable \cap Masked = {}
                             /\ None \notin Harts \cup Shooters
BoundAssumption == MaxChanges \in Nat

VARIABLES tables,       \* version of the page tables
          tlb,          \* [Harts -> oldest version in use]
          generation,   \* tlb_generation
          flushed,      \* [Harts -> tlb_flushed]
          ipi,          \* [Harts -> a TLB interrupt is pending]
          irq,          \* [Harts -> the generation its handler loaded, None outside it]
          at,           \* [Shooters -> the hart it runs on, None while switched out]
          pc,
          self,         \* [Shooters -> the hart this_hart() named, in either function]
          gen,          \* [Shooters -> generation, of tlb_shootdown]
          polled,       \* [Shooters -> generation, of tlb_poll]
          left,         \* [Shooters -> harts it still has to wait for]
          changed       \* [Shooters -> the version its change made]

vars == <<tables, tlb, generation, flushed, ipi, irq, at, pc, self, gen, polled, left, changed>>

Generations == 0..MaxChanges

Init ==
    /\ tables = 0 /\ generation = 0
    /\ tlb = [h \in Harts |-> 0]
    /\ flushed = [h \in Harts |-> 0]
    /\ ipi = [h \in Harts |-> FALSE]
    /\ irq = [h \in Harts |-> None]
    /\ at \in [Shooters -> Harts]
    /\ \A s, r \in Shooters : at[s] = at[r] => s = r
    /\ pc = [s \in Shooters |-> "idle"]
    /\ self = [s \in Shooters |-> None]
    /\ gen = [s \in Shooters |-> 0]
    /\ polled = [s \in Shooters |-> 0]
    /\ left = [s \in Shooters |-> {}]
    /\ changed = [s \in Shooters |-> 0]

\* The context executes: it is on a hart whose interrupt handler is not running.
Runs(s) == at[s] # None /\ irq[at[s]] = None

Goto(s, place) == pc' = [pc EXCEPT ![s] = place]

\* pmap_flush_all, and what writing CR3 at a thread switch does.
FlushAll(h) == tlb' = [tlb EXCEPT ![h] = tables]

(***************************************************************************)
(* tlb_shootdown                                                           *)
(***************************************************************************)

\* The caller changes the page tables first.
ChangeTables(s) ==
    /\ Runs(s) /\ pc[s] = "idle" /\ tables < MaxChanges
    /\ tables' = tables + 1
    /\ changed' = [changed EXCEPT ![s] = tables + 1]
    /\ Goto(s, "self")
    /\ UNCHANGED <<tlb, generation, flushed, ipi, irq, at, self, gen, polled, left>>

ReadSelf(s) ==
    /\ Runs(s) /\ pc[s] = "self"
    /\ self' = [self EXCEPT ![s] = at[s]]
    /\ Goto(s, "bump")
    /\ UNCHANGED <<tables, tlb, generation, flushed, ipi, irq, at, gen, polled, left, changed>>

BumpGeneration(s) ==
    /\ Runs(s) /\ pc[s] = "bump"
    /\ generation' = generation + 1
    /\ gen' = [gen EXCEPT ![s] = generation + 1]
    /\ Goto(s, "flush")
    /\ UNCHANGED <<tables, tlb, flushed, ipi, irq, at, self, polled, left, changed>>

Flush(s, flushes) ==
    /\ Runs(s) /\ pc[s] = "flush"
    /\ IF flushes THEN FlushAll(at[s]) ELSE UNCHANGED tlb
    /\ Goto(s, "store")
    /\ UNCHANGED <<tables, generation, flushed, ipi, irq, at, self, gen, polled, left, changed>>

\* Slip: the hart that shoots down does not flush.
FlushSelfNot(s) == Flush(s, FALSE)
FlushSelf(s) == Flush(s, TRUE)

StoreFlushed(s) ==
    /\ Runs(s) /\ pc[s] = "store"
    /\ flushed' = [flushed EXCEPT ![self[s]] = gen[s]]
    /\ Goto(s, "ipi")
    /\ UNCHANGED <<tables, tlb, generation, ipi, irq, at, self, gen, polled, left, changed>>

Ipi(s, reached) ==
    /\ Runs(s) /\ pc[s] = "ipi"
    /\ ipi' = [h \in Harts |-> ipi[h] \/ h \in reached]
    /\ left' = [left EXCEPT ![s] = Harts \ {self[s]}]
    /\ Goto(s, "wait")
    /\ UNCHANGED <<tables, tlb, generation, flushed, irq, at, self, gen, polled, changed>>

\* Slip: only the harts that are behind the previous generation are interrupted.
SendIpiBehind(s) == Ipi(s, {h \in Harts \ {at[s]} : flushed[h] + 1 < gen[s]})
SendIpi(s) == Ipi(s, Harts \ {at[s]})

\* A hart has flushed: on to the next.
WaitedFor(s, h) ==
    /\ Runs(s) /\ pc[s] = "wait"
    /\ h \in left[s] /\ flushed[h] >= gen[s]
    /\ left' = [left EXCEPT ![s] = @ \ {h}]
    /\ UNCHANGED <<tables, tlb, generation, flushed, ipi, irq, at, pc, self, gen, polled, changed>>

ShootdownReturn(s) ==
    /\ Runs(s) /\ pc[s] = "wait" /\ left[s] = {}
    /\ Goto(s, "returned")
    /\ UNCHANGED <<tables, tlb, generation, flushed, ipi, irq, at, self, gen, polled, left, changed>>

Again(s) ==
    /\ pc[s] = "returned"
    /\ Goto(s, "idle")
    /\ self' = [self EXCEPT ![s] = None]
    /\ gen' = [gen EXCEPT ![s] = 0]
    /\ changed' = [changed EXCEPT ![s] = 0]
    /\ UNCHANGED <<tables, tlb, generation, flushed, ipi, irq, at, polled, left>>

(***************************************************************************)
(* tlb_poll, from hart_spin while waiting                                  *)
(***************************************************************************)

\* The hart of the poll is a local of its own; self is not needed again by the
\* shootdown once it waits.
PollLoad(s) ==
    /\ Runs(s) /\ pc[s] = "wait"
    /\ \E h \in left[s] : flushed[h] < gen[s]
    /\ self' = [self EXCEPT ![s] = at[s]]
    /\ polled' = [polled EXCEPT ![s] = generation]
    /\ Goto(s, "poll")
    /\ UNCHANGED <<tables, tlb, generation, flushed, ipi, irq, at, gen, left, changed>>

PollFlush(s) ==
    /\ Runs(s) /\ pc[s] = "poll"
    /\ IF flushed[self[s]] < polled[s]
       THEN FlushAll(at[s]) /\ Goto(s, "pollstore") /\ UNCHANGED polled
       ELSE Goto(s, "wait") /\ polled' = [polled EXCEPT ![s] = 0] /\ UNCHANGED tlb
    /\ UNCHANGED <<tables, generation, flushed, ipi, irq, at, self, gen, left, changed>>

PollStore(s) ==
    /\ Runs(s) /\ pc[s] = "pollstore"
    /\ flushed' = [flushed EXCEPT ![self[s]] = polled[s]]
    /\ polled' = [polled EXCEPT ![s] = 0]
    /\ Goto(s, "wait")
    /\ UNCHANGED <<tables, tlb, generation, ipi, irq, at, self, gen, left, changed>>

(***************************************************************************)
(* tlb_irq_handler, which is tlb_poll with interrupts off                  *)
(***************************************************************************)

\* Nothing that runs on h keeps interrupts disabled.
Unmasked(h) == \A s \in Masked : at[s] = h => pc[s] = "idle"

IrqLoad(h) ==
    /\ ipi[h] /\ irq[h] = None /\ Unmasked(h)
    /\ ipi' = [ipi EXCEPT ![h] = FALSE]
    /\ irq' = [irq EXCEPT ![h] = IF flushed[h] < generation THEN generation ELSE None]
    /\ UNCHANGED <<tables, tlb, generation, flushed, at, pc, self, gen, polled, left, changed>>

IrqStore(h) ==
    /\ irq[h] # None
    /\ FlushAll(h)
    /\ flushed' = [flushed EXCEPT ![h] = irq[h]]
    /\ irq' = [irq EXCEPT ![h] = None]
    /\ UNCHANGED <<tables, generation, ipi, at, pc, self, gen, polled, left, changed>>

(***************************************************************************)
(* The scheduler under a thread: a switch loads CR3 on the hart it happens  *)
(***************************************************************************)

SwitchOut(s) ==
    /\ s \in Movable /\ Runs(s) /\ pc[s] # "idle"
    /\ at' = [at EXCEPT ![s] = None]
    /\ FlushAll(at[s])
    /\ UNCHANGED <<tables, generation, flushed, ipi, irq, pc, self, gen, polled, left, changed>>

SwitchIn(s, h) ==
    /\ at[s] = None /\ irq[h] = None /\ \A r \in Shooters : at[r] # h
    /\ at' = [at EXCEPT ![s] = h]
    /\ FlushAll(h)
    /\ UNCHANGED <<tables, generation, flushed, ipi, irq, pc, self, gen, polled, left, changed>>

ShooterStep(s) ==
    \/ ReadSelf(s) \/ BumpGeneration(s) \/ FlushSelf(s) \/ StoreFlushed(s) \/ SendIpi(s)
    \/ \E h \in Harts : WaitedFor(s, h)
    \/ ShootdownReturn(s) \/ Again(s)
    \/ PollLoad(s) \/ PollFlush(s) \/ PollStore(s)

Next ==
    \/ \E s \in Shooters : ChangeTables(s) \/ ShooterStep(s) \/ SwitchOut(s) \/ \E h \in Harts : SwitchIn(s, h)
    \/ \E h \in Harts : IrqLoad(h) \/ IrqStore(h)

Spec == Init /\ [][Next]_vars

\* A shooter that is on a hart executes, a pending interrupt is taken, and a
\* thread that was switched out comes back.  Nothing else polls.
Fairness ==
    /\ \A s \in Shooters : WF_vars(ShooterStep(s)) /\ WF_vars(\E h \in Harts : SwitchIn(s, h))
    /\ \A h \in Harts : WF_vars(IrqLoad(h)) /\ WF_vars(IrqStore(h))

FairSpec == Spec /\ Fairness

(***************************************************************************)
(* Properties                                                              *)
(***************************************************************************)

\* Every variable has its type.
TypeOK ==
    /\ tables \in Generations /\ generation \in Generations
    /\ tlb \in [Harts -> Generations]
    /\ flushed \in [Harts -> Generations]
    /\ ipi \in [Harts -> BOOLEAN]
    /\ irq \in [Harts -> Generations \cup {None}]
    /\ at \in [Shooters -> Harts \cup {None}]
    /\ pc \in [Shooters -> {"idle", "self", "bump", "flush", "store", "ipi", "wait", "poll", "pollstore", "returned"}]
    /\ self \in [Shooters -> Harts \cup {None}]
    /\ gen \in [Shooters -> Generations]
    /\ polled \in [Shooters -> Generations]
    /\ left \in [Shooters -> SUBSET Harts]
    /\ changed \in [Shooters -> Generations]

\* "No hart can reach the old translations through its TLB" when tlb_shootdown
\* returns (kernel/include/vex/tlb.h).
PurgedEverywhere == \A s \in Shooters : pc[s] = "returned" => \A h \in Harts : tlb[h] >= changed[s]

\* "two harts shooting down at once serve each other" (kernel/mm/tlb.c:61): a
\* shootdown that waits gets its answers and returns.  It does where every context that
\* shoots down is Masked.  With interrupts on it need not: the interrupt may come between
\* the flush and the store of tlb_flushed, which then takes back what the handler stored.
ShootdownReturns == \A s \in Shooters : pc[s] = "ipi" ~> pc[s] = "returned"
=============================================================================
