---------------------------- MODULE MCWaitingLive ----------------------------
(* The primitives threads wait with, under fairness: Mutex with its refinement  *)
(* of LockSpec, and one scene each of Event, Futex, Deferral and Tlb.  A        *)
(* behaviour is of one scene; nobody calls anything in the others, where no     *)
(* fairness condition asks for a step.                                          *)
EXTENDS Mutex, TLC

CONSTANTS t1, t2, e1, c1, h1, h2, d1, d2, s1, s2, a1

VARIABLES scene,
          lock, e_pending, listeners, state, wait_interrupt, pending_work, kicks, wakeup_index,
          sleepers, e_pc, args, idx, triggered, result, call, guard, condition, taken,
          word, f_lock, bucket, f_state, f_work, f_kicks, f_sleepers, late, f_pc,
          address, expected, deadline, f_result, woken,
          deferred_head, queued, next, d_at, deferral, head, it, following, step, owed,
          tables, tlb, generation, flushed, ipi, irq, at, s_pc, self, gen, polled, left, changed

eventVars    == <<lock, e_pending, listeners, state, wait_interrupt, pending_work, kicks, wakeup_index,
                  sleepers, e_pc, args, idx, triggered, result, call, guard, condition, taken>>
futexVars    == <<word, f_lock, bucket, f_state, f_work, f_kicks, f_sleepers, late, f_pc,
                  address, expected, deadline, f_result, woken>>
deferralVars == <<deferred_head, queued, next, d_at, deferral, head, it, following, step, owed>>
tlbVars      == <<tables, tlb, generation, flushed, ipi, irq, at, s_pc, self, gen, polled, left, changed>>

\* One thread in every kind of wait.
Await == INSTANCE Event WITH
    Threads <- {t1}, Events <- {e1}, Callers <- {c1}, NoOne <- NoThread, Waits <- {<<e1>>},
    Modes <- {"poll", "timeout", "interruptible", "unlock"},
    MaxPending <- 1, CondEvent <- e1, Signalled <- {t1}, Interrupted <- {},
    num_pending <- e_pending, pc <- e_pc

Futexes == INSTANCE Futex WITH
    Threads <- {t1, t2}, NoOne <- NoThread, Addresses <- {a1}, Counts <- {2}, Timed <- BOOLEAN,
    Signalled <- {t1}, lock <- f_lock, state <- f_state, pending_work <- f_work, kicks <- f_kicks,
    sleepers <- f_sleepers, pc <- f_pc, result <- f_result

Deferred == INSTANCE Deferral WITH
    Deferrals <- {d1, d2}, Callers <- {c1}, Harts <- {h1, h2}, Null <- NoThread, at <- d_at

\* Both harts shoot down with interrupts off, so that each must poll.
Masked == INSTANCE Tlb WITH
    Harts <- {h1, h2}, Shooters <- {s1, s2}, Movable <- {}, Masked <- {s1, s2}, None <- NoThread,
    MaxChanges <- 2, pc <- s_pc

Start ==
    /\ scene \in {"mutex", "event", "futex", "deferral", "tlb"}
    /\ Init /\ Await!Init /\ Futexes!Init /\ Deferred!Init
    /\ Masked!Init /\ at[s1] = h1

Step ==
    /\ UNCHANGED scene
    /\ \/ scene = "mutex"    /\ Next          /\ UNCHANGED <<eventVars, futexVars, deferralVars, tlbVars>>
       \/ scene = "event"    /\ Await!Next    /\ UNCHANGED <<vars, futexVars, deferralVars, tlbVars>>
       \/ scene = "futex"    /\ Futexes!Next  /\ UNCHANGED <<vars, eventVars, deferralVars, tlbVars>>
       \/ scene = "deferral" /\ Deferred!Next /\ UNCHANGED <<vars, eventVars, futexVars, tlbVars>>
       \/ scene = "tlb"      /\ Masked!Next   /\ UNCHANGED <<vars, eventVars, futexVars, deferralVars>>

allVars == <<scene, vars, eventVars, futexVars, deferralVars, tlbVars>>

Scenes ==
    /\ Start /\ [][Step]_allVars
    /\ Fairness /\ Await!Fairness /\ Futexes!Fairness /\ Deferred!Fairness /\ Masked!Fairness

(***************************************************************************)
(* The properties of the parts that are not extended                       *)
(***************************************************************************)

\* Every wait that is over returns: mutex_acquire of a mutex that becomes free,
\* await_until once triggered, past its deadline or interrupted (also by work posted
\* just before the thread blocked), and futex_wait likewise.
EveryWaitReturns ==
    /\ FreeMutexIsTaken
    /\ Await!TriggeredAwaitReturns /\ Await!DeadlineAwaitReturns /\ Await!InterruptedAwaitReturns
    /\ Futexes!WaitsReturn

\* Harts serve each other: event_run_deferred triggers every deferral in the list, and of
\* harts that all shoot down at once with interrupts off, so that only tlb_poll serves them,
\* each returns from tlb_shootdown.  With interrupts on that fails (ShootdownReturns of Tlb).
EveryHartIsServed == Deferred!DeferredIsTriggered /\ Masked!ShootdownReturns
==============================================================================
