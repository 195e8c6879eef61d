------------------------------ MODULE MCWaiting ------------------------------
(* What threads wait with and what harts share, checked for safety in one run:  *)
(* Event in four scenes, Futex in two, Deferral, Tlb in two, the ring of the    *)
(* kernel log without and with a panic (KpRing), and its consoles without and   *)
(* with one handed over (Console).  A behaviour is of one scene; the variables  *)
(* of the others keep their initial values, or are 0, so the states of the      *)
(* scenes add up instead of multiplying.                                        *)
EXTENDS Event, TLC

CONSTANTS t1, t2, t3, e1, e2, c1, c2, h1, h2, h3, d1, d2, s1, s2, a1, a2

VARIABLES scene,
          word, f_lock, bucket, f_state, f_work, f_kicks, f_sleepers, late, f_pc,
          address, expected, deadline, f_result, woken,
          deferred_head, queued, next, d_at, deferral, head, it, following, step, owed,
          tables, tlb, generation, flushed, ipi, irq, at, s_pc, self, gen, polled, left, changed,
          first_seq, next_seq, cursor,
          ring, ring_head, ring_tail, append, panic, failed, torn,
          console_lock, list, released, shown, garbled, unwritten, c_pc, cons, rest, c_expected, written

futexVars    == <<word, f_lock, bucket, f_state, f_work, f_kicks, f_sleepers, late, f_pc,
                  address, expected, deadline, f_result, woken>>
deferralVars == <<deferred_head, queued, next, d_at, deferral, head, it, following, step, owed>>
tlbVars      == <<tables, tlb, generation, flushed, ipi, irq, at, s_pc, self, gen, polled, left, changed>>
ringVars     == <<ring, ring_head, ring_tail, append, panic, failed, torn>>
consoleVars  == <<console_lock, list, released, shown, garbled, unwritten, c_pc, cons, rest, c_expected, written>>
logVars      == <<first_seq, next_seq, cursor, ringVars, consoleVars>>

OneEvent  == {<<e1>>}
TwoEvents == {<<e1>>, <<e1, e2>>}

\* A scene of Event bounds what is called: the variants of event_await, the lists
\* of events, who triggers, the events triggered, the wakeups kept, and whether
\* signals come.
Bounded(modes, waits, callers, events, max, signals) ==
    /\ \A t \in Threads : pc'[t] # "idle" => args'[t].mode \in modes /\ args'[t].events \in waits
    /\ \A c \in Callers : call'[c].at # "idle" => c \in callers /\ call'[c].event \in events /\ call'[c].max \in {0, max}
    /\ condition' => "unlock" \in modes
    /\ kicks' # {} => signals

Bounds ==
    \/ scene = "one event"  /\ Bounded({"timeout", "blocking"}, OneEvent, {c1}, {e1}, MaxPending, TRUE)
    \/ scene = "signals"    /\ Bounded({"interruptible"}, OneEvent, {c1}, {e1}, 1, TRUE)
    \/ scene = "two events" /\ Bounded({"timeout"}, TwoEvents, {c1}, Events, 1, FALSE)
    \/ scene = "unlock"     /\ Bounded({"unlock", "unlock_timeout"}, OneEvent, Callers, {e1}, 1, FALSE)

\* Deadlines, signals and single wakeups at one address; two addresses.
TimedFutex == INSTANCE Futex WITH
    Threads <- {t1, t2, t3}, Addresses <- {a1}, Counts <- {1}, Timed <- {TRUE}, Signalled <- {t3},
    lock <- f_lock, state <- f_state, pending_work <- f_work, kicks <- f_kicks,
    sleepers <- f_sleepers, pc <- f_pc, result <- f_result
WordsFutex == INSTANCE Futex WITH
    Threads <- {t1, t2, t3}, Addresses <- {a1, a2}, Counts <- {3}, Timed <- {FALSE}, Signalled <- {},
    lock <- f_lock, state <- f_state, pending_work <- f_work, kicks <- f_kicks,
    sleepers <- f_sleepers, pc <- f_pc, result <- f_result

Deferred == INSTANCE Deferral WITH
    Deferrals <- {d1, d2}, Harts <- {h1, h2}, Null <- NoOne, at <- d_at

\* Two harts shoot down at once, one of them with interrupts off; one thread shoots
\* down and is moved between harts while it does.
PinnedTlb == INSTANCE Tlb WITH
    Harts <- {h1, h2, h3}, Shooters <- {s1, s2}, Movable <- {}, Masked <- {s2},
    None <- NoOne, MaxChanges <- 2, pc <- s_pc
MovedTlb == INSTANCE Tlb WITH
    Harts <- {h1, h2, h3}, Shooters <- {s1}, Movable <- {s1}, Masked <- {},
    None <- NoOne, MaxChanges <- 2, pc <- s_pc

\* A ring of nine units, with short and long records; and with a panic at any store.
Ring == INSTANCE KpRing WITH
    Size <- 9, HeadSize <- 2, TextSizes <- {0, 1, 2}, Cursors <- {c1}, MaxSeq <- 6, CanPanic <- FALSE
PanicRing == INSTANCE KpRing WITH
    Size <- 9, HeadSize <- 2, TextSizes <- {0, 1, 2}, Cursors <- {c1}, MaxSeq <- 4, CanPanic <- TRUE

\* A log of two records, with three harts and a console that is added and removed; with two harts
\* and two consoles, also handed over, which the model values of the symmetric threads stand for.
Flushing == INSTANCE Console WITH
    Harts <- {h1, h2, h3}, Consoles <- {c1}, None <- NoOne, Capacity <- 2, MaxSeq <- 5,
    Operations <- {"print", "add", "remove"}, pc <- c_pc, expected <- c_expected
Handed == INSTANCE Console WITH
    Harts <- {h1, h2}, Consoles <- {t1, t2}, None <- NoOne, Capacity <- 2, MaxSeq <- 5,
    Operations <- {"print", "add", "remove", "release", "again"}, pc <- c_pc, expected <- c_expected

ASSUME TimedFutex!FutexAssumption /\ WordsFutex!FutexAssumption
ASSUME Deferred!NullAssumption
ASSUME PinnedTlb!ContextsAssumption /\ PinnedTlb!BoundAssumption
ASSUME MovedTlb!ContextsAssumption /\ MovedTlb!BoundAssumption
ASSUME Ring!SizeAssumption /\ PanicRing!SizeAssumption
ASSUME Flushing!BoundAssumption /\ Flushing!OperationsAssumption /\ Flushing!NoneAssumption
ASSUME Handed!BoundAssumption /\ Handed!OperationsAssumption /\ Handed!NoneAssumption

EventScenes == {"one event", "signals", "two events", "unlock"}
FutexScenes == {"timed futex", "futex words"}

RingScenes == {"ring", "panic"}
ConsoleScenes == {"consoles", "handed over"}

NoRing     == /\ ring = 0 /\ ring_head = 0 /\ ring_tail = 0 /\ append = 0 /\ panic = 0 /\ failed = 0 /\ torn = 0
NoConsoles == /\ console_lock = 0 /\ list = 0 /\ released = 0 /\ shown = 0 /\ garbled = 0 /\ unwritten = 0
              /\ c_pc = 0 /\ cons = 0 /\ rest = 0 /\ c_expected = 0 /\ written = 0
NoLog      == NoRing /\ NoConsoles /\ first_seq = 0 /\ next_seq = 0 /\ cursor = 0

NoEvent    == /\ lock = 0 /\ num_pending = 0 /\ listeners = 0 /\ state = 0 /\ wait_interrupt = 0 /\ pending_work = 0
              /\ kicks = 0 /\ wakeup_index = 0 /\ sleepers = 0 /\ pc = 0 /\ args = 0 /\ idx = 0 /\ triggered = 0
              /\ result = 0 /\ call = 0 /\ guard = 0 /\ condition = 0 /\ taken = 0
NoFutex    == /\ word = 0 /\ f_lock = 0 /\ bucket = 0 /\ f_state = 0 /\ f_work = 0 /\ f_kicks = 0 /\ f_sleepers = 0
              /\ late = 0 /\ f_pc = 0 /\ address = 0 /\ expected = 0 /\ deadline = 0 /\ f_result = 0 /\ woken = 0
NoDeferral == /\ deferred_head = 0 /\ queued = 0 /\ next = 0 /\ d_at = 0 /\ deferral = 0 /\ head = 0 /\ it = 0
              /\ following = 0 /\ step = 0 /\ owed = 0
NoTlb      == /\ tables = 0 /\ tlb = 0 /\ generation = 0 /\ flushed = 0 /\ ipi = 0 /\ irq = 0 /\ at = 0 /\ s_pc = 0
              /\ self = 0 /\ gen = 0 /\ polled = 0 /\ left = 0 /\ changed = 0

Start ==
    /\ \/ scene \in EventScenes  /\ Init            /\ NoFutex /\ NoDeferral /\ NoTlb /\ NoLog
       \/ scene = "timed futex"  /\ TimedFutex!Init /\ NoEvent /\ NoDeferral /\ NoTlb /\ NoLog
       \/ scene = "futex words"  /\ WordsFutex!Init /\ NoEvent /\ NoDeferral /\ NoTlb /\ NoLog
       \/ scene = "deferral"     /\ Deferred!Init   /\ NoEvent /\ NoFutex /\ NoTlb /\ NoLog
       \/ scene = "tlb"          /\ PinnedTlb!Init  /\ NoEvent /\ NoFutex /\ NoDeferral /\ NoLog
       \/ scene = "moved tlb"    /\ MovedTlb!Init   /\ NoEvent /\ NoFutex /\ NoDeferral /\ NoLog
       \/ scene \in RingScenes   /\ Ring!Init       /\ NoEvent /\ NoFutex /\ NoDeferral /\ NoTlb /\ NoConsoles
       \/ scene = "consoles"     /\ Flushing!Init   /\ NoEvent /\ NoFutex /\ NoDeferral /\ NoTlb /\ NoRing
       \/ scene = "handed over"  /\ Handed!Init     /\ NoEvent /\ NoFutex /\ NoDeferral /\ NoTlb /\ NoRing

Step ==
    /\ UNCHANGED scene
    /\ \/ scene \in EventScenes    /\ Next /\ Bounds         /\ UNCHANGED <<futexVars, deferralVars, tlbVars, logVars>>
       \/ scene = "timed futex"    /\ TimedFutex!Next        /\ UNCHANGED <<vars, deferralVars, tlbVars, logVars>>
       \/ scene = "futex words"    /\ WordsFutex!Next        /\ UNCHANGED <<vars, deferralVars, tlbVars, logVars>>
       \/ scene = "deferral"       /\ Deferred!Next          /\ UNCHANGED <<vars, futexVars, tlbVars, logVars>>
       \/ scene = "tlb"            /\ PinnedTlb!Next         /\ UNCHANGED <<vars, futexVars, deferralVars, logVars>>
       \/ scene = "moved tlb"      /\ MovedTlb!Next          /\ UNCHANGED <<vars, futexVars, deferralVars, logVars>>
       \/ scene = "ring"           /\ Ring!Next              /\ UNCHANGED <<vars, futexVars, deferralVars, tlbVars, consoleVars>>
       \/ scene = "panic"          /\ PanicRing!Next         /\ UNCHANGED <<vars, futexVars, deferralVars, tlbVars, consoleVars>>
       \/ scene = "consoles"       /\ Flushing!Next          /\ UNCHANGED <<vars, futexVars, deferralVars, tlbVars, ringVars>>
       \/ scene = "handed over"    /\ Handed!Next            /\ UNCHANGED <<vars, futexVars, deferralVars, tlbVars, ringVars>>

allVars == <<scene, vars, futexVars, deferralVars, tlbVars, logVars>>

\* Every shootdown has been made, every thread waits for a word that no waker is left
\* to change, or the log has its last record.
Rest == scene \in {"tlb", "moved tlb", "futex words"} \cup RingScenes \cup ConsoleScenes /\ UNCHANGED allVars

Scenes == Start /\ [][Step \/ Rest]_allVars

(***************************************************************************)
(* The properties of the parts that are not extended                       *)
(***************************************************************************)

AllTypeOK ==
    /\ scene \in EventScenes => TypeOK
    /\ scene = "timed futex" => TimedFutex!TypeOK
    /\ scene = "futex words" => WordsFutex!TypeOK
    /\ scene = "deferral" => Deferred!TypeOK
    /\ scene = "tlb" => PinnedTlb!TypeOK
    /\ scene = "moved tlb" => MovedTlb!TypeOK
    /\ scene = "ring" => Ring!TypeOK
    /\ scene = "panic" => PanicRing!TypeOK
    /\ scene = "consoles" => Flushing!TypeOK
    /\ scene = "handed over" => Handed!TypeOK

\* await_until and futex_wait: a blocked thread is in the list of every event, or of the word,
\* that it waits for, and trigger keeps no wakeup for later while one listens; and trigger,
\* futex_wake and the tick, which follow the lists to threads, find there, once, those that
\* are still in the wait that put them there, so alive.
ListsAreTrue ==
    /\ AllTypeOK
    /\ scene \in EventScenes =>
        NoPendingWhileListening /\ BlockedThreadListens /\ ListenersAreWaiting /\ SleepersAreWaiting
    /\ scene \in FutexScenes => WordsFutex!BlockedIsQueued /\ WordsFutex!QueuedIsWaiting

\* A wait returns what ended it: a waiter that trigger or futex_wake counted reports the
\* wakeup, even if its deadline or a signal came too, and none reports a wakeup or a
\* timeout it did not have.
ResultIsTrue ==
    /\ scene \in EventScenes => ResultMatchesTrigger /\ UntimedAwaitNeverTimesOut
    /\ scene \in FutexScenes => WordsFutex!CountedIsReported

\* event_await_unlock and futex_wait: nobody sleeps on a condition that has come true,
\* or on a word that has changed, unless the wakeup that goes with it is still to come.
NoSleepOnTrue ==
    /\ scene \in EventScenes => ConditionNotMissed
    /\ scene = "futex words" => WordsFutex!NoLostWakeup

\* event_trigger_deferred, event_run_deferred: a deferral called since its last trigger is
\* on its way to another one, in the hands of one context only.
NoneLost == scene = "deferral" => Deferred!InOnePlace /\ Deferred!NoneLost

\* tlb_shootdown: when it returns, no hart holds a translation older than the change
\* it was called for, where the threads that shoot down at once stay on their harts.
PurgedEverywhere ==
    /\ scene = "tlb" => PinnedTlb!PurgedEverywhere
    /\ scene = "moved tlb" => MovedTlb!PurgedEverywhere

\* ring_append and kprintf_read: the ring holds its records whole and in order, every cursor
\* stays at the record it names, and readers find the record they expect, also those that read
\* during a panic.  A panic that comes between the two stores of drop_oldest (kprintf.c:108) or of
\* ring_append (kprintf.c:145) is excepted, for it leaves the numbers one off; but wherever it
\* comes, no reader copies a record that has its header only.
RingIsSound ==
    scene \in RingScenes =>
        PanicRing!RecordsAreKept /\ PanicRing!CursorsStay /\ PanicRing!ReadsSucceed /\ PanicRing!NeverTorn

RingLog == INSTANCE RecordLog WITH
    first_seq <- IF scene = "ring" THEN Ring!LogFirst ELSE 0,
    next_seq <- IF scene = "ring" THEN next_seq ELSE 0

\* Until a panic cuts an append short, the ring is the log of numbered records that
\* its readers rely on: an append drops the oldest ones, never the one it adds.
RingIsRecordLog == RingLog!Spec

\* console_flush: across flushes of different harts, and drops between them, a console
\* shows every record once and in order, or counts it among the dropped; and once every
\* call returned, every record is on every console, unless its hart found the lock held by a
\* console_release, or by a console_add or console_remove that is refused, and no flush came
\* after: these write nothing before they give it back (console.c:226-236).
ConsolesShowAll ==
    /\ scene = "consoles" => Flushing!ShownInOrder /\ Flushing!AllWritten
    /\ scene = "handed over" => Handed!ShownInOrder /\ Handed!AllWritten

\* CONSF_RELEASED: a console handed over while another hart logs is left alone.
ReleasedIsLeftAlone ==
    [][scene = "handed over" => \A c \in released : shown'[c] = shown[c]]_<<scene, shown>>

Symmetry == Permutations({t1, t2})
==============================================================================
