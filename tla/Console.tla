------------------------------- MODULE Console -------------------------------
(* kernel/core/console.c: the harts that log a record write it to every        *)
(* console, unless another hart holds the consoles and is trusted to do it.    *)
(*                                                                             *)
(* The log is the one RecordLog specifies, holding Capacity records.  One step *)
(* per use of the log's lock, of console_lock and of next_seq; the fences of   *)
(* console_flush make the last two sequentially consistent.                    *)
EXTENDS Naturals, Sequences

CONSTANTS Harts,
          Consoles,
          None,
          Capacity,     \* the records the log holds
          MaxSeq,       \* bound: the records logged
          Operations    \* what the harts do, of "print", "add", "remove", "release", "again"

BoundAssumption == Capacity \in Nat \ {0} /\ MaxSeq \in Nat
OperationsAssumption == Operations \subseteq {"print", "add", "remove", "release", "again"}
NoneAssumption == None \notin Harts \cup Consoles

VARIABLES first_seq, next_seq,
          console_lock,     \* the hart that holds it, or None
          list,             \* the consoles from console_head on
          cursor,           \* [Consoles -> seq of the next record to write]
          released,         \* the consoles with CONSF_RELEASED
          shown,            \* history: [Consoles -> the seq its output accounts for up to]
          garbled,          \* history: the consoles whose output skipped or repeated records
          unwritten,        \* history: a record was left to a holder of the lock that writes none
          pc,               \* [Harts -> where it is]
          cons,             \* [Harts -> the console of console_add and the like]
          rest,             \* [Harts -> the consoles flush_all_locked has still to flush]
          expected,         \* [Harts -> the local of flush_console]
          written           \* [Harts -> the local of console_flush]

logVars  == <<first_seq, next_seq>>
consVars == <<list, cursor, released, shown, garbled, unwritten>>
hartVars == <<pc, cons, rest, expected, written>>
vars == <<logVars, console_lock, consVars, hartVars>>

Init ==
    /\ first_seq = 0 /\ next_seq = 0
    /\ console_lock = None
    /\ list = << >>
    /\ cursor = [c \in Consoles |-> 0]
    /\ released = {} /\ garbled = {} /\ unwritten = FALSE
    /\ shown = [c \in Consoles |-> 0]
    /\ pc = [h \in Harts |-> "idle"]
    /\ cons = [h \in Harts |-> None]
    /\ rest = [h \in Harts |-> << >>]
    /\ expected = [h \in Harts |-> 0]
    /\ written = [h \in Harts |-> 0]

Listed(c) == \E i \in 1..Len(list) : list[i] = c
Go(h, place) == pc' = [pc EXCEPT ![h] = place]

\* append_locked: the oldest record makes room.
AppendRecord ==
    /\ next_seq < MaxSeq
    /\ next_seq' = next_seq + 1
    /\ first_seq' = IF next_seq' - first_seq > Capacity THEN first_seq + 1 ELSE first_seq

\* kprintf: the record, then console_flush.
Kprintf(h) ==
    /\ pc[h] = "idle" /\ "print" \in Operations
    /\ AppendRecord
    /\ Go(h, "try")
    /\ UNCHANGED <<console_lock, consVars, cons, rest, expected, written>>

-------------------------------------------------------------------------------
(* console_flush *)
TryAcquireFails(h) ==
    /\ pc[h] = "try" /\ console_lock # None
    /\ Go(h, "idle")
    /\ unwritten' = (unwritten \/ pc[console_lock] \in {"hand_over", "refuse"})
    /\ UNCHANGED <<logVars, console_lock, list, cursor, released, shown, garbled, cons, rest, expected, written>>

TryAcquire(h) ==
    /\ pc[h] = "try" /\ console_lock = None
    /\ console_lock' = h
    /\ Go(h, "snapshot")
    /\ UNCHANGED <<logVars, consVars, cons, rest, expected, written>>

Snapshot(h) ==
    /\ pc[h] = "snapshot"
    /\ written' = [written EXCEPT ![h] = next_seq]
    /\ rest' = [rest EXCEPT ![h] = list]
    /\ Go(h, "consoles")
    /\ unwritten' = FALSE
    /\ UNCHANGED <<logVars, console_lock, list, cursor, released, shown, garbled, cons, expected>>

\* flush_all_locked goes to a console, past the released ones.
SkipReleased(h) ==
    /\ pc[h] = "consoles" /\ rest[h] # << >>
    /\ Head(rest[h]) \in released
    /\ rest' = [rest EXCEPT ![h] = Tail(@)]
    /\ UNCHANGED <<logVars, console_lock, consVars, pc, cons, expected, written>>

Flush(h, c) ==
    /\ pc[h] = "consoles" /\ rest[h] # << >> /\ c = Head(rest[h])
    /\ expected' = [expected EXCEPT ![h] = cursor[c]]
    /\ Go(h, "read")
    /\ UNCHANGED <<logVars, console_lock, consVars, cons, rest, written>>

\* Slip: a released console is written to as well.
FlushReleased(h) == \E c \in Consoles : Flush(h, c)

FlushConsole(h) == \E c \in Consoles \ released : Flush(h, c)

\* kprintf_read and the writes of one turn of flush_console: the count of dropped
\* records, if the record is not the expected one, and the record.
Oldest(c) == IF cursor[c] < first_seq THEN first_seq ELSE cursor[c]

WriteRecord(h, c) ==
    LET seq     == Oldest(c)
        dropped == seq - expected[h]
    IN  /\ cursor' = [cursor EXCEPT ![c] = seq + 1]
        /\ expected' = [expected EXCEPT ![h] = seq + 1]
        /\ shown' = [shown EXCEPT ![c] = seq + 1]
        /\ garbled' = IF shown[c] + dropped = seq THEN garbled ELSE garbled \cup {c}

\* The driver may log from its write: the record is appended, and the flush finds
\* the lock taken by its own hart and returns.
Logs == AppendRecord \/ UNCHANGED logVars

ReadRecord(h) ==
    /\ pc[h] = "read" /\ Oldest(Head(rest[h])) < next_seq
    /\ WriteRecord(h, Head(rest[h]))
    /\ Logs
    /\ UNCHANGED <<console_lock, list, released, unwritten, pc, cons, rest, written>>

ReadNothing(h) ==
    /\ pc[h] = "read" /\ Oldest(Head(rest[h])) >= next_seq
    /\ rest' = [rest EXCEPT ![h] = Tail(@)]
    /\ expected' = [expected EXCEPT ![h] = 0]
    /\ Go(h, "consoles")
    /\ UNCHANGED <<logVars, console_lock, consVars, cons, written>>

Unlock(h, place) ==
    /\ pc[h] = "consoles" /\ rest[h] = << >>
    /\ console_lock' = None
    /\ Go(h, place)
    /\ UNCHANGED <<logVars, consVars, cons, rest, expected, written>>

\* Slip: nothing is looked for after the lock is released.
FlushDoneAtOnce(h) == Unlock(h, "idle")

FlushDone(h) == Unlock(h, "check")

Check(h) ==
    /\ pc[h] = "check"
    /\ Go(h, IF next_seq = written[h] THEN "idle" ELSE "try")
    /\ written' = [written EXCEPT ![h] = 0]
    /\ UNCHANGED <<logVars, console_lock, consVars, cons, rest, expected>>

ConsoleFlush(h) == \/ TryAcquireFails(h) \/ TryAcquire(h) \/ Snapshot(h) \/ SkipReleased(h)
                   \/ FlushConsole(h) \/ ReadRecord(h) \/ ReadNothing(h) \/ FlushDone(h) \/ Check(h)

-------------------------------------------------------------------------------
(* console_add, console_remove and console_release, which wait for the lock. *)
Lock(h, c, place) ==
    /\ console_lock = None
    /\ console_lock' = h
    /\ cons' = [cons EXCEPT ![h] = c]
    /\ Go(h, place)
    /\ UNCHANGED <<logVars, consVars, rest, expected, written>>

Free(h) == pc[h] = "idle" /\ cons[h] = None

\* pr_verbose: a record and its flush.  A console_add goes on after it.
Log(h) ==
    /\ pc[h] = "log"
    /\ AppendRecord
    /\ Go(h, "try")
    /\ UNCHANGED <<console_lock, consVars, cons, rest, expected, written>>

\* One call at a time has to do with a console.
AddStart(h, c) ==
    /\ Free(h) /\ "add" \in Operations
    /\ ~Listed(c) /\ c \notin released /\ \A g \in Harts : cons[g] # c
    /\ Lock(h, c, "scan")

\* -EEXIST: the scan finds the console.
AddAgain(h, c) == Free(h) /\ "again" \in Operations /\ Listed(c) /\ Lock(h, c, "refuse")

\* -EINVAL: the scan does not find it.
RemoveAgain(h, c) == Free(h) /\ "again" \in Operations /\ ~Listed(c) /\ Lock(h, c, "refuse")

\* The lock is given back, and nothing is logged or flushed.
Refuse(h) ==
    /\ pc[h] = "refuse"
    /\ console_lock' = None
    /\ cons' = [cons EXCEPT ![h] = None]
    /\ Go(h, "idle")
    /\ UNCHANGED <<logVars, consVars, rest, expected, written>>

AddScan(h) ==
    /\ pc[h] = "scan"
    /\ console_lock' = None
    /\ Go(h, "log")
    /\ UNCHANGED <<logVars, consVars, cons, rest, expected, written>>

AddLock(h) == pc[h] = "idle" /\ cons[h] # None /\ Lock(h, cons[h], "insert")

\* kprintf_seek_first with CONSF_RECALL, kprintf_seek_end without.
ConsoleAdd(h) ==
    LET c == cons[h] IN
    /\ pc[h] = "insert"
    /\ \E seq \in {first_seq, next_seq} : /\ cursor' = [cursor EXCEPT ![c] = seq]
                                          /\ shown' = [shown EXCEPT ![c] = seq]
    /\ list' = <<c>> \o list
    /\ console_lock' = None
    /\ cons' = [cons EXCEPT ![h] = None]
    /\ Go(h, "try")
    /\ UNCHANGED <<logVars, released, garbled, unwritten, rest, expected, written>>

RemoveStart(h, c) ==
    /\ Free(h) /\ "remove" \in Operations
    /\ Listed(c) /\ \A g \in Harts : cons[g] # c
    /\ Lock(h, c, "unlink")

ConsoleRemove(h) ==
    /\ pc[h] = "unlink"
    /\ list' = SelectSeq(list, LAMBDA c : c # cons[h])
    /\ console_lock' = None
    /\ cons' = [cons EXCEPT ![h] = None]
    /\ Go(h, "log")
    /\ UNCHANGED <<logVars, cursor, released, shown, garbled, unwritten, rest, expected, written>>

ReleaseStart(h, c) ==
    /\ Free(h) /\ "release" \in Operations
    /\ Listed(c)
    /\ Lock(h, c, "hand_over")

ConsoleRelease(h) ==
    /\ pc[h] = "hand_over"
    /\ released' = released \cup {cons[h]}
    /\ console_lock' = None
    /\ cons' = [cons EXCEPT ![h] = None]
    /\ Go(h, "idle")
    /\ UNCHANGED <<logVars, list, cursor, shown, garbled, unwritten, rest, expected, written>>

Step(h) == \/ Kprintf(h) \/ ConsoleFlush(h) \/ Log(h)
           \/ AddScan(h) \/ AddLock(h) \/ ConsoleAdd(h) \/ ConsoleRemove(h) \/ ConsoleRelease(h)
           \/ Refuse(h)
           \/ \E c \in Consoles : \/ AddStart(h, c) \/ AddAgain(h, c) \/ RemoveStart(h, c) \/ RemoveAgain(h, c)
                                 \/ ReleaseStart(h, c)

Next == \E h \in Harts : Step(h)

Spec == Init /\ [][Next]_vars

-------------------------------------------------------------------------------
TypeOK ==
    /\ first_seq \in 0..MaxSeq /\ next_seq \in 0..MaxSeq /\ first_seq <= next_seq
    /\ console_lock \in Harts \cup {None}
    /\ \A i, j \in 1..Len(list) : list[i] \in Consoles /\ (list[i] = list[j] => i = j)
    /\ cursor \in [Consoles -> 0..MaxSeq] /\ shown \in [Consoles -> 0..MaxSeq]
    /\ released \subseteq Consoles /\ garbled \subseteq Consoles /\ unwritten \in BOOLEAN
    /\ pc \in [Harts -> {"idle", "try", "snapshot", "consoles", "read", "check", "log",
                         "scan", "insert", "unlink", "hand_over", "refuse"}]
    /\ cons \in [Harts -> Consoles \cup {None}]
    /\ \A h \in Harts : pc[h] \in {"snapshot", "consoles", "read", "scan", "insert", "unlink",
                                   "hand_over", "refuse"} <=> console_lock = h

\* "Either the writer that holds the lock sees the record appended before this fence,
\* or this hart takes the lock and writes it" (console.c:172-173), and console.h's
\* "as that writer writes the records": once every call returned, every record is on
\* every console that still has its device.  One exception: console_release, and a console_add or
\* console_remove that is refused, hold the lock and write nothing after it, so the record of a
\* hart that finds it theirs is on no console until the next flush.
AllWritten ==
    (~unwritten /\ \A h \in Harts : pc[h] = "idle" /\ cons[h] = None) =>
        \A c \in Consoles \ released : Listed(c) => cursor[c] = next_seq

\* flush_console: across flushes of different harts, and drops between them, a
\* console shows every record once and in order, or counts it among the dropped.
ShownInOrder == garbled = {}

\* CONSF_RELEASED, "The device belongs to its driver and won't receive write calls"
\* (console.h:10): a console handed over while another hart logs is left alone.
ReleasedIsLeftAlone == [][\A c \in released : shown'[c] = shown[c]]_vars
===============================================================================
