-------------------------------- MODULE KpLog --------------------------------
(* kernel/core/kplog.c: the readers of /dev/kplog, each with a cursor into the *)
(* log, the count of what was dropped under it, and a wait for more.           *)
(*                                                                             *)
(* The log is the one RecordLog specifies, holding Capacity records; its       *)
(* deferred trigger is the one bit that Deferral shows it to be.  One step per *)
(* use of the log's lock, of next_seq and of the event.  A file is used by one *)
(* thread at a time, which its mutex sees to.                                  *)
EXTENDS Integers

CONSTANTS Files,
          Writers,      \* the contexts that log
          Capacity,     \* the records the log holds
          Rooms,        \* sizes of read buffers, in records
          MaxSeq,       \* bound: the records logged
          Seeks         \* whether files are sought

BoundAssumption == Capacity \in Nat \ {0} /\ MaxSeq \in Nat /\ Rooms \subseteq Nat
SeeksAssumption == Seeks \in BOOLEAN

VARIABLES first_seq, next_seq,
          logging,      \* [Writers -> the record is in, the deferred trigger to be called]
          queued,       \* appended_deferral.queued
          ticking,      \* the tick unqueued the deferral and is about to trigger
          pending,      \* kprintf_appended.num_pending
          listeners,    \* the files whose thread listens to kprintf_appended
          pc,           \* [Files -> where its read is]
          cursor,       \* [Files -> seq]
          lost,         \* [Files -> the records the next read reports as lost]
          room,         \* [Files -> the records that still fit in the buffer]
          copied,       \* [Files -> whether the buffer holds any]
          result,       \* [Files -> what the last read returned]
          counted,      \* history: [Files -> records it was given or told of since the seek]
          robbed        \* history: the files whose wakeup went to another file

logVars   == <<first_seq, next_seq>>
eventVars == <<queued, ticking, pending, listeners, robbed>>
fileVars  == <<pc, cursor, lost, room, copied, result, counted>>
vars == <<logVars, logging, eventVars, fileVars>>

EINVAL   == -226
EAGAIN   == -206
ERESTART == -4095

Init ==
    /\ first_seq = 0 /\ next_seq = 0
    /\ logging = [w \in Writers |-> FALSE]
    /\ queued = FALSE /\ ticking = FALSE /\ pending = 0 /\ listeners = {} /\ robbed = {}
    /\ pc = [f \in Files |-> "idle"]
    /\ cursor = [f \in Files |-> 0]
    /\ lost = [f \in Files |-> 0]
    /\ room = [f \in Files |-> 0]
    /\ copied = [f \in Files |-> FALSE]
    /\ result = [f \in Files |-> 0]
    /\ counted = [f \in Files |-> 0]

-------------------------------------------------------------------------------
(* kprintf: append_locked, then event_trigger_deferred. *)
Kprintf(w) ==
    /\ ~logging[w] /\ next_seq < MaxSeq
    /\ next_seq' = next_seq + 1
    /\ first_seq' = IF next_seq' - first_seq > Capacity THEN first_seq + 1 ELSE first_seq
    /\ logging' = [logging EXCEPT ![w] = TRUE]
    /\ UNCHANGED <<eventVars, fileVars>>

AppendDone(w) ==
    /\ logging[w]
    /\ logging' = [logging EXCEPT ![w] = FALSE]
    /\ queued' = TRUE
    /\ UNCHANGED <<logVars, ticking, pending, listeners, robbed, fileVars>>

\* event_run_deferred
Tick ==
    /\ queued /\ ~ticking
    /\ queued' = FALSE
    /\ ticking' = TRUE
    /\ UNCHANGED <<logVars, logging, pending, listeners, robbed, fileVars>>

\* The files whose thread found nothing and is about to wait
Late(files) == {f \in files : pc[f] = "await"}

\* Every listener is woken; with none, one wakeup is kept.
Trigger ==
    /\ ticking
    /\ ticking' = FALSE
    /\ listeners' = {}
    /\ robbed' = IF listeners = {} THEN robbed ELSE (robbed \ listeners) \cup Late(Files)
    /\ pending' = IF listeners = {} THEN 1 ELSE pending
    /\ pc' = [f \in Files |-> IF f \in listeners THEN "read" ELSE pc[f]]
    /\ UNCHANGED <<logVars, logging, queued, cursor, lost, room, copied, result, counted>>

-------------------------------------------------------------------------------
(* kplog_read *)
KplogRead(f, size) ==
    /\ pc[f] = "idle"
    /\ pc' = [pc EXCEPT ![f] = "read"]
    /\ room' = [room EXCEPT ![f] = size]
    /\ copied' = [copied EXCEPT ![f] = FALSE]
    /\ result' = [result EXCEPT ![f] = 0]
    /\ UNCHANGED <<logVars, logging, eventVars, cursor, lost, counted>>

\* A record of either kind goes into the buffer.
Put(f) ==
    /\ room' = [room EXCEPT ![f] = @ - 1]
    /\ copied' = [copied EXCEPT ![f] = TRUE]

PutLost(f) ==
    /\ pc[f] = "read" /\ lost[f] > 0 /\ room[f] > 0
    /\ Put(f)
    /\ lost' = [lost EXCEPT ![f] = 0]
    /\ counted' = [counted EXCEPT ![f] = @ + lost[f]]
    /\ UNCHANGED <<logVars, logging, eventVars, pc, cursor, result>>

\* kprintf_read finds the oldest record in the place of the one under the cursor.
FindLoss(f) ==
    /\ pc[f] = "read" /\ lost[f] = 0
    /\ cursor[f] < first_seq
    /\ lost' = [lost EXCEPT ![f] = @ + (first_seq - cursor[f])]
    /\ pc' = [pc EXCEPT ![f] = "seek"]
    /\ UNCHANGED <<logVars, logging, eventVars, cursor, room, copied, result, counted>>

SeekOldest(f) ==
    /\ pc[f] = "seek"
    /\ cursor' = [cursor EXCEPT ![f] = first_seq]
    /\ pc' = [pc EXCEPT ![f] = "read"]
    /\ UNCHANGED <<logVars, logging, eventVars, lost, room, copied, result, counted>>

CopyRecord(f) ==
    /\ pc[f] = "read" /\ lost[f] = 0
    /\ first_seq <= cursor[f] /\ cursor[f] < next_seq
    /\ room[f] > 0
    /\ Put(f)
    /\ cursor' = [cursor EXCEPT ![f] = @ + 1]
    /\ counted' = [counted EXCEPT ![f] = @ + 1]
    /\ UNCHANGED <<logVars, logging, eventVars, pc, lost, result>>

Return(f, retval) ==
    /\ pc' = [pc EXCEPT ![f] = "idle"]
    /\ room' = [room EXCEPT ![f] = 0]
    /\ copied' = [copied EXCEPT ![f] = FALSE]
    /\ result' = [result EXCEPT ![f] = retval]

\* The loop ends: nothing more fits, or there is nothing more.
NoMore(f) == \/ lost[f] > 0 /\ room[f] = 0
             \/ lost[f] = 0 /\ cursor[f] >= next_seq
             \/ lost[f] = 0 /\ first_seq <= cursor[f] /\ room[f] = 0

ReadSome(f) ==
    /\ pc[f] = "read" /\ NoMore(f)
    /\ copied[f]
    /\ Return(f, 1)
    /\ UNCHANGED <<logVars, logging, eventVars, cursor, lost, counted>>

ReadNothing(f) ==
    /\ pc[f] = "read" /\ NoMore(f)
    /\ ~copied[f]
    /\ pc' = [pc EXCEPT ![f] = "check"]
    /\ UNCHANGED <<logVars, logging, eventVars, cursor, lost, room, copied, result, counted>>

\* next_seq is read again, to tell a record that does not fit from none.
DoesNotFit(f) ==
    /\ pc[f] = "check"
    /\ lost[f] > 0 \/ next_seq # cursor[f]
    /\ Return(f, EINVAL)
    /\ UNCHANGED <<logVars, logging, eventVars, cursor, lost, counted>>

NothingThere(f) == pc[f] = "check" /\ lost[f] = 0 /\ next_seq = cursor[f]

ReadNonblocking(f) ==
    /\ NothingThere(f)
    /\ Return(f, EAGAIN)
    /\ UNCHANGED <<logVars, logging, eventVars, cursor, lost, counted>>

\* event_await_interruptible follows, which takes a wakeup that was kept, or waits.
ReadBlocking(f) ==
    /\ NothingThere(f)
    /\ pc' = [pc EXCEPT ![f] = "await"]
    /\ UNCHANGED <<logVars, logging, eventVars, cursor, lost, room, copied, result, counted>>

TakePending(f) ==
    /\ pc[f] = "await" /\ pending > 0
    /\ pending' = pending - 1
    /\ robbed' = (robbed \ {f}) \cup Late(Files \ {f})
    /\ pc' = [pc EXCEPT ![f] = "read"]
    /\ UNCHANGED <<logVars, logging, queued, ticking, listeners, cursor, lost, room, copied, result, counted>>

Listen(f) ==
    /\ pc[f] = "await" /\ pending = 0
    /\ listeners' = listeners \cup {f}
    /\ pc' = [pc EXCEPT ![f] = "asleep"]
    /\ UNCHANGED <<logVars, logging, queued, ticking, pending, robbed, cursor, lost, room, copied, result, counted>>

Interrupted(f) ==
    /\ pc[f] = "asleep"
    /\ listeners' = listeners \ {f} /\ robbed' = robbed \ {f}
    /\ Return(f, ERESTART)
    /\ UNCHANGED <<logVars, logging, queued, ticking, pending, cursor, lost, counted>>

ReadLocked(f) == PutLost(f) \/ FindLoss(f) \/ SeekOldest(f) \/ CopyRecord(f) \/ ReadSome(f) \/ ReadNothing(f)

Await(f) == DoesNotFit(f) \/ ReadBlocking(f) \/ TakePending(f) \/ Listen(f)

-------------------------------------------------------------------------------
(* kplog_ioctl: a seek forgets what was lost. *)
Seek(f, seq) ==
    /\ Seeks /\ pc[f] = "idle"
    /\ cursor' = [cursor EXCEPT ![f] = seq]
    /\ lost' = [lost EXCEPT ![f] = 0]
    /\ counted' = [counted EXCEPT ![f] = seq]
    /\ UNCHANGED <<logVars, logging, eventVars, pc, room, copied, result>>

SeekFirst(f)    == Seek(f, first_seq)
SeekEnd(f)      == Seek(f, next_seq)
SeekSeq(f, seq) == seq <= next_seq /\ Seek(f, seq)

Next ==
    \/ \E w \in Writers : Kprintf(w) \/ AppendDone(w)
    \/ Tick \/ Trigger
    \/ \E f \in Files : \/ \E size \in Rooms : KplogRead(f, size)
                        \/ ReadLocked(f) \/ Await(f)
                        \/ ReadNonblocking(f) \/ Interrupted(f)
                        \/ SeekFirst(f) \/ SeekEnd(f) \/ \E seq \in 0..MaxSeq : SeekSeq(f, seq)

Spec == Init /\ [][Next]_vars

-------------------------------------------------------------------------------
TypeOK ==
    /\ first_seq \in 0..MaxSeq /\ next_seq \in 0..MaxSeq /\ first_seq <= next_seq
    /\ logging \in [Writers -> BOOLEAN]
    /\ queued \in BOOLEAN /\ ticking \in BOOLEAN /\ pending \in 0..1
    /\ listeners = {f \in Files : pc[f] = "asleep"} /\ robbed \subseteq Files
    /\ pc \in [Files -> {"idle", "read", "seek", "check", "await", "asleep"}]
    /\ \A f \in Files : /\ cursor[f] \in 0..next_seq
                        /\ lost[f] \in 0..first_seq
                        /\ room[f] \in Nat /\ copied[f] \in BOOLEAN
                        /\ result[f] \in {0, 1, EINVAL, EAGAIN, ERESTART}

\* What a file was given, told of, and has still to be told of.
Accounted(f) == counted[f] + lost[f]

\* put_lost and read_locked: whatever the writers do between two reads, a record is
\* never both given and reported lost, nor reported lost twice.
NeverOverstated ==
    \A f \in Files : Accounted(f) <= IF pc[f] = "seek" THEN first_seq ELSE cursor[f]

\* kplog_read looks, then awaits kprintf_appended: a record logged in between is
\* announced by a wakeup that is kept, so a reader with a record to read never sleeps
\* without a trigger on its way, unless the wakeup went to another reader: a trigger wakes
\* the readers that wait, or keeps one wakeup, for whoever comes first.
ReaderIsWoken ==
    \A f \in Files : (pc[f] = "asleep" /\ cursor[f] < next_seq) =>
                         f \in robbed \/ queued \/ ticking \/ \E w \in Writers : logging[w]
===============================================================================
