-------------------------------- MODULE KpRing --------------------------------
(* kernel/core/kprintf.c: the ring of log records, the appends that drop the   *)
(* oldest ones to make room, the cursors that read them, and a panic that      *)
(* stops an append where it is and goes on without the lock.                   *)
(*                                                                             *)
(* The unit of size is RECORD_ALIGN.  An append is one step per store that a   *)
(* panic can come before; a reader that has the lock is one step.              *)
EXTENDS Naturals, FiniteSets

CONSTANTS Size,         \* KP_BUFSIZE
          HeadSize,     \* sizeof(kp_record_t)
          TextSizes,    \* the sizes of text, up to KP_LINE_MAX
          Cursors,
          MaxSeq,       \* bound: the records appended
          CanPanic      \* whether a panic may happen

SizeAssumption ==
    /\ Size \in Nat /\ HeadSize \in Nat \ {0} /\ TextSizes \subseteq Nat
    /\ MaxSeq \in Nat /\ CanPanic \in BOOLEAN
    /\ \A n \in TextSizes : Size >= 2 * (HeadSize + n)      \* the static_assert

VARIABLES ring,         \* [0..Size-1 -> what the unit holds]
          ring_head, ring_tail, first_seq, next_seq,
          cursor,       \* [Cursors -> kp_cursor_t]
          append,       \* the append under kprintf_lock: where it is, its text's size,
                        \* and first_seq when it began
          panic,        \* "none", or where the panic in progress found the append
          failed,       \* the kassert of kprintf_read failed, so the hart stopped
          torn          \* history: a reader copied a record whose text was not there yet

posVars == <<ring_head, ring_tail, first_seq, next_seq>>
vars == <<ring, posVars, cursor, append, panic, failed, torn>>

\* A header, the padding marker, or a unit of the text of a record.
Head(seq, size)  == [is |-> "head", seq |-> seq, size |-> size]
Half(seq, size)  == [is |-> "half", seq |-> seq, size |-> size]     \* its text not there yet
Padding          == [is |-> "padding", seq |-> 0, size |-> 0]
Text(seq)        == [is |-> "text", seq |-> seq, size |-> 0]
Idle             == [at |-> "idle", size |-> 0, first |-> 0]

record_footprint(size) == HeadSize + size
Remaining(position)    == Size - (position % Size)

Init ==
    /\ ring = [i \in 0..Size-1 |-> Head(0, 0)]
    /\ ring_head = 0 /\ ring_tail = 0 /\ first_seq = 0 /\ next_seq = 0
    /\ cursor = [c \in Cursors |-> [seq |-> 0, position |-> 0]]
    /\ append = Idle
    /\ panic = "none"
    /\ failed = FALSE
    /\ torn = FALSE

\* Slip: the end of the ring too short for a header is not skipped.
skip_marked(position) ==
    IF ring[position % Size].is = "padding" THEN position + Remaining(position) ELSE position

skip_padding(position) ==
    IF Remaining(position) < HeadSize \/ ring[position % Size].is = "padding"
    THEN position + Remaining(position)
    ELSE position

\* The record after the one at position.
After(position) ==
    LET start == skip_padding(position) IN start + record_footprint(ring[start % Size].size)

-------------------------------------------------------------------------------
(* append_locked *)

\* The padding in front of a record that would run over the end of the ring.
padding(size) == IF Remaining(ring_head) < record_footprint(size) THEN Remaining(ring_head) ELSE 0
Needed(size)  == padding(size) + record_footprint(size)
Free          == Size - (ring_head - ring_tail)

AppendStart(size) ==
    /\ append.at = "idle" /\ next_seq < MaxSeq /\ ~failed
    /\ append' = [at |-> "room", size |-> size, first |-> first_seq]
    /\ UNCHANGED <<ring, posVars, cursor, panic, failed, torn>>

\* drop_oldest_locked moves the tail, then first_seq.
DropOldest ==
    /\ append.at = "room" /\ Free < Needed(append.size)
    /\ ring_tail' = After(ring_tail)
    /\ append' = [append EXCEPT !.at = "dropped"]
    /\ UNCHANGED <<ring, ring_head, first_seq, next_seq, cursor, panic, failed, torn>>

CountDropped ==
    /\ append.at = "dropped"
    /\ first_seq' = first_seq + 1
    /\ append' = [append EXCEPT !.at = "room"]
    /\ UNCHANGED <<ring, ring_head, ring_tail, next_seq, cursor, panic, failed, torn>>

\* The marker and the header go in where no reader looks yet, then the text.
StartOf(size) == (ring_head + padding(size)) % Size

StoreHeader ==
    LET size == append.size IN
    /\ append.at = "room" /\ Free >= Needed(append.size)
    /\ ring' = [i \in 0..Size-1 |->
           CASE i = StartOf(size) -> Half(next_seq, size)
             [] i # StartOf(size) /\ padding(size) >= HeadSize /\ i = ring_head % Size -> Padding
             [] OTHER -> ring[i]]
    /\ append' = [append EXCEPT !.at = "header"]
    /\ UNCHANGED <<posVars, cursor, panic, failed, torn>>

TextUnits(start, size) == start + 1 .. start + record_footprint(size) - 1

StoreText ==
    LET start == StartOf(append.size) IN
    /\ append.at = "header"
    /\ ring' = [i \in 0..Size-1 |->
           CASE i = start -> Head(next_seq, append.size)
             [] i \in TextUnits(start, append.size) -> Text(next_seq)
             [] OTHER -> ring[i]]
    /\ append' = [append EXCEPT !.at = "stored"]
    /\ UNCHANGED <<posVars, cursor, panic, failed, torn>>

MoveHead ==
    /\ append.at = "stored"
    /\ ring_head' = ring_head + Needed(append.size)
    /\ append' = [append EXCEPT !.at = "moved"]
    /\ UNCHANGED <<ring, ring_tail, first_seq, next_seq, cursor, panic, failed, torn>>

\* Slip: a ring filled to its last unit is taken for an empty one.
AppendDoneFull ==
    /\ append.at = "moved"
    /\ next_seq' = next_seq + 1
    /\ ring_tail' = IF ring_head = ring_tail + Size THEN ring_head ELSE ring_tail
    /\ first_seq' = IF ring_head = ring_tail + Size THEN next_seq + 1 ELSE first_seq
    /\ append' = Idle
    /\ UNCHANGED <<ring, ring_head, cursor, panic, failed, torn>>

AppendDone ==
    /\ append.at = "moved"
    /\ next_seq' = next_seq + 1
    /\ append' = Idle
    /\ UNCHANGED <<ring, ring_head, ring_tail, first_seq, cursor, panic, failed, torn>>

-------------------------------------------------------------------------------
(* The readers, which take the lock unless a panic is in progress. *)
LockFree == append.at = "idle" /\ ~failed

Move(c, seq, position) ==
    /\ LockFree
    /\ cursor' = [cursor EXCEPT ![c] = [seq |-> seq, position |-> position]]
    /\ UNCHANGED <<ring, posVars, append, panic>>

KprintfSeekFirst(c) == Move(c, first_seq, ring_tail) /\ UNCHANGED <<failed, torn>>
KprintfSeekEnd(c)   == Move(c, next_seq, ring_head) /\ UNCHANGED <<failed, torn>>

\* The walk from the tail to the record numbered seq, which is a walk of no steps
\* for one that was dropped; what is past the record to come is refused.
PositionOf(seq) ==
    LET walk[n \in 0..MaxSeq] == IF n = 0 THEN ring_tail ELSE After(walk[n - 1])
    IN  walk[IF seq < first_seq THEN 0 ELSE seq - first_seq]

KprintfSeekSeq(c, seq) ==
    /\ seq <= next_seq /\ panic = "none"          \* called for /dev/kplog only
    /\ Move(c, seq, PositionOf(seq))
    /\ UNCHANGED <<failed, torn>>

\* Where kprintf_read looks: a record that was dropped gives way to the oldest.
From(c) == IF cursor[c].seq < first_seq THEN [seq |-> first_seq, position |-> ring_tail]
                                        ELSE cursor[c]

KprintfRead(c) ==
    LET from     == From(c)
        found    == from.seq < next_seq
        position == skip_padding(from.position)
        record   == ring[position % Size]
        fails    == found /\ record.seq # from.seq
    IN  /\ IF found /\ ~fails
           THEN Move(c, record.seq + 1, position + record_footprint(record.size))
           ELSE Move(c, from.seq, from.position)
        /\ failed' = fails
        /\ torn' = (torn \/ (found /\ record.is = "half"))

-------------------------------------------------------------------------------
\* stop_other_harts stops the hart that appends; it never goes on, and the
\* panicking hart appends and reads as if nothing was held.
Panic ==
    /\ CanPanic /\ panic = "none"
    /\ panic' = append.at
    /\ append' = Idle
    /\ UNCHANGED <<ring, posVars, cursor, failed, torn>>

AppendStep == DropOldest \/ CountDropped \/ StoreHeader \/ StoreText \/ MoveHead \/ AppendDone

Read(c) == KprintfSeekFirst(c) \/ KprintfSeekEnd(c) \/ KprintfRead(c)

Next == \/ \E size \in TextSizes : AppendStart(size)
        \/ AppendStep
        \/ \E c \in Cursors : Read(c) \/ \E seq \in 0..MaxSeq : KprintfSeekSeq(c, seq)
        \/ Panic

Spec == Init /\ [][Next]_vars

-------------------------------------------------------------------------------
\* Records by walking from the tail, as kprintf_seek_seq does.
Walk == [n \in 0 .. next_seq - first_seq |-> PositionOf(first_seq + n)]

\* The record at a position, whole: its header and its text, nothing written over.
Whole(position) ==
    LET record == ring[position % Size] IN
    /\ record.is = "head"
    /\ \A i \in 1 .. record_footprint(record.size) - 1 : ring[(position + i) % Size] = Text(record.seq)

TypeOK ==
    /\ ring_head \in Nat /\ ring_tail \in Nat /\ first_seq \in Nat /\ next_seq \in Nat
    /\ \A i \in 0..Size-1 : /\ ring[i].is \in {"head", "half", "padding", "text"}
                            /\ ring[i].seq \in 0..MaxSeq
                            /\ ring[i].size \in TextSizes \cup {0}
    /\ cursor \in [Cursors -> [seq : Nat, position : Nat]]
    /\ append.at \in {"idle", "room", "dropped", "header", "stored", "moved"}
    /\ panic \in {"none", "idle", "room", "dropped", "header", "stored", "moved"} /\ failed \in BOOLEAN /\ torn \in BOOLEAN
    /\ ring_tail <= ring_head /\ ring_head <= ring_tail + Size

\* A panic came neither between the move of ring_tail and the count of first_seq (kprintf.c:108)
\* nor between the move of ring_head and that of next_seq (kprintf.c:145).  After either the numbers
\* are one off: the oldest record has the number after first_seq, or the next one to be appended that
\* of the last, and a reader that gets there fails the kassert at kprintf.c:306.
NumbersAreRight == panic \notin {"dropped", "moved"}

\* "Records lie back to back between the tail and the head" (kprintf.c:38): with
\* nothing in progress, the walk from the tail meets every record the ring says it
\* holds, whole and in order, and ends at the head; also after a panic that left the
\* numbers right.
RecordsAreKept ==
    (append = Idle /\ NumbersAreRight) =>
        /\ \A n \in 0 .. next_seq - first_seq - 1 :
               LET position == skip_padding(Walk[n]) IN
               Whole(position) /\ ring[position % Size].seq = first_seq + n
        /\ Walk[next_seq - first_seq] = ring_head

\* "Byte position of the record numbered seq, while the ring holds it"
\* (kprintf.h, kp_cursor_s): appends, drops and other reads in between never leave
\* a cursor inside or behind another record, nor does a panic that left the numbers right.
CursorsStay ==
    (append = Idle /\ NumbersAreRight) => \A c \in Cursors :
        (first_seq <= cursor[c].seq /\ cursor[c].seq < next_seq) =>
            LET position == skip_padding(cursor[c].position) IN
            /\ ring_tail <= position
            /\ ring[position % Size].is = "head" /\ ring[position % Size].seq = cursor[c].seq

\* The kassert of kprintf_read (kprintf.c:306) holds, for the panicking hart too, unless the
\* panic left the numbers one off.
ReadsSucceed == failed => ~NumbersAreRight

\* "the head moves only once a record is whole, so a panic never reads one half
\* written" (kprintf.c:39): wherever a panic stops an append, no reader, before or
\* after, copies a record that has its header only.
NeverTorn == ~torn

\* The oldest record of the log, which changes when the lock is released.
LogFirst == IF append = Idle THEN first_seq ELSE append.first

Log == INSTANCE RecordLog WITH first_seq <- LogFirst, next_seq <- next_seq

\* The ring is a log of numbered records, where an append drops the oldest ones and
\* never the record it adds.
ImplementsRecordLog == Log!Spec
===============================================================================
