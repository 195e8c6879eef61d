------------------------------- MODULE AddrMap -------------------------------
(* What the calls of include/vex/vms.h promise of an address space: a page is    *)
(* unmapped, or has an access and stands for a page of a file or for memory of   *)
(* its own.  A call makes all of its change or none.                             *)
EXTENDS Integers, FiniteSetsExt

CONSTANTS UserEnd, MmapMin, MmapTop,  \* in pages
          NoFile, Absent

VARIABLES pages,       \* [0 .. UserEnd - 1 -> Absent or what is mapped there]
          call         \* the call that returns: its arguments, what it returns, and whether it
                       \* found no memory for what it keeps

vars == <<pages, call>>

EINVAL == -226
ENOMEM == -247
EEXIST == -219
EACCES == -202

Pages == 0 .. UserEnd - 1
Valid(start, end) == start < end /\ end <= UserEnd
Empty(start, end) == \A p \in start .. end - 1 : pages[p] = Absent
Fits(size, start) == start >= MmapMin /\ start + size <= MmapTop /\ Empty(start, start + size)
Places(size) == {start \in Pages : Fits(size, start)}

\* What page p has in a range from start on that stands for b
Backed(b, start, p) == [b EXCEPT !.offset = IF b.file = NoFile THEN 0 ELSE @ + p - start]
Put(start, end, b) == [p \in Pages |-> IF p \in start .. end - 1 THEN Backed(b, start, p) ELSE pages[p]]

Succeeds(new) == pages' = new /\ call'.retval = 0
Refuses(error) == UNCHANGED pages /\ call'.retval = error
NoMemory == call'.short /\ Refuses(ENOMEM)

Map(start, end, b) ==
    \/ Valid(start, end) /\ Empty(start, end) /\ Succeeds(Put(start, end, b))
    \/ Valid(start, end) /\ ~Empty(start, end) /\ Refuses(EEXIST)
    \/ ~Valid(start, end) /\ Refuses(EINVAL)
    \/ NoMemory

MapReplace(start, end, b) ==
    \/ Valid(start, end) /\ Succeeds(Put(start, end, b))
    \/ ~Valid(start, end) /\ Refuses(EINVAL)
    \/ NoMemory

\* As high as it fits
MapAny(size, b) ==
    \/ /\ Places(size) # {}
       /\ Succeeds(Put(Max(Places(size)), Max(Places(size)) + size, b))
    \/ Places(size) = {} /\ Refuses(ENOMEM)
    \/ NoMemory

Unmap(start, end) ==
    \/ Valid(start, end) /\ Succeeds([p \in Pages |-> IF p \in start .. end - 1 THEN Absent ELSE pages[p]])
    \/ ~Valid(start, end) /\ Refuses(EINVAL)
    \/ NoMemory

Protect(start, end, vprot) ==
    LET asked == start .. end - 1
        covered == \A p \in asked : pages[p] # Absent
        allowed == vprot = "rw" => \A p \in asked : pages[p].may_write
    IN  \/ /\ Valid(start, end) /\ covered /\ allowed
           /\ Succeeds([p \in Pages |-> IF p \in asked THEN [pages[p] EXCEPT !.vprot = vprot] ELSE pages[p]])
        \/ Valid(start, end) /\ covered /\ ~allowed /\ Refuses(EACCES)
        \/ Valid(start, end) /\ ~covered /\ Refuses(ENOMEM)
        \/ ~Valid(start, end) /\ Refuses(EINVAL)
        \/ NoMemory

Init == pages = [p \in Pages |-> Absent]

Next ==
    \/ call'.do = "map" /\ Map(call'.start, call'.end, call'.with)
    \/ call'.do = "replace" /\ MapReplace(call'.start, call'.end, call'.with)
    \/ call'.do = "any" /\ MapAny(call'.end - call'.start, call'.with)
    \/ call'.do = "unmap" /\ Unmap(call'.start, call'.end)
    \/ call'.do = "protect" /\ Protect(call'.start, call'.end, call'.with)
    \/ call'.do = "none" /\ UNCHANGED pages

Spec == Init /\ [][Next]_vars
===============================================================================
