------------------------------- MODULE Regions -------------------------------
(* kernel/mm/vms.c: the sorted list of the regions of an address space, and      *)
(* place_mapping of proc/sys_mman.c.  Addresses are page numbers.  vmspace->lock *)
(* is held for the whole of a call but msync, which releases it while it waits   *)
(* for a file.  What happens to the pages is in Vms and CharDevice.              *)
EXTENDS Integers, Sequences, SequencesExt, FiniteSets, FiniteSetsExt

CONSTANTS UserEnd, MmapMin, MmapTop,
          NoFile, Absent,
          Backings,    \* what is mapped: records of vprot, file, offset, kind, may_write
          Does,        \* bound: the calls that are made
          MaxRegions   \* bound: calls that may add a region stop there

AddressesAssumption ==
    /\ 0 <= MmapMin /\ MmapMin < MmapTop /\ MmapTop <= UserEnd
    /\ \A b \in Backings : b.file = NoFile => b.offset = 0 /\ b.kind = "private" /\ b.may_write

VARIABLES regions,     \* sequence of backings with a start and an end
          call,        \* what is being returned from: its arguments, its retval, and whether slab_alloc failed
          sync         \* vms_sync: how far it is, and history: the files it has synced and
                       \* the pages that have been shared ones of the same file all the while

vars == <<regions, call, sync>>

NoSync == [pc |-> "idle", cursor |-> 0, end |-> 0, synced |-> {}, through |-> {}]

NoCall == [do |-> "none"]

Init == regions = <<>> /\ call = NoCall /\ sync = NoSync
-------------------------------------------------------------------------------
(* The list                                                                    *)

Has(r, virt) == r.start <= virt /\ virt < r.end
find_region(rs, virt) == {i \in DOMAIN rs : Has(rs[i], virt)}

\* What is mapped at virt, if something is
At(rs, virt) ==
    LET on == find_region(rs, virt)
        r  == rs[CHOOSE i \in on : TRUE]
    IN  IF on = {} THEN Absent
        ELSE [vprot |-> r.vprot, file |-> r.file, kind |-> r.kind, may_write |-> r.may_write,
              offset |-> IF r.file = NoFile THEN 0 ELSE r.offset + virt - r.start]

A == INSTANCE AddrMap WITH pages <- [virt \in 0 .. UserEnd - 1 |-> At(regions, virt)]

range_valid(start, end) == start < end /\ end <= UserEnd
range_free(rs, start, end) == \A i \in DOMAIN rs : rs[i].start < end => rs[i].end <= start

\* Each region in turn begins where the one before it ended, or there is a gap.
range_covered(rs, start, end) ==
    \E n \in 1 .. Len(rs) :
        \E i \in find_region(rs, start) :
            i + n - 1 <= Len(rs) /\ rs[i + n - 1].end >= end
                /\ \A j \in i + 1 .. i + n - 1 : rs[j].start = rs[j - 1].end

alloc_region(start, end, b) ==
    [start |-> start, end |-> end, vprot |-> b.vprot, file |-> b.file, offset |-> b.offset, kind |-> b.kind,
     may_write |-> b.may_write]

\* In front of the first that does not start below it
insert_region(rs, r) == InsertAt(rs, Cardinality({i \in DOMAIN rs : rs[i].start < r.start}) + 1, r)

\* Slip: the upper part is of the same place in the file.
SplitAtSame(rs, i, virt) == InsertAt([rs EXCEPT ![i].end = virt], i + 1, [rs[i] EXCEPT !.start = virt])

\* The upper part goes on in the file where the lower one ends.
SplitAt(rs, i, virt) ==
    InsertAt([rs EXCEPT ![i].end = virt], i + 1,
             [rs[i] EXCEPT !.start = virt, !.offset = IF rs[i].file = NoFile THEN 0 ELSE @ + virt - rs[i].start])

split_region(rs, virt) ==
    LET on == {i \in find_region(rs, virt) : rs[i].start # virt}
    IN  IF on = {} THEN rs ELSE SplitAt(rs, Max(on), virt)

unmap_locked(rs, start, end) == SelectSeq(rs, LAMBDA r : r.start >= end \/ r.start < start)

\* The gap in front of region i, or after the last one; the walk ends at the first that starts
\* at VMS_MMAP_TOP or above.
gap_start(rs, i) == Max({MmapMin} \cup {rs[j].end : j \in 1 .. i - 1})
gap_end(rs, i) == IF i \in DOMAIN rs /\ rs[i].start < MmapTop THEN rs[i].start ELSE MmapTop
find_highest_gap(rs, size) ==
    {i \in 1 .. Len(rs) + 1 : (\A j \in 1 .. i - 1 : rs[j].start < MmapTop) /\ gap_end(rs, i) - gap_start(rs, i) >= size}
-------------------------------------------------------------------------------
(* Calls: the sets of what they may leave and return                           *)

Outcome(rs, error, oom) == [list |-> rs, retval |-> error, short |-> oom]
Refused(error) == {Outcome(regions, error, FALSE)}
NoMemory == {Outcome(regions, A!ENOMEM, TRUE)}
Inserted(rs, start, end, b) == Outcome(insert_region(rs, alloc_region(start, end, b)), 0, FALSE)

\* The two splits of unmap_locked and vms_protect, of which either may find no memory
Split(start, end) ==
    LET low  == split_region(regions, start)
        both == split_region(low, end)
    IN  {Outcome(both, 0, FALSE)} \cup (IF low # regions THEN NoMemory ELSE {})
                                 \cup (IF both # low THEN {Outcome(low, A!ENOMEM, TRUE)} ELSE {})

vms_map(start, end, b) ==
    IF ~range_valid(start, end) THEN Refused(A!EINVAL)
    ELSE NoMemory \cup (IF range_free(regions, start, end) THEN {Inserted(regions, start, end, b)}
                        ELSE Refused(A!EEXIST))

vms_map_replace(start, end, b) ==
    IF ~range_valid(start, end) THEN Refused(A!EINVAL)
    ELSE NoMemory \cup {IF o.short THEN o ELSE Inserted(unmap_locked(o.list, start, end), start, end, b) :
                            o \in Split(start, end)}

vms_map_any(size, b) ==
    LET gaps  == find_highest_gap(regions, size)
        start == gap_end(regions, Max(gaps)) - size
    IN  NoMemory \cup (IF gaps = {} THEN Refused(A!ENOMEM) ELSE {Inserted(regions, start, start + size, b)})

vms_unmap(start, end) ==
    IF ~range_valid(start, end) THEN Refused(A!EINVAL)
    ELSE {IF o.short THEN o ELSE [o EXCEPT !.list = unmap_locked(@, start, end)] : o \in Split(start, end)}

Touches(r, start, end) == r.start < end /\ r.end > start
Reprotected(rs, start, end, vprot) ==
    [i \in DOMAIN rs |-> IF Touches(rs[i], start, end) THEN [rs[i] EXCEPT !.vprot = vprot] ELSE rs[i]]

vms_protect(start, end, vprot) ==
    IF ~range_valid(start, end) THEN Refused(A!EINVAL)
    ELSE IF ~range_covered(regions, start, end) THEN Refused(A!ENOMEM)
    ELSE IF vprot = "rw" /\ \E i \in DOMAIN regions : Touches(regions[i], start, end) /\ ~regions[i].may_write
    THEN Refused(A!EACCES)
    ELSE {IF o.short THEN o ELSE [o EXCEPT !.list = Reprotected(@, start, end, vprot)] : o \in Split(start, end)}

\* Page p is still a shared one of the same file.
Stays(p, rs) ==
    At(rs, p) # Absent /\ At(rs, p).kind = "shared" /\ At(rs, p).file = At(regions, p).file

Call(do, start, end, with, outcomes) ==
    /\ do \in Does /\ call = NoCall
    /\ \E o \in outcomes :
          /\ regions' = o.list
          /\ call' = [do |-> do, start |-> start, end |-> end, with |-> with, retval |-> o.retval, short |-> o.short]
          /\ sync' = [sync EXCEPT !.through = {p \in @ : Stays(p, o.list)}]

Return == call # NoCall /\ call' = NoCall /\ UNCHANGED <<regions, sync>>

\* place_mapping of mmap: vms_map_replace with MAP_FIXED; otherwise vms_map at the hint, and
\* vms_map_any when that fails or there is no hint.
Mmap(start, end, b) ==
    /\ Len(regions) < MaxRegions
    /\ \/ Call("replace", start, end, b, vms_map_replace(start, end, b))
       \/ Call("map", start, end, b, vms_map(start, end, b))
       \/ start < end /\ Call("any", 0, end - start, b, vms_map_any(end - start, b))

Munmap(start, end) == Call("unmap", start, end, NoFile, vms_unmap(start, end))

Mprotect(start, end, vprot) ==
    /\ Len(regions) < MaxRegions
    /\ Call("protect", start, end, vprot, vms_protect(start, end, vprot))

\* vms_sync with wait: it looks for the next file with the lock held, and syncs it without.
Sync(start, end) ==
    /\ sync.pc = "idle" /\ "sync" \in Does /\ call = NoCall
    /\ range_valid(start, end) /\ range_covered(regions, start, end)
    /\ sync' = [pc |-> "walk", cursor |-> start, end |-> end, synced |-> {},
                through |-> {p \in start .. end - 1 : At(regions, p).kind = "shared"}]
    /\ UNCHANGED <<regions, call>>

\* Slip: the cursor is where the next region begins.
PastStart(cursor) == {i \in DOMAIN regions : regions[i].start < sync.end /\ regions[i].start >= cursor}

Past(cursor) == {i \in DOMAIN regions : regions[i].start < sync.end /\ regions[i].end > cursor}

SyncWalk ==
    LET shared == {i \in Past(sync.cursor) : regions[i].kind = "shared"}
        next   == regions[Min(shared)]
    IN  /\ sync.pc = "walk" /\ call = NoCall
        /\ sync' = IF sync.cursor < sync.end /\ shared # {}
                   THEN [sync EXCEPT !.cursor = next.end, !.synced = @ \cup {next.file}]
                   ELSE [sync EXCEPT !.pc = "done"]
        /\ UNCHANGED <<regions, call>>

SyncReturn ==
    /\ sync.pc = "done" /\ call = NoCall
    /\ sync' = NoSync
    /\ UNCHANGED <<regions, call>>

Next ==
    \/ \E start \in 0 .. UserEnd - 1, end \in 0 .. UserEnd + 1 :
          \/ \E b \in Backings : Mmap(start, end, b)
          \/ Munmap(start, end)
          \/ \E vprot \in {"ro", "rw"} : Mprotect(start, end, vprot)
          \/ Sync(start, end)
    \/ Return \/ SyncWalk \/ SyncReturn

Spec == Init /\ [][Next]_vars
-------------------------------------------------------------------------------
\* insert_region, split_region: the regions are sorted, none is empty and no two overlap.
RegionsTypeOK ==
    /\ \A i \in DOMAIN regions : 0 <= regions[i].start /\ regions[i].start < regions[i].end /\ regions[i].end <= UserEnd
    /\ \A i \in DOMAIN regions : i > 1 => regions[i - 1].end <= regions[i].start

\* vms_map, vms_map_replace, vms_map_any, vms_unmap and vms_protect do to every page what AddrMap
\* says and return what it says, whatever the regions are and whichever allocation fails.
ImplementsAddrMap == A!Spec

\* vms_sync lets other calls split, protect and replace regions in between: when it returns, the
\* file of each page that stayed mapped has been synced.
SyncReachesAll ==
    sync.pc = "done" => \A p \in sync.through : At(regions, p).file \in sync.synced
===============================================================================
