------------------------------- MODULE Fcache -------------------------------
(* kernel/fs/fcache.c: the cached pages of one file, or of a device with the    *)
(* structures of a file system on it, with the mapping of the file in one       *)
(* address space (rmap.c, and vms_copyout, which writes to a pinned page).      *)
(*                                                                             *)
(* cache->lock is held from one step to the next; what is done under it and     *)
(* only interferes with calls that need it is one step.  Every call but the    *)
(* write-back of a device comes with the lock of the file system.  A write is   *)
(* of one page; one of several is a series of them.  Sizes are in sectors,      *)
(* sectors are allocated one by one, and a sector holds one value.  The second  *)
(* chance of an accessed page only decides what is reclaimed first.             *)
EXTENDS Integers, FiniteSets, FiniteSetsExt

CONSTANTS Callers, None,
          NumPages, PageSize,   \* in sectors
          Values, Stores,       \* what calls and programs write, other than 0
          Other,                \* what others leave on the sectors they are given
          IsDevice,
          Does                  \* bound: [Callers -> the calls each makes]

Pages == 0 .. NumPages - 1
Sectors == 0 .. NumPages * PageSize - 1
PageOf(s) == s \div PageSize
SectorsOf(p) == {s \in Sectors : PageOf(s) = p}

FileAssumption ==
    /\ NumPages \in Nat \ {0} /\ PageSize \in Nat \ {0}
    /\ 0 \notin Values \cup Stores /\ Other \notin Values \cup Stores \cup {0}
CallersAssumption == None \notin Callers /\ IsDevice \in BOOLEAN /\ DOMAIN Does = Callers

VARIABLES disk, alloc,          \* [Sectors -> a value], and those that are the file's
          size,
          tree, uptodate, dirty, \* sets of pages, the last two by the flags of their frames
          data,                 \* [Sectors -> what the cached page has, or 0]
          dirty_sectors, num_dirty, queued,
          lock, fs_lock,        \* their holders
          pmap, tlb,            \* [Pages -> "none", "ro" or "rw"]: the page table, and what harts may use
          leaving,              \* [Pages -> "no", "cached" or "orphan"]: of the frame a program unmaps
          pc, op,               \* [Callers -> where it is, and in what call]
          file,                 \* history: [Sectors -> what was last written]
          loose,                \* history: the sectors of which nothing is promised
          forgotten,            \* history: the sectors of a device that were given to others
          failed                \* history: the pages that could not be written

diskVars == <<disk, alloc, size>>
pageVars == <<tree, uptodate, dirty, data, dirty_sectors, num_dirty, queued>>
lockVars == <<lock, fs_lock>>
mapVars  == <<pmap, tlb, leaving>>
callVars == <<pc, op>>
histVars == <<file, loose, forgotten, failed>>
vars == <<diskVars, pageVars, lockVars, mapVars, callVars, histVars>>

NoCall == [do |-> "none", page |-> 0, span |-> {}, value |-> 0, then |-> "end", wb |-> 0]

Init ==
    /\ disk = [s \in Sectors |-> IF IsDevice THEN 0 ELSE Other]
    /\ alloc = (IF IsDevice THEN Sectors ELSE {})
    /\ size = IF IsDevice THEN NumPages * PageSize ELSE 0
    /\ tree = {} /\ uptodate = {} /\ dirty = {}
    /\ data = [s \in Sectors |-> 0] /\ dirty_sectors = {} /\ num_dirty = 0 /\ queued = FALSE
    /\ lock = None /\ fs_lock = None
    /\ pmap = [p \in Pages |-> "none"] /\ tlb = [p \in Pages |-> "none"]
    /\ leaving = [p \in Pages |-> "no"]
    /\ pc = [c \in Callers |-> "idle"] /\ op = [c \in Callers |-> NoCall]
    /\ file = [s \in Sectors |-> 0]
    /\ loose = {} /\ forgotten = {} /\ failed = {}

At(c, where) == pc' = [pc EXCEPT ![c] = where]
Valid(p) == {s \in SectorsOf(p) : s < size}
Writes(o) == o.do \in {"write", "wfault", "copyout"}

Release(c) == lock' = None /\ fs_lock' = IF fs_lock = c THEN None ELSE fs_lock
Idle(c) == At(c, "idle") /\ op' = [op EXCEPT ![c] = NoCall]

\* The call is over; that of vms_copyout goes on with the page.
Return(c) ==
    /\ Release(c)
    /\ IF op[c].do = "copyout" THEN At(c, "faulted") /\ UNCHANGED op ELSE Idle(c)

\* A writer over the limit of dirty pages pays with its own, whether it failed or not.
Pays(c) ==
    /\ op[c].do = "write"
    /\ lock' = c /\ UNCHANGED fs_lock
    /\ op' = [op EXCEPT ![c].then = "end"] /\ At(c, "scan")

GivesUp(c) == (Release(c) /\ Idle(c)) \/ Pays(c)
-------------------------------------------------------------------------------
(* Beginning a call                                                            *)

\* cache->lock, and the lock of the file system around it.
Acquire(c, alone) ==
    /\ lock = None /\ lock' = c
    /\ IF alone THEN UNCHANGED fs_lock ELSE fs_lock = None /\ fs_lock' = c

\* The lock of the address space is held across its faults and copies.
VmsHeld ==
    \/ \E c \in Callers : op[c].do \in {"fault", "wfault", "copyout"}
    \/ \E p \in Pages : leaving[p] # "no"

\* fcache_read, fcache_write, fcache_fault, up to get_page.  A write fault over the limit of
\* dirty pages starts with write-back.
Begin(c, o) ==
    /\ pc[c] = "idle" /\ o.do \in Does[c]
    /\ CASE o.do = "read"  -> Valid(o.page) # {}
         [] o.do = "write" -> Min(o.span) <= size
         [] o.do = "fault" -> Valid(o.page) # {} /\ ~VmsHeld /\ pmap[o.page] = "none"
         [] OTHER          -> Valid(o.page) # {} /\ ~VmsHeld /\ (o.do = "copyout" \/ pmap[o.page] # "rw")
    /\ Acquire(c, FALSE)
    /\ \/ At(c, "get") /\ op' = [op EXCEPT ![c] = o]
       \/ o.do \in {"wfault", "copyout"} /\ At(c, "scan") /\ op' = [op EXCEPT ![c] = [o EXCEPT !.then = "get"]]
    /\ UNCHANGED <<diskVars, pageVars, mapVars, histVars>>

\* fcache_writeback: fsync, with the lock of the file system unless it is for the device.
Fsync(c) ==
    /\ \/ pc[c] = "idle" /\ "fsync" \in Does[c] /\ op' = [op EXCEPT ![c].do = "fsync"]
       \/ pc[c] = "picked" /\ UNCHANGED op
    /\ Acquire(c, IsDevice)
    /\ At(c, "scan")
    /\ UNCHANGED <<diskVars, pageVars, mapVars, histVars>>

\* fcache_sync takes the file off the list of dirty ones first.
Pick(c) ==
    /\ pc[c] = "idle" /\ "sync" \in Does[c] /\ queued
    /\ queued' = FALSE
    /\ op' = [op EXCEPT ![c].do = "sync"]
    /\ At(c, "picked")
    /\ UNCHANGED <<diskVars, tree, uptodate, dirty, data, dirty_sectors, num_dirty, lockVars, mapVars, histVars>>
-------------------------------------------------------------------------------
(* Pages                                                                       *)

\* Slip: only the first dirty page of a file puts it on the list.
MarkDirtyFirst(p, span) ==
    /\ dirty_sectors' = dirty_sectors \cup span
    /\ dirty' = dirty \cup {p}
    /\ num_dirty' = IF p \in dirty THEN num_dirty ELSE num_dirty + 1
    /\ queued' = (queued \/ num_dirty = 0)

\* mark_dirty and mark_clean
MarkDirty(p, span) ==
    /\ dirty_sectors' = dirty_sectors \cup span
    /\ dirty' = dirty \cup {p}
    /\ num_dirty' = IF p \in dirty THEN num_dirty ELSE num_dirty + 1
    /\ queued' = (queued \/ p \notin dirty)

MarkClean(p) ==
    /\ dirty_sectors' = IF p \in dirty THEN dirty_sectors \ SectorsOf(p) ELSE dirty_sectors
    /\ dirty' = dirty \ {p}
    /\ num_dirty' = IF p \in dirty THEN num_dirty - 1 ELSE num_dirty

\* The pages leave the tree and their frames the cache.
Drop(ps) ==
    /\ tree' = tree \ ps /\ uptodate' = uptodate \ ps
    /\ data' = [s \in Sectors |-> IF PageOf(s) \in ps THEN 0 ELSE data[s]]

\* get_page: the lock is dropped to allocate.
GetPage(c) ==
    /\ pc[c] = "get"
    /\ \/ op[c].page \in tree /\ At(c, "use") /\ UNCHANGED lock
       \/ op[c].page \notin tree /\ At(c, "alloc") /\ lock' = None
    /\ UNCHANGED <<diskVars, pageVars, fs_lock, mapVars, op, histVars>>

\* get_page again, and add_page if nobody else has added it.
AddPage(c) ==
    /\ pc[c] = "alloc" /\ lock = None
    /\ lock' = c
    /\ tree' = tree \cup {op[c].page}
    /\ At(c, "use")
    /\ UNCHANGED <<diskVars, uptodate, dirty, data, dirty_sectors, num_dirty, queued, fs_lock, mapVars, op, histVars>>

\* There is no memory; a write makes some reclaimable, once, and tries again.
NoPage(c) ==
    /\ pc[c] = "alloc" /\ lock = None
    /\ \/ /\ op[c].do = "write" /\ num_dirty > 0 /\ op[c].then = "end"
          /\ lock' = c /\ UNCHANGED fs_lock
          /\ op' = [op EXCEPT ![c].then = "get"] /\ At(c, "scan")
       \/ /\ op[c].do # "write" \/ num_dirty = 0 \/ op[c].then = "get"
          /\ GivesUp(c)
    /\ UNCHANGED <<diskVars, pageVars, mapVars, histVars>>

\* fill_page, or a whole page that needs none.
NeedsFill(o) == o.page \notin uptodate /\ ~(o.do = "write" /\ o.span = SectorsOf(o.page))

Fill(c) ==
    /\ pc[c] = "use" /\ NeedsFill(op[c])
    /\ data' = [s \in Sectors |-> IF PageOf(s) # op[c].page THEN data[s]
                                  ELSE IF s \in Valid(op[c].page) \cap alloc THEN disk[s] ELSE 0]
    /\ uptodate' = uptodate \cup {op[c].page}
    /\ UNCHANGED <<diskVars, tree, dirty, dirty_sectors, num_dirty, queued, lockVars, mapVars, callVars, histVars>>

\* A failed call with its page: remove_page of one that holds nothing yet.
Fails(c) ==
    /\ Drop({op[c].page} \ uptodate)
    /\ GivesUp(c)

FillFails(c) ==
    /\ pc[c] = "use" /\ NeedsFill(op[c])
    /\ Fails(c)
    /\ UNCHANGED <<diskVars, dirty, dirty_sectors, num_dirty, queued, mapVars, histVars>>

Span(o) == IF o.do = "write" THEN o.span ELSE Valid(o.page)

\* allocate_span stops at a sector there is no room for, and keeps those before it, which
\* hold what they held.
NoSpace(c) ==
    /\ pc[c] = "use" /\ ~NeedsFill(op[c]) /\ Writes(op[c])
    /\ \E stop \in Span(op[c]) \ alloc :
          LET taken == {s \in Span(op[c]) \ alloc : s < stop}
          IN  alloc' = alloc \cup taken /\ loose' = loose \cup taken
    /\ Fails(c)
    /\ UNCHANGED <<disk, size, dirty, dirty_sectors, num_dirty, queued, mapVars, file, forgotten, failed>>

ReadPage(c) ==
    /\ pc[c] = "use" /\ ~NeedsFill(op[c]) /\ op[c].do = "read"
    /\ Return(c)
    /\ UNCHANGED <<diskVars, pageVars, mapVars, histVars>>

\* fcache_write, and the writer of a file makes it longer; over the limit, write-back follows.
WritePage(c) ==
    LET o == op[c]
    IN  /\ pc[c] = "use" /\ ~NeedsFill(o) /\ o.do = "write"
        /\ alloc' = alloc \cup o.span
        /\ data' = [s \in Sectors |-> IF s \in o.span THEN o.value ELSE data[s]]
        /\ uptodate' = uptodate \cup {o.page}
        /\ MarkDirty(o.page, o.span)
        /\ size' = Max({size, Max(o.span) + 1})
        /\ file' = [s \in Sectors |-> IF s \in o.span THEN o.value ELSE file[s]]
        /\ loose' = loose \ o.span
        /\ forgotten' = forgotten \ o.span
        /\ Return(c) \/ Pays(c)
        /\ UNCHANGED <<disk, tree, mapVars, failed>>

\* fcache_fault for reading, and for writing: the valid sectors are allocated and dirty.  There
\* may be no memory for a new mapping.
Maps(p, vprot) == pmap' = [pmap EXCEPT ![p] = vprot] \/ (pmap[p] = "none" /\ UNCHANGED pmap)

FaultRead(c) ==
    /\ pc[c] = "use" /\ ~NeedsFill(op[c]) /\ op[c].do = "fault"
    /\ Maps(op[c].page, "ro")
    /\ Return(c)
    /\ UNCHANGED <<diskVars, pageVars, tlb, leaving, histVars>>

FaultWrite(c) ==
    LET p == op[c].page
    IN  /\ pc[c] = "use" /\ ~NeedsFill(op[c]) /\ op[c].do \in {"wfault", "copyout"}
        /\ alloc' = alloc \cup Valid(p)
        /\ MarkDirty(p, Valid(p))
        /\ Maps(p, "rw")
        /\ Return(c)
        /\ UNCHANGED <<disk, size, tree, uptodate, data, tlb, leaving, histVars>>
-------------------------------------------------------------------------------
(* writeback_locked                                                            *)

\* Slip: the harts keep their translations.
ScanNoShoot(c) ==
    LET left == {p \in dirty : p >= op[c].wb}
        p    == Min(left)
    IN  /\ pc[c] = "scan"
        /\ \/ /\ left = {}
              /\ \/ op[c].then = "get" /\ At(c, "get") /\ op' = [op EXCEPT ![c].wb = 0] /\ UNCHANGED lockVars
                 \/ op[c].then = "end" /\ Return(c)
              /\ UNCHANGED pmap
           \/ /\ left # {}
              /\ op' = [op EXCEPT ![c].wb = p]
              /\ \/ pmap[p] = "rw" /\ pmap' = [pmap EXCEPT ![p] = "ro"] /\ At(c, "write")
                 \/ pmap[p] # "rw" /\ UNCHANGED pmap /\ At(c, "write")
              /\ UNCHANGED lockVars
        /\ UNCHANGED <<diskVars, pageVars, tlb, leaving, histVars>>

\* The next dirty page loses its write access, in the page table and then on the harts.
Scan(c) ==
    LET left == {p \in dirty : p >= op[c].wb}
        p    == Min(left)
    IN  /\ pc[c] = "scan"
        /\ \/ /\ left = {}
              /\ \/ op[c].then = "get" /\ At(c, "get") /\ op' = [op EXCEPT ![c].wb = 0] /\ UNCHANGED lockVars
                 \/ op[c].then = "end" /\ Return(c)
              /\ UNCHANGED pmap
           \/ /\ left # {}
              /\ op' = [op EXCEPT ![c].wb = p]
              /\ \/ pmap[p] = "rw" /\ pmap' = [pmap EXCEPT ![p] = "ro"] /\ At(c, "shoot")
                 \/ pmap[p] # "rw" /\ UNCHANGED pmap /\ At(c, "write")
              /\ UNCHANGED lockVars
        /\ UNCHANGED <<diskVars, pageVars, tlb, leaving, histVars>>

Shoot(c) ==
    /\ pc[c] = "shoot"
    /\ tlb' = [tlb EXCEPT ![op[c].wb] = IF @ = "rw" THEN "ro" ELSE @]
    /\ At(c, "write")
    /\ UNCHANGED <<diskVars, pageVars, lockVars, pmap, leaving, op, histVars>>

\* write_page, to the end or to an error.  A hole stays a hole.
WritesBack(p, done) == disk' = [s \in Sectors |-> IF s \in done THEN data[s] ELSE disk[s]]
ToWrite(p) == dirty_sectors \cap Valid(p) \cap alloc

WriteBack(c) ==
    /\ pc[c] = "write"
    /\ WritesBack(op[c].wb, ToWrite(op[c].wb))
    /\ At(c, "clean")
    /\ UNCHANGED <<alloc, size, pageVars, lockVars, mapVars, op, histVars>>

WriteFails(c) ==
    /\ pc[c] = "write"
    /\ \E stop \in ToWrite(op[c].wb) : WritesBack(op[c].wb, {s \in ToWrite(op[c].wb) : s < stop})
    /\ failed' = failed \cup {op[c].wb}
    /\ op' = [op EXCEPT ![c].wb = @ + 1] /\ At(c, "scan")
    /\ UNCHANGED <<alloc, size, pageVars, lockVars, mapVars, file, loose, forgotten>>

Clean(c) ==
    /\ pc[c] = "clean"
    /\ MarkClean(op[c].wb)
    /\ failed' = failed \ {op[c].wb}
    /\ op' = [op EXCEPT ![c].wb = @ + 1] /\ At(c, "scan")
    /\ UNCHANGED <<diskVars, tree, uptodate, data, queued, lockVars, mapVars, file, loose, forgotten>>
-------------------------------------------------------------------------------
(* Truncation, reclaim, forgetting                                             *)

\* A file system shrinks a file.
Cut(c, to) ==
    /\ pc[c] = "idle" /\ "cut" \in Does[c] /\ to < size
    /\ Acquire(c, FALSE)
    /\ op' = [op EXCEPT ![c] = [NoCall EXCEPT !.do = "cut", !.page = (to + PageSize - 1) \div PageSize, !.value = to]]
    /\ At(c, "cut")
    /\ UNCHANGED <<diskVars, pageVars, mapVars, histVars>>

\* fcache_truncate: remove_page, with the shootdown before the frame is let go.
CutPage(c) ==
    \E p \in tree :
        /\ pc[c] = "cut" /\ p >= op[c].page
        /\ Drop({p})
        /\ MarkClean(p)
        /\ pmap' = [pmap EXCEPT ![p] = "none"]
        /\ leaving' = [leaving EXCEPT ![p] = IF @ = "no" THEN "no" ELSE "orphan"]
        /\ At(c, IF pmap[p] = "none" THEN "cut" ELSE "cutshoot")
        /\ op' = [k \in Callers |-> IF k = c THEN [op[k] EXCEPT !.wb = p]
                                    ELSE IF pc[k] = "pinned" /\ op[k].page = p THEN [op[k] EXCEPT !.then = "orphan"]
                                    ELSE op[k]]
        /\ failed' = failed \ {p}
        /\ UNCHANGED <<diskVars, queued, lockVars, tlb, file, loose, forgotten>>

CutShoot(c) ==
    /\ pc[c] = "cutshoot"
    /\ tlb' = [tlb EXCEPT ![op[c].wb] = "none"]
    /\ At(c, "cut")
    /\ UNCHANGED <<diskVars, pageVars, lockVars, pmap, leaving, op, histVars>>

\* The end of the last page is cleared, then the file system gives up its sectors.
CutTail(c) ==
    LET to == op[c].value
    IN  /\ pc[c] = "cut" /\ \A p \in tree : p < op[c].page
        /\ data' = [s \in Sectors |-> IF s >= to THEN 0 ELSE data[s]]
        /\ alloc' = {s \in alloc : s < to}
        /\ disk' = [s \in Sectors |-> IF s >= to THEN Other ELSE disk[s]]
        /\ size' = to
        /\ file' = [s \in Sectors |-> IF s >= to THEN 0 ELSE file[s]]
        /\ loose' = {s \in loose : s < to}
        /\ Return(c)
        /\ UNCHANGED <<tree, uptodate, dirty, dirty_sectors, num_dirty, queued, mapVars, forgotten, failed>>

\* A file system makes a file longer and writes nothing.
Grow(c, to) ==
    /\ pc[c] = "idle" /\ "grow" \in Does[c] /\ to > size
    /\ fs_lock = None
    /\ size' = to
    /\ UNCHANGED <<disk, alloc, pageVars, lockVars, mapVars, callVars, histVars>>

\* fcache_forget: the file system has given a sector of the device to somebody else.
Forget(c, s) ==
    LET left == dirty_sectors \ {s}
        p    == PageOf(s)
    IN  /\ pc[c] = "idle" /\ "forget" \in Does[c] /\ fs_lock = None /\ lock = None
        /\ IF p \in tree /\ left \cap SectorsOf(p) = {} THEN MarkClean(p)
           ELSE dirty_sectors' = (IF p \in tree THEN left ELSE dirty_sectors) /\ UNCHANGED <<dirty, num_dirty>>
        /\ disk' = [disk EXCEPT ![s] = Other]
        /\ forgotten' = forgotten \cup {s} /\ loose' = loose \cup {s}
        /\ UNCHANGED <<alloc, size, tree, uptodate, data, queued, lockVars, mapVars, callVars, file, failed>>

\* fcache_reclaim, by whoever allocates.
Reclaim(p) ==
    /\ lock = None
    /\ p \in tree \ dirty /\ pmap[p] = "none" /\ leaving[p] # "cached"
    /\ \A c \in Callers : ~(pc[c] = "pinned" /\ op[c].page = p /\ op[c].then # "orphan")
    /\ Drop({p})
    /\ UNCHANGED <<diskVars, dirty, dirty_sectors, num_dirty, queued, lockVars, mapVars, callVars, histVars>>
-------------------------------------------------------------------------------
(* Writing without the cache                                                   *)

\* What is written past the end, or to a hole, is not promised to stay.
Puts(s, v, excused) ==
    /\ data' = [data EXCEPT ![s] = v]
    /\ file' = IF s < size THEN [file EXCEPT ![s] = v] ELSE file
    /\ loose' = IF s >= size \/ s \notin alloc \/ excused THEN loose \cup {s} ELSE loose

\* A hart looks the page up, and stores through what it found; what is stored in a frame the
\* cache no longer has changes nothing here.  Excused are a program that stores to what it is
\* unmapping, and a sector that the file did not have when the page was made writable.
TlbFill(p) ==
    /\ tlb[p] # pmap[p] /\ pmap[p] # "none" /\ tlb[p] # "rw"
    /\ tlb' = [tlb EXCEPT ![p] = pmap[p]]
    /\ UNCHANGED <<diskVars, pageVars, lockVars, pmap, leaving, callVars, histVars>>

Store(s, v) ==
    /\ tlb[PageOf(s)] = "rw"
    /\ PageOf(s) \in tree /\ leaving[PageOf(s)] # "orphan"
    /\ Puts(s, v, leaving[PageOf(s)] = "cached" \/ (PageOf(s) \in dirty /\ s \notin dirty_sectors))
    /\ UNCHANGED <<diskVars, tree, uptodate, dirty, dirty_sectors, num_dirty, queued, lockVars,
                   mapVars, callVars, forgotten, failed>>

\* vms_copyout: rmap_pin, or the fault again; the copy; the end of the pin.  Write-back does not
\* take a pin away: what is copied after it is excused.
Pin(c) ==
    /\ pc[c] = "faulted"
    /\ IF pmap[op[c].page] # "none" THEN At(c, "pinned") /\ UNCHANGED op
       ELSE At(c, "idle") /\ op' = [op EXCEPT ![c] = NoCall]
    /\ UNCHANGED <<diskVars, pageVars, lockVars, mapVars, histVars>>

Copy(c) ==
    LET s == Min(op[c].span)
    IN  /\ pc[c] = "pinned"
        /\ IF op[c].then = "orphan" THEN UNCHANGED <<data, file, loose>>
           ELSE Puts(s, op[c].value, \/ s \notin dirty_sectors
                                     \/ \E k \in Callers : pc[k] = "clean" /\ op[k].wb = PageOf(s))
        /\ At(c, "idle") /\ op' = [op EXCEPT ![c] = NoCall]
        /\ UNCHANGED <<diskVars, tree, uptodate, dirty, dirty_sectors, num_dirty, queued, lockVars,
                       mapVars, forgotten, failed>>

\* release_pages and free_batch: the page table, the harts, then the reference is put.
Unmap(p) ==
    /\ ~VmsHeld /\ pmap[p] # "none"
    /\ pmap' = [pmap EXCEPT ![p] = "none"]
    /\ leaving' = [leaving EXCEPT ![p] = "cached"]
    /\ UNCHANGED <<diskVars, pageVars, lockVars, tlb, callVars, histVars>>

Unmapped(p) ==
    /\ leaving[p] # "no"
    /\ tlb' = [tlb EXCEPT ![p] = "none"]
    /\ leaving' = [leaving EXCEPT ![p] = "no"]
    /\ UNCHANGED <<diskVars, pageVars, lockVars, pmap, callVars, histVars>>

Call(do, span, v) == [NoCall EXCEPT !.do = do, !.page = PageOf(Min(span)), !.span = span, !.value = v]
Spans == {{s} : s \in Sectors} \cup {SectorsOf(p) : p \in Pages}

Next ==
    \/ \E c \in Callers :
          \/ \E span \in Spans, v \in Values : \E do \in {"write", "copyout"} :
                (do = "write" \/ Cardinality(span) = 1) /\ Begin(c, Call(do, span, v))
          \/ \E p \in Pages, do \in {"read", "fault", "wfault"} : Begin(c, Call(do, SectorsOf(p), 0))
          \/ Fsync(c) \/ Pick(c) \/ GetPage(c) \/ AddPage(c) \/ NoPage(c) \/ Fill(c) \/ FillFails(c) \/ NoSpace(c)
          \/ ReadPage(c) \/ WritePage(c) \/ FaultRead(c) \/ FaultWrite(c)
          \/ Scan(c) \/ Shoot(c) \/ WriteBack(c) \/ WriteFails(c) \/ Clean(c)
          \/ CutPage(c) \/ CutShoot(c) \/ CutTail(c) \/ Pin(c) \/ Copy(c)
          \/ \E s \in Sectors : Cut(c, s) \/ Grow(c, s + 1) \/ Forget(c, s)
    \/ \E p \in Pages : Reclaim(p) \/ TlbFill(p) \/ Unmap(p) \/ Unmapped(p)
    \/ \E s \in Sectors, v \in Stores : Store(s, v)

Spec == Init /\ [][Next]_vars
-------------------------------------------------------------------------------
TypeOK ==
    /\ alloc \subseteq Sectors /\ dirty_sectors \subseteq Sectors /\ size \in 0 .. NumPages * PageSize
    /\ uptodate \subseteq tree /\ tree \subseteq Pages
    /\ num_dirty \in 0 .. NumPages /\ queued \in BOOLEAN
    /\ lock \in Callers \cup {None} /\ fs_lock \in Callers \cup {None}

\* What a reader gets of a sector.
Stored(s) == IF PageOf(s) \in uptodate THEN data[s] ELSE IF s \in alloc THEN disk[s] ELSE 0
Kept == IF \E c \in Callers : pc[c] \in {"cut", "cutshoot"} THEN op[fs_lock].value ELSE size

\* fcache_write, writeback_locked, fcache_reclaim, fcache_truncate: whatever is written back,
\* reclaimed, cut off or fails, a reader gets what was last written.
ContentIsKept == \A s \in Sectors \ loose : s < Kept => Stored(s) = file[s]

\* mark_dirty, mark_clean, queue_dirty, fcache_sync: the count is that of the dirty pages, and
\* a file with a dirty page is on the list, unless a sync has just taken it off, or the page
\* could not be written.
DirtyIsTracked ==
    /\ num_dirty = Cardinality(dirty) /\ dirty \subseteq uptodate
    /\ \A s \in dirty_sectors : PageOf(s) \in dirty
    /\ dirty \ failed # {} => queued \/ \E c \in Callers : op[c].do = "sync"

\* "Dirty pages past the new end must not reach clusters that are freed below" (fat_vnode.c:1064),
\* fcache_forget: a sector that was given to somebody else is not written.
OthersAreLeft == \A s \in Sectors : s \notin alloc \/ s \in forgotten => disk[s] = Other

\* remove_page and fcache_reclaim: no hart translates to a frame that was let go.
TranslatedIsCached ==
    \A p \in Pages : tlb[p] # "none" =>
        p \in tree \/ leaving[p] # "no" \/ \E c \in Callers : pc[c] = "cutshoot" /\ op[c].wb = p
===============================================================================
