--------------------------------- MODULE Vms ---------------------------------
(* kernel/mm/vms.c, rmap.c, pframe.c, pslab.c and remove_page of fcache.c: one   *)
(* private page of each address space, anonymous or of one page of a file, its   *)
(* frames and their references.                                                  *)
(*                                                                             *)
(* vmspace->lock is held while op[s] is not idle.  The lock of a frame only      *)
(* covers what is one step here: the list of a frame's mappings is the set of    *)
(* page table entries that have it.  cache->lock is held while the walker is     *)
(* not idle.  A shootdown purges every hart.                                     *)
EXTENDS Integers, FiniteSets, FiniteSetsExt

CONSTANTS Spaces,
          First,       \* the address space there is at first
          Frames, None,
          Values,
          Kinds,       \* bound: of regions that are mapped
          Does         \* bound: [Spaces -> the calls made in each]

SpacesAssumption == First \in Spaces /\ None \notin Frames /\ 0 \notin Values

VARIABLES live,        \* the address spaces that processes run in
          region,      \* [Spaces -> "none", "anonymous" or "file"]
          vprot,       \* [Spaces -> BOOLEAN], whether it may be written
          pmap,        \* [Spaces -> {} or {an entry}]
          tlb,         \* [Spaces -> the entries that harts may use]
          refcount,    \* [Frames -> Nat], 0 for a free one
          cached,      \* the frame with PFRAME_CACHE, or None
          mem,         \* [Frames -> what it holds]
          op,          \* [Spaces -> the call that has the lock]
          flush,       \* the spaces with a shootdown to be done after the lock is released
          pin,         \* [Spaces -> the frame of a vms_pin, or None]
          walker,      \* remove_page: where it is, and with which frame
          seen,        \* history: [Spaces -> what its program last stored, or was given]
          blurred      \* history: the spaces whose page a program stored to while vms_protect or
                       \* remove_page, which do not hold the lock then, had yet to purge it

spaceVars == <<live, region, vprot>>
frameVars == <<refcount, cached, mem>>
histVars  == <<seen, blurred>>
vars == <<spaceVars, pmap, tlb, frameVars, op, flush, pin, walker, histVars>>

NoOp == [do |-> "none", pc |-> "idle", frame |-> None, copy |-> None]
Entry(f, w) == [frame |-> f, write |-> w]
Free == {f \in Frames : refcount[f] = 0}
Mapped(f) == {s \in Spaces : \E e \in pmap[s] : e.frame = f}
FrameOf(s) == (CHOOSE e \in pmap[s] : TRUE).frame

Init ==
    /\ live = {First}
    /\ region = [s \in Spaces |-> "none"] /\ vprot = [s \in Spaces |-> FALSE]
    /\ pmap = [s \in Spaces |-> {}] /\ tlb = [s \in Spaces |-> {}]
    /\ refcount = [f \in Frames |-> 0] /\ cached = None /\ mem = [f \in Frames |-> 0]
    /\ op = [s \in Spaces |-> NoOp] /\ flush = {}
    /\ pin = [s \in Spaces |-> None]
    /\ walker = [pc |-> "idle", frame |-> None, count |-> 0]
    /\ seen = [s \in Spaces |-> 0] /\ blurred = {}

Idle(s) == op' = [op EXCEPT ![s] = NoOp]
At(s, pc) == op' = [op EXCEPT ![s].pc = pc]
tlb_shootdown == tlb' = [s \in Spaces |-> {}]

\* pframe_incref, and put_frame: pframe_decref and pslab_free_phys of the last
Incref(f) == refcount' = [refcount EXCEPT ![f] = @ + 1]
PutFrame(f, n) == refcount' = [refcount EXCEPT ![f] = @ - n]

\* take_page, and what the caller writes to it first
TakesPage(f, v) ==
    /\ refcount' = [refcount EXCEPT ![f] = 1]
    /\ mem' = [mem EXCEPT ![f] = v]
-------------------------------------------------------------------------------
(* Calls                                                                       *)

Begins(s, do) == s \in live /\ op[s] = NoOp /\ do \in Does[s]

\* vms_map
Map(s, kind) ==
    /\ Begins(s, "map") /\ region[s] = "none"
    /\ region' = [region EXCEPT ![s] = kind]
    /\ vprot' = [vprot EXCEPT ![s] = TRUE]
    /\ UNCHANGED <<live, pmap, tlb, frameVars, op, flush, pin, walker, histVars>>

\* vms_fault for "read" and "write", vms_copyout, vms_pin: to the loop of fault_locked.
Begin(s, do) ==
    /\ Begins(s, do)
    /\ region[s] # "none" /\ (do \in {"write", "copyout"} => vprot[s]) /\ (do = "pin" => pin[s] = None)
    /\ op' = [op EXCEPT ![s] = [NoOp EXCEPT !.do = do, !.pc = "fault"]]
    /\ UNCHANGED <<spaceVars, pmap, tlb, frameVars, flush, pin, walker, histVars>>

Exclusive(s) == op[s].do # "read"

\* fault_locked has found the page; the others go on to rmap_pin.
Faulted(s) == IF op[s].do \in {"read", "write"} THEN Idle(s) ELSE op' = [op EXCEPT ![s].frame = None, ![s].pc = "pin"]

\* Slip: sole_mapping_locked counts the mappings and forgets the cache.
FaultMappedCache(s) ==
    /\ op[s].pc = "fault" /\ pmap[s] # {}
    /\ \/ ~Exclusive(s) /\ Faulted(s) /\ UNCHANGED refcount
       \/ /\ Exclusive(s)
          /\ Incref(FrameOf(s))
          /\ LET f == FrameOf(s)
             IN  op' = [op EXCEPT ![s].frame = f, ![s].pc = IF Mapped(f) = {s} THEN "sole" ELSE "copy"]
    /\ UNCHANGED <<spaceVars, pmap, tlb, cached, mem, flush, pin, walker, histVars>>

FaultMapped(s) ==
    /\ op[s].pc = "fault" /\ pmap[s] # {}
    /\ \/ ~Exclusive(s) /\ Faulted(s) /\ UNCHANGED refcount
       \/ /\ Exclusive(s)
          /\ Incref(FrameOf(s))
          /\ LET f == FrameOf(s)
             IN  op' = [op EXCEPT ![s].frame = f, ![s].pc = IF Mapped(f) = {s} /\ cached # f THEN "sole" ELSE "copy"]
    /\ UNCHANGED <<spaceVars, pmap, tlb, cached, mem, flush, pin, walker, histVars>>

\* vnode_fault: the page of the cache, which is read from the disk if it is not there, mapped
\* without write access, under the lock of the cache.
FaultFile(s) ==
    /\ op[s].pc = "fault" /\ pmap[s] = {} /\ region[s] = "file"
    /\ walker.pc = "idle"
    /\ \/ /\ cached # None /\ Incref(cached)
          /\ pmap' = [pmap EXCEPT ![s] = {Entry(cached, FALSE)}]
          /\ UNCHANGED <<cached, mem>>
       \/ /\ cached = None
          /\ \E f \in Free : TakesPage(f, 0) /\ cached' = f
          /\ UNCHANGED pmap
    /\ UNCHANGED <<spaceVars, tlb, op, flush, pin, walker, histVars>>

FaultZero(s) ==
    /\ op[s].pc = "fault" /\ pmap[s] = {} /\ region[s] = "anonymous"
    /\ \E f \in Free :
          TakesPage(f, 0) /\ pmap' = [pmap EXCEPT ![s] = {Entry(f, vprot[s])}]
    /\ Faulted(s)
    /\ UNCHANGED <<spaceVars, tlb, cached, flush, pin, walker, histVars>>

\* There is no memory, or the file has no such page.
FaultFails(s) ==
    /\ op[s].pc = "fault" /\ pmap[s] = {}
    /\ Idle(s)
    /\ UNCHANGED <<spaceVars, pmap, tlb, frameVars, flush, pin, walker, histVars>>

\* unshare_locked of a frame that nobody else maps; a truncation may have unmapped it since.
UnshareSole(s) ==
    /\ op[s].pc = "sole"
    /\ pmap' = [pmap EXCEPT ![s] = {Entry(e.frame, vprot[s]) : e \in pmap[s]}]
    /\ PutFrame(op[s].frame, 1)
    /\ IF pmap[s] # {} THEN Faulted(s) ELSE Idle(s)
    /\ UNCHANGED <<spaceVars, tlb, cached, mem, flush, pin, walker, histVars>>

\* unshare_locked of a shared one: a copy, rmap_replace unless it was unmapped meanwhile, and
\* the frame is put after the shootdown.
UnshareCopy(s) ==
    /\ op[s].pc = "copy"
    /\ \E f \in Free : TakesPage(f, mem[op[s].frame]) /\ op' = [op EXCEPT ![s].copy = f, ![s].pc = "replace"]
    /\ UNCHANGED <<spaceVars, pmap, tlb, cached, flush, pin, walker, histVars>>

UnshareFails(s) ==
    /\ op[s].pc = "copy"
    /\ PutFrame(op[s].frame, 1)
    /\ Idle(s)
    /\ UNCHANGED <<spaceVars, pmap, tlb, cached, mem, flush, pin, walker, histVars>>

UnshareReplace(s) ==
    /\ op[s].pc = "replace"
    /\ \/ /\ s \in Mapped(op[s].frame)
          /\ pmap' = [pmap EXCEPT ![s] = {Entry(op[s].copy, vprot[s])}]
          /\ op' = [op EXCEPT ![s].copy = None, ![s].pc = "shoot"]
          /\ UNCHANGED refcount
       \/ /\ s \notin Mapped(op[s].frame)
          /\ refcount' = [refcount EXCEPT ![op[s].copy] = 0, ![op[s].frame] = @ - 1]
          /\ op' = [op EXCEPT ![s].frame = None, ![s].copy = None, ![s].pc = "fault"]
          /\ UNCHANGED pmap
    /\ UNCHANGED <<spaceVars, tlb, cached, mem, flush, pin, walker, histVars>>

UnshareShoot(s) ==
    /\ op[s].pc = "shoot"
    /\ tlb_shootdown
    /\ PutFrame(op[s].frame, 2)
    /\ Faulted(s)
    /\ UNCHANGED <<spaceVars, pmap, cached, mem, flush, pin, walker, histVars>>

\* pin_locked: rmap_pin finds the page, or it faults again.
PinLocked(s) ==
    /\ op[s].pc = "pin"
    /\ \/ pmap[s] = {} /\ At(s, "fault") /\ UNCHANGED <<refcount, pin>>
       \/ /\ pmap[s] # {}
          /\ Incref(FrameOf(s))
          /\ \/ op[s].do = "pin" /\ pin' = [pin EXCEPT ![s] = FrameOf(s)] /\ Idle(s)
             \/ op[s].do = "copyout" /\ op' = [op EXCEPT ![s].frame = FrameOf(s), ![s].pc = "write"] /\ UNCHANGED pin
    /\ UNCHANGED <<spaceVars, pmap, tlb, cached, mem, flush, walker, histVars>>

\* vms_unpin
Unpin(s) ==
    /\ pin[s] # None
    /\ PutFrame(pin[s], 1)
    /\ pin' = [pin EXCEPT ![s] = None]
    /\ UNCHANGED <<spaceVars, pmap, tlb, cached, mem, op, flush, walker, histVars>>

CopyOut(s, v) ==
    /\ op[s].pc = "write"
    /\ mem' = [mem EXCEPT ![op[s].frame] = v]
    /\ seen' = IF s \in Mapped(op[s].frame) THEN [seen EXCEPT ![s] = v] ELSE seen
    /\ PutFrame(op[s].frame, 1)
    /\ Idle(s)
    /\ UNCHANGED <<spaceVars, pmap, tlb, cached, flush, pin, walker, blurred>>
-------------------------------------------------------------------------------
(* vms_unmap, vms_protect, vms_clone, vms_release                              *)

\* Slip: the frames are put before the shootdown.
UnmapAtOnce(s) ==
    /\ Begins(s, "unmap") /\ region[s] # "none"
    /\ region' = [region EXCEPT ![s] = "none"]
    /\ pmap' = [pmap EXCEPT ![s] = {}]
    /\ seen' = [seen EXCEPT ![s] = 0] /\ blurred' = blurred \ {s}
    /\ IF pmap[s] = {} THEN UNCHANGED refcount ELSE PutFrame(FrameOf(s), 1)
    /\ UNCHANGED <<live, vprot, tlb, cached, mem, op, flush, pin, walker>>

\* unmap_locked: the entry goes; its reference is put after a shootdown.
Unmap(s) ==
    /\ Begins(s, "unmap") /\ region[s] # "none"
    /\ region' = [region EXCEPT ![s] = "none"]
    /\ pmap' = [pmap EXCEPT ![s] = {}]
    /\ seen' = [seen EXCEPT ![s] = 0] /\ blurred' = blurred \ {s}
    /\ op' = IF pmap[s] = {} THEN op
             ELSE [op EXCEPT ![s] = [NoOp EXCEPT !.do = "unmap", !.pc = "free", !.frame = FrameOf(s)]]
    /\ UNCHANGED <<live, vprot, tlb, frameVars, flush, pin, walker>>

FreeBatch(s) ==
    /\ op[s].pc = "free"
    /\ tlb_shootdown
    /\ PutFrame(op[s].frame, 1)
    /\ Idle(s)
    /\ UNCHANGED <<spaceVars, pmap, cached, mem, flush, pin, walker, histVars>>

\* The shootdown comes after the lock is released.
Protect(s, w) ==
    /\ Begins(s, "protect") /\ region[s] # "none" /\ s \notin flush
    /\ vprot' = [vprot EXCEPT ![s] = w]
    /\ pmap' = [pmap EXCEPT ![s] = {Entry(e.frame, w /\ refcount[e.frame] <= 1) : e \in @}]
    /\ flush' = IF pmap[s] = {} THEN flush ELSE flush \cup {s}
    /\ UNCHANGED <<live, region, tlb, frameVars, op, pin, walker, histVars>>

Flush(s) ==
    /\ s \in flush
    /\ tlb_shootdown
    /\ flush' = flush \ {s}
    /\ UNCHANGED <<spaceVars, pmap, frameVars, op, pin, walker, histVars>>

\* The child gets the regions and, of a page, a reference.
Clone(s, child) ==
    /\ Begins(s, "clone") /\ child \notin live /\ op[child] = NoOp
    /\ region' = [region EXCEPT ![child] = region[s]]
    /\ vprot' = [vprot EXCEPT ![child] = vprot[s]]
    /\ op' = [op EXCEPT ![s] = [NoOp EXCEPT !.do = "clone", !.pc = "clone"], ![child] = [NoOp EXCEPT !.do = "cloned"]]
    /\ UNCHANGED <<live, pmap, tlb, frameVars, flush, pin, walker, histVars>>

Child(s) == CHOOSE c \in Spaces : op[c].do = "cloned"

Cloned(s) ==
    /\ op' = [op EXCEPT ![s] = NoOp, ![Child(s)] = NoOp]
    /\ live' = live \cup {Child(s)}

\* rmap_pin: a page that is not mapped is the child's to fault in.
ClonePin(s) ==
    /\ op[s].pc = "clone"
    /\ IF pmap[s] = {} THEN /\ Cloned(s)
                            /\ seen' = [seen EXCEPT ![Child(s)] = 0]
                            /\ UNCHANGED refcount
       ELSE /\ Incref(FrameOf(s))
            /\ op' = [op EXCEPT ![s].frame = FrameOf(s), ![s].pc = "map"]
            /\ UNCHANGED <<live, seen>>
    /\ UNCHANGED <<region, vprot, pmap, tlb, cached, mem, flush, pin, walker, blurred>>

\* rmap_map: the reference becomes the child's, even of a page that the walker took meanwhile.
CloneMap(s) ==
    /\ op[s].pc = "map"
    /\ pmap' = [pmap EXCEPT ![Child(s)] = {Entry(op[s].frame, FALSE)}]
    /\ seen' = [seen EXCEPT ![Child(s)] = mem[op[s].frame]]
    /\ op' = [op EXCEPT ![s].frame = None, ![s].pc = "patch"]
    /\ UNCHANGED <<spaceVars, tlb, frameVars, flush, pin, walker, blurred>>

\* The parent loses its write access, and what it stored until then is the child's as well.
ClonePatch(s) ==
    /\ op[s].pc = "patch"
    /\ IF vprot[s] /\ pmap[s] # {}
       THEN /\ pmap' = [pmap EXCEPT ![s] = {Entry(e.frame, FALSE) : e \in @}]
            /\ At(s, "purge") /\ UNCHANGED live
       ELSE Cloned(s) /\ UNCHANGED pmap
    /\ UNCHANGED <<region, vprot, tlb, frameVars, flush, pin, walker, histVars>>

ClonePurge(s) ==
    /\ op[s].pc = "purge"
    /\ tlb_shootdown
    /\ Cloned(s)
    /\ UNCHANGED <<region, vprot, pmap, frameVars, flush, pin, walker, histVars>>

\* There is no memory for the region or for the child's page table: the child unmaps what it has.
CloneFails(s) ==
    /\ op[s].pc \in {"clone", "map"}
    /\ region' = [region EXCEPT ![Child(s)] = "none"]
    /\ op' = [op EXCEPT ![s] = NoOp, ![Child(s)] = NoOp]
    /\ IF op[s].frame = None THEN UNCHANGED refcount ELSE PutFrame(op[s].frame, 1)
    /\ UNCHANGED <<live, vprot, pmap, tlb, cached, mem, flush, pin, walker, histVars>>

\* No thread is left, no hart has the page tables loaded: there is no shootdown.
Release(s) ==
    /\ s \in live \ {First} /\ op[s] = NoOp /\ pin[s] = None /\ s \notin flush
    /\ live' = live \ {s}
    /\ region' = [region EXCEPT ![s] = "none"]
    /\ tlb' = [tlb EXCEPT ![s] = {}]
    /\ pmap' = [pmap EXCEPT ![s] = {}]
    /\ IF pmap[s] = {} THEN UNCHANGED refcount ELSE PutFrame(FrameOf(s), 1)
    /\ seen' = [seen EXCEPT ![s] = 0] /\ blurred' = blurred \ {s}
    /\ UNCHANGED <<vprot, cached, mem, op, flush, pin, walker>>
-------------------------------------------------------------------------------
(* The cache of the file takes its page away                                   *)

\* remove_page: the flag, the mappings, the shootdown, the references.
RemovePage ==
    /\ walker.pc = "idle" /\ cached # None
    /\ walker' = [pc |-> "unmap", frame |-> cached, count |-> 0]
    /\ cached' = None
    /\ UNCHANGED <<spaceVars, pmap, tlb, refcount, mem, op, flush, pin, histVars>>

RmapUnmapAll ==
    /\ walker.pc = "unmap"
    /\ pmap' = [s \in Spaces |-> {e \in pmap[s] : e.frame # walker.frame}]
    /\ seen' = [s \in Spaces |-> IF s \in Mapped(walker.frame) THEN 0 ELSE seen[s]]
    /\ walker' = [walker EXCEPT !.pc = "put", !.count = Cardinality(Mapped(walker.frame))]
    /\ UNCHANGED <<spaceVars, tlb, frameVars, op, flush, pin, blurred>>

PutPage ==
    /\ walker.pc = "put"
    /\ IF walker.count > 0 THEN tlb_shootdown ELSE UNCHANGED tlb
    /\ PutFrame(walker.frame, walker.count + 1)
    /\ walker' = [pc |-> "idle", frame |-> None, count |-> 0]
    /\ UNCHANGED <<spaceVars, pmap, cached, mem, op, flush, pin, histVars>>

\* fcache_reclaim of a page that only the cache has
Reclaim ==
    /\ walker.pc = "idle" /\ cached # None /\ refcount[cached] <= 1
    /\ PutFrame(cached, 1)
    /\ cached' = None
    /\ UNCHANGED <<spaceVars, pmap, tlb, mem, op, flush, pin, walker, histVars>>
-------------------------------------------------------------------------------
(* Programs                                                                    *)

TlbFill(s) ==
    /\ s \in live /\ ~(pmap[s] \subseteq tlb[s])
    /\ tlb' = [tlb EXCEPT ![s] = @ \cup pmap[s]]
    /\ UNCHANGED <<spaceVars, pmap, frameVars, op, flush, pin, walker, histVars>>

Store(s, v) ==
    \E e \in tlb[s] :
        /\ e.write
        /\ mem' = [mem EXCEPT ![e.frame] = v]
        /\ seen' = [c \in Spaces |-> IF (c = s /\ pmap[s] # {}) \/ (c \in Mapped(e.frame) /\ op[c].do = "cloned")
                                     THEN v ELSE seen[c]]
        /\ blurred' = IF e \notin pmap[s] /\ (s \in flush \/ e.frame = walker.frame)
                      THEN blurred \cup {c \in Spaces : c \in Mapped(e.frame) \ {s} \/ op[c].frame = e.frame}
                                   \cup ({s} \ Mapped(e.frame))
                      ELSE blurred
        /\ UNCHANGED <<spaceVars, pmap, tlb, refcount, cached, op, flush, pin, walker>>

Next ==
    \/ \E s \in Spaces :
          \/ \E kind \in Kinds : Map(s, kind)
          \/ \E do \in {"read", "write", "copyout", "pin"} : Begin(s, do)
          \/ FaultMapped(s) \/ FaultFile(s) \/ FaultZero(s) \/ FaultFails(s)
          \/ UnshareSole(s) \/ UnshareCopy(s) \/ UnshareFails(s) \/ UnshareReplace(s) \/ UnshareShoot(s)
          \/ PinLocked(s) \/ Unpin(s) \/ Unmap(s) \/ FreeBatch(s) \/ Flush(s)
          \/ \E w \in BOOLEAN : Protect(s, w)
          \/ \E child \in Spaces : Clone(s, child)
          \/ ClonePin(s) \/ CloneMap(s) \/ ClonePatch(s) \/ ClonePurge(s) \/ CloneFails(s) \/ Release(s)
          \/ TlbFill(s)
          \/ \E v \in Values : CopyOut(s, v) \/ Store(s, v)
    \/ RemovePage \/ RmapUnmapAll \/ PutPage \/ Reclaim

Spec == Init /\ [][Next]_vars
-------------------------------------------------------------------------------
TypeOK ==
    /\ live \subseteq Spaces /\ region \in [Spaces -> {"none", "anonymous", "file"}] /\ vprot \in [Spaces -> BOOLEAN]
    /\ refcount \in [Frames -> Nat] /\ cached \in Frames \cup {None} /\ flush \subseteq Spaces
    /\ \A s \in Spaces : Cardinality(pmap[s]) <= 1 /\ (pmap[s] # {} => region[s] # "none")

\* unshare_locked, vms_clone, vms_protect, sole_mapping_locked: a program finds what it stored
\* or was given, whatever other programs and the cache do.
PagesArePrivate == \A s \in Spaces \ blurred : \A e \in pmap[s] : mem[e.frame] = seen[s]

\* References in the hands of a call
InHand(s, f) ==
    (IF op[s].frame = f THEN IF op[s].pc = "shoot" THEN 2 ELSE 1 ELSE 0) + (IF op[s].copy = f THEN 1 ELSE 0)
        + (IF pin[s] = f THEN 1 ELSE 0) + (IF s \in Mapped(f) THEN 1 ELSE 0)

\* pframe_incref, put_frame, rmap_pin: the references of a frame are its mappings, its pins, the
\* cache, and what calls in progress have to put.
FramesAreCounted ==
    \A f \in Frames :
        refcount[f] = MapThenSumSet(LAMBDA s : InHand(s, f), Spaces) + (IF cached = f THEN 1 ELSE 0)
                        + (IF walker.frame = f THEN 1 + walker.count ELSE 0)

\* free_batch, unshare_locked, remove_page put a frame after the shootdown, vms_release when no
\* hart has the page tables: no hart translates to a free frame.
NoneTranslatesToFree == \A s \in Spaces : \A e \in tlb[s] : e.frame \notin Free
===============================================================================
