------------------------------ MODULE MCMemory ------------------------------
(* Memory in one run.  A behaviour is of one scene: the cache of a file that is  *)
(* written, cut and grown, that is mapped, and that is copied to; that of a      *)
(* device; a private page, anonymous or of a file, of a process and its child;   *)
(* the list of regions under every call, and while a msync walks it.  The        *)
(* variables of the other scenes are 0.                                          *)
EXTENDS Fcache, TLC

CONSTANTS Played,      \* the scenes
          c, k, a, b, f1, f2, f3, exe, lib

VARIABLES scene,
          live, region, vprot, refcount, cached, mem, flush, pin, walker, seen, blurred,
          regions, call, sync

spaceOnly == <<live, region, vprot, refcount, cached, mem, flush, pin, walker, seen, blurred>>
fileOnly  == <<diskVars, pageVars, lockVars, leaving, pc, histVars>>
listVars  == <<regions, call, sync>>

WriterDoes == c :> {"read", "write", "cut", "grow"} @@ k :> {"sync"}
MapperDoes == c :> {"fault", "wfault", "write", "cut"} @@ k :> {"sync"}
CopierDoes == c :> {"grow", "cut", "sync"} @@ k :> {"copyout"}
DeviceDoes == c :> {"read", "write", "forget"} @@ k :> {"sync", "fsync"}

Mapper == INSTANCE Fcache WITH Does <- MapperDoes
Copier == INSTANCE Fcache WITH PageSize <- 1, Does <- CopierDoes
Device == INSTANCE Fcache WITH NumPages <- 2, PageSize <- 1, Stores <- {}, IsDevice <- TRUE, Does <- DeviceDoes

Anonymous == INSTANCE Vms WITH
    Spaces <- {a, b}, First <- a, Frames <- {f1, f2, f3}, Kinds <- {"anonymous"},
    Does <- a :> {"map", "write", "protect", "clone"} @@ b :> {"copyout", "pin"}
Private == INSTANCE Vms WITH
    Spaces <- {a, b}, First <- a, Frames <- {f1, f2, f3}, Kinds <- {"file"},
    Does <- a :> {"map", "read", "write", "unmap", "clone"} @@ b :> {"write"}

Backing(vprot_of, of, kind, may) ==
    [vprot |-> vprot_of, file |-> of, offset |-> 0, kind |-> kind, may_write |-> may]
Listed == INSTANCE Regions WITH
    UserEnd <- 4, MmapMin <- 1, MmapTop <- 3, NoFile <- None, Absent <- None, MaxRegions <- 3,
    Backings <- {Backing("rw", None, "private", TRUE), Backing("ro", exe, "shared", FALSE)},
    Does <- {"map", "any", "replace", "unmap", "protect"}
Synced == INSTANCE Regions WITH
    UserEnd <- 3, MmapMin <- 1, MmapTop <- 3, NoFile <- None, Absent <- None, MaxRegions <- 3,
    Backings <- {Backing("rw", of, "shared", TRUE) : of \in {exe, lib}},
    Does <- {"replace", "sync"}

ASSUME FileAssumption /\ CallersAssumption /\ Device!FileAssumption
ASSUME Anonymous!SpacesAssumption /\ Private!SpacesAssumption
ASSUME Listed!AddressesAssumption /\ Synced!AddressesAssumption

NoCache == /\ disk = 0 /\ alloc = 0 /\ size = 0 /\ tree = 0 /\ uptodate = 0 /\ dirty = 0 /\ data = 0
           /\ dirty_sectors = 0 /\ num_dirty = 0 /\ queued = 0 /\ lock = 0 /\ fs_lock = 0
           /\ leaving = 0 /\ pc = 0 /\ file = 0 /\ loose = 0 /\ forgotten = 0 /\ failed = 0
NoMap == op = 0 /\ pmap = 0 /\ tlb = 0
NoSpaces == /\ live = 0 /\ region = 0 /\ vprot = 0 /\ refcount = 0 /\ cached = 0 /\ mem = 0
            /\ flush = 0 /\ pin = 0 /\ walker = 0 /\ seen = 0 /\ blurred = 0
NoList == regions = 0 /\ call = 0 /\ sync = 0

Start ==
    /\ scene \in Played
    /\ \/ scene \in {"written", "mapped"} /\ Init /\ NoSpaces /\ NoList
       \/ scene = "copied" /\ Copier!Init /\ NoSpaces /\ NoList
       \/ scene = "device" /\ Device!Init /\ NoSpaces /\ NoList
       \/ scene \in {"anonymous", "private"} /\ Anonymous!Init /\ NoCache /\ NoList
       \/ scene \in {"listed", "synced"} /\ Listed!Init /\ NoCache /\ NoMap /\ NoSpaces

Step ==
    /\ UNCHANGED scene
    /\ \/ scene = "written"   /\ Next           /\ UNCHANGED <<spaceOnly, listVars>>
       \/ scene = "mapped"    /\ Mapper!Next    /\ UNCHANGED <<spaceOnly, listVars>>
       \/ scene = "copied"    /\ Copier!Next    /\ UNCHANGED <<spaceOnly, listVars>>
       \/ scene = "device"    /\ Device!Next    /\ UNCHANGED <<spaceOnly, listVars>>
       \/ scene = "anonymous" /\ Anonymous!Next /\ UNCHANGED <<fileOnly, listVars>>
       \/ scene = "private"   /\ Private!Next   /\ UNCHANGED <<fileOnly, listVars>>
       \/ scene = "listed"    /\ Listed!Next    /\ UNCHANGED <<fileOnly, pmap, tlb, op, spaceOnly>>
       \/ scene = "synced"    /\ Synced!Next    /\ UNCHANGED <<fileOnly, pmap, tlb, op, spaceOnly>>

Scenes == Start /\ [][Step]_<<scene, vars, spaceOnly, listVars>>
-------------------------------------------------------------------------------
OfFile == scene \in {"written", "mapped"}
OfCopied == scene = "copied"
OfDevice == scene = "device"
OfSpaces == scene \in {"anonymous", "private"}

\* fcache_write, writeback_locked, fcache_reclaim, fcache_truncate: whatever is written back,
\* reclaimed, cut off or fails, a reader of the file gets what was last written.
FilesAreKept ==
    /\ OfFile => TypeOK /\ ContentIsKept
    /\ OfCopied => Copier!TypeOK /\ Copier!ContentIsKept
    /\ OfDevice => Device!TypeOK /\ Device!ContentIsKept

\* mark_dirty, mark_clean, queue_dirty, fcache_sync: a file with a dirty page is on the list of
\* those to be written back, unless a sync has just taken it off or the page could not be
\* written; and fcache_truncate, fcache_forget: what was given to another is not written over.
DirtyIsFound ==
    /\ OfFile   => DirtyIsTracked /\ OthersAreLeft
    /\ OfCopied => Copier!DirtyIsTracked /\ Copier!OthersAreLeft
    /\ OfDevice => Device!DirtyIsTracked /\ Device!OthersAreLeft

\* remove_page, fcache_reclaim, free_batch, unshare_locked: no hart translates to a page that
\* was let go, and the references of a frame are those of its mappings, pins and the cache.
FramesAreSafe ==
    /\ OfFile => TranslatedIsCached
    /\ OfCopied => Copier!TranslatedIsCached
    /\ OfSpaces => Anonymous!TypeOK /\ Anonymous!FramesAreCounted /\ Anonymous!NoneTranslatesToFree

\* unshare_locked, vms_clone, vms_protect: a program finds in a private page what it stored or
\* was given, whatever its parent, its child and the cache do.
PrivateStaysPrivate == OfSpaces => Anonymous!PagesArePrivate

\* vms_map, vms_map_replace, vms_map_any, vms_unmap, vms_protect, split_region: the calls do to
\* every page what AddrMap says, all or nothing, whatever the regions are and whichever
\* allocation fails.
MapIsKept == INSTANCE AddrMap WITH
    UserEnd <- 4, MmapMin <- 1, MmapTop <- 3, NoFile <- None, Absent <- None,
    call <- IF scene = "listed" THEN call ELSE [do |-> "none"],
    pages <- [virt \in 0 .. 3 |-> IF scene = "listed" THEN Listed!At(regions, virt) ELSE None]
ImplementsAddrMap == MapIsKept!Spec

\* vms_sync: other calls split and replace regions while it has released the lock; when it
\* returns, the file of each page that stayed mapped has been synced.
SyncMissesNone == scene = "synced" => Synced!RegionsTypeOK /\ Synced!SyncReachesAll

Symmetry == Permutations({f1, f2, f3})
===============================================================================
