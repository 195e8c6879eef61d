------------------------------- MODULE Vnode -------------------------------
(***************************************************************************)
(* The vnodes of one mounted ext2 volume: fs/vcache.c (the vnode cache),   *)
(* fs/vnode.c (lookup, create, link, unlink, rename and the life of a      *)
(* vnode), fs/mount.c (crossing into the volume and unmounting it) and the *)
(* directory operations of fs/ext2/ext2_vnode.c.                           *)
(*                                                                         *)
(* Threads work in the volume's root directory: each opens, creates,       *)
(* links, unlinks and renames names there, and may hold one file open      *)
(* between calls.  Another thread unmounts the volume.  What runs under    *)
(* the file system's mutex, or under the cache's spinlock, is one step; an *)
(* unlink under the mutex is one step with the vcache_remove in it, for    *)
(* the cache is all of it that others see meanwhile.                       *)
(*                                                                         *)
(* A vnode is a structure with the inode as it was read; an inode number   *)
(* is free again once the vnode that saw its last name go is destroyed.    *)
(* The root's vnode is not cached and is only counted.  Structures are     *)
(* reused once nobody knows them.                                          *)
(***************************************************************************)
EXTENDS Integers, FiniteSets, Sequences, SequencesExt, FiniteSetsExt

CONSTANTS
  Threads,    \* threads with business in the volume
  Nodes,      \* vnode structures
  Inos,       \* inode numbers besides the root's
  Names,      \* names in the root directory
  MaxUnused,  \* CONFIG_VCACHE_MAX_UNUSED
  Does,       \* what each thread does, of "open", "create", "mkdir", "link", "unlink", "rmdir" and "rename"
  MayUnmount, \* whether the volume may be unmounted
  None

VARIABLES
  mount,      \* "mounted", "unmounting", "detached" or "gone"
  umount,     \* the unmounting thread: "idle", "orphans", "in_use", "evict", "free"
  orphans,    \* fs->orphans
  root,       \* the references to the root's vnode
  dir,        \* the root directory: a name's inode number
  inode,      \* the inodes on the disk
  node,       \* the vnode structures
  refcount,   \* their counts
  cache,      \* the vnode cached for an inode number
  unused,     \* the list of unused vnodes, oldest first
  mutex,      \* who holds rename_mutex
  th,         \* what each thread is doing
  file,       \* the vnode of the file a thread has open
  missed,     \* history: what the last unmount's checks did not see, of "orphan" and "leaving"
  late,       \* history: a vnode was cached whose inode had changed since it was read
  misused,    \* history: vcache_keep looked at a vnode that was freed
  twice       \* history: how often a vnode was counted that was counted already

vars == <<mount, umount, orphans, root, dir, inode, node, refcount, cache, unused, mutex, th, file,
          missed, late, misused, twice>>
history == <<missed, late, misused, twice>>
mounts == <<mount, umount, history>>
disk == <<dir, inode>>

\* The limit is a number of vnodes, and None is no vnode and no number
LimitAssumption == MaxUnused \in Nat /\ Nodes \subseteq Nat /\ None \notin Nodes \cup Inos /\ None \notin Names

\* Bound: a vnode may be counted twice, and then never stops being counted
MaxOrphans == Cardinality(Nodes) + 1

\* Bound: the links of an inode, where a vnode that was cached too late counts names that are gone
MaxLinks == Cardinality(Names) + 1

Kinds == {"file", "dir"}
NoInode == [used |-> FALSE, links |-> 0, kind |-> "file"]
\* History: stale, its inode was given back; late, its inode's links changed through another
\* vnode; taken, found in the cache between its holder's last decref and vcache_keep
NoNode == [live |-> FALSE, ino |-> None, links |-> 0, kind |-> "file", orphaned |-> FALSE,
           stale |-> FALSE, late |-> FALSE, taken |-> FALSE]
Idle == [pc |-> "idle", op |-> "none", name |-> None, to |-> None, ino |-> None,
         at |-> None, src |-> None, drop |-> <<>>, dead |-> None]

Init ==
  /\ mount = "mounted" /\ umount = "idle" /\ orphans = 0 /\ root = 1
  /\ missed = {} /\ late = FALSE /\ misused = FALSE /\ twice = 0
  /\ dir = [n \in Names |-> None] /\ inode = [i \in Inos |-> NoInode]
  /\ node = [v \in Nodes |-> NoNode] /\ refcount = [v \in Nodes |-> 0]
  /\ cache = [i \in Inos |-> None] /\ unused = <<>> /\ mutex = None
  /\ th = [t \in Threads |-> Idle] /\ file = [t \in Threads |-> None]

At(t, p) == th[t].pc = p
Goes(t, p) == th' = [th EXCEPT ![t].pc = p]
Known == {th[t].at : t \in Threads} \cup {th[t].src : t \in Threads} \cup {th[t].dead : t \in Threads}
         \cup {file[t] : t \in Threads} \cup UNION {Range(th[t].drop) : t \in Threads}
\* A structure slab_alloc hands out; which one it is makes no difference
Fresh == {v \in Nodes : ~node[v].live /\ v \notin Known}
Fresh1 == IF Fresh = {} THEN {} ELSE {Min(Fresh)}
\* A thread is about to put v back, having dropped its last reference
Parting(v) == \E u \in Threads : At(u, "keep") /\ Head(th[u].drop) = v
\* slab_free
Freed(v) == [NoNode EXCEPT !.taken = node[v].taken /\ Parting(v)]
Parents(v) == IF node[v].kind = "dir" THEN 1 ELSE 0
Other(w, v) == w # v /\ node[w].live /\ node[w].ino = node[v].ino
IsCached(v) == cache[node[v].ino] = v

\* The vnodes a thread puts back before it leaves the directory
Drops(t, vs) == th' = [th EXCEPT ![t].pc = IF vs = <<>> THEN "leave" ELSE "drop", ![t].drop = vs, ![t].at = None,
                                 ![t].src = None, ![t].name = None, ![t].to = None, ![t].ino = None]
Held(t) == IF th[t].src = None THEN <<>> ELSE <<th[t].src>>

-----------------------------------------------------------------------------
\* vfs_cross_mount: a call comes into the volume with a reference to its root,
\* unless the volume is being unmounted; the two references of a rename count as one
Cross(t, op, name, to) ==
  /\ At(t, "idle") /\ mount = "mounted"
  /\ op \in {"open", "create", "mkdir"} => file[t] = None
  /\ op = "link" => file[t] # None /\ node[file[t]].kind = "file"
  /\ (to # None) <=> (op = "rename")
  /\ name # to
  /\ root' = root + 1
  /\ th' = [th EXCEPT ![t] = [Idle EXCEPT !.op = op, !.name = name, !.to = to,
            !.pc = CASE op = "rename" -> "mutex" [] op \in {"create", "mkdir"} -> "create"
                     [] op = "link" -> "link" [] OTHER -> "lookup"]]
  /\ UNCHANGED <<mounts, orphans, disk, node, refcount, cache, unused, mutex, file>>

Leave(t) ==
  /\ At(t, "leave")
  /\ root' = root - 1
  /\ file' = [file EXCEPT ![t] = IF th[t].op \in {"open", "create", "mkdir"} THEN th[t].at ELSE @]
  /\ th' = [th EXCEPT ![t] = Idle]
  /\ UNCHANGED <<mounts, orphans, disk, node, refcount, cache, unused, mutex>>

RenameLock(t) ==
  /\ At(t, "mutex") /\ mutex = None
  /\ mutex' = t
  /\ Goes(t, "lookup")
  /\ UNCHANGED <<mounts, orphans, root, disk, node, refcount, cache, unused, file>>

\* What a failed lookup ends: a rename of a name that is there goes on without a victim
Unlocks(t) == mutex' = IF mutex = t THEN None ELSE mutex
NotFound(t) ==
  IF th[t].src # None
  THEN th' = [th EXCEPT ![t].pc = "rename", ![t].at = None] /\ UNCHANGED mutex
  ELSE Drops(t, <<>>) /\ Unlocks(t)
NoMemory(t) == Drops(t, Held(t)) /\ Unlocks(t)

\* What a lookup that found the vnode v goes on with
Found(t, v) ==
  LET op == th[t].op  first == th[t].src = None IN
  th' = [th EXCEPT ![t] =
    IF op = "rename" /\ first
    THEN [@ EXCEPT !.pc = "lookup", !.src = v, !.at = None, !.ino = None, !.name = th[t].to, !.to = th[t].name]
    ELSE [@ EXCEPT !.pc = CASE op = "rename" -> "rename" [] op \in {"unlink", "rmdir"} -> "unlink"
                            [] OTHER -> "leave",
                   !.at = v, !.ino = None, !.name = IF op \in {"open", "create", "mkdir"} THEN None ELSE @]]

\* ext2's lookup, under its mutex
Lookup(t) ==
  /\ At(t, "lookup")
  /\ IF dir[th[t].name] = None
     THEN NotFound(t)
     ELSE th' = [th EXCEPT ![t].pc = "get", ![t].ino = dir[th[t].name]] /\ UNCHANGED mutex
  /\ UNCHANGED <<mounts, orphans, root, disk, node, refcount, cache, unused, file>>

\* take_nolock
Take(v) ==
  /\ refcount' = [refcount EXCEPT ![v] = @ + 1]
  /\ node' = [node EXCEPT ![v].taken = @ \/ Parting(v)]
  /\ unused' = SelectSeq(unused, LAMBDA u : u # v)

\* vcache_get, and alloc_internal when the inode has no vnode
Get(t) ==
  /\ At(t, "get")
  /\ IF cache[th[t].ino] # None
     THEN Take(cache[th[t].ino]) /\ Found(t, cache[th[t].ino])
     ELSE \E v \in Fresh1 :
            /\ node' = [node EXCEPT ![v] = [NoNode EXCEPT !.live = TRUE, !.ino = th[t].ino]]
            /\ refcount' = [refcount EXCEPT ![v] = 1]
            /\ th' = [th EXCEPT ![t].pc = "fill", ![t].at = v, ![t].ino = None]
            /\ UNCHANGED unused
  /\ UNCHANGED <<mounts, orphans, root, disk, cache, mutex, file>>

\* ext2_fill_node: the inode is read, unless it has lost its last name
Fill(t) ==
  LET v == th[t].at  i == inode[node[v].ino] IN
  /\ At(t, "fill")
  /\ IF i.links = 0
     THEN /\ node' = [node EXCEPT ![v] = Freed(v)]
          /\ refcount' = [refcount EXCEPT ![v] = 0]
          /\ NotFound(t)
          /\ UNCHANGED root
     ELSE /\ node' = [node EXCEPT ![v].links = i.links, ![v].kind = i.kind, ![v].stale = FALSE, ![v].late = FALSE]
          /\ root' = root + IF i.kind = "dir" THEN 1 ELSE 0
          /\ Goes(t, "insert")
          /\ UNCHANGED <<refcount, mutex>>
  /\ UNCHANGED <<mounts, orphans, disk, cache, unused, file>>

\* vcache_get_or_insert, and the thread's own vnode destroyed when another was first
Insert(t) ==
  LET v == th[t].at  w == cache[node[v].ino] IN
  /\ At(t, "insert") 
  /\ IF w = None
     THEN /\ cache' = [cache EXCEPT ![node[v].ino] = v]
          /\ late' = (late \/ node[v].late)
          /\ Found(t, v)
          /\ UNCHANGED <<root, node, refcount, unused>>
     ELSE /\ refcount' = [refcount EXCEPT ![w] = @ + 1, ![v] = 0]
          /\ node' = [node EXCEPT ![v] = Freed(v), ![w].taken = @ \/ Parting(w)]
          /\ unused' = SelectSeq(unused, LAMBDA u : u # w)
          /\ root' = root - Parents(v)
          /\ Found(t, w)
          /\ UNCHANGED <<cache, late>>
  /\ UNCHANGED <<mount, umount, missed, misused, twice, orphans, disk, mutex, file>>

InsertFails(t) ==
  LET v == th[t].at IN
  /\ At(t, "insert")
  /\ node' = [node EXCEPT ![v] = Freed(v)]
  /\ refcount' = [refcount EXCEPT ![v] = 0]
  /\ root' = root - Parents(v)
  /\ NoMemory(t)
  /\ UNCHANGED <<mounts, orphans, disk, cache, unused, file>>

-----------------------------------------------------------------------------
\* ext2's create: an inode number that is free, its inode written and its vnode made
Create(t) ==
  /\ At(t, "create")
  /\ \/ /\ dir[th[t].name] # None \/ \A i \in Inos : inode[i].used
        /\ Drops(t, <<>>)
        /\ UNCHANGED <<root, disk, node, refcount>>
     \/ /\ dir[th[t].name] = None
        /\ \E i \in {j \in Inos : ~inode[j].used}, v \in Fresh1 :
             LET kind == IF th[t].op = "mkdir" THEN "dir" ELSE "file" IN
             /\ inode' = [inode EXCEPT ![i] = [used |-> TRUE, links |-> 1, kind |-> kind]]
             /\ dir' = [dir EXCEPT ![th[t].name] = i]
             /\ node' = [node EXCEPT ![v] = [NoNode EXCEPT !.live = TRUE, !.ino = i, !.links = 1, !.kind = kind]]
             /\ refcount' = [refcount EXCEPT ![v] = 1]
             /\ root' = root + IF kind = "dir" THEN 1 ELSE 0
             /\ th' = [th EXCEPT ![t].pc = "insert", ![t].at = v]
  /\ UNCHANGED <<mounts, orphans, cache, unused, mutex, file>>

\* ext2's link: one more name for the file the thread has open, if it has any left
Link(t) ==
  LET v == file[t]  i == node[v].ino IN
  /\ At(t, "link") /\ node[v].links < MaxLinks
  /\ Drops(t, <<>>)
  /\ IF node[v].links = 0 \/ dir[th[t].name] # None
     THEN UNCHANGED <<disk, node>>
     ELSE /\ dir' = [dir EXCEPT ![th[t].name] = i]
          /\ node' = [w \in Nodes |-> [node[w] EXCEPT !.links = IF w = v THEN @ + 1 ELSE @, !.late = @ \/ Other(w, v)]]
          /\ inode' = [inode EXCEPT ![i].links = node[v].links + 1]
  /\ UNCHANGED <<mounts, orphans, root, refcount, cache, unused, mutex, file>>

\* Slip: the vnode stays cached when its last name goes
DropEntryTargetCached(v, names) ==
  LET links == IF node[v].kind = "dir" THEN 0 ELSE Max({node[v].links - 1, 0}) IN
  /\ dir' = names
  /\ inode' = [inode EXCEPT ![node[v].ino].links = links]
  /\ node' = [w \in Nodes |-> [node[w] EXCEPT !.links = IF w = v THEN links ELSE @,
                !.late = @ \/ Other(w, v)]]
  /\ UNCHANGED cache

\* drop_entry_target_locked: a vnode without a name left is not cached any more
DropEntryTarget(v, names) ==
  LET links == IF node[v].kind = "dir" THEN 0 ELSE Max({node[v].links - 1, 0}) IN
  /\ dir' = names
  /\ inode' = [inode EXCEPT ![node[v].ino].links = links]
  /\ node' = [w \in Nodes |-> [node[w] EXCEPT !.links = IF w = v THEN links ELSE @,
                !.late = @ \/ Other(w, v)]]
  /\ cache' = IF links = 0 /\ IsCached(v) THEN [cache EXCEPT ![node[v].ino] = None] ELSE cache

\* unlink_crossed after the lookup, and ext2's unlink
Unlink(t) ==
  LET v == th[t].at IN
  /\ At(t, "unlink")
  /\ IF (node[v].kind = "dir") # (th[t].op = "rmdir") \/ dir[th[t].name] # node[v].ino
     THEN Drops(t, <<v>>) /\ UNCHANGED <<disk, node, cache>>
     ELSE Goes(t, "orphan") /\ DropEntryTarget(v, [dir EXCEPT ![th[t].name] = None])
  /\ UNCHANGED <<mounts, orphans, root, refcount, unused, mutex, file>>

\* rename_crossed after the lookups, check_rename and ext2's rename; here name is the new one
Rename(t) ==
  LET v == th[t].at  s == th[t].src  now == dir[th[t].name]
      moved == [dir EXCEPT ![th[t].name] = node[s].ino, ![th[t].to] = None]
      all == IF v = None THEN <<s>> ELSE <<v, s>> IN
  /\ At(t, "rename")
  /\ \/ /\ \/ v = s
           \/ v # None /\ node[v].kind # node[s].kind
           \/ dir[th[t].to] # node[s].ino
           \/ now # IF v = None THEN None ELSE node[v].ino
        /\ Drops(t, all) /\ Unlocks(t)
        /\ UNCHANGED <<disk, node, cache>>
     \/ /\ v # s /\ dir[th[t].to] = node[s].ino
        /\ \/ /\ v = None /\ now = None
              /\ dir' = moved
              /\ Drops(t, all) /\ Unlocks(t)
              /\ UNCHANGED <<inode, node, cache>>
           \/ /\ v # None /\ now = node[v].ino /\ node[v].kind = node[s].kind
              /\ DropEntryTarget(v, moved)
              /\ Goes(t, "orphan")
              /\ UNCHANGED mutex
  /\ UNCHANGED <<mounts, orphans, root, refcount, unused, file>>

\* A vnode without names left, that others may still hold, is counted
Orphan(t) ==
  LET v == th[t].at IN
  /\ At(t, "orphan") /\ orphans < MaxOrphans
  /\ node' = [node EXCEPT ![v].orphaned = @ \/ ~IsCached(v)]
  /\ orphans' = orphans + IF IsCached(v) THEN 0 ELSE 1
  /\ twice' = twice + IF ~IsCached(v) /\ node[v].orphaned THEN 1 ELSE 0
  /\ Drops(t, <<v>> \o Held(t)) /\ Unlocks(t)
  /\ UNCHANGED <<mount, umount, missed, late, misused, root, disk, refcount, cache, unused, file>>

-----------------------------------------------------------------------------
\* The last close of a file
Close(t) ==
  /\ At(t, "idle") /\ file[t] # None
  /\ th' = [th EXCEPT ![t] = [Idle EXCEPT !.pc = "drop", !.op = "close", !.drop = <<file[t]>>]]
  /\ file' = [file EXCEPT ![t] = None]
  /\ UNCHANGED <<mounts, orphans, root, disk, node, refcount, cache, unused, mutex>>

\* The thread goes on to the next of the vnodes it puts back
Continues(t, rest) ==
  LET next == IF rest # <<>> THEN "drop" ELSE IF th[t].op = "close" THEN "idle" ELSE "leave" IN
  th' = [th EXCEPT ![t] = IF next = "idle" THEN Idle ELSE [@ EXCEPT !.pc = next, !.drop = rest, !.dead = None]]
Dropped(t) == Continues(t, Tail(th[t].drop))
Destroys(t, v) == th' = [th EXCEPT ![t].pc = "destroy", ![t].dead = v, ![t].drop = Tail(@)]

\* vnode_decref: the count, and then what becomes of a vnode nobody holds
Decref(t) ==
  LET v == Head(th[t].drop) IN
  /\ At(t, "drop")
  /\ refcount' = [refcount EXCEPT ![v] = @ - 1]
  /\ IF refcount[v] = 1 THEN Goes(t, "keep") ELSE Dropped(t)
  /\ UNCHANGED <<mounts, orphans, root, disk, node, cache, unused, mutex, file>>

\* A vnode that was freed, or that another thread frees
Gone(v) == ~node[v].live \/ \E t \in Threads : th[t].dead = v

\* Slip: the count is not looked at again
KeepUnchecked(t) ==
  LET v == Head(th[t].drop)
      listed == IF v \in Range(unused) THEN unused ELSE unused \o <<v>>
      oldest == Head(listed) IN
  /\ At(t, "keep") /\ ~Gone(v)
  /\ CASE ~IsCached(v) -> Destroys(t, v) /\ UNCHANGED <<cache, unused>>
       [] IsCached(v) /\ Len(listed) <= MaxUnused -> unused' = listed /\ Dropped(t) /\ UNCHANGED cache
       [] IsCached(v) /\ Len(listed) > MaxUnused ->
            /\ unused' = Tail(listed)
            /\ cache' = [cache EXCEPT ![node[oldest].ino] = None]
            /\ Destroys(t, oldest)
  /\ UNCHANGED <<mounts, orphans, root, disk, node, refcount, mutex, file>>

\* vcache_keep: a cached vnode joins the unused ones, the oldest makes room
Keep(t) ==
  LET v == Head(th[t].drop)
      listed == IF v \in Range(unused) THEN unused ELSE unused \o <<v>>
      oldest == Head(listed) IN
  /\ At(t, "keep") /\ ~Gone(v)
  /\ CASE refcount[v] # 0 -> Dropped(t) /\ UNCHANGED <<cache, unused>>
       [] refcount[v] = 0 /\ ~IsCached(v) -> Destroys(t, v) /\ UNCHANGED <<cache, unused>>
       [] refcount[v] = 0 /\ IsCached(v) /\ Len(listed) <= MaxUnused ->
            unused' = listed /\ Dropped(t) /\ UNCHANGED cache
       [] refcount[v] = 0 /\ IsCached(v) /\ Len(listed) > MaxUnused ->
            /\ unused' = Tail(listed)
            /\ cache' = [cache EXCEPT ![node[oldest].ino] = None]
            /\ Destroys(t, oldest)
  /\ UNCHANGED <<mounts, orphans, root, disk, node, refcount, mutex, file>>

\* vcache_keep of such a vnode: what it reads is anyone's, and what comes after is not modelled
KeepGone(t) ==
  /\ At(t, "keep") /\ Gone(Head(th[t].drop))
  /\ misused' = TRUE
  /\ UNCHANGED <<mount, umount, missed, late, twice, orphans, root, disk, node, refcount, cache, unused, mutex, th, file>>

\* vnode_destroy up to the file system's release
Destroy(t) ==
  /\ At(t, "destroy")
  /\ orphans' = orphans - IF node[th[t].dead].orphaned THEN 1 ELSE 0
  /\ Goes(t, "release")
  /\ UNCHANGED <<mounts, root, disk, node, refcount, cache, unused, mutex, file>>

\* ext2_vnode_release, with the inode given back once its last name is gone, and the structure freed
Release(t) ==
  LET v == th[t].dead  last == node[v].links = 0 IN
  /\ At(t, "release")
  /\ node' = [w \in Nodes |-> IF w = v THEN Freed(v)
                ELSE [node[w] EXCEPT !.stale = @ \/ (last /\ node[w].live /\ node[w].ino = node[v].ino)]]
  /\ inode' = IF last THEN [inode EXCEPT ![node[v].ino] = NoInode] ELSE inode
  /\ root' = root - Parents(v)
  /\ Continues(t, th[t].drop)
  /\ UNCHANGED <<mounts, orphans, dir, refcount, cache, unused, mutex, file>>

-----------------------------------------------------------------------------
\* vfs_unmount: nobody comes in any more
Unmount ==
  /\ MayUnmount /\ umount = "idle" /\ mount = "mounted"
  /\ mount' = "unmounting"
  /\ umount' = "orphans"
  /\ UNCHANGED <<history, orphans, root, disk, node, refcount, cache, unused, mutex, th, file>>

Busy == mount' = "mounted" /\ umount' = "idle"

CheckOrphans ==
  /\ umount = "orphans"
  /\ IF orphans # 0 THEN Busy ELSE umount' = "in_use" /\ UNCHANGED mount
  /\ UNCHANGED <<history, orphans, root, disk, node, refcount, cache, unused, mutex, th, file>>

CachedNodes == {v \in Nodes : node[v].live /\ IsCached(v)}
Counted(S) == FoldSet(LAMBDA v, sum : sum + refcount[v], 0, S)
Directories(S) == Cardinality({v \in S : node[v].kind = "dir"})

\* What neither check sees: a vnode that was unlinked after the first one, and a vnode that its
\* last holder is about to put back or destroy
Unseen ==
  (IF orphans # 0 THEN {"orphan"} ELSE {})
  \cup (IF \E t \in Threads : th[t].pc \in {"keep", "destroy", "release"} THEN {"leaving"} ELSE {})

\* Slip: the root's own references are not counted
vcache_in_use_slip == Counted(CachedNodes) > Directories(CachedNodes)

vcache_in_use == root + Counted(CachedNodes) > 1 + Directories(CachedNodes)

CheckInUse ==
  /\ umount = "in_use"
  /\ IF vcache_in_use THEN Busy ELSE umount' = "evict" /\ UNCHANGED mount
  /\ missed' = Unseen
  /\ UNCHANGED <<late, misused, twice, orphans, root, disk, node, refcount, cache, unused, mutex, th, file>>

\* The volume leaves the mount list, and vcache_evict empties the cache of it
Evict ==
  /\ umount = "evict"
  /\ mount' = "detached"
  /\ umount' = "free"
  /\ cache' = [i \in Inos |-> None]
  /\ node' = [v \in Nodes |-> IF v \in Range(unused) THEN Freed(v) ELSE node[v]]
  /\ root' = root - Directories(Range(unused))
  /\ unused' = <<>>
  /\ UNCHANGED <<history, orphans, disk, refcount, mutex, th, file>>

\* ext2_unmount drops the root's vnode, and the volume's structures are freed
FreeFs ==
  /\ umount = "free"
  /\ umount' = "idle"
  /\ mount' = "gone"
  /\ root' = root - 1
  /\ UNCHANGED <<history, orphans, disk, node, refcount, cache, unused, mutex, th, file>>

Step(t) ==
  \/ \E op \in Does[t], name \in Names, to \in Names \cup {None} : Cross(t, op, name, to)
  \/ Leave(t) \/ RenameLock(t) \/ Lookup(t) \/ Get(t) \/ Fill(t) \/ Insert(t) \/ InsertFails(t)
  \/ Create(t) \/ Link(t) \/ Unlink(t) \/ Rename(t) \/ Orphan(t)
  \/ Close(t) \/ Decref(t) \/ Keep(t) \/ KeepGone(t) \/ Destroy(t) \/ Release(t)

Next ==
  /\ ~misused
  /\ (\E t \in Threads : Step(t)) \/ Unmount \/ CheckOrphans \/ CheckInUse \/ Evict \/ FreeFs

Spec == Init /\ [][Next]_vars

-----------------------------------------------------------------------------
TypeOK ==
  /\ mount \in {"mounted", "unmounting", "detached", "gone"}
  /\ umount \in {"idle", "orphans", "in_use", "evict", "free"}
  /\ orphans \in Int /\ root \in Int /\ missed \subseteq {"orphan", "leaving"}
  /\ late \in BOOLEAN /\ misused \in BOOLEAN /\ twice \in Nat
  /\ dir \in [Names -> Inos \cup {None}]
  /\ inode \in [Inos -> [used : BOOLEAN, links : 0..MaxLinks, kind : Kinds]]
  /\ \A v \in Nodes : node[v].live => node[v].ino \in Inos /\ node[v].kind \in Kinds
  /\ refcount \in [Nodes -> Nat]
  /\ cache \in [Inos -> Nodes \cup {None}]
  /\ Range(unused) \subseteq Nodes /\ mutex \in Threads \cup {None}
  /\ file \in [Threads -> Nodes \cup {None}]

Live(v) == node[v].live

\* The references threads hold to a vnode
Refs(v) ==
  FoldSet(LAMBDA t, sum : sum + (IF file[t] = v THEN 1 ELSE 0) + (IF th[t].at = v THEN 1 ELSE 0)
            + (IF th[t].src = v THEN 1 ELSE 0)
            + Cardinality({k \in DOMAIN th[t].drop : th[t].drop[k] = v /\ ~(k = 1 /\ At(t, "keep"))}), 0, Threads)
\* The unlinked vnodes that are not freed yet
Orphans == {v \in Nodes : Live(v) /\ node[v].orphaned /\ \A t \in Threads : ~(At(t, "release") /\ th[t].dead = v)}
\* The calls that have crossed into the volume
Inside == {t \in Threads : ~At(t, "idle") /\ th[t].op # "close"}

\* The vnodes whose inode has been read
Filled == {v \in Nodes : Live(v) /\ ~\E t \in Threads : At(t, "fill") /\ th[t].at = v}

\* Until a freed vnode is looked at: the count of a vnode is that of the references to it; that of the
\* unlinked vnodes, fs->orphans, is right but for the vnodes that two unlinks of two names count twice
\* (vnode.c:265); an unused vnode is cached, idle and listed once; and a cached one nobody holds is on
\* the list or about to be (vnode.c, vcache.c)
ReferencesAgree ==
  ~misused =>
    /\ \A v \in Nodes : Live(v) => refcount[v] = Refs(v)
    /\ orphans = Cardinality(Orphans) + twice
    /\ mount # "gone" => root = 1 + Cardinality(Inside) + Directories(Filled)
    /\ Len(unused) <= MaxUnused /\ IsInjective(unused)
    /\ \A v \in Range(unused) : Live(v) /\ IsCached(v) /\ refcount[v] = 0
    /\ \A v \in CachedNodes : refcount[v] = 0 => v \in Range(unused) \/ Parting(v)

\* A vnode is not freed under a thread that has it, and no two threads free it.  There is one
\* exception: a vnode that was looked up between the decref that took its count to zero
\* (vnode.c:640) and the vcache_keep after it may be put back, and freed, by the other thread first
FreedIsLeft ==
  \A t \in Threads, v \in Nodes :
    /\ v \in {th[t].at, th[t].src, th[t].dead, file[t]} \cup Range(th[t].drop) => Live(v) \/ node[v].taken
    /\ At(t, "keep") /\ v = Head(th[t].drop) => ~Gone(v) \/ node[v].taken

\* An inode's count of links is its names', it is in use while it has a name or a vnode that will
\* give it back, every name leads all who have the file open to one vnode, which counts the links too,
\* and no vnode outlives its inode, unless one was cached whose inode had lost its last name, or got
\* or lost one, since it was read or created (vnode.c:82 and 132), or was used after it was freed
NamesAreTrue ==
  ~late /\ ~misused =>
    /\ \A i \in Inos :
         /\ inode[i].links = Cardinality({n \in Names : dir[n] = i})
         /\ inode[i].used => inode[i].links > 0 \/ \E v \in Nodes : Live(v) /\ node[v].ino = i /\ node[v].links = 0
         /\ cache[i] # None => node[cache[i]].ino = i /\ node[cache[i]].links = inode[i].links /\ inode[i].links > 0
    /\ \A t, u \in Threads :
         file[t] # None /\ file[u] # None /\ Live(file[t]) /\ Live(file[u])
           => LET v == node[file[t]]  w == node[file[u]] IN
              /\ v.ino = w.ino /\ v.links > 0 /\ w.links > 0 => file[t] = file[u]
              /\ ~v.stale

\* A volume is taken apart once nothing of it is in use: no call is inside, no file is open, and at
\* the end none of its vnodes is left.  Two things escape the checks of vfs_unmount (mount.c:350): a file
\* that is open and was unlinked after fs->orphans was read, and a vnode that its last holder is
\* putting back, in a close, which is not a call that crossed in
UnmountLeavesNone ==
  mount \in {"detached", "gone"} /\ ~misused =>
    /\ "orphan" \notin missed => Inside = {} /\ \A t \in Threads : file[t] = None
    /\ missed = {} => /\ \A t \in Threads : At(t, "idle")
                      /\ umount = "idle" => root = 0 /\ \A v \in Nodes : ~Live(v)

\* "Unlinked vnodes still referenced; they keep the filesystem busy" (mount.h:52): as long as a file of
\* the volume is open, unlinked or not, the volume is not taken apart
OpenKeepsMounted == mount \in {"detached", "gone"} => \A t \in Threads : file[t] = None

\* "before the entry can be reused, or a new file there gets this vnode" (vnode.c:260): a name does
\* not lead to a cached vnode that is older than its file
NewFileHasNewNode == \A n \in Names : dir[n] # None /\ cache[dir[n]] # None => ~node[cache[dir[n]]].stale

=============================================================================
