------------------------------ MODULE MCDevices ------------------------------
(* Devices in one run, from the tree they are found in to the files on them, and *)
(* the processes that use them.                                                  *)
(* A behaviour is of one scene: a framebuffer whose mode changes and a terminal  *)
(* that is removed (CharDevice); a disk with partitions and a port with two      *)
(* requests (BlockDevice); interrupt lines (Irq); the tree of devices            *)
(* (DeviceTree) and its readers (HwTree), and those of the log (KpLog); files    *)
(* that are opened, linked and renamed on a volume (Vnode); processes that fork, *)
(* wait, exit and are adopted (Family).  The variables of the other scenes are   *)
(* None.                                                                         *)
EXTENDS FiniteSets, Integers, TLC

CONSTANT None

VARIABLES scene, listed, refcount, events, node, in_flight, pc, present, refs, dir,
          removed, open_lock, open_count, exclusive, mounted, indir, call_lock, going, mode, o_excl, files,
          region, pmap, tlb, opened, released,
          parts, read, ctx, port_lock, dma, hooked, ie, isr, ci, is, irq_status, done, via, how, result, performed,
          handler, hart_users, line, actions, lock, masked, raised, disp, line_mutex, irq_table_lock, on, number,
          up, state, driver, failed, offline, gone, links, waits_for, waits_fw, pending, queue, stack, held,
          asked, left,
          mount, umount, orphans, root, inode, cache, unused, mutex, th, file, missed, late, misused, twice,
          next_seq, kept, listeners, robbed, lost, room, copied,
          first_seq, logging, queued, ticking, cursor, got, counted,
          children, of, ifaces, events_lock, worker, ring, snapshot_lock, cached, taken, after, snapshot, offset,
          seq, walk, picture,
          life, proctable, ppid, kids, zombies, collected, located, note, want, target, parent, destroyed, told

charVars == <<removed, open_lock, open_count, exclusive, mounted, indir, call_lock, going, mode, o_excl,
              files, region, pmap, tlb, opened, released>>
blockVars == <<parts, read, ctx, port_lock, dma, hooked, ie, isr, ci, is, irq_status, done, via, how,
               result, performed>>
lineVars == <<handler, hart_users, line, actions, lock, masked, raised, disp, line_mutex,
              irq_table_lock, on, number>>
treeVars == <<up, state, driver, failed, offline, gone, links, waits_for, waits_fw, pending, queue,
              stack, held, asked, left>>
fileVars == <<mount, umount, orphans, root, inode, cache, unused, mutex, th, file, missed, late, misused, twice>>
feedVars == <<next_seq, kept, listeners, robbed, lost, room, copied>>
logVars == <<first_seq, logging, queued, ticking, cursor, got, counted>>
nodeVars == <<children, of, ifaces, events_lock, worker, ring, snapshot_lock, cached, taken, after, snapshot, offset,
              seq, walk, picture>>
readVars == <<feedVars, logVars, nodeVars>>
familyVars == <<life, proctable, ppid, kids, zombies, collected, located, note, want, target, parent, destroyed, told>>

Framebuffer == INSTANCE CharDevice WITH
    Programs <- {"p", "q"}, Driver <- "d", Modes <- {1, 2}, Kind <- "fb", Does <- {"call", "mode", "map"}
Terminal == INSTANCE CharDevice WITH
    Programs <- {"p", "q"}, Driver <- "d", Modes <- {1}, Kind <- "tty", Does <- {"call", "exclusive", "refuse"}

\* A client and a disk whose table is read three times and whose commands are polled; two clients of one port.
Partitioned == INSTANCE BlockDevice WITH
    Clients <- {"c"}, Driver <- "d", Parts <- {1, 2, 3}, Does <- {"find", "rescan"}
Port == INSTANCE BlockDevice WITH
    Clients <- {"c", "e"}, Driver <- "d", Parts <- {}, Does <- {"irq"}

\* Two harts with one number each, which a global handler may take; two drivers share a line,
\* a third would have it alone, and the last has a message of its own.
Interrupts == INSTANCE Irq WITH
    Harts <- {"h", "k"}, Drivers <- {"d", "e", "f", "g"}, Global <- "global", Numbers <- {0}, Exclusive <- {"f"},
    Source <- [d \in {"d", "e", "f", "g"} |-> IF d = "g" THEN "msi" ELSE "gsi"]

\* A bus, which may refuse to go, with a provider, which may fail, and a consumer elsewhere.
Tree == INSTANCE DeviceTree WITH
    Fw <- {"b", "p", "c"}, Parent <- "b" :> None @@ "p" :> "b" @@ "c" :> None,
    DependsOn <- "b" :> None @@ "p" :> None @@ "c" :> "p",
    Fails <- {"p"}, Refuses <- {"b"}, Lives <- 2, Held <- {"p"}, Asks <- {"unbind"}, Bound <- 2
Shaken == INSTANCE DeviceTree WITH
    Fw <- {"b", "p", "c"}, Parent <- "b" :> None @@ "p" :> "b" @@ "c" :> None,
    DependsOn <- "b" :> None @@ "p" :> None @@ "c" :> "p",
    Fails <- {"p"}, Refuses <- {"b"}, Lives <- 2, Held <- {"p"},
    Asks <- {"unbind", "notify", "eject", "rescan"}, Bound <- 1

\* One name that is a file or a directory on a volume that is unmounted; two names of one file,
\* which two threads unlink; two files that change names.
Opened == INSTANCE Vnode WITH
    Threads <- {"t", "u"}, Nodes <- 11 .. 13, Inos <- {1}, Names <- {"a"}, MaxUnused <- 1, MayUnmount <- TRUE,
    Does <- "t" :> {"open", "create", "mkdir"} @@ "u" :> {"unlink", "rmdir"}
Linked == INSTANCE Vnode WITH
    Threads <- {"t", "u"}, Nodes <- 11 .. 13, Inos <- {1}, Names <- {"a", "b"}, MaxUnused <- 1, MayUnmount <- FALSE,
    Does <- "t" :> {"create", "link", "unlink"} @@ "u" :> {"unlink"}
Renamed == INSTANCE Vnode WITH
    Threads <- {"t", "u"}, Nodes <- 11 .. 13, Inos <- {1, 2}, Names <- {"a", "b"}, MaxUnused <- 1, MayUnmount <- FALSE,
    Does <- "t" :> {"rename"} @@ "u" :> {"create"}

\* A reader of the log, which seeks; two that wait for records.
LogReader == INSTANCE KpLog WITH
    Files <- {"f"}, Writers <- {"w", "x"}, Capacity <- 2, Rooms <- {0, 1, 2}, MaxSeq <- 5, Seeks <- TRUE,
    pending <- kept, result <- got
LogReaders == INSTANCE KpLog WITH
    Files <- {"f", "g"}, Writers <- {"w"}, Capacity <- 2, Rooms <- {1}, MaxSeq <- 3, Seeks <- FALSE,
    pending <- kept, result <- got

\* A reader of the tree while a device is bound and unbound, fails to bind, and while one of two
\* devices, or a device and its child, are removed; two readers.
Binding == INSTANCE HwTree WITH
    Nodes <- {"a"}, Parent <- "a" :> "root", Files <- {"f"}, Snapshots <- {"s", "t"}, Capacity <- 2, Rooms <- {1},
    Changes <- {"bind", "unbind"}, MaxSeq <- 4, Root <- "root", state <- of, pending <- kept
Failing == INSTANCE HwTree WITH
    Nodes <- {"a"}, Parent <- "a" :> "root", Files <- {"f"}, Snapshots <- {"s", "t"}, Capacity <- 2, Rooms <- {1},
    Changes <- {"bind", "fail", "nomem"}, MaxSeq <- 3, Root <- "root", state <- of, pending <- kept
Removing == INSTANCE HwTree WITH
    Nodes <- {"a", "b"}, Parent <- "a" :> "root" @@ "b" :> "root", Files <- {"f"}, Snapshots <- {"s", "t"},
    Capacity <- 2, Rooms <- {1},
    Changes <- {"remove"}, MaxSeq <- 3, Root <- "root", state <- of, pending <- kept
Nested == INSTANCE HwTree WITH
    Nodes <- {"a", "b"}, Parent <- "a" :> "root" @@ "b" :> "a", Files <- {"f"}, Snapshots <- {"s", "t"},
    Capacity <- 2, Rooms <- {1},
    Changes <- {"remove"}, MaxSeq <- 4, Root <- "root", state <- of, pending <- kept
Reading == INSTANCE HwTree WITH
    Nodes <- {"a"}, Parent <- "a" :> "root", Files <- {"f", "g"}, Snapshots <- {"s", "t", "u"}, Capacity <- 1, Rooms <- {3},
    Changes <- {"remove", "again"}, MaxSeq <- 1, Root <- "root", state <- of, pending <- kept

\* Init, a process with two threads, and two processes to be forked, the first of which may fork the
\* second, and forks run out of memory; two threads that wait for the same children, where init
\* collects none.
Forking == INSTANCE Family WITH
    Procs <- {"i", "p", "q", "r"}, InitProc <- "i", First <- "p", Threads <- {"ti", "p1", "p2", "tq"},
    Of <- "ti" :> "i" @@ "p1" :> "p" @@ "p2" :> "p" @@ "tq" :> "q",
    Wants <- "ti" :> {"any"} @@ "p1" :> {"any", "q"} @@ "p2" :> {"q"} @@ "tq" :> {"r"},
    Kids <- "ti" :> {} @@ "p1" :> {"q"} @@ "p2" :> {"q"} @@ "tq" :> {"r"},
    ForksFail <- TRUE, AnyChild <- "any", children <- kids
Waiting == INSTANCE Family WITH
    Procs <- {"i", "p", "q", "r"}, InitProc <- "i", First <- "p", Threads <- {"p1", "p2"},
    Of <- "p1" :> "p" @@ "p2" :> "p",
    Wants <- "p1" :> {"any", "q"} @@ "p2" :> {"q", "r"},
    Kids <- "p1" :> {"q"} @@ "p2" :> {"q", "r"},
    ForksFail <- FALSE, AnyChild <- "any", children <- kids

ASSUME Partitioned!NoneAssumption /\ Port!NoneAssumption /\ Interrupts!NumbersAssumption
ASSUME Tree!LivesAssumption /\ Shaken!LivesAssumption
ASSUME LogReader!BoundAssumption /\ LogReader!SeeksAssumption /\ LogReaders!BoundAssumption
ASSUME Binding!BoundAssumption /\ Failing!BoundAssumption /\ Removing!BoundAssumption /\ Nested!BoundAssumption /\ Reading!BoundAssumption
ASSUME Opened!LimitAssumption /\ Linked!LimitAssumption /\ Renamed!LimitAssumption
ASSUME Forking!TreeAssumption /\ Forking!ThreadsAssumption /\ Forking!KidsAssumption /\ Forking!OutsideAssumption
ASSUME Waiting!TreeAssumption /\ Waiting!ThreadsAssumption /\ Waiting!KidsAssumption /\ Waiting!OutsideAssumption

NoChar ==
    /\ removed = None /\ open_lock = None /\ open_count = None /\ exclusive = None /\ mounted = None
    /\ indir = None /\ call_lock = None /\ going = None /\ mode = None /\ o_excl = None /\ files = None
    /\ region = None /\ pmap = None /\ tlb = None /\ opened = None /\ released = None
NoBlock ==
    /\ parts = None /\ read = None /\ ctx = None /\ port_lock = None /\ dma = None /\ hooked = None
    /\ ie = None /\ isr = None /\ ci = None /\ is = None /\ irq_status = None /\ done = None
    /\ via = None /\ how = None /\ result = None /\ performed = None
NoLine ==
    /\ handler = None /\ hart_users = None /\ line = None /\ actions = None /\ lock = None
    /\ masked = None /\ raised = None /\ disp = None /\ line_mutex = None /\ irq_table_lock = None
    /\ on = None /\ number = None
NoTree ==
    /\ up = None /\ state = None /\ driver = None /\ failed = None /\ offline = None /\ gone = None
    /\ links = None /\ waits_for = None /\ waits_fw = None /\ pending = None /\ queue = None
    /\ stack = None /\ held = None /\ asked = None /\ left = None
NoFile ==
    /\ mount = None /\ umount = None /\ orphans = None /\ root = None /\ inode = None /\ cache = None
    /\ unused = None /\ mutex = None /\ th = None /\ file = None /\ missed = None /\ late = None
    /\ misused = None /\ twice = None
NoFeed ==
    /\ next_seq = None /\ kept = None /\ listeners = None /\ robbed = None /\ lost = None /\ room = None /\ copied = None
NoLog ==
    /\ first_seq = None /\ logging = None /\ queued = None /\ ticking = None /\ cursor = None /\ got = None
    /\ counted = None
NoNodes ==
    /\ children = None /\ of = None /\ ifaces = None /\ events_lock = None /\ worker = None /\ ring = None
    /\ snapshot_lock = None /\ cached = None /\ taken = None /\ after = None /\ snapshot = None /\ offset = None
    /\ seq = None /\ walk = None /\ picture = None
NoFamily ==
    /\ life = None /\ proctable = None /\ ppid = None /\ kids = None /\ zombies = None /\ collected = None
    /\ located = None /\ note = None /\ want = None /\ target = None /\ parent = None /\ destroyed = None /\ told = None
NoReads == NoFeed /\ NoLog /\ NoNodes

OnlyChar ==
    /\ NoBlock /\ NoLine /\ NoTree /\ NoFile /\ NoReads /\ NoFamily
    /\ present = None /\ refs = None /\ dir = None
BesideChar == <<blockVars, lineVars, treeVars, fileVars, present, refs, dir, readVars, familyVars>>

OnlyBlock ==
    /\ NoChar /\ NoLine /\ NoTree /\ NoFile /\ NoReads /\ NoFamily
    /\ refcount = None /\ in_flight = None
BesideBlock == <<charVars, lineVars, treeVars, fileVars, refcount, in_flight, readVars, familyVars>>

OnlyLine ==
    /\ NoChar /\ NoBlock /\ NoTree /\ NoFile /\ NoReads /\ NoFamily
    /\ listed = None /\ refcount = None /\ events = None /\ node = None /\ present = None /\ refs = None /\ dir = None
BesideLine == <<charVars, blockVars, treeVars, fileVars, listed, refcount, events, node, present, refs, dir, readVars, familyVars>>

OnlyTree ==
    /\ NoChar /\ NoBlock /\ NoLine /\ NoFile /\ NoReads /\ NoFamily
    /\ listed = None /\ refcount = None /\ events = None /\ node = None /\ in_flight = None /\ pc = None /\ dir = None
BesideTree == <<charVars, blockVars, lineVars, fileVars, listed, refcount, events, node, in_flight, pc, dir, readVars, familyVars>>

OnlyFile ==
    /\ NoChar /\ NoBlock /\ NoLine /\ NoTree /\ NoReads /\ NoFamily
    /\ listed = None /\ events = None /\ in_flight = None /\ pc = None /\ present = None /\ refs = None
BesideFile == <<charVars, blockVars, lineVars, treeVars, listed, events, in_flight, pc, present, refs, readVars, familyVars>>

OnlyRead ==
    /\ NoChar /\ NoBlock /\ NoLine /\ NoTree /\ NoFile /\ NoFamily
    /\ listed = None /\ events = None /\ node = None /\ in_flight = None /\ present = None /\ refs = None /\ dir = None
BesideRead == <<charVars, blockVars, lineVars, treeVars, fileVars, listed, events, node, in_flight, present, refs, dir, familyVars>>

OnlyLog == OnlyRead /\ NoNodes /\ refcount = None
BesideLog == <<BesideRead, nodeVars, refcount>>

OnlyNodes == OnlyRead /\ NoLog
BesideNodes == <<BesideRead, logVars>>

OnlyFamily ==
    /\ NoChar /\ NoBlock /\ NoLine /\ NoTree /\ NoFile /\ NoReads
    /\ listed = None /\ events = None /\ node = None /\ in_flight = None /\ present = None /\ refs = None /\ dir = None
BesideFamily == <<charVars, blockVars, lineVars, treeVars, fileVars, listed, events, node, in_flight, present, refs, dir, readVars>>

Start ==
    \/ scene = "framebuffer" /\ Framebuffer!Init /\ OnlyChar
    \/ scene = "terminal" /\ Terminal!Init /\ OnlyChar
    \/ scene = "partitioned" /\ Partitioned!Init /\ OnlyBlock
    \/ scene = "port" /\ Port!Init /\ OnlyBlock
    \/ scene = "interrupts" /\ Interrupts!Init /\ OnlyLine
    \/ scene = "tree" /\ Tree!Init /\ OnlyTree
    \/ scene = "shaken" /\ Shaken!Init /\ OnlyTree
    \/ scene = "opened" /\ Opened!Init /\ OnlyFile
    \/ scene = "linked" /\ Linked!Init /\ OnlyFile
    \/ scene = "renamed" /\ Renamed!Init /\ OnlyFile
    \/ scene = "log reader" /\ LogReader!Init /\ OnlyLog
    \/ scene = "log readers" /\ LogReaders!Init /\ OnlyLog
    \/ scene = "binding" /\ Binding!Init /\ OnlyNodes
    \/ scene = "failing" /\ Failing!Init /\ OnlyNodes
    \/ scene = "removing" /\ Removing!Init /\ OnlyNodes
    \/ scene = "nested" /\ Nested!Init /\ OnlyNodes
    \/ scene = "reading" /\ Reading!Init /\ OnlyNodes
    \/ scene = "forks" /\ Forking!Init /\ OnlyFamily
    \/ scene = "waits" /\ Waiting!Init /\ OnlyFamily

Step ==
    /\ UNCHANGED scene
    /\ \/ scene = "framebuffer" /\ Framebuffer!Next /\ UNCHANGED BesideChar
       \/ scene = "terminal" /\ Terminal!Next /\ UNCHANGED BesideChar
       \/ scene = "partitioned" /\ Partitioned!Next /\ UNCHANGED BesideBlock
       \/ scene = "port" /\ Port!Next /\ UNCHANGED BesideBlock
       \/ scene = "interrupts" /\ Interrupts!Next /\ UNCHANGED BesideLine
       \/ scene = "tree" /\ Tree!Next /\ UNCHANGED BesideTree
       \/ scene = "shaken" /\ Shaken!Next /\ UNCHANGED BesideTree
       \/ scene = "opened" /\ Opened!Next /\ UNCHANGED BesideFile
       \/ scene = "linked" /\ Linked!Next /\ UNCHANGED BesideFile
       \/ scene = "renamed" /\ Renamed!Next /\ UNCHANGED BesideFile
       \/ scene = "log reader" /\ LogReader!Next /\ UNCHANGED BesideLog
       \/ scene = "log readers" /\ LogReaders!Next /\ UNCHANGED BesideLog
       \/ scene = "binding" /\ Binding!Next /\ UNCHANGED BesideNodes
       \/ scene = "failing" /\ Failing!Next /\ UNCHANGED BesideNodes
       \/ scene = "removing" /\ Removing!Next /\ UNCHANGED BesideNodes
       \/ scene = "nested" /\ Nested!Next /\ UNCHANGED BesideNodes
       \/ scene = "reading" /\ Reading!Next /\ UNCHANGED BesideNodes
       \/ scene = "forks" /\ Forking!Next /\ UNCHANGED BesideFamily
       \/ scene = "waits" /\ Waiting!Next /\ UNCHANGED BesideFamily

vars == <<scene, listed, refcount, events, node, in_flight, pc, present, refs, dir,
          charVars, blockVars, lineVars, treeVars, fileVars, readVars, familyVars>>

Scenes == Start /\ [][Step]_vars
-------------------------------------------------------------------------------
\* char_interface_remove, fb_interface_remove, vms_revoke, port_teardown, interrupt_detach: once a
\* device is taken away, or a handler detached, no program, no translation, no command of the
\* hardware and no interrupt is still in what the driver takes apart.  A region that munmap is
\* taking away is excepted: it is off the device's list (vms.c:438) before its pages are unmapped,
\* so vms_revoke returns while they still translate to the device's memory.
RemovedIsLeft ==
    /\ scene = "framebuffer" => Framebuffer!RemovedIsLeft /\ Framebuffer!OldMemoryIsUnmapped
    /\ scene = "terminal"    => Terminal!RemovedIsLeft /\ Terminal!RefusedIsNotOpened
    /\ scene = "partitioned" => Partitioned!CommandHasItsMemory
    /\ scene = "port"        => Port!CommandHasItsMemory
    /\ scene = "interrupts"  => Interrupts!DetachedIsLeft

\* char_interface_open, block_interface_decref, device_decref: whoever opens, looks up, removes or
\* fails, the counts are those of the references there are, and a terminal is not freed under the
\* driver that removes it.  A framebuffer is: fb_interface_remove has no reference of its own, and
\* goes on with the interface after char_interface_remove dropped what may be the last
\* (fb_interface.c:586-593).  And an ahci_attach that fails with -EAGAIN leaves its disks
\* registered and its context behind (ahci.c:976), which the counts then hold for good.
DevicesAreCounted ==
    /\ scene = "framebuffer" => Framebuffer!TypeOK /\ Framebuffer!ReferencesAgree
    /\ scene = "terminal"    =>
        Terminal!TypeOK /\ Terminal!ReferencesAgree /\ Terminal!DriverIsOpenForFiles /\ Terminal!RemoverHasDevice
    /\ scene = "partitioned" => Partitioned!TypeOK /\ Partitioned!ReferencesAgree
    /\ scene = "port"        => Port!TypeOK /\ Port!ReferencesAgree
    /\ scene = "tree"        => Tree!TypeOK /\ Tree!ReferencesAgree /\ Tree!FreedIsBare
    /\ scene = "shaken"      => Shaken!TypeOK /\ Shaken!ReferencesAgree /\ Shaken!FreedIsBare
    /\ scene = "binding"     => Binding!TypeOK /\ Binding!SnapshotsAreCounted
    /\ scene = "failing"     => Failing!TypeOK /\ Failing!SnapshotsAreCounted
    /\ scene = "removing"    => Removing!TypeOK /\ Removing!SnapshotsAreCounted
    /\ scene = "nested"      => Nested!TypeOK /\ Nested!SnapshotsAreCounted
    /\ scene = "reading"     => Reading!TypeOK /\ Reading!SnapshotsAreCounted

\* ahci_wait, block_submit_wait, handle_block_event: a request that succeeded was carried out,
\* whenever the interrupt comes, and partitions, known and in the directory, come and go with
\* their disk.
RequestsAreTrue ==
    /\ scene = "partitioned" => Partitioned!SuccessIsTrue /\ Partitioned!PartitionsFollowDisk
    /\ scene = "port"        => Port!SuccessIsTrue /\ Port!PartitionsFollowDisk

\* irq_handler_add_hart, interrupt_bind_line, interrupt_detach: what a source may raise finds its
\* line, and a hart never spins in an interrupt on a lock that it holds below it.
InterruptsFindTheirLine ==
    scene = "interrupts" => Interrupts!TypeOK /\ Interrupts!NumbersAreOwned /\ Interrupts!NoSpinOnOwnHart

\* bind, wake_waiters, unbind_consumers: in whatever order firmware and requests come, the tree
\* settles with every node bound that can be, and none on a provider that is not.
TreeSettles == (scene = "tree" => Tree!SettledIsBound) /\ (scene = "shaken" => Shaken!SettledIsBound)

\* vnode_decref, vcache_keep, vcache_get: the counts of vnodes are those of the references there
\* are, an unused one is found in the cache, and none is freed under a thread that has it, but for
\* one that another thread took between the decref to zero (vnode.c:640) and the vcache_keep after
\* it; fs->orphans counts the unlinked ones, and those twice that two threads unlink by two names
\* at once (vnode.c:265).
VnodesAreCounted ==
    /\ scene = "opened"  => Opened!TypeOK /\ Opened!ReferencesAgree /\ Opened!FreedIsLeft
    /\ scene = "linked"  => Linked!TypeOK /\ Linked!ReferencesAgree /\ Linked!FreedIsLeft
    /\ scene = "renamed" => Renamed!TypeOK /\ Renamed!ReferencesAgree /\ Renamed!FreedIsLeft

\* unlink_crossed, rename_crossed, lookup_crossed: an inode has as many links as names, everyone
\* who opens a name gets the same vnode, and it is not that of a file that is gone, unless a
\* lookup or a create was overtaken, before it cached its vnode, by the unlink of what it found or
\* made (NewFileHasNewNode of Vnode).
NamesAreTrue ==
    /\ scene = "opened"  => Opened!NamesAreTrue
    /\ scene = "linked"  => Linked!NamesAreTrue
    /\ scene = "renamed" => Renamed!NamesAreTrue

\* vfs_unmount: a volume is taken apart only when no file is open on it and no call is in it, unless
\* an open file was unlinked between its two checks (OpenKeepsMounted of Vnode) or a close is
\* putting its vnode back.
UnmountLeavesNone == scene = "opened" => Opened!UnmountLeavesNone

\* kplog_read and hwtree_read: whatever is logged between two reads, a record is never both given
\* and reported lost, nor reported lost twice; whatever of the tree is dropped from the ring or read
\* from a cached snapshot, a reader that read all there is knows the devices that are present or
\* wait for a driver; and none sleeps over what it has not read.  Two exceptions: a walk that stands
\* on a device as it is removed ends there (hwtree.c:249), and its reader does not know what comes
\* after; and a wakeup goes to one reader, which may leave another asleep.
ReadersAreServed ==
    /\ scene = "log reader"  => LogReader!TypeOK /\ LogReader!NeverOverstated /\ LogReader!ReaderIsWoken
    /\ scene = "log readers" => LogReaders!TypeOK /\ LogReaders!NeverOverstated /\ LogReaders!ReaderIsWoken
    /\ scene = "binding"     => Binding!ReaderKnowsWhatWasWalked /\ Binding!ReaderIsWoken
    /\ scene = "failing"     => Failing!ReaderKnowsWhatWasWalked /\ Failing!ReaderIsWoken
    /\ scene = "removing"    => Removing!ReaderKnowsWhatWasWalked /\ Removing!ReaderIsWoken
    /\ scene = "nested"      => Nested!ReaderKnowsWhatWasWalked /\ Nested!ReaderIsWoken
    /\ scene = "reading"     => Reading!ReaderKnowsWhatWasWalked /\ Reading!ReaderIsWoken

\* process_incref, process_decref, reparent_children and process_destroy: a child is in the
\* list of the process its ppid names and in no other, a process that was freed is in no
\* list and in nobody's hands, and one that nobody has to do with any more is freed.
ReferencesAgree ==
    /\ scene = "forks" => Forking!TypeOK /\ Forking!InItsParentsList /\ Forking!NoUseAfterFree /\ Forking!NoLeak
    /\ scene = "waits" => Waiting!TypeOK /\ Waiting!InItsParentsList /\ Waiting!NoUseAfterFree /\ Waiting!NoLeak

\* "One side or the other always gets to init" (process.c:117): however the death of a
\* child and that of its parent interleave, the parent it ends up with gets a SIGCHLD, and
\* no thread sleeps in wait_child over a zombie it may collect, or, as long as no fork
\* fails, with no child left to wait for.
DeathIsTold ==
    /\ scene = "forks" => Forking!ZombieIsTold /\ Forking!SleeperIsWoken
    /\ scene = "waits" => Waiting!ZombieIsTold /\ Waiting!SleeperIsWoken /\ Waiting!SleeperHasChild
==============================================================================
