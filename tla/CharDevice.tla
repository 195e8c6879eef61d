----------------------------- MODULE CharDevice -----------------------------
(* kernel/dev/char_interface.c and char_event.c, the directory of devices in     *)
(* fs/devfs, the calls in flight of dev/fb_interface.c and tty_interface.c, and   *)
(* the mappings of a device's memory in mm/vms.c: one device from its being       *)
(* added to its last reference, and the programs that open, use and map it.       *)
(*                                                                             *)
(* What is done under a spinlock is one step; open_lock, the mutex of the events  *)
(* and the lock around the calls of a driver are held across steps.  devfs_find   *)
(* takes a reference to a node that the directory keeps meanwhile, as it takes    *)
(* the mutex of the events to remove it: it is left out.                          *)
EXTENDS Integers, FiniteSets

CONSTANTS Programs, Driver, None,
          Modes,       \* the places of the device's memory, other than 0
          Kind,        \* of driver: "fb" or "tty"
          Does         \* bound: what is done to the device

VARIABLES listed, refcount, removed, open_lock, open_count, exclusive,
          events,      \* who holds events_mutex
          mounted,     \* whether devfs is, and has subscribed
          indir, node, \* whether the device is in the directory, and the references to its vnode
          in_flight, call_lock, going,  \* of the driver: its removed flag is going
          mode,        \* where the memory of the device is
          pc,          \* [Programs and Driver -> where it is]
          o_excl,      \* [Programs -> whether it opens with O_EXCL]
          files,       \* [Programs -> what refers to its open file: "fd", "map"]
          region,      \* [Programs -> "none", "tracked", "untracked", "unmapped"]
          pmap, tlb,   \* [Programs -> what its page is, and what harts may use], 0 for nothing
          opened,      \* history: the driver's open has run, and close has not
          released     \* history: how often release was called

registryVars == <<listed, refcount, removed, released>>
openVars  == <<open_lock, open_count, exclusive, o_excl, opened>>
dirVars   == <<mounted, indir, node>>
callVars  == <<in_flight, call_lock, going>>
mapVars   == <<region, pmap, tlb>>
vars == <<registryVars, openVars, events, dirVars, callVars, mode, pc, files, mapVars>>

Actors == Programs \cup {Driver}

Opens == Kind = "tty"   \* The driver has open and close;
Keeps == Kind = "tty"   \* tty_interface_remove takes a reference of its own;
Queues == Kind = "fb"   \* and enter takes a mutex for the call.

Init ==
    /\ listed = FALSE /\ refcount = 0 /\ removed = FALSE /\ released = 0
    /\ open_lock = None /\ open_count = 0 /\ exclusive = FALSE /\ opened = FALSE
    /\ events = None /\ mounted = FALSE /\ indir = FALSE /\ node = 0
    /\ in_flight = 0 /\ call_lock = None /\ going = FALSE
    /\ mode \in Modes
    /\ pc = [a \in Actors |-> "idle"] /\ o_excl = [p \in Programs |-> FALSE]
    /\ files = [p \in Programs |-> {}]
    /\ region = [p \in Programs |-> "none"]
    /\ pmap = [p \in Programs |-> 0] /\ tlb = [p \in Programs |-> 0]

At(a, where) == pc' = [pc EXCEPT ![a] = where]

\* vnode_decref and char_interface_decref: the last of the node's references releases one of
\* the interface, and the last of those the driver's data.
Drops(nodes, interfaces) ==
    LET left == refcount - interfaces - (IF nodes > 0 /\ node = nodes THEN 1 ELSE 0)
    IN  /\ node' = node - nodes
        /\ refcount' = left
        /\ released' = IF left = 0 /\ refcount > 0 THEN released + 1 ELSE released
-------------------------------------------------------------------------------
(* The list of devices, and the directory                                      *)

\* char_interface_register_internal, and devfs_char_event_handler, which may find no memory.
Add ==
    /\ pc[Driver] = "idle" /\ events = None
    /\ listed' = TRUE
    /\ \/ mounted /\ indir' = TRUE /\ node' = 1 /\ refcount' = 2
       \/ UNCHANGED <<indir, node>> /\ refcount' = 1
    /\ At(Driver, "added")
    /\ UNCHANGED <<removed, released, openVars, events, mounted, callVars, mode, files, mapVars>>

\* devfs_mount: char_event_subscribe replays the devices there are.
Mount ==
    /\ ~mounted /\ events = None
    /\ mounted' = TRUE
    /\ \/ listed /\ indir' = TRUE /\ node' = 1 /\ refcount' = refcount + 1
       \/ UNCHANGED <<indir, node, refcount>>
    /\ UNCHANGED <<listed, removed, released, openVars, events, callVars, mode, pc, files, mapVars>>

\* char_interface_refuse_opens, before the device of a line that is not open goes.
RefuseOpens ==
    /\ pc[Driver] = "added" /\ open_lock = None /\ "refuse" \in Does
    /\ open_count = 0
    /\ exclusive' = TRUE
    /\ At(Driver, "refused")
    /\ UNCHANGED <<registryVars, open_lock, open_count, o_excl, opened, events, dirVars, callVars, mode, files, mapVars>>

\* fb_interface_remove, tty_interface_remove: its own flag first.
Remove ==
    /\ pc[Driver] \in {"added", "refused"}
    /\ going' = TRUE
    /\ refcount' = IF Keeps THEN refcount + 1 ELSE refcount
    /\ At(Driver, "unlist")
    /\ UNCHANGED <<listed, removed, released, openVars, events, dirVars, in_flight, call_lock, mode, files, mapVars>>

\* char_interface_remove
Unlist ==
    /\ pc[Driver] = "unlist" /\ events = None
    /\ events' = Driver
    /\ listed' = FALSE
    /\ At(Driver, "mark")
    /\ UNCHANGED <<refcount, removed, released, openVars, dirVars, callVars, mode, files, mapVars>>

\* It waits out an open or close that is in the driver.
Mark ==
    /\ pc[Driver] = "mark" /\ open_lock = None
    /\ removed' = TRUE
    /\ At(Driver, "revoke")
    /\ UNCHANGED <<listed, refcount, released, openVars, events, dirVars, callVars, mode, files, mapVars>>

\* devfs_remove, after the mappings are revoked
Undir ==
    /\ pc[Driver] = "revoked"
    /\ indir' = FALSE
    /\ IF indir THEN Drops(1, 0) ELSE UNCHANGED <<node, refcount, released>>
    /\ events' = None
    /\ At(Driver, "drop")
    /\ UNCHANGED <<listed, removed, openVars, mounted, callVars, mode, files, mapVars>>

\* The reference of the registry
Drop ==
    /\ pc[Driver] = "drop"
    /\ Drops(0, 1)
    /\ At(Driver, "drain")
    /\ UNCHANGED <<listed, removed, openVars, events, mounted, indir, callVars, mode, files, mapVars>>

\* The driver's calls are waited for; then its memory may go.
Drain ==
    /\ pc[Driver] = "drain" /\ in_flight = 0
    /\ IF Keeps THEN Drops(0, 1) ELSE UNCHANGED <<node, refcount, released>>
    /\ At(Driver, "gone")
    /\ UNCHANGED <<listed, removed, openVars, events, mounted, indir, callVars, mode, files, mapVars>>
-------------------------------------------------------------------------------
(* Opening and closing                                                         *)

\* vnode_lookup in devfs
Lookup(p, excl) ==
    /\ pc[p] = "idle" /\ files[p] = {} /\ indir
    /\ node' = node + 1
    /\ o_excl' = [o_excl EXCEPT ![p] = excl]
    /\ At(p, "found")
    /\ UNCHANGED <<registryVars, open_lock, open_count, exclusive, opened, events, mounted, indir, callVars,
                   mode, files, mapVars>>

Refused(p) == removed \/ exclusive \/ (open_count > 0 /\ o_excl[p])

\* The open failed: vnode_decref
Fails(p) ==
    /\ Drops(1, 0)
    /\ o_excl' = [o_excl EXCEPT ![p] = FALSE]
    /\ At(p, "idle")

\* char_interface_open, to the driver's open
OpenBegin(p) ==
    /\ pc[p] = "found" /\ open_lock = None
    /\ \/ Refused(p) /\ Fails(p) /\ UNCHANGED open_lock
       \/ /\ ~Refused(p)
          /\ open_lock' = p
          /\ At(p, IF open_count = 0 /\ Opens THEN "opening" ELSE "open_file")
          /\ UNCHANGED <<node, refcount, released, o_excl>>
    /\ UNCHANGED <<listed, removed, open_count, exclusive, opened, events, mounted, indir, callVars, mode, files, mapVars>>

DriverOpen(p) ==
    /\ pc[p] = "opening"
    /\ opened' = TRUE
    /\ At(p, "open_file")
    /\ UNCHANGED <<registryVars, open_lock, open_count, exclusive, o_excl, events, dirVars, callVars, mode, files, mapVars>>

DriverOpenFails(p) ==
    /\ pc[p] = "opening"
    /\ Fails(p)
    /\ open_lock' = None
    /\ UNCHANGED <<listed, removed, open_count, exclusive, opened, events, mounted, indir, callVars, mode, files, mapVars>>

OpenFile(p) ==
    /\ pc[p] = "open_file"
    /\ open_count' = open_count + 1
    /\ exclusive' = o_excl[p]
    /\ open_lock' = None
    /\ files' = [files EXCEPT ![p] = {"fd"}]
    /\ At(p, "idle")
    /\ UNCHANGED <<registryVars, o_excl, opened, events, dirVars, callVars, mode, mapVars>>

\* Slip: after a failed open_file the driver is left open.
OpenFileFailsOpen(p) ==
    /\ pc[p] = "open_file"
    /\ Fails(p)
    /\ open_lock' = None
    /\ UNCHANGED <<listed, removed, open_count, exclusive, opened, events, mounted, indir, callVars, mode, files, mapVars>>

OpenFileFails(p) ==
    /\ pc[p] = "open_file"
    /\ opened' = (opened /\ open_count > 0)
    /\ Fails(p)
    /\ open_lock' = None
    /\ UNCHANGED <<listed, removed, open_count, exclusive, events, mounted, indir, callVars, mode, files, mapVars>>

\* The last reference to the file goes: char_interface_close, with the driver's close in it,
\* and vnode_decref.
CloseBegin(p) ==
    /\ pc[p] = "close" /\ open_lock = None
    /\ open_count' = open_count - 1
    /\ exclusive' = (exclusive /\ open_count > 1)
    /\ open_lock' = p
    /\ At(p, IF open_count = 1 /\ ~removed /\ Opens THEN "closing" ELSE "closed")
    /\ UNCHANGED <<registryVars, o_excl, opened, events, dirVars, callVars, mode, files, mapVars>>

DriverClose(p) ==
    /\ pc[p] = "closing"
    /\ opened' = FALSE
    /\ At(p, "closed")
    /\ UNCHANGED <<registryVars, open_lock, open_count, exclusive, o_excl, events, dirVars, callVars, mode, files, mapVars>>

CloseEnd(p) ==
    /\ pc[p] = "closed"
    /\ open_lock' = None
    /\ Fails(p)
    /\ UNCHANGED <<listed, removed, open_count, exclusive, opened, events, mounted, indir, callVars, mode, files, mapVars>>

Puts(p, ref) ==
    /\ files' = [files EXCEPT ![p] = @ \ {ref}]
    /\ At(p, IF files[p] = {ref} THEN "close" ELSE "idle")

CloseFd(p) ==
    /\ pc[p] = "idle" /\ "fd" \in files[p]
    /\ Puts(p, "fd")
    /\ UNCHANGED <<registryVars, openVars, events, dirVars, callVars, mode, mapVars>>
-------------------------------------------------------------------------------
(* Calls into the driver                                                       *)

\* char_interface_read, write, ioctl, and enter
Call(p) ==
    /\ pc[p] = "idle" /\ "fd" \in files[p] /\ ~removed /\ "call" \in Does
    /\ At(p, "enter")
    /\ UNCHANGED <<registryVars, openVars, events, dirVars, callVars, mode, files, mapVars>>

Enter(p) ==
    /\ pc[p] = "enter"
    /\ in_flight' = in_flight + 1
    /\ At(p, "entered")
    /\ UNCHANGED <<registryVars, openVars, events, dirVars, call_lock, going, mode, files, mapVars>>

Entered(p) ==
    /\ pc[p] = "entered"
    /\ \/ going /\ in_flight' = in_flight - 1 /\ At(p, "idle") /\ UNCHANGED call_lock
       \/ /\ ~going
          /\ Queues => call_lock = None
          /\ call_lock' = IF Queues THEN p ELSE None
          /\ At(p, "inside") /\ UNCHANGED in_flight
    /\ UNCHANGED <<registryVars, openVars, events, dirVars, going, mode, files, mapVars>>

Leaves(p) == call_lock' = None /\ in_flight' = in_flight - 1 /\ At(p, "idle")

Leave(p) ==
    /\ pc[p] = "inside"
    /\ Leaves(p)
    /\ UNCHANGED <<registryVars, openVars, events, dirVars, going, mode, files, mapVars>>

\* TIOCEXCL and TIOCNXCL: char_interface_set_exclusive
SetExclusive(p, on) ==
    /\ pc[p] = "inside" /\ open_lock = None /\ "exclusive" \in Does
    /\ exclusive' = on
    /\ Leaves(p)
    /\ UNCHANGED <<registryVars, open_lock, open_count, o_excl, opened, events, dirVars, going, mode, files, mapVars>>

\* ioctl_set_mode: the memory is elsewhere, and the mappings are revoked.
SetMode(p, m) ==
    /\ pc[p] = "inside" /\ "mode" \in Does
    /\ mode' = m
    /\ At(p, "notify")
    /\ UNCHANGED <<registryVars, openVars, events, dirVars, callVars, files, mapVars>>

Notify(p) ==
    /\ pc[p] = "notify" /\ events = None
    /\ events' = p
    /\ At(p, "revoke")
    /\ UNCHANGED <<registryVars, openVars, dirVars, callVars, mode, files, mapVars>>

Notified(p) ==
    /\ pc[p] = "revoked" /\ p # Driver
    /\ events' = None
    /\ Leaves(p)
    /\ UNCHANGED <<registryVars, openVars, dirVars, going, mode, files, mapVars>>
-------------------------------------------------------------------------------
(* Mappings of the device's memory                                             *)

\* sys_mmap: the device is asked, then the region is there and known to vms_revoke.
Mmap(p) ==
    /\ pc[p] = "idle" /\ "fd" \in files[p] /\ ~removed /\ region[p] = "none" /\ "map" \in Does
    /\ At(p, "mmap")
    /\ UNCHANGED <<registryVars, openVars, events, dirVars, callVars, mode, files, mapVars>>

Mapped(p) ==
    /\ pc[p] = "mmap"
    /\ region' = [region EXCEPT ![p] = "tracked"]
    /\ files' = [files EXCEPT ![p] = @ \cup {"map"}]
    /\ At(p, "idle")
    /\ UNCHANGED <<registryVars, openVars, events, dirVars, callVars, mode, pmap, tlb>>

\* fault_device_locked, under device_regions_lock
FaultDevice(p) ==
    /\ region[p] = "tracked" /\ pmap[p] = 0 /\ ~removed
    /\ pmap' = [pmap EXCEPT ![p] = mode]
    /\ UNCHANGED <<registryVars, openVars, events, dirVars, callVars, mode, pc, files, region, tlb>>

TlbFill(p) ==
    /\ pmap[p] # 0 /\ tlb[p] # pmap[p]
    /\ tlb' = [tlb EXCEPT ![p] = pmap[p]]
    /\ UNCHANGED <<registryVars, openVars, events, dirVars, callVars, mode, pc, files, region, pmap>>

\* vms_revoke, if the directory has the device: the regions it knows, then the harts.
Revoke(a) ==
    LET found == {p \in Programs : indir /\ region[p] = "tracked" /\ pmap[p] # 0}
    IN  /\ pc[a] = "revoke"
        /\ pmap' = [p \in Programs |-> IF p \in found THEN 0 ELSE pmap[p]]
        /\ At(a, IF found = {} THEN "revoked" ELSE "shoot")
        /\ UNCHANGED <<registryVars, openVars, events, dirVars, callVars, mode, files, region, tlb>>

Shoot(a) ==
    /\ pc[a] = "shoot"
    /\ tlb' = [p \in Programs |-> 0]
    /\ At(a, "revoked")
    /\ UNCHANGED <<registryVars, openVars, events, dirVars, callVars, mode, files, region, pmap>>

\* release_device_pages: the region is forgotten, then its pages go, then the harts are told.
Munmap(p) ==
    /\ pc[p] = "idle" /\ region[p] = "tracked"
    /\ region' = [region EXCEPT ![p] = "untracked"]
    /\ At(p, "unmap")
    /\ UNCHANGED <<registryVars, openVars, events, dirVars, callVars, mode, files, pmap, tlb>>

UnmapPages(p) ==
    /\ pc[p] = "unmap"
    /\ pmap' = [pmap EXCEPT ![p] = 0]
    /\ region' = [region EXCEPT ![p] = "unmapped"]
    /\ At(p, "unmapped")
    /\ UNCHANGED <<registryVars, openVars, events, dirVars, callVars, mode, files, tlb>>

\* free_region closes the file.
Munmapped(p) ==
    /\ pc[p] = "unmapped"
    /\ tlb' = [tlb EXCEPT ![p] = 0]
    /\ region' = [region EXCEPT ![p] = "none"]
    /\ Puts(p, "map")
    /\ UNCHANGED <<registryVars, openVars, events, dirVars, callVars, mode, pmap>>

Next ==
    \/ Add \/ Mount \/ RefuseOpens \/ Remove \/ Unlist \/ Mark \/ Undir \/ Drop \/ Drain
    \/ \E p \in Programs :
          \/ \E excl \in BOOLEAN : Lookup(p, excl)
          \/ OpenBegin(p) \/ DriverOpen(p) \/ DriverOpenFails(p) \/ OpenFile(p) \/ OpenFileFails(p)
          \/ CloseFd(p) \/ CloseBegin(p) \/ DriverClose(p) \/ CloseEnd(p)
          \/ Call(p) \/ Enter(p) \/ Entered(p) \/ Leave(p) \/ Notify(p) \/ Notified(p)
          \/ \E on \in BOOLEAN : SetExclusive(p, on)
          \/ \E m \in Modes : SetMode(p, m)
          \/ Mmap(p) \/ Mapped(p) \/ FaultDevice(p) \/ TlbFill(p) \/ Munmap(p) \/ UnmapPages(p) \/ Munmapped(p)
    \/ \E a \in Actors : Revoke(a) \/ Shoot(a)

Spec == Init /\ [][Next]_vars
-------------------------------------------------------------------------------
TypeOK ==
    /\ refcount \in 0 .. Cardinality(Programs) + 3 /\ released \in 0 .. 1
    /\ open_lock \in Programs \cup {None} /\ events \in Actors \cup {None} /\ call_lock \in Programs \cup {None}
    /\ open_count \in 0 .. Cardinality(Programs) /\ in_flight \in 0 .. Cardinality(Programs)

InDriver(p) ==
    \/ pc[p] \in {"inside", "notify", "opening", "closing"}
    \/ p # Driver /\ pc[p] \in {"revoke", "shoot", "revoked"}

\* "The driver gets no more calls, except release" (char_interface.h:92), "so the driver can unmap
\* and tear down" (fb_interface.h): when the removal is over no program is in the driver.
RemovedIsLeft == pc[Driver] = "gone" => \A p \in Programs : ~InDriver(p)

\* vms_revoke, fault_device_locked, ioctl_set_mode: when the memory of the device has moved or is
\* gone, no hart translates to where it was, but of a region that is being unmapped.
OldMemoryIsUnmapped ==
    \A p \in Programs : tlb[p] # 0 /\ region[p] = "tracked" =>
        \/ tlb[p] = mode /\ pc[Driver] \notin {"revoked", "drop", "drain", "gone"}
        \/ \E a \in Actors : pc[a] \in {"notify", "revoke", "shoot"}

\* char_interface_open and char_interface_close: while the device is there the driver is open
\* exactly when a file is, or the call that opened or closes it is still in it.
DriverIsOpenForFiles ==
    Opens /\ ~removed =>
        (opened <=> open_count > 0 \/ \E p \in Programs : \/ pc[p] = "open_file" \/ pc[p] = "closing")

\* char_interface_refuse_opens: "so that no open reaches its driver meanwhile".
RefusedIsNotOpened ==
    pc[Driver] = "refused" => open_count = 0 /\ ~opened /\ \A p \in Programs : pc[p] \notin {"opening", "open_file"}

Holds(p) == pc[p] \in {"found", "opening", "open_file", "close", "closing", "closed"} \/ files[p] # {}

\* char_interface_incref, char_interface_decref, devfs_char_release: the references are those of
\* the registry, the node and the remover, and the device is released when none is left.
ReferencesAgree ==
    /\ node = Cardinality({p \in Programs : Holds(p)}) + (IF indir THEN 1 ELSE 0)
    /\ refcount = (IF pc[Driver] \in {"idle", "drain", "gone"} THEN 0 ELSE 1) + (IF node > 0 THEN 1 ELSE 0)
                    + (IF Keeps /\ pc[Driver] \notin {"idle", "added", "refused", "gone"} THEN 1 ELSE 0)
    /\ released = (IF pc[Driver] # "idle" /\ refcount = 0 THEN 1 ELSE 0)
    /\ open_count = Cardinality({p \in Programs : files[p] # {} \/ pc[p] = "close"})

\* "The registry's reference may be the last one, and the interface is still needed below"
\* (tty_interface.c): whoever removes a device uses it to the end of the removal.
RemoverHasDevice == pc[Driver] = "drain" => released = 0
===============================================================================
