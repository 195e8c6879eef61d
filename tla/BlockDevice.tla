----------------------------- MODULE BlockDevice -----------------------------
(* A disk and its partition: kernel/dev/block_interface.c, block_event.c,         *)
(* block_request.c and block_ptable.c, the part of fs/devfs/devfs_block.c that     *)
(* follows them, and drivers/storage/ahci.c with one port.                         *)
(*                                                                             *)
(* Clients hold the disk or its partition, through devfs or block_interface_find,  *)
(* and send requests; the driver attaches and detaches the controller.  What a     *)
(* request transfers is left out: a command is carried out or not.                 *)
EXTENDS Integers, FiniteSets

CONSTANTS Clients, Driver, None,
          Parts,       \* bound: the one partition of the table, for each time it is read
          Does         \* bound: what clients do besides requests: "find", "rescan"; whether there are interrupts: "irq"

Disk == 0
Ifaces == {Disk} \cup Parts
Actors == Clients \cup {Driver}

NoneAssumption == Parts \subseteq Nat \ {Disk} /\ Driver \notin Clients

VARIABLES listed, present, \* sets of interfaces
          refs,        \* [Ifaces -> references]
          dir, node,   \* what devfs has, and [Ifaces -> references to its vnode]
          parts, read, \* the partitions in the state of the disk, and how often its table was read
          events,      \* who holds events_mutex
          ctx,         \* references to the controller's context
          port_lock, dma,      \* who holds the port, and whether it has its memory
          hooked, ie, isr,     \* the handler is attached; GHC.IE; the PxIS it read, or None
          ci, is,      \* the client whose command is issued; PxIS
          irq_status, done,
          pc, via, how,        \* [Actors -> where it is], and what a client holds and how
          result,      \* [Clients -> the status of its last request]
          performed    \* history: clients whose request was carried out

listVars == <<listed, present, dir, parts, read>>
refVars  == <<refs, node, ctx>>
portVars == <<port_lock, dma>>
irqVars  == <<hooked, ie, isr>>
hwVars   == <<ci, is, irq_status, done, performed>>
holdVars == <<via, how>>
vars == <<listVars, refVars, events, portVars, irqVars, hwVars, holdVars, pc, result>>

Init ==
    /\ listed = {} /\ present = {} /\ dir = {} /\ parts = {} /\ read = 0
    /\ refs = [x \in Ifaces |-> 0] /\ node = [x \in Ifaces |-> 0] /\ ctx = 1
    /\ events = None /\ port_lock = None /\ dma = FALSE
    /\ hooked = FALSE /\ ie = FALSE /\ isr = {"none"}
    /\ ci = None /\ is = {} /\ irq_status = {} /\ done = FALSE /\ performed = {}
    /\ pc = [a \in Actors |-> "idle"]
    /\ via = [c \in Clients |-> None] /\ how = [c \in Clients |-> "none"]
    /\ result = [c \in Clients |-> "none"]

At(a, where) == pc' = [pc EXCEPT ![a] = where]

\* vnode_decref of ns, block_interface_decref of is and context_decref: a vnode releases its
\* interface, a partition its disk, and the disk the context.
Drops(ns, xs, contexts) ==
    LET r1 == [x \in Ifaces |-> refs[x] - (IF x \in xs THEN 1 ELSE 0) - (IF x \in ns /\ node[x] = 1 THEN 1 ELSE 0)]
        gone == {p \in Parts : refs[p] > 0 /\ r1[p] = 0}
        r2 == [r1 EXCEPT ![Disk] = @ - Cardinality(gone)]
    IN  /\ node' = [x \in Ifaces |-> IF x \in ns THEN node[x] - 1 ELSE node[x]]
        /\ refs' = r2
        /\ ctx' = ctx - contexts - (IF refs[Disk] > 0 /\ r2[Disk] = 0 THEN 1 ELSE 0)
-------------------------------------------------------------------------------
(* The driver's attach, and the events it sends                                *)

\* ahci_port_register_ata: block_interface_add_root
Register ==
    /\ pc[Driver] = "idle" /\ events = None
    /\ listed' = {Disk}
    /\ refs' = [refs EXCEPT ![Disk] = 1]
    /\ ctx' = ctx + 1
    /\ At(Driver, "registered")
    /\ UNCHANGED <<present, dir, parts, read, node, events, portVars, irqVars, hwVars, holdVars, result>>

\* The partitions have one name, and the lists begin with the newest: what a search of S for the
\* name of x finds.
Named(S, x) ==
    IF x = Disk THEN S \cap {Disk} ELSE {y \in S \cap Parts : \A z \in S \cap Parts : z <= y}

\* device_request_irq, without which commands are polled, and ahci_port_init
PortInit(irq) ==
    /\ pc[Driver] = "registered" /\ (irq => "irq" \in Does)
    /\ hooked' = irq /\ ie' = irq
    /\ dma' = TRUE
    /\ At(Driver, "probe")
    /\ UNCHANGED <<listVars, refVars, events, port_lock, isr, hwVars, holdVars, result>>

\* -EAGAIN: the attach fails and leaves the disk registered; the next one has a context of its own.
AttachAgain ==
    /\ pc[Driver] = "registered"
    /\ At(Driver, "again")
    /\ UNCHANGED <<listVars, refVars, events, portVars, irqVars, hwVars, holdVars, result>>

\* ahci_port_probe_ata, if the disk answers to ahci_identify; block_event_notify comes later.
ProbeAta ==
    /\ pc[Driver] = "probe"
    /\ present' = present \cup {Disk}
    /\ At(Driver, "connect")
    /\ UNCHANGED <<listed, dir, parts, read, refVars, events, portVars, irqVars, hwVars, holdVars, result>>

ProbeFails ==
    /\ pc[Driver] = "probe"
    /\ dma' = FALSE
    /\ At(Driver, "attached")
    /\ UNCHANGED <<listVars, refVars, events, port_lock, irqVars, hwVars, holdVars, result>>

\* devfs_block_event_handler of an added device; there may be no memory for it.
Inserts(x) ==
    \/ dir' = dir \cup {x} /\ node' = [node EXCEPT ![x] = 1] /\ refs' = [refs EXCEPT ![x] = @ + 1]
    \/ UNCHANGED <<dir, node, refs>>

\* devfs_block_event_handler of one that is removed
Removes(x, xs) == dir' = dir \ Named(dir, x) /\ Drops(Named(dir, x), xs, 0)

\* BLOCK_EVENT_MEDIA_CONNECTED
Connect ==
    /\ pc[Driver] = "connect" /\ events = None
    /\ events' = Driver
    /\ Inserts(Disk)
    /\ At(Driver, "add")
    /\ UNCHANGED <<listed, present, parts, read, ctx, portVars, irqVars, hwVars, holdVars, result>>

\* probe_device: a table with a partition, which only a disk that is present gives, and
\* block_interface_add_part
AddPart(a) ==
    /\ pc[a] = "add" /\ read + 1 \in Parts /\ Disk \in present
    /\ listed' = listed \cup {read + 1}
    /\ present' = present \cup {read + 1}
    /\ refs' = [refs EXCEPT ![read + 1] = 1, ![Disk] = @ + 1]
    /\ parts' = parts \cup {read + 1} /\ read' = read + 1
    /\ At(a, "added")
    /\ UNCHANGED <<dir, node, ctx, events, portVars, irqVars, hwVars, holdVars, result>>

\* BLOCK_EVENT_PARTITION_ADDED
PartAdded(a) ==
    /\ pc[a] = "added"
    /\ Inserts(read)
    /\ events' = None
    /\ At(a, IF a = Driver THEN "attached" ELSE "idle")
    /\ UNCHANGED <<listed, present, parts, read, ctx, portVars, irqVars, hwVars, holdVars, result>>

\* No table, or no memory
NoPart(a) ==
    /\ pc[a] = "add"
    /\ events' = None
    /\ At(a, IF a = Driver THEN "attached" ELSE "idle")
    /\ UNCHANGED <<listVars, refVars, portVars, irqVars, hwVars, holdVars, result>>
-------------------------------------------------------------------------------
(* Removal                                                                     *)

\* ahci_detach
Detach ==
    /\ pc[Driver] = "attached"
    /\ ie' = FALSE
    /\ At(Driver, "remove")
    /\ UNCHANGED <<listVars, refVars, events, portVars, hooked, isr, hwVars, holdVars, result>>

\* block_interface_remove of the disk, and devfs_remove
RemoveDisk ==
    /\ pc[Driver] = "remove" /\ events = None
    /\ events' = Driver
    /\ listed' = listed \ {Disk}
    /\ present' = present \ {Disk}
    /\ At(Driver, IF Disk \in present THEN "forget" ELSE "removed")
    /\ UNCHANGED <<dir, parts, read, refVars, portVars, irqVars, hwVars, holdVars, result>>

\* Slip: the disk is forgotten and its partitions are not.
ForgetDiskAlone ==
    /\ pc[Driver] = "forget"
    /\ Removes(Disk, {})
    /\ parts' = {}
    /\ At(Driver, "removed")
    /\ UNCHANGED <<listed, present, read, events, portVars, irqVars, hwVars, holdVars, result>>

ForgetDisk ==
    /\ pc[Driver] = "forget"
    /\ Removes(Disk, {})
    /\ At(Driver, "unpart")
    /\ UNCHANGED <<listed, present, parts, read, events, portVars, irqVars, hwVars, holdVars, result>>

\* disk_state_remove_parts: BLOCK_EVENT_PARTITION_REMOVED ...
PartRemoved(a) ==
    /\ pc[a] = "unpart"
    /\ IF parts = {}
       THEN /\ At(a, IF a = Driver THEN "removed" ELSE "add")
            /\ UNCHANGED <<dir, refVars>>
       ELSE /\ \E x \in Named(parts, 1) : Removes(x, {})
            /\ At(a, "unlist")
    /\ UNCHANGED <<listed, present, parts, read, events, portVars, irqVars, hwVars, holdVars, result>>

\* ... and block_interface_remove of the partition: as it was present, BLOCK_EVENT_MEDIA_DISCONNECTED
\* removes its name from the directory again.
RemovePart(a) ==
    /\ pc[a] = "unlist"
    /\ \E x \in Named(parts, 1) :
          /\ listed' = listed \ {x}
          /\ present' = present \ {x}
          /\ parts' = parts \ {x}
          /\ Removes(x, {x})
    /\ At(a, "unpart")
    /\ UNCHANGED <<read, events, portVars, irqVars, hwVars, holdVars, result>>

DropDisk ==
    /\ pc[Driver] = "removed"
    /\ events' = None
    /\ Drops({}, {Disk}, 0)
    /\ At(Driver, IF dma THEN "teardown" ELSE "unhook")
    /\ UNCHANGED <<listVars, portVars, irqVars, hwVars, holdVars, result>>

\* ahci_port_teardown
PortTeardown ==
    /\ pc[Driver] = "teardown" /\ port_lock = None
    /\ dma' = FALSE
    /\ ci' = None
    /\ At(Driver, "unhook")
    /\ UNCHANGED <<listVars, refVars, events, port_lock, irqVars, is, irq_status, done, performed, holdVars, result>>

\* device_release_resources: interrupt_detach waits for a handler that runs.
Unhook ==
    /\ pc[Driver] = "unhook" /\ isr = {"none"}
    /\ hooked' = FALSE
    /\ At(Driver, "release")
    /\ UNCHANGED <<listVars, refVars, events, portVars, ie, isr, hwVars, holdVars, result>>

\* ahci_release
Release ==
    /\ pc[Driver] = "release"
    /\ Drops({}, {}, 1)
    /\ At(Driver, "gone")
    /\ UNCHANGED <<listVars, events, portVars, irqVars, hwVars, holdVars, result>>
-------------------------------------------------------------------------------
(* Clients                                                                     *)

Lookup(c, x) ==
    /\ pc[c] = "idle" /\ via[c] = None /\ x \in Named(dir, x)
    /\ node' = [node EXCEPT ![x] = @ + 1]
    /\ via' = [via EXCEPT ![c] = x] /\ how' = [how EXCEPT ![c] = "node"]
    /\ UNCHANGED <<listVars, refs, ctx, events, portVars, irqVars, hwVars, pc, result>>

\* block_interface_find
Find(c, x) ==
    /\ pc[c] = "idle" /\ via[c] = None /\ x \in Named(listed, x) /\ "find" \in Does
    /\ refs' = [refs EXCEPT ![x] = @ + 1]
    /\ via' = [via EXCEPT ![c] = x] /\ how' = [how EXCEPT ![c] = "ref"]
    /\ UNCHANGED <<listVars, node, ctx, events, portVars, irqVars, hwVars, pc, result>>

Put(c) ==
    /\ pc[c] = "idle" /\ via[c] # None
    /\ IF how[c] = "node" THEN Drops({via[c]}, {}, 0) ELSE Drops({}, {via[c]}, 0)
    /\ via' = [via EXCEPT ![c] = None] /\ how' = [how EXCEPT ![c] = "none"]
    /\ result' = [result EXCEPT ![c] = "none"]
    /\ performed' = performed \ {c}
    /\ UNCHANGED <<listVars, events, portVars, irqVars, ci, is, irq_status, done, pc>>

\* rescan_partitions
Rescan(c) ==
    /\ pc[c] = "idle" /\ via[c] = Disk /\ events = None /\ "rescan" \in Does
    /\ events' = c
    /\ At(c, "unpart")
    /\ UNCHANGED <<listVars, refVars, portVars, irqVars, hwVars, holdVars, result>>

Finishes(c, status) == result' = [result EXCEPT ![c] = status] /\ At(c, "idle")

\* block_submit, and that of the disk by part_submit
Submit(c) ==
    /\ pc[c] = "idle" /\ via[c] # None
    /\ performed' = performed \ {c}
    /\ IF via[c] \notin present
       THEN Finishes(c, "enodev")
       ELSE At(c, IF via[c] = Disk THEN "acquire" ELSE "root") /\ result' = [result EXCEPT ![c] = "none"]
    /\ UNCHANGED <<listVars, refVars, events, portVars, irqVars, ci, is, irq_status, done, holdVars>>

SubmitRoot(c) ==
    /\ pc[c] = "root"
    /\ IF Disk \in present THEN At(c, "acquire") /\ UNCHANGED result ELSE Finishes(c, "enodev")
    /\ UNCHANGED <<listVars, refVars, events, portVars, irqVars, hwVars, holdVars>>

PortAcquire(c) ==
    /\ pc[c] = "acquire" /\ port_lock = None
    /\ IF dma THEN port_lock' = c /\ At(c, "issue") /\ UNCHANGED result
              ELSE Finishes(c, "enodev") /\ UNCHANGED port_lock
    /\ UNCHANGED <<listVars, refVars, events, dma, irqVars, hwVars, holdVars>>

\* ahci_issue clears PxIS, and waits for the device; one that stays busy is reset ...
Issue(c) ==
    /\ pc[c] = "issue"
    /\ is' = {}
    /\ \/ At(c, "start")
       \/ At(c, "recover")
    /\ UNCHANGED <<listVars, refVars, events, portVars, irqVars, ci, irq_status, done, performed, holdVars, result>>

\* ... then the command goes.
Start(c) ==
    /\ pc[c] = "start"
    /\ irq_status' = {} /\ done' = FALSE
    /\ ci' = c
    /\ At(c, "check")
    /\ UNCHANGED <<listVars, refVars, events, portVars, irqVars, is, performed, holdVars, result>>

Errors == "err" \in irq_status \cup is

\* ahci_wait: completion is read from the registers, also when its time is over.
Wait(c) ==
    /\ pc[c] \in {"check", "late"}
    /\ At(c, IF Errors THEN "recover" ELSE IF ci # c THEN "done"
             ELSE IF pc[c] = "late" THEN "recover" ELSE "sleep")
    /\ UNCHANGED <<listVars, refVars, events, portVars, irqVars, hwVars, holdVars, result>>

Wake(c) ==
    /\ pc[c] = "sleep"
    /\ \/ done /\ done' = FALSE /\ At(c, "check")
       \/ UNCHANGED done /\ At(c, "late")
    /\ UNCHANGED <<listVars, refVars, events, portVars, irqVars, ci, is, irq_status, performed, holdVars, result>>

\* ahci_recover: ahci_stop, with which the command goes
Recover(c) ==
    /\ pc[c] = "recover"
    /\ ci' = None /\ is' = {}
    /\ At(c, "failed")
    /\ UNCHANGED <<listVars, refVars, events, portVars, irqVars, irq_status, done, performed, holdVars, result>>

Finish(c) ==
    /\ pc[c] \in {"done", "failed"}
    /\ port_lock' = None
    /\ Finishes(c, IF pc[c] = "done" THEN "ok" ELSE "eio")
    /\ UNCHANGED <<listVars, refVars, events, dma, irqVars, hwVars, holdVars>>
-------------------------------------------------------------------------------
(* The disk and the interrupt                                                  *)

Complete ==
    /\ ci # None /\ "err" \notin is
    /\ performed' = performed \cup {ci}
    /\ ci' = None /\ is' = is \cup {"done"}
    /\ UNCHANGED <<listVars, refVars, events, portVars, irqVars, irq_status, done, holdVars, pc, result>>

DeviceError ==
    /\ ci # None /\ "err" \notin is
    /\ is' = is \cup {"err"}
    /\ UNCHANGED <<listVars, refVars, events, portVars, irqVars, ci, irq_status, done, performed, holdVars, pc, result>>

\* ahci_irq: PxIS is read and cleared ...
Irq ==
    /\ hooked /\ isr = {"none"} /\ ie /\ is # {}
    /\ isr' = is /\ is' = {}
    /\ UNCHANGED <<listVars, refVars, events, portVars, hooked, ie, ci, irq_status, done, performed, holdVars, pc, result>>

\* ... and left for ahci_wait.
IrqTrigger ==
    /\ isr # {"none"}
    /\ irq_status' = irq_status \cup isr
    /\ done' = TRUE
    /\ isr' = {"none"}
    /\ UNCHANGED <<listVars, refVars, events, portVars, hooked, ie, ci, is, performed, holdVars, pc, result>>

Next ==
    \/ Register \/ AttachAgain \/ ProbeAta \/ ProbeFails \/ Connect \/ Detach \/ RemoveDisk \/ ForgetDisk \/ DropDisk
    \/ PortTeardown \/ Unhook \/ Release \/ Complete \/ DeviceError \/ Irq \/ IrqTrigger
    \/ \E irq \in BOOLEAN : PortInit(irq)
    \/ \E a \in Actors : AddPart(a) \/ PartAdded(a) \/ NoPart(a) \/ PartRemoved(a) \/ RemovePart(a)
    \/ \E c \in Clients :
          \/ \E x \in Ifaces : Lookup(c, x) \/ Find(c, x)
          \/ Put(c) \/ Rescan(c) \/ Submit(c) \/ SubmitRoot(c) \/ PortAcquire(c) \/ Issue(c) \/ Start(c)
          \/ Wait(c) \/ Wake(c) \/ Recover(c) \/ Finish(c)

Spec == Init /\ [][Next]_vars
-------------------------------------------------------------------------------
TypeOK ==
    /\ listed \subseteq Ifaces /\ present \subseteq Ifaces /\ dir \subseteq Ifaces
    /\ refs \in [Ifaces -> Nat] /\ node \in [Ifaces -> Nat] /\ ctx \in Nat
    /\ events \in Actors \cup {None} /\ port_lock \in Clients \cup {None} /\ ci \in Clients \cup {None}

\* block_submit_wait: a request that is reported to have succeeded was carried out, whatever
\* interrupt comes late or not at all.
SuccessIsTrue == \A c \in Clients : result[c] = "ok" => c \in performed

\* The device works on the command of who holds the port and waits for it, so neither the
\* buffer of the request nor the memory of the port is freed under it.
CommandHasItsMemory == ci # None => dma /\ port_lock = ci /\ pc[ci] \in {"check", "sleep", "late", "recover"}

Count(S) == Cardinality(S)

\* block_interface_decref, part_release, devfs_block_release, context_decref: references are of the
\* registry, the directory, the clients and the partitions, and the context goes with the last.
ReferencesAgree ==
    /\ \A x \in Ifaces :
        /\ node[x] = Count({c \in Clients : via[c] = x /\ how[c] = "node"}) + Count(dir \cap {x})
        /\ refs[x] = Count({c \in Clients : via[c] = x /\ how[c] = "ref"}) + (IF node[x] > 0 THEN 1 ELSE 0)
                       + (IF x = Disk THEN Count({p \in Parts : refs[p] > 0})
                                             + (IF pc[Driver] \in {"idle", "teardown", "unhook", "release", "gone"} THEN 0 ELSE 1)
                          ELSE Count(listed \cap {x}))
    /\ ctx = (IF pc[Driver] = "gone" THEN 0 ELSE 1) + (IF refs[Disk] > 0 THEN 1 ELSE 0)
    /\ (\E c \in Clients : pc[c] # "idle") \/ isr # {"none"} => ctx > 0

\* handle_block_event and disk_state_remove_parts: when no event is under way, a partition is known
\* and present only with its disk, and the directory has what is present and no more, also where
\* a rescan comes between the disk and its first event (ahci.c:779) and the table is read twice.
PartitionsFollowDisk ==
    events = None =>
        /\ listed \cap Parts = parts
        /\ present \subseteq listed /\ dir \subseteq present
        /\ parts # {} => Disk \in present
==============================================================================
