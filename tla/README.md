# Vex kernel: TLA+ verification

TLA+ models of the Vex kernel (`kernel/`), TLC configurations that check them
on small instances, and TLAPS proofs of the results that matter most.

Every module is translated from the C source; `PROJECT.json` maps each
definition to the lines it stands for.  A model keeps the control of the code
(state changes, guards, early returns, error paths and their order) and
abstracts the data to what the properties tell apart.

To check a run: `tlc -config <cfg> <module>`; to check the proofs:
`tlapm M.tla` for each module `M` whose name ends in `Proofs`.

## Conventions

* A step is what the code does between acquiring a lock and releasing it, or one
  atomic operation, or one unlocked access that another actor can observe.
  Releasing a lock is merged with the last step under it.  Where the order of
  acquiring locks matters, acquiring is a step of its own.
* Names follow the source.  Definitions commented "Slip" are variants with a
  plausible mistake in them; no specification uses them.  Put in the place of
  the definition that follows, each makes a property fail, which shows that the
  property depends on the code.
* A counter with a saturation point in the code keeps it, at a small value; any
  other bound is named where it is declared.
* Errors are negative numbers with the values of `include/usr/vex/errno.h`.
* A variable marked "history" is read by properties only.
* An MC module gives values to the constants of the module it extends.  Where one
  run asks about several parts that do not interact
  (`MCThreads`, `MCWaiting`, `MCWaitingLive`, `MCLife`, `MCMemory`,
  `MCDevices`), the MC module extends one of them, or none, and INSTANCEs the
  others, and a variable `scene`, chosen in the initial state, says which part
  moves; the others stand still.
  The states of such a run are the sum, not the product, of those of its scenes.
  A property of an instanced part is wrapped with the scenes it is about.

## Inventory

The parts of the system, the state each keeps, who acts on it, what is hard
about it, and what makes it correct.  The last column names the modules, or the
place in the plan.

### Threads, harts and waiting (`proc/`, `mm/tlb.c`)

| Part | State | Operations | What is hard | What makes it correct | Where |
|---|---|---|---|---|---|
| Scheduler (`sched.c`, `sched.S`) | a run queue per hart, thread states, `hart_lock`, `sched_lock`, `dead_thread`, pending IPIs | block, wake, yield, the scheduler interrupt, stealing, idling, preemption, death and reaping | a thread may be woken, stolen or die on one hart while another is still on its stack | a stack is used by one hart; every runnable thread is queued once and gets a turn; a halted hart is always kicked | `Sched`, `ThreadLife`, `SchedProofs` |
| Events (`event.c`) | listeners, pending wakeups, the sleep list | await (six variants), trigger, reset | a trigger racing registration, deadline, signal and a second trigger | no wakeup lost or kept while somebody waits; the result says what ended the wait | `Event` |
| Deferred triggers (`event.c`) | a lock-free list | push from any context, drain in the tick of any hart | a push racing a drain | in one list at a time, none lost | `Deferral` |
| Mutexes (`mutex.c`) | owner, waiter count, an event | acquire, try, release | the wakeup is sent after the lock is dropped | exclusion, no lost wakeup | `Mutex`, `LockSpec`, `MutexProofs` |
| Futexes (`futex.c`) | buckets of waiters, user words | wait, wake | the word changes without the lock | no lost wakeup; a counted waiter reports it | `Futex` |
| TLB shootdown (`mm/tlb.c`) | a generation, the one each hart has flushed | shootdown, poll, interrupt | two shootdowns at once, with or without interrupts, moved between harts | no hart translates by replaced tables when a shootdown has returned; with interrupts disabled, every shootdown returns (with them enabled it may not, `tlb_serve`) | `Tlb` |
| Thread groups (`process.c`, `user_exit.c`, `sys_thread.c`) | the thread list and two counts, `exec_thread`, exit flags and status | exit, kill, thread exit, create, exec, reap | four ways of leaving racing each other | counts agree, an exec ends alone, an exit always ends in a zombie | `ThreadGroup` |
| Processes (`process.c`, `sys_process.c`) | parents, children, references, zombie and collected flags | fork, death, reparenting, wait, collect | death of parent and child at once; a failing fork | no use after free, no leak, no death untold | `Family` |
| Signals (`signal.c`, `sys_signal.c`) | two pending sets and queues, masks, actions, `pending_work` | send, deliver, force, mask, action, retarget | a process-wide signal picked for a thread that then blocks it or leaves | a deliverable signal is delivered by some thread | `Signals` |
| Process groups and sessions (`pgrp.c`) | groups, sessions, membership, the controlling tty | create, join, leave, move, signal a group | a group dies while another joins it | membership and references agree | `Pgrp` |
| Credentials (`cred.c`, `sys_cred.c`) | reference-counted ids and capabilities | set ids, drop | replaced while another thread reads | a reader's set is whole and alive | plan, stage 3 |
| System calls and return to user (`syscall.c`, `user_exit.c`) | `pending_work`, restart flag | dispatch, exit_to_user | work posted on the way out | no work is left behind in user mode | in `ThreadGroup` and `Event`; restart in plan, stage 3 |
| Program loading (`exec/`) | an address space being built | load | every failure path undoes what was mapped | a failed exec leaves the old image | plan, stage 4 |

### Kernel log (`core/`)

| Part | State | Operations | What is hard | What makes it correct | Where |
|---|---|---|---|---|---|
| Log ring (`kprintf.c`) | a byte ring of records, head, tail, sequence numbers | append, read, seek, panic | records dropped under a reader; a panic in the middle of an append | what is read is whole and in order | `KpRing`, `RecordLog` |
| Consoles (`console.c`) | a list, a cursor each, one lock | flush, add, remove, release | the hart that fails to get the lock relies on the holder | every record on every console, unless it was logged while a console was handed over | `Console` |
| Log device (`kplog.c`) | a cursor and a count of losses per file | read, wait, seek | the log moves between two looks | no record counted twice, no reader left asleep | `KpLog` |
| Panic, assertions, command line, framebuffer console | `panic_in_progress`, options | stop the other harts, print | the panic's effect on the ring is in `KpRing`; the rest is output | the message gets out | not modelled |

### Memory (`mm/`)

| Part | State | Operations | What is hard | What makes it correct | Where |
|---|---|---|---|---|---|
| `pslab`, `pdma`; `pframe` | free lists and bitmaps of page frames, frame counts | alloc, free, share | the last of two owners frees | a frame has one user or a right count | frames in `Vms`; the allocators in plan, stage 2 |
| `slab`, `kmalloc` | free lists, heap blocks | alloc, free, realloc, grow | splitting and merging of neighbours | blocks tile the heap, none handed out twice | frames in `Vms`; the allocators in plan, stage 2 |
| `vms`, `rmap`, `pmap` | regions, page tables, reverse map | map, unmap, protect, fault, fork | copy on write while a page is shared, faulted or cleaned | every mapping is known to the reverse map; a write never reaches another's page | `Regions`, `AddrMap`, `Vms`, `Fcache` |
| `kstack`, `mmio`, `hhdm`, `memmap`, `kbase`, `uaccess` | cached stacks, MMIO ranges | alloc, free, map | stacks are freed inside the scheduler interrupt | a stack has one owner | plan, stage 3 |

### Files (`fs/`)

| Part | State | Operations | What is hard | What makes it correct | Where |
|---|---|---|---|---|---|
| `vcache` | vnodes by number, reference counts | get, put, evict | the last put racing a get | one vnode per file, none freed in use | `Vnode` |
| `fcache` | cached pages, dirty marks, the write-back thread | read, write, write back, truncate | pages dirtied again while they are written | no write lost, errors kept | `Fcache` |
| `mount`, `path`, `vnode` | the mount tree, name resolution, vnode operations | mount, unmount, walk, rename | unmount under a walk | a mounted volume is busy while anything in it is used | `Vnode`; mounting and paths in plan, stage 3 |
| `file` | descriptor tables, file references | open, dup, close, fork | close racing a read of another thread | a file lives as long as its last user | plan, stage 2 |
| `devfs`, `echfs`, `ext2`, `FAT` | on-disk structures | the vnode operations | allocation, and crashes between two writes | no block belongs to two files | names and inodes of `ext2` in `Vnode`, `devfs` in `CharDevice`; the rest in plan, stage 4 |

### Devices (`device/`, `dev/`, `bus/`, `drivers/`, `firmware/`, `irq/`, `time/`)

| Part | State | Operations | What is hard | What makes it correct | Where |
|---|---|---|---|---|---|
| Device tree (`tree.c`, `bind.c`, `depend.c`, `resource.c`) | nodes, references, bindings, dependencies | add, remove, bind, unbind, wait for suppliers | removal during a probe; cycles of suppliers | a bound device has what it depends on | `DeviceTree`; resources in plan, stage 3 |
| Hardware tree device (`hwtree.c`) | a feed of events per reader | read, wait | as `/dev/kplog` | no event missed without being told | `HwTree` |
| Block and char interfaces (`dev/block_*`, `dev/char_*`), AHCI, framebuffers | registries, requests, events | register, submit, complete, remove | removal with requests in flight | every request completes once | `BlockDevice`, `CharDevice` |
| Partition tables, ATA, ATAPI, names (`dev/`) | parsed tables | scan | bounds of the numbers on disk | partitions lie inside the disk | plan, stage 4 |
| TTY, serial (`dev/tty_*`, `serial_interface.c`) | line buffers, the foreground group | read, write, input, hang-up | input racing hang-up and readers | no input lost, every reader woken | the controlling terminal in `Pgrp`, removal in `CharDevice`; input in plan, stage 3 |
| Interrupts (`irq/`) | handler table, in-flight counts | add, remove, dispatch | removal while the handler runs | a removed handler is not run | `Irq` |
| Time (`time/`) | clock sources, event timers, the wall clock | read, switch, arm, set | switching the source under readers | the clock does not go back | plan, stage 2 |
| Buses, drivers, firmware, architecture code | hardware registers | port and MMIO access | what the hardware does is not in the repository | depends on the hardware | not modelled; uACPI is vendored |
| Library (`libk/`, `crypto/`) | none | pure functions | bounds | agrees with a reference definition | plan, stage 4 |
| Init (`init/`), build, headers | none | ordering of initcalls at link time | done by the linker | what an initcall needs ran before | not modelled |

## Modules: state, actions, correspondence

### Event (`proc/event.c`), with MCEvent

`lock`, `num_pending` and `listeners` are the fields of `event_t`;
`wait_interrupt`, `pending_work`, `wakeup_index` and `state` those of
`thread_t`; `sleepers` is the scheduler's sleep list.  A thread's way through
`await_until` is `TryLock`, `TryTake`, `ListenLock`, then `RetakePending`,
`ListenNoMemory` or `Listen`, then `Yield`, `SchedWakeCancel`, `UnlistenLock`,
`Unlisten` per event and `AwaitReturn`.  `trigger` is `TriggerPending`, or
`TriggerLock`, one `TriggerWake` per listener and `TriggerDone`.  The six
variants of the call are the values of `args[t].mode`.  The users of
`event_await_unlock` are `CheckCondition` (a waiter that checks under its lock)
and `MakeCondition`.  A signal is `PostWork` and then `SchedKick`, in that order
and possibly apart.  `taken` records which triggers took a thread off.

No wakeup comes from nowhere: the callers of `sched_enqueue` are triggers, the
tick, kicks, futex wakes, the start of new threads, and the wakeup of an exec
by the reaper, and `ThreadGroup` shows (`WakesTheBlocked`) that the last one
finds the thread it means.  Hence `UntimedAwaitNeverTimesOut`.

### Deferral (`event_trigger_deferred`, `event_run_deferred`), DeferralProofs

One step per atomic operation: `queued` is exchanged, the list head is read,
`next` stored and the head swapped; the tick takes the list with one exchange,
and per element reads `next`, clears `queued` and triggers.  `owed` remembers
the calls since the last trigger began.

### Mutex and LockSpec (`proc/mutex.c`), MutexProofs

`owner`, `num_waiters` and the event `released` (`num_pending`, `listening`).
What is done under `mtx->lock` is a step; the event has the grain that `Event`
justifies.  `AwaitFails` is the ignored `-ENOMEM`; `SpuriousWakeup` is what
`sched.h` permits, although `Event` shows the kernel has none: the mutex does
not rely on that.  `LockSpec` is the abstract sleeping lock, implemented with
`holder <- owner` and the waiting threads as `wanting`.

### Sched and ThreadLife (`proc/sched.c`, `arch/amd64/proc/sched.S`), SchedStepProofs, SchedQueueProofs, SchedProofs

A context is a thread or a hart inside the scheduler interrupt.  Threads have
`state`, `hart_lock`, `sched_lock`, `last_hart`, `yield_await`,
`preempt_count`, `need_resched`; harts have `curr`, `queue`, `dead_thread`,
`ipi` and the idle thread's place.  The handler is a sequence of steps
(`IrqStart` and so on) with `next` and `unlock` as its locals; waking is
`WakeChoose`, `WakePush` and the kicks; stealing tries `hart_lock`.  `ThreadLife`
says what a thread sees of it: blocked, runnable, taken by one hart, let go,
reaped once.

### Tlb (`mm/tlb.c`), TlbProofs

The page tables are a version number, a TLB the oldest version it may translate
by.  `tlb_shootdown` is: change, take a generation, flush here, send IPIs, wait
for each hart; `tlb_poll` and the interrupt load the generation, flush, and
store it.  A `Masked` shooter has interrupts disabled and polls while it waits; any
other may also take the interrupt between two of its own steps.  A `Movable` one may be
switched to another hart between any two instructions, which flushes there.

### Futex (`proc/futex.c`)

One bucket.  `word` is user memory and changes by itself.  `futex_wait` checks
the word under the bucket's lock, queues, sleeps, and looks again whether it is
still queued to tell a wakeup from a deadline or a signal.

### KpRing and RecordLog (`core/kprintf.c`, `core/panic.c`)

The ring in units of `RECORD_ALIGN`: each unit holds a header, text or padding.
An append is `AppendStart`, drops, padding, header, text and the stores to
`ring_head` and `next_seq`, one step each, because a panic may stop the hart
before any of them.  `panic` remembers where it did: a panic between the stores to
`ring_head` and `next_seq` (`NumbersAreRight` is then false) leaves a record in the
ring whose number the next one takes again.  `RecordLog` is what its readers are
modelled on.

### Console (`core/console.c`)

Over `RecordLog`: `next_seq`, `console_lock`, the list, a cursor per console.
`console_flush` tries the lock, flushes, releases and looks again.  `unwritten` is set
when a try fails because `console_release` has the lock, which writes nothing more:
the exception of `AllWritten`.  Adding a console twice and removing one that is not
there are refused under the lock (`AddAgain`, `RemoveAgain`).

### KpLog (`core/kplog.c`)

Over `RecordLog` and a one-bit deferred trigger: a read fills the buffer record
by record, reports losses, or waits; a seek moves the cursor.  With several files
open they share the event; `robbed` remembers whose wakeup went to another.

### ThreadGroup (`proc/process.c`, `user_exit.c`, `sys_thread.c`), ThreadGroupProofs

The thread list with both counts, `exec_thread`, the flags, `THREAD_WORK_EXIT`
per thread and each thread's place: in user mode, on its way out, in
`begin_exit`, in `process_dethread`, dying, being reaped.  The exit status is
identified with whoever passed it.

### Family (`proc/process.c`, `sys_process.c`)

Processes with parents, children, flags and references; the reaping of the last
thread (`ReapLast`) goes through the zombie flag, `notify_parent` and
`reparent_children` step by step; threads `Fork` and `WaitChild`.  A fork may fail after
`process_create` (`ForksFail`).  The scenes `forks` and `waits` are in `MCDevices`.


### Signals (`proc/signal.c`, `sys_signal.c`), with MCThreads

One process: what is pending on it and on each thread, with the queued siginfo;
masks, actions, `THREAD_WORK_SIGNAL` (`signal_work`) and `THREAD_WORK_EXIT`.  A step
is a critical section of the lock of the actions.  A thread's context is a stack of
what its handlers interrupted, so a `sigreturn` restores the mask that the frame
has.  `overlooked` marks the one exception of `SignalIsSeen`, which its comment
describes.

### Pgrp (`proc/pgrp.c`, the session part of `dev/tty_interface.c`), with MCThreads

Group objects with `pgid`, members and references, the table, sessions, and one
terminal with its session and foreground group.  Everything is done under
`process_group_lock`; the references that are dropped after it are in `dropped`,
so another call can come in between.  Objects are reused once they are freed.

### Regions and AddrMap (`mm/vms.c`, `place_mapping`), with MCMemory

`Regions` has the sorted list and the calls as the code makes them: splitting,
trimming, merging, placing, with any allocation failing.  `AddrMap` is what
`vms.h` promises: a function from pages to what is mapped there, changed by all of
a call or by none.  The refinement reads the list as that function.  `vms_sync`
gives up the lock while it waits, so it is a walk that other calls overtake.

### Vms (`mm/vms.c`, `rmap.c`, `pframe.c`, `pslab.c`), with MCMemory

One private page per address space: the entry, the translations harts may still
use, the frame with its count and content, and the page of the file it was taken
from.  Faults, copies on write, `vms_protect`, `vms_clone` (which pins the parent's page,
maps it for the child and takes the parent's write access in three steps), pins, copies in and out
and the walker that takes a page off the cache interleave where the code releases
a lock.  A program's own loads and stores go through the translations, not through
the page table.

### Fcache (`fs/fcache.c`), with MCMemory

Pages, dirty marks, `dirty_sectors`, the queue of dirty files, the disk, and one
mapping of the file.  `cache->lock` is held from step to step; write-back takes a
page's write access in the page table, then on the harts, and then writes its
dirty sectors.  The disk may fail.  `file` is what a reader should find, and is written by the calls alone.

### CharDevice (`dev/char_interface.c`, `char_event.c`, `fs/devfs`, `fb_interface.c`, `tty_interface.c`), with MCDevices

One device from `char_interface_add` to its release; programs open it through the
directory, call into it, map its memory and close it, while its driver changes the
mode and removes it.

### BlockDevice (`dev/block_*.c`, `devfs_block.c`, `drivers/storage/ahci.c`), with MCDevices

A disk, the partitions that each reading of its table makes, and one port.  A
request takes the port, issues a command, sleeps for the interrupt, reads what
the handler left or times out, and recovers the engine; the driver detaches at any
time.  The disk is marked present without the lock of the events (`ProbeAta`) and
announced under it (`Connect`), so a rescan may come in between.  A partition is
taken out of the directory twice, by its own event and by the removal of its medium
(`PartRemoved`, `RemovePart`).  An attach that has to be tried again returns with
its disk registered (`AttachAgain`); nothing follows it in the model.  The hardware may
carry a command out, fail it, be silent or answer late.

### Irq (`irq/irq.c`, `intctl.c`), with MCDevices

The tables of handlers, the counts of dispatches in flight, and lines with their
lists.  Dispatch is a step per list element; attaching allocates a number, binds
the line and unmasks it; detaching unlinks, waits for dispatches and frees.

### DeviceTree (`device/bind.c`, `depend.c`, `tree.c`), with MCDevices

Only the worker changes the tree, so its recursive calls are a stack of calls to
make, and one action is what a call does before it makes others.  Requests, and
the firmware whose nodes come and go, interleave with them.

### HwTree (`device/hwtree.c`, what it reads of `tree.c`, `bind.c`), with MCDevices

One worker changes nodes and interfaces and posts a record after each change
(`PostRecord` under the ring's lock, `PostTrigger` after it).  An open file takes the
cached snapshot or walks the tree (`FirstChild`, `VisitNode`, `NextChild`), holding
`device_tree_mutex` only for each step from node to node; a snapshot gets its number
before the walk.  The file then reads records from the ring; one that fell behind is
told how many it lost and gets a new snapshot.
Snapshots are shared and counted.  `picture` is the tree as a reader who applies all
it reads has it, and `whole` is whether the walk behind it was not cut short:
`ReaderKnowsWhatWasWalked`, which is in `ReadersAreServed`, is about readers with a
whole one, and false of the others.

### Vnode (`fs/vcache.c`, `vnode.c`, `mount.c`, `ext2/ext2_vnode.c`), with MCDevices and MCVnode

Structures with the inode as it was read, the cache with its list of unused ones,
the directory and the inodes on disk.  A lookup reads the name, fills a vnode and
caches it in three steps; an unlink is one step under the file system's mutex.
A last `vnode_decref` is the count (`Decref`) and then `vcache_keep` (`Keep`); if the vnode
was freed in between (`KeepGone`) what is read is undefined, `misused` is set and the
behaviour ends there.  `late`, `taken`, `missed` and `twice` mark the gaps described
below, and excuse only what follows from them.
## Runs

| Run | Module, cfg | Checks | Shows |
|---|---|---|---|
| `memory` | `MCMemory`, `Memory.cfg` | `FilesAreKept`, `DirtyIsFound`, `FramesAreSafe`, `PrivateStaysPrivate`, `SyncMissesNone`, `ImplementsAddrMap` | A cached file and a device are written, mapped, cut, synced and reclaimed, with errors; a process and its child share private pages with each other and with the cache; the regions of an address space under every call. |
| `threads` | `MCThreads`, `Threads.cfg` | `OneHartPerThread`, `HartsAgree`, `SignalsAreSeen`, `HandlersUnwind`, `GroupsAgree`, `ImplementsThreadLife` | Two harts run two threads, one bound to a hart, through wakeups, yields, exits, spinlocks and ticks; two threads send, take, block, force and return from signals, exit and exec; processes move between groups and sessions, wait, die and contend for a terminal that is removed. |
| `sched_turns` | `MCSched`, `SchedLive.cfg` | `TurnsComeRound` | Three threads share one hart under fairness, two of which never give it up by themselves: every runnable thread gets its turn and every yield returns. |
| `waiting` | `MCWaiting`, `Waiting.cfg` | `ListsAreTrue`, `ResultIsTrue`, `NoSleepOnTrue`, `NoneLost`, `PurgedEverywhere`, `RingIsSound`, `ConsolesShowAll`, `RingIsRecordLog`, `ReleasedIsLeftAlone` | Events in four scenes, futexes in two, deferred triggers, and TLB shootdowns in two, each with every interleaving of its waits, triggers, deadlines, signals and ticks: no wakeup is lost, invented or delivered to a wait that is over. The ring of the kernel log wraps at every offset and a panic stops an append at any store; harts log and flush, add, remove and hand over consoles. |
| `waiting_live` | `MCWaitingLive`, `WaitingLive.cfg` | `Sound`, `NoLostWakeup`, `ImplementsLock`, `EveryWaitReturns`, `EveryHartIsServed` | Three threads contend for a mutex that implements an abstract lock; events, futexes, deferred triggers and shootdowns with interrupts disabled, under fairness: every wait that has been ended returns. |
| `process_threads` | `MCLife`, `LifeLive.cfg` | `ThreadsAgree`, `EveryoneGoes` | Three threads of a process exit, create, exec and are killed in every order: an exec is alone when it replaces the image, every exit ends in a zombie, and init collects the zombies it is left with. |
| `event_trigger_in_interrupt` | `MCEvent`, `EventInterrupt.cfg` | `NoWaitOnOwnHart` (violated) | await_until unregisters with the event lock held and interrupts enabled, so an interrupt on that hart that triggers the event spins on a lock its own hart holds. |
| `tlb_migrate` | `Tlb`, `TlbMigrate.cfg` | `PurgedEverywhere` (violated) | Two threads that shoot down and may be moved: one can return while another hart still translates by the old tables. |
| `tlb_serve` | `Tlb`, `TlbServe.cfg` | `ShootdownReturns` (violated) | Two harts shoot down with interrupts enabled, under fairness: the interrupt of one between the flush and the store of the other loses a generation, and a shootdown spins for good. |
| `devices` | `MCDevices`, `Devices.cfg` | `RemovedIsLeft`, `DevicesAreCounted`, `RequestsAreTrue`, `InterruptsFindTheirLine`, `TreeSettles`, `VnodesAreCounted`, `NamesAreTrue`, `UnmountLeavesNone`, `ReadersAreServed`, `ReferencesAgree`, `DeathIsTold` | Devices are found, bound, used and removed while programs hold them: a framebuffer and a terminal, a disk with partitions and its port, interrupt lines, the tree with its dependencies; readers of the tree and of the log read, fall behind and sleep while both change; files are opened, linked, renamed and unlinked on a volume that is unmounted; processes fork, fail to fork, wait, die and are adopted in every order. |
| `vnode_late` | `MCVnode`, `VnodeLate.cfg` | `NewFileHasNewNode` (violated) | Two threads create and unlink one name: a create that is overtaken by an unlink and a second create caches the vnode of the file that is gone, and the name of the new file leads to it. |
| `vnode_unmount` | `MCVnode`, `VnodeUnmount.cfg` | `OpenKeepsMounted` (violated) | A volume is unmounted while one thread has a file open and another, inside, unlinks it: the look at the orphans comes before the unlink, that at the cache after it, and the volume goes with the file open. |

### Bounds, and why they are enough

* Scheduler (`threads`): two threads, one bound to a hart, and two harts, with every
  switch, steal, kick and death possible between them.  Liveness
  (`sched_turns`): three threads on one hart, since only a full queue can starve; two
  of them only run (`OnlyRuns`).
* Events: one or two threads, one or two events, two triggers, `MaxPending` 1 or
  2: a wait meets at most one deadline, one signal and the triggers of the events
  it names; a third thread only adds listeners that the triggers treat alike.
* Mutex: three threads and a saturation point of 1 or 2 for the pending wakeups
  (which stands for 2^32-1); the proofs remove the bound.
* TLB: three harts and two shootdowns, so that each waits for a hart that is not
  the other's; interrupts are disabled in both where `EveryHartIsServed` is checked, and
  two harts with interrupts enabled are enough for `tlb_serve`; the version and generation counters are bounded by `MaxChanges`.
* Futex: three threads, one or two words in one bucket.
* Deferral: two deferrals, two callers, two harts that run them: a list of two, and a
  push between any two steps of a drain; the proofs remove the bound.
* Log: a ring of nine units with records of two to four units meets its end at
  every offset; a log of two records overflows under one console that three harts
  flush, under two that two harts add, remove and hand over, under one reader that
  seeks, and two that wait.
* Thread groups: three threads and one killer; families: init, a process with two
  threads, and two descendants, which gives orphans of orphans; where the two threads
  wait at once, init collects nobody.
* Signals: two threads and two signals, one of which kills by default, with three
  actions, two sends and three calls; groups: three processes and three groups, or
  two and a waiter, and one terminal.
* Page cache: a page of two sectors of a file, or of one where it is copied to, or two pages of a
  device, and two callers, who meet on each sector; private memory: a process and
  its child over three frames, one of which may be the cache's; regions: three or
  four pages and at most three regions, which is one split in the middle.
* Character devices: a driver and two programs, two modes; block devices: a disk
  whose table is read three times and one client, polled, or a port with two and its
  interrupt.
* Interrupts: two harts with one number each, four drivers, of which three want one
  line: the numbers run out, the line is shared, refused and destroyed.
* Device tree: a bus, a provider below it and a consumer elsewhere, each added at
  most twice, and two requests from outside; they may come while an earlier one is
  carried out.
* Readers of the tree: one reader and one device that is bound and unbound with its
  interface, or fails, or two devices, side by side or one below the other, of which
  either is removed; two readers with one device.  The ring holds two events, or one,
  so each falls behind; a third sibling only lengthens the walk.
* Vnodes: two threads, three structures, one or two inode numbers and names, room
  for one unused vnode: numbers and structures are reused at once.  Two names of one
  file have two unlinkers.

`CHECK_DEADLOCK FALSE` stands where a counter is bounded, where every process
may have exited, or where every caller may have returned for the last time.

### Fairness

Safety runs assume none.  Where a run checks liveness:

* harts execute: a thread that is current, a handler that was entered and an
  interrupt that is pending go on (weak fairness per step);
* a test-and-set spinlock that becomes free again and again is won in the end
  (strong fairness of the step that takes it): the locks are held for bounded
  pieces of code, and no ticket order is assumed;
* the timer of a hart is re-armed by every handler, so ticks, and with them
  deadlines and deferred triggers, keep coming;
* who posts work calls `sched_kick` afterwards, being in kernel code that
  does not stop in between;
* nobody is assumed to call anything: no thread has to fork, wait, log, trigger
  or release, except the owner of a mutex, the holder of a
  spinlock, and init, which waits for children for ever.

## What is proved

The theorems hold for every value of the constants that satisfies the named
assumptions: `ASSUME`s of `Mutex`, `Sched` and `ThreadGroup`, and hypotheses of
the theorems for `Deferral` (`NullAssumption`) and `Tlb` (`Stay`).  In each
module `Inv` is the inductive invariant; it holds initially, each action keeps
each of its parts, and the properties follow from it.

| Theorem | Property, as the runs check it |
|---|---|
| `MutexProofs!MutexSafe` | `Sound` |
| `MutexProofs!MutexNoLostWakeup` | `NoLostWakeup` |
| `MutexProofs!MutexImplementsLock` | `ImplementsLock` |
| `SchedProofs!SchedOneHart` | `OneHartPerThread` |
| `SchedProofs!SchedAgrees` | `HartsAgree` |
| `SchedProofs!SchedImplementsLife` | `ImplementsThreadLife` |
| `TlbProofs!ShootdownPurges` | `PurgedEverywhere` |
| `DeferralProofs!DeferralsAreKept` | `NoneLost`, with `InOnePlace` |
| `ThreadGroupProofs!ThreadsAlwaysAgree` | `ThreadsAgree` |

**MutexProofs.**  `Inv` is `TypeOK`, `MutualExclusion`, `WaitersCounted`,
`ListeningBlocked`, `NoPendingWhileListening` and `WakeupOnItsWay`.  None is
inductive alone: that a free mutex with waiters has a wakeup on its way needs
`mutex_release` to see the waiters, hence the exact count, and needs a thread
that registers to find no pending wakeup.  The refinement takes each step of the
mutex to a step or a stutter of `LockSpec`.

**SchedStepProofs, SchedQueueProofs, SchedProofs.**  One argument, in three modules.
The first part of the invariant (`Inv`) is the types, `WakerSet` (who is waking
has said whom and where), `UserHoldsLock` (a hart that uses a thread's stack
holds its `hart_lock`), `UnlockPlace`, `NextPlace` and `EnterOther` (what the
locals of the handler are at each place).  `UserHoldsLock` is not inductive
without the last three, because the lock of the previous thread is released only
after the switch, from a local.  From it follows `SchedOneHart`.
The second part (`Whole`) says where a thread is.  That the queues hold exactly the
runnable threads, each once (`Once`), depends on who may push: a waker has the
`sched_lock` of a blocked thread (`PushHolds`), the handler has the one of the
thread it leaves (`PickHolds`), and nobody else has one (`LockHasHolder`).  A
thread that is woken while a hart is still on its stack has to be queued on that
hart, or nobody could take it: `HeldQueued`, which needs `PushHome`, that the
waker chose this hart, and `Held`, that the hart which holds a thread is the last
it ran on.  `DeadKept` and `FreeUnused` say that what the handler frees nobody uses;
`Unpreempted` that no handler switches away from a holder of a spinlock; and
`HaltedHartIsKicked`, with the flag of `ActiveHasCurr`, that a waker which saw a
hart as busy meets it before it halts.  `SchedStepProofs` defines the invariant and
has the steps for the parts on threads, locks and locals, `SchedQueueProofs` those
for the reaped, the queues and the idle loop, and `SchedProofs` has what
`rq_take_nolock` finds (`FirstTakeable` is a minimum, so the well-foundedness of the
naturals is used), the invariance, and the refinement of `ThreadLife`, where each
step moves each thread along its life or not at all (`LifeStep`).

**TlbProofs.**  That every hart a shootdown waited for has flushed follows from
what a stored generation means: the hart flushed after every change whose
shootdown has that generation or an older one (`Reached`, `FlushedIsFlushed`).
At the store itself that flush is a step ago, and on the hart that `self` named,
so `SelfIsHere` says that the context is still there, or that the switch away
flushed.  `Stay` supposes that a context which may be moved is the only one that
shoots down; without it the theorem is false, which is the run `tlb_migrate`.

**DeferralProofs.**  `queued` tells exactly whether a deferral is in the shared
list, in a caller's hand or in a list that a tick took (`FlagIsTrue`), so the one
whose exchange finds it clear may write `next`.  To keep that while a tick unlinks
its list, the rest of the list must not lead back to what was unlinked: the lists
have no loops (`NoLoops`).  A list is the least set that holds its head and
with each element the next (`From`), so what it holds after a push, a take or a
step is derived without induction.

**ThreadGroupProofs.**  `Inv` relates the list of threads, the flags and both counts
to the place of each thread: `Linked`, `Flagged`, `Exits`, `Execs`, `Tids`, `Counts`.
That a waiting exec is woken needs `Execs`: it is not alone, or exactly one
reaper carries its wakeup.  That the process ends by an exit needs that the last
thread which leaves unflagged is on its way to `begin_exit` (`Exits`), for which
`num_live_threads` has to be exact whenever no exit has begun.



## What is only model-checked

* Liveness (`EveryWaitReturns`, `TurnsComeRound`, `EveryHartIsServed`, `EveryoneGoes`, and the
  counterexample `tlb_serve`):
  the prover handles neither fairness nor `ENABLED`.
* The refinements `RingIsRecordLog` and `ImplementsAddrMap`: the layout of the ring modulo
  its size, and the list of regions that calls cut and rebuild (`SelectSeq`), about
  which the prover has few facts and cannot make the inductions that would give others.
* The safety of the remaining modules.  The invariants of `Signals`, `Pgrp`,
  `Family` and of the memory and device modules count references or members of sets
  that several variables hold together; they are candidates for proofs, and TLC has checked
  them at the bounds above.

## Disagreements between code and comments

* `src/kernel/proc/event.c:152` (code bug, run `event_trigger_in_interrupt`): await_until takes event->lock at line 152 with plain spinlock_acquire after interrupts came back at line 136; a device interrupt or the scheduler tick (event_run_deferred, kernel/proc/sched.c:260, which runs before the preempt_count check at 276) on that hart that triggers the same event then spins on the lock with the holder underneath it. kernel/include/vex/spinlock.h:43-44 says "The holder can't be preempted, so a waiter on the same hart never spins out the holder's timeslice". Every other user of the lock disables interrupts first (lines 53, 185, 239, 301). ktest has no test of it.
* `src/kernel/mm/tlb.c:46` (code bug, run `tlb_migrate`): tlb_shootdown reads self = this_hart() and uses it later without keeping the thread on that hart (its callers hold mutexes or nothing, e.g. kernel/mm/vms.c:797, so they can be preempted and moved). A thread moved off hart A before line 47 stores its generation into A's tlb_flushed from hart B although A has not flushed since; a second shootdown with a smaller generation then reads A as flushed and returns, and A's interrupt finds nothing to do. kernel/include/vex/tlb.h:4 says "@post No hart can reach the old translations through its TLB".
* `src/kernel/mm/tlb.c:50` (code bug, run `tlb_serve`): A hart that shoots down with interrupts enabled, as the callers at kernel/mm/vms.c:797 and kernel/mm/fcache.c:405 do, can take the TLB interrupt of another shootdown between its flush at line 49 and its store at line 50. The handler stores the newer generation into tlb_flushed, and line 50 overwrites it with the older one. No interrupt comes for the newer one again, and the poll of hart_spin only runs while this hart itself waits: the other shootdown spins at line 62 until somebody shoots down again. The comment at src/kernel/mm/tlb.c:61 says "hart_spin polls too, so two harts shooting down at once serve each other".
* `src/kernel/fs/vnode.c:132` (code bug, run `vnode_late`): vnode_create lets the file system make the file and caches its vnode in a step of its own (cache_created). Between the two another thread may look the name up into a vnode of its own, unlink it and drop it, which gives the inode back, and create a second file, which gets the same inode number. The first thread then caches the vnode of the file that is gone under that number, and a lookup of the new name gets it. The comment at src/kernel/fs/vnode.c:259-260 means to rule that out: the file system has to take a victim out of the cache "before the entry can be reused, or a new file there gets this vnode".
* `src/kernel/fs/mount.c:350` (code bug, run `vnode_unmount`): vfs_unmount reads fs->orphans and then asks vcache_in_use. A call that is inside the volume may unlink a file that a program has open after the first look, leave the cache's sight with it, and leave the volume before the second: neither look sees the open file, and the volume is taken apart under it. src/kernel/include/vex/mount.h:52 says "Unlinked vnodes still referenced; they keep the filesystem busy", and the comment at src/kernel/fs/mount.c:341-342 that the calls inside "hold a reference for their whole duration, so the check sees them".

## Behaviour that the models show and no run claims

* `mutex_acquire` ignores the `-ENOMEM` of its wait and tries again at once
  (`mutex.c:94`): with no memory it spins instead of sleeping.
* A line that a panic cuts off in the middle of an append is lost; the ring keeps
  the records before it (`kprintf.c:108`).  If the panic comes between the stores to
  `ring_head` and `next_seq` (`kprintf.c:145`, `:146`) the line is there, the next record
  takes its number again, and a reader fails the assertion at `kprintf.c:306`.
  `RingIsSound` excepts what is read after a panic at that place, or between the two
  stores that drop a record, and nothing else (`NumbersAreRight`).
* A console whose removal races a flush is left alone after it is released, not
  before (`console.c:236`).  A record that is logged while `console_release` has the lock
  (`console.c:226`) is on no console until the next one is logged, although
  `console.c:172` and `console.h:59` say that whoever has the lock writes it.
* A reader of `/dev/kplog` that seeks, or that is overtaken between two looks at
  the log, is told of fewer losses than there were, never of more
  (`kplog.c:121`, `:150`, `:173`).
* Two readers of `/dev/kplog`, or of `/dev/hwtree`, share one event.  A trigger wakes the
  readers that wait, or keeps a wakeup for the next one (`event.c:189`); a reader that
  looked before the record was there and waits after the other one was woken sleeps
  until the next record (`kplog.c:173`, `hwtree.c:629`).  `ReadersAreServed` excuses
  exactly that (`robbed`).
* A record that comes between the two looks of a read that found nothing makes it fail
  with `-EINVAL`, however large its buffer is (`kplog.c:150`, `hwtree.c:496`).
* Nothing is posted when a device stops waiting (`depend.c:154`, `:183`), so a reader of
  `/dev/hwtree` may go on taking it for waiting; `Told` does not tell the two apart.
  Every event that is posted while nobody waits counts as a wakeup, so the first read
  that has to wait looks once for each.
* The parent that is told of a death is the one the process had when it became a
  zombie; if it dies in between, the new parent is told as well
  (`process.c:210`).
* A process killed from outside can be seen by its parent before the status is
  stored, if the killer is preempted between setting `PROCESS_EXITING` and storing
  it; `ThreadsAgree` excuses exactly that.
* Two unlinks of the two names of one file both count it as an orphan
  (`vnode.c:265`), and the count, which keeps a volume busy (`mount.h:52`), never
  comes back to zero (`twice`; `VnodesAreCounted` states the count of all other files).
* A lookup or a create that an unlink, or a link, overtakes caches a vnode whose link
  count is out of date, or whose inode is gone (`late`; `vnode.c:82`, `:110`, `:132`).
  The run `vnode_late` shows the worst of it.
* Between the last `vnode_decref` and `vcache_keep` a vnode has no reference and is
  still found (`vnode.c:640`).  Another thread can take it, unlink it and destroy it, and
  `vcache_keep` then reads what was freed and may destroy it again.
  `VnodesAreCounted` excuses exactly the vnodes that were found so (`taken`).
* `vfs_unmount` reads the orphans before it looks whether the cache is in use
  (`mount.c:350`): a file unlinked in between escapes both (the run `vnode_unmount`).
  `vnode_destroy` uncounts before it releases (`vnode.c:657`), so the volume may also go
  while a vnode is on its way out.  `UnmountLeavesNone` excuses these two (`missed`).
* A walk of the tree for a snapshot that stands on a node when that node is removed ends
  there (`hwtree.c:217`, `bind.c:287`): the siblings after it are neither in the snapshot nor
  in the events after it, although `hwtree.c:249` says that a change "is in the
  snapshot, in the events after it, or in both, and never lost".
* When the driver of a node that is to go offline refuses, what had gone offline for
  it stays so: `online_node` returns at once for a node that is not offline
  (`bind.c:341`, `:362`), although `driver.h` has `online` undo `offline`.
  `device_add_bound` wakes nobody who waits for its node.
* `ahci_attach` can return `-EAGAIN` with interfaces registered (`ahci.c:976`),
  although `driver.h:45` has a failing attach undo what it did; the counts hold of what it
  leaves.  An interrupt handler that is
  late can leave an error for the next command, which then fails with `-EIO`.
* A page whose write-back failed stays dirty and off the queue of dirty files until
  it is written again.  A copy to a pinned page (`vms_copyout`) that ends after the
  page was written back is not written.
* `vms_protect` shoots down after it has released the lock, so a program may for a
  moment use the old access (`blurred`).
* `release_device_pages` untracks a mapping before it unmaps it (`vms.c:438`), so a
  revocation in between does not find it, although `vms.h:67` says that it unmaps every
  page; `RemovedIsLeft` excepts a region that is being unmapped.
* `fb_interface_remove` uses the interface after `char_interface_remove`, which may have
  dropped the last reference (`fb_interface.c:586-593`).  `DevicesAreCounted` therefore says
  of a terminal, and not of a framebuffer, that its remover still has it.
* A process-wide signal goes to one thread; if that thread blocks it before it is
  delivered, no other is told (`signal.h:126`).  `SignalsAreSeen` excuses exactly that
  (`overlooked`).
## Plan

Stage 1, the core on which everything else waits, sleeps and dies: scheduler,
events, mutexes, futexes, TLB shootdown, deferred triggers, thread groups,
processes, and the kernel log with its readers.  Modules are written to be
proved about: constants with named assumptions, one action per operation,
invariants as conjunctions of named parts, no recursive operators.

Stage 2, along the same lines: signals, groups and sessions, the page cache,
address spaces, character and block devices, interrupts, the device tree and its readers, vnodes.
Of it are left, most important behaviour first:

1. descriptor tables with files shared by fork and closed under a read;
2. clock sources and event timers;
3. page frames and the heap.

Stage 3: terminal input, credentials, kernel
stacks, MMIO mappings, device resources, mounting.

Stage 4: allocation in ext2, FAT and echfs with crashes between writes; pure
algorithms against reference definitions (`libk/sort.c`, `libk/bitmap.c`,
`libk/radix.c`, the partition tables).

Theorems to come: the results and lists of `Event`; `CountedIsReported` and
`NoLostWakeup` of `Futex`; the counts of `Family`.

## Not modelled, and why

* Hardware access: drivers beyond AHCI, buses, firmware, boot and architecture code
  beyond the context switch: what the hardware does is not in the repository.
* Formatting, parsing and wording of text; performance.
* Weak memory: atomics and fences are taken as sequentially consistent, which
  is what the fences in `console.c` and the acquire and release orders on amd64
  give for the accesses modelled.
* The vendored code under `contrib/`, a third of the lines of the tree: uACPI is
  an interpreter of firmware that is not in the repository.  The mapped lines are
  those of the kernel's concurrent core; most of the rest of the kernel is drivers,
  file formats and headers.
* In `Vnode`: errors of the disk, renumbering (`vcache_rekey`), symbolic links, what is in
  subdirectories, pinned vnodes.  In `BlockDevice`: an engine that does not stop,
  the reading of tables, ATAPI.  In `Fcache`: the tearing down of a cache, and an
  allocation of several sectors that fails midway.  In `CharDevice`: the
  regions that a fork copies.  In `HwTree`: an attach that fails after it added an
  interface, block interfaces, and the fields of a record.
