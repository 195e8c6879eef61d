------------------------------- MODULE HwTree -------------------------------
(* kernel/device/hwtree.c: the readers of /dev/hwtree.  Each gets a snapshot of   *)
(* the device tree and then the changes, from a ring that drops the oldest; one   *)
(* that fell behind is told so and gets a new snapshot.                           *)
(*                                                                             *)
(* How the tree changes is taken from device/tree.c and bind.c, where one worker   *)
(* changes it and posts an event after each change; in which order it does what    *)
(* is left open (DeviceTree has that).  A node is added once, as each gets a new   *)
(* id.  A file is used by one thread at a time, which its mutex sees to.  Block    *)
(* interfaces are listed like the char interfaces here.                            *)
EXTENDS Integers, Sequences, SequencesExt, FiniteSets

CONSTANTS Nodes, Root, None,
          Parent,      \* [Nodes -> Nodes \cup {Root}]
          Files,
          Snapshots,   \* bound: the snapshot objects there is memory for
          Capacity,    \* RING_RECORDS
          Rooms,       \* sizes of read buffers, in records
          Changes,     \* bound: what the worker does to nodes
          MaxSeq       \* bound: the events posted

BoundAssumption == /\ Capacity \in Nat \ {0} /\ MaxSeq \in Nat /\ Rooms \subseteq Nat
                   /\ None \notin Nodes \cup Snapshots \cup Files

VARIABLES children,    \* [Nodes and Root -> sequence of nodes]
          state,       \* [Nodes -> "none" before it is added, or priv.state]
          ifaces,      \* the nodes with an interface in the list
          events_lock, \* char_event_lock, as held over a post: None, or the worker's Root
          worker,      \* what it is doing
          ring, next_seq,
          pending, listeners,        \* ring_appended
          snapshot_lock, cached,
          refcount, taken,           \* [Snapshots -> references, and the seq and records of it]
          pc, after,   \* [Files -> where its call is, and what a new snapshot is for]
          snapshot, offset, seq, lost, room, copied,    \* [Files -> ...]
          walk,        \* [Files -> the walk of build_snapshot]
          picture,     \* history: [Files -> the tree as its reader knows it]
          robbed       \* history: the files whose wakeup another file took

treeVars == <<children, state, ifaces, events_lock, worker>>
ringVars == <<ring, next_seq>>
waitVars == <<pending, listeners, robbed>>
snapVars == <<snapshot_lock, cached, refcount, taken>>
heldVars == <<after, snapshot, offset, seq, lost, room, copied, picture>>
fileVars == <<pc, walk, heldVars>>
vars == <<treeVars, ringVars, waitVars, snapVars, fileVars>>

Idle == [do |-> "idle"]
NoWalk == [path |-> <<>>, records |-> <<>>, seq |-> 0, missed |-> FALSE]
Nothing == [nodes |-> [n \in Nodes |-> "none"], ifaces |-> {}, whole |-> TRUE]
For(what, missed) == [what |-> what, missed |-> missed]
Open == For("open", 0)
Record(type, n, s) == [type |-> type, node |-> n, state |-> s]

Init ==
    /\ children = [n \in Nodes \cup {Root} |-> <<>>]
    /\ state = [n \in Nodes |-> "none"]
    /\ ifaces = {} /\ events_lock = None /\ worker = Idle
    /\ ring = [i \in 0 .. Capacity - 1 |-> None] /\ next_seq = 0
    /\ pending = 0 /\ listeners = {} /\ robbed = {}
    /\ snapshot_lock = None /\ cached = None
    /\ refcount = [s \in Snapshots |-> 0] /\ taken = [s \in Snapshots |-> None]
    /\ pc = [f \in Files |-> "closed"] /\ after = [f \in Files |-> Open]
    /\ snapshot = [f \in Files |-> None] /\ offset = [f \in Files |-> 0]
    /\ seq = [f \in Files |-> 0] /\ lost = [f \in Files |-> 0]
    /\ room = [f \in Files |-> 0] /\ copied = [f \in Files |-> FALSE]
    /\ walk = [f \in Files |-> NoWalk]
    /\ picture = [f \in Files |-> Nothing]
-------------------------------------------------------------------------------
(* What the worker does to the tree, and what it posts after it.                   *)
Post(type, n, s, then) ==
    worker' = [do |-> "post", record |-> Record(type, n, s), then |-> then]
Doing(what, n) == [do |-> what, node |-> n]
Becomes(n, s) == state' = [state EXCEPT ![n] = s]
Posts(k) == worker = Idle /\ next_seq + k <= MaxSeq
OutsideTree == <<ringVars, waitVars, snapVars, fileVars>>

\* add_node
AddNode(n) ==
    /\ Posts(1) /\ state[n] = "none"
    /\ Parent[n] # Root => state[Parent[n]] \notin {"none", "gone"}
    /\ children' = [children EXCEPT ![Parent[n]] = Append(@, n)]
    /\ Becomes(n, "present") /\ Post("add", n, "present", Idle)
    /\ UNCHANGED <<ifaces, events_lock, OutsideTree>>

\* bind: the best driver attaches, with or without an interface, fails, or waits.
Bind(n) ==
    /\ "bind" \in Changes /\ Posts(2) /\ state[n] = "present"
    /\ Becomes(n, "probing") /\ worker' = Doing("attach", n)
    /\ UNCHANGED <<children, ifaces, events_lock, OutsideTree>>

AttachFails(n) ==
    /\ "fail" \in Changes /\ worker = Doing("attach", n)
    /\ \/ Becomes(n, "present") /\ Post("attach_failed", n, "present", Idle)
       \/ Becomes(n, "waiting") /\ Post("waiting", n, "waiting", Idle)
    /\ UNCHANGED <<children, ifaces, events_lock, OutsideTree>>

\* char_interface_register_internal; the lock is released after the event is posted.
AddInterface(n) ==
    /\ worker = Doing("attach", n) /\ events_lock = None
    /\ events_lock' = Root
    /\ ifaces' = ifaces \cup {n}
    /\ Post("interface", n, state[n], Doing("bound", n))
    /\ UNCHANGED <<children, state, OutsideTree>>

NodeBound(n) ==
    /\ worker \in {Doing("attach", n), Doing("bound", n)}
    /\ Becomes(n, "bound") /\ Post("bind", n, "bound", Idle)
    /\ UNCHANGED <<children, ifaces, events_lock, OutsideTree>>

\* device_wake_waiters, device_stop_waiting: nothing is posted.
StopWaiting(n) ==
    /\ worker = Idle /\ state[n] = "waiting" /\ Becomes(n, "present")
    /\ UNCHANGED <<children, ifaces, worker, events_lock, OutsideTree>>

\* unbind_node, once its consumers and children are gone
Unbind(n) ==
    /\ "unbind" \in Changes /\ Posts(2) /\ state[n] = "bound" /\ children[n] = <<>>
    /\ Becomes(n, "detaching") /\ worker' = Doing("detach", n)
    /\ UNCHANGED <<children, ifaces, events_lock, OutsideTree>>

RemoveInterface(n) ==
    /\ worker = Doing("detach", n) /\ n \in ifaces /\ events_lock = None
    /\ events_lock' = Root
    /\ ifaces' = ifaces \ {n}
    /\ Post("interface_remove", n, state[n], Doing("detach", n))
    /\ UNCHANGED <<children, state, OutsideTree>>

NodeUnbound(n) ==
    /\ worker = Doing("detach", n) /\ n \notin ifaces
    /\ Becomes(n, "present") /\ Post("unbind", n, "present", Idle)
    /\ UNCHANGED <<children, ifaces, events_lock, OutsideTree>>

\* remove_node, of one that is not bound and has no children
RemoveNode(n) ==
    /\ "remove" \in Changes /\ Posts(1) /\ state[n] \in {"present", "waiting"} /\ children[n] = <<>>
    /\ children' = [children EXCEPT ![Parent[n]] = Remove(@, n)]
    /\ Becomes(n, "gone") /\ Post("remove", n, "gone", Idle)
    /\ UNCHANGED <<ifaces, events_lock, OutsideTree>>

\* post: the record goes into the ring, then the readers are woken.
PostRecord ==
    /\ worker.do = "post"
    /\ ring' = [ring EXCEPT ![next_seq % Capacity] = worker.record]
    /\ next_seq' = next_seq + 1
    /\ worker' = [do |-> "trigger", then |-> worker.then]
    /\ UNCHANGED <<children, state, ifaces, events_lock, waitVars, snapVars, fileVars>>

\* The files whose thread found nothing and is about to wait
Late(files) == {f \in files : pc[f] = "await"}

PostTrigger ==
    /\ worker.do = "trigger"
    /\ pending' = IF listeners = {} THEN pending + 1 ELSE pending
    /\ listeners' = {}
    /\ robbed' = IF listeners = {} THEN robbed ELSE (robbed \ listeners) \cup Late(Files)
    /\ pc' = [f \in Files |-> IF f \in listeners THEN "read" ELSE pc[f]]
    /\ worker' = worker.then
    /\ events_lock' = IF events_lock = Root THEN None ELSE events_lock
    /\ UNCHANGED <<children, state, ifaces, ringVars, snapVars, walk, heldVars>>
-------------------------------------------------------------------------------
(* get_snapshot: the cached one if nothing was posted since, or one that is built.  *)
At(f, place) == pc' = [pc EXCEPT ![f] = place]
OutsideFiles == <<treeVars, ringVars, waitVars>>
\* snapshot_decref, if there is one; the last reference frees it.
Dropped(counts, s) == IF s = None THEN counts ELSE [counts EXCEPT ![s] = @ - 1]
Kept(snapshots) == [s \in Snapshots |-> IF refcount'[s] = 0 THEN None ELSE snapshots[s]]

\* take_snapshot, with a reference already counted in counts, and what its caller does then
TakeSnapshot(f, s, counts, snapshots) ==
    /\ refcount' = Dropped(counts, snapshot[f]) /\ taken' = Kept(snapshots)
    /\ snapshot' = [snapshot EXCEPT ![f] = s]
    /\ offset' = [offset EXCEPT ![f] = 0]
    /\ seq' = [seq EXCEPT ![f] = snapshots[s].seq]
    /\ lost' = [lost EXCEPT ![f] = IF after[f].what = "again" THEN 0 ELSE @ + after[f].missed]
    /\ At(f, IF after[f].what = "behind" THEN "read" ELSE "idle")
    /\ after' = [after EXCEPT ![f] = Open]
    /\ UNCHANGED <<room, copied, picture>>

TakeCached(f) ==
    /\ pc[f] = "snapshot" /\ snapshot_lock = None
    /\ cached # None /\ taken[cached].seq = next_seq
    /\ TakeSnapshot(f, cached, [refcount EXCEPT ![cached] = @ + 1], taken)
    /\ UNCHANGED <<OutsideFiles, snapshot_lock, cached, walk>>

BuildSnapshot(f) ==
    /\ pc[f] = "snapshot" /\ snapshot_lock = None
    /\ cached # None => taken[cached].seq # next_seq
    /\ snapshot_lock' = f
    /\ walk' = [walk EXCEPT ![f] = [NoWalk EXCEPT !.records = <<Record("begin", None, None)>>, !.seq = next_seq]]
    /\ At(f, "first")
    /\ UNCHANGED <<OutsideFiles, cached, refcount, taken, heldVars>>

(* append_children: the node that the walk stands on ends its path.                 *)
WalkTo(f, path, place) ==
    /\ walk' = [walk EXCEPT ![f].path = path]
    /\ At(f, place)
    /\ UNCHANGED <<OutsideFiles, snapVars, heldVars>>

\* device_next_child(parent, nullptr)
FirstChild(f) ==
    LET path == walk[f].path
        kids == children[IF path = <<>> THEN Root ELSE Last(path)]
    IN  /\ pc[f] = "first"
        /\ IF kids # <<>>     THEN WalkTo(f, Append(path, Head(kids)), "visit")
           ELSE IF path = <<>> THEN WalkTo(f, path, "interfaces")
           ELSE WalkTo(f, path, "next")

VisitNode(f) ==
    LET n == Last(walk[f].path) IN
    /\ pc[f] = "visit"
    /\ IF state[n] = "gone"
       THEN At(f, "next") /\ UNCHANGED walk
       ELSE /\ At(f, "first")
            /\ walk' = [walk EXCEPT ![f].records = Append(@, Record("add", n, state[n]))]
    /\ UNCHANGED <<OutsideFiles, snapVars, heldVars>>

\* priv.next, which remove_node clears
Siblings(n) ==
    LET kids == children[Parent[n]]
        at == {i \in DOMAIN kids : kids[i] = n}
    IN  IF at = {} THEN <<>> ELSE SubSeq(kids, (CHOOSE i \in at : TRUE) + 1, Len(kids))

Listed(records) == {records[i].node : i \in DOMAIN records}

\* device_next_child(parent, child)
NextChild(f) ==
    LET path == walk[f].path
        n == Last(path)
        stay == {m \in ToSet(children[Parent[n]]) : m \notin Listed(walk[f].records)}
    IN  /\ pc[f] = "next"
        /\ \/ /\ Siblings(n) # <<>>
              /\ WalkTo(f, Append(Front(path), Head(Siblings(n))), "visit")
           \/ /\ Siblings(n) = <<>>
              /\ walk' = [walk EXCEPT ![f].path = Front(path), ![f].missed = @ \/ stay # {}]
              /\ At(f, IF Len(path) = 1 THEN "interfaces" ELSE "next")
              /\ UNCHANGED <<OutsideFiles, snapVars, heldVars>>

\* The interfaces are listed under the lock that their events are posted under.
ListInterfaces(f) ==
    /\ pc[f] = "interfaces" /\ events_lock = None
    /\ walk' = [walk EXCEPT ![f].records = @ \o SetToSeq({Record("interface", n, state[n]) : n \in ifaces})]
    /\ At(f, "built")
    /\ UNCHANGED <<OutsideFiles, snapVars, heldVars>>

\* The new snapshot takes the place of the cached one.
CacheNumbered(f, number) ==
    LET free == {s \in Snapshots : refcount[s] = 0}
        new == CHOOSE s \in free : TRUE
        built == [seq |-> number, missed |-> walk[f].missed,
                  records |-> Append(walk[f].records, Record("end", None, None))]
    IN  /\ pc[f] = "built" /\ free # {}
        /\ cached' = new
        /\ snapshot_lock' = None
        /\ walk' = [walk EXCEPT ![f] = NoWalk]
        /\ TakeSnapshot(f, new, Dropped([refcount EXCEPT ![new] = 2], cached), [taken EXCEPT ![new] = built])
        /\ UNCHANGED OutsideFiles

\* Slip: the number of the next event is taken after the walk.
CacheSnapshotLate(f) == CacheNumbered(f, next_seq)

CacheSnapshot(f) == CacheNumbered(f, walk[f].seq)

SnapshotFails(f) ==
    /\ "nomem" \in Changes /\ pc[f] = "built"
    /\ snapshot_lock' = None
    /\ walk' = [walk EXCEPT ![f] = NoWalk]
    /\ At(f, IF after[f].what = "open" THEN "closed" ELSE "idle")
    /\ room' = [room EXCEPT ![f] = 0] /\ copied' = [copied EXCEPT ![f] = FALSE]
    /\ after' = [after EXCEPT ![f] = Open]
    /\ UNCHANGED <<OutsideFiles, cached, refcount, taken, snapshot, offset, seq, lost, picture>>
-------------------------------------------------------------------------------
(* hwtree_open_file for reading, hwtree_close_file, resnapshot                      *)
Wants(f, what) ==
    /\ after' = [after EXCEPT ![f] = what]
    /\ At(f, "snapshot")
    /\ UNCHANGED <<OutsideFiles, snapVars, walk, snapshot, offset, seq, lost, room, copied, picture>>

OpenFile(f) == pc[f] = "closed" /\ Wants(f, Open)
Resnapshot(f) == "again" \in Changes /\ pc[f] = "idle" /\ Wants(f, For("again", 0))

DropSnapshot(f) ==
    /\ refcount' = Dropped(refcount, snapshot[f]) /\ taken' = Kept(taken)
    /\ snapshot' = [snapshot EXCEPT ![f] = None]
    /\ offset' = [offset EXCEPT ![f] = 0]

CloseFile(f) ==
    /\ pc[f] = "idle" /\ At(f, "closed")
    /\ DropSnapshot(f)
    /\ seq' = [seq EXCEPT ![f] = 0] /\ lost' = [lost EXCEPT ![f] = 0]
    /\ picture' = [picture EXCEPT ![f] = Nothing]
    /\ UNCHANGED <<OutsideFiles, snapshot_lock, cached, walk, after, room, copied>>

(* hwtree_read, and the loop of read_locked                                         *)
HwtreeRead(f, size) ==
    /\ pc[f] = "idle" /\ At(f, "read")
    /\ room' = [room EXCEPT ![f] = size]
    /\ UNCHANGED <<OutsideFiles, snapVars, walk, after, snapshot, offset, seq, lost, copied, picture>>

Put(f) ==
    /\ room' = [room EXCEPT ![f] = @ - 1]
    /\ copied' = [copied EXCEPT ![f] = TRUE]
    /\ UNCHANGED <<OutsideFiles, pc, walk, after, snapshot_lock, cached>>

\* What a reader makes of a record; a snapshot starts its picture anew.
Shown(p, r) ==
    CASE r.type = "begin"            -> Nothing
      [] r.type = "end"              -> p
      [] r.type = "interface"        -> [p EXCEPT !.ifaces = @ \cup {r.node}]
      [] r.type = "interface_remove" -> [p EXCEPT !.ifaces = @ \ {r.node}]
      [] OTHER                       -> [p EXCEPT !.nodes[r.node] = r.state]

PutLost(f) ==
    /\ pc[f] = "read" /\ lost[f] > 0 /\ room[f] > 0
    /\ Put(f)
    /\ lost' = [lost EXCEPT ![f] = 0]
    /\ UNCHANGED <<refcount, taken, snapshot, offset, seq, picture>>

TakeFromSnapshot(f) ==
    LET s == taken[snapshot[f]]
        shown == Shown(picture[f], s.records[offset[f] + 1])
    IN  /\ pc[f] = "read" /\ lost[f] = 0 /\ snapshot[f] # None /\ room[f] > 0
        /\ Put(f)
        /\ picture' = [picture EXCEPT ![f] = [shown EXCEPT !.whole = ~s.missed]]
        /\ IF offset[f] + 1 = Len(s.records)
           THEN DropSnapshot(f)
           ELSE offset' = [offset EXCEPT ![f] = @ + 1] /\ UNCHANGED <<refcount, taken, snapshot>>
        /\ UNCHANGED <<seq, lost>>

AtEvents(f) == pc[f] = "read" /\ lost[f] = 0 /\ snapshot[f] = None
Behind(f) == next_seq - seq[f] > Capacity

TakeEvent(f) ==
    /\ AtEvents(f) /\ ~Behind(f) /\ seq[f] # next_seq /\ room[f] > 0
    /\ Put(f)
    /\ picture' = [picture EXCEPT ![f] = Shown(@, ring[seq[f] % Capacity])]
    /\ seq' = [seq EXCEPT ![f] = @ + 1]
    /\ UNCHANGED <<refcount, taken, snapshot, offset, lost>>

FallBehind(f) ==
    /\ AtEvents(f) /\ Behind(f)
    /\ Wants(f, For("behind", next_seq - seq[f]))

\* The loop ends: nothing more fits, or there is nothing more.
NoMore(f) ==
    /\ pc[f] = "read"
    /\ \/ (lost[f] > 0 \/ snapshot[f] # None) /\ room[f] = 0
       \/ AtEvents(f) /\ ~Behind(f) /\ (seq[f] = next_seq \/ room[f] = 0)

Return(f) ==
    /\ At(f, "idle")
    /\ room' = [room EXCEPT ![f] = 0] /\ copied' = [copied EXCEPT ![f] = FALSE]
    /\ UNCHANGED <<treeVars, ringVars, pending, snapVars, walk, after, snapshot, offset, seq, lost, picture>>

ReadSome(f) == NoMore(f) /\ copied[f] /\ Return(f) /\ UNCHANGED <<listeners, robbed>>

ReadNothing(f) ==
    /\ NoMore(f) /\ ~copied[f] /\ At(f, "check")
    /\ UNCHANGED <<OutsideFiles, snapVars, walk, heldVars>>

(* Nothing was copied: has_event tells what does not fit from nothing there.        *)
Unread(f) == lost[f] > 0 \/ snapshot[f] # None \/ seq[f] # next_seq

DoesNotFit(f) == pc[f] = "check" /\ Unread(f) /\ Return(f) /\ UNCHANGED <<listeners, robbed>>

ReadNonblocking(f) ==
    "again" \in Changes /\ pc[f] = "check" /\ ~Unread(f) /\ Return(f) /\ UNCHANGED <<listeners, robbed>>

ReadBlocking(f) ==
    /\ pc[f] = "check" /\ ~Unread(f) /\ At(f, "await")
    /\ UNCHANGED <<OutsideFiles, snapVars, walk, heldVars>>

(* event_await_interruptible                                                        *)
TakePending(f) ==
    /\ pc[f] = "await" /\ pending > 0 /\ At(f, "read")
    /\ pending' = pending - 1
    /\ robbed' = (robbed \ {f}) \cup Late(Files \ {f})
    /\ UNCHANGED <<treeVars, ringVars, listeners, snapVars, walk, heldVars>>

Listen(f) ==
    /\ pc[f] = "await" /\ pending = 0 /\ At(f, "asleep")
    /\ listeners' = listeners \cup {f}
    /\ UNCHANGED <<treeVars, ringVars, pending, robbed, snapVars, walk, heldVars>>

Interrupted(f) ==
    /\ "again" \in Changes /\ pc[f] = "asleep" /\ Return(f)
    /\ listeners' = listeners \ {f} /\ robbed' = robbed \ {f}

Work(n) ==
    \/ AddNode(n) \/ Bind(n) \/ AttachFails(n) \/ AddInterface(n) \/ NodeBound(n) \/ StopWaiting(n)
    \/ Unbind(n) \/ RemoveInterface(n) \/ NodeUnbound(n) \/ RemoveNode(n)

Walk(f) ==
    \/ TakeCached(f) \/ BuildSnapshot(f) \/ FirstChild(f) \/ VisitNode(f) \/ NextChild(f) \/ ListInterfaces(f)
    \/ SnapshotFails(f) \/ CacheSnapshot(f)

Read(f) ==
    \/ \E size \in Rooms : HwtreeRead(f, size)
    \/ PutLost(f) \/ TakeFromSnapshot(f) \/ TakeEvent(f) \/ FallBehind(f) \/ ReadSome(f) \/ ReadNothing(f)
    \/ DoesNotFit(f) \/ ReadNonblocking(f) \/ ReadBlocking(f) \/ TakePending(f) \/ Listen(f) \/ Interrupted(f)

Next ==
    \/ \E n \in Nodes : Work(n)
    \/ PostRecord \/ PostTrigger
    \/ \E f \in Files : OpenFile(f) \/ CloseFile(f) \/ Resnapshot(f) \/ Walk(f) \/ Read(f)

Spec == Init /\ [][Next]_vars
-------------------------------------------------------------------------------
TypeOK ==
    /\ state \in [Nodes -> {"none", "present", "probing", "waiting", "bound", "detaching", "gone"}]
    /\ ifaces \subseteq Nodes /\ events_lock \in {None, Root}
    /\ next_seq \in 0 .. MaxSeq /\ pending \in 0 .. MaxSeq
    /\ listeners = {f \in Files : pc[f] = "asleep"} /\ robbed \subseteq Files
    /\ snapshot_lock = None \/ pc[snapshot_lock] \in {"first", "visit", "next", "interfaces", "built"}
    /\ \A f \in Files : seq[f] \in 0 .. next_seq /\ lost[f] \in 0 .. MaxSeq /\ room[f] \in Nat

\* Bound or not is what the events tell: they do not tell when a wait is over.
Told(s) == CASE s = "bound" -> "bound" [] s \in {"none", "gone"} -> "absent" [] OTHER -> "unbound"
TruePicture(f) ==
    picture[f].ifaces = ifaces /\ \A n \in Nodes : Told(picture[f].nodes[n]) = Told(state[n])
CaughtUp(f) == pc[f] \in {"idle", "asleep"} /\ ~Unread(f) /\ worker = Idle

\* build_snapshot: "a change during the walk is in the snapshot, in the events after it, or
\* in both, and never lost" (hwtree.c:249), so a reader that read all there is knows the
\* tree: however changes, events and walks interleave, whether the snapshot was cached, and
\* whatever the ring dropped. That comment is wrong of a walk cut short because the node it
\* stood on was removed (NextChild, hwtree.c:217): what came after that node is lost, and
\* `whole` excepts the readers of such a snapshot.
ReaderKnowsWhatWasWalked == \A f \in Files : CaughtUp(f) /\ picture[f].whole => TruePicture(f)

\* get_snapshot, drop_snapshot and snapshot_decref: a snapshot has one reference from the
\* cache and one from each file that reads it, so it is freed with the last of them.
SnapshotsAreCounted ==
    \A s \in Snapshots :
        refcount[s] = Cardinality({f \in Files : snapshot[f] = s}) + (IF cached = s THEN 1 ELSE 0)

\* hwtree_read looks, then awaits: a reader with something to read never sleeps without a
\* trigger on its way, unless the wakeup it was about to wait for went to another reader.
ReaderIsWoken ==
    \A f \in Files : pc[f] = "asleep" /\ Unread(f) => f \in robbed \/ worker.do = "trigger"
=============================================================================
