------------------------------ MODULE DeviceTree ------------------------------
(* The device tree: kernel/device/bind.c, depend.c and tree.c.                    *)
(*                                                                             *)
(* device_worker alone changes the tree, so a request is carried out by a stack    *)
(* of the calls that are left to make: each action below is what one of them does  *)
(* before it makes others.  Requests come from anywhere, at any time, the firmware *)
(* comes and goes with its nodes, and a holder keeps a node that has left the tree. *)
(* A node is the firmware node it stands for with a number, a new one each time it *)
(* is added; each has a driver, which may fail to attach or refuse to go offline.  *)
EXTENDS Integers, Sequences, SequencesExt, FiniteSets, FiniteSetsExt

CONSTANTS Fw, None,
          Parent,      \* [Fw -> Fw \cup {None}], None for a child of the root
          DependsOn,   \* [Fw -> Fw \cup {None}]; bound: one dependency for each
          Fails, Refuses,  \* firmware nodes whose driver may fail to attach, or refuse to go offline
          Lives,       \* bound: how often a firmware node is added
          Held,        \* bound: firmware nodes whose nodes others hold
          Asks,        \* the requests that come from outside, and "notify"
          Bound        \* how many of them, and changes of the firmware

Root == <<None, 0>>
Nodes == {Root} \cup (Fw \X (1 .. Lives))

LivesAssumption == Lives \in Nat \ {0} /\ Bound \in Nat /\ None \notin Fw

VARIABLES present,     \* the firmware nodes whose _STA says they are there
          up,          \* [Nodes -> its parent, or None before it is added]
          state, driver, failed, offline, gone,    \* of priv; a set where it is a flag
          links,       \* {<<consumer, provider>>}
          waits_for, waits_fw,
          pending, queue,
          refs,
          stack,       \* the calls device_worker has left to make
          held,        \* a node somebody else holds, or None
          asked,       \* history: nodes that were to be unbound, and not to be bound again
          left         \* of Bound

nodeVars == <<up, state, driver, failed, offline, gone, links, waits_for, waits_fw>>
queueVars == <<pending, queue>>
outVars == <<present, held, left>>
vars == <<nodeVars, queueVars, outVars, refs, stack, asked>>

Init ==
    /\ present = Fw
    /\ up = [d \in Nodes |-> None]
    /\ state = [d \in Nodes |-> IF d = Root THEN "present" ELSE "none"]
    /\ driver = {} /\ failed = {} /\ offline = {} /\ gone = {} /\ links = {}
    /\ waits_for = [d \in Nodes |-> None] /\ waits_fw = [d \in Nodes |-> None]
    /\ pending = [d \in Nodes |-> IF d = Root THEN {"rescan"} ELSE {}]
    /\ queue = <<Root>>
    /\ refs = [d \in Nodes |-> IF d = Root THEN 2 ELSE 0]
    /\ stack = <<>> /\ held = None /\ asked = {} /\ left = Bound

InTree(d) == state[d] \notin {"none", "gone"}
Children(d) == {c \in Nodes : InTree(c) /\ up[c] = d}
Consumers(d) == {c \in Nodes : <<c, d>> \in links}
Providers(d) == {p \in Nodes : <<d, p>> \in links}

\* A call that is left, and calls of the same for each of a set, in any order
Call(what, d) == [do |-> what, d |-> d]
Calls(what, S) == {[i \in DOMAIN s |-> Call(what, s[i])] : s \in SetToSeqs(S)}
Runs(what, d) == stack # <<>> /\ stack[1].do = what /\ stack[1].d = d
Then(calls) == stack' = calls \o Tail(stack)

\* device_queue_request, for each of S; with r the references as they are otherwise
Requests(S, request, r) ==
    /\ pending' = [d \in Nodes |-> IF d \in S THEN pending[d] \cup {request} ELSE pending[d]]
    /\ \E s \in SetToSeqs({d \in S : pending[d] = {}}) : queue' = queue \o s
    /\ refs' = [d \in Nodes |-> IF d \in S /\ pending[d] = {} THEN r[d] + 1 ELSE r[d]]

\* relies_on_nolock
RECURSIVE relies_on_nolock(_, _)
relies_on_nolock(d, provider) ==
    \/ d = provider
    \/ up[d] # None /\ relies_on_nolock(up[d], provider)
    \/ \E p \in Providers(d) : relies_on_nolock(p, provider)
    \/ waits_for[d] # None /\ relies_on_nolock(waits_for[d], provider)

\* set_gone
RECURSIVE Below(_)
Below(d) == {d} \cup UNION {Below(c) : c \in Children(d)}
-------------------------------------------------------------------------------
(* Others                                                                      *)

\* device_rescan, device_unbind, device_remove, device_eject, by who holds the node
Ask(d, request) ==
    /\ left > 0 /\ (InTree(d) \/ held = d) /\ request \in Asks
    /\ Requests({d}, request, refs)
    /\ left' = left - 1
    /\ UNCHANGED <<nodeVars, present, held, stack, asked>>

\* A notification: the firmware node is there, or is not, and its parent is rescanned.
Notify(f) ==
    /\ left > 0 /\ "notify" \in Asks
    /\ present' = IF f \in present THEN present \ {f} ELSE present \cup {f}
    /\ \E d \in Nodes : InTree(d) /\ d[1] = Parent[f] /\ Requests({d}, "rescan", refs)
    /\ left' = left - 1
    /\ UNCHANGED <<nodeVars, held, stack, asked>>

Hold(d) ==
    /\ held = None /\ InTree(d) /\ d[1] \in Held
    /\ held' = d
    /\ refs' = [refs EXCEPT ![d] = @ + 1]
    /\ UNCHANGED <<nodeVars, queueVars, present, left, stack, asked>>

\* device_decref by the holder, with the reference of the node to its parent
Let ==
    /\ held # None
    /\ refs' = [refs EXCEPT ![held] = @ - 1]
    /\ held' = IF refs[held] = 1 THEN up[held] ELSE None
    /\ UNCHANGED <<nodeVars, queueVars, present, left, stack, asked>>
-------------------------------------------------------------------------------
(* The worker                                                                  *)

\* run_queue and queue_pop
Run ==
    /\ stack = <<>> /\ queue # <<>>
    /\ LET d == Head(queue)
           r == pending[d]
       IN  /\ stack' = (IF {"eject", "remove"} \cap r # {} THEN <<Call("leave", d)>>
                        ELSE (IF "unbind" \in r THEN <<Call("let go", d)>> ELSE <<>>)
                               \o (IF "rescan" \in r THEN <<Call("rescan", d)>> ELSE <<>>))
                       \o <<Call("decref", d)>>
           /\ pending' = [pending EXCEPT ![d] = {}]
    /\ queue' = Tail(queue)
    /\ UNCHANGED <<nodeVars, outVars, refs, asked>>

\* device_decref
Decref(d) ==
    /\ Runs("decref", d)
    /\ refs' = [refs EXCEPT ![d] = @ - 1]
    /\ Then(IF refs[d] = 1 /\ up[d] # None THEN <<Call("decref", up[d])>> ELSE <<>>)
    /\ UNCHANGED <<nodeVars, queueVars, outVars, asked>>

\* rescan_node
Rescan(d) ==
    /\ Runs("rescan", d)
    /\ Then(IF state[d] = "gone" THEN <<>>
            ELSE (IF d # Root /\ d \notin driver \cup failed /\ state[d] # "waiting" THEN <<Call("bind", d)>> ELSE <<>>)
                   \o <<Call("sync", d), Call("walk", d)>>)
    /\ UNCHANGED <<nodeVars, queueVars, outVars, refs, asked>>

Walk(d) ==
    /\ Runs("walk", d)
    /\ \E calls \in Calls("rescan", Children(d)) : Then(calls)
    /\ UNCHANGED <<nodeVars, queueVars, outVars, refs, asked>>

\* device_sync_firmware_children: add_node for those that are there, while there is memory ...
Sync(d) ==
    /\ Runs("sync", d)
    /\ LET fws == {f \in Fw : Parent[f] = d[1]}
           new == {c \in Nodes \ {Root} :
                     /\ c[1] \in fws \cap present /\ state[c] = "none"
                     /\ \A x \in Nodes : x[1] = c[1] => ~(InTree(x) /\ up[x] = d) /\ (x[2] < c[2] => state[x] # "none")}
       IN  /\ up' = [c \in Nodes |-> IF c \in new THEN d ELSE up[c]]
           /\ state' = [c \in Nodes |-> IF c \in new THEN "present" ELSE state[c]]
           /\ refs' = [c \in Nodes |-> IF c \in new THEN 1 ELSE IF c = d THEN refs[c] + Cardinality(new) ELSE refs[c]]
    /\ Then(<<Call("judge", d)>>)
    /\ UNCHANGED <<driver, failed, offline, gone, links, waits_for, waits_fw, queueVars, outVars, asked>>

\* ... and device_set_gone and device_remove for those that are not.
Judge(d) ==
    /\ Runs("judge", d)
    /\ LET away == {c \in Children(d) : c[1] \notin present}
       IN  /\ gone' = gone \cup UNION {Below(c) : c \in away}
           /\ Requests(away, "remove", refs)
    /\ Then(<<>>)
    /\ UNCHANGED <<up, state, driver, failed, offline, links, waits_for, waits_fw, outVars, asked>>

\* bind: the driver attaches, or fails ...
Attach(d, provider) ==
    \/ /\ driver' = driver \cup {d} /\ state' = [state EXCEPT ![d] = "bound"]
       /\ links' = links \cup ({d} \X provider)
       /\ refs' = [p \in Nodes |-> IF p \in provider THEN refs[p] + 1 ELSE refs[p]]
       /\ Then(<<Call("wake", d)>>)
       /\ UNCHANGED failed
    \/ /\ d[1] \in Fails
       /\ failed' = failed \cup {d}
       /\ Then(<<>>)
       /\ UNCHANGED <<driver, state, links, refs>>

\* ... once device_wait_for_dependencies, wait_for_fwnode and device_wait_for let it.
Bind(d) ==
    LET f == DependsOn[d[1]]
        found == {p \in Nodes : InTree(p) /\ p[1] = f}
        p == CHOOSE p \in found : TRUE
    IN  /\ Runs("bind", d)
        /\ \/ /\ f = None \/ f \notin present
              /\ Attach(d, {})
              /\ UNCHANGED <<waits_for, waits_fw>>
           \/ /\ f \in present /\ found = {}
              /\ waits_fw' = [waits_fw EXCEPT ![d] = f]
              /\ state' = [state EXCEPT ![d] = "waiting"]
              /\ Then(<<>>)
              /\ UNCHANGED <<driver, links, refs, failed, waits_for>>
           \/ /\ f \in present /\ found # {} /\ relies_on_nolock(p, d)
              /\ failed' = failed \cup {d}
              /\ Then(<<>>)
              /\ UNCHANGED <<driver, state, links, refs, waits_for, waits_fw>>
           \/ /\ f \in present /\ found # {} /\ ~relies_on_nolock(p, d) /\ state[p] # "bound"
              /\ waits_for' = [waits_for EXCEPT ![d] = p]
              /\ state' = [state EXCEPT ![d] = "waiting"]
              /\ refs' = [refs EXCEPT ![p] = @ + 1]
              /\ Then(<<>>)
              /\ UNCHANGED <<driver, links, failed, waits_fw>>
           \/ /\ f \in present /\ found # {} /\ ~relies_on_nolock(p, d) /\ state[p] = "bound"
              /\ Attach(d, {p})
              /\ UNCHANGED <<waits_for, waits_fw>>
        /\ asked' = asked \ {d}
        /\ UNCHANGED <<up, offline, gone, queueVars, outVars>>

\* Slip: a waiter is woken, and not probed again.
WakeQuietly(d) ==
    LET woken == {w \in Nodes : state[w] = "waiting" /\ (waits_for[w] = d \/ waits_fw[w] = d[1])}
    IN  /\ Runs("wake", d)
        /\ state' = [w \in Nodes |-> IF w \in woken THEN "present" ELSE state[w]]
        /\ waits_for' = [w \in Nodes |-> IF w \in woken THEN None ELSE waits_for[w]]
        /\ waits_fw' = [w \in Nodes |-> IF w \in woken THEN None ELSE waits_fw[w]]
        /\ refs' = [refs EXCEPT ![d] = @ - Cardinality({w \in woken : waits_for[w] = d})]
        /\ Then(<<>>)
        /\ UNCHANGED <<up, driver, failed, offline, gone, links, queueVars, outVars, asked>>

\* device_wake_waiters
Wake(d) ==
    LET woken == {w \in Nodes : state[w] = "waiting" /\ (waits_for[w] = d \/ waits_fw[w] = d[1])}
    IN  /\ Runs("wake", d)
        /\ state' = [w \in Nodes |-> IF w \in woken THEN "present" ELSE state[w]]
        /\ waits_for' = [w \in Nodes |-> IF w \in woken THEN None ELSE waits_for[w]]
        /\ waits_fw' = [w \in Nodes |-> IF w \in woken THEN None ELSE waits_fw[w]]
        /\ Requests(woken, "rescan", [refs EXCEPT ![d] = @ - Cardinality({w \in woken : waits_for[w] = d})])
        /\ Then(<<>>)
        /\ UNCHANGED <<up, driver, failed, offline, gone, links, outVars, asked>>

\* unbind_node, device_stop_waiting first
Unbind(d) ==
    /\ Runs("unbind", d)
    /\ state' = [state EXCEPT ![d] = IF @ = "waiting" THEN "present" ELSE @]
    /\ waits_for' = [waits_for EXCEPT ![d] = None] /\ waits_fw' = [waits_fw EXCEPT ![d] = None]
    /\ Then((IF waits_for[d] # None THEN <<Call("decref", waits_for[d])>> ELSE <<>>)
              \o <<Call("consumers", d), Call("children", d), Call("detach", d)>>)
    /\ UNCHANGED <<up, driver, failed, offline, gone, links, queueVars, outVars, refs, asked>>

\* unbind_consumers
UnbindConsumers(d) ==
    /\ Runs("consumers", d)
    /\ IF Consumers(d) = {} THEN Then(<<>>)
       ELSE \E c \in Consumers(d) : Then(<<Call("unbind", c), Call("request", c), Call("consumers", d)>>)
    /\ UNCHANGED <<nodeVars, queueVars, outVars, refs, asked>>

Request(d) ==
    /\ Runs("request", d)
    /\ Requests({d}, "rescan", refs)
    /\ Then(<<>>)
    /\ UNCHANGED <<nodeVars, outVars, asked>>

\* remove_children
RemoveChildren(d) ==
    /\ Runs("children", d)
    /\ IF Children(d) = {} THEN Then(<<>>)
       ELSE \E c \in Children(d) : Then(<<Call("remove", c), Call("children", d)>>)
    /\ UNCHANGED <<nodeVars, queueVars, outVars, refs, asked>>

\* The rest of unbind_node: detach, undo_attach and device_unlink_providers
Detach(d) ==
    /\ Runs("detach", d)
    /\ offline' = offline \ {d} /\ failed' = failed \ {d} /\ driver' = driver \ {d}
    /\ state' = [state EXCEPT ![d] = IF d \in driver THEN "present" ELSE @]
    /\ links' = links \ ({d} \X Providers(d))
    /\ \E calls \in Calls("decref", Providers(d)) : Then(calls)
    /\ UNCHANGED <<up, gone, waits_for, waits_fw, queueVars, outVars, refs, asked>>

\* remove_node: unbound, and out of the tree but for the root ...
RemoveNode(d) ==
    /\ Runs("remove", d)
    /\ Then(IF state[d] = "gone" THEN <<>> ELSE <<Call("unbind", d), Call("unlink", d)>>)
    /\ UNCHANGED <<nodeVars, queueVars, outVars, refs, asked>>

\* ... with the reference of the tree.
Unlink(d) ==
    /\ Runs("unlink", d)
    /\ state' = [state EXCEPT ![d] = IF d = Root THEN @ ELSE "gone"]
    /\ Then(IF d = Root THEN <<>> ELSE <<Call("wake", d), Call("decref", d)>>)
    /\ UNCHANGED <<up, driver, failed, offline, gone, links, waits_for, waits_fw, queueVars, outVars, refs, asked>>
-------------------------------------------------------------------------------
(* Offline and back                                                            *)

\* take_offline for a request, which is carried out if all agree
TakeOffline(d, what) ==
    /\ Runs(what, d)
    /\ Then(<<Call("offline", d), Call(IF what = "leave" THEN "remove" ELSE "agreed", d)>>)
    /\ UNCHANGED <<nodeVars, queueVars, outVars, refs, asked>>

Agreed(d) ==
    /\ Runs("agreed", d)
    /\ asked' = asked \cup {d}
    /\ Then(<<Call("unbind", d)>>)
    /\ UNCHANGED <<nodeVars, queueVars, outVars, refs>>

\* offline_node: what is below and the consumers first
Offline(d) ==
    /\ Runs("offline", d)
    /\ IF d \in offline THEN Then(<<>>)
       ELSE \E below \in Calls("offline", Children(d)), users \in Calls("offline", Consumers(d)) :
               Then(below \o users \o <<Call("ask", d)>>)
    /\ UNCHANGED <<nodeVars, queueVars, outVars, refs, asked>>

AskDriver(d) ==
    /\ Runs("ask", d)
    /\ offline' = offline \cup {d}
    /\ Then(<<>>)
    /\ UNCHANGED <<up, state, driver, failed, gone, links, waits_for, waits_fw, queueVars, outVars, refs, asked>>

\* The driver refuses: take_offline calls online_node instead of what was asked for.
Refuse(d) ==
    /\ Runs("ask", d) /\ d \in driver \ gone /\ state[d] # "gone" /\ d[1] \in Refuses
    /\ LET i == Min({j \in DOMAIN stack : stack[j].do \in {"remove", "agreed"}})
       IN  stack' = <<Call("online", stack[i].d)>> \o SubSeq(stack, i + 1, Len(stack))
    /\ UNCHANGED <<nodeVars, queueVars, outVars, refs, asked>>

\* online_node
Online(d) ==
    /\ Runs("online", d)
    /\ IF d \notin offline THEN Then(<<>>)
       ELSE \E below \in Calls("online", Children(d)), users \in Calls("online", Consumers(d)) : Then(below \o users)
    /\ offline' = offline \ {d}
    /\ UNCHANGED <<up, state, driver, failed, gone, links, waits_for, waits_fw, queueVars, outVars, refs, asked>>

Works(d) ==
    \/ Decref(d) \/ Rescan(d) \/ Walk(d) \/ Sync(d) \/ Judge(d) \/ Bind(d) \/ Wake(d) \/ Unbind(d)
    \/ UnbindConsumers(d) \/ Request(d) \/ RemoveChildren(d) \/ Detach(d) \/ RemoveNode(d) \/ Unlink(d)
    \/ \E what \in {"leave", "let go"} : TakeOffline(d, what)
    \/ Agreed(d) \/ Offline(d) \/ AskDriver(d) \/ Refuse(d) \/ Online(d)

Next ==
    \/ Run \/ Let
    \/ \E f \in Fw : Notify(f)
    \/ \E d \in Nodes : Works(d) \/ Hold(d) \/ \E request \in Asks : Ask(d, request)

Spec == Init /\ [][Next]_vars
-------------------------------------------------------------------------------
TypeOK ==
    /\ present \subseteq Fw /\ driver \cup failed \cup offline \cup gone \subseteq Nodes
    /\ links \subseteq Nodes \X Nodes /\ refs \in [Nodes -> Nat] /\ left \in 0 .. Bound

Idle == stack = <<>> /\ queue = <<>>

\* bind, device_wake_waiters, unbind_consumers: once the requests are carried out, a node is bound unless
\* its driver failed or it was asked to be unbound; it waits only for a provider that is
\* neither bound nor gone; and who uses a provider does so while both are bound.
SettledIsBound ==
    Idle => /\ \A d \in Nodes \ {Root} :
                  /\ state[d] = "present" => d \in failed \cup asked
                  /\ state[d] = "waiting" =>
                        IF waits_for[d] # None THEN state[waits_for[d]] \notin {"bound", "gone"}
                        ELSE ~\E p \in Nodes : state[p] = "bound" /\ p[1] = waits_fw[d]
            /\ \A l \in links : state[l[1]] = "bound" /\ state[l[2]] = "bound"

\* device_incref, device_decref: references are of the tree, the children, the consumers, the waiters,
\* the queue and the holder, and nothing is left on a node that was freed.
ReferencesAgree ==
    Idle => \A d \in Nodes :
        refs[d] = (IF InTree(d) THEN 1 ELSE 0)
                    + Cardinality({c \in Nodes : up[c] = d /\ refs[c] > 0})
                    + Cardinality(Consumers(d)) + Cardinality({w \in Nodes : waits_for[w] = d})
                    + (IF held = d THEN 1 ELSE 0)

\* device_decref's assertions: a node is not freed while something still points to it or waits.
FreedIsBare ==
    \A d \in Nodes : refs[d] = 0 =>
        /\ Children(d) = {} /\ Consumers(d) = {} /\ Providers(d) = {} /\ waits_for[d] = None
        /\ d \notin driver /\ pending[d] = {}
===============================================================================
