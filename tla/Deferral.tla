------------------------------- MODULE Deferral -------------------------------
(* kernel/proc/event.c, event_trigger_deferred and event_run_deferred: a list *)
(* of deferrals that any context pushes to without a lock, and that the       *)
(* scheduler tick of any hart takes whole and runs.                           *)
(*                                                                            *)
(* Grain: one step per atomic operation and per access to a deferral's next.  *)

CONSTANTS Deferrals,
          Callers,      \* contexts that call event_trigger_deferred
          Harts,        \* harts whose tick calls event_run_deferred
          Null          \* the null pointer

NullAssumption == Null \notin Deferrals

VARIABLES deferred_head,
          queued,       \* [Deferrals -> BOOLEAN]
          next,         \* [Deferrals -> Deferrals or Null]
          at,           \* [Callers -> where the call is]
          deferral,     \* [Callers -> its argument]
          head,         \* [Callers -> the local of event_trigger_deferred]
          it,           \* [Harts -> the local of event_run_deferred]
          following,    \* [Harts -> its local next]
          step,         \* [Harts -> where its loop is]
          owed          \* history: the deferrals called since their last trigger began

callVars == <<at, deferral, head>>
runVars  == <<it, following, step>>
vars == <<deferred_head, queued, next, callVars, runVars, owed>>

OrNull == Deferrals \cup {Null}

Init ==
    /\ deferred_head = Null
    /\ queued = [d \in Deferrals |-> FALSE]
    /\ next = [d \in Deferrals |-> Null]
    /\ at = [c \in Callers |-> "idle"]
    /\ deferral = [c \in Callers |-> Null]
    /\ head = [c \in Callers |-> Null]
    /\ it = [h \in Harts |-> Null]
    /\ following = [h \in Harts |-> Null]
    /\ step = [h \in Harts |-> "idle"]
    /\ owed = {}

-------------------------------------------------------------------------------
(* event_trigger_deferred *)

\* The exchange finds the deferral queued: the call is over.
AlreadyQueued(c, d) ==
    /\ at[c] = "idle" /\ queued[d]
    /\ owed' = owed \cup {d}
    /\ UNCHANGED <<deferred_head, queued, next, callVars, runVars>>

Claim(c, d) ==
    /\ at[c] = "idle" /\ ~queued[d]
    /\ queued' = [queued EXCEPT ![d] = TRUE]
    /\ owed' = owed \cup {d}
    /\ at' = [at EXCEPT ![c] = "load"]
    /\ deferral' = [deferral EXCEPT ![c] = d]
    /\ UNCHANGED <<deferred_head, next, head, runVars>>

LoadHead(c) ==
    /\ at[c] = "load"
    /\ head' = [head EXCEPT ![c] = deferred_head]
    /\ at' = [at EXCEPT ![c] = "link"]
    /\ UNCHANGED <<deferred_head, queued, next, deferral, runVars, owed>>

Link(c) ==
    /\ at[c] = "link"
    /\ next' = [next EXCEPT ![deferral[c]] = head[c]]
    /\ at' = [at EXCEPT ![c] = "push"]
    /\ UNCHANGED <<deferred_head, queued, deferral, head, runVars, owed>>

\* The compare-and-exchange of a head that has not moved, or its failure, which
\* reloads the head; the weak form may also fail for no reason.
Push(c) ==
    /\ at[c] = "push" /\ deferred_head = head[c]
    /\ deferred_head' = deferral[c]
    /\ at' = [at EXCEPT ![c] = "idle"]
    /\ deferral' = [deferral EXCEPT ![c] = Null]
    /\ head' = [head EXCEPT ![c] = Null]
    /\ UNCHANGED <<queued, next, runVars, owed>>

PushFails(c) ==
    /\ at[c] = "push"
    /\ head' = [head EXCEPT ![c] = deferred_head]
    /\ at' = [at EXCEPT ![c] = "link"]
    /\ UNCHANGED <<deferred_head, queued, next, deferral, runVars, owed>>

-------------------------------------------------------------------------------
(* event_run_deferred *)

TakeDeferred(h) ==
    /\ step[h] = "idle" /\ deferred_head # Null
    /\ it' = [it EXCEPT ![h] = deferred_head]
    /\ deferred_head' = Null
    /\ step' = [step EXCEPT ![h] = "next"]
    /\ UNCHANGED <<queued, next, callVars, following, owed>>

ReadNext(h) ==
    /\ step[h] = "next"
    /\ following' = [following EXCEPT ![h] = next[it[h]]]
    /\ step' = [step EXCEPT ![h] = "unqueue"]
    /\ UNCHANGED <<deferred_head, queued, next, callVars, it, owed>>

Unqueue(h) ==
    /\ step[h] = "unqueue"
    /\ queued' = [queued EXCEPT ![it[h]] = FALSE]
    /\ step' = [step EXCEPT ![h] = "trigger"]
    /\ UNCHANGED <<deferred_head, next, callVars, it, following, owed>>

GoOn(h, d) ==
    /\ it' = [it EXCEPT ![h] = d]
    /\ following' = [following EXCEPT ![h] = Null]
    /\ step' = [step EXCEPT ![h] = IF d # Null THEN "next" ELSE "idle"]

\* trigger(it->event, 1), and on to the next.
Trigger(h) ==
    /\ step[h] = "trigger"
    /\ owed' = owed \ {it[h]}
    /\ GoOn(h, following[h])
    /\ UNCHANGED <<deferred_head, queued, next, callVars>>

\* Slip: the event is triggered first and the deferral unqueued after.
RunTriggerFirst(h) ==
    \/ ReadNext(h)
    \/ /\ step[h] = "unqueue"
       /\ owed' = owed \ {it[h]}
       /\ step' = [step EXCEPT ![h] = "trigger"]
       /\ UNCHANGED <<deferred_head, queued, next, callVars, it, following>>
    \/ /\ step[h] = "trigger"
       /\ queued' = [queued EXCEPT ![it[h]] = FALSE]
       /\ GoOn(h, following[h])
       /\ UNCHANGED <<deferred_head, next, callVars, owed>>

RunDeferred(h) == ReadNext(h) \/ Unqueue(h) \/ Trigger(h)

CallStep(c) == LoadHead(c) \/ Link(c) \/ Push(c) \/ PushFails(c)

Next == \/ \E c \in Callers : \/ \E d \in Deferrals : AlreadyQueued(c, d) \/ Claim(c, d)
                              \/ CallStep(c)
        \/ \E h \in Harts : TakeDeferred(h) \/ RunDeferred(h)

Spec == Init /\ [][Next]_vars

\* The tick comes again and again, and a hart in event_run_deferred, with
\* interrupts off, goes on to its end.
Fairness == \A h \in Harts : WF_vars(TakeDeferred(h)) /\ WF_vars(RunDeferred(h))

-------------------------------------------------------------------------------
(* The deferrals that next leads to from a pointer: the least set with it that *)
(* next does not lead out of.                                                 *)
Closed(to, S) == \A d \in S : to[d] \in S \cup {Null}
From(to, p) == {d \in Deferrals : \A S \in SUBSET Deferrals : p \in S \cup {Null} /\ Closed(to, S) => d \in S}
Chain(p) == From(next, p)

Shared   == Chain(deferred_head)
Taken(h) == CASE step[h] = "idle"    -> {}
              [] step[h] = "next"    -> Chain(it[h])
              [] step[h] = "unqueue" -> {it[h]} \cup Chain(following[h])
              [] step[h] = "trigger" -> Chain(following[h])
Pushing(c) == {deferral[c]} \ {Null}

TypeOK ==
    /\ deferred_head \in OrNull
    /\ queued \in [Deferrals -> BOOLEAN]
    /\ next \in [Deferrals -> OrNull]
    /\ at \in [Callers -> {"idle", "load", "link", "push"}]
    /\ deferral \in [Callers -> OrNull] /\ head \in [Callers -> OrNull]
    /\ it \in [Harts -> OrNull] /\ following \in [Harts -> OrNull]
    /\ step \in [Harts -> {"idle", "next", "unqueue", "trigger"}]
    /\ owed \subseteq Deferrals
    /\ \A h \in Harts : step[h] # "idle" => it[h] # Null

\* A queued deferral is in the hands of one context only: one call that is pushing
\* it, the shared list, or the list one hart took (event.c:306-331).  Two contexts
\* would write the same next, or trigger and unqueue it twice.
InOnePlace ==
    /\ \A c, d \in Callers : c # d => Pushing(c) \cap Pushing(d) = {}
    /\ \A g, h \in Harts : g # h => Taken(g) \cap Taken(h) = {}
    /\ \A c \in Callers : Pushing(c) \cap Shared = {}
    /\ \A h \in Harts : /\ Taken(h) \cap Shared = {}
                        /\ \A c \in Callers : Taken(h) \cap Pushing(c) = {}

\* "a deferred trigger after the store queues it again, one before is served below"
\* (event.c:326-327): a deferral called since its last trigger is still on its way
\* to another one, whoever holds it.
NoneLost ==
    \A d \in owed : \/ d \in Shared
                    \/ \E c \in Callers : d \in Pushing(c)
                    \/ \E h \in Harts : d \in Taken(h) \/ (step[h] = "trigger" /\ it[h] = d)

\* "Triggers the event from the next scheduler tick on any hart" (event.h:78): a
\* deferral that made it to the list is triggered.
DeferredIsTriggered ==
    \A d \in Deferrals : (d \in owed /\ d \in Shared) ~> d \notin owed
===============================================================================
