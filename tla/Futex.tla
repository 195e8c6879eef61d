-------------------------------- MODULE Futex --------------------------------
(* kernel/proc/futex.c: a thread waits as long as a word of memory has the   *)
(* value it expects; another one changes the word and wakes waiters.         *)
(*                                                                           *)
(* One bucket: addresses that hash elsewhere do not meet.  The word is user  *)
(* memory and changes without the bucket's lock.                             *)
EXTENDS Integers, Sequences, FiniteSets

CONSTANTS Threads,
          NoOne,
          Addresses,
          Counts,       \* how many waiters a futex_wake may ask for
          Timed,        \* BOOLEAN values: whether waits have a deadline
          Signalled     \* threads that signals are sent to

Words == {0, 1}

EAGAIN    == -206
EINTR     == -225
ETIMEDOUT == -273

FutexAssumption == /\ NoOne \notin Threads
                          /\ Signalled \subseteq Threads
                          /\ Timed \subseteq BOOLEAN
                          /\ Counts \subseteq Nat \ {0}

VARIABLES word,          \* [Addresses -> Words]
          lock,          \* holder of bucket->lock
          bucket,        \* Seq(Threads), the waiters linked into it
          state,         \* [Threads -> "running" or "blocked"]
          pending_work,
          kicks,         \* sched_kicks on their way
          sleepers,      \* threads in the scheduler's list of deadlines
          late,          \* threads whose deadline has passed
          pc,
          address, expected, deadline,
          result,
          woken          \* history: waiters a futex_wake has counted

vars == <<word, lock, bucket, state, pending_work, kicks, sleepers, late, pc, address, expected, deadline, result, woken>>
args == <<address, expected, deadline>>

SomeAddress == CHOOSE a \in Addresses : TRUE

Init ==
    /\ word = [a \in Addresses |-> 0]
    /\ lock = NoOne
    /\ bucket = <<>>
    /\ state = [t \in Threads |-> "running"]
    /\ pending_work = [t \in Threads |-> FALSE]
    /\ kicks = {}
    /\ sleepers = {} /\ late = {}
    /\ pc = [t \in Threads |-> "user"]
    /\ address = [t \in Threads |-> SomeAddress]
    /\ expected = [t \in Threads |-> 0]
    /\ deadline = [t \in Threads |-> FALSE]
    /\ result = [t \in Threads |-> 0]
    /\ woken = {}

Goto(t, place) == pc' = [pc EXCEPT ![t] = place]
Queued(t) == \E i \in 1..Len(bucket) : bucket[i] = t

(***************************************************************************)
(* futex_wait                                                              *)
(***************************************************************************)

\* The thread has read the word and asks to wait while it stays so.
FutexWait(t, a, v, timed) ==
    /\ pc[t] = "user"
    /\ address' = [address EXCEPT ![t] = a]
    /\ expected' = [expected EXCEPT ![t] = v]
    /\ deadline' = [deadline EXCEPT ![t] = timed]
    /\ Goto(t, "wait")
    /\ UNCHANGED <<word, lock, bucket, state, pending_work, kicks, sleepers, late, result, woken>>

Refuse(t, error) ==
    /\ result' = [result EXCEPT ![t] = error]
    /\ Goto(t, "returned")

\* The lock is taken and the word looked at.
CheckWord(t) ==
    /\ pc[t] = "wait" /\ lock = NoOne
    /\ \/ /\ word[address[t]] # expected[t]
          /\ Refuse(t, EAGAIN) /\ UNCHANGED lock
       \/ /\ word[address[t]] = expected[t]
          /\ t \in late /\ Refuse(t, ETIMEDOUT) /\ UNCHANGED lock
       \/ /\ word[address[t]] = expected[t]
          /\ t \notin late
          /\ lock' = t
          /\ Goto(t, "link")
          /\ UNCHANGED result
    /\ UNCHANGED <<word, bucket, state, pending_work, kicks, sleepers, late, args, woken>>

\* Linked, off the run queue unless there is work already, deadline set.
Link(t) ==
    /\ pc[t] = "link" /\ lock = t
    /\ bucket' = Append(bucket, t)
    /\ state' = [state EXCEPT ![t] = IF pending_work[t] THEN "running" ELSE "blocked"]
    /\ sleepers' = IF deadline[t] THEN sleepers \cup {t} ELSE sleepers
    /\ lock' = NoOne
    /\ Goto(t, "asleep")
    /\ UNCHANGED <<word, pending_work, kicks, late, args, result, woken>>

\* sched_yield returns once the thread runs again; the deadline is cancelled.
Wakes(t) ==
    /\ pc[t] = "asleep" /\ state[t] = "running"
    /\ sleepers' = sleepers \ {t}
    /\ Goto(t, "awake")
    /\ UNCHANGED <<word, lock, bucket, state, pending_work, kicks, late, args, result, woken>>

\* The lock again: unlinked by a waker, or unlinking itself.
Unlink(t, unlinks, looks) ==
    /\ pc[t] = "awake" /\ lock = NoOne
    /\ bucket' = IF unlinks THEN SelectSeq(bucket, LAMBDA u : u # t) ELSE bucket
    /\ result' = [result EXCEPT ![t] = IF looks /\ ~Queued(t) THEN 0
                                       ELSE IF pending_work[t] THEN EINTR
                                       ELSE IF t \in late THEN ETIMEDOUT
                                       ELSE 0]
    /\ Goto(t, "returned")
    /\ UNCHANGED <<word, lock, state, pending_work, kicks, sleepers, late, args, woken>>

\* Slip: a waiter that was not woken stays linked.
UnlinkSelfNot(t) == Unlink(t, FALSE, TRUE)
UnlinkSelf(t) == Unlink(t, TRUE, TRUE)

WaitReturn(t) ==
    /\ pc[t] = "returned"
    /\ Goto(t, "user")
    /\ address' = [address EXCEPT ![t] = SomeAddress]
    /\ expected' = [expected EXCEPT ![t] = 0]
    /\ deadline' = [deadline EXCEPT ![t] = FALSE]
    /\ result' = [result EXCEPT ![t] = 0]
    /\ late' = late \ {t}
    /\ woken' = woken \ {t}
    /\ UNCHANGED <<word, lock, bucket, state, pending_work, kicks, sleepers>>

(***************************************************************************)
(* futex_wake, after a change of the word                                  *)
(***************************************************************************)

ChangeWord(t, a, v) ==
    /\ pc[t] = "user" /\ v # word[a]
    /\ word' = [word EXCEPT ![a] = v]
    /\ address' = [address EXCEPT ![t] = a]
    /\ Goto(t, "wake")
    /\ UNCHANGED <<lock, bucket, state, pending_work, kicks, sleepers, late, expected, deadline, result, woken>>

\* The places in the bucket of the first n waiters for an address.
Waiters(a) == {i \in 1..Len(bucket) : address[bucket[i]] = a}
First(a, n) == {i \in Waiters(a) : Cardinality({j \in Waiters(a) : j < i}) < n}

FutexWake(t, n) ==
    LET gone == {bucket[i] : i \in First(address[t], n)}
    IN  /\ pc[t] = "wake" /\ lock = NoOne
        /\ bucket' = SelectSeq(bucket, LAMBDA u : u \notin {bucket[i] : i \in First(address[t], n)})
        /\ state' = [u \in Threads |-> IF u \in gone THEN "running" ELSE state[u]]
        /\ woken' = woken \cup gone
        /\ address' = [address EXCEPT ![t] = SomeAddress]
        /\ Goto(t, "user")
        /\ UNCHANGED <<word, lock, pending_work, kicks, sleepers, late, expected, deadline, result>>

(***************************************************************************)
(* The scheduler around it: deadlines and signals                          *)
(***************************************************************************)

DeadlinePasses(t) ==
    /\ deadline[t] /\ t \notin late
    /\ late' = late \cup {t}
    /\ UNCHANGED <<word, lock, bucket, state, pending_work, kicks, sleepers, pc, args, result, woken>>

WakeExpired(t) ==
    /\ t \in sleepers \cap late
    /\ sleepers' = sleepers \ {t}
    /\ state' = [state EXCEPT ![t] = "running"]
    /\ UNCHANGED <<word, lock, bucket, pending_work, kicks, late, pc, args, result, woken>>

PostWork(t) ==
    /\ t \in Signalled /\ ~pending_work[t]
    /\ pending_work' = [pending_work EXCEPT ![t] = TRUE]
    /\ kicks' = kicks \cup {t}
    /\ UNCHANGED <<word, lock, bucket, state, sleepers, late, pc, args, result, woken>>

SchedKick(t) ==
    /\ t \in kicks
    /\ kicks' = kicks \ {t}
    /\ state' = [state EXCEPT ![t] = "running"]
    /\ UNCHANGED <<word, lock, bucket, pending_work, sleepers, late, pc, args, result, woken>>

\* On the way back to user mode.
HandleWork(t) ==
    /\ pc[t] = "user" /\ pending_work[t]
    /\ pending_work' = [pending_work EXCEPT ![t] = FALSE]
    /\ UNCHANGED <<word, lock, bucket, state, kicks, sleepers, late, pc, args, result, woken>>

Inside(t) == CheckWord(t) \/ Link(t) \/ Wakes(t) \/ UnlinkSelf(t) \/ WaitReturn(t) \/ \E n \in Counts : FutexWake(t, n)

Next ==
    \E t \in Threads :
        \/ \E a \in Addresses, v \in Words, timed \in Timed : FutexWait(t, a, v, timed)
        \/ \E a \in Addresses, v \in Words : ChangeWord(t, a, v)
        \/ Inside(t) \/ HandleWork(t)
        \/ DeadlinePasses(t) \/ WakeExpired(t) \/ PostWork(t) \/ SchedKick(t)

Spec == Init /\ [][Next]_vars

\* Threads run, deadlines pass, ticks and kicks are served.  Nobody has to call.
Fairness == \A t \in Threads : /\ SF_vars(Inside(t))
                               /\ WF_vars(DeadlinePasses(t)) /\ WF_vars(WakeExpired(t)) /\ WF_vars(SchedKick(t))

FairSpec == Spec /\ Fairness

(***************************************************************************)
(* Properties                                                              *)
(***************************************************************************)

\* Every variable has its type.
TypeOK ==
    /\ word \in [Addresses -> Words]
    /\ lock \in Threads \cup {NoOne}
    /\ bucket \in Seq(Threads)
    /\ state \in [Threads -> {"running", "blocked"}]
    /\ pending_work \in [Threads -> BOOLEAN]
    /\ kicks \subseteq Threads /\ sleepers \subseteq Threads /\ late \subseteq Threads /\ woken \subseteq Threads
    /\ pc \in [Threads -> {"user", "wait", "link", "asleep", "awake", "returned", "wake"}]
    /\ address \in [Threads -> Addresses]
    /\ expected \in [Threads -> Words]
    /\ deadline \in [Threads -> BOOLEAN]
    /\ result \in [Threads -> {0, EAGAIN, EINTR, ETIMEDOUT}]

\* "Lives on the waiting thread's stack": whoever is in the bucket is still in
\* futex_wait, and is there once.
QueuedIsWaiting ==
    /\ \A i \in 1..Len(bucket) : pc[bucket[i]] \in {"asleep", "awake"}
    /\ \A i, j \in 1..Len(bucket) : bucket[i] = bucket[j] => i = j

\* A thread sleeps on a word that has changed only while somebody who changed
\* it has still to call futex_wake: "the change is either seen here or the waker
\* finds this waiter".  For wakers that wake everyone.
NoLostWakeup ==
    \A t \in Threads :
        pc[t] = "asleep" /\ state[t] = "blocked" /\ word[address[t]] # expected[t] =>
            \E u \in Threads : pc[u] = "wake" /\ address[u] = address[t]

\* A waiter that futex_wake counted reports the wakeup, even if its deadline or
\* a signal came too, and one that refused to wait was never counted.
CountedIsReported ==
    \A t \in Threads : pc[t] = "returned" /\ t \in woken => result[t] = 0

\* A blocked thread can be found, by a waker or at its deadline.
BlockedIsQueued == \A t \in Threads : state[t] = "blocked" => Queued(t) /\ pc[t] = "asleep"

\* A wait that was woken, timed out or was interrupted returns.
WaitsReturn ==
    \A t \in Threads :
        /\ pc[t] = "asleep" /\ t \in woken ~> pc[t] = "user"
        /\ pc[t] = "asleep" /\ deadline[t] ~> pc[t] = "user"
        /\ pc[t] = "asleep" /\ pending_work[t] ~> pc[t] = "user"
=============================================================================
