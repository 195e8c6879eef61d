------------------------------ MODULE Signals ------------------------------
(* kernel/proc/signal.c and sys_signal.c: the signals of one process.  A       *)
(* signal is pending on the process or on one thread; THREAD_WORK_SIGNAL sends *)
(* a thread through signal_deliver on its way to user mode.                    *)
(*                                                                             *)
(* One step per critical section of the lock of the actions; every pending set *)
(* and mask is written under it.  begin_exit, which ThreadGroup takes apart,   *)
(* is one step.  The list of threads is a set: which thread that can take a    *)
(* signal comes first in it is left open.                                      *)
EXTENDS Integers, SequencesExt

CONSTANTS Threads, Main, None,
          Process,      \* the owner of the signals pending on the process
          Sigs,         \* the signals in use, lowest delivered first
          Kills,        \* default_kills
          IsInit,       \* whether the process is init
          Actions,      \* bound: what sigaction is called with
          Masks,        \* bound: what sigprocmask sets
          MaxSends, MaxCalls, MaxFrames

SignalsAssumption == Main \in Threads /\ Sigs \subseteq Nat /\ Kills \subseteq Sigs /\ IsInit \in BOOLEAN
OwnersAssumption == Process \notin Threads /\ None \notin Threads
BoundsAssumption == MaxSends \in Nat /\ MaxCalls \in Nat /\ MaxFrames \in Nat /\ Masks \subseteq SUBSET Sigs

VARIABLES sig_pending,  \* [Threads and Process -> SUBSET Sigs]
          sig_queue,    \* [Threads and Process -> the signals of the queued siginfo]
          sig_blocked,  \* [Threads -> SUBSET Sigs]
          actions,      \* [Sigs -> a sigaction]
          signal_work,  \* the threads with THREAD_WORK_SIGNAL
          exit_work,    \* the threads with THREAD_WORK_EXIT
          syscall_restart, \* the threads whose call was rewound
          ctx,          \* [Threads -> the register context, under it those of the frames]
          at,           \* [Threads -> where the thread is]
          adding,       \* [Threads -> what signal_deliver is going to block]
          exiting, exec_thread,
          sends, calls, \* bounds: counted up to MaxSends and MaxCalls
          outside,      \* history: [Threads -> its mask outside of handlers]
          overlooked    \* history: pending on the process when a flagged thread came to block them

pendVars == <<sig_pending, sig_queue>>
workVars == <<signal_work, exit_work>>
ctxVars  == <<syscall_restart, ctx>>
goneVars == <<exiting, exec_thread>>
vars == <<pendVars, sig_blocked, actions, workVars, ctxVars, at, adding, goneVars, sends, calls, outside, overlooked>>

Default == [handler |-> "dfl", mask |-> {}, flags |-> {}]

Init ==
    /\ sig_pending = [o \in Threads \cup {Process} |-> {}]
    /\ sig_queue = [o \in Threads \cup {Process} |-> <<>>]
    /\ sig_blocked = [t \in Threads |-> {}]
    /\ actions = [s \in Sigs |-> Default]
    /\ signal_work = {} /\ exit_work = {} /\ syscall_restart = {}
    /\ ctx = [t \in Threads |-> <<[at |-> "plain", mask |-> {}]>>]
    /\ at = [t \in Threads |-> IF t = Main THEN "user" ELSE "none"]
    /\ adding = [t \in Threads |-> {}]
    /\ exiting = FALSE /\ exec_thread = None
    /\ sends = 0 /\ calls = 0
    /\ outside = [t \in Threads |-> {}]
    /\ overlooked = {}

Attached == {t \in Threads : at[t] \notin {"none", "gone"}}
Staying == Attached \ exit_work
Takers(s) == {t \in Staying : s \notin sig_blocked[t]}
At(t, where) == at' = [at EXCEPT ![t] = where]

Ignored(s, acts) ==
    \/ acts[s].handler = "ign"
    \/ acts[s].handler = "dfl" /\ (IsInit \/ s \notin Kills)

Deliverable(t, pending, blocked) == (pending[t] \cup pending[Process]) \ blocked

\* recalc_locked
Recalc(t, pending, blocked) ==
    signal_work' = IF Deliverable(t, pending, blocked) # {} THEN signal_work \cup {t} ELSE signal_work \ {t}

\* queue_take unlinks the first.
QueueTake(queue, s) == IF Contains(queue, s) THEN RemoveFirst(queue, s) ELSE queue

\* A system call: from user mode, and back through exit_to_user.
Calls(t) == at[t] = "user" /\ calls < MaxCalls /\ calls' = calls + 1
Returns(t) == At(t, "exit")

\* begin_exit
BeginExit == exiting' = TRUE /\ exit_work' = Attached
-------------------------------------------------------------------------------
(* Sending                                                                     *)

\* What queue_signal and the lists of pending signals come to.
Pend(o, s, node) ==
    /\ sig_pending' = [sig_pending EXCEPT ![o] = @ \cup {s}]
    /\ sig_queue' = IF node THEN [sig_queue EXCEPT ![o] = Append(@, s)] ELSE sig_queue

\* queue_signal by self, with the siginfo allocated or not.
QueueSignal(self, tid, s, node) ==
    LET owner  == IF tid = None THEN Process ELSE tid
        chosen == CASE tid # None      -> Takers(s) \cap {tid}
                    [] self \in Takers(s) -> {self}
                    [] OTHER           -> Takers(s)
    IN  IF (tid # None /\ tid \notin Staying) \/ s \in sig_pending[owner] \/ (chosen # {} /\ Ignored(s, actions))
        THEN UNCHANGED <<pendVars, signal_work>>
        ELSE /\ Pend(owner, s, node)
             /\ IF chosen = {} THEN UNCHANGED signal_work
                ELSE \E t \in chosen : signal_work' = signal_work \cup {t}

\* sys_kill and sys_tgkill from a thread of the process, process_group_signal, notify_parent
\* and the calls of other processes from None.
Send(self, tid, s, node) ==
    /\ sends < MaxSends /\ sends' = sends + 1
    /\ QueueSignal(self, tid, s, node)
    /\ \/ self = None /\ UNCHANGED at
       \/ self # None /\ at[self] = "user" /\ Returns(self)
    /\ UNCHANGED <<sig_blocked, actions, exit_work, ctxVars, adding, goneVars, calls, outside, overlooked>>

\* signal_send of SIGKILL, and process_exit.
Kill ==
    /\ ~exiting /\ ~IsInit
    /\ BeginExit
    /\ UNCHANGED <<pendVars, sig_blocked, actions, signal_work, ctxVars, at, adding, exec_thread, sends, calls, outside, overlooked>>

\* signal_force: a fault of the thread itself, in user mode.
Force(t, s, node) ==
    LET reset == actions[s].handler = "ign" \/ s \in sig_blocked[t]
        acts  == IF reset THEN [actions EXCEPT ![s] = Default] ELSE actions
        fatal == acts[s].handler = "dfl" /\ s \in Kills
        kept  == SelectSeq(sig_queue[t], LAMBDA x : x # s)
    IN  /\ at[t] = "user" /\ sends < MaxSends /\ sends' = sends + 1
        /\ actions' = acts
        /\ Returns(t)
        /\ IF fatal
           THEN BeginExit /\ UNCHANGED <<pendVars, sig_blocked, signal_work, outside>>
           ELSE /\ sig_blocked' = [sig_blocked EXCEPT ![t] = @ \ {s}]
                /\ sig_pending' = [sig_pending EXCEPT ![t] = @ \cup {s}]
                /\ sig_queue' = [sig_queue EXCEPT ![t] = IF node THEN Append(kept, s) ELSE kept]
                /\ signal_work' = signal_work \cup {t}
                /\ outside' = IF Len(ctx[t]) = 1 THEN [outside EXCEPT ![t] = @ \ {s}] ELSE outside
                /\ UNCHANGED <<exiting, exit_work>>
        /\ UNCHANGED <<ctxVars, adding, exec_thread, calls, overlooked>>
-------------------------------------------------------------------------------
(* The way to user mode                                                        *)

\* exit_to_user, when there is nothing to do.  A call that was rewound runs again.
ExitToUser(t) ==
    /\ at[t] = "exit" /\ t \notin signal_work \cup exit_work
    /\ At(t, "user")
    /\ ctx' = [ctx EXCEPT ![t][1].at = IF @ \in {"rewound", "eintr"} THEN "plain" ELSE @]
    /\ syscall_restart' = syscall_restart \ {t}
    /\ UNCHANGED <<pendVars, sig_blocked, actions, workVars, adding, goneVars, sends, calls, outside, overlooked>>

\* exit_to_user, when the thread is to go: its own signals go with it.
Terminate(t) ==
    /\ at[t] = "exit" /\ t \in exit_work
    /\ At(t, "gone")
    /\ sig_pending' = [sig_pending EXCEPT ![t] = {}]
    /\ sig_queue' = [sig_queue EXCEPT ![t] = <<>>]
    /\ signal_work' = signal_work \ {t}
    /\ UNCHANGED <<sig_blocked, actions, exit_work, ctxVars, adding, goneVars, sends, calls, outside, overlooked>>

\* arch_syscall_interrupted: steps over the call that was to run again.
Interrupted(c) == [c EXCEPT !.at = IF @ = "rewound" THEN "eintr" ELSE "astray"]

\* arch_signal_setup: the frame keeps the context and the mask, the context is the handler's.
Setup(t, mask, interrupts) ==
    LET saved == IF interrupts THEN Interrupted(ctx[t][1]) ELSE ctx[t][1]
    IN  ctx' = [ctx EXCEPT ![t] = <<[at |-> "plain", mask |-> {}], [saved EXCEPT !.mask = mask]>> \o Tail(@)]

\* signal_deliver, up to the call of signal_mask.
Deliver(t) ==
    LET owner   == IF sig_pending[t] \ sig_blocked[t] # {} THEN t ELSE Process
        ready   == sig_pending[owner] \ sig_blocked[t]
        s       == CHOOSE x \in ready : \A y \in ready : x <= y
        action  == actions[s]
        pending == [sig_pending EXCEPT ![owner] = @ \ {s}]
    IN  /\ at[t] = "exit" /\ t \in signal_work \ exit_work
        /\ \/ /\ ready = {}
              /\ Recalc(t, sig_pending, sig_blocked[t])
              /\ UNCHANGED <<pendVars, actions, exit_work, ctxVars, at, adding, exiting, overlooked>>
           \/ /\ ready # {}
              /\ sig_pending' = pending
              /\ sig_queue' = [sig_queue EXCEPT ![owner] = QueueTake(@, s)]
              /\ Recalc(t, pending, sig_blocked[t])
              /\ overlooked' = overlooked \cap pending[Process]
              /\ \/ /\ action.handler # "catch"
                    /\ IF Ignored(s, actions) THEN UNCHANGED <<exiting, exit_work>> ELSE BeginExit
                    /\ UNCHANGED <<actions, ctxVars, at, adding>>
                 \/ /\ action.handler = "catch"
                    /\ actions' = IF "resethand" \in action.flags THEN [actions EXCEPT ![s] = Default] ELSE actions
                    /\ syscall_restart' = syscall_restart \ {t}
                    /\ \/ \* the frame does not fit on the stack
                          /\ BeginExit
                          /\ UNCHANGED <<ctx, at, adding>>
                       \/ /\ Len(ctx[t]) <= MaxFrames
                          /\ Setup(t, sig_blocked[t], t \in syscall_restart /\ "restart" \notin action.flags)
                          /\ At(t, "mask")
                          /\ adding' = [adding EXCEPT ![t] = action.mask \cup (IF "nodefer" \in action.flags THEN {} ELSE {s})]
                          /\ UNCHANGED <<exiting, exit_work>>
        /\ UNCHANGED <<sig_blocked, exec_thread, sends, calls, outside>>

\* signal_mask
SignalMask(t, mask) ==
    /\ sig_blocked' = [sig_blocked EXCEPT ![t] = mask]
    /\ Recalc(t, sig_pending, mask)
    /\ overlooked' = IF t \in signal_work THEN overlooked \cup (sig_pending[Process] \cap (mask \ sig_blocked[t])) ELSE overlooked

\* The end of signal_deliver.
BlockForHandler(t) ==
    /\ at[t] = "mask"
    /\ SignalMask(t, sig_blocked[t] \cup adding[t])
    /\ At(t, "exit") /\ adding' = [adding EXCEPT ![t] = {}]
    /\ UNCHANGED <<pendVars, actions, exit_work, ctxVars, goneVars, sends, calls, outside>>
-------------------------------------------------------------------------------
(* The other system calls                                                      *)

\* A call that a signal interrupts: with -ERESTART it is set up to run again.
\* Its wait ends when the thread is kicked, so the flag is set.
Interruptible(t) ==
    /\ Calls(t) /\ t \in signal_work \cup exit_work
    /\ ctx' = [ctx EXCEPT ![t][1].at = "rewound"]
    /\ syscall_restart' = syscall_restart \cup {t}
    /\ Returns(t)
    /\ UNCHANGED <<pendVars, sig_blocked, actions, workVars, adding, goneVars, sends, outside, overlooked>>

\* An interrupt or a call that does not wait.
Enter(t) ==
    /\ at[t] = "user" /\ t \in signal_work \cup exit_work
    /\ Returns(t)
    /\ UNCHANGED <<pendVars, sig_blocked, actions, workVars, ctxVars, adding, goneVars, sends, calls, outside, overlooked>>

\* sys_sigprocmask with SIG_SETMASK, which the other two come to.
SetMask(t, mask) ==
    /\ Calls(t)
    /\ SignalMask(t, mask)
    /\ outside' = IF Len(ctx[t]) = 1 THEN [outside EXCEPT ![t] = mask] ELSE outside
    /\ Returns(t)
    /\ UNCHANGED <<pendVars, actions, exit_work, ctxVars, adding, goneVars, sends>>

\* sys_sigreturn
\* Slip: the mask of the frame is added to the one of the handler.
SigReturnBlock(t) ==
    /\ at[t] = "user" /\ Len(ctx[t]) > 1
    /\ ctx' = [ctx EXCEPT ![t] = <<[@[2] EXCEPT !.mask = {}]>> \o SubSeq(@, 3, Len(@))]
    /\ SignalMask(t, sig_blocked[t] \cup ctx[t][2].mask)
    /\ Returns(t)
    /\ UNCHANGED <<pendVars, actions, exit_work, syscall_restart, adding, goneVars, sends, calls, outside>>
SigReturn(t) ==
    /\ at[t] = "user" /\ Len(ctx[t]) > 1
    /\ ctx' = [ctx EXCEPT ![t] = <<[@[2] EXCEPT !.mask = {}]>> \o SubSeq(@, 3, Len(@))]
    /\ SignalMask(t, ctx[t][2].mask)
    /\ Returns(t)
    /\ UNCHANGED <<pendVars, actions, exit_work, syscall_restart, adding, goneVars, sends, calls, outside>>

\* sys_sigaction: what is ignored from now on is dropped from every list.
SigAction(t, s, action) ==
    LET acts == [actions EXCEPT ![s] = action]
        drop == Ignored(s, acts)
    IN  /\ Calls(t)
        /\ actions' = acts
        /\ sig_pending' = [o \in DOMAIN sig_pending |-> IF drop THEN sig_pending[o] \ {s} ELSE sig_pending[o]]
        /\ sig_queue' = [o \in DOMAIN sig_queue |-> IF drop THEN SelectSeq(sig_queue[o], LAMBDA x : x # s) ELSE sig_queue[o]]
        /\ overlooked' = IF drop THEN overlooked \ {s} ELSE overlooked
        /\ Returns(t)
        /\ UNCHANGED <<sig_blocked, workVars, ctxVars, adding, goneVars, sends, outside>>

\* sys_thread_create: the new thread starts with the mask of its creator.
Create(t, new) ==
    /\ Calls(t) /\ at[new] = "none"
    /\ at' = [at EXCEPT ![t] = "exit", ![new] = "exit"]
    /\ sig_blocked' = [sig_blocked EXCEPT ![new] = sig_blocked[t]]
    /\ outside' = [outside EXCEPT ![new] = sig_blocked[t]]
    /\ exit_work' = IF exiting \/ exec_thread # None THEN exit_work \cup {new} ELSE exit_work
    /\ UNCHANGED <<pendVars, actions, signal_work, ctxVars, adding, goneVars, sends, overlooked>>

\* process_thread_exit: the thread is marked first.  The last one takes the process along.
\* Slip: what was pending on the process is not retargeted.
ThreadExitSilent(t) ==
    /\ Calls(t)
    /\ \/ t \in exit_work /\ UNCHANGED <<exit_work, exiting>>
       \/ t \notin exit_work /\ Staying # {t} /\ exit_work' = exit_work \cup {t} /\ UNCHANGED exiting
       \/ t \notin exit_work /\ Staying = {t} /\ BeginExit
    /\ Returns(t)
    /\ UNCHANGED <<pendVars, sig_blocked, actions, signal_work, ctxVars, adding, exec_thread, sends, outside, overlooked>>
ThreadExit(t) ==
    /\ Calls(t)
    /\ \/ t \in exit_work /\ Returns(t) /\ UNCHANGED <<exit_work, exiting>>
       \/ t \notin exit_work /\ Staying # {t} /\ exit_work' = exit_work \cup {t} /\ At(t, "retarget") /\ UNCHANGED exiting
       \/ t \notin exit_work /\ Staying = {t} /\ BeginExit /\ Returns(t)
    /\ UNCHANGED <<pendVars, sig_blocked, actions, signal_work, ctxVars, adding, exec_thread, sends, outside, overlooked>>

\* process_dethread for an exec: every other thread is told to go, and waited for.
Dethread(t) ==
    /\ Calls(t) /\ ~exiting /\ exec_thread = None
    /\ exec_thread' = t
    /\ exit_work' = exit_work \cup (Attached \ {t})
    /\ At(t, "dethread")
    /\ UNCHANGED <<pendVars, sig_blocked, actions, signal_work, ctxVars, adding, exiting, sends, outside, overlooked>>

Alone(t) ==
    /\ at[t] = "dethread" /\ Attached = {t}
    /\ exec_thread' = None
    /\ IF exiting THEN Returns(t) ELSE At(t, "retarget")
    /\ UNCHANGED <<pendVars, sig_blocked, actions, workVars, ctxVars, adding, exiting, sends, calls, outside, overlooked>>

\* signal_retarget, for a thread that leaves or has been left alone, and what follows it:
\* an exec replaces the context and the actions (signal_actions_exec).
Retarget(t) ==
    /\ at[t] = "retarget"
    /\ signal_work' = signal_work \cup {x \in Staying : sig_pending[Process] \ sig_blocked[x] # {}}
    /\ IF t \in exit_work THEN UNCHANGED <<actions, ctx, outside>>
       ELSE /\ actions' = [s \in Sigs |-> IF actions[s].handler = "ign" THEN [Default EXCEPT !.handler = "ign"] ELSE Default]
            /\ ctx' = [ctx EXCEPT ![t] = <<[at |-> "plain", mask |-> {}]>>]
            /\ outside' = [outside EXCEPT ![t] = sig_blocked[t]]
    /\ Returns(t)
    /\ overlooked' = {}
    /\ UNCHANGED <<pendVars, sig_blocked, exit_work, syscall_restart, adding, goneVars, sends, calls>>

Next ==
    \/ Kill
    \/ \E s \in Sigs, node \in BOOLEAN :
          \/ \E self, tid \in Threads \cup {None} : Send(self, tid, s, node)
          \/ \E t \in Threads : Force(t, s, node)
    \/ \E t \in Threads :
          \/ ExitToUser(t) \/ Terminate(t) \/ Deliver(t) \/ BlockForHandler(t)
          \/ Interruptible(t) \/ Enter(t) \/ SigReturn(t)
          \/ ThreadExit(t) \/ Dethread(t) \/ Alone(t) \/ Retarget(t)
          \/ \E mask \in Masks : SetMask(t, mask)
          \/ \E s \in Sigs, action \in Actions : SigAction(t, s, action)
          \/ \E new \in Threads : Create(t, new)

Spec == Init /\ [][Next]_vars
-------------------------------------------------------------------------------
TypeOK ==
    /\ \A o \in Threads \cup {Process} : sig_pending[o] \subseteq Sigs /\ sig_queue[o] \in Seq(Sigs)
    /\ sig_blocked \in [Threads -> SUBSET Sigs]
    /\ signal_work \subseteq Threads /\ exit_work \subseteq Threads
    /\ exec_thread \in Threads \cup {None}

\* queue_signal, recalc_locked and signal_retarget: a thread that can take a signal pending on
\* it is flagged to; one pending on the process, if a thread can take it, has such a thread
\* flagged, or a retarget comes.  The one gap: the flagged thread blocks it before it is
\* delivered.
SignalIsSeen ==
    /\ \A t \in Staying : sig_pending[t] \ sig_blocked[t] # {} => t \in signal_work
    /\ \A s \in sig_pending[Process] \ overlooked :
          \/ Takers(s) \cap signal_work # {}
          \/ Takers(s) = {}
          \/ \E t \in Threads : at[t] \in {"retarget", "dethread"}

\* "without it the signal still arrives, just with no siginfo" (signal.c:280), and never the
\* other way: a siginfo is of a signal that is pending, and of each there is one.
InfoIsOfPending ==
    \A o \in Threads \cup {Process} : IsInjective(sig_queue[o]) /\ \A j \in DOMAIN sig_queue[o] : sig_queue[o][j] \in sig_pending[o]

\* signal_deliver and sys_sigreturn: a thread out of all its handlers has the mask it had.
MaskIsRestored == \A t \in Attached : Len(ctx[t]) = 1 /\ at[t] # "mask" => sig_blocked[t] = outside[t]

\* syscall_restart and arch_syscall_interrupted: only the context of a call that was rewound
\* is stepped forward, whatever handlers stack up on one way out.
NoneAstray == \A t \in Threads : \A j \in DOMAIN ctx[t] : ctx[t][j].at # "astray"

HandlersUnwind == MaskIsRestored /\ NoneAstray
===============================================================================
