------------------------------ MODULE MCThreads ------------------------------
(* Threads in one run: how harts run them (Sched), how they take signals         *)
(* (Signals), and the groups and sessions their processes are in, with their     *)
(* terminal (Pgrp).  A behaviour is of one scene.                                *)
EXTENDS Sched, TLC

CONSTANTS t1, t2, h1, h2, a, b, i, p, q, g1, g2, g3, Process

VARIABLES scene,
          sig_pending, sig_queue, sig_blocked, actions, signal_work, exit_work, syscall_restart, ctx,
          at, adding, exiting, exec_thread, sends, calls, outside, overlooked,
          life, ppid, did_exec, group, pgid, session, refcount, members, table, sid_refs,
          sid_tty, tty_session, foreground, removed, in_flight, call, found, dropped

signalVars == <<sig_pending, sig_queue, sig_blocked, actions, signal_work, exit_work, syscall_restart, ctx,
                at, adding, exiting, exec_thread, sends, calls, outside, overlooked>>
groupsVars == <<life, ppid, did_exec, group, pgid, session, refcount, members, table, sid_refs,
                sid_tty, tty_session, foreground, removed, in_flight, call, found, dropped>>

\* One thread is bound to a hart, the other free to move.
OneBound == [t \in Threads |-> IF t = t1 THEN h1 ELSE None]

\* Two threads and two signals, one of which kills; a handler that restarts, one that
\* blocks the other signal as well and is used once, and none.
Signalling == INSTANCE Signals WITH
    Threads <- {a, b}, Main <- a, Sigs <- {1, 2}, Kills <- {1}, IsInit <- FALSE, Masks <- {{}, {1}},
    Actions <- {[handler |-> "catch", mask |-> {}, flags |-> {"restart"}],
                [handler |-> "catch", mask |-> {2}, flags |-> {"resethand"}],
                [handler |-> "ign", mask |-> {}, flags |-> {}]},
    MaxSends <- 2, MaxCalls <- 3, MaxFrames <- 2

\* Init, a child and a grandchild, which use the terminal: each in a group of its own, or with
\* memory for two groups, one of which init may be waiting for.
Family == i :> {p} @@ p :> {q} @@ q :> {}
Grouping == INSTANCE Pgrp WITH
    Procs <- {i, p, q}, InitProc <- i, Groups <- {g1, g2, g3}, Forks <- Family,
    Openers <- {p, q}, Waiters <- {}, at <- call
Waiting == INSTANCE Pgrp WITH
    Procs <- {i, p, q}, InitProc <- i, Groups <- {g1, g2}, Forks <- Family,
    Openers <- {p, q}, Waiters <- {i}, at <- call

ASSUME Signalling!SignalsAssumption /\ Signalling!OwnersAssumption /\ Signalling!BoundsAssumption
ASSUME Grouping!ProcsAssumption /\ Waiting!ProcsAssumption

Start ==
    /\ scene \in {"harts", "signals", "groups", "waits"} /\ Init /\ Signalling!Init
    /\ IF scene = "waits" THEN Waiting!Init ELSE Grouping!Init

Step ==
    /\ UNCHANGED scene
    /\ \/ scene = "harts"   /\ Next            /\ UNCHANGED <<signalVars, groupsVars>>
       \/ scene = "signals" /\ Signalling!Next /\ UNCHANGED <<vars, groupsVars>>
       \/ scene = "groups"  /\ Grouping!Next   /\ UNCHANGED <<vars, signalVars>>
       \/ scene = "waits"   /\ Waiting!Next    /\ UNCHANGED <<vars, signalVars>>

\* The process is gone, or the bounds are reached; harts never rest.
Rest == scene # "harts" /\ UNCHANGED <<scene, vars, signalVars, groupsVars>>

Scenes == Start /\ [][Step \/ Rest]_<<scene, vars, signalVars, groupsVars>>

\* queue_signal, recalc_locked and signal_retarget: a signal that a thread can take is never
\* left with no thread flagged to take it (Signals says what is excepted), and a queued
\* siginfo is that of a signal that is pending.
SignalsAreSeen == scene = "signals" => Signalling!TypeOK /\ Signalling!SignalIsSeen /\ Signalling!InfoIsOfPending

\* signal_deliver and sigreturn: whatever handlers nest, a thread outside of them has the
\* mask it had before.
HandlersUnwind == scene = "signals" => Signalling!HandlersUnwind

\* "a group with none is out of the table and takes no one in" (pgrp.h:21): whoever moves,
\* forks, waits, dies or takes a terminal, the members, the table and the counts agree; the
\* terminal and its session name each other, and its foreground group is one of that session.
GroupsAgree ==
    /\ scene = "groups" => Grouping!TypeOK /\ Grouping!GroupsAgree /\ Grouping!CountsMatch /\ Grouping!TerminalAgrees
    /\ scene = "waits"  => Waiting!TypeOK /\ Waiting!GroupsAgree /\ Waiting!CountsMatch /\ Waiting!TerminalAgrees
==============================================================================
