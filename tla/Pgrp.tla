-------------------------------- MODULE Pgrp --------------------------------
(* kernel/proc/pgrp.c and the session of a terminal in dev/tty_interface.c:    *)
(* process groups, sessions, and the foreground group of one terminal, all     *)
(* under process_group_lock; references are dropped after it is released.      *)
(*                                                                             *)
(* Group objects are freed and used again; a process makes one session at      *)
(* most, so a session is named by its sid.  A process is the one thread of it  *)
(* that makes calls.                                                           *)
EXTENDS Integers, FiniteSets

CONSTANTS Procs, InitProc, None,
          Groups,       \* bound: the group objects there is memory for
          Forks,        \* bound: [Procs -> the processes each forks]
          Openers,      \* bound: the processes with the terminal open
          Waiters       \* bound: the processes that wait for a group

ProcsAssumption == InitProc \in Procs /\ None \notin Procs \cup Groups /\ Forks \in [Procs -> SUBSET Procs]

VARIABLES life,         \* [Procs -> "none", "alive", "zombie" or "gone"]
          ppid, did_exec,
          group,        \* [Procs -> its group]
          pgid, session, refcount, members,  \* [Groups -> ...]
          table,        \* the groups in process_group_table
          sid_refs,     \* [Procs -> the references to the session of that sid]
          sid_tty,      \* the sessions whose tty is the terminal
          tty_session, foreground,
          removed, in_flight,
          at,           \* [Procs -> where its call is], and that of tty_interface_remove
          found,        \* [Procs -> the group that waitpid holds]
          dropped       \* [Procs and None -> the references to be dropped, None is the remover]

groupVars == <<group, pgid, session, refcount, members, table>>
ttyVars   == <<sid_tty, tty_session, foreground>>
procVars  == <<life, ppid, did_exec>>
callVars  == <<removed, in_flight, at, found, dropped>>
vars == <<procVars, groupVars, sid_refs, ttyVars, callVars>>

Callers == Procs \cup {None}
Nothing == [group |-> None, sid |-> None]

\* Init is attached in a session and a group of its own.
Init ==
    /\ life = [p \in Procs |-> IF p = InitProc THEN "alive" ELSE "none"]
    /\ ppid = [p \in Procs |-> InitProc] /\ did_exec = {}
    /\ \E g \in Groups :
          /\ g = CHOOSE x \in Groups : TRUE
          /\ group = [p \in Procs |-> IF p = InitProc THEN g ELSE None]
          /\ pgid = [x \in Groups |-> IF x = g THEN InitProc ELSE None]
          /\ session = [x \in Groups |-> IF x = g THEN InitProc ELSE None]
          /\ refcount = [x \in Groups |-> IF x = g THEN 1 ELSE 0]
          /\ members = [x \in Groups |-> IF x = g THEN {InitProc} ELSE {}]
          /\ table = {g}
    /\ sid_refs = [p \in Procs |-> IF p = InitProc THEN 1 ELSE 0]
    /\ sid_tty = {} /\ tty_session = None /\ foreground = None
    /\ removed = FALSE /\ in_flight = 0
    /\ at = [c \in Callers |-> "idle"]
    /\ found = [p \in Procs |-> None]
    /\ dropped = [c \in Callers |-> Nothing]

Runs(p) == life[p] = "alive" /\ at[p] = "idle"
SessionOf(p) == session[group[p]]
FindInTable(id) == {g \in table : pgid[g] = id}
\* The allocator hands out some group that is free; which one makes no difference.
Free == LET free == {g \in Groups : refcount[g] = 0} IN IF free = {} THEN {} ELSE {CHOOSE g \in free : TRUE}
At(c, where) == at' = [at EXCEPT ![c] = where]

\* process_group_decref and session_decref of what a call has left to drop.
Decref(d) ==
    LET last == d.group # None /\ refcount[d.group] = 1
        lost(s) == (IF d.sid = s THEN 1 ELSE 0) + (IF last /\ session[d.group] = s THEN 1 ELSE 0)
    IN  /\ refcount' = [g \in Groups |-> IF g = d.group THEN refcount[g] - 1 ELSE refcount[g]]
        /\ sid_refs' = [s \in Procs |-> sid_refs[s] - lost(s)]

\* leave_locked and join_locked, for a process that moves from one group to another, and the
\* drop of its reference to the one it leaves.
\* Slip: a group stays in the table when its last member leaves.
MoveKept(p, g, id, s) ==
    LET old  == group[p]
        last == refcount[old] = 1
    IN  /\ group' = [group EXCEPT ![p] = g]
        /\ members' = [members EXCEPT ![old] = @ \ {p}, ![g] = @ \cup {p}]
        /\ table' = table \cup {g}
        /\ refcount' = [refcount EXCEPT ![old] = @ - 1, ![g] = @ + 1]
        /\ pgid' = [pgid EXCEPT ![g] = id]
        /\ session' = [session EXCEPT ![g] = s]
        /\ sid_refs' = [x \in Procs |-> sid_refs[x] + (IF x = s /\ refcount[g] = 0 THEN 1 ELSE 0)
                                                   - (IF x = session[old] /\ last THEN 1 ELSE 0)]
Move(p, g, id, s) ==
    LET old  == group[p]
        last == refcount[old] = 1
    IN  /\ group' = [group EXCEPT ![p] = g]
        /\ members' = [members EXCEPT ![old] = @ \ {p}, ![g] = @ \cup {p}]
        /\ table' = (IF members[old] = {p} THEN table \ {old} ELSE table) \cup {g}
        /\ refcount' = [refcount EXCEPT ![old] = @ - 1, ![g] = @ + 1]
        /\ pgid' = [pgid EXCEPT ![g] = id]
        /\ session' = [session EXCEPT ![g] = s]
        /\ sid_refs' = [x \in Procs |-> sid_refs[x] + (IF x = s /\ refcount[g] = 0 THEN 1 ELSE 0)
                                                   - (IF x = session[old] /\ last THEN 1 ELSE 0)]
-------------------------------------------------------------------------------
\* process_group_attach: a child joins the group of its parent.
Fork(p, q) ==
    /\ Runs(p) /\ q \in Forks[p] /\ life[q] = "none"
    /\ life' = [life EXCEPT ![q] = "alive"]
    /\ ppid' = [ppid EXCEPT ![q] = p]
    /\ group' = [group EXCEPT ![q] = group[p]]
    /\ members' = [members EXCEPT ![group[p]] = @ \cup {q}]
    /\ refcount' = [refcount EXCEPT ![group[p]] = @ + 1]
    /\ UNCHANGED <<did_exec, pgid, session, table, sid_refs, ttyVars, callVars>>

Exec(p) ==
    /\ Runs(p) /\ p \notin did_exec
    /\ did_exec' = did_exec \cup {p}
    /\ UNCHANGED <<life, ppid, groupVars, sid_refs, ttyVars, callVars>>

\* The process is a zombie, a member of its group still, and its children are init's.
Die(p) ==
    /\ Runs(p) /\ p # InitProc
    /\ life' = [life EXCEPT ![p] = "zombie"]
    /\ ppid' = [q \in Procs |-> IF ppid[q] = p THEN InitProc ELSE ppid[q]]
    /\ UNCHANGED <<did_exec, groupVars, sid_refs, ttyVars, callVars>>

\* process_group_detach, by process_destroy.
Detach(p) ==
    /\ life[p] = "zombie" /\ at[p] = "idle"
    /\ life' = [life EXCEPT ![p] = "gone"]
    /\ group' = [group EXCEPT ![p] = None]
    /\ members' = [members EXCEPT ![group[p]] = @ \ {p}]
    /\ table' = IF members[group[p]] = {p} THEN table \ {group[p]} ELSE table
    /\ dropped' = [dropped EXCEPT ![p].group = group[p]]
    /\ At(p, "drop")
    /\ UNCHANGED <<ppid, did_exec, pgid, session, refcount, sid_refs, ttyVars, removed, in_flight, found>>

\* process_group_new_session
NewSession(p) ==
    /\ Runs(p) /\ FindInTable(p) = {}
    /\ \E g \in Free : Move(p, g, p, p)
    /\ UNCHANGED <<procVars, ttyVars, callVars>>

\* process_group_move: check_movable_locked, destination_locked, move_locked.
GroupMove(p, q, id) ==
    /\ Runs(p) /\ q \in {p} \cup {x \in Procs : ppid[x] = p}
    /\ group[q] # None /\ SessionOf(q) = SessionOf(p)
    /\ q = p \/ q \notin did_exec
    /\ q # SessionOf(p)
    /\ \/ \E g \in FindInTable(id) \ {group[q]} : session[g] = SessionOf(p) /\ Move(q, g, id, session[g])
       \/ FindInTable(id) = {} /\ id = q /\ \E g \in Free : Move(q, g, id, SessionOf(p))
    /\ UNCHANGED <<procVars, ttyVars, callVars>>

\* sys_waitpid for a group: process_group_find or process_get_group, and the drop after the wait.
WaitGroup(p, id) ==
    /\ Runs(p) /\ p \in Waiters
    /\ \E g \in FindInTable(id) :
          /\ found' = [found EXCEPT ![p] = g]
          /\ refcount' = [refcount EXCEPT ![g] = @ + 1]
    /\ At(p, "wait")
    /\ UNCHANGED <<procVars, group, pgid, session, members, table, sid_refs, ttyVars, removed, in_flight, dropped>>

Waited(p) ==
    /\ at[p] = "wait"
    /\ At(p, "drop")
    /\ found' = [found EXCEPT ![p] = None]
    /\ dropped' = [dropped EXCEPT ![p].group = found[p]]
    /\ UNCHANGED <<procVars, groupVars, sid_refs, ttyVars, removed, in_flight>>
-------------------------------------------------------------------------------
(* The terminal                                                                *)

\* enter: the call counts itself first, and then looks whether the terminal was removed.
Enter(p) ==
    /\ Runs(p) /\ p \in Openers
    /\ in_flight' = in_flight + 1
    /\ At(p, "enter")
    /\ UNCHANGED <<procVars, groupVars, sid_refs, ttyVars, removed, found, dropped>>

Entered(p) ==
    /\ at[p] = "enter" /\ ~removed
    /\ At(p, "tty")
    /\ UNCHANGED <<procVars, groupVars, sid_refs, ttyVars, removed, in_flight, found, dropped>>

\* make_controlling, with the right to force it or without.
MakeControlling(p, force) ==
    LET s == SessionOf(p)
    IN  /\ at[p] = "tty"
        /\ s = p /\ s \notin sid_tty
        /\ tty_session = None \/ force
        /\ sid_tty' = (sid_tty \ {tty_session}) \cup {s}
        /\ tty_session' = s
        /\ foreground' = group[p]
        /\ refcount' = [refcount EXCEPT ![group[p]] = @ + 1]
        /\ sid_refs' = [sid_refs EXCEPT ![s] = @ + 1]
        /\ dropped' = [dropped EXCEPT ![p] = [group |-> foreground, sid |-> tty_session]]
        /\ At(p, "ttydrop")
        /\ UNCHANGED <<procVars, group, pgid, session, members, table, removed, in_flight, found>>

\* detach_locked
DetachTty(c) ==
    /\ sid_tty' = sid_tty \ {tty_session}
    /\ dropped' = [dropped EXCEPT ![c] = [group |-> foreground, sid |-> tty_session]]
    /\ tty_session' = None /\ foreground' = None

\* give_up_controlling
GiveUpControlling(p) ==
    /\ at[p] = "tty"
    /\ SessionOf(p) \in sid_tty /\ SessionOf(p) = p
    /\ DetachTty(p)
    /\ At(p, "ttydrop")
    /\ UNCHANGED <<procVars, groupVars, sid_refs, removed, in_flight, found>>

\* set_foreground
SetForeground(p, id) ==
    /\ at[p] = "tty"
    /\ SessionOf(p) \in sid_tty
    /\ \E g \in FindInTable(id) :
          /\ session[g] = tty_session
          /\ refcount' = [refcount EXCEPT ![g] = @ + 1]
          /\ foreground' = g
    /\ dropped' = [dropped EXCEPT ![p].group = foreground]
    /\ At(p, "ttydrop")
    /\ UNCHANGED <<procVars, group, pgid, session, members, table, sid_refs, sid_tty, tty_session, removed, in_flight, found>>

\* leave, by enter, or for a call that is refused, or that only reads: get_foreground, get_session.
Leave(p) ==
    /\ at[p] = "tty" \/ (at[p] = "enter" /\ removed)
    /\ in_flight' = in_flight - 1
    /\ At(p, "idle")
    /\ UNCHANGED <<procVars, groupVars, sid_refs, ttyVars, removed, found, dropped>>

\* drop_detached and the other drops after the lock.
Drop(c) ==
    /\ at[c] \in {"drop", "ttydrop"}
    /\ Decref(dropped[c])
    /\ dropped' = [dropped EXCEPT ![c] = Nothing]
    /\ in_flight' = IF at[c] = "ttydrop" THEN in_flight - 1 ELSE in_flight
    /\ At(c, IF c = None THEN "done" ELSE "idle")
    /\ UNCHANGED <<procVars, group, pgid, session, members, table, ttyVars, removed, found>>

\* tty_interface_remove
Remove ==
    /\ ~removed
    /\ removed' = TRUE
    /\ UNCHANGED <<procVars, groupVars, sid_refs, ttyVars, in_flight, at, found, dropped>>

RemoveTty ==
    /\ removed /\ at[None] = "idle" /\ in_flight = 0
    /\ DetachTty(None)
    /\ At(None, "drop")
    /\ UNCHANGED <<procVars, groupVars, sid_refs, removed, in_flight, found>>

Next ==
    \/ Remove \/ RemoveTty
    \/ \E c \in Callers : Drop(c)
    \/ \E p \in Procs :
          \/ Exec(p) \/ Die(p) \/ Detach(p) \/ NewSession(p) \/ Waited(p)
          \/ Enter(p) \/ Entered(p) \/ Leave(p) \/ GiveUpControlling(p)
          \/ \E force \in BOOLEAN : MakeControlling(p, force)
          \/ \E q \in Procs : Fork(p, q) \/ WaitGroup(p, q) \/ SetForeground(p, q)
          \/ \E q, id \in Procs : GroupMove(p, q, id)

Spec == Init /\ [][Next]_vars
-------------------------------------------------------------------------------
Live == {g \in Groups : refcount[g] > 0}

TypeOK ==
    /\ group \in [Procs -> Groups \cup {None}]
    /\ refcount \in [Groups -> Nat] /\ sid_refs \in [Procs -> Nat]
    /\ foreground \in Groups \cup {None} /\ tty_session \in Procs \cup {None}

\* "a group with none is out of the table and takes no one in" (pgrp.h:21): whoever moves,
\* forks or dies, the lists of members are the groups of the processes, a group is in the
\* table as long as it has a member and alone with its id, and the leader of a session is in it.
GroupsAgree ==
    /\ \A p \in Procs : (group[p] # None) = (life[p] \in {"alive", "zombie"})
    /\ \A g \in Groups : members[g] = {p \in Procs : group[p] = g}
    /\ table = {g \in Groups : members[g] # {}}
    /\ \A g, h \in table : pgid[g] = pgid[h] => g = h
    /\ \A p \in Procs : group[p] # None /\ sid_refs[p] > 0 => session[group[p]] = p

\* process_group_incref, session_incref and the drops after the lock: the counts are those of
\* the references there are, so nothing is used after it is freed, and nothing leaks.
CountsMatch ==
    /\ \A g \in Groups :
          refcount[g] = Cardinality(members[g]) + Cardinality({p \in Procs : found[p] = g})
                        + Cardinality({c \in Callers : dropped[c].group = g}) + (IF foreground = g THEN 1 ELSE 0)
    /\ \A s \in Procs :
          sid_refs[s] = Cardinality({g \in Live : session[g] = s}) + Cardinality({c \in Callers : dropped[c].sid = s})
                        + (IF tty_session = s THEN 1 ELSE 0)

\* make_controlling, set_foreground, tty_interface_remove: the terminal and its session name
\* each other, the foreground group is of that session, and a terminal that was removed with
\* no call in flight has neither.
TerminalAgrees ==
    /\ sid_tty = {tty_session} \ {None}
    /\ (foreground = None) = (tty_session = None)
    /\ foreground # None => foreground \in Live /\ session[foreground] = tty_session
    /\ at[None] # "idle" => tty_session = None
===============================================================================
