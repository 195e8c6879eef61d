--------------------------------- MODULE Irq ---------------------------------
(* Interrupt handlers and the lines that share them: kernel/irq/irq.c and         *)
(* intctl.c.                                                                      *)
(*                                                                             *)
(* Drivers attach a handler to the line of their source and detach it, on one     *)
(* hart, while the sources raise interrupts on all of them.  Global stands for     *)
(* who uses irq_handler_add: a number that is the same on all harts.              *)
EXTENDS Integers, FiniteSets, FiniteSetsExt

CONSTANTS Harts, Drivers, Global, None,
          Numbers,     \* bound: 0 .. IRQ_TABLE_SIZE - 1
          Source,      \* [Drivers -> the GSI or the message-signalled source of each]
          Exclusive    \* drivers that do not pass INTERRUPT_SHARED

Lines == {Source[d] : d \in Drivers}
Users == Drivers \cup {Global}
Tables == Harts \cup {Global}

NumbersAssumption == Numbers = 0 .. Cardinality(Numbers) - 1

VARIABLES handler,     \* [Tables -> [Numbers -> the line, Global or None]]: hart_tables, and irq_table
          in_flight,   \* the same, of in_flight
          hart_users,  \* [Numbers -> Nat]
          line,        \* [Lines -> what an interrupt_line_t holds, or None]
          actions,     \* [Lines -> the drivers on its list]
          lock,        \* [Lines -> who holds line->lock]
          masked,      \* the sources that are masked
          raised,      \* {<<hart, number>>}: vectors a hart has still to take
          disp,        \* [Harts -> its irq_dispatch]
          line_mutex, irq_table_lock, \* who holds them
          pc, on,      \* [Users -> where it is], and the hart it runs on while it attaches or detaches
          number       \* the number of Global

tableVars == <<handler, in_flight, hart_users>>
lineVars  == <<line, actions, lock, masked>>
lockVars  == <<line_mutex, irq_table_lock>>
vars == <<tableVars, lineVars, raised, disp, lockVars, pc, on, number>>

Quiet == [at |-> "none", number |-> 0, table |-> None, ctxdata |-> None, runs |-> {}]

Init ==
    /\ handler = [t \in Tables |-> [n \in Numbers |-> None]]
    /\ in_flight = [t \in Tables |-> [n \in Numbers |-> 0]]
    /\ hart_users = [n \in Numbers |-> 0]
    /\ line = [l \in Lines |-> None] /\ actions = [l \in Lines |-> {}] /\ lock = [l \in Lines |-> None]
    /\ masked = Lines
    /\ raised = {} /\ disp = [h \in Harts |-> Quiet]
    /\ line_mutex = None /\ irq_table_lock = None
    /\ pc = [u \in Users |-> "idle"]
    /\ on = [u \in Users |-> None]
    /\ number = None

At(u, where) == pc' = [pc EXCEPT ![u] = where]
Leaves(u, where) == At(u, where) /\ on' = [on EXCEPT ![u] = None]

\* A thread runs when no interrupt is on top of it, and with these it keeps interrupts away.
Runs(u) == disp[on[u]].at = "none"
Closed(u) == pc[u] \in {"added", "unhooked", "drain"}

\* Slip: a number that is used by a hart counts as free.
free_everywhere_slip(n) == handler[Global][n] = None

is_free_everywhere(n) == handler[Global][n] = None /\ hart_users[n] = 0
-------------------------------------------------------------------------------
(* Attaching                                                                   *)

\* interrupt_attach, on whatever hart: joins the line of the source, unless one of the two does
\* not share, or has to create it.
Attach(d, h) ==
    LET l == Source[d]
        joins == {d} \cup actions[l]
    IN  /\ pc[d] = "idle" /\ line_mutex = None /\ disp[h].at = "none"
        /\ line[l] # None => joins \cap Exclusive = {}
        /\ on' = [on EXCEPT ![d] = h]
        /\ line_mutex' = d
        /\ At(d, IF line[l] = None THEN "bind" ELSE "add")
        /\ UNCHANGED <<tableVars, lineVars, raised, disp, irq_table_lock, number>>

\* try_hart: irq_handler_add_hart takes the lowest number free for the hart.
Free(h) == {n \in Numbers : handler[Global][n] = None /\ handler[h][n] = None}
LinesOf(h) == Cardinality({l \in Lines : line[l] # None /\ line[l].hart = h})

\* bind_line, the hart with the fewest lines first, and program_line
Bind(d) ==
    LET l == Source[d]
        able == {h \in Harts : Free(h) # {}}
    IN  /\ pc[d] = "bind" /\ Runs(d) /\ irq_table_lock = None
        /\ IF able = {}
           THEN /\ line_mutex' = None /\ Leaves(d, "idle")
                /\ UNCHANGED <<tableVars, line>>
           ELSE \E h \in able :
                  LET n == Min(Free(h))
                  IN  /\ \A g \in able : LinesOf(h) <= LinesOf(g)
                      /\ handler' = [handler EXCEPT ![h][n] = l]
                      /\ hart_users' = [hart_users EXCEPT ![n] = @ + 1]
                      /\ line' = [line EXCEPT ![l] = [hart |-> h, number |-> n]]
                      /\ At(d, "add")
                      /\ UNCHANGED <<in_flight, line_mutex, on>>
        /\ UNCHANGED <<actions, lock, masked, raised, disp, irq_table_lock, number>>

\* add_action
AddAction(d) ==
    LET l == Source[d]
    IN  /\ pc[d] = "add" /\ Runs(d) /\ lock[l] = None
        /\ lock' = [lock EXCEPT ![l] = d]
        /\ actions' = [actions EXCEPT ![l] = @ \cup {d}]
        /\ At(d, "added")
        /\ UNCHANGED <<tableVars, line, masked, raised, disp, lockVars, on, number>>

Unlock(d) ==
    /\ pc[d] = "added"
    /\ lock' = [lock EXCEPT ![Source[d]] = None]
    /\ At(d, "unmask")
    /\ UNCHANGED <<tableVars, line, actions, masked, raised, disp, lockVars, on, number>>

Unmask(d) ==
    /\ pc[d] = "unmask" /\ Runs(d)
    /\ masked' = masked \ {Source[d]}
    /\ line_mutex' = None
    /\ Leaves(d, "attached")
    /\ UNCHANGED <<tableVars, line, actions, lock, raised, disp, irq_table_lock, number>>
-------------------------------------------------------------------------------
(* Detaching                                                                   *)

Detach(d, h) ==
    /\ pc[d] = "attached" /\ line_mutex = None /\ disp[h].at = "none"
    /\ on' = [on EXCEPT ![d] = h]
    /\ line_mutex' = d
    /\ At(d, "unhook")
    /\ UNCHANGED <<tableVars, lineVars, raised, disp, irq_table_lock, number>>

\* interrupt_detach takes the action from the list ...
Unhook(d) ==
    LET l == Source[d]
    IN  /\ pc[d] = "unhook" /\ Runs(d) /\ lock[l] = None
        /\ lock' = [lock EXCEPT ![l] = d]
        /\ actions' = [actions EXCEPT ![l] = @ \ {d}]
        /\ At(d, "unhooked")
        /\ UNCHANGED <<tableVars, line, masked, raised, disp, lockVars, on, number>>

\* ... and destroys the line of the last one: mask_line ...
Unhooked(d) ==
    LET l == Source[d]
    IN  /\ pc[d] = "unhooked"
        /\ lock' = [lock EXCEPT ![l] = None]
        /\ IF actions[l] = {}
           THEN masked' = masked \cup {l} /\ At(d, "release") /\ UNCHANGED <<line_mutex, on>>
           ELSE line_mutex' = None /\ Leaves(d, "idle") /\ UNCHANGED masked
        /\ UNCHANGED <<tableVars, line, actions, raised, disp, irq_table_lock, number>>

\* ... irq_handler_remove_hart and release_nolock, with interrupts disabled ...
ReleaseEntry(d) ==
    LET l == Source[d]
    IN  /\ pc[d] = "release" /\ Runs(d) /\ irq_table_lock = None
        /\ irq_table_lock' = d
        /\ handler' = [handler EXCEPT ![line[l].hart][line[l].number] = None]
        /\ At(d, "drain")
        /\ UNCHANGED <<in_flight, hart_users, lineVars, raised, disp, line_mutex, on, number>>

Freed(d) ==
    LET l == Source[d]
    IN  /\ hart_users' = [hart_users EXCEPT ![line[l].number] = @ - 1]
        /\ line' = [line EXCEPT ![l] = None]
        /\ irq_table_lock' = None /\ line_mutex' = None
        /\ Leaves(d, "idle")

\* Slip: nobody waits for a dispatch that is under way.
FreeLineAtOnce(d) ==
    /\ pc[d] = "drain"
    /\ Freed(d)
    /\ UNCHANGED <<handler, in_flight, actions, lock, masked, raised, disp, number>>

\* ... and kfree once no dispatch is on the entry.
FreeLine(d) ==
    /\ pc[d] = "drain"
    /\ in_flight[line[Source[d]].hart][line[Source[d]].number] = 0
    /\ Freed(d)
    /\ UNCHANGED <<handler, in_flight, actions, lock, masked, raised, disp, number>>
-------------------------------------------------------------------------------
(* Numbers of all harts                                                        *)

\* irq_handler_add: the desired number, or else the highest that is free
HandlerAdd(desired) ==
    LET frees == {n \in Numbers : is_free_everywhere(n)}
    IN  /\ pc[Global] = "idle" /\ irq_table_lock = None /\ frees # {}
        /\ number' = IF desired \in frees THEN desired ELSE Max(frees)
        /\ handler' = [handler EXCEPT ![Global][number'] = Global]
        /\ At(Global, "attached")
        /\ UNCHANGED <<in_flight, hart_users, lineVars, raised, disp, lockVars, on>>

\* irq_handler_remove
HandlerRemove(h) ==
    /\ pc[Global] = "attached" /\ irq_table_lock = None /\ disp[h].at = "none"
    /\ on' = [on EXCEPT ![Global] = h]
    /\ irq_table_lock' = Global
    /\ handler' = [handler EXCEPT ![Global][number] = None]
    /\ At(Global, "drain")
    /\ UNCHANGED <<in_flight, hart_users, lineVars, raised, disp, line_mutex, number>>

HandlerRemoved ==
    /\ pc[Global] = "drain" /\ in_flight[Global][number] = 0
    /\ irq_table_lock' = None
    /\ number' = None
    /\ Leaves(Global, "idle")
    /\ UNCHANGED <<tableVars, lineVars, raised, disp, line_mutex>>
-------------------------------------------------------------------------------
(* Interrupts                                                                  *)

\* A source raises its interrupt, or a hart sends the one of Global to h.
Raise(h, n) ==
    /\ <<h, n>> \notin raised
    /\ \/ \E l \in Lines \ masked : line[l] = [hart |-> h, number |-> n]
       \/ number = n /\ pc[Global] = "attached"
    /\ raised' = raised \cup {<<h, n>>}
    /\ UNCHANGED <<tableVars, lineVars, disp, lockVars, pc, on, number>>

\* irq_dispatch: entry_of ...
Dispatch(h, n) ==
    /\ disp[h].at = "none" /\ <<h, n>> \in raised
    /\ \A u \in Users : on[u] = h => ~Closed(u)
    /\ raised' = raised \ {<<h, n>>}
    /\ disp' = [disp EXCEPT ![h] = [Quiet EXCEPT !.at = "count", !.number = n,
                                                  !.table = IF handler[Global][n] # None THEN Global ELSE h]]
    /\ UNCHANGED <<tableVars, lineVars, lockVars, pc, on, number>>

\* ... in_flight ...
CountIn(h) ==
    /\ disp[h].at = "count"
    /\ in_flight' = [in_flight EXCEPT ![disp[h].table][disp[h].number] = @ + 1]
    /\ disp' = [disp EXCEPT ![h].at = "load"]
    /\ UNCHANGED <<handler, hart_users, lineVars, raised, lockVars, pc, on, number>>

\* ... and the handler, which is dispatch_line unless it is that of Global
Load(h) ==
    LET found == handler[disp[h].table][disp[h].number]
    IN  /\ disp[h].at = "load"
        /\ disp' = [disp EXCEPT ![h].at = IF found = None THEN "out" ELSE IF found = Global THEN "run" ELSE "line",
                                ![h].ctxdata = found,
                                ![h].runs = IF found = Global THEN {Global} ELSE {}]
        /\ UNCHANGED <<tableVars, lineVars, raised, lockVars, pc, on, number>>

\* dispatch_line runs the actions with the lock held.
DispatchLine(h) ==
    LET l == disp[h].ctxdata
    IN  /\ disp[h].at = "line" /\ lock[l] = None
        /\ lock' = [lock EXCEPT ![l] = h]
        /\ disp' = [disp EXCEPT ![h].at = "run", ![h].runs = actions[l]]
        /\ UNCHANGED <<tableVars, line, actions, masked, raised, lockVars, pc, on, number>>

Ran(h) ==
    LET l == disp[h].ctxdata
    IN  /\ disp[h].at = "run"
        /\ lock' = IF l = Global THEN lock ELSE [lock EXCEPT ![l] = None]
        /\ disp' = [disp EXCEPT ![h].at = "out", ![h].runs = {}]
        /\ UNCHANGED <<tableVars, line, actions, masked, raised, lockVars, pc, on, number>>

CountOut(h) ==
    /\ disp[h].at = "out"
    /\ in_flight' = [in_flight EXCEPT ![disp[h].table][disp[h].number] = @ - 1]
    /\ disp' = [disp EXCEPT ![h] = Quiet]
    /\ UNCHANGED <<handler, hart_users, lineVars, raised, lockVars, pc, on, number>>

Next ==
    \/ HandlerRemoved
    \/ \E h \in Harts :
          \/ HandlerRemove(h) \/ CountIn(h) \/ Load(h) \/ DispatchLine(h) \/ Ran(h) \/ CountOut(h)
          \/ \E n \in Numbers : Raise(h, n) \/ Dispatch(h, n)
          \/ \E d \in Drivers : Attach(d, h) \/ Detach(d, h)
    \/ \E n \in Numbers \cup {-1} : HandlerAdd(n)
    \/ \E d \in Drivers : Bind(d) \/ AddAction(d) \/ Unlock(d) \/ Unmask(d) \/ Unhook(d) \/ Unhooked(d)
                            \/ ReleaseEntry(d) \/ FreeLine(d)

Spec == Init /\ [][Next]_vars
-------------------------------------------------------------------------------
TypeOK ==
    /\ handler \in [Tables -> [Numbers -> Lines \cup {Global, None}]]
    /\ in_flight \in [Tables -> [Numbers -> Nat]] /\ hart_users \in [Numbers -> Nat]
    /\ masked \subseteq Lines /\ raised \subseteq Harts \X Numbers

\* interrupt_detach: when it has returned, the handler of the driver does not run and will not
\* until it attaches again, and no dispatch is about to use a line that was freed.
DetachedIsLeft ==
    \A h \in Harts :
        /\ \A u \in disp[h].runs : pc[u] # "idle"
        /\ disp[h].at \in {"line", "run"} /\ disp[h].ctxdata # Global => line[disp[h].ctxdata] # None

\* irq_handler_add, irq_handler_add_hart: hart_users counts the harts that use a number, a number is
\* never used both ways, and what a source may raise finds its line.
NumbersAreOwned ==
    /\ \A n \in Numbers :
        /\ irq_table_lock = None => hart_users[n] = Cardinality({h \in Harts : handler[h][n] # None})
        /\ handler[Global][n] # None => \A h \in Harts : handler[h][n] = None
    /\ \A l \in Lines \ masked : line[l] # None /\ handler[line[l].hart][line[l].number] = l

\* spinlock_acquire_intr: an interrupt never waits for a lock that its own hart holds below it.
NoSpinOnOwnHart ==
    \A h \in Harts :
        disp[h].at = "line" => \A d \in Drivers : lock[disp[h].ctxdata] = d => on[d] # h

==============================================================================
