---------------------------- MODULE DeferralProofs ----------------------------
(* Theorems about Deferral for any sets of deferrals, callers and harts.      *)
EXTENDS Deferral, TLAPS

\* The list after p has no loop.
Simple(p) == \A d \in Chain(p) : d \notin Chain(next[d])

(* The invariant.  That a deferral is in one place only needs a claim to find *)
(* it in none, so the flag tells exactly whether it is in one; that the flag  *)
(* may be cleared needs the rest of the list not to lead back to it, hence    *)
(* Simple; and a push leaves a list only if what it linked to is still the    *)
(* head.                                                                      *)
Placed(d) == \/ d \in Shared
             \/ \E c \in Callers : d \in Pushing(c)
             \/ \E h \in Harts : d \in Taken(h)

FlagIsTrue == \A d \in Deferrals : queued[d] <=> Placed(d)

CallIsLinked ==
    \A c \in Callers : /\ at[c] = "idle" <=> deferral[c] = Null
                       /\ at[c] = "push" => next[deferral[c]] = head[c]

NoLoops ==
    /\ Simple(deferred_head)
    /\ \A h \in Harts : /\ step[h] = "next" => Simple(it[h])
                        /\ step[h] \in {"unqueue", "trigger"} => Simple(following[h])
                        /\ step[h] = "unqueue" => it[h] \notin Chain(following[h])

Inv == TypeOK /\ CallIsLinked /\ NoLoops /\ FlagIsTrue /\ InOnePlace /\ NoneLost

-------------------------------------------------------------------------------
(* What next leads to *)

\* A list holds its first deferral and, with each, the next.
LEMMA FromClosed ==
    ASSUME NullAssumption, NEW to \in [Deferrals -> OrNull], NEW p \in OrNull
    PROVE  /\ From(to, p) \subseteq Deferrals
           /\ Closed(to, From(to, p))
           /\ p # Null => p \in From(to, p)
  BY DEF From, Closed, OrNull, NullAssumption

\* It holds nothing else.
LEMMA FromLeast ==
    ASSUME NEW to \in [Deferrals -> OrNull], NEW p \in OrNull,
           NEW S \in SUBSET Deferrals, p \in S \cup {Null}, Closed(to, S)
    PROVE  From(to, p) \subseteq S
  BY DEF From

\* The null pointer leads nowhere.
LEMMA FromNull ==
    ASSUME NEW to \in [Deferrals -> OrNull]
    PROVE  From(to, Null) = {}
<1>1. Closed(to, {})
  BY DEF Closed
<1> QED BY <1>1, FromLeast DEF OrNull

\* A list is its first deferral and the list after it.
LEMMA FromNext ==
    ASSUME NullAssumption, NEW to \in [Deferrals -> OrNull], NEW p \in Deferrals
    PROVE  From(to, p) = {p} \cup From(to, to[p])
<1>1. to[p] \in OrNull /\ p \in OrNull /\ p # Null
  BY DEF OrNull, NullAssumption
<1> DEFINE S == {p} \cup From(to, to[p])
<1>2. /\ From(to, to[p]) \subseteq Deferrals /\ Closed(to, From(to, to[p]))
      /\ to[p] # Null => to[p] \in From(to, to[p])
  BY <1>1, FromClosed
<1>3. From(to, p) \subseteq S
  <2>1. S \in SUBSET Deferrals /\ Closed(to, S)
    BY <1>1, <1>2 DEF Closed
  <2> HIDE DEF S
  <2>2. p \in S \cup {Null}
    BY DEF S
  <2> QED BY <1>1, <2>1, <2>2, FromLeast
<1>4. From(to, p) \subseteq Deferrals /\ Closed(to, From(to, p)) /\ p \in From(to, p)
  BY <1>1, FromClosed
<1>5. to[p] \in From(to, p) \cup {Null}
  BY <1>4 DEF Closed
<1>6. From(to, to[p]) \subseteq From(to, p)
  BY <1>1, <1>4, <1>5, FromLeast
<1> QED BY <1>3, <1>4, <1>6

\* A list does not change when the next of a deferral outside of it does.
LEMMA FromOther ==
    ASSUME NullAssumption, NEW to \in [Deferrals -> OrNull], NEW p \in OrNull,
           NEW x \in Deferrals, NEW v \in OrNull, x \notin From(to, p)
    PROVE  From([to EXCEPT ![x] = v], p) = From(to, p)
<1> DEFINE new == [to EXCEPT ![x] = v]
<1>1. new \in [Deferrals -> OrNull]
  OBVIOUS
<1>2. \A d \in Deferrals : d # x => new[d] = to[d]
  OBVIOUS
<1> HIDE DEF new
<1>3. From(to, p) \subseteq Deferrals /\ Closed(to, From(to, p)) /\ p \in From(to, p) \cup {Null}
  BY FromClosed
<1>4. Closed(new, From(to, p))
  BY <1>2, <1>3 DEF Closed
<1>5. From(new, p) \subseteq From(to, p)
  BY <1>1, <1>3, <1>4, FromLeast
<1>6. From(new, p) \subseteq Deferrals /\ Closed(new, From(new, p)) /\ p \in From(new, p) \cup {Null}
  BY <1>1, FromClosed
<1>7. Closed(to, From(new, p))
  BY <1>2, <1>5, <1>6 DEF Closed
<1>8. From(to, p) \subseteq From(new, p)
  BY <1>6, <1>7, FromLeast
<1> QED BY <1>5, <1>8 DEF new

\* The list after the first deferral of a list without a loop has none either.
LEMMA SimpleNext ==
    ASSUME NullAssumption, TypeOK, NEW p \in Deferrals, Simple(p)
    PROVE  Simple(next[p]) /\ p \notin Chain(next[p])
<1>1. From(next, p) = {p} \cup From(next, next[p])
  BY FromNext DEF TypeOK
<1> QED BY <1>1 DEF Simple, Chain

\* Nor has a list with one more deferral in front.
LEMMA SimplePush ==
    ASSUME NullAssumption, TypeOK, NEW p \in Deferrals, Simple(next[p]), p \notin Chain(next[p])
    PROVE  Simple(p)
<1>1. From(next, p) = {p} \cup From(next, next[p])
  BY FromNext DEF TypeOK
<1> QED BY <1>1 DEF Simple, Chain

\* A write to the next of a deferral outside of a list leaves the list and its loops alone.
LEMMA SimpleOther ==
    ASSUME NullAssumption, TypeOK, NEW p \in OrNull, NEW x \in Deferrals, NEW v \in OrNull,
           next' = [next EXCEPT ![x] = v], x \notin Chain(p)
    PROVE  /\ From(next', p) = From(next, p)
           /\ Simple(p) => \A d \in From(next', p) : d \notin From(next', next'[d])
<1>1. next \in [Deferrals -> OrNull]
  BY DEF TypeOK
<1>2. From(next', p) = From(next, p)
  BY <1>1, FromOther DEF Chain
<1>3. From(next, p) \subseteq Deferrals /\ Closed(next, From(next, p))
  BY <1>1, FromClosed
<1>4. ASSUME NEW d \in From(next, p)
      PROVE  next'[d] = next[d] /\ From(next', next[d]) = From(next, next[d])
  <2>1. d \in Deferrals /\ d # x /\ next[d] \in From(next, p) \cup {Null} /\ next[d] \in OrNull
    BY <1>1, <1>3, <1>4 DEF Chain, Closed
  <2>2. From(next, next[d]) \subseteq From(next, p)
    BY <1>1, <1>3, <2>1, FromLeast
  <2>3. From(next', next[d]) = From(next, next[d])
    BY <1>1, <2>1, <2>2, FromOther DEF Chain
  <2> QED BY <1>1, <2>1, <2>3
<1> QED BY <1>2, <1>4 DEF Simple, Chain

-------------------------------------------------------------------------------
(* The steps *)

\* The invariant holds before the first call.
LEMMA InitInv == ASSUME NullAssumption, Init PROVE Inv
<1>1. From(next, Null) = {}
  BY FromNull DEF Init, OrNull
<1>2. Shared = {} /\ (\A h \in Harts : Taken(h) = {}) /\ (\A c \in Callers : Pushing(c) = {})
  BY <1>1 DEF Init, Shared, Taken, Pushing, Chain
<1>3. TypeOK /\ CallIsLinked
  BY DEF Init, TypeOK, OrNull, CallIsLinked
<1>4. NoLoops
  BY <1>1 DEF Init, NoLoops, Simple, Chain
<1> QED BY <1>2, <1>3, <1>4 DEF Inv, Init, FlagIsTrue, Placed, InOnePlace, NoneLost

\* Every step keeps the types and what a call knows of the list.
LEMMA TypeStep == ASSUME NullAssumption, Inv, [Next]_vars PROVE TypeOK' /\ CallIsLinked'
<1> USE DEF Inv, TypeOK, CallIsLinked, OrNull, NullAssumption, callVars, runVars
<1>1. CASE UNCHANGED vars
  BY <1>1 DEF vars
<1>2. ASSUME NEW c \in Callers, NEW d \in Deferrals, AlreadyQueued(c, d) \/ Claim(c, d)
      PROVE TypeOK' /\ CallIsLinked'
  <2>1. CASE AlreadyQueued(c, d)
    BY <2>1 DEF AlreadyQueued
  <2>2. CASE Claim(c, d)
    BY <2>2 DEF Claim
  <2> QED BY <1>2, <2>1, <2>2
<1>3. ASSUME NEW c \in Callers, LoadHead(c) \/ Push(c) \/ PushFails(c)
      PROVE TypeOK' /\ CallIsLinked'
  BY <1>3 DEF LoadHead, Push, PushFails
<1>4. ASSUME NEW c \in Callers, Link(c)
      PROVE TypeOK' /\ CallIsLinked'
  <2>1. \A e \in Callers : e # c /\ deferral[e] # Null => deferral[e] # deferral[c]
    BY <1>4 DEF Link, InOnePlace, Pushing
  <2> QED BY <1>4, <2>1 DEF Link
<1>5. ASSUME NEW h \in Harts, TakeDeferred(h) \/ ReadNext(h) \/ Unqueue(h) \/ Trigger(h)
      PROVE TypeOK' /\ CallIsLinked'
  <2>1. CASE TakeDeferred(h)
    BY <2>1 DEF TakeDeferred
  <2>4. CASE Unqueue(h)
    BY <2>4 DEF Unqueue
  <2>2. CASE ReadNext(h)
    BY <2>2 DEF ReadNext
  <2>3. CASE Trigger(h)
    BY <2>3 DEF Trigger, GoOn
  <2> QED BY <1>5, <2>1, <2>2, <2>3, <2>4
<1> QED BY <1>1, <1>2, <1>3, <1>4, <1>5 DEF Next, CallStep, RunDeferred

\* Every step moves at most one deferral, or one whole list, from one place to another.
LEMMA PlacesStep == ASSUME NullAssumption, Inv, [Next]_vars PROVE (NoLoops /\ FlagIsTrue /\ InOnePlace /\ NoneLost)'
<1> USE NullAssumption DEF OrNull
<1>0. TypeOK /\ CallIsLinked /\ NoLoops /\ FlagIsTrue /\ InOnePlace /\ NoneLost /\ TypeOK'
  BY TypeStep DEF Inv
<1>a. next \in [Deferrals -> OrNull] /\ deferred_head \in OrNull
  BY <1>0 DEF TypeOK
<1>b. From(next, Null) = {}
  BY <1>a, FromNull
<1>1. CASE UNCHANGED vars
  BY <1>0, <1>1 DEF vars, callVars, runVars, NoLoops, Simple, FlagIsTrue, Placed, InOnePlace, NoneLost, Shared, Taken,
                    Pushing, Chain
<1>2. ASSUME NEW c \in Callers, NEW d \in Deferrals, AlreadyQueued(c, d)
      PROVE (NoLoops /\ FlagIsTrue /\ InOnePlace /\ NoneLost)'
  <2>1. /\ Shared' = Shared /\ \A h \in Harts : Taken(h)' = Taken(h)
        /\ \A e \in Callers : Pushing(e)' = Pushing(e)
        /\ NoLoops'
    BY <1>0, <1>2 DEF AlreadyQueued, callVars, runVars, Shared, Taken, Pushing, Chain, NoLoops, Simple
  <2>2. queued' = queued /\ owed' = owed \cup {d} /\ step' = step /\ it' = it
    BY <1>2 DEF AlreadyQueued, callVars, runVars
  <2>3. FlagIsTrue' /\ InOnePlace'
    BY <1>0, <2>1, <2>2 DEF FlagIsTrue, Placed, InOnePlace
  <2>4. Placed(d)
    BY <1>0, <1>2 DEF AlreadyQueued, FlagIsTrue
  <2>5. NoneLost'
    BY <1>0, <2>1, <2>2, <2>4 DEF Placed, NoneLost
  <2> QED BY <2>1, <2>3, <2>5
<1>3. ASSUME NEW c \in Callers, NEW d \in Deferrals, Claim(c, d)
      PROVE (NoLoops /\ FlagIsTrue /\ InOnePlace /\ NoneLost)'
  <2>1. /\ Shared' = Shared /\ \A h \in Harts : Taken(h)' = Taken(h)
        /\ \A e \in Callers \ {c} : Pushing(e)' = Pushing(e)
    BY <1>0, <1>3 DEF Claim, runVars, Shared, Taken, Pushing, Chain, TypeOK
  <2>8. NoLoops'
    BY <1>0, <1>3 DEF Claim, runVars, Chain, NoLoops, Simple
  <2>2. Pushing(c)' = {d} /\ Pushing(c) = {}
    BY <1>0, <1>3 DEF NullAssumption, Claim, Pushing, TypeOK, CallIsLinked
  <2>3. queued' = [queued EXCEPT ![d] = TRUE] /\ owed' = owed \cup {d} /\ step' = step /\ it' = it
    BY <1>3 DEF Claim, runVars
  <2>4. ~Placed(d)
    BY <1>0, <1>3 DEF Claim, FlagIsTrue
  <2>5. InOnePlace'
    BY <1>0, <2>1, <2>2, <2>4 DEF Placed, InOnePlace
  <2>6. FlagIsTrue'
    BY <1>0, <2>1, <2>2, <2>3, <2>4 DEF FlagIsTrue, Placed, TypeOK
  <2>7. NoneLost'
    BY <1>0, <2>1, <2>2, <2>3 DEF NoneLost
  <2> QED BY <2>5, <2>6, <2>7, <2>8
<1>4. ASSUME NEW c \in Callers, LoadHead(c) \/ PushFails(c)
      PROVE (NoLoops /\ FlagIsTrue /\ InOnePlace /\ NoneLost)'
  <2>1. /\ Shared' = Shared /\ \A h \in Harts : Taken(h)' = Taken(h)
        /\ \A e \in Callers : Pushing(e)' = Pushing(e)
        /\ NoLoops'
    BY <1>0, <1>4 DEF LoadHead, PushFails, runVars, Shared, Taken, Pushing, Chain, NoLoops, Simple
  <2>2. queued' = queued /\ owed' = owed /\ step' = step /\ it' = it
    BY <1>4 DEF LoadHead, PushFails, runVars
  <2> QED BY <1>0, <2>1, <2>2 DEF FlagIsTrue, Placed, InOnePlace, NoneLost
<1>5. ASSUME NEW c \in Callers, Link(c)
      PROVE (NoLoops /\ FlagIsTrue /\ InOnePlace /\ NoneLost)'
  <2> DEFINE x == deferral[c]
  <2>1. x \in Deferrals /\ head[c] \in OrNull /\ next' = [next EXCEPT ![x] = head[c]] /\ x \in Pushing(c)
    BY <1>0, <1>5 DEF Link, TypeOK, CallIsLinked, Pushing
  <2>2. x \notin Shared /\ \A h \in Harts : x \notin Taken(h)
    BY <1>0, <2>1 DEF InOnePlace
  <2>3. UNCHANGED <<deferred_head, queued, deferral, it, following, step, owed>>
    BY <1>5 DEF Link, runVars
  <2> HIDE DEF x
  <2>4. Shared' = Shared /\ Simple(deferred_head)'
    <3>1. /\ From(next', deferred_head) = From(next, deferred_head)
          /\ Simple(deferred_head) => \A d \in From(next', deferred_head) : d \notin From(next', next'[d])
      BY <1>0, <1>a, <2>1, <2>2, SimpleOther DEF Shared
    <3> QED BY <1>0, <2>3, <3>1 DEF Shared, Chain, NoLoops, Simple
  <2>5. ASSUME NEW h \in Harts
        PROVE  /\ Taken(h)' = Taken(h)
               /\ (step[h] = "next" => Simple(it[h]))'
               /\ (step[h] \in {"unqueue", "trigger"} => Simple(following[h]))'
               /\ (step[h] = "unqueue" => it[h] \notin Chain(following[h]))'
    <3>1. it[h] \in OrNull /\ following[h] \in OrNull
      BY <1>0 DEF TypeOK
    <3>2. CASE step[h] = "idle"
      BY <2>3, <3>2 DEF Taken
    <3>3. CASE step[h] = "next"
      <4>1. /\ From(next', it[h]) = From(next, it[h])
            /\ Simple(it[h]) => \A d \in From(next', it[h]) : d \notin From(next', next'[d])
        BY <1>0, <2>1, <2>2, <3>1, <3>3, SimpleOther DEF Taken
      <4> QED BY <1>0, <2>3, <3>3, <4>1 DEF Taken, Chain, NoLoops, Simple
    <3>4. CASE step[h] \in {"unqueue", "trigger"}
      <4>1. /\ From(next', following[h]) = From(next, following[h])
            /\ Simple(following[h]) => \A d \in From(next', following[h]) : d \notin From(next', next'[d])
        BY <1>0, <2>1, <2>2, <3>1, <3>4, SimpleOther DEF Taken
      <4> QED BY <1>0, <2>3, <3>4, <4>1 DEF Taken, Chain, NoLoops, Simple
    <3> QED BY <1>0, <3>2, <3>3, <3>4 DEF TypeOK
  <2>6. \A e \in Callers : Pushing(e)' = Pushing(e)
    BY <2>3 DEF Pushing
  <2>7. NoLoops'
    BY <2>4, <2>5 DEF NoLoops
  <2> QED BY <1>0, <2>3, <2>4, <2>5, <2>6, <2>7 DEF FlagIsTrue, Placed, InOnePlace, NoneLost
<1>6. ASSUME NEW c \in Callers, Push(c)
      PROVE (NoLoops /\ FlagIsTrue /\ InOnePlace /\ NoneLost)'
  <2> DEFINE x == deferral[c]
  <2>1. x \in Deferrals /\ next[x] = deferred_head /\ deferred_head' = x /\ Pushing(c) = {x} /\ Pushing(c)' = {}
    BY <1>0, <1>6 DEF Push, TypeOK, CallIsLinked, Pushing
  <2>2. x \notin Shared
    BY <1>0, <2>1 DEF InOnePlace
  <2>3. UNCHANGED <<queued, next, it, following, step, owed>>
    BY <1>6 DEF Push, runVars
  <2>4. \A e \in Callers \ {c} : Pushing(e)' = Pushing(e)
    BY <1>0, <1>6 DEF Push, Pushing, TypeOK
  <2>5. Shared' = Shared \cup {x}
    <3>1. From(next, x) = {x} \cup From(next, next[x])
      BY <1>a, <2>1, FromNext
    <3> QED BY <2>1, <2>3, <3>1 DEF Shared, Chain
  <2>6. \A h \in Harts : Taken(h)' = Taken(h)
    BY <2>3 DEF Taken, Chain
  <2> HIDE DEF x
  <2>7. NoLoops'
    <3>1. Simple(next[x]) /\ x \notin Chain(next[x])
      BY <1>0, <2>1, <2>2 DEF NoLoops, Shared
    <3>2. Simple(x)
      BY <1>0, <2>1, <3>1, SimplePush
    <3> QED BY <1>0, <2>1, <2>3, <3>2 DEF NoLoops, Simple, Chain
  <2>8. InOnePlace'
    BY <1>0, <2>1, <2>2, <2>4, <2>5, <2>6 DEF InOnePlace
  <2>9. FlagIsTrue' /\ NoneLost'
    BY <1>0, <2>1, <2>3, <2>4, <2>5, <2>6 DEF FlagIsTrue, Placed, NoneLost
  <2> QED BY <2>7, <2>8, <2>9
<1>7. ASSUME NEW h \in Harts, TakeDeferred(h)
      PROVE (NoLoops /\ FlagIsTrue /\ InOnePlace /\ NoneLost)'
  <2>1. UNCHANGED <<queued, next, at, deferral, head, following, owed>> /\ deferred_head' = Null
    BY <1>7 DEF TakeDeferred, callVars
  <2>2. Shared' = {} /\ \A e \in Callers : Pushing(e)' = Pushing(e)
    BY <1>b, <2>1 DEF Shared, Chain, Pushing
  <2>3. Taken(h) = {} /\ Taken(h)' = Shared /\ step[h] = "idle"
    BY <1>0, <1>7 DEF TakeDeferred, Taken, Shared, Chain, TypeOK
  <2>4. \A g \in Harts \ {h} : Taken(g)' = Taken(g) /\ step'[g] = step[g] /\ it'[g] = it[g]
    BY <1>0, <1>7 DEF TakeDeferred, Taken, Chain, TypeOK
  <2>5. NoLoops'
    BY <1>0, <1>7, <1>b DEF TakeDeferred, NoLoops, Simple, Chain, TypeOK
  <2>6. InOnePlace'
    BY <1>0, <2>2, <2>3, <2>4 DEF InOnePlace
  <2>7. FlagIsTrue' /\ NoneLost'
    BY <1>0, <2>1, <2>2, <2>3, <2>4 DEF FlagIsTrue, Placed, NoneLost
  <2> QED BY <2>5, <2>6, <2>7
<1>8. ASSUME NEW h \in Harts, ReadNext(h)
      PROVE (NoLoops /\ FlagIsTrue /\ InOnePlace /\ NoneLost)'
  <2> DEFINE x == it[h]
  <2>1. x \in Deferrals /\ UNCHANGED <<deferred_head, queued, next, at, deferral, head, it, owed>>
    BY <1>0, <1>8 DEF ReadNext, callVars, TypeOK
  <2>2. Simple(next[x]) /\ x \notin Chain(next[x])
    BY <1>0, <1>8, <2>1, SimpleNext DEF ReadNext, NoLoops
  <2>3. From(next, x) = {x} \cup From(next, next[x])
    BY <1>a, <2>1, FromNext
  <2>4. Shared' = Shared /\ \A e \in Callers : Pushing(e)' = Pushing(e)
    BY <2>1 DEF Shared, Chain, Pushing
  <2>5. \A g \in Harts : Taken(g)' = Taken(g)
    <3>1. \A g \in Harts \ {h} : Taken(g)' = Taken(g)
      BY <1>0, <1>8 DEF ReadNext, Taken, Chain, TypeOK
    <3>2. Taken(h)' = Taken(h)
      BY <1>0, <1>8, <2>3 DEF ReadNext, Taken, Chain, TypeOK
    <3> QED BY <3>1, <3>2
  <2>6. NoLoops'
    BY <1>0, <1>8, <2>1, <2>2 DEF ReadNext, NoLoops, Simple, Chain, TypeOK
  <2>7. \A g \in Harts : step[g] = "trigger" => step'[g] = "trigger"
    BY <1>0, <1>8 DEF ReadNext, TypeOK
  <2>8. InOnePlace' /\ FlagIsTrue'
    BY <1>0, <2>1, <2>4, <2>5 DEF FlagIsTrue, Placed, InOnePlace
  <2>9. NoneLost'
    BY <1>0, <2>1, <2>4, <2>5, <2>7 DEF NoneLost
  <2> QED BY <2>6, <2>8, <2>9
<1>9. ASSUME NEW h \in Harts, Unqueue(h)
      PROVE (NoLoops /\ FlagIsTrue /\ InOnePlace /\ NoneLost)'
  <2> DEFINE x == it[h]
  <2>1. /\ x \in Deferrals /\ queued' = [queued EXCEPT ![x] = FALSE]
        /\ UNCHANGED <<deferred_head, next, at, deferral, head, it, following, owed>>
    BY <1>0, <1>9 DEF Unqueue, callVars, TypeOK
  <2>2. Shared' = Shared /\ \A e \in Callers : Pushing(e)' = Pushing(e)
    BY <2>1 DEF Shared, Chain, Pushing
  <2>3. \A g \in Harts \ {h} : Taken(g)' = Taken(g) /\ step'[g] = step[g]
    BY <1>0, <1>9 DEF Unqueue, Taken, Chain, TypeOK
  <2>4. x \in Taken(h) /\ Taken(h)' = Taken(h) \ {x} /\ step[h] = "unqueue" /\ step'[h] = "trigger"
    BY <1>0, <1>9 DEF Unqueue, Taken, Chain, NoLoops, TypeOK
  <2>5. NoLoops'
    BY <1>0, <1>9 DEF Unqueue, NoLoops, Simple, Chain, TypeOK
  <2> HIDE DEF x
  <2>6. InOnePlace'
    BY <1>0, <2>2, <2>3, <2>4 DEF InOnePlace
  <2>7. x \notin Shared /\ (\A e \in Callers : x \notin Pushing(e)) /\ \A g \in Harts \ {h} : x \notin Taken(g)
    BY <1>0, <2>4 DEF InOnePlace
  <2>8. FlagIsTrue'
    BY <1>0, <2>1, <2>2, <2>3, <2>4, <2>7 DEF FlagIsTrue, Placed, TypeOK
  <2>9. NoneLost'
    BY <1>0, <2>1, <2>2, <2>3, <2>4 DEF NoneLost, x
  <2> QED BY <2>5, <2>6, <2>8, <2>9
<1>10. ASSUME NEW h \in Harts, Trigger(h)
      PROVE (NoLoops /\ FlagIsTrue /\ InOnePlace /\ NoneLost)'
  <2>1. /\ UNCHANGED <<deferred_head, queued, next, at, deferral, head>>
        /\ owed' = owed \ {it[h]} /\ step[h] = "trigger"
    BY <1>10 DEF Trigger, callVars
  <2>2. Shared' = Shared /\ \A e \in Callers : Pushing(e)' = Pushing(e)
    BY <2>1 DEF Shared, Chain, Pushing
  <2>3. \A g \in Harts \ {h} : Taken(g)' = Taken(g) /\ step'[g] = step[g] /\ it'[g] = it[g]
    BY <1>0, <1>10 DEF Trigger, GoOn, Taken, Chain, TypeOK
  <2>4. Taken(h)' = Taken(h)
    BY <1>0, <1>10, <1>b DEF Trigger, GoOn, Taken, Chain, TypeOK
  <2>5. NoLoops'
    BY <1>0, <1>10 DEF Trigger, GoOn, NoLoops, Simple, Chain, TypeOK
  <2>6. InOnePlace' /\ FlagIsTrue'
    BY <1>0, <2>1, <2>2, <2>3, <2>4 DEF FlagIsTrue, Placed, InOnePlace
  <2>7. NoneLost'
    BY <1>0, <2>1, <2>2, <2>3, <2>4 DEF NoneLost
  <2> QED BY <2>5, <2>6, <2>7
<1> QED BY <1>1, <1>2, <1>3, <1>4, <1>5, <1>6, <1>7, <1>8, <1>9, <1>10 DEF Next, CallStep, RunDeferred

-------------------------------------------------------------------------------
\* Inv holds in every reachable state.
THEOREM Invariance == NullAssumption => (Spec => []Inv)
<1> SUFFICES ASSUME NullAssumption PROVE Spec => []Inv
  OBVIOUS
<1>1. Init => Inv
  BY InitInv
<1>2. Inv /\ [Next]_vars => Inv'
  BY TypeStep, PlacesStep DEF Inv
<1> QED BY <1>1, <1>2, PTL DEF Spec

\* event_trigger_deferred and event_run_deferred never have one deferral in two lists, or in a list
\* and in the hands of a caller, so no two of them write its next, unqueue or trigger it at once; and
\* a deferral that was called since its last trigger is on its way to another one, whatever pushes,
\* takes and runs came between.
THEOREM DeferralsAreKept == NullAssumption => (Spec => [](InOnePlace /\ NoneLost))
<1>1. Inv => InOnePlace /\ NoneLost
  BY DEF Inv
<1> QED BY <1>1, Invariance, PTL
===============================================================================
