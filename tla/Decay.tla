-------------------------------- MODULE Decay --------------------------------
(***************************************************************************)
(* Item decay (items/decay/decay.cpp) with the life of an Item around it:  *)
(* reference counts and Game::cleanup(), removal and transformation        *)
(* (game.cpp), items worn and taken off.  Everything runs on the           *)
(* dispatcher thread; the scheduler hands Decay::checkDecay() over when an *)
(* event is due, perhaps late.  The handlers are operators on a record of  *)
(* the state, because checkDecay() runs a list of them in one task.        *)
(***************************************************************************)
EXTENDS Integers, Sequences, FiniteSets, FiniteSetsExt, SequencesExt

CONSTANTS Perishables,  \* the items
          Worn,         \* those that decay only while worn ("stopTime")
          OnMap, Removed, \* parents that are no items: a tile or player; nullptr
          FirstParents, \* where the items may be at first: OnMap, a container
                        \* on the map, Removed if there is no such item
          Lifetime,     \* decayTime of the types an item goes through
          Stages,       \* through how many types it goes before it vanishes
          Scripted,     \* those that scripts work on
          NewDurations, \* what a script may set a duration to
          EventSlots,   \* bound on the events pending at once: 1..n
          MaxReleases,  \* bound on the references that wait for cleanup()
          MaxNow        \* bound on the clock, in scheduler ticks

ASSUME DecayAssumption ==
    /\ Worn \cup Scripted \subseteq Perishables /\ {OnMap, Removed} \cap Perishables = {}
    /\ OnMap # Removed /\ IsFiniteSet(Perishables)
    /\ FirstParents \subseteq [Perishables -> Perishables \cup {OnMap, Removed}]
    /\ \A first \in FirstParents, i \in Perishables : first[i] \in Perishables => first[first[i]] = OnMap
    /\ Lifetime \in [Perishables -> Nat \ {0}] /\ Stages \in [Perishables -> Nat \ {0}]
    /\ NewDurations \subseteq Nat /\ EventSlots \subseteq Nat \ {0} /\ {MaxReleases, MaxNow} \subseteq Nat

VARIABLES decay, \* the state the handlers work on, see DecayState
          now    \* OTSYS_TIME()

decayVars == <<decay, now>>

Times == Nat
None == -1      \* an attribute that is not there
Plain == -1     \* stage of an item whose type does not decay (any more)

DecayState ==
    [decayMap : SUBSET (Times \X Perishables), \* Decay::decayMap, as pairs
     eventId : EventSlots \cup {0},            \* Decay::eventId, 0: of no pending event
     events : [EventSlots -> Times],           \* when pending events are due, 0: none
     state : [Perishables -> {"absent", "false", "true", "pending", "stopping"}],
     duration : [Perishables -> Times],        \* ITEM_ATTRIBUTE_DURATION
     stamp : [Perishables -> Times \cup {None}], \* ITEM_ATTRIBUTE_DURATION_TIMESTAMP
     stage : [Perishables -> Int],             \* how many types are still to come
     parent : [Perishables -> Perishables \cup {OnMap, Removed}],
     worn : SUBSET Worn,
     refs : [Perishables -> Nat],              \* referenceCounter, 0: deleted
     toRelease : [Perishables -> Nat],         \* Game::ToReleaseItems
     erased : SUBSET Times,  \* keys erased from decayMap since checkDecay() began
     dangling : BOOLEAN,     \* checkDecay() has read through an erased key
     full : BOOLEAN,         \* the bound on events was reached
     owed : [Perishables -> Times]] \* how long an item still has to decay

DecayTypeOK == decay \in DecayState /\ now \in 0..MaxNow

DecayInit ==
    /\ now = 0
    /\ \E first \in FirstParents :
          LET IfThere(f, v) == [i \in Perishables |-> IF first[i] = Removed THEN v ELSE f[i]]
          IN  decay = [decayMap |-> {}, eventId |-> 0,
                       events |-> [e \in EventSlots |-> 0],
                       state |-> [i \in Perishables |-> "absent"],
                       duration |-> IfThere(Lifetime, 0),
                       stamp |-> [i \in Perishables |-> None],
                       stage |-> IfThere(Stages, 0),
                       parent |-> first,
                       worn |-> {},
                       refs |-> IfThere([i \in Perishables |-> 1], 0),
                       toRelease |-> [i \in Perishables |-> 0],
                       erased |-> {}, dangling |-> FALSE, full |-> FALSE,
                       owed |-> IfThere(Lifetime, 0)]

-----------------------------------------------------------------------------
(* Item and Game.                                                          *)

isRemoved(s, i) ==
    \/ s.parent[i] = Removed
    \/ s.parent[i] \in Perishables /\ s.parent[s.parent[i]] = Removed

canDecay(s, i) ==
    /\ ~isRemoved(s, i)
    /\ s.stage[i] # Plain
    /\ i \in Worn => i \in s.worn

getDuration(s, i) ==
    IF s.state[i] \in {"true", "stopping"}
    THEN Max({0, (IF s.stamp[i] = None THEN 0 ELSE s.stamp[i]) - now})
    ELSE s.duration[i]

ReleaseItem(s, i) == [s EXCEPT !.toRelease[i] = @ + 1]

Contents(s, i) == {j \in Perishables : s.parent[j] = i}

\* Handler(s, i) for every item of a set, in some order.
ForEach(Handler(_, _), s, S) == FoldLeft(Handler, s, SetToSeq(S))

-----------------------------------------------------------------------------
(* The scheduler's side: only what Decay sees of it.                       *)

addEvent(s, t) ==
    LET free == {e \in EventSlots : s.events[e] = 0}
        e    == Min(free)
    IN  IF free = {} THEN [s EXCEPT !.full = TRUE]
        ELSE [s EXCEPT !.events[e] = t, !.eventId = e]

stopEvent(s) ==
    IF s.eventId = 0 THEN s ELSE [s EXCEPT !.events[s.eventId] = 0]

-----------------------------------------------------------------------------
(* Decay::stopDecay() and Decay::startDecay().                             *)

FirstKey(map) == Min({x[1] : x \in map})

\* The item is found in decayMap: the remaining time is kept in the item.
Unlisted(s, i) ==
    LET rest == s.decayMap \ {<<s.stamp[i], i>>}
        s1   == [s EXCEPT !.duration[i] = IF s.stage[i] = Plain THEN @ ELSE getDuration(s, i),
                          !.state[i] = "absent",
                          !.decayMap = rest,
                          !.erased = IF \E x \in rest : x[1] = s.stamp[i]
                                     THEN @ ELSE @ \cup {s.stamp[i]}]
    IN  ReleaseItem(s1, i)

stopDecay(s, i) ==
    LET others == {x \in s.decayMap : x[1] = s.stamp[i]}
    IN  CASE s.state[i] = "absent" -> s
          [] s.state[i] # "absent" /\ s.stamp[i] = None -> [s EXCEPT !.state[i] = "absent"]
          [] s.state[i] # "absent" /\ <<s.stamp[i], i>> \in s.decayMap -> Unlisted(s, i)
          [] OTHER -> IF Cardinality(others) = 1 THEN s ELSE [s EXCEPT !.stamp[i] = None]

\* Fault: only the first item of an empty map gets an event.
ScheduledOnce(s, t) == IF s.decayMap = {} THEN addEvent(s, t) ELSE s

\* An event for the new timestamp, if it is the earliest.
Scheduled(s, t) ==
    CASE s.decayMap = {} -> addEvent(s, t)
      [] s.decayMap # {} /\ t < FirstKey(s.decayMap) -> addEvent(stopEvent(s), t)
      [] OTHER -> s

Listed(s, i, t) ==
    [s EXCEPT !.refs[i] = @ + 1, !.state[i] = "true", !.stamp[i] = t,
              !.decayMap = @ \cup {<<t, i>>}]

\* The last part of startDecay(), for a duration above 0.
beginDecay(s, i) ==
    LET t  == now + s.duration[i]
        s1 == IF s.stamp[i] # None THEN stopDecay(s, i) ELSE s
    IN  Listed(Scheduled(s1, t), i, t)

\* startDecay() of an item in a container.  Its other branches have no item to
\* work on there: one whose time had run out went when it was put there or its
\* time was set, DECAYING_STOPPING lasts from setID() to the startDecaying() of
\* the same task, and what is in decayMap can decay.
startInside(s, i) ==
    IF canDecay(s, i) /\ s.state[i] # "true" /\ s.duration[i] > 0 THEN beginDecay(s, i) ELSE s

\* Container::stopDecaying()
stopDecaying(s, i) == ForEach(stopDecay, stopDecay(s, i), Contents(s, i))

\* Game::internalRemoveItem()
internalRemoveItem(s, i) ==
    LET s1 == [s EXCEPT !.parent[i] = Removed, !.worn = @ \ {i}]
    IN  ReleaseItem(stopDecaying(s1, i), i)

\* internalDecayItem(): the item becomes one of the next type - transformItem()
\* and Item::setID() with a fresh duration, then startDecaying() - or vanishes.
\* The next type is of the same kind (a container stays one, nothing becomes
\* stackable), so that the item is kept and not replaced by a new one.  What the
\* holder loses by it is in Conditions (Decays).
internalDecayItem(s, i) ==
    LET next == [s EXCEPT !.stage[i] = @ - 1, !.state[i] = "pending",
                          !.duration[i] = Lifetime[i], !.owed[i] = Lifetime[i]]
    IN  IF s.stage[i] > 1
        THEN ForEach(startInside, beginDecay(next, i), Contents(next, i))
        ELSE internalRemoveItem([s EXCEPT !.stage[i] = 0], i)

startDecay(s, i) ==
    CASE s.state[i] = "stopping" \/ (~canDecay(s, i) /\ s.state[i] = "true") -> stopDecay(s, i)
      [] s.state[i] # "stopping" /\ canDecay(s, i) /\ s.state[i] # "true" ->
            IF s.duration[i] = 0 THEN internalDecayItem(s, i) ELSE beginDecay(s, i)
      [] OTHER -> s

\* Item::startDecaying(), Container::startDecaying()
startDecaying(s, i) == ForEach(startInside, startDecay(s, i), Contents(s, i))

-----------------------------------------------------------------------------
(* Decay::checkDecay().                                                    *)

decayOne(s, i) ==
    LET s1 == IF canDecay(s, i)
              THEN internalDecayItem([s EXCEPT !.state[i] = "false", !.stamp[i] = None], i)
              ELSE [s EXCEPT !.duration[i] = getDuration(s, i),
                             !.state[i] = "false", !.stamp[i] = None]
    IN  ReleaseItem(s1, i)

\* Fault: entries are taken a tick too early.
DueSoon(t) == t <= now + 1

Due(t) == t <= now

\* The copies of the due items in the order of their timestamps; the order of
\* those of one timestamp is left open.
TempItems(s) ==
    {q \in SetToSeqs({x \in s.decayMap : Due(x[1])}) :
        \A a, b \in DOMAIN q : a < b => q[a][1] <= q[b][1]}

\* The event of the next entry.  Iterator "it" was set before the items were
\* decayed: if its entry has been erased since, it->first is whatever is left
\* in the freed node.
Rescheduled(s, later) ==
    IF later = {} THEN {s}
    ELSE LET it == FirstKey(later)
         IN  IF it \notin s.erased THEN {addEvent(s, it)}
             ELSE {addEvent([s EXCEPT !.dangling = TRUE], t) : t \in now + 1..MaxNow + 1}

-----------------------------------------------------------------------------
(* Actions.                                                                *)

\* A handler ends in state s, within the bounds.  What a deleted item held is
\* forgotten.
Becomes(s) ==
    LET gone == {i \in Perishables : s.refs[i] = 0}
        Forget(f, v) == [i \in Perishables |-> IF i \in gone THEN v ELSE f[i]]
    IN  /\ ~s.full /\ MapThenSumSet(LAMBDA i : s.toRelease[i], Perishables) <= MaxReleases
        /\ decay' = [s EXCEPT !.erased = {}, !.state = Forget(@, "absent"),
                              !.duration = Forget(@, 0), !.stamp = Forget(@, None),
                              !.stage = Forget(@, 0), !.owed = Forget(@, 0),
                              !.parent = Forget(@, Removed)]
        /\ UNCHANGED now

There(i) == decay.refs[i] > 0 /\ ~isRemoved(decay, i)

CheckDecay(e) ==
    /\ decay.events[e] # 0 /\ decay.events[e] <= now
    /\ \E q \in TempItems(decay) :
          LET items == [k \in DOMAIN q |-> q[k][2]]
              later == {x \in decay.decayMap : ~Due(x[1])}
              s0    == [decay EXCEPT !.decayMap = later, !.events[e] = 0,
                                   !.eventId = IF @ = e THEN 0 ELSE @]
          IN  \E s \in Rescheduled(FoldLeft(decayOne, s0, items), later) : Becomes(s)

\* The item is moved or was just created: moveItem->startDecaying().  Items that
\* decay are not stackable here, so the moved item is the item itself.
PutSomewhere(i) == There(i) /\ Becomes(startDecaying(decay, i))

\* Somebody takes the item out of its container.
TakeOut(i) ==
    /\ There(i) /\ decay.parent[i] # OnMap
    /\ Becomes(startDecaying([decay EXCEPT !.parent[i] = OnMap], i))

\* The item is used up.
UseUp(i) == There(i) /\ Becomes(internalRemoveItem(decay, i))

\* Equipment: transformItem() to and from the type that decays; setID() keeps
\* the duration, startDecaying() follows.
PutOn(i) ==
    /\ There(i) /\ i \in Worn \ decay.worn
    /\ Becomes(startDecaying([decay EXCEPT !.worn = @ \cup {i}], i))

TakeOff(i) ==
    /\ There(i) /\ i \in decay.worn
    /\ Becomes(startDecaying([decay EXCEPT !.worn = @ \ {i}], i))

\* A script transforms the item into one that does not decay: setID().
TransformToPlain(i) ==
    /\ There(i) /\ decay.stage[i] > 0 /\ i \in Scripted
    /\ Becomes(startDecaying([decay EXCEPT !.stage[i] = Plain,
                 !.state[i] = IF @ = "absent" THEN @ ELSE "stopping"], i))

\* item:setAttribute("duration", d)
SetDuration(i, d) ==
    /\ There(i) /\ i \in Scripted
    /\ Becomes(startDecay([decay EXCEPT !.state[i] = "pending", !.duration[i] = d,
                                        !.owed[i] = d], i))

\* Game::cleanup(), at the end of some task; the destructor of a container
\* gives up its contents.
Cleanup ==
    LET left(i) == decay.refs[i] - decay.toRelease[i]
        after(i) == IF decay.parent[i] \in Perishables /\ decay.refs[decay.parent[i]] > 0
                       /\ left(decay.parent[i]) = 0
                    THEN left(i) - 1 ELSE left(i)
    IN  /\ \E i \in Perishables : decay.toRelease[i] > 0
        /\ Becomes([decay EXCEPT !.refs = [i \in Perishables |-> Max({0, after(i)})],
                                 !.toRelease = [i \in Perishables |-> 0]])

\* The clock; an item that is in decayMap ages.
Tick ==
    /\ now < MaxNow
    /\ now' = now + 1
    /\ decay' = [decay EXCEPT !.owed = [i \in Perishables |->
                    IF \E x \in decay.decayMap : x[2] = i THEN Max({0, @[i] - 1}) ELSE @[i]]]

DecayNext ==
    \/ \E e \in EventSlots : CheckDecay(e)
    \/ \E i \in Perishables :
          PutSomewhere(i) \/ TakeOut(i) \/ UseUp(i) \/ PutOn(i) \/ TakeOff(i) \/ TransformToPlain(i)
    \/ \E i \in Perishables, d \in NewDurations : SetDuration(i, d)
    \/ Cleanup
    \/ Tick

DecaySpec == DecayInit /\ [][DecayNext]_decayVars

-----------------------------------------------------------------------------
(* Properties.                                                             *)

\* No item waits in decayMap without an event that will come in time for the
\* first of them, however starts, stops, removals and transformations inside
\* checkDecay() overwrite eventId - unless checkDecay() read its iterator
\* after the entry had been erased.
DecayScheduled ==
    decay.decayMap # {} /\ ~decay.dangling =>
        \E e \in EventSlots : decay.events[e] \in 1..FirstKey(decay.decayMap)

\* decayMap, the items' attributes and the reference counts agree: who is in
\* the map is there once, under its timestamp, alive and counted; the count is
\* exact, so that an item is deleted when, and only when, nobody has it.
DecayRefsExact ==
    /\ DecayTypeOK
    /\ \A x \in decay.decayMap : decay.state[x[2]] = "true" /\ decay.stamp[x[2]] = x[1]
    /\ \A i \in Perishables :
          LET linked == \/ decay.parent[i] = OnMap
                        \/ decay.parent[i] \in Perishables /\ decay.refs[decay.parent[i]] > 0
              listed == \E x \in decay.decayMap : x[2] = i
          IN  decay.refs[i] = decay.toRelease[i] + (IF linked THEN 1 ELSE 0)
                                                 + (IF listed THEN 1 ELSE 0)

\* decayMap is served by an event in time, and agrees with the attributes and
\* reference counts of the items, whatever is started, stopped and removed
\* inside of checkDecay().
DecayConsistent == DecayScheduled /\ DecayRefsExact

\* An item changes or vanishes by decay only when it has spent its whole time
\* decaying, or a script ends it (SetDuration); being taken off and put on
\* again, moved, or restarted by a script never shortens it.
DecayNeverEarly ==
    [][\A i \in Perishables :
          decay'.stage[i] # decay.stage[i] /\ decay'.stage[i] # Plain
          => decay.owed[i] = 0 \/ decay'.refs[i] = 0 \/ SetDuration(i, 0)]_decayVars

\* Decay is neither forgotten nor early, and leaks nothing (Decay::startDecay,
\* stopDecay, checkDecay and the items that come and go meanwhile).
DecaySound == []DecayConsistent /\ DecayNeverEarly
=============================================================================
