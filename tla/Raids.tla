-------------------------------- MODULE Raids --------------------------------
(***************************************************************************)
(* Raids (lua/creature/raids.cpp): a check once a minute starts at most    *)
(* one of them, a started one goes through its events, each a task of the  *)
(* scheduler that arms the next.  Everything runs on the dispatcher; what  *)
(* interleaves are the timers, the tasks they have handed over (which      *)
(* stopEvent() does not reach any more), a script that starts a raid and a *)
(* reload of the raids (SIGHUP or a command), which deletes them.          *)
(* Delays, margins and the dice of the check are choices.                  *)
(***************************************************************************)
EXTENDS Integers, Sequences, FiniteSets

CONSTANTS RaidNames,    \* raids of raids.xml
          RaidEvents,   \* how many events each has: raidEvents.size()
          Repeatable,   \* those with repeat="yes"
          NoRaid,       \* null pointer
          CheckTask,    \* what a task of checkRaids() is of
          MaxReloads, MaxRaidTasks  \* bounds

\* A Raid object: its name and the load that has made it.
RaidObjects == RaidNames \X (0..MaxReloads)

ASSUME RaidsAssumption ==
    /\ RaidEvents \in [RaidNames -> Nat] /\ Repeatable \subseteq RaidNames
    /\ NoRaid \notin RaidObjects /\ CheckTask \notin RaidObjects
    /\ MaxReloads \in Nat /\ MaxRaidTasks \in Nat \ {0}

VARIABLES raidList, raidsDeleted,  \* objects in the list, and deleted ones
          nextEvent,               \* of every object
          raidRunning,             \* Raids::running
          raidsStarted,            \* loaded and started
          raidTimers,              \* how many tasks of a kind the scheduler has
          raidQueue,               \* whose tasks the dispatcher has
          raidLoads,               \* reloads so far
          raidOrphaned,            \* a reload has left a task behind
          raidUndefined            \* a task has run on a deleted object

raidVars == <<raidList, raidsDeleted, nextEvent, raidRunning, raidsStarted,
              raidTimers, raidQueue, raidLoads, raidOrphaned, raidUndefined>>

RaidTaskOwners == RaidObjects \cup {CheckTask}

\* latest: its id is the one in nextEventEvent or checkRaidsEvent; stale: it is not
RaidTask == [of : RaidTaskOwners, id : {"latest", "stale"}]
TaskOf(what, id) == [of |-> what, id |-> id]

RaidTypeOK ==
    /\ raidList \subseteq RaidObjects /\ raidsDeleted \subseteq RaidObjects
    /\ \A r \in RaidObjects : nextEvent[r] \in 0..RaidEvents[r[1]]
    /\ raidRunning \in (RaidObjects \ raidsDeleted) \cup {NoRaid}
    /\ raidTimers \in [RaidTask -> Nat] /\ raidQueue \in Seq(RaidTaskOwners)
    /\ {raidsStarted, raidOrphaned, raidUndefined} \subseteq BOOLEAN
    /\ raidLoads \in 0..MaxReloads

LoadedRaids(n) == RaidNames \X {n}

RaidInit ==
    /\ raidList = LoadedRaids(0) /\ raidsDeleted = {}
    /\ nextEvent = [r \in RaidObjects |-> 0]
    /\ raidRunning = NoRaid /\ raidsStarted = TRUE
    /\ raidTimers = [t \in RaidTask |-> IF t = TaskOf(CheckTask, "latest") THEN 1 ELSE 0]
    /\ raidQueue = <<>>
    /\ raidLoads = 0 /\ raidOrphaned = FALSE /\ raidUndefined = FALSE

-----------------------------------------------------------------------------
(* Helpers. *)

\* addEvent(): the new id replaces the one that was remembered.
Armed(timers, what) ==
    [timers EXCEPT ![TaskOf(what, "stale")] = @ + timers[TaskOf(what, "latest")],
                   ![TaskOf(what, "latest")] = 1]

\* stopEvent() of the ids remembered for these; clear() forgets the others.
Stopped(timers, what) ==
    [t \in RaidTask |-> IF t.of \in what /\ t.id = "latest" THEN 0 ELSE timers[t]]

\* startRaid(): a raid without events arms nothing.
StartedRaid(timers, r) ==
    IF nextEvent[r] < RaidEvents[r[1]] THEN Armed(timers, r) ELSE timers

\* How many tasks there are of the check, or of a raid.
QueuedTasks(what) == Cardinality({i \in DOMAIN raidQueue : raidQueue[i] = what})
Chains(what) == raidTimers[TaskOf(what, "latest")] + raidTimers[TaskOf(what, "stale")] + QueuedTasks(what)

\* The bound is on all tasks together.
FewTasks ==
    Cardinality({m \in RaidTask \X (1..MaxRaidTasks + 1) : m[2] <= raidTimers[m[1]]}) + Len(raidQueue)
        <= MaxRaidTasks

-----------------------------------------------------------------------------
(* Actions. *)

\* The scheduler hands a task over to the dispatcher, before what waits there.
RaidTimerFires(t) ==
    /\ raidTimers[t] > 0
    /\ raidQueue' = <<t.of>> \o raidQueue
    /\ raidTimers' = [raidTimers EXCEPT ![t] = @ - 1]
    /\ UNCHANGED <<raidList, raidsDeleted, nextEvent, raidRunning, raidsStarted,
                   raidLoads, raidOrphaned, raidUndefined>>

\* checkRaids() starts "picked", or none; it is armed again in any case.
CheckRaids(picked) ==
    /\ raidQueue # <<>> /\ Head(raidQueue) = CheckTask
    /\ raidQueue' = Tail(raidQueue)
    /\ \/ /\ picked = NoRaid
          /\ raidTimers' = Armed(raidTimers, CheckTask)
          /\ UNCHANGED <<raidList, raidRunning>>
       \/ /\ picked \in raidList /\ raidRunning = NoRaid
          /\ raidRunning' = picked
          /\ raidTimers' = Armed(StartedRaid(raidTimers, picked), CheckTask)
          /\ raidList' = IF picked[1] \in Repeatable THEN raidList ELSE raidList \ {picked}
    /\ UNCHANGED <<raidsDeleted, nextEvent, raidsStarted, raidLoads, raidOrphaned, raidUndefined>>

\* Game.startRaid(raidName) of a script.
luaGameStartRaid(r) ==
    /\ r \in raidList /\ raidRunning = NoRaid
    /\ raidRunning' = r
    /\ raidTimers' = StartedRaid(raidTimers, r)
    /\ UNCHANGED <<raidList, raidsDeleted, nextEvent, raidsStarted, raidQueue,
                   raidLoads, raidOrphaned, raidUndefined>>

\* Fault: an event that failed ends the raid without resetRaid().
RaidEndsSilently(r, ok) == ok /\ nextEvent[r] + 1 >= RaidEvents[r[1]]

\* Does executeRaidEvent() call resetRaid()?
RaidEnds(r, ok) == ~ok \/ nextEvent[r] + 1 >= RaidEvents[r[1]]

\* executeRaidEvent(): "ok" is what executeEvent() has returned.
ExecuteRaidEvent(ok) ==
    LET r == Head(raidQueue)
    IN  /\ raidQueue # <<>> /\ r \in RaidObjects \ raidsDeleted
        /\ raidQueue' = Tail(raidQueue)
        /\ \/ /\ RaidEnds(r, ok)
              /\ nextEvent' = [nextEvent EXCEPT ![r] = 0]
              /\ raidRunning' = NoRaid
              /\ UNCHANGED raidTimers
           \/ /\ ~RaidEnds(r, ok)
              /\ nextEvent' = [nextEvent EXCEPT ![r] = @ + 1]
              /\ raidTimers' = IF ok THEN Armed(raidTimers, r) ELSE raidTimers
              /\ UNCHANGED raidRunning
        /\ UNCHANGED <<raidList, raidsDeleted, raidsStarted, raidLoads, raidOrphaned, raidUndefined>>

\* executeRaidEvent() with a raid that clear() has deleted: undefined from here on.
ExecuteDeleted ==
    /\ raidQueue # <<>> /\ Head(raidQueue) \in raidsDeleted
    /\ raidUndefined' = TRUE
    /\ UNCHANGED <<raidList, raidsDeleted, nextEvent, raidRunning, raidsStarted,
                   raidTimers, raidQueue, raidLoads, raidOrphaned>>

\* clear(): checkRaidsEvent, and stopEvents() for every raid of the list.
ClearedTimers(timers) == Stopped(timers, raidList \cup {CheckTask})

\* reload() and startup(): after clear() the raids are read again, and
\* nothing is started if that fails.
ReloadRaids(readable) ==
    LET timers == ClearedTimers(raidTimers)
    IN  /\ raidLoads < MaxReloads
        /\ raidLoads' = raidLoads + 1
        /\ raidsDeleted' = raidsDeleted \cup raidList
        /\ raidList' = IF readable THEN LoadedRaids(raidLoads + 1) ELSE {}
        /\ raidsStarted' = readable
        /\ raidRunning' = NoRaid
        /\ raidTimers' = IF readable THEN Armed(timers, CheckTask) ELSE timers
        /\ raidOrphaned' = (raidOrphaned \/ raidQueue # <<>>
                            \/ \E t \in RaidTask : raidTimers[t] > 0 /\ t.of \notin raidList \cup {CheckTask})
        /\ UNCHANGED <<nextEvent, raidQueue, raidUndefined>>

RaidNext ==
    /\ ~raidUndefined /\ FewTasks
    /\ \/ \E t \in RaidTask : RaidTimerFires(t)
       \/ \E picked \in raidList \cup {NoRaid} : CheckRaids(picked)
       \/ \E r \in raidList : luaGameStartRaid(r)
       \/ \E ok \in BOOLEAN : ExecuteRaidEvent(ok)
       \/ ExecuteDeleted
       \/ \E readable \in BOOLEAN : ReloadRaids(readable)

RaidSpec == RaidInit /\ [][RaidNext]_raidVars

-----------------------------------------------------------------------------

\* A raid that is marked as running has a task that will unmark it (or it has
\* no events: then it is marked for ever), otherwise no raid would start any
\* more.  As long as no reload has met a task it cannot stop (one handed over,
\* or one of a raid that checkRaids() has taken off the list), there is one
\* chain of checks, only the running raid goes on, the others would begin at
\* their first event, and no deleted raid is used.
RaidsSound ==
    /\ RaidTypeOK
    /\ raidRunning # NoRaid => Chains(raidRunning) > 0 \/ RaidEvents[raidRunning[1]] = 0
    /\ ~raidOrphaned =>
          /\ ~raidUndefined
          /\ Chains(CheckTask) = IF raidsStarted THEN 1 ELSE 0
          /\ \A r \in RaidObjects \ raidsDeleted : Chains(r) = 0 => nextEvent[r] = 0
          /\ \A r \in RaidObjects : Chains(r) <= IF raidRunning = r THEN 1 ELSE 0
=============================================================================
