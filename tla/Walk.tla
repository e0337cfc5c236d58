--------------------------------- MODULE Walk ---------------------------------
(***************************************************************************)
(* How a player walks (creature.cpp: startAutoWalk(), addEventWalk(),      *)
(* onCreatureWalk(), stopEventWalk()) and the action that waits for the    *)
(* end of a walk (player.cpp: setNextWalkActionTask(), onWalkComplete(),   *)
(* onWalkAborted(); game.cpp: playerMove(), playerAutoWalk(), the handlers *)
(* like playerUseItem() that walk to a thing too far away first).  Events  *)
(* fire in the scheduler's thread and only then queue for the dispatcher:  *)
(* what stopEvent() no longer finds is on its way.  Where the player is    *)
(* does not matter, only how many steps are left.                          *)
(***************************************************************************)
EXTENDS Integers, Sequences, FiniteSets

CONSTANTS MaxSteps,    \* bound on the length of a path
          WalkEvents,  \* bound on the walk events at a time: 1..n
          MaxQueue     \* bound on the dispatcher's queue

ASSUME WalkAssumption ==
    MaxSteps \in Nat \ {0} /\ WalkEvents \subseteq Nat \ {0} /\ MaxQueue \in Nat

VARIABLES walk,   \* the state the handlers work on, see WalkState
          queue,  \* the dispatcher's tasks that concern this player
          life    \* "alive", "dying": health is 0, "dead": taken off the map

walkVars == <<walk, queue, life>>

WalkState ==
    [list : 0..MaxSteps,              \* length of listWalkDir
     eventWalk : WalkEvents \cup {0},
     pending : SUBSET WalkEvents,     \* walk events in the scheduler
     cancel : BOOLEAN,                \* cancelNextWalk
     task : BOOLEAN,                  \* walkTask is set
     taskEvent : BOOLEAN,             \* walkTaskEvent is in the scheduler
     fast : BOOLEAN,                  \* getSpeed() > 0
     rooted : BOOLEAN,                \* CONDITION_ROOTED
     stranded : BOOLEAN,              \* walkTask has lost the walk it waits for
     halted : BOOLEAN,               \* steps are left that no event will take
     crowded : BOOLEAN]               \* the bound on events was reached

WalkTasks == [do : {"check", "action", "death"}] \cup [do : {"autoWalk"}, steps : 1..MaxSteps]

WalkTypeOK ==
    /\ walk \in WalkState
    /\ queue \in Seq(WalkTasks) /\ Len(queue) <= MaxQueue
    /\ life \in {"alive", "dying", "dead"}

WalkInit ==
    /\ walk = [list |-> 0, eventWalk |-> 0, pending |-> {}, cancel |-> FALSE,
               task |-> FALSE, taskEvent |-> FALSE, fast |-> TRUE, rooted |-> FALSE,
               stranded |-> FALSE, halted |-> FALSE, crowded |-> FALSE]
    /\ queue = <<>> /\ life = "alive"

-----------------------------------------------------------------------------
(* Player and Creature, as operators on the state.                         *)

\* setNextWalkActionTask()
NextWalkAction(s, task) == [s EXCEPT !.task = task, !.taskEvent = FALSE, !.stranded = FALSE]

onWalkAborted(s) == NextWalkAction(s, FALSE)

onWalkComplete(s) ==
    IF s.task THEN [s EXCEPT !.task = FALSE, !.taskEvent = TRUE, !.stranded = FALSE] ELSE s

\* Fault: the event is stopped and its id kept.
stopEventWalkKeep(s) == [s EXCEPT !.pending = @ \ {s.eventWalk}]

stopEventWalk(s) == [s EXCEPT !.pending = @ \ {s.eventWalk}, !.eventWalk = 0]

\* onCreatureMove(): a teleport stops the walk, the steps and the action stay.
Teleported(s) == [stopEventWalk(s) EXCEPT !.halted = TRUE, !.stranded = s.task]

\* The first part of onCreatureWalk(): a step, perhaps into a teleport
\* ("jump"), or the end of the walk.
NextStep(s, jump) ==
    LET stepped == [s EXCEPT !.list = @ - 1]
    IN  IF s.list = 0 THEN stopEventWalk(onWalkComplete(s))
        ELSE IF jump THEN Teleported(stepped) ELSE stepped

Cancelled(s) ==
    IF s.cancel THEN onWalkAborted([s EXCEPT !.list = 0, !.cancel = FALSE]) ELSE s

NewEvent(s) ==
    LET free == WalkEvents \ s.pending
        e    == CHOOSE e \in free : TRUE
    IN  IF free = {} THEN [s EXCEPT !.crowded = TRUE]
        ELSE [s EXCEPT !.eventWalk = e, !.pending = @ \cup {e},
                       !.halted = FALSE, !.stranded = FALSE]

\* addEventWalk(); "early": a single step that may be taken right away.  The
\* test of getStepSpeed() stops monsters: a player's is PLAYER_MIN_SPEED at least.
addEventWalk(s, early) ==
    LET s1 == [s EXCEPT !.cancel = FALSE]
    IN  IF s.eventWalk # 0 THEN s1
        ELSE NewEvent(IF early THEN Cancelled(NextStep(s1, FALSE)) ELSE s1)

startAutoWalk(s, steps, early) ==
    IF s.rooted THEN [s EXCEPT !.stranded = s.task /\ s.eventWalk = 0]
    ELSE addEventWalk([s EXCEPT !.list = steps, !.stranded = FALSE, !.halted = FALSE], early /\ steps = 1)

\* onCreatureWalk(); "ready": the last step is long enough ago.
onCreatureWalk(s, ready, jump) ==
    LET s1 == Cancelled(IF ready THEN NextStep(s, jump) ELSE s)
    IN  IF s1.eventWalk # 0 THEN addEventWalk([s1 EXCEPT !.eventWalk = 0], FALSE) ELSE s1

-----------------------------------------------------------------------------
(* Requests of the client and changes of the player.                       *)

WalkTo(s) == ~s.crowded /\ walk' = s

\* playerMove(): a step with the keys
MoveKey ==
    /\ life # "dead"
    /\ \E early \in BOOLEAN : WalkTo(startAutoWalk(NextWalkAction(walk, FALSE), 1, early))
    /\ UNCHANGED <<queue, life>>

\* playerAutoWalk() as the client asks for it
ClickGround(steps) ==
    /\ life # "dead"
    /\ \E early \in BOOLEAN : WalkTo(startAutoWalk(walk, steps, early))
    /\ UNCHANGED <<queue, life>>

\* The thing is too far away: walk there first.
UseFarOn(rest, steps) ==
    /\ Len(rest) < MaxQueue
    /\ queue' = Append(rest, [do |-> "autoWalk", steps |-> steps])
    /\ WalkTo(NextWalkAction(walk, TRUE))
    /\ UNCHANGED life

UseFar(steps) == life # "dead" /\ UseFarOn(queue, steps)

\* playerStopAutoWalk()
StopAutoWalk == life # "dead" /\ walk' = [walk EXCEPT !.cancel = TRUE] /\ UNCHANGED <<queue, life>>

\* setFollowCreature() of somebody else
Follow ==
    /\ life # "dead" /\ walk.list > 0
    /\ walk' = onWalkAborted([walk EXCEPT !.list = 0])
    /\ UNCHANGED <<queue, life>>

\* goToFollowCreature(): not while an action waits.  The path, of no steps if
\* there is none, replaces the steps that are left, also of a rooted player.
GoToFollowed(steps) ==
    /\ life = "alive" /\ ~walk.task
    /\ LET s == [walk EXCEPT !.list = steps,
                            !.halted = walk.rooted /\ steps > 0 /\ walk.eventWalk = 0]
       IN  \/ steps = 0 /\ walk' = s
           \/ steps > 0 /\ \E early \in BOOLEAN : WalkTo(startAutoWalk(s, steps, early))
    /\ UNCHANGED <<queue, life>>

\* setSpeed(): 0 or less, perhaps once more, and above again
Slow ==
    /\ life # "dead"
    /\ walk' = [stopEventWalk(walk) EXCEPT !.fast = FALSE, !.cancel = TRUE]
    /\ UNCHANGED <<queue, life>>

Hasten ==
    /\ life # "dead" /\ ~walk.fast
    /\ LET s == [walk EXCEPT !.fast = TRUE,
                            !.stranded = @ \/ (walk.task /\ walk.list = 0 /\ walk.eventWalk = 0)]
       IN  WalkTo(IF s.list > 0 THEN addEventWalk(s, FALSE) ELSE s)
    /\ UNCHANGED <<queue, life>>

\* A level gained: baseSpeed is raised before changeSpeed(0), so setSpeed() sees
\* a speed that was above 0 already and starts no walk again.
GainLevel ==
    /\ life # "dead" /\ ~walk.fast
    /\ LET idle == walk.eventWalk = 0
       IN  walk' = [walk EXCEPT !.fast = TRUE, !.halted = @ \/ (walk.list > 0 /\ idle),
                                !.stranded = @ \/ (walk.task /\ idle)]
    /\ UNCHANGED <<queue, life>>

\* internalTeleport() by a script, the house owner or the temple
Teleport == life # "dead" /\ walk' = Teleported(walk) /\ UNCHANGED <<queue, life>>

Root == walk' = [walk EXCEPT !.rooted = ~@] /\ UNCHANGED <<queue, life>>

\* Health reaches 0; executeDeath() is queued.
Kill ==
    /\ life = "alive" /\ Len(queue) < MaxQueue
    /\ life' = "dying"
    /\ queue' = Append(queue, [do |-> "death"])
    /\ UNCHANGED walk

SpawnAgain == life = "dead" /\ life' = "alive" /\ UNCHANGED <<walk, queue>>

-----------------------------------------------------------------------------
(* Scheduler and dispatcher.                                               *)

FireWalk(e) ==
    /\ e \in walk.pending /\ Len(queue) < MaxQueue
    /\ walk' = [walk EXCEPT !.pending = @ \ {e}]
    /\ queue' = Append(queue, [do |-> "check"])
    /\ UNCHANGED life

FireAction ==
    /\ walk.taskEvent /\ Len(queue) < MaxQueue
    /\ walk' = [walk EXCEPT !.taskEvent = FALSE]
    /\ queue' = Append(queue, [do |-> "action"])
    /\ UNCHANGED life

\* despawn()
Despawned(s) == onWalkAborted(stopEventWalk([s EXCEPT !.list = 0]))

RunTask ==
    /\ queue # <<>>
    /\ LET t == Head(queue)
       IN  \/ /\ t.do = "check" /\ life = "alive"
              /\ \E ready, jump \in BOOLEAN : WalkTo(onCreatureWalk(walk, ready, jump))
              /\ queue' = Tail(queue) /\ UNCHANGED life
           \/ /\ t.do = "autoWalk" /\ life # "dead"
              /\ \E early \in BOOLEAN : WalkTo(startAutoWalk(walk, t.steps, early))
              /\ queue' = Tail(queue) /\ UNCHANGED life
           \/ /\ t.do = "action" /\ life # "dead"
              /\ \/ queue' = Tail(queue) /\ UNCHANGED <<walk, life>>  \* near: done
                 \/ \E steps \in 1..MaxSteps : UseFarOn(Tail(queue), steps)
           \/ /\ t.do = "death"
              /\ walk' = Despawned(walk)
              /\ queue' = Tail(queue) /\ life' = "dead"
           \/ /\ life = "dead" \/ (life = "dying" /\ t.do = "check")
              /\ t.do # "death"
              /\ queue' = Tail(queue) /\ UNCHANGED <<walk, life>>

WalkNext ==
    \/ MoveKey \/ StopAutoWalk \/ Follow \/ Slow \/ Hasten \/ GainLevel
    \/ Teleport \/ Root \/ Kill \/ SpawnAgain
    \/ \E steps \in 1..MaxSteps : ClickGround(steps) \/ UseFar(steps)
    \/ \E steps \in 0..MaxSteps : GoToFollowed(steps)
    \/ \E e \in WalkEvents : FireWalk(e)
    \/ FireAction
    \/ RunTask

-----------------------------------------------------------------------------
(* Properties.                                                             *)

WalkSpec == WalkInit /\ [][WalkNext]_walkVars

Queued(do) == \E k \in DOMAIN queue : queue[k].do = do

\* A player does not get stuck, although eventWalk, which guards against a
\* second event, outlives its event: while it is set, or steps are left and
\* the player can move, an event is on its way; and an action that waits for
\* the end of a walk has a walk to wait for.  The exceptions of the code: the
\* player is rooted, was teleported in the middle of the walk, had speed 0
\* when the last step was made and the walk was to end, or got a speed above 0
\* back by gaining a level.
WalkNotStuck ==
    /\ WalkTypeOK
    /\ life = "alive" =>
          LET coming == walk.pending # {} \/ Queued("check")
          IN  /\ walk.eventWalk # 0 \/ (walk.list > 0 /\ walk.fast /\ ~walk.halted) => coming
              /\ walk.task /\ walk.fast /\ ~walk.stranded => coming \/ Queued("autoWalk")
=============================================================================
