-------------------------------- MODULE Spawn --------------------------------
(***************************************************************************)
(* One spawn of monsters (spawn_monster.cpp): a number of blocks, each     *)
(* with one monster that is to come back after it has died.  Whether the   *)
(* time of a block has come, a player stands in the way or it is the wrong *)
(* time of day is left open.  Scripts of monsters do not interfere.        *)
(***************************************************************************)
EXTENDS Integers, FiniteSets

CONSTANTS Blocks,     \* spawnMonsterMap
          Blockable,  \* those whose monster waits until no player is around
          RateSpawn,  \* RATE_SPAWN: how many a check may bring
          MaxPending  \* bound on events of a kind, and on monsters of a block

ASSUME SpawnAssumption ==
    IsFiniteSet(Blocks) /\ Blockable \subseteq Blocks /\ {RateSpawn, MaxPending} \subseteq Nat \ {0}

VARIABLES alive,      \* monsters of a block in spawnedMonsterMap ...
          corpses,    \* ... and those that are removed from the game already
          checkEvent, \* checkSpawnMonsterEvent is set
          checkTasks, \* events with checkSpawnMonster() that will come
          scheduled,  \* chains of scheduleSpawn() for a block
          started,
          forgotten   \* a monster could not be placed at start-up

spawnVars == <<alive, corpses, checkEvent, checkTasks, scheduled, started, forgotten>>

SpawnTypeOK ==
    /\ {alive, corpses, scheduled} \subseteq [Blocks -> 0..MaxPending]
    /\ checkTasks \in 0..MaxPending
    /\ {checkEvent, started, forgotten} \subseteq BOOLEAN

SpawnInit ==
    /\ alive = [b \in Blocks |-> 0] /\ corpses = [b \in Blocks |-> 0]
    /\ scheduled = [b \in Blocks |-> 0]
    /\ checkEvent = FALSE /\ checkTasks = 0
    /\ started = FALSE /\ forgotten = FALSE

\* spawnedMonsterMap.size(), with f[b] monsters of every block b.
Population(f) == Cardinality({m \in Blocks \X (1..MaxPending) : m[2] <= f[m[1]]})

-----------------------------------------------------------------------------

\* startup(): what cannot be placed is not tried again.
StartSpawn(placed) ==
    /\ ~started /\ started' = TRUE
    /\ alive' = [b \in Blocks |-> IF b \in placed THEN 1 ELSE 0]
    /\ forgotten' = (placed # Blocks)
    /\ UNCHANGED <<corpses, checkEvent, checkTasks, scheduled>>

\* onCreatureDisappear() of the monster itself: startSpawnMonsterCheck()
MonsterGone(b) ==
    /\ alive[b] > 0 /\ corpses[b] < MaxPending
    /\ alive' = [alive EXCEPT ![b] = @ - 1]
    /\ corpses' = [corpses EXCEPT ![b] = @ + 1]
    /\ checkEvent' = TRUE
    /\ checkTasks' = IF checkEvent THEN checkTasks ELSE checkTasks + 1
    /\ UNCHANGED <<scheduled, started, forgotten>>

\* Fault: the check goes on only if it found nobody.
RearmIfEmpty(f) == Population(f) = 0

\* Is somebody still missing?
Rearm(f) == Population(f) < Cardinality(Blocks)

\* checkSpawnMonster(): cleanup(), then some blocks without a monster get one,
\* the others of them a chain of scheduleSpawn(); "placed" are those for which
\* placeCreature() found room.
CheckSpawn(due, placed) ==
    /\ checkTasks > 0
    /\ Cardinality(due) <= RateSpawn /\ placed \subseteq due \cap Blockable
    /\ \A b \in due : alive[b] = 0
    /\ \A b \in due \ Blockable : scheduled[b] < MaxPending
    /\ corpses' = [b \in Blocks |-> 0]
    /\ alive' = [b \in Blocks |-> IF b \in placed THEN 1 ELSE alive[b]]
    /\ scheduled' = [b \in Blocks |-> IF b \in due \ Blockable THEN scheduled[b] + 1 ELSE scheduled[b]]
    /\ checkEvent' = Rearm(alive')
    /\ checkTasks' = IF Rearm(alive') THEN checkTasks ELSE checkTasks - 1
    /\ UNCHANGED <<started, forgotten>>

\* The last hop of scheduleSpawn().
SpawnScheduled(b, room) ==
    /\ scheduled[b] > 0 /\ alive[b] < MaxPending
    /\ scheduled' = [scheduled EXCEPT ![b] = @ - 1]
    /\ alive' = IF room THEN [alive EXCEPT ![b] = @ + 1] ELSE alive
    /\ UNCHANGED <<corpses, checkEvent, checkTasks, started, forgotten>>

SpawnNext ==
    \/ \E placed \in SUBSET Blocks : StartSpawn(placed)
    \/ \E b \in Blocks : MonsterGone(b)
    \/ \E due, placed \in SUBSET Blocks : CheckSpawn(due, placed)
    \/ \E b \in Blocks, room \in BOOLEAN : SpawnScheduled(b, room)

SpawnSpec == SpawnInit /\ [][SpawnNext]_spawnVars

-----------------------------------------------------------------------------

\* No block waits for its monster in vain, and no block but those that are
\* not blockable has two: whatever dies while a check runs or is due, the one
\* event is there (checkSpawnMonsterEvent).  The exceptions of the code: who
\* could not be placed at start-up, and a second monster that a slow
\* scheduleSpawn() has brought, which counts as somebody else's.
SpawnNotForgotten ==
    /\ SpawnTypeOK
    /\ \A b \in Blockable : alive[b] <= 1
    /\ checkEvent <=> checkTasks = 1
    /\ \A b \in Blocks : started /\ alive[b] = 0 =>
          \/ checkTasks = 1
          \/ forgotten \/ \E c \in Blocks : alive[c] + corpses[c] > 1
=============================================================================
