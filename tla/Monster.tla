------------------------------ MODULE Monster ------------------------------
(***************************************************************************)
(* What monsters know of the creatures around them                         *)
(* (creatures/monsters/monster.cpp, creature.cpp, Game::checkCreatures):   *)
(* the target and friend lists, which hold references, attackedCreature    *)
(* and followCreature, which do not, the idle state and the place on the   *)
(* check lists.  Places are numbers on a line.  A creature is told of what *)
(* happens within Reach of it (11 squares), a monster sees up to View (10).*)
(* Every action is one task of the dispatcher.  Zones, floors, invisible   *)
(* creatures and the search for the best target are choices, and monsters  *)
(* are hostile.  Summons and scripts of a monster type are left out, and   *)
(* so is the test of health in updateTargetList(): a dead creature in      *)
(* sight is found again at once.  So is the logout of a dead player: it is *)
(* taken from the map a second time, which writes past the end of the      *)
(* leaf's list of creatures (QTreeLeafNode::removeCreature).               *)
(***************************************************************************)
EXTENDS Integers, FiniteSets
LOCAL INSTANCE SequencesExt

CONSTANTS Beasts,     \* monsters
          Visitors,   \* players that monsters do not ignore
          Partisans,  \* monsters with a faction of their own
          Foes,       \* and the monsters of the factions they fight
          Places,     \* of the map
          Haunts,     \* bound: the places a creature goes to
          Den,        \* where a monster was spawned
          Frail,      \* bound: the monsters that get conditions
          View, Reach,
          Radius,     \* despawnRadius
          NoCreature,
          MaxOnScreen \* bound on totalPlayersOnScreen

Creatures == Beasts \cup Visitors

ASSUME MonsterAssumption ==
    /\ Beasts \cap Visitors = {} /\ NoCreature \notin Creatures
    /\ Partisans \subseteq Beasts /\ Foes \in [Partisans -> SUBSET Beasts]
    /\ Places \subseteq Int /\ Den \in [Beasts -> Places] /\ Haunts \in [Creatures -> SUBSET Places]
    /\ Frail \subseteq Beasts
    /\ View \in Nat /\ Reach \in Nat /\ View <= Reach /\ Radius \in Nat /\ MaxOnScreen \in Nat

VARIABLE wild

wildVars == <<wild>>

WildTypeOK ==
    /\ wild.life \in [Creatures -> {"none", "game", "dead", "removed"}]
    /\ wild.place \in [Creatures -> Places]
    /\ wild.refs \in [Creatures -> Nat] /\ wild.releases \in [Creatures -> Nat]
    /\ wild.dying \subseteq Beasts /\ wild.afflicted \subseteq Beasts
    /\ wild.targets \in [Beasts -> SUBSET Creatures]
    /\ wild.friends \in [Beasts -> SUBSET Beasts]
    /\ wild.attacked \in [Beasts -> Creatures \cup {NoCreature}]
    /\ wild.follow \in [Beasts -> Creatures \cup {NoCreature}]
    /\ wild.idle \in [Beasts -> BOOLEAN]
    /\ wild.check \in [Beasts -> BOOLEAN] /\ wild.inVector \in [Beasts -> BOOLEAN]
    /\ wild.onScreen \in [Beasts -> 0..MaxOnScreen]
    /\ wild.fringe \in [Beasts -> SUBSET Creatures]
    /\ wild.overlooked \in [Beasts -> SUBSET Visitors]

\* releases: entries of ToReleaseCreatures.  dying: monsters without health that
\* onDeath() has not removed yet; afflicted: monsters that have conditions.
\* For the property only: fringe, creatures that appeared within reach but out of
\* sight; overlooked, players in sight when the monster was sent home, and those
\* who came back from death in its sight.
\* At start-up the monsters are placed without telling anyone.
WildInit ==
    wild = [life |-> [c \in Creatures |-> IF c \in Beasts THEN "game" ELSE "none"],
            place |-> [c \in Creatures |-> IF c \in Beasts THEN Den[c] ELSE CHOOSE p \in Places : TRUE],
            refs |-> [c \in Creatures |-> IF c \in Beasts THEN 1 ELSE 0],
            releases |-> [c \in Creatures |-> 0],
            dying |-> {}, afflicted |-> {},
            targets |-> [m \in Beasts |-> {}], friends |-> [m \in Beasts |-> {}],
            attacked |-> [m \in Beasts |-> NoCreature], follow |-> [m \in Beasts |-> NoCreature],
            idle |-> [m \in Beasts |-> TRUE],
            check |-> [m \in Beasts |-> FALSE], inVector |-> [m \in Beasts |-> FALSE],
            onScreen |-> [m \in Beasts |-> 0],
            fringe |-> [m \in Beasts |-> {}], overlooked |-> [m \in Beasts |-> {}]]

Distance(p, q) == IF p < q THEN q - p ELSE p - q

canSee(s, m, p) == Distance(s.place[m], p) <= View

\* The monsters among the spectators of a place.
getSpectators(s, p) == {m \in Beasts : s.life[m] = "game" /\ Distance(s.place[m], p) <= Reach}

isFriend(c) == c \in Beasts
isOpponent(m, c) == c \in Visitors \/ (m \in Partisans /\ c \in Foes[m])

-----------------------------------------------------------------------------
(* References and lists.                                                   *)

\* decrementReferenceCounter() of each of cs: the last one deletes the object
\* (for a monster's destructor see Destroyed).
decrementReferenceCounters(s, cs) ==
    [s EXCEPT !.refs = [c \in Creatures |-> IF c \in cs THEN @[c] - 1 ELSE @[c]],
              !.life = [c \in Creatures |-> IF c \in cs /\ s.refs[c] = 1 THEN "none" ELSE @[c]]]

addFriend(s, m, c) ==
    IF c \in s.friends[m] THEN s ELSE [s EXCEPT !.friends[m] = @ \cup {c}, !.refs[c] = @ + 1]

\* totalPlayersOnScreen is kept for the monsters of a faction.
Counted(m, c) == IF m \in Partisans /\ c \in Visitors THEN 1 ELSE 0

addTarget(s, m, c) ==
    IF c \in s.targets[m] THEN s
    ELSE [s EXCEPT !.targets[m] = @ \cup {c}, !.refs[c] = @ + 1, !.onScreen[m] = @ + Counted(m, c)]

removeFriend(s, m, c) ==
    IF c \in s.friends[m]
    THEN [decrementReferenceCounters(s, {c}) EXCEPT !.friends[m] = @ \ {c}]
    ELSE s

removeTarget(s, m, c) ==
    IF c \in s.targets[m]
    THEN [decrementReferenceCounters(s, {c}) EXCEPT !.targets[m] = @ \ {c}, !.onScreen[m] = @ - Counted(m, c)]
    ELSE s

clearTargetList(s, m) == [decrementReferenceCounters(s, s.targets[m]) EXCEPT !.targets[m] = {}]
clearFriendList(s, m) ==
    [decrementReferenceCounters(s, s.friends[m]) EXCEPT !.friends[m] = {}, !.fringe[m] = {}]

addCreatureCheck(s, m) ==
    IF s.inVector[m] THEN [s EXCEPT !.check[m] = TRUE]
    ELSE [s EXCEPT !.check[m] = TRUE, !.inVector[m] = TRUE, !.refs[m] = @ + 1]

removeCreatureCheck(s, m) == IF s.inVector[m] THEN [s EXCEPT !.check[m] = FALSE] ELSE s

\* Fault: the lists are kept.
IdleWithLists(s, m, idle) ==
    IF s.life[m] # "game" \/ m \in s.dying THEN s
    ELSE IF idle THEN removeCreatureCheck([s EXCEPT !.idle[m] = TRUE], m)
    ELSE addCreatureCheck([s EXCEPT !.idle[m] = FALSE], m)

setIdle(s, m, idle) ==
    IF s.life[m] # "game" \/ m \in s.dying THEN s
    ELSE IF idle
    THEN removeCreatureCheck(clearFriendList(clearTargetList([s EXCEPT !.idle[m] = TRUE], m), m), m)
    ELSE addCreatureCheck([s EXCEPT !.idle[m] = FALSE], m)

updateIdleStatus(s, m) ==
    setIdle(s, m, /\ m \notin s.afflicted
                  /\ s.targets[m] = {} \/ (m \in Partisans /\ s.onScreen[m] = 0))

onCreatureFound(s, m, c) ==
    LET met == IF isFriend(c) THEN addFriend(s, m, c) ELSE s
    IN  updateIdleStatus(IF isOpponent(m, c) THEN addTarget(met, m, c) ELSE met, m)

onCreatureLeave(s, m, c) ==
    LET parted == IF isFriend(c) THEN removeFriend(s, m, c) ELSE s
        left == removeTarget(parted, m, c)
    IN  IF ~isOpponent(m, c) THEN parted
        ELSE IF left.targets[m] = {} THEN updateIdleStatus(left, m) ELSE left

\* The spectators are found in any order; the idle state is updated after each,
\* so that friends found before the first target are forgotten again.
updateTargetList(s, m) ==
    LET Unseen(cs) == {c \in cs : ~canSee(s, m, s.place[c])}
        lost == decrementReferenceCounters(decrementReferenceCounters(s, Unseen(s.friends[m])), Unseen(s.targets[m]))
        kept == [lost EXCEPT !.friends[m] = @ \ Unseen(@), !.targets[m] = @ \ Unseen(@),
                             !.fringe[m] = {c \in @ \ Unseen(@) : s.life[c] # "game"}]
        inSight == {c \in Creatures \ {m} : kept.life[c] = "game" /\ canSee(kept, m, kept.place[c])}
    IN  {FoldLeft(LAMBDA t, c : onCreatureFound(t, m, c), kept, order) : order \in SetToSeqs(inSight)}

-----------------------------------------------------------------------------
(* attackedCreature and followCreature, without references.                *)

onCreatureDisappear(s, m, c) ==
    [s EXCEPT !.attacked[m] = IF @ = c THEN NoCreature ELSE @,
              !.follow[m] = IF @ = c THEN NoCreature ELSE @]

\* selectTarget(): isTarget() is a choice for creatures in the game; one that is
\* out of sight costs the monster the target it had.
selectTarget(s, m, c) ==
    LET chosen == IF canSee(s, m, s.place[c]) THEN c ELSE NoCreature
    IN  {s} \cup IF s.life[c] = "game" /\ c \in s.targets[m]
                 THEN {[s EXCEPT !.attacked[m] = chosen, !.follow[m] = chosen]}
                 ELSE {}

-----------------------------------------------------------------------------
(* The handlers of a monster m, as operators to sets of states.            *)

onCreatureAppear(s, m, c) ==
    IF c = m THEN {updateIdleStatus(t, m) : t \in updateTargetList(s, m)}
    ELSE {[onCreatureFound(s, m, c) EXCEPT !.fringe[m] = IF canSee(s, m, s.place[c]) THEN @ ELSE @ \cup {c}]}

\* A creature is lost from sight with its floor or its zone, too.
Lost(s, m, c, seen) == {onCreatureDisappear(s, m, c)} \cup IF seen THEN {s} ELSE {}

\* The monster itself has moved.
onOwnMove(s, m) ==
    LET InSight(c) == c = NoCreature \/ canSee(s, m, s.place[c])
        apart == UNION {Lost(t, m, s.attacked[m], InSight(s.attacked[m])) :
                        t \in Lost(s, m, s.follow[m], InSight(s.follow[m]))}
    IN  {[updateIdleStatus(t, m) EXCEPT !.overlooked[m] = {}] :
         t \in UNION {updateTargetList(a, m) : a \in apart}}

\* Creature c has moved away from a place.  One that stands between the monster
\* and whom it follows may become the target; otherwise c, if it follows nobody.
onOthersMove(s, m, c, from) ==
    LET seesNew == canSee(s, m, s.place[c])
        seesOld == canSee(s, m, from)
        Crossed(t) == CASE seesNew /\ ~seesOld -> onCreatureFound([t EXCEPT !.fringe[m] = @ \ {c}], m, c)
                        [] seesOld /\ ~seesNew -> onCreatureLeave(t, m, c)
                        [] OTHER -> t
        crossed == {[updateIdleStatus(Crossed(t), m) EXCEPT
                        !.overlooked[m] = IF seesNew = seesOld THEN @ ELSE @ \ {c}] :
                    t \in IF c \in {s.attacked[m], s.follow[m]} THEN Lost(s, m, c, seesNew) ELSE {s}}
        Rivals(t) == IF t.follow[m] = NoCreature THEN {c} ELSE Creatures \ {t.follow[m]}
    IN  UNION {UNION {selectTarget(t, m, r) : r \in {r \in Rivals(t) : isOpponent(m, r)}} \cup {t} : t \in crossed}

\* Fault: the raw pointers are kept.
RemovedFromLists(s, m, c) ==
    IF c = m THEN setIdle(s, m, TRUE)
    ELSE [onCreatureLeave(s, m, c) EXCEPT !.overlooked[m] = @ \ {c}]

onRemoveCreature(s, m, c) ==
    IF c = m THEN setIdle(s, m, TRUE)
    ELSE [onCreatureLeave(onCreatureDisappear(s, m, c), m, c) EXCEPT !.overlooked[m] = @ \ {c}]

-----------------------------------------------------------------------------
(* Game and Map.                                                           *)

\* All spectators are told; what one does concerns itself and references only.
TellAll(s, spectators, Tell(_, _)) ==
    FoldSet(LAMBDA m, states : UNION {Tell(t, m) : t \in states}, {s}, spectators)

moveCreature(s, c, p) ==
    LET moved == [s EXCEPT !.place[c] = p]
        Tell(t, m) == IF m = c THEN onOwnMove(t, m) ELSE onOthersMove(t, m, c, s.place[c])
    IN  TellAll(moved, getSpectators(s, s.place[c]) \cup getSpectators(moved, p), Tell)

ReleaseCreature(s, c) == [s EXCEPT !.releases[c] = @ + 1]

removeCreature(s, c) ==
    LET told == FoldSet(LAMBDA m, t : onRemoveCreature(t, m, c), s, getSpectators(s, s.place[c]))
        gone == ReleaseCreature([told EXCEPT !.life[c] = "removed"], c)
    IN  IF c \in Beasts THEN removeCreatureCheck(gone, c) ELSE gone

onDeath(s, m) ==
    [removeCreature(clearFriendList(clearTargetList([s EXCEPT !.attacked[m] = NoCreature], m), m), m)
        EXCEPT !.dying = @ \ {m}]

\* Each creature is released as often as it was handed in.
cleanup(s) ==
    [s EXCEPT !.refs = [c \in Creatures |-> @[c] - s.releases[c]],
              !.life = [c \in Creatures |-> IF s.releases[c] > 0 /\ s.refs[c] = s.releases[c]
                                            THEN "none" ELSE @[c]],
              !.releases = [c \in Creatures |-> 0]]

\* The fields of a monster that does not exist have the values of a new one.
Blank(s, m) ==
    [s EXCEPT !.place[m] = Den[m], !.dying = @ \ {m}, !.afflicted = @ \ {m}, !.idle[m] = TRUE,
              !.attacked[m] = NoCreature, !.follow[m] = NoCreature, !.check[m] = FALSE,
              !.onScreen[m] = 0, !.overlooked[m] = {}]

\* ~Monster() of all that are deleted, which may delete others.
Destroyed(s) ==
    LET Pass(t) == FoldSet(LAMBDA m, u : IF u.life[m] = "none"
                                         THEN Blank(clearFriendList(clearTargetList(u, m), m), m) ELSE u,
                           t, Beasts)
        after[n \in 0..Cardinality(Beasts)] == IF n = 0 THEN s ELSE Pass(after[n - 1])
    IN  after[Cardinality(Beasts)]

\* A monster out of its range is sent home and idle, whoever is in sight there.
SentHome(s, m) ==
    {[setIdle(t, m, TRUE) EXCEPT !.overlooked[m] = {v \in Visitors : t.life[v] = "game" /\ canSee(t, m, t.place[v])}] :
     t \in moveCreature(s, m, Den[m])}

Watchful(s, m) ==
    LET status == updateIdleStatus(s, m)
    IN  {status} \cup IF status.idle[m] THEN {}
                      ELSE UNION {selectTarget(status, m, c) : c \in status.targets[m]}

\* Monster::onThink(); where a monster may be (canSpawn) depends on the hour.
onThink(s, m) ==
    LET aware == UNION {Lost(t, m, s.follow[m], TRUE) : t \in Lost(s, m, s.attacked[m], TRUE)}
    IN  {removeCreature(t, m) : t \in aware}
        \cup UNION {IF Distance(s.place[m], Den[m]) > Radius THEN SentHome(t, m) ELSE Watchful(t, m) : t \in aware}

onEndCondition(s, m) == updateIdleStatus([s EXCEPT !.afflicted = @ \ {m}], m)

\* A condition may run out after the monster has thought.
executeConditions(s, m) ==
    {s} \cup IF m \in s.afflicted THEN {onEndCondition(s, m)} ELSE {}

-----------------------------------------------------------------------------
(* Actions.                                                                *)

\* placeCreature() of a new object.
placeCreature(c, p) ==
    /\ wild.life[c] = "none" /\ p \in Haunts[c]
    /\ LET fresh == [wild EXCEPT !.life[c] = "game", !.place[c] = p, !.refs[c] = 1]
           Tell(t, m) == onCreatureAppear(t, m, c)
       IN  \E told \in TellAll(fresh, getSpectators(fresh, p), Tell) :
               wild' = Destroyed(IF c \in Beasts THEN addCreatureCheck(told, c) ELSE told)

\* A step, a push or a teleport.
Move(c, p) ==
    /\ wild.life[c] = "game" /\ p \in Haunts[c] \ {wild.place[c]}
    /\ \E moved \in moveCreature(wild, c, p) : wild' = Destroyed(moved)

\* A player logs out, a script removes a monster.
Depart(c) ==
    /\ wild.life[c] = "game"
    /\ wild' = Destroyed(removeCreature(wild, c))

\* Player::despawn(): all spectators are told, and nothing is released.
despawn(v) ==
    /\ wild.life[v] = "game"
    /\ LET told == FoldSet(LAMBDA m, t : onRemoveCreature(t, m, v), wild, getSpectators(wild, wild.place[v]))
       IN  wild' = Destroyed([told EXCEPT !.life[v] = "dead"])

\* Player::spawn() tells the players among the spectators only.
spawn(v, p) ==
    /\ wild.life[v] = "dead" /\ p \in Haunts[v]
    /\ wild' = [wild EXCEPT !.life[v] = "game", !.place[v] = p,
                            !.overlooked = [m \in Beasts |-> IF canSee(wild, m, p) THEN @[m] \cup {v} ELSE @[m] \ {v}]]

\* changeHealth(), by someone the monster need not see.
Hit(m, kill) ==
    /\ wild.life[m] = "game" /\ m \notin wild.dying
    /\ wild' = [setIdle(wild, m, FALSE) EXCEPT !.dying = IF kill THEN @ \cup {m} ELSE @]

executeDeath(m) ==
    /\ wild.life[m] = "game" /\ m \in wild.dying
    /\ wild' = Destroyed(onDeath(wild, m))

onAddCondition(m) ==
    /\ m \in Frail /\ wild.life[m] = "game" /\ m \notin wild.afflicted
    /\ wild' = updateIdleStatus([wild EXCEPT !.afflicted = @ \cup {m}], m)

\* checkCreatures() of a list that holds m.
checkCreatures(m) ==
    /\ wild.inVector[m]
    /\ \E done \in IF ~wild.check[m] THEN {ReleaseCreature([wild EXCEPT !.inVector[m] = FALSE], m)}
                   ELSE IF m \in wild.dying THEN {onDeath(wild, m)}
                   ELSE UNION {executeConditions(t, m) : t \in onThink(wild, m)} :
           wild' = Destroyed(cleanup(done))

WildNext ==
    /\ \/ \E c \in Creatures, p \in Places : placeCreature(c, p) \/ Move(c, p)
       \/ \E c \in Creatures : Depart(c)
       \/ \E v \in Visitors : despawn(v) \/ \E p \in Places : spawn(v, p)
       \/ \E m \in Beasts, kill \in BOOLEAN : Hit(m, kill)
       \/ \E m \in Beasts : executeDeath(m) \/ onAddCondition(m) \/ checkCreatures(m)
    /\ \A m \in Beasts : wild'.onScreen[m] <= MaxOnScreen

-----------------------------------------------------------------------------
(* Properties.                                                             *)

\* Known(m): whom monster m holds a reference to.
Known(m) == wild.targets[m] \cup wild.friends[m]

\* The counter of a creature is the number of those who hold it: the game, the
\* check lists, and the lists of the monsters.
CountersExact ==
    \A c \in Creatures :
        wild.refs[c] = Cardinality({m \in Beasts : c \in wild.targets[m]})
                       + Cardinality({m \in Beasts : c \in wild.friends[m]})
                       + (IF c \in Beasts /\ wild.inVector[c] THEN 1 ELSE 0)
                       + (IF wild.life[c] \in {"game", "dead"} THEN 1 ELSE 0)
                       + wild.releases[c]

\* Whoever is removed holds nobody, so that references form no cycle, unless a
\* script removed a monster between its last hit and onDeath().
GoneHoldNothing ==
    \A m \in Beasts : wild.life[m] = "none" \/ (wild.life[m] = "removed" /\ m \notin wild.dying) => Known(m) = {}

\* A monster in the game pursues only creatures that are in the game and in sight.
PursuitInSight ==
    \A m \in Beasts : wild.life[m] = "game" =>
        \A c \in {wild.attacked[m], wild.follow[m]} \ {NoCreature} :
            wild.life[c] = "game" /\ canSee(wild, m, wild.place[c])

\* It knows creatures in sight only, but for those that appeared at the fringe.
KnownInSight ==
    \A m \in Beasts : wild.life[m] = "game" =>
        \A c \in Known(m) \ wild.fringe[m] : wild.life[c] = "game" /\ canSee(wild, m, wild.place[c])

\* Every player in sight of a monster is a target, and the monster is awake and
\* on a check list, unless the player was overlooked when it was sent home, or
\* has come back from death in its sight and not crossed its view since.
PlayersNoticed ==
    \A m \in Beasts, v \in Visitors :
        /\ wild.life[m] = "game" /\ wild.life[v] = "game" /\ canSee(wild, m, wild.place[v])
        /\ v \notin wild.overlooked[m]
        => v \in wild.targets[m] /\ ~wild.idle[m] /\ wild.check[m] /\ wild.inVector[m]

\* An idle monster holds nobody; one that is awake is checked; players on the
\* screen are never counted below the targets there are.
IdleOrChecked ==
    \A m \in Beasts : wild.life[m] = "game" =>
        /\ IF wild.idle[m] THEN Known(m) = {} ELSE wild.check[m] /\ wild.inVector[m]
        /\ m \in Partisans => wild.onScreen[m] >= Cardinality(wild.targets[m] \cap Visitors)

\* What monsters know is what is there: references are exact and end with the
\* monster, raw pointers are good, and no player in sight goes unnoticed, while
\* creatures appear, move, die, come back and are removed, and monsters fall
\* asleep, are hit and are sent home (monster.cpp, the lists and the idle state).
MonstersSound ==
    /\ WildTypeOK /\ CountersExact /\ GoneHoldNothing /\ PursuitInSight
    /\ KnownInSight /\ PlayersNoticed /\ IdleOrChecked
=============================================================================
