------------------------------ MODULE Conditions ------------------------------
(***************************************************************************)
(* The conditions of a player and what they leave on him (condition.cpp,   *)
(* creature.cpp, player.cpp), with the abilities of what he wears          *)
(* (movement.cpp) and his mount.  A condition is taken back by undoing     *)
(* what it did; several of them, equipment and the mount write to the      *)
(* same fields of the player, in any order, and each believes to be alone. *)
(*                                                                         *)
(* Every action is one task of the dispatcher; a function of the code is   *)
(* an operator from a state of the player to the one it leaves.  Time is   *)
(* what is left to a condition: ticks and endTime are one number.  The     *)
(* list of conditions is a set, for no two have the same key and the order *)
(* makes no difference but at login.  Damage over time, regeneration,      *)
(* light and cool-downs leave nothing to be undone and are not kept.  The  *)
(* skills and stats an item or a condition adds to are one number; what an *)
(* item adds as a percentage of a stat depends on the player's level.      *)
(***************************************************************************)
EXTENDS Integers, FiniteSets, FiniteSetsExt, SequencesExt

CONSTANTS Adventures,  \* what one behaviour is about: the conditions that spells,
                       \* potions and monsters add, the slots, outfits (scripts set: styles) and levels
          Gear,        \* abilities of the item that fits into a slot, in its worn form
          Levels,      \* what a percentage of a player's health, mana or magic is taken of
          NoLook,      \* the outfit of who cannot be seen
          MountSpeed,
          Forever,     \* left of a condition with ticks = -1
          Delays,      \* what Player::getNextActionTime() may return, in whole rounds
          MaxRemovals, \* bound on events that wait
          MaxStray     \* bound on a sum that is already wrong

SpeedKinds == {"haste", "paralyze"}
Kinds == SpeedKinds \cup {"invisible", "outfit", "manashield", "attributes"}

\* What a condition that comes from a spell may be; that of a transformation
\* has no sub-id, and only those on attributes forbid defence.
IsSpell(c) ==
    /\ c = [kind |-> c.kind, id |-> c.id, sub |-> c.sub, left |-> c.left, val |-> c.val, off |-> c.off]
    /\ c.kind \in Kinds /\ c.id \in Int /\ c.id <= 0 /\ c.sub \in Int
    /\ c.left \in 0..Forever /\ c.off \in BOOLEAN
    /\ c.kind \in SpeedKinds \cup {"attributes"} => c.val \in Int
    /\ c.kind = "manashield" => c.val \in Nat
    /\ c.kind = "outfit" => c.sub = 0
    /\ c.off => c.kind = "attributes"

\* Items suppress drunkenness and damage over time only (item_parse.cpp).
ASSUME ConditionsAssumption ==
    /\ MountSpeed \in Nat \ {0} /\ Forever \in Nat
    /\ \A v \in Adventures :
          /\ \A c \in v.spells : IsSpell(c)
          /\ v.slots \subseteq DOMAIN Gear /\ v.looks # {} /\ NoLook \notin v.looks
          /\ v.styles \subseteq v.looks /\ v.levels \subseteq Levels /\ v.levels # {}
    /\ DOMAIN Gear \subseteq 1..10 \* CONST_SLOT_..., the ids of an item's conditions
    /\ \A s \in DOMAIN Gear :
          /\ Gear[s].speed \in Int /\ Gear[s].suppress \cap Kinds = {}
          /\ Gear[s].skill \in [Levels -> Int]
          /\ Gear[s].invisible \in BOOLEAN /\ Gear[s].manaShield \in BOOLEAN
    /\ Delays \subseteq Nat /\ MaxRemovals \in Nat /\ MaxStray \in Nat

VARIABLES adventure,   \* one of Adventures
          me,          \* the player
          removals,    \* forceRemoveCondition() events that wait: how many
          odd          \* what the properties except (history)

condVars == <<adventure, me, removals, odd>>

Unmounted(o) == [type |-> o, mount |-> FALSE]

\* A Player as the database leaves it: look is currentOutfit, shown what the
\* clients around have been told.
Fresh(slots, o, shield, level) ==
    [conds |-> {}, varSpeed |-> 0, varSkill |-> 0, manaShield |-> shield, canUseDefense |-> TRUE,
     default |-> Unmounted(o), look |-> Unmounted(o), shown |-> Unmounted(o),
     wasMounted |-> FALSE, pz |-> FALSE, alive |-> TRUE,
     slots |-> slots, enabled |-> {}, suppressed |-> {}, level |-> level]

CondInit ==
    /\ adventure \in Adventures
    /\ \E o \in adventure.looks, l \in adventure.levels : me = Fresh({}, o, 0, l)
    /\ removals = 0 /\ odd = {}

-----------------------------------------------------------------------------
(* What conditions act upon.                                               *)

isInvisible(b) == \E c \in b.conds : c.kind = "invisible"

hasCondition(b, kind) ==
    kind \notin b.suppressed /\ \E c \in b.conds : c.kind = kind /\ c.sub = 0 /\ c.left >= 0

changeSpeed(b, delta) == [b EXCEPT !.varSpeed = @ + delta]

internalCreatureChangeOutfit(b, o) ==
    [b EXCEPT !.look = o, !.shown = IF isInvisible(b) THEN @ ELSE o]

internalCreatureChangeVisible(b, visible) ==
    [b EXCEPT !.shown = IF visible THEN b.look ELSE Unmounted(NoLook)]

isMounted(b) == b.default.mount

dismount(b) == [changeSpeed(b, -MountSpeed) EXCEPT !.default.mount = FALSE]

-----------------------------------------------------------------------------
(* The classes of conditions.                                              *)

\* ConditionSpeed; addCondition() asks only whether the old one is permanent.
startSpeed(b, c) == changeSpeed(b, c.val)
endSpeed(b, c) == changeSpeed(b, -c.val)
addSpeed(b, r, old, new) ==
    IF old.left = Forever /\ new.left < Forever THEN b ELSE changeSpeed(r, new.val - old.val)

\* ConditionManaShield; addCondition() asks nothing.
startManaShield(b, c) == [b EXCEPT !.manaShield = c.val]
endManaShield(b) == [b EXCEPT !.manaShield = 0]
addManaShield(r, new) == startManaShield(r, new)

\* Condition::updateCondition(): not for one that lasts longer.
updateCondition(old, new) == new.left >= old.left

\* ConditionInvisible, with the addCondition() of ConditionGeneric.
startInvisible(b) == internalCreatureChangeVisible(b, FALSE)
endInvisible(b) == IF isInvisible(b) THEN b ELSE internalCreatureChangeVisible(b, TRUE)
addInvisible(b, r, old, new) == IF updateCondition(old, new) THEN r ELSE b

\* ConditionOutfit, with a look of its own.  One given by a monster's name is
\* looked up at its start.  Left out: a renewal that names the monster of the
\* first start keeps the look the condition has (condition.cpp:1692), and that
\* is shown.
startOutfit(b, c) == internalCreatureChangeOutfit(b, Unmounted(c.val))
endOutfit(b) == internalCreatureChangeOutfit(b, b.default)
addOutfit(b, r, old, new) == IF updateCondition(old, new) THEN startOutfit(r, new) ELSE b

\* ConditionAttributes; addCondition() does not set whether defence may be used.
startAttributes(b, c) == [b EXCEPT !.canUseDefense = ~c.off, !.varSkill = @ + c.val]
endAttributes(b, c) == [b EXCEPT !.varSkill = @ - c.val, !.canUseDefense = @ \/ c.off]
addAttributes(b, r, old, new) ==
    IF updateCondition(old, new) THEN [endAttributes(r, old) EXCEPT !.varSkill = @ + new.val] ELSE b

startCondition(b, c) ==
    CASE c.kind \in SpeedKinds -> startSpeed(b, c)
      [] c.kind = "invisible" -> startInvisible(b)
      [] c.kind = "outfit" -> startOutfit(b, c)
      [] c.kind = "manashield" -> startManaShield(b, c)
      [] c.kind = "attributes" -> startAttributes(b, c)

\* The condition is no longer in the list.
endCondition(b, c) ==
    CASE c.kind \in SpeedKinds -> endSpeed(b, c)
      [] c.kind = "invisible" -> endInvisible(b)
      [] c.kind = "outfit" -> endOutfit(b)
      [] c.kind = "manashield" -> endManaShield(b)
      [] c.kind = "attributes" -> endAttributes(b, c)

\* Fault: the speed of the new condition is added, that of the old one stays.
renewAdding(b, old, new) ==
    LET r == [b EXCEPT !.conds = (@ \ {old}) \cup {new}]
    IN  IF old.kind \in SpeedKinds THEN changeSpeed(r, new.val)
        ELSE IF updateCondition(old, new) THEN r ELSE b

\* addCondition() of a condition for another one with the same key, whose
\* values it takes over.
renew(b, old, new) ==
    LET r == [b EXCEPT !.conds = (@ \ {old}) \cup {new}]
    IN  CASE old.kind \in SpeedKinds -> addSpeed(b, r, old, new)
          [] old.kind = "invisible" -> addInvisible(b, r, old, new)
          [] old.kind = "outfit" -> addOutfit(b, r, old, new)
          [] old.kind = "manashield" -> addManaShield(r, new)
          [] old.kind = "attributes" -> addAttributes(b, r, old, new)

-----------------------------------------------------------------------------
(* The list.                                                               *)

\* Each is taken off the list and ended.
RemoveAll(b, S) == FoldSet(LAMBDA c, a : endCondition(a, c), [b EXCEPT !.conds = @ \ S], S)

OfKind(b, kind) == {c \in b.conds : c.kind = kind}

\* Fault: haste and paralysis do not end each other.
playerOnAddConditionBoth(b, kind) ==
    IF kind = "outfit" /\ isMounted(b) THEN dismount(b) ELSE b

\* Player::onAddCondition()
playerOnAddCondition(b, kind) ==
    CASE kind = "paralyze" /\ hasCondition(b, "haste") -> RemoveAll(b, OfKind(b, "haste"))
      [] kind = "haste" /\ hasCondition(b, "paralyze") -> RemoveAll(b, OfKind(b, "paralyze"))
      [] kind = "outfit" /\ isMounted(b) -> dismount(b)
      [] OTHER -> b

SameKey(c, d) == c.kind = d.kind /\ c.id = d.id /\ c.sub = d.sub

addCondition(b, c) ==
    LET prevs == {d \in b.conds : SameKey(c, d)}
        started == startCondition(b, c)
    IN  IF prevs # {} THEN renew(b, CHOOSE d \in prevs : TRUE, c)
        ELSE playerOnAddCondition([started EXCEPT !.conds = @ \cup {c}], c.kind)

\* Condition::isPersistent()
isPersistent(c) == c.left # Forever /\ c.id <= 0

-----------------------------------------------------------------------------
(* For the property only.                                                  *)

\* Two conditions of a class write the same field.
Met(b) ==
    {kind \in {"outfit", "manashield"} : Cardinality(OfKind(b, kind)) > 1}
      \cup {c.kind : c \in {c \in OfKind(b, "attributes") : c.off /\ OfKind(b, "attributes") # {c}}}

\* Both speeds came back from the database.
BothSpeeds(b) == {"speed" : x \in {x \in {SpeedKinds} : x \subseteq {c.kind : c \in b.conds}}}

Record(labels) == odd' = odd \cup labels \cup Met(me')

-----------------------------------------------------------------------------
(* Equipment.  An item that is transformed when it is put on acts in its   *)
(* worn form only: for the other one no ability is enabled.                *)

ItemCondition(kind, s) == [kind |-> kind, id |-> s, sub |-> 0, left |-> Forever, val |-> 0, off |-> FALSE]

GiveSkill(b, n) == [b EXCEPT !.varSkill = @ + n]

\* MoveEvent::EquipItem(), once the player meets what the item requires.
EquipItem(b, s) ==
    LET seen == IF Gear[s].invisible THEN addCondition(b, ItemCondition("invisible", s)) ELSE b
        safe == IF Gear[s].manaShield THEN addCondition(seen, ItemCondition("manashield", s)) ELSE seen
    IN  IF s \in b.enabled THEN b
        ELSE [GiveSkill(changeSpeed(safe, Gear[s].speed), Gear[s].skill[b.level]) EXCEPT
                 !.enabled = @ \cup {s}, !.suppressed = @ \cup Gear[s].suppress]

\* MoveEvent::DeEquipItem(): a percentage is taken of what the player has by now.
DeEquipItem(b, s) ==
    LET lost == {c \in b.conds : c.id = s /\ c.kind \in {"invisible", "manashield"}}
    IN  IF s \notin b.enabled THEN b
        ELSE [GiveSkill(changeSpeed(RemoveAll(b, lost), -Gear[s].speed), -Gear[s].skill[b.level]) EXCEPT
                 !.enabled = @ \ {s}, !.suppressed = @ \ Gear[s].suppress]

EquipAll(b, S) == FoldSet(LAMBDA s, a : EquipItem(a, s), b, S)

\* Items leave their slots.
LoseAll(b, S) == FoldSet(LAMBDA s, a : DeEquipItem(a, s), [b EXCEPT !.slots = @ \ S], S)

\* Two worn items suppress the same condition; the bit is cleared with the first.
Shared(b, S) ==
    {"suppress" : s \in {s \in S \cap b.enabled : \E r \in b.enabled \ {s} :
        Gear[r].suppress \cap Gear[s].suppress # {}}}

PutOn(s, meets) ==
    /\ me.alive /\ s \notin me.slots
    /\ LET b == [me EXCEPT !.slots = @ \cup {s}] IN me' = IF meets THEN EquipItem(b, s) ELSE b
    /\ Record({})
    /\ UNCHANGED removals

TakeOff(s) ==
    /\ me.alive /\ s \in me.slots
    /\ me' = LoseAll(me, {s})
    /\ Record(Shared(me, {s}))
    /\ UNCHANGED removals

\* Decay::internalDecayItem() for an item that is worn, or that the player only
\* carries, and turns into another one, here one without abilities: skills and
\* stats are taken back whether the item acts or not, and transformItem() calls
\* DeEquipItem(), which takes them back again.
Decays(s) ==
    LET b == GiveSkill(me, -Gear[s].skill[me.level])
    IN  /\ me' = IF s \in me.slots THEN LoseAll(b, {s}) ELSE b
        /\ Record(Shared(me, {s}) \cup {"skill" : n \in {Gear[s].skill[me.level]} \ {0}})
        /\ UNCHANGED removals

\* Some item that acts gives more or less at another level.
Outgrown(b, l) == {"skill" : s \in {s \in b.enabled : Gear[s].skill[b.level] # Gear[s].skill[l]}}

\* Player::addExperience(), Player::addManaSpent(): what percentages are taken of.
ChangeLevel(l) ==
    /\ me.alive
    /\ me' = [me EXCEPT !.level = l]
    /\ Record(Outgrown(me, l))
    /\ UNCHANGED removals

-----------------------------------------------------------------------------
(* Conditions come and go.                                                 *)

\* A speed that onAddCondition() does not see to be opposed: it is over but not
\* yet removed, has a sub-id, or an old condition is renewed.
Unopposed(b, c) ==
    {"speed" : d \in {d \in b.conds :
        {c.kind, d.kind} = SpeedKinds /\ (~hasCondition(b, d.kind) \/ \E e \in b.conds : SameKey(c, e))}}

\* renew() forgets what a start does: to forbid defence, to dismount.
Renewed(b, c) ==
    {c.kind : d \in {d \in b.conds : SameKey(c, d) /\ (c.off \/ (c.kind = "outfit" /\ isMounted(b)))}}

Cast(c) ==
    /\ me.alive
    /\ me' = addCondition(me, c)
    /\ Record(Unopposed(me, c) \cup Renewed(me, c))
    /\ UNCHANGED removals

\* The time of all conditions goes on; executeConditions() finds out later.
Clock ==
    /\ \E c \in me.conds : c.left \in 0..(Forever - 1)
    /\ me' = [me EXCEPT !.conds = {[c EXCEPT !.left = IF @ \in 0..(Forever - 1) THEN @ - 1 ELSE @] : c \in me.conds}]
    /\ UNCHANGED <<removals, odd>>

\* Creature::executeConditions()
Think ==
    /\ me.alive
    /\ \E c \in me.conds : c.left < 0
    /\ me' = RemoveAll(me, {c \in me.conds : c.left < 0})
    /\ UNCHANGED <<removals, odd>>

\* luaCreatureRemoveCondition(): of this id with any sub-id.  A paralysis ends
\* only when the walk is over.
ScriptRemoves(kind, id) ==
    /\ me.alive
    /\ \E c \in me.conds : c.kind = kind /\ c.id = id /\ c.sub = 0
    /\ \/ /\ me' = RemoveAll(me, {c \in me.conds : c.kind = kind /\ c.id = id})
          /\ UNCHANGED removals
       \/ /\ kind = "paralyze" /\ removals < MaxRemovals
          /\ removals' = removals + 1
          /\ UNCHANGED me
    /\ UNCHANGED odd

\* Game::forceRemoveCondition(), of whatever paralysis there is by now.
ForceRemove ==
    /\ removals > 0
    /\ removals' = removals - 1
    /\ me' = IF me.alive THEN RemoveAll(me, {c \in OfKind(me, "paralyze") : c.id = 0}) ELSE me
    /\ UNCHANGED odd

\* Conditions that were over but not removed get new time.
Revived(S) == {IF c.kind \in SpeedKinds THEN "speed" ELSE c.kind : c \in {c \in S : c.left < 0}}

\* Creature::removeCombatCondition(), Player::onCombatRemoveCondition(): what
\* comes from an item stays, but in an enforced-PvP world the item may be
\* destroyed; who may not act yet keeps the condition for as long.
Dispel(kind, lost, acts, delay) ==
    LET own == {c \in OfKind(me, kind) : c.id <= 0}
        b == LoseAll(me, lost)
        over == acts \/ kind = "paralyze"
    IN  /\ me.alive /\ OfKind(me, kind) # {}
        /\ lost \subseteq {c.id : c \in OfKind(me, kind) \ own} \cap me.slots
        /\ me' = IF over THEN RemoveAll(b, own)
                 ELSE [b EXCEPT !.conds = (@ \ own) \cup {[c EXCEPT !.left = delay] : c \in own}]
        /\ Record(Shared(me, lost) \cup (IF over THEN {} ELSE Revived(own)))
        /\ UNCHANGED removals

\* Game::combatChangeHealth(), as far as the magic shield is concerned; mana
\* may be used up.
HitShield(damage, dry) ==
    LET spent == me.manaShield > 0 /\ (damage >= me.manaShield \/ dry)
    IN  /\ me.alive /\ hasCondition(me, "manashield")
        /\ me' = IF spent THEN RemoveAll(me, OfKind(me, "manashield"))
                 ELSE [me EXCEPT !.manaShield = IF @ > 0 THEN @ - damage ELSE @]
        /\ UNCHANGED <<removals, odd>>

-----------------------------------------------------------------------------
(* Mount, outfit, zones, death and login.                                  *)

\* Player::toggleMount(), once it is not refused for other reasons.
toggleMount(b, mount) ==
    CASE mount /\ ~isMounted(b) /\ ~b.pz /\ ~hasCondition(b, "outfit") ->
           LET m == [changeSpeed(b, MountSpeed) EXCEPT !.default.mount = TRUE]
           IN  internalCreatureChangeOutfit(m, m.default)
      [] ~mount /\ isMounted(b) ->
           LET m == dismount(b) IN internalCreatureChangeOutfit(m, m.default)
      [] OTHER -> b

ToggleMount(mount) ==
    /\ me.alive
    /\ me' = toggleMount(me, mount)
    /\ UNCHANGED <<removals, odd>>

\* Game::playerChangeOutfit(): a mount is asked for or not.  For an outfit the
\* player may not wear he has dismounted all the same, and nobody is told.
ChangeOutfit(o, mount, canWear) ==
    LET b == IF ~mount /\ isMounted(me) THEN dismount(me) ELSE me
        r == [b EXCEPT !.default = [type |-> o, mount |-> isMounted(b)]]
    IN  /\ me.alive
        /\ me' = IF ~canWear THEN b
                 ELSE IF hasCondition(me, "outfit") THEN r ELSE internalCreatureChangeOutfit(r, r.default)
        /\ odd' = IF ~canWear /\ b # me THEN odd \cup {"outfit"} ELSE odd
        /\ UNCHANGED removals

\* luaCreatureSetOutfit(): the mount is part of the outfit; no speed is changed,
\* and no condition asked for.
ScriptOutfit(o, mount) ==
    LET b == [me EXCEPT !.default = [type |-> o, mount |-> mount]]
    IN  /\ me.alive
        /\ me' = internalCreatureChangeOutfit(b, b.default)
        /\ Record({"mount" : x \in {mount} \ {isMounted(me)}} \cup {c.kind : c \in OfKind(me, "outfit")})
        /\ UNCHANGED removals

\* Player::onChangeZone()
ChangeZone ==
    LET b == dismount(me)
        r == toggleMount([me EXCEPT !.pz = FALSE], TRUE)
    IN  /\ me.alive
        /\ me' = IF ~me.pz
                 THEN IF isMounted(me)
                      THEN [internalCreatureChangeOutfit(b, b.default) EXCEPT !.pz = TRUE, !.wasMounted = TRUE]
                      ELSE [me EXCEPT !.pz = TRUE]
                 ELSE IF me.wasMounted THEN [r EXCEPT !.wasMounted = FALSE] ELSE [me EXCEPT !.pz = FALSE]
        /\ UNCHANGED <<removals, odd>>

\* Creature::dropCorpse(), Player::death(): some items are lost, then levels, and
\* what is persistent ends.
LoseLife(lost, l) ==
    LET b == LoseAll(me, lost)
    IN  /\ me.alive /\ lost \subseteq me.slots
        /\ me' = [RemoveAll([b EXCEPT !.level = l], {c \in b.conds : isPersistent(c)}) EXCEPT !.alive = FALSE]
        /\ Record(Shared(me, lost) \cup Outgrown(b, l))
        /\ UNCHANGED removals

\* Player::spawn(): onCreatureAppear() equips and starts nothing, for it is no login.
Reappear(pz) ==
    /\ ~me.alive
    /\ me' = [me EXCEPT !.alive = TRUE, !.pz = pz]
    /\ UNCHANGED <<removals, odd>>

\* Logging out and in again: what is saved, then Player::onCreatureAppear().
\* Only these conditions come back, with a full magic shield and without the
\* ban on defence, which is not written.
Relog(met, pz, order) ==
    LET b == [Fresh(me.slots, me.default.type, me.manaShield, me.level) EXCEPT !.pz = pz]
        Loaded(c) == [c EXCEPT !.left = IF @ > 0 THEN @ ELSE -1, !.off = FALSE]
    IN  /\ me' = FoldLeft(LAMBDA a, c : addCondition(a, Loaded(c)), EquipAll(b, met), order)
        /\ odd' = Met(me') \cup BothSpeeds(me') \cup {"manashield" : n \in
              {n \in {me.manaShield} : n > 0 /\ \A c \in Range(order) : c.kind # "manashield"}}
        /\ removals' = 0

CondSteps ==
    \/ \E c \in adventure.spells : Cast(c)
    \/ \E s \in adventure.slots, meets \in BOOLEAN : PutOn(s, meets)
    \/ \E s \in me.slots : TakeOff(s)
    \/ \E s \in adventure.slots : Decays(s)
    \/ \E l \in adventure.levels : ChangeLevel(l)
    \/ Clock \/ Think \/ ForceRemove \/ ChangeZone
    \/ \E c \in {c \in me.conds : c.id <= 0} : ScriptRemoves(c.kind, c.id)
    \/ \E c \in me.conds, lost \in SUBSET me.slots, acts \in BOOLEAN, delay \in Delays :
          Dispel(c.kind, lost, acts, delay)
    \/ \E damage \in {1}, dry \in BOOLEAN : HitShield(damage, dry)
    \/ \E mount \in BOOLEAN : ToggleMount(mount)
    \/ \E o \in adventure.looks, mount, canWear \in BOOLEAN : ChangeOutfit(o, mount, canWear)
    \/ \E o \in adventure.styles, mount \in BOOLEAN : ScriptOutfit(o, mount)
    \/ \E lost \in SUBSET me.slots, l \in adventure.levels : LoseLife(lost, l)
    \/ \E pz \in BOOLEAN : Reappear(pz)
    \/ \E met \in SUBSET me.slots, pz \in BOOLEAN, order \in SetToSeqs({c \in me.conds : isPersistent(c)}) :
          Relog(met, pz, order)

CondNext ==
    /\ CondSteps
    /\ UNCHANGED adventure
    /\ "skill" \in odd' => me'.varSkill \in -MaxStray..MaxStray
    /\ "mount" \in odd' => me'.varSpeed \in -MaxStray..MaxStray

CondSpec == CondInit /\ [][CondNext]_condVars

-----------------------------------------------------------------------------
(* Properties.                                                             *)

SumVal(S) == SumFunction([c \in S |-> c.val])
GearSpeed(S) == SumFunction([s \in S |-> Gear[s].speed])
GearSkill(S, l) == SumFunction([s \in S |-> Gear[s].skill[l]])

\* What a player is left with is what is in force on him: his speed and skill
\* are the sums of what his conditions, his mount and his equipment give,
\* whatever order they came and went in; the others see what he looks like; his
\* look is that of his outfit condition or his own; haste and paralysis are not
\* in force together; defence is forbidden and the magic shield is up exactly
\* as long as a condition says so; worn equipment acts and nothing else does.
\* (Creature::addCondition and removeCondition, the classes of condition.cpp,
\* MoveEvent::EquipItem and DeEquipItem, Player::toggleMount.)  Excepted, from
\* the step that leads there, is what the code loses: two conditions of a class
\* that write the same field (one ends, and the field is reset); a renewed
\* condition, whose start is not repeated; a condition that is over but not
\* removed, or has a sub-id, which onAddCondition() does not find, and one that
\* a dispel gives new time; an outfit refused after the dismount; two items
\* that suppress the same; the column `manashield`, loaded without a condition;
\* an item that decays, whose skills are taken back twice, or were never given;
\* an item that gives a percentage, worn through a change of level; an outfit
\* that a script sets, with another mount or over that of a condition.
ConditionsSound ==
    LET speeds == {c \in me.conds : c.kind \in SpeedKinds}
        outfits == OfKind(me, "outfit")
        inForce == {c.kind : c \in {c \in speeds : c.left >= 0}}
    IN  /\ \A c, d \in me.conds : SameKey(c, d) => c = d
        /\ \/ "mount" \in odd
           \/ me.varSpeed = SumVal(speeds) + (IF isMounted(me) THEN MountSpeed ELSE 0)
                 + GearSpeed(me.enabled)
        /\ \/ "skill" \in odd
           \/ me.varSkill = SumVal(OfKind(me, "attributes")) + GearSkill(me.enabled, me.level)
        /\ me.shown = IF isInvisible(me) THEN Unmounted(NoLook) ELSE me.look
        /\ me.enabled \subseteq me.slots
        /\ "outfit" \notin odd =>
              /\ outfits = {} => me.look = me.default
              /\ \A c \in outfits : c.left >= 0 => me.look = Unmounted(c.val)
        /\ "speed" \in odd \/ inForce # SpeedKinds
        /\ "attributes" \in odd \/ me.canUseDefense = ~\E c \in me.conds : c.off
        /\ "manashield" \in odd \/ (me.manaShield > 0 <=> \E c \in OfKind(me, "manashield") : c.val > 0)
        /\ \A s \in me.enabled :
              /\ Gear[s].invisible => ItemCondition("invisible", s) \in me.conds
              /\ Gear[s].manaShield => ItemCondition("manashield", s) \in me.conds \/ "manashield" \in odd
        /\ "suppress" \in odd \/ me.suppressed = UNION {Gear[s].suppress : s \in me.enabled}
=============================================================================
