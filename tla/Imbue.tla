-------------------------------- MODULE Imbue ---------------------------------
(***************************************************************************)
(* Imbuements: what is worn gives its bonus as long as the imbuement in it *)
(* lasts (player.cpp, game.cpp, movement.cpp).  Three things have to agree *)
(* and are written at different places: the time left, kept by the item;   *)
(* the bonus, kept by the player; and Game::playersActiveImbuements, the   *)
(* count by which checkImbuements() knows whom to visit.                   *)
(*                                                                         *)
(* Every item has one slot for an imbuement, and its imbuement adds one    *)
(* unit of something that no other one gives.  Left out are items with     *)
(* several slots, whose imbuements run down together as long as the count  *)
(* was not 0 before the item (player.cpp:479), and bonusCapacity, which is *)
(* assigned and not added to.  What an application costs, and that it may  *)
(* fail, changes nothing here.                                             *)
(***************************************************************************)
EXTENDS Conditions

CONSTANTS Wearers,     \* players
          Wares,       \* items, in the order of their inventory slots
          Hands,       \* bound: the items a player may pick up
          Busy,        \* bound: those who open the window and leave the game
          Aggressive,  \* those whose imbuement lasts when there is no fight
          NoWearer, NoWare,
          SlotCount,   \* the inventory slots of a player (CONST_SLOT_LAST)
          Lasting,     \* duration of an imbuement, in rounds of checkImbuements()
          Byte,        \* counts are modulo this (2^8)
          MaxDrift     \* bound on a bonus that has gone wrong

ASSUME ImbueAssumption ==
    /\ Wares \subseteq Nat /\ Aggressive \subseteq Wares /\ Hands \in [Wearers -> SUBSET Wares]
    /\ Busy \subseteq Wearers
    /\ NoWearer \notin Wearers /\ NoWare \notin Wares /\ Wares \cap Wearers = {}
    /\ IsFiniteSet(Wares) /\ SlotCount \in Nat /\ SlotCount < Byte
    /\ Lasting \in Nat \ {0} /\ Byte \in Nat \ {0} /\ MaxDrift \in Nat \ {0}

VARIABLES imbue,       \* players, their items and Game::playersActiveImbuements
          drifted      \* what the property excepts: items and players (history)

imbueVars == <<imbue, drifted>>

ImbueInit ==
    /\ imbue = [owner |-> [i \in Wares |-> NoWearer],      \* who carries it
                worn |-> {}, enabled |-> {},               \* in its slot; isItemAbilityEnabled()
                left |-> [i \in Wares |-> 0],
                bonus |-> [p \in Wearers |-> [i \in Wares |-> 0]],
                active |-> [p \in Wearers |-> 0],          \* no entry: 0
                imbuingItem |-> [p \in Wearers |-> NoWare],
                online |-> Wearers,                        \* there is an object of theirs
                dead |-> {}]                               \* ... which is not in Game::players
    /\ drifted = {}

-----------------------------------------------------------------------------
\* The imbuements in the items S.
addItemImbuementStats(g, p, S) ==
    [g EXCEPT !.bonus[p] = [i \in Wares |-> IF i \in S THEN @[i] + 1 ELSE @[i]]]
removeItemImbuementStats(g, p, S) ==
    [g EXCEPT !.bonus[p] = [i \in Wares |-> IF i \in S THEN @[i] - 1 ELSE @[i]]]

\* n times.
increasePlayerActiveImbuements(g, p, n) == [g EXCEPT !.active[p] = (@ + n) % Byte]
decreasePlayerActiveImbuements(g, p, n) == [g EXCEPT !.active[p] = (@ - n) % Byte]

\* Game::getPlayerByID() finds the player.
Found(g) == g.online \ g.dead

WornBy(g, p) == {i \in g.worn : g.owner[i] = p}

Lasts(g, S) == {i \in S : g.left[i] > 0}

\* Those that give their bonus, and by rights are counted.
Giving(g, p) == Lasts(g, WornBy(g, p) \cap g.enabled)

\* MoveEvent::EquipItem() of items whose requirements the player meets.
EquipImbued(g, p, S) ==
    LET gives == Lasts(g, S \ g.enabled)
        e == [g EXCEPT !.enabled = @ \cup S]
    IN  increasePlayerActiveImbuements(addItemImbuementStats(e, p, gives), p, Cardinality(gives))

\* MoveEvent::DeEquipItem()
DeEquipImbued(g, p, i) ==
    LET gave == Lasts(g, {i} \cap g.enabled)
        e == [g EXCEPT !.enabled = @ \ {i}]
    IN  decreasePlayerActiveImbuements(removeItemImbuementStats(e, p, gave), p, Cardinality(gave))

\* Fault: what runs out keeps its bonus.
RunDownKept(g, S) == [g EXCEPT !.left = [i \in Wares |-> IF i \in S THEN @[i] - 1 ELSE @[i]]]

\* One round passes for the imbuements in the items S, whoever wears them.
RunDown(g, S) ==
    LET Over(p) == {i \in S : g.left[i] = 1 /\ g.owner[i] = p}
    IN  [g EXCEPT !.left = [i \in Wares |-> IF i \in S THEN @[i] - 1 ELSE @[i]],
                  !.bonus = [p \in Wearers |->
                                [i \in Wares |-> IF i \in Over(p) THEN @[p][i] - 1 ELSE @[p][i]]],
                  !.active = [p \in Wearers |-> (@[p] - Cardinality(Over(p))) % Byte]]

\* Player::updateInventoryImbuement(false): the items it lets run down, in the
\* order of the slots and no further than the count says.
updateInventoryImbuement(g, p, calm) ==
    LET due == {i \in Lasts(g, WornBy(g, p)) : ~calm \/ i \notin Aggressive}
    IN  {i \in due : Cardinality({j \in due : j < i}) < g.active[p]}

\* Player::updateInventoryImbuement(true), while a player is loaded: the counts
\* go to the id 0, which is nobody's, and nothing has been added to a bonus yet.
\* Nobody is in a fight.
Loading(g, p) ==
    LET S == Lasts(g, WornBy(g, p) \ Aggressive)
    IN  [g EXCEPT !.left = [i \in Wares |-> IF i \in S THEN @[i] - 1 ELSE @[i]],
                  !.bonus[p] = [i \in Wares |-> IF i \in S /\ g.left[i] = 1 THEN -1 ELSE 0]]

-----------------------------------------------------------------------------
(* For the property only.                                                  *)

\* The bonus of i, or the count of p, is no longer kept; a count that agrees
\* again is kept again.
Drifts(S) ==
    drifted' = {x \in drifted \cup S :
        x \in Wearers => imbue'.active[x] # Cardinality(Giving(imbue', x))}

-----------------------------------------------------------------------------
(* Items are carried and worn.                                             *)

Wear(p, i, meets) ==
    /\ p \in Found(imbue) /\ imbue.owner[i] = p /\ i \notin imbue.worn
    /\ Cardinality(WornBy(imbue, p)) < SlotCount
    /\ LET g == [imbue EXCEPT !.worn = @ \cup {i}]
       IN  imbue' = IF meets THEN EquipImbued(g, p, {i}) ELSE g
    /\ Drifts({})

Unwear(p, i) ==
    /\ p \in Found(imbue) /\ i \in WornBy(imbue, p)
    /\ imbue' = DeEquipImbued([imbue EXCEPT !.worn = @ \ {i}], p, i)
    /\ Drifts({})

PickUp(p, i) ==
    /\ p \in Found(imbue) /\ imbue.owner[i] = NoWearer /\ i \in Hands[p]
    /\ imbue' = [imbue EXCEPT !.owner[i] = p]
    /\ UNCHANGED drifted

PutDown(p, i) ==
    /\ p \in Found(imbue) /\ imbue.owner[i] = p /\ i \notin imbue.worn
    /\ imbue' = [imbue EXCEPT !.owner[i] = NoWearer]
    /\ UNCHANGED drifted

-----------------------------------------------------------------------------
(* The window.                                                             *)

openImbuementWindow(p, i) ==
    /\ p \in Found(imbue) \cap Busy /\ imbue.owner[i] = p
    /\ imbue' = [imbue EXCEPT !.imbuingItem[p] = i]
    /\ UNCHANGED drifted

playerCloseImbuementWindow(p) ==
    /\ p \in Found(imbue) /\ imbue.imbuingItem[p] # NoWare
    /\ imbue' = [imbue EXCEPT !.imbuingItem[p] = NoWare]
    /\ UNCHANGED drifted

\* Game::playerApplyImbuement(), Player::onApplyImbuement().  Nothing is
\* counted, and a worn item gives its bonus whether it is enabled or not.
playerApplyImbuement(p) ==
    LET i == imbue.imbuingItem[p]
        g == [imbue EXCEPT !.left[i] = Lasting]
    IN  /\ p \in Found(imbue) /\ i # NoWare
        /\ imbue.owner[i] = p /\ imbue.left[i] = 0
        /\ imbue' = IF i \in imbue.worn THEN addItemImbuementStats(g, p, {i}) ELSE g
        /\ Drifts((IF i \in imbue.worn THEN {p} ELSE {})
                    \cup (IF i \in imbue.worn \ imbue.enabled THEN {i} ELSE {}))

\* Game::playerClearImbuement(), Player::onClearImbuement().  It does not ask
\* who has the item by now, and nothing is counted.
playerClearImbuement(p) ==
    LET i == imbue.imbuingItem[p]
        g == [imbue EXCEPT !.left[i] = 0]
    IN  /\ p \in Found(imbue) /\ i # NoWare
        /\ imbue.left[i] > 0
        /\ imbue' = IF i \in WornBy(imbue, p) THEN removeItemImbuementStats(g, p, {i}) ELSE g
        /\ Drifts(({imbue.owner[i]} \cap Wearers)
                    \cup (IF i \in imbue.worn /\ (imbue.owner[i] # p \/ i \notin imbue.enabled)
                          THEN {i} ELSE {}))

-----------------------------------------------------------------------------
(* Time, death, logging out and in.                                        *)

\* Game::checkImbuements(): players with a count are visited, counts of those
\* who are not found, the dead too, are erased.  A visit that takes a count to 0 erases
\* the entry the loop stands on, so that what follows may be passed over.
checkImbuements(visited, calm) ==
    LET listed == {p \in Wearers : imbue.active[p] > 0}
        g == RunDown(imbue, UNION {updateInventoryImbuement(imbue, p, p \in calm) : p \in visited})
        h == [g EXCEPT !.active = [p \in Wearers |-> IF p \in Found(imbue) THEN @[p] ELSE 0]]
    IN  /\ visited # {} \/ listed \ Found(imbue) # {}
        /\ visited \subseteq listed \cap Found(imbue)
        /\ \/ visited = listed \cap Found(imbue) /\ imbue' = h
           \/ (\E p \in visited : g.active[p] = 0) /\ imbue' = g
        /\ LET idle == {i \in imbue.worn \ imbue.enabled : imbue.left[i] = 1 /\ imbue.owner[i] \in visited}
           IN  Drifts(idle \cup {imbue.owner[i] : i \in idle} \cup imbue.dead)

\* Player::despawn(): nothing is taken off and nothing is uncounted.
Perish(p) ==
    /\ p \in Found(imbue) \cap Busy
    /\ imbue' = [imbue EXCEPT !.dead = @ \cup {p}]
    /\ UNCHANGED drifted

\* Player::spawn(): onCreatureAppear() is not told of a login, so that nothing
\* is put on and nothing is counted again.
Revive(p) ==
    /\ p \in imbue.dead
    /\ imbue' = [imbue EXCEPT !.dead = @ \ {p}]
    /\ UNCHANGED drifted

\* The items are saved with the player; the count stays.
LogOff(p) ==
    /\ p \in imbue.online \cap Busy
    /\ imbue' = [imbue EXCEPT !.online = @ \ {p}, !.dead = @ \ {p}, !.enabled = @ \ WornBy(imbue, p),
                              !.bonus[p] = [i \in Wares |-> 0],
                              !.imbuingItem = [q \in Wearers |->
                                  IF q = p \/ (@[q] \in Wares /\ imbue.owner[@[q]] = p) THEN NoWare ELSE @[q]]]
    /\ Drifts({p})

\* IOLoginData::loadPlayer(), then Player::onCreatureAppear() for what may be worn.
ReturnToGame(p, met) ==
    LET g == Loading(imbue, p)
    IN  /\ p \notin imbue.online /\ met \subseteq WornBy(imbue, p)
        /\ imbue' = [EquipImbued(g, p, met) EXCEPT !.online = @ \cup {p}]
        /\ Drifts({i \in Wares : g.bonus[p][i] # 0} \cup {p})

\* Mail, market, rent and beds load a player who is away and save him.
LoadAndSave(p) ==
    /\ p \notin imbue.online
    /\ imbue' = [imbue EXCEPT !.left = Loading(imbue, p).left]
    /\ imbue' # imbue
    /\ Drifts({})

ImbueSteps ==
    \/ \E p \in Wearers, i \in Wares :
          \/ \E meets \in BOOLEAN : Wear(p, i, meets)
          \/ Unwear(p, i) \/ PickUp(p, i) \/ PutDown(p, i) \/ openImbuementWindow(p, i)
    \/ \E p \in Wearers :
          \/ playerCloseImbuementWindow(p) \/ playerApplyImbuement(p) \/ playerClearImbuement(p)
          \/ Perish(p) \/ Revive(p) \/ LogOff(p) \/ LoadAndSave(p)
          \/ \E met \in SUBSET WornBy(imbue, p) : ReturnToGame(p, met)
    \/ \E visited \in SUBSET Wearers : \E calm \in SUBSET visited : checkImbuements(visited, calm)

\* MaxDrift bounds only bonuses that are wrong already.
ImbueNext ==
    /\ ImbueSteps
    /\ \A p \in Wearers, i \in Wares : imbue'.bonus[p][i] \in -MaxDrift..MaxDrift

ImbueSpec == ImbueInit /\ [][ImbueNext]_imbueVars

-----------------------------------------------------------------------------
(* Properties.                                                             *)

ImbueTypeOK ==
    /\ imbue.owner \in [Wares -> Wearers \cup {NoWearer}]
    /\ imbue.enabled \subseteq imbue.worn /\ imbue.worn \subseteq {i \in Wares : imbue.owner[i] # NoWearer}
    /\ imbue.left \in [Wares -> 0..Lasting]
    /\ imbue.active \in [Wearers -> 0..(Byte - 1)]
    /\ imbue.imbuingItem \in [Wearers -> Wares \cup {NoWare}]
    /\ imbue.bonus \in [Wearers -> [Wares -> Int]]
    /\ imbue.dead \subseteq Wearers

\* A player has the bonus of exactly those imbuements that are in what he wears
\* and that have not run out, once each, and Game::playersActiveImbuements
\* counts them, so that checkImbuements() lets each of them run down.  Excepted
\* are, of the bonuses, that of an item that is imbued, cleared or runs out in
\* a slot where it is not enabled, that is cleared by another player after it
\* changed hands, or that runs out while its player is loaded; and the count of
\* a player from the time he imbued a worn item, had one cleared, lay dead when
\* checkImbuements() came by - the count is erased, and after the respawn what
\* he wears does not run down - or came back before his old count was erased,
\* for as long as it is wrong.
ImbueSound ==
    /\ ImbueTypeOK
    /\ \A p \in imbue.online :
          /\ \A i \in Wares \ drifted : imbue.bonus[p][i] = IF i \in Giving(imbue, p) THEN 1 ELSE 0
          /\ p \in drifted \/ imbue.active[p] = Cardinality(Giving(imbue, p))

\* What a player is left with is what is in force on him, from conditions and
\* equipment (ConditionsSound) and from imbuements (ImbueSound).
GearSound == ConditionsSound /\ ImbueSound
=============================================================================
