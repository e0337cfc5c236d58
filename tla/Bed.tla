--------------------------------- MODULE Bed ---------------------------------
(***************************************************************************)
(* Who is in a house and who sleeps in its beds (bed.cpp, housetile.cpp,   *)
(* the dialog of game.cpp).  A bed is asked for with a dialog: between the *)
(* question and the answer, and in the 50 ms between falling asleep and    *)
(* being logged out, everybody goes on.  Beds are saved with the map, not  *)
(* with the sleepers.  The two halves of a bed are always written together *)
(* and are one bed here.  Module House keeps the lists and their rows;     *)
(* here only who is invited matters.  What sleep restores is not kept.     *)
(***************************************************************************)
EXTENDS House

CONSTANTS Guests,      \* the players
          Tenants,     \* those of them who may own the house
          Beds,        \* the beds of the house, by the order of their tiles
          NoBed

ASSUME BedAssumption ==
    /\ IsFiniteSet(Beds) /\ Beds = 1..Cardinality(Beds) /\ NoBed \notin Beds
    /\ NoResident \notin Guests /\ Tenants \subseteq Guests

VARIABLES online,         \* players in the game
          inside,         \* those of them who stand on a tile of the house
          tenant,         \* owner of the house
          invited,        \* guest and sub-owner lists
          sleeperGUID,    \* of each bed
          bedSleepersMap, \* Game: the bed of each sleeper
          bedItem,        \* Player: the bed the dialog is about
          dialog,         \* players whose dialog is open
          kicks,          \* players whom the scheduler will log out
          dead,           \* players who died and have not respawned yet
          bedRow,         \* sleeperGUID as last saved
          twice,          \* who went to bed once more before the log-out (history)
          risen           \* who respawned while the map says he sleeps (history)

peopleVars == <<online, inside, dialog, kicks, dead, risen>>
bedVars == <<peopleVars, tenant, invited, sleeperGUID, bedSleepersMap, bedItem, bedRow, twice>>

BedInit ==
    /\ online = {} /\ inside = {} /\ tenant = NoResident /\ invited = {}
    /\ sleeperGUID = [b \in Beds |-> NoResident]
    /\ bedSleepersMap = [p \in Guests |-> NoBed]
    /\ bedItem = [p \in Guests |-> NoBed]
    /\ dialog = {} /\ kicks = {} /\ dead = {} /\ twice = {} /\ risen = {}
    /\ bedRow = sleeperGUID

\* getHouseAccessLevel() tells the owner and the staff from the others.
isOwner(p) == p \in Staff \/ p = tenant

isInvited(p) == isOwner(p) \/ p \in invited

\* Fault: the bed is free, but the sleeper is still looked for in it.
wakeUpUnlisted(beds) ==
    /\ sleeperGUID' = [b \in Beds |-> IF b \in beds THEN NoResident ELSE sleeperGUID[b]]
    /\ UNCHANGED bedSleepersMap

\* BedItem::wakeUp() of these beds
wakeUp(beds) ==
    LET woken == {sleeperGUID[b] : b \in beds}
    IN  /\ sleeperGUID' = [b \in Beds |-> IF b \in beds THEN NoResident ELSE sleeperGUID[b]]
        /\ bedSleepersMap' = [p \in Guests |-> IF p \in woken THEN NoBed ELSE bedSleepersMap[p]]

\* HouseTile::queryDestination(): who logged out in the house appears there
\* again, or before the door.
MayAppearInside(p) == isInvited(p)

\* Player::onCreatureAppear(), after the player was placed.
LogIn(p, in) ==
    /\ p \notin online \cup dead
    /\ in => MayAppearInside(p)
    /\ online' = online \cup {p}
    /\ inside' = IF in THEN inside \cup {p} ELSE inside
    /\ wakeUp({bedSleepersMap[p]} \ {NoBed})
    /\ UNCHANGED <<tenant, invited, bedItem, dialog, kicks, dead, bedRow, twice, risen>>

\* The Player is removed; a later one starts without dialog and bed.
LogOut(p) ==
    /\ p \in online \cup dead
    /\ online' = online \ {p} /\ inside' = inside \ {p} /\ dead' = dead \ {p}
    /\ dialog' = dialog \ {p} /\ kicks' = kicks \ {p} /\ risen' = risen \ {p}
    /\ bedItem' = [bedItem EXCEPT ![p] = NoBed]
    /\ UNCHANGED <<tenant, invited, sleeperGUID, bedSleepersMap, bedRow, twice>>

\* The event of BedItem::sleep(): Game::kickPlayer() does not find the dead.
KickSleeper(p) ==
    /\ p \in kicks
    /\ \/ p \in online /\ LogOut(p)
       \/ /\ p \in dead
          /\ kicks' = kicks \ {p}
          /\ UNCHANGED <<online, inside, tenant, invited, sleeperGUID, bedSleepersMap, bedItem, dialog, dead, bedRow, twice, risen>>

\* Player::death() ends with despawn(); the Player, its dialog and its bed stay.
Die(p) ==
    /\ p \in online
    /\ online' = online \ {p} /\ inside' = inside \ {p} /\ dead' = dead \cup {p}
    /\ UNCHANGED <<tenant, invited, sleeperGUID, bedSleepersMap, bedItem, dialog, kicks, bedRow, twice, risen>>

\* Player::spawn() in the temple is no log-in: onCreatureAppear() wakes nobody.
Rise(p) ==
    /\ p \in dead
    /\ online' = online \cup {p} /\ dead' = dead \ {p}
    /\ risen' = IF bedSleepersMap[p] = NoBed THEN risen ELSE risen \cup {p}
    /\ UNCHANGED <<inside, tenant, invited, sleeperGUID, bedSleepersMap, bedItem, dialog, kicks, bedRow, twice>>

\* HouseTile::queryAdd(): only those who are invited get in.
WalkIn(p) ==
    /\ p \in online \ inside /\ isInvited(p)
    /\ inside' = inside \cup {p}
    /\ UNCHANGED <<online, tenant, invited, sleeperGUID, bedSleepersMap, bedItem, dialog, kicks, dead, bedRow, twice, risen>>

WalkOut(p) ==
    /\ p \in inside
    /\ inside' = inside \ {p}
    /\ UNCHANGED <<online, tenant, invited, sleeperGUID, bedSleepersMap, bedItem, dialog, kicks, dead, bedRow, twice, risen>>

\* House::kickPlayer() by a player of no lower rank.
KickGuest(p, q) ==
    /\ q \notin Staff
    /\ isOwner(p) \/ (isInvited(p) /\ q # tenant) \/ ~isInvited(q)
    /\ WalkOut(q)

-----------------------------------------------------------------------------
(* Beds.                                                                   *)

\* BedItem::canUse(): of one's own house, or of a sleeper of no higher rank.
canUseBed(p, b) ==
    \/ sleeperGUID[b] = NoResident
    \/ isOwner(p)
    \/ ~isOwner(sleeperGUID[b]) /\ (isInvited(sleeperGUID[b]) => isInvited(p))

\* BedItem::trySleep() of a bed that is taken: the owner throws the sleeper out.
trySleepTaken(p, b) ==
    /\ sleeperGUID[b] # NoResident /\ p = tenant
    /\ wakeUp({b})

\* Actions::internalUseItem(); for a free bed the dialog is shown.
UseBed(p, b) ==
    /\ p \in inside /\ canUseBed(p, b)
    /\ \/ trySleepTaken(p, b) /\ UNCHANGED <<bedItem, dialog>>
       \/ /\ sleeperGUID[b] = NoResident
          /\ bedItem' = [bedItem EXCEPT ![p] = b]
          /\ dialog' = dialog \cup {p}
          /\ UNCHANGED <<sleeperGUID, bedSleepersMap>>
    /\ UNCHANGED <<online, inside, tenant, invited, kicks, dead, bedRow, twice, risen>>

\* Fault: whether the bed is still free is not asked again.
StillFreeOf(b) == TRUE

\* The first lines of BedItem::sleep()
StillFree(b) == sleeperGUID[b] = NoResident

\* BedItem::sleep(), from wherever the player is by now: map.moveCreature()
\* asks nobody.
sleep(p, b) ==
    /\ b # NoBed /\ StillFree(b)
    /\ sleeperGUID' = [sleeperGUID EXCEPT ![b] = p]
    /\ bedSleepersMap' = [bedSleepersMap EXCEPT ![p] = b]
    /\ inside' = inside \cup {p}
    /\ kicks' = kicks \cup {p}
    /\ twice' = IF bedSleepersMap[p] = NoBed THEN twice ELSE twice \cup {p}

\* Game::playerAnswerModalWindow()
AnswerDialog(p, yes) ==
    LET b == bedItem[p]
    IN  /\ p \in dialog \cap online
        /\ dialog' = dialog \ {p}
        /\ \/ yes /\ sleep(p, b) /\ UNCHANGED bedItem
           \/ /\ ~yes \/ b = NoBed \/ ~StillFree(b)
              /\ bedItem' = [bedItem EXCEPT ![p] = NoBed]
              /\ UNCHANGED <<sleeperGUID, bedSleepersMap, inside, kicks, twice>>
        /\ UNCHANGED <<online, tenant, invited, dead, bedRow, risen>>

-----------------------------------------------------------------------------
(* The house.                                                              *)

\* House::setAccessList(): those who are no longer invited are put out.
SetGuests(S) ==
    /\ tenant # NoResident \/ Staff # {}
    /\ invited' = S
    /\ inside' = {p \in inside : isOwner(p) \/ p \in S}
    /\ UNCHANGED <<online, tenant, sleeperGUID, bedSleepersMap, bedItem, dialog, kicks, dead, bedRow, twice, risen>>

\* House::setOwner(): of a house that has an owner everybody but the staff is
\* put out, the sleepers are woken and the lists cleared.
NewTenant(p) ==
    /\ tenant # p
    /\ tenant' = p
    /\ \/ /\ tenant # NoResident
          /\ inside' = inside \cap Staff /\ invited' = {}
          /\ wakeUp({b \in Beds : sleeperGUID[b] # NoResident})
       \/ /\ tenant = NoResident
          /\ UNCHANGED <<inside, invited, sleeperGUID, bedSleepersMap>>
    /\ UNCHANGED <<online, bedItem, dialog, kicks, dead, bedRow, twice, risen>>

\* IOMapSerialize::saveHouseItems(), one transaction
SaveBeds ==
    /\ bedRow' = sleeperGUID
    /\ UNCHANGED <<peopleVars, tenant, invited, sleeperGUID, bedSleepersMap, bedItem, twice>>

\* A restart: BedItem::readAttr() for each bed of the last save in turn.  The
\* lists are those of the last save, too: any.
RestartBeds(S) ==
    /\ online' = {} /\ inside' = {} /\ dialog' = {} /\ kicks' = {} /\ dead' = {} /\ risen' = {}
    /\ bedItem' = [p \in Guests |-> NoBed]
    /\ invited' = S
    /\ sleeperGUID' = bedRow
    /\ bedSleepersMap' = [p \in Guests |->
          LET beds == {b \in Beds : bedRow[b] = p}
          IN  IF beds = {} THEN NoBed ELSE CHOOSE b \in beds : \A c \in beds : c <= b]
    /\ UNCHANGED <<tenant, bedRow, twice>>

BedNext ==
    \/ \E p \in Guests : LogOut(p) \/ KickSleeper(p) \/ Die(p) \/ Rise(p) \/ WalkIn(p) \/ WalkOut(p)
    \/ \E p, q \in Guests : KickGuest(p, q)
    \/ \E p \in Guests, in \in BOOLEAN : LogIn(p, in)
    \/ \E p \in Guests, b \in Beds : UseBed(p, b)
    \/ \E p \in Guests, yes \in BOOLEAN : AnswerDialog(p, yes)
    \/ \E S \in Texts : SetGuests(S) \/ RestartBeds(S)
    \/ \E p \in Tenants \cup {NoResident} : NewTenant(p)
    \/ SaveBeds

BedSpec == BedInit /\ [][BedNext]_bedVars

-----------------------------------------------------------------------------
(* Properties.                                                             *)

\* Nobody is in the house uninvited, but for sleepers about to be logged out
\* (who may answer the dialog after they were put out).  The map of sleepers
\* names beds they are in; nobody plays on while the map says he sleeps, unless
\* he died and respawned before the scheduler logged him out; and every sleeper
\* is woken by his next log-in, unless he went to a second bed before he was
\* logged out.
BedsSound ==
    /\ \A p \in inside : isInvited(p) \/ p \in kicks
    /\ \A p \in Guests : bedSleepersMap[p] # NoBed => sleeperGUID[bedSleepersMap[p]] = p
    /\ \A p \in online : bedSleepersMap[p] # NoBed => p \in kicks \cup risen
    /\ \A b \in Beds : LET p == sleeperGUID[b]
                       IN  p # NoResident => bedSleepersMap[p] = b \/ p \in twice

\* What a house remembers of its people, in memory and in its rows, belongs to
\* the present owner and to those who are really there (house.cpp, bed.cpp).
HouseSound == HouseBooks /\ BedsSound
=============================================================================
