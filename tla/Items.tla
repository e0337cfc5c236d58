-------------------------------- MODULE Items --------------------------------
(***************************************************************************)
(* Items on their way between a player's slots, containers and a tile:     *)
(* internalMoveItem(), internalAddItem() and internalRemoveItem() of       *)
(* game.cpp over the three kinds of Cylinder, each with its own            *)
(* queryDestination(), queryAdd(), queryMaxCount() and addThing()          *)
(* (player.cpp, container.cpp, tile.cpp).  What has to agree afterwards is *)
(* kept in several places: parent pointers, lists, counts of stackable     *)
(* items and the cached weights of containers and of the player.           *)
(*                                                                         *)
(* Every action is one task of the dispatcher.  A function of the code is  *)
(* an operator from a state to the state it leaves.  There is one kind of  *)
(* stackable item; reach, blocked tiles and what scripts forbid only make  *)
(* a call return early and are not kept; nor are the limits on the number  *)
(* of items in a container, which the instance cannot reach.               *)
(***************************************************************************)
EXTENDS Integers, Sequences, FiniteSets, SequencesExt, FiniteSetsExt

CONSTANTS Coins,        \* objects that are stacks, in use or free
          Boxes,        \* containers
          Tools,        \* neither
          Paged,        \* containers with pagination: depot chest, gold pouch
          Fixed,        \* containers that cannot be moved
          Owner, Tile,  \* the other two cylinders
          Void,         \* null parent
          Nothing,      \* null item
          Slots,        \* CONST_SLOT_... of the player
          Dressable,    \* what queryAdd() lets into each slot
          Room,         \* capacity(): visible places of a container
          MaxStack,     \* 100 in the code
          MaxDue,       \* bound on what there is
          FirstStuff    \* the states at the start

Objects == Coins \cup Boxes \cup Tools
Cylinders == Boxes \cup {Owner, Tile}

ASSUME ItemsAssumption ==
    /\ Coins \cap Boxes = {} /\ Coins \cap Tools = {} /\ Boxes \cap Tools = {}
    /\ Paged \subseteq Boxes /\ Fixed \subseteq Boxes
    /\ Objects \cap {Owner, Tile, Void, Nothing} = {}
    /\ Slots \subseteq 1..10 /\ Dressable \in [Slots -> SUBSET Objects]
    /\ Room \in [Boxes -> Nat \ {0}] /\ MaxStack \in Nat \ {0}
    /\ MaxDue \in Nat

VARIABLE stuff

itemVars == <<stuff>>

\* INDEX_WHEREEVER, the two special indices of a client, and its "all of it".
Wherever == -1
MoveUp == 254
AddAnywhere == 255
AllOfIt == 255

\* list: itemlist of a container and the down items of the tile, first one first
\* total, carried: totalWeight and inventoryWeight; capacity: of the player
\* offered: Player::tradeItem
\* unweighed: a stack has grown and inventoryWeight was not recomputed since
\* due: how much there should be: by what the callers have been told, less what
\*      addThing() and internalAddItem() are known to drop without a word
Stuff ==
    [parent : [Objects -> Cylinders \cup {Void}],
     list : [Boxes \cup {Tile} -> Seq(Objects)],
     inventory : [Slots -> Objects \cup {Nothing}],
     count : [Coins -> 0..MaxStack],
     total : [Boxes -> Nat],
     carried : Nat, capacity : Nat,
     offered : Objects \cup {Nothing},
     unweighed : BOOLEAN,
     due : Nat]

ItemsInit == stuff \in FirstStuff

-----------------------------------------------------------------------------
(* Where things are and what they weigh (a coin, a tool, an empty box: 1). *)

\* The object and all cylinders above it, up to the player or the tile.
Above(s, o) ==
    LET up[n \in 0..Cardinality(Boxes) + 1] ==
            IF n = 0 THEN {o}
            ELSE LET below == up[n - 1] IN below \cup {s.parent[c] : c \in below \cap Objects}
    IN  up[Cardinality(Boxes) + 1]

\* getTopParent() is the player.
IsCarried(s, o) == Owner \in Above(s, o)

getWeight(s, o) ==
    IF o \in Boxes THEN 1 + s.total[o] ELSE IF o \in Coins THEN s.count[o] ELSE 1

\* Both are stackable; there is only one kind of coin.
equals(o, p) == {o, p} \subseteq Coins

\* getItemCount()
Units(s, o) == IF o \in Coins THEN s.count[o] ELSE 1

getItemByIndex(s, b, i) ==
    IF i \in 0..Len(s.list[b]) - 1 THEN s.list[b][i + 1] ELSE Nothing

\* Fault: the weight of the containers around is forgotten.
updateItemWeightHere(s, b, diff) == [s EXCEPT !.total[b] = @ + diff]

updateItemWeight(s, b, diff) ==
    [s EXCEPT !.total = [c \in Boxes |-> IF c \in Above(s, b) THEN @[c] + diff ELSE @[c]]]

\* The player, or what it carries.
WithPlayer(s, c) == c = Owner \/ (c \in Boxes /\ IsCarried(s, c))

\* postAddNotification() and postRemoveNotification(): the player recomputes
\* what it carries if the cylinder is the player or carried by it.
Notified(s, c) ==
    IF WithPlayer(s, c)
    THEN [s EXCEPT !.unweighed = FALSE,
                   !.carried = MapThenSumSet(LAMBDA i : getWeight(s, s.inventory[i]),
                                             {i \in Slots : s.inventory[i] # Nothing})]
    ELSE s

-----------------------------------------------------------------------------
(* What a cylinder answers.  "exchange" is RETURNVALUE_NEEDEXCHANGE. *)

hasCapacity(s, o, n) ==
    \/ IsCarried(s, o)
    \/ (IF o \in Boxes THEN getWeight(s, o) ELSE IF o \in Coins THEN n ELSE 1)
           <= Max({0, s.capacity - s.carried})

PlayerQueryAdd(s, i, o, n) ==
    CASE i \notin Slots \/ o \notin Dressable[i] -> "no"
      [] s.inventory[i] # Nothing /\ ~equals(s.inventory[i], o) -> "exchange"
      [] OTHER -> IF hasCapacity(s, o, n) THEN "ok" ELSE "no"

ContainerQueryAdd(s, b, i, o, n) ==
    IF \/ o \in Above(s, b)
       \/ i = Wherever /\ Len(s.list[b]) >= Room[b] /\ b \notin Paged
       \/ IsCarried(s, b) /\ ~hasCapacity(s, o, n)
    THEN "no" ELSE "ok"

queryAdd(s, c, i, o, n) ==
    IF c = Tile THEN "ok"
    ELSE IF c = Owner THEN PlayerQueryAdd(s, i, o, n) ELSE ContainerQueryAdd(s, c, i, o, n)

\* How many more coins fit onto a stack.
Space(s, o) == MaxStack - s.count[o]

\* A stack that takes some of the coins of o.
Mergeable(s, o, p) == equals(o, p) /\ o # p /\ Space(s, p) > 0

ContainerMaxCount(s, b, i, o, n) ==
    LET free == Max({0, Room[b] - Len(s.list[b])})
        stacks == {c \in Coins \ {o} : s.parent[c] = b /\ Space(s, c) > 0
                                       /\ ContainerQueryAdd(s, b, 0, o, Space(s, c)) = "ok"}
        there == getItemByIndex(s, b, i)
    IN  CASE b \in Paged -> Max({1, n})
          [] b \notin Paged /\ o \notin Coins -> free
          [] b \notin Paged /\ o \in Coins ->
                free * MaxStack +
                (IF i = Wherever THEN MapThenSumSet(LAMBDA c : Space(s, c), stacks)
                 ELSE IF equals(o, there) THEN Space(s, there) ELSE 0)

\* The part of queryMaxCount(INDEX_WHEREEVER) that one slot contributes.
SlotMaxCount(s, i, o) ==
    LET there == s.inventory[i]
        inside == {b \in Boxes : there \in Above(s, b)}
    IN  CASE there \in Boxes ->
                MapThenSumSet(LAMBDA b : ContainerMaxCount(s, b, Wherever, o, Units(s, o)), inside)
          [] there = Nothing ->
                IF PlayerQueryAdd(s, i, o, Units(s, o)) # "ok" THEN 0
                ELSE IF o \in Coins THEN MaxStack ELSE 1
          [] there \notin Boxes \cup {Nothing} ->
                IF equals(o, there) /\ Space(s, there) > 0
                   /\ PlayerQueryAdd(s, i, o, Space(s, there)) = "ok"
                THEN Space(s, there) ELSE 0

PlayerMaxCount(s, i, o, n) ==
    CASE i = Wherever -> MapThenSumSet(LAMBDA j : SlotMaxCount(s, j, o), Slots)
      [] i # Wherever /\ i \notin Slots -> 0
      [] i \in Slots ->
            IF s.inventory[i] # Nothing
            THEN IF equals(o, s.inventory[i]) THEN Space(s, s.inventory[i]) ELSE 0
            ELSE IF PlayerQueryAdd(s, i, o, n) # "ok" THEN 0
                 ELSE IF o \in Coins THEN MaxStack ELSE 1

\* maxQueryCount
queryMaxCount(s, c, i, o, n) ==
    IF c = Tile THEN Max({1, n})
    ELSE IF c = Owner THEN PlayerMaxCount(s, i, o, n) ELSE ContainerMaxCount(s, c, i, o, n)

\* queryMaxCount() returns an error: less than the whole fits, or, for what is
\* not stackable, nothing does.
TooMany(s, c, i, o, n) == queryMaxCount(s, c, i, o, n) < (IF o \in Coins THEN n ELSE 1)

queryRemove(s, c, o, n) ==
    /\ s.parent[o] = c /\ o \notin Fixed
    /\ n # 0 /\ (o \in Coins => n <= s.count[o])

-----------------------------------------------------------------------------
(* queryDestination(): [c, i, to] are cylinder, index and *destItem. *)

ContainerDestination(s, b, i, to, o) ==
    LET j == IF i = AddAnywhere \/ (i >= Room[b] /\ b \notin Paged) THEN Wherever ELSE i
        there == getItemByIndex(s, b, j)
        dest == IF there # Nothing THEN there ELSE IF j = i THEN to ELSE Nothing
        stacks == {n \in DOMAIN s.list[b] : Mergeable(s, o, s.list[b][n])}
    IN  CASE i = MoveUp ->
                [c |-> IF s.parent[b] \in Boxes THEN s.parent[b] ELSE b, i |-> Wherever, to |-> Nothing]
          [] i # MoveUp /\ j # Wherever /\ dest \in Boxes ->
                [c |-> dest, i |-> Wherever, to |-> Nothing]
          [] OTHER ->
                IF s.parent[o] = b \/ Mergeable(s, o, dest) \/ stacks = {}
                THEN [c |-> b, i |-> j, to |-> dest]
                ELSE [c |-> b, i |-> Min(stacks) - 1, to |-> s.list[b][Min(stacks)]]

\* A slot of its own choice in which the player would have the object.
SlotTakes(s, i, o) ==
    /\ PlayerQueryAdd(s, i, o, Units(s, o)) = "ok"
    /\ s.inventory[i] # Nothing => s.inventory[i] # s.offered /\ Mergeable(s, o, s.inventory[i])

\* What the search sees in a container: "n" counts only this.
Visible(s, b, o) == SelectSeq(s.list[b], LAMBDA x : x \notin {s.offered, o})

\* The containers of the player, breadth first.
SearchOrder(s, o) ==
    LET inSlots == SelectSeq([i \in 1..10 |-> IF i \in Slots THEN s.inventory[i] ELSE Nothing],
                             LAMBDA x : x \in Boxes \ {s.offered, o})
        Inside(b) == SelectSeq(IF o \in Coins THEN Visible(s, b, o) ELSE s.list[b],
                               LAMBDA x : x \in Boxes)
        upTo[n \in 0..Cardinality(Boxes)] ==
            IF n = 0 THEN inSlots
            ELSE LET found == upTo[n - 1]
                 IN  IF n > Len(found) THEN found ELSE found \o Inside(found[n])
    IN  upTo[Cardinality(Boxes)]

\* The places in a container that the search would return: a stack that is
\* not full, else the end of the list.
PlacesIn(s, b, o) ==
    LET seen == Visible(s, b, o)
        stacks == {n \in DOMAIN seen : Mergeable(s, o, seen[n])}
        fits == ContainerQueryAdd(s, b, 0, o, Units(s, o)) = "ok"
    IN  IF stacks # {} THEN {[c |-> b, i |-> Min(stacks) - 1, to |-> seen[Min(stacks)]]}
        ELSE IF o \in Coins /\ fits /\ Len(seen) < Room[b] THEN {[c |-> b, i |-> Len(seen), to |-> Nothing]}
        ELSE IF o \notin Coins /\ fits /\ Len(s.list[b]) # Room[b]
        THEN {[c |-> b, i |-> Len(s.list[b]), to |-> Nothing]}
        ELSE {}

\* The first of these slots, else the first place in these containers.
FirstPlace(s, i, o, slots, order, hits) ==
    IF slots # {} THEN [c |-> Owner, i |-> Min(slots), to |-> s.inventory[Min(slots)]]
    ELSE IF hits # {} THEN CHOOSE d \in PlacesIn(s, order[Min(hits)], o) : TRUE
    ELSE [c |-> Owner, i |-> i, to |-> Nothing]

Searched(s, i, o, order) ==
    FirstPlace(s, i, o, {j \in Slots : SlotTakes(s, j, o)}, order,
               {n \in DOMAIN order : PlacesIn(s, order[n], o) # {}})

PlayerDestination(s, i, to, o) ==
    CASE i \in {0, Wherever} -> Searched(s, i, o, SearchOrder(s, o))
      [] i \in Slots ->
            IF s.inventory[i] \in Boxes THEN [c |-> s.inventory[i], i |-> Wherever, to |-> Nothing]
            ELSE [c |-> Owner, i |-> i, to |-> s.inventory[i]]
      [] OTHER -> [c |-> Owner, i |-> i, to |-> to]

TileDestination(s, i) ==
    [c |-> Tile, i |-> i, to |-> IF s.list[Tile] = <<>> THEN Nothing ELSE Head(s.list[Tile])]

queryDestination(s, d, o) ==
    IF d.c = Tile THEN TileDestination(s, d.i)
    ELSE IF d.c = Owner THEN PlayerDestination(s, d.i, d.to, o)
    ELSE ContainerDestination(s, d.c, d.i, d.to, o)

\* The loop of internalMoveItem(): until a cylinder returns itself.
Followed(d, next) == IF d.done THEN d ELSE [done |-> next.c = d.at.c, at |-> next]

FinalDestination(s, c, i, o) ==
    LET Step(d) == Followed(d, queryDestination(s, d.at, o))
        after[n \in 0..Cardinality(Boxes) + 2] ==
            IF n = 0 THEN [done |-> FALSE, at |-> [c |-> c, i |-> i, to |-> Nothing]]
            ELSE Step(after[n - 1])
    IN  after[Cardinality(Boxes) + 2].at

-----------------------------------------------------------------------------
(* How the cylinders change. *)

\* checkTradeState(): something changed in what is offered.
CheckTrade(s, o) ==
    IF s.offered # Nothing /\ s.offered \in Above(s, o) THEN [s EXCEPT !.offered = Nothing] ELSE s

\* ... or what is removed from c, or c itself, holds what is offered.
RemovalEndsTrade(s, c, o) ==
    /\ s.offered # Nothing
    /\ \/ c \in Boxes /\ s.parent[s.offered] # c /\ c \in Above(s, s.offered)
       \/ c \notin Boxes /\ o \in Boxes \cap Above(s, s.offered)

\* A stack that does not exist any more.
Freed(s, o) == IF o \in Coins THEN [s EXCEPT !.count[o] = 0] ELSE s

\* An object that was not put anywhere is deleted.
Cleared(s, o) == IF s.parent[o] = Void THEN Freed(s, o) ELSE s

\* What an object stands for, with its contents.
Held(s, o) == MapThenSumSet(LAMBDA p : Units(s, p), {p \in Objects : o \in Above(s, p)})

\* Losses that are known: the index lies beyond the capacity of a container
\* with pages, or of one that holds one too many already.
KnownDrop(s, b) == b \in Paged \/ Len(s.list[b]) > Room[b]

\* addThing(): an index beyond the capacity of a container, or one that is no
\* slot, and the object is left without a parent.  What was in the slot is
\* overwritten: nothing finds it any more.
addThing(s, c, i, o) ==
    LET placed == [s EXCEPT !.parent[o] = c]
        before == s.inventory[i]
        listed == [placed EXCEPT !.list[c] = <<o>> \o @]
    IN  CASE c = Tile -> listed
          [] c = Owner ->
                IF i \notin Slots THEN s
                ELSE IF before = Nothing THEN [placed EXCEPT !.inventory[i] = o]
                ELSE [Freed(placed, before) EXCEPT
                         !.inventory[i] = o, !.parent[before] = Void, !.due = @ - Held(s, before)]
          [] c \in Boxes ->
                IF i < Room[c] THEN CheckTrade(updateItemWeight(listed, c, getWeight(s, o)), o)
                ELSE IF KnownDrop(s, c) THEN [s EXCEPT !.due = @ - Held(s, o)] ELSE s

\* setSubType() of a stack, from updateThing() or removeThing().
Recounted(s, c, o, n) ==
    LET t == CheckTrade([s EXCEPT !.count[o] = n], o)
    IN  IF c \in Boxes THEN updateItemWeight(t, c, n - s.count[o]) ELSE t

updateThing(s, c, o, n) == IF s.parent[o] = c THEN Recounted(s, c, o, n) ELSE s

TakesWhole(s, o, n) == o \notin Coins \/ n = s.count[o]

removeThing(s, c, o, n) ==
    LET t == IF RemovalEndsTrade(s, c, o) THEN [s EXCEPT !.offered = Nothing] ELSE CheckTrade(s, o)
        light == IF c \in Boxes THEN updateItemWeight(t, c, -getWeight(s, o)) ELSE t
    IN  IF ~TakesWhole(s, o, n) THEN Recounted(s, c, o, s.count[o] - n)
        ELSE [light EXCEPT !.parent[o] = Void,
                           !.list = [b \in DOMAIN @ |-> SelectSeq(@[b], LAMBDA x : x # o)],
                           !.inventory = [i \in Slots |-> IF @[i] = o THEN Nothing ELSE @[i]]]

-----------------------------------------------------------------------------
(* Game::internalMoveItem(), from where an object is to [c, i]. *)

FreeCoins(s) == {o \in Coins : s.count[o] = 0}

\* clone() and CreateItem(): which free object is taken does not matter.
NewCoin(s) == CHOOSE o \in FreeCoins(s) : TRUE

\* RETURNVALUE_NEEDEXCHANGE: what is in the slot goes to where o comes from.
Exchangeable(s, d, o) ==
    LET from == s.parent[o]
        place == IF from = Owner THEN CHOOSE i \in Slots : s.inventory[i] = o ELSE 0
        n == Units(s, d.to)
    IN  queryAdd(s, from, place, d.to, n) = "ok" /\ queryMaxCount(s, from, Wherever, d.to, n) > 0

Exchanged(s, d, o) ==
    LET from == s.parent[o]
        moved == addThing(removeThing(s, d.c, d.to, Units(s, d.to)), from, 0, d.to)
    IN  Notified(Notified(moved, d.c), from)

\* How many of m coins go onto the stack that is there.
Merged(s, to, m) == Min({Space(s, to), m})

\* A stack that is there takes what it can of the m coins, "moved" the rest.
PutDown(s, d, to, moved, m) ==
    LET n == IF equals(moved, to) THEN Merged(s, to, m) ELSE 0
        stacked == IF equals(moved, to) THEN updateThing(s, d.c, to, s.count[to] + n) ELSE s
    IN  IF moved \in Coins /\ m = n THEN Freed(stacked, moved)
        ELSE addThing(IF moved \in Coins THEN [stacked EXCEPT !.count[moved] = m - n] ELSE s,
                      d.c, d.i, moved)

\* What follows the checks: o is removed, whole or in part, and put down; the
\* part is a clone.
Transferred(s, d, to, o, m) ==
    LET from == s.parent[o]
        moved == IF TakesWhole(s, o, m) THEN o ELSE NewCoin(s)
    IN  Notified(Notified(Cleared(PutDown(removeThing(s, from, o, m), d, to, moved, m), moved), from), d.c)

\* The rest of the checks: how many fit, and may they be taken?
MoveMost(s, d, to, o, count, most) ==
    LET m == IF o \in Coins THEN Min({count, most}) ELSE most
    IN  IF most = 0 \/ ~queryRemove(s, s.parent[o], o, m) THEN s ELSE Transferred(s, d, to, o, m)

MoveOnto(s, d, to, o, count) ==
    IF queryAdd(s, d.c, d.i, o, count) # "ok" THEN s
    ELSE MoveMost(s, d, to, o, count, queryMaxCount(s, d.c, d.i, o, count))

MoveTo(s, d, o, count) ==
    IF o = d.to THEN s
    ELSE IF /\ queryAdd(s, d.c, d.i, o, count) = "exchange"
            /\ Exchangeable(s, d, o) /\ queryRemove(s, d.c, d.to, Units(s, d.to))
    THEN MoveOnto(Exchanged(s, d, o), d, Nothing, o, count)
    ELSE MoveOnto(s, d, d.to, o, count)

\* How many a client means that has said "all of it".
CountOf(s, d, o, n) ==
    LET from == s.parent[o]
    IN  IF o \in Coins /\ n = AllOfIt /\ from \in Boxes /\ s.parent[from] = d.c THEN s.count[o] ELSE n

MoveCounted(s, d, o, n) == MoveTo(s, d, o, CountOf(s, d, o, n))

internalMoveItem(s, c, i, o, n) == MoveCounted(s, FinalDestination(s, c, i, o), o, n)

-----------------------------------------------------------------------------
(* Game::internalAddItem() of an object without a parent. *)

\* At most m of the coins are added; "more" is what is left for the next call
\* of the recursion.
AddSome(s, d, o, count, m) ==
    LET n == Merged(s, d.to, m)
        stacked == updateThing(s, d.c, d.to, s.count[d.to] + n)
    IN  IF ~equals(o, d.to) \/ (n = 0 /\ m = count)
        THEN [s |-> Cleared(Notified(addThing(s, d.c, d.i, o), d.c), o),
              ret |-> "ok", more |-> 0, remainder |-> 0]
        ELSE [s |-> [(IF m > n THEN [stacked EXCEPT !.unweighed = @ \/ WithPlayer(s, d.c)]
                      ELSE Notified(Freed(stacked, o), d.c))
                        EXCEPT !.due = IF d.c = Owner THEN @ - (count - m) ELSE @],
              ret |-> "ok", more |-> m - n, remainder |-> 0]

AddTo(s, c, d, o, count) ==
    IF \/ queryAdd(s, d.c, d.i, o, count) # "ok"
       \/ TooMany(s, c, Wherever, o, count) /\ d.c \in Boxes
    THEN [s |-> s, ret |-> "no", more |-> 0, remainder |-> 0]
    ELSE AddSome(s, d, o, count, Min({count, queryMaxCount(s, c, Wherever, o, count)}))

\* One call.
AddStep(s, c, i, o) ==
    AddTo(s, c, queryDestination(s, [c |-> c, i |-> i, to |-> Nothing], o), o, Units(s, o))

\* The call for the rest returns to the k-th call.  The caller of the first
\* learns what the second could not place; what a later one could not is lost,
\* though all calls return RETURNVALUE_NOERROR.
Returned(last, next, k, o) ==
    IF next.ret = "ok" THEN next
    ELSE IF k = 1 THEN [last EXCEPT !.s = Freed(@, o), !.more = 0, !.remainder = last.more]
    ELSE [last EXCEPT !.s = [Freed(@, o) EXCEPT !.due = @ - last.more], !.more = 0]

AddRest(last, k, c, o) ==
    IF last.more = 0 THEN last
    ELSE Returned(last, AddStep([last.s EXCEPT !.count[o] = last.more], c, Wherever, o), k, o)

\* The rest of a stack goes through the original cylinder again.
internalAddItem(s, c, i, o) ==
    LET call[k \in 0..Cardinality(Coins)] ==
            IF k = 0 THEN AddStep(s, c, i, o) ELSE AddRest(call[k - 1], k, c, o)
    IN  call[Cardinality(Coins)]

\* What the player has no room for is dropped, or refused.
DropRest(a, o, dropOnMap) ==
    IF a.remainder = 0 /\ (a.ret = "ok" \/ ~dropOnMap) THEN a
    ELSE internalAddItem(IF a.remainder # 0 THEN [a.s EXCEPT !.count[o] = a.remainder] ELSE a.s,
                         Tile, Wherever, o)

internalPlayerAddItem(s, o, i, dropOnMap) == DropRest(internalAddItem(s, Owner, i, o), o, dropOnMap)

-----------------------------------------------------------------------------
(* Actions. *)

InGame(s, o) == Above(s, o) \cap {Owner, Tile} # {}

\* A client moves an object; the index is whatever it has sent.
playerMoveItem(o, c, i, n) ==
    /\ InGame(stuff, o) /\ (c \in Boxes => InGame(stuff, c))
    /\ IF o \in Coins THEN n \in 1..stuff.count[o] \/ (n = AllOfIt /\ i = MoveUp) ELSE n = 1
    /\ o \in Coins => FreeCoins(stuff) # {}
    /\ stuff' = internalMoveItem(stuff, c, i, o, n)

\* A new object, with n coins.
Fresh(s, o, n) ==
    /\ s.parent[o] = Void
    /\ IF o \in Coins THEN o = NewCoin(s) ELSE n = 1
    /\ s.due + n <= MaxDue

Created(s, o, n) == IF o \in Coins THEN [s EXCEPT !.count[o] = n] ELSE s

\* The caller frees what was refused, and counts on all the rest.
Settled(a, o, n) ==
    IF a.ret = "ok" THEN [a.s EXCEPT !.due = @ + n] ELSE Freed(a.s, o)

\* player:addItem() of a script, the market, a shop.
PlayerAddItem(o, n, i, dropOnMap) ==
    /\ Fresh(stuff, o, n)
    /\ stuff' = Settled(internalPlayerAddItem(Created(stuff, o, n), o, i, dropOnMap), o, n)

\* container:addItem(), loot.
ContainerAddItem(b, o, n) ==
    /\ Fresh(stuff, o, n) /\ InGame(stuff, b)
    /\ stuff' = Settled(internalAddItem(Created(stuff, o, n), b, Wherever, o), o, n)

\* internalRemoveItem()
RemoveItem(o, n) ==
    LET c == stuff.parent[o]
        gone == Cleared(removeThing(stuff, c, o, n), o)
    IN  /\ InGame(stuff, o) /\ n \in 1..Units(stuff, o)
        /\ stuff' = [Notified(gone, c) EXCEPT !.due = @ - IF o \in Coins THEN n ELSE Held(stuff, o)]

\* The player offers something for trade, or the trade is over.
Offer(o) ==
    /\ o = Nothing \/ IsCarried(stuff, o)
    /\ stuff' = [stuff EXCEPT !.offered = o]

Indices(c) ==
    IF c \in Boxes THEN 0..Room[c] \cup {MoveUp, AddAnywhere}
    ELSE IF c = Owner THEN Slots \cup {0} ELSE {0}

ItemsNext ==
    \/ \E o \in Objects, c \in Cylinders : \E i \in Indices(c), n \in 1..MaxStack \cup {AllOfIt} :
          playerMoveItem(o, c, i, n)
    \/ \E o \in Coins \cup Tools, n \in 1..MaxStack :
          \/ \E i \in Slots \cup {0}, dropOnMap \in BOOLEAN : PlayerAddItem(o, n, i, dropOnMap)
          \/ \E b \in Boxes : ContainerAddItem(b, o, n)
    \/ \E o \in Objects, n \in 1..MaxStack : RemoveItem(o, n)
    \/ \E o \in Objects \cup {Nothing} : Offer(o)

-----------------------------------------------------------------------------
(* Properties. *)

\* What a container should weigh, and the player should carry.
Burden(s, c) ==
    MapThenSumSet(LAMBDA o : IF o \in Coins THEN s.count[o] ELSE 1,
                  {o \in Objects : o # c /\ c \in Above(s, o)})

\* Lists, slots and parent pointers tell the same story; no stack is empty or
\* too high, no container is inside itself.  The search of the player skips
\* what is offered for trade when it counts, so a container may get one object
\* too many; inventoryWeight lags behind when a stack has taken a part and the
\* rest found no place with the player.
ItemsWellFormed ==
    /\ stuff \in Stuff
    /\ \A o \in Objects :
          /\ o \notin Coins \/ (stuff.parent[o] = Void <=> stuff.count[o] = 0)
          /\ \A b \in DOMAIN stuff.list :
                Cardinality({n \in DOMAIN stuff.list[b] : stuff.list[b][n] = o})
                   = IF stuff.parent[o] = b THEN 1 ELSE 0
          /\ Cardinality({i \in Slots : stuff.inventory[i] = o})
                = IF stuff.parent[o] = Owner THEN 1 ELSE 0
          /\ \A p \in Above(stuff, o) \cap Objects : p = o \/ o \notin Above(stuff, p)
    /\ \A b \in Boxes : stuff.total[b] = Burden(stuff, b)
    /\ \A b \in Boxes \ Paged : Len(stuff.list[b]) <= Room[b] + 1
    /\ stuff.carried = Burden(stuff, Owner) \/ (stuff.unweighed /\ stuff.carried < Burden(stuff, Owner))

\* What moves, is added, split and merged through three kinds of cylinder keeps
\* all pointers, counts and weights right, and nothing is duplicated or lost but
\* what the callers asked for and what the code is known to drop: an index
\* beyond the capacity (KnownDrop), a full stack in the slot a script has asked
\* for, the rest that queryMaxCount() refuses when the stack is in a slot, and
\* the rest that the third call of internalAddItem(), or a later one, cannot
\* place where queryMaxCount() has counted a container the search leaves out.
ItemsSound ==
    /\ ItemsWellFormed
    /\ stuff.due = MapThenSumSet(LAMBDA o : Units(stuff, o), {o \in Objects : InGame(stuff, o)})
=============================================================================
