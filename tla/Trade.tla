-------------------------------- MODULE Trade --------------------------------
(***************************************************************************)
(* Trade between two players (game.cpp: playerRequestTrade(),              *)
(* internalStartTrade(), playerAcceptTrade(), internalCloseTrade()) with   *)
(* the hooks of player.cpp that close a trade when an offered item is      *)
(* moved, put into something, taken out or destroyed.  Every action is one *)
(* task of the dispatcher; what interleaves are the requests of different  *)
(* players.  Positions are not kept: whether two players stand close       *)
(* enough is an input of the request, walking away is an action.           *)
(***************************************************************************)
EXTENDS Integers, FiniteSets, Functions

CONSTANTS Traders,      \* the players
          Goods,        \* the items
          Bags,         \* those that are containers
          Refusable,    \* those a move may refuse although adding them was tried
          Ground,       \* a tile: holds items that nobody carries
          Nowhere,      \* "parent" of an item that was removed from the game
          NoOne, NoItem,\* null pointers
          StartPlace,   \* where each item is at first
          Weight,       \* weight of an item without its contents
          Capacity      \* what a player can carry

ASSUME TradeAssumption ==
    /\ Bags \subseteq Goods /\ Refusable \subseteq Goods
    /\ Ground # Nowhere /\ {Ground, Nowhere} \cap (Traders \cup Goods) = {}
    /\ Traders \cap Goods = {} /\ NoOne \notin Traders /\ NoItem \notin Goods
    /\ StartPlace \in [Goods -> Traders \cup Bags \cup {Ground}]
    /\ Weight \in [Goods -> Nat \ {0}] /\ Capacity \in [Traders -> Nat]
    /\ IsFiniteSet(Goods)

VARIABLES tradeState, tradePartner, tradeItem, \* the three fields of a Player
          tradeItems,   \* Game::tradeItems: who offers an item, NoOne if absent
          place         \* an item's parent: a player, a container or a tile

tradeVars == <<tradeState, tradePartner, tradeItem, tradeItems, place>>

TradeStates == {"none", "initiated", "accept", "acknowledge"}

TradeTypeOK ==
    /\ tradeState \in [Traders -> TradeStates]
    /\ tradePartner \in [Traders -> Traders \cup {NoOne}]
    /\ tradeItem \in [Traders -> Goods \cup {NoItem}]
    /\ tradeItems \in [Goods -> Traders \cup {NoOne}]
    /\ place \in [Goods -> Traders \cup Bags \cup {Ground, Nowhere}]

TradeInit ==
    /\ tradeState = [p \in Traders |-> "none"]
    /\ tradePartner = [p \in Traders |-> NoOne]
    /\ tradeItem = [p \in Traders |-> NoItem]
    /\ tradeItems = [i \in Goods |-> NoOne]
    /\ place = StartPlace

-----------------------------------------------------------------------------
(* Where things are.                                                       *)

\* What lies in x, a container, a player or a tile, directly or further down:
\* what is put into x or into one of the least set of containers that has all
\* those put into x or into one of the set.
Inside(pl, x) ==
    LET Closed == {K \in SUBSET Bags : \A b \in Bags : pl[b] \in K \cup {x} => b \in K}
    IN  {i \in Goods : pl[i] = x \/ (pl[i] \in Bags /\ \A K \in Closed : pl[i] \in K)}

\* Container::isHoldingItem()
isHoldingItem(c, i) == c \in Bags /\ i \in Inside(place, c)

\* Item::getTopParent() is the player or a tile.
Reach(pl, p) == Inside(pl, p) \cup Inside(pl, Ground)

\* Item::getWeight(): a container weighs what it holds, too.
WeightIn(pl, i) == SumFunctionOnSet(Weight, {i} \cup Inside(pl, i))

\* Player::hasCapacity(): there is no limit for what the player has already.
CanAdd(pl, p, i) ==
    \/ i \in Inside(pl, p)
    \/ SumFunctionOnSet(Weight, Inside(pl, p)) + WeightIn(pl, i) <= Capacity[p]

-----------------------------------------------------------------------------
(* Closing.                                                                *)

\* internalCloseTrade() resets the player and, if there is one, the partner.
BothSides(S) == S \cup ({tradePartner[p] : p \in S} \ {NoOne})

\* internalCloseTrade() for every player of S.
Close(S) ==
    LET all == BothSides(S)
        off == {tradeItem[p] : p \in all}
    IN  /\ tradeState' = [p \in Traders |-> IF p \in all THEN "none" ELSE tradeState[p]]
        /\ tradePartner' = [p \in Traders |-> IF p \in all THEN NoOne ELSE tradePartner[p]]
        /\ tradeItem' = [p \in Traders |-> IF p \in all THEN NoItem ELSE tradeItem[p]]
        /\ tradeItems' = [i \in Goods |-> IF i \in off THEN NoOne ELSE tradeItems[i]]

\* playerCloseTrade(), and onRemoveCreature() of a player who is trading.
CloseTrade(p) == Close({p}) /\ UNCHANGED place

\* onCreatureMove(): too far from the partner, or from an item on the ground.
WalkAway(p) ==
    /\ \/ tradePartner[p] # NoOne
       \/ tradeItem[p] \in Inside(place, Ground)
    /\ Close({p})
    /\ UNCHANGED place

-----------------------------------------------------------------------------
(* Requesting and accepting.                                               *)

\* Fault: only the item itself is looked up, not what it holds or lies in.
AlreadyTradedItself(i) == tradeItems[i] # NoOne

\* "This item is already being traded."
AlreadyTraded(i) ==
    \E j \in Goods :
        /\ tradeItems[j] # NoOne
        /\ i = j \/ isHoldingItem(i, j) \/ isHoldingItem(j, i)

\* The two refusals of internalStartTrade(): one of the two trades already.
MayStart(p, q) ==
    /\ \/ tradeState[p] = "none"
       \/ tradeState[p] = "acknowledge" /\ tradePartner[p] = q
    /\ tradeState[q] = "none" \/ tradePartner[q] = p

RequestTrade(p, q, i) ==
    /\ p # q
    /\ MayStart(p, q)
    /\ i \in Reach(place, p)
    /\ ~AlreadyTraded(i)
    /\ tradeState' = [tradeState EXCEPT ![p] = "initiated",
                         ![q] = IF @ = "none" THEN "acknowledge" ELSE @]
    /\ tradePartner' = [tradePartner EXCEPT ![p] = q, ![q] = p]
    /\ tradeItem' = [tradeItem EXCEPT ![p] = i]
    /\ tradeItems' = [tradeItems EXCEPT ![i] = p]
    /\ UNCHANGED place

\* Fault: whether the acceptor can carry the other's item is not tried.
ExchangeableOne(p, q, i, j) == i # NoItem /\ j # NoItem /\ CanAdd(place, q, i)

\* internalAddItem() and internalRemoveItem() tried for both items; a null
\* item, of a player who has offered nothing, is NOTPOSSIBLE.
Exchangeable(p, q, i, j) ==
    /\ i # NoItem /\ j # NoItem
    /\ CanAdd(place, q, i) /\ CanAdd(place, p, j)

\* The two internalMoveItem() of the exchange; the second one's result is
\* not looked at.  Whether there was room for j is an input.
Exchanged(p, q, i, j, room) ==
    LET first == [place EXCEPT ![i] = q]
    IN  IF room /\ CanAdd(first, p, j) THEN [first EXCEPT ![j] = p] ELSE first

\* Both have accepted.  The test tries without flags what the moves do with
\* FLAG_IGNOREAUTOSTACK: a stackable item that fits only on top of a stack
\* passes the test and is refused by the move, which wants a free place for
\* it; an item that is not moveable passes, too.  These are Refusable.  A
\* script may refuse the exchange, and the first move may fail, also when the
\* only room is in the container that is to be given away: then nothing moves.
\* Free places are not kept; what p gives only adds to those of p.
Transfer(p, q) ==
    LET i == tradeItem[p]
        j == tradeItem[q]
    IN  /\ \/ /\ Exchangeable(p, q, i, j)
              /\ \E room \in BOOLEAN :
                    /\ j \notin Refusable => room
                    /\ place' = Exchanged(p, q, i, j, room)
           \/ place' = place
        /\ Close({p})

\* The state is ACCEPT for a moment before it is TRANSFER; while it is, the
\* hooks leave the trade alone, so that the exchange does not cancel itself.
AcceptTrade(p) ==
    /\ tradeState[p] \in {"acknowledge", "initiated"}
    /\ tradePartner[p] # NoOne
    /\ \/ /\ tradeState[tradePartner[p]] # "accept"
          /\ tradeState' = [tradeState EXCEPT ![p] = "accept"]
          /\ UNCHANGED <<tradePartner, tradeItem, tradeItems, place>>
       \/ /\ tradeState[tradePartner[p]] = "accept"
          /\ Transfer(p, tradePartner[p])

-----------------------------------------------------------------------------
(* Ordinary handling of items, and the hooks.                              *)

\* Fault: taking things out of an offered container goes unnoticed.
TakenOutItself(p, i) == tradeItem[p] = i \/ isHoldingItem(i, tradeItem[p])

\* onRemoveInventoryItem(), onRemoveTileItem(), onRemoveContainerItem() and
\* checkTradeState(): does the removal of i from where it is concern p's offer?
TakenOut(p, i) ==
    /\ tradeItem[p] # NoItem
    /\ \/ tradeItem[p] = i
       \/ isHoldingItem(tradeItem[p], i)
       \/ isHoldingItem(i, tradeItem[p])
       \/ isHoldingItem(place[i], tradeItem[p]) /\ place[tradeItem[p]] # place[i]

\* onAddContainerItem(): i arrives in the container p offers.
PutInto(p, i, to) ==
    tradeItem[p] # NoItem /\ (to = tradeItem[p] \/ isHoldingItem(tradeItem[p], to))

\* Player p moves an item: internalMoveItem() with its notifications.
MoveItem(p, i, to) ==
    /\ to # i /\ to # place[i] /\ i \in Reach(place, p)
    /\ to \in {p, Ground} \cup Reach(place, p) /\ ~isHoldingItem(i, to)
    /\ to \in {p} \cup Inside(place, p) => CanAdd(place, p, i)
    /\ place' = [place EXCEPT ![i] = to]
    /\ Close({r \in Traders : TakenOut(r, i) \/ PutInto(r, i, to)})

\* The item is removed from the game: used up, sold, decayed.
DestroyItem(i) ==
    /\ i \notin Inside(place, Nowhere)
    /\ place' = [place EXCEPT ![i] = Nowhere]
    /\ Close({r \in Traders : TakenOut(r, i)})

TradeNext ==
    \/ \E p \in Traders : CloseTrade(p) \/ WalkAway(p) \/ AcceptTrade(p)
    \/ \E p, q \in Traders, i \in Goods : RequestTrade(p, q, i)
    \/ \E p \in Traders : \E i \in Goods, to \in {p, Ground} \cup Bags : MoveItem(p, i, to)
    \/ \E i \in Goods : DestroyItem(i)

TradeSpec == TradeInit /\ [][TradeNext]_tradeVars

-----------------------------------------------------------------------------
(* Properties.                                                             *)

\* Between two tasks trades are between two players who agree about it: each
\* is the other's partner, at least one of them has offered something, only
\* an offer or its acceptance carries an item, and who does not trade keeps
\* nothing of it (the three fields that internalStartTrade(),
\* playerAcceptTrade() and internalCloseTrade() write one by one).
TradePaired ==
    \A p \in Traders :
        LET q == tradePartner[p]
        IN  IF q = NoOne
            THEN tradeState[p] = "none" /\ tradeItem[p] = NoItem
            ELSE /\ q # p /\ tradePartner[q] = p
                 /\ tradeState[p] # "none"
                 /\ tradeState[p] = "initiated" => tradeItem[p] # NoItem
                 /\ tradeState[p] = "acknowledge" => tradeItem[p] = NoItem
                 /\ tradeItem[p] # NoItem \/ tradeItem[q] # NoItem
                 /\ ~(tradeState[p] = "accept" /\ tradeState[q] = "accept")

\* Game::tradeItems is exactly the set of standing offers, nothing is offered
\* twice - not as part of something else either - and what is offered is
\* still there and within the reach of who offers it.
TradeItemsExact ==
    /\ TradeTypeOK
    /\ \A i \in Goods, p \in Traders : tradeItems[i] = p <=> tradeItem[p] = i
    /\ \A p \in Traders : tradeItem[p] # NoItem => tradeItem[p] \in Reach(place, p)
    /\ \A p, q \in Traders :
          p # q /\ tradeItem[p] # NoItem /\ tradeItem[q] # NoItem
          => tradeItem[p] # tradeItem[q] /\ ~isHoldingItem(tradeItem[p], tradeItem[q])

\* Who trades with whom and what is offered are told by four fields and a map
\* that many handlers write one by one; they agree between two tasks.
TradeConsistent == TradePaired /\ TradeItemsExact

\* The exchange of p, who accepts last, and q moves both items.
BothMoved(p, q) == place' = [place EXCEPT ![tradeItem[p]] = q, ![tradeItem[q]] = p]

\* The named exception: q's item is one that the move may refuse, p gives for
\* nothing.
Cheated(p, q) == tradeItem[q] \in Refusable /\ place' = [place EXCEPT ![tradeItem[p]] = q]

\* A trade moves both items or none, whatever they weigh and whatever lies in
\* what, although playerAcceptTrade() ignores the result of its second
\* internalMoveItem(): the test made before still holds when the first item
\* has gone.  It does not where the move is stricter than the test; then the
\* player who accepted last gives for nothing, never the other one.
TradeAllOrNothing ==
    [][\A p \in Traders :
          place' # place /\ AcceptTrade(p) =>
             LET q == tradePartner[p]
             IN  /\ tradeItem[p] # NoItem /\ tradeItem[q] # NoItem
                 /\ BothMoved(p, q) \/ Cheated(p, q)]_tradeVars

\* What the partner was shown is what the partner gets: as long as an offer
\* stands, the item stays where it was and its contents stay the same,
\* whatever is done with the items around it (the hooks close the trade).
TradeOfferFrozen ==
    [][\A p \in Traders :
          LET i == tradeItem[p]
          IN  place' # place /\ i # NoItem /\ tradeItem'[p] = i =>
                /\ place'[i] = place[i]
                /\ Inside(place', i) = Inside(place, i)]_tradeVars

\* The two sides of a trade agree at all times and it is what both were shown:
\* the exchange is whole, and until then no handler changes an offer that
\* stands (Game::playerAcceptTrade, the hooks of Player and Container).
TradeSound == []TradeConsistent /\ TradeAllOrNothing /\ TradeOfferFrozen
=============================================================================
