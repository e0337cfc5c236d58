-------------------------------- MODULE Market --------------------------------
(***************************************************************************)
(* The market (game.cpp: playerCreateMarketOffer(),                        *)
(* playerCancelMarketOffer(), playerAcceptMarketOffer(); io/iomarket.cpp)  *)
(* for one ware that is stackable and no store coin.  Requests run on the  *)
(* dispatcher and work on table market_offers at once; the expiry asks the *)
(* database thread for the rows that are too old and handles the answer in *)
(* a later task of the dispatcher.  That a player is at a market, premium  *)
(* and not exhausted only refuses requests and is left out.                *)
(***************************************************************************)
EXTENDS Integers, Sequences, FiniteSets, Functions

CONSTANTS Merchants,      \* the players
          OfferIds,       \* bound on the offers ever made: 1..n
          Prices,         \* prices per piece a client may ask
          Amounts,        \* amounts a client may ask, above 0
          Word,           \* 2^32: what price * amount is computed modulo of
          MinFee, MaxFee, \* 20 and 100000
          StackSize,      \* 100: pieces in one Item
          MaxOffers,      \* MAX_MARKET_OFFERS_AT_A_TIME_PER_PLAYER
          MaxChecks,      \* bound on the expiry checks on their way
          StartPurse, StartBank, StartStock, StartStash

ASSUME MarketAssumption ==
    /\ OfferIds \subseteq Nat /\ Prices \subseteq Nat \ {0} /\ Amounts \subseteq Nat \ {0}
    /\ {MinFee, MaxFee, MaxOffers, MaxChecks} \subseteq Nat /\ {Word, StackSize} \subseteq Nat \ {0}
    /\ {StartPurse, StartBank, StartStock, StartStash} \subseteq [Merchants -> Nat]
    /\ IsFiniteSet(Merchants) /\ IsFiniteSet(OfferIds)

VARIABLES purse,   \* the money a player carries
          bank,    \* bankBalance, of the Player or of table players
          stock,   \* pieces in the player's depot, inbox included
          stash,   \* pieces in stashItems
          offers,  \* table market_offers: row of each id, NoRow if there is none
          nextId,  \* AUTO_INCREMENT
          checks,  \* expiry checks under way, see Check
          fees,    \* what was paid for creating offers
          excused  \* the inexact steps that have been taken

marketVars == <<purse, bank, stock, stash, offers, nextId, checks, fees, excused>>

NoRow == [player |-> "none"]

Row == [player : Merchants, sale : BOOLEAN, amount : Nat, price : Prices]

\* A SELECT that waits for the database thread, with the newest id it asks for
\* (ids are in the order of "created"), or its result on the way back.
Check == [newest : OfferIds] \cup [rows : SUBSET (OfferIds \X Row)]

MarketTypeOK ==
    /\ {purse, bank, stock, stash} \subseteq [Merchants -> Nat]
    /\ offers \in [OfferIds -> Row \cup {NoRow}]
    /\ nextId \in Nat /\ fees \in Nat /\ checks \in Seq(Check) /\ Len(checks) <= MaxChecks
    /\ excused \subseteq {"wrapped", "stash", "stale", "unwritten", "lost"}

MarketInit ==
    /\ purse = StartPurse /\ bank = StartBank
    /\ stock = StartStock /\ stash = StartStash
    /\ offers = [id \in OfferIds |-> NoRow]
    /\ nextId = 1 /\ checks = <<>> /\ fees = 0 /\ excused = {}

-----------------------------------------------------------------------------
(* Money and pieces.                                                       *)

Smaller(a, b) == IF a < b THEN a ELSE b
Larger(a, b) == IF a < b THEN b ELSE a

\* price * amount of a uint32_t and a uint16_t
Product(price, amount) == (price * amount) % Word

\* std::min<uint32_t>() narrows the fee first.
Fee(price, amount) == Larger(MinFee, Smaller(MaxFee, ((price * amount) \div 100) % Word))

Wrapped(price, amount) == IF Product(price, amount) # price * amount THEN {"wrapped"} ELSE {}

\* removeMoney(player, money, 0, true): from what is carried, then the bank.
removeMoney(p, money) ==
    /\ purse' = [purse EXCEPT ![p] = @ - Smaller(@, money)]
    /\ bank' = [bank EXCEPT ![p] = @ - (money - Smaller(purse[p], money))]

\* What is left to be taken from the depot when the stash has its share.
FromDepot(p, amount) == amount - Smaller(amount, stash[p])

\* The pieces are taken from the depot and the stash; getMarketItemList()
\* returns nothing unless there are enough.
TakePieces(p, amount) ==
    /\ stock[p] >= FromDepot(p, amount)
    /\ stash' = [stash EXCEPT ![p] = @ - Smaller(FromDepot(p, amount), @)]

\* Pieces of the stash vanish: they are taken and not offered.
StashLost(p, amount) ==
    IF Smaller(FromDepot(p, amount), stash[p]) > 0 THEN {"stash"} ELSE {}

\* The seller is paid for pieces of the stash that are not delivered.
StashPaid(p, amount) == IF FromDepot(p, amount) # amount THEN {"stash"} ELSE {}

\* Fault: one stack is put into the inbox, not as many as it takes.
DeliveredOneStack(amount) == Smaller(amount, StackSize)

\* The loop that puts full stacks and a last one into somebody's inbox.
Delivered(amount) == StackSize * (amount \div StackSize) + (amount % StackSize)

OffersOf(p) == {id \in OfferIds : offers[id] # NoRow /\ offers[id].player = p}

\* The statement that a request ends with.  Money and pieces have changed hands
\* by then, and nobody asks whether it failed.
Written(table, inexact) ==
    \/ offers' = table /\ excused' = excused \cup inexact
    \/ offers' = offers /\ excused' = excused \cup inexact \cup {"unwritten"}

\* INSERT INTO market_offers; an id is used once.
InsertRow(offer, inexact) ==
    /\ nextId \in OfferIds
    /\ nextId' = nextId + 1
    /\ Written([offers EXCEPT ![nextId] = offer], inexact)

-----------------------------------------------------------------------------
(* Requests.                                                               *)

CreateSell(p, price, amount) ==
    LET left == FromDepot(p, amount)
    IN  /\ MaxOffers # 0 => Cardinality(OffersOf(p)) < MaxOffers
        /\ Fee(price, amount) <= bank[p] + purse[p]
        /\ TakePieces(p, amount)
        /\ stock' = [stock EXCEPT ![p] = @ - left]
        /\ removeMoney(p, Fee(price, amount))
        /\ fees' = fees + Fee(price, amount)
        /\ InsertRow([player |-> p, sale |-> TRUE, amount |-> left, price |-> price], StashLost(p, amount))
        /\ UNCHANGED checks

CreateBuy(p, price, amount) ==
    LET totalPrice == Product(price, amount) + Fee(price, amount)
    IN  /\ MaxOffers # 0 => Cardinality(OffersOf(p)) < MaxOffers
        /\ totalPrice <= bank[p] + purse[p]
        /\ removeMoney(p, totalPrice)
        /\ fees' = fees + Fee(price, amount)
        /\ InsertRow([player |-> p, sale |-> FALSE, amount |-> amount, price |-> price], Wrapped(price, amount))
        /\ UNCHANGED <<stock, stash, checks>>

\* moveOfferToHistory() and deleteOffer(), as far as market_offers goes.
WithoutRow(id) == [offers EXCEPT ![id] = NoRow]

Cancel(p, id) ==
    LET offer == offers[id]
    IN  /\ offer # NoRow /\ offer.player = p
        /\ bank' = IF offer.sale THEN bank ELSE [bank EXCEPT ![p] = @ + offer.price * offer.amount]
        /\ stock' = IF offer.sale THEN [stock EXCEPT ![p] = @ + Delivered(offer.amount)] ELSE stock
        /\ Written(WithoutRow(id), {})
        /\ UNCHANGED <<purse, stash, nextId, checks, fees>>

\* acceptOffer() or, when nothing remains, deleteOffer()
Reduced(id, amount) ==
    IF offers[id].amount = amount THEN WithoutRow(id)
    ELSE [offers EXCEPT ![id].amount = @ - amount]

\* p sells to the player who made the offer.
AcceptBuy(p, id, amount) ==
    LET offer == offers[id]
        left  == FromDepot(p, amount)
    IN  /\ offer # NoRow /\ ~offer.sale /\ offer.player # p /\ amount <= offer.amount
        /\ TakePieces(p, amount)
        /\ stock' = [stock EXCEPT ![p] = @ - left, ![offer.player] = @ + Delivered(left)]
        /\ bank' = [bank EXCEPT ![p] = @ + Product(offer.price, amount)]
        /\ Written(Reduced(id, left), Wrapped(offer.price, amount) \cup StashPaid(p, amount))
        /\ UNCHANGED <<purse, nextId, checks, fees>>

\* p buys from the player who made the offer; the bank pays first.
AcceptSell(p, id, amount) ==
    LET offer      == offers[id]
        totalPrice == Product(offer.price, amount)
        fromBank   == Smaller(bank[p], totalPrice)
    IN  /\ offer # NoRow /\ offer.sale /\ offer.player # p /\ amount <= offer.amount
        /\ totalPrice <= bank[p] + purse[p]
        /\ bank' = [bank EXCEPT ![p] = @ - fromBank, ![offer.player] = @ + totalPrice]
        /\ purse' = [purse EXCEPT ![p] = @ - (totalPrice - fromBank)]
        /\ stock' = [stock EXCEPT ![p] = @ + Delivered(amount)]
        /\ Written(Reduced(id, amount), {})
        /\ UNCHANGED <<stash, nextId, checks, fees>>

-----------------------------------------------------------------------------
(* Expiry.                                                                 *)

\* checkExpiredOffers(): the threshold is fixed when the SELECT is queued.
AskExpired(id) ==
    /\ Len(checks) < MaxChecks
    /\ checks' = Append(checks, [newest |-> id])
    /\ UNCHANGED <<purse, bank, stock, stash, offers, nextId, fees, excused>>

\* The database thread runs the oldest SELECT that waits.
RunSelect(c) ==
    /\ c \in DOMAIN checks /\ "newest" \in DOMAIN checks[c]
    /\ \A d \in 1..c - 1 : "rows" \in DOMAIN checks[d]
    /\ LET old == {id \in OfferIds : id <= checks[c].newest /\ offers[id] # NoRow}
       IN  checks' = [checks EXCEPT ![c] = [rows |-> {<<id, offers[id]>> : id \in old}]]
    /\ UNCHANGED <<purse, bank, stock, stash, offers, nextId, fees, excused>>

\* Fault: rows are given back whether or not the offer is still there.
StillThereAlways(rows) == rows

\* Those whose moveOfferToHistory() finds the offer and deletes it.
StillThere(rows) == {r \in rows : offers[r[1]] # NoRow}

\* processExpiredOffers(): gives back what the rows of the SELECT say, but for
\* the pieces of players who cannot be loaded.
ProcessExpired(lost) ==
    /\ checks # <<>> /\ "rows" \in DOMAIN checks[1]
    /\ LET gone == StillThere(checks[1].rows)
           Back(p, sale) == {r \in gone : r[2].player = p /\ r[2].sale = sale /\ (sale => p \notin lost)}
       IN  /\ lost \subseteq {r[2].player : r \in {r \in gone : r[2].sale}}
           /\ offers' = [id \in OfferIds |->
                            IF \E r \in gone : r[1] = id THEN NoRow ELSE offers[id]]
           /\ bank' = [p \in Merchants |-> bank[p] +
                 SumFunction([r \in Back(p, FALSE) |-> r[2].price * r[2].amount])]
           /\ stock' = [p \in Merchants |-> stock[p] +
                 SumFunction([r \in Back(p, TRUE) |-> Delivered(r[2].amount)])]
           /\ excused' = excused \cup (IF \E r \in gone : offers[r[1]] # NoRow /\ offers[r[1]] # r[2]
                                       THEN {"stale"} ELSE {}) \cup {"lost" : p \in lost}
    /\ checks' = Tail(checks)
    /\ UNCHANGED <<purse, stash, nextId, fees>>

\* Nothing is claimed of what follows an inexact step.
MarketNext ==
    /\ excused = {}
    /\ \/ \E p \in Merchants, price \in Prices, amount \in Amounts :
             CreateSell(p, price, amount) \/ CreateBuy(p, price, amount)
       \/ \E p \in Merchants, id \in OfferIds : Cancel(p, id)
       \/ \E p \in Merchants, id \in OfferIds, amount \in Amounts :
             AcceptBuy(p, id, amount) \/ AcceptSell(p, id, amount)
       \/ \E id \in OfferIds : AskExpired(id)
       \/ \E c \in 1..MaxChecks : RunSelect(c)
       \/ \E lost \in SUBSET Merchants : ProcessExpired(lost)

MarketSpec == MarketInit /\ [][MarketNext]_marketVars

-----------------------------------------------------------------------------
(* Properties.                                                             *)

\* What waits in an offer: the money of a buy offer, the pieces of a sell offer.
Deposit(id) ==
    IF offers[id] = NoRow \/ offers[id].sale THEN 0 ELSE offers[id].price * offers[id].amount
Pledge(id) == IF offers[id] = NoRow \/ ~offers[id].sale THEN 0 ELSE offers[id].amount

Money ==
    SumFunction(purse) + SumFunction(bank) + fees + SumFunction([id \in OfferIds |-> Deposit(id)])

Pieces ==
    SumFunction(stock) + SumFunction(stash) + SumFunction([id \in OfferIds |-> Pledge(id)])

\* Neither money, but for the fees, nor goods are made or lost: what was paid
\* for a buy offer and the pieces of a sell offer wait in it until they are
\* given back or handed over, in whatever parts and order offers are accepted,
\* cancelled and found expired.  The exceptions are all of the code: the
\* product of a buy offer does not fit into 32 bits; a seller has pieces in
\* the stash (of those some are taken and not offered, or paid and not
\* delivered); an offer is partly accepted between the SELECT of the expiry
\* and its handling; the last statement of a request fails; or the seller of
\* an expired offer, whose row is gone already, cannot be loaded.
MarketConserved ==
    /\ MarketTypeOK
    /\ excused = {} =>
          /\ Money = SumFunction(StartPurse) + SumFunction(StartBank)
          /\ Pieces = SumFunction(StartStock) + SumFunction(StartStash)
=============================================================================
