SPECIFICATION Spec
CONSTANTS
    ann = ann  bob = bob  cid = cid
    bag = bag  coin = coin  sword = sword  pack = pack
    corpse = corpse  torch = torch  ring = ring

    Traders <- MCPlayers
    Goods <- MCGoods
    Bags <- MCBags
    Refusable <- MCRefusable
    Ground = Ground
    Nowhere = Nowhere
    NoOne = NoOne
    NoItem = NoItem
    StartPlace <- MCStartPlace
    Weight <- MCWeight
    Capacity <- MCCapacity

    Perishables <- MCPerishables
    Worn <- MCWorn
    Scripted <- MCScripted
    OnMap = OnMap
    Removed = Removed
    FirstParents <- MCFirstParents
    Lifetime <- MCLifetime
    Stages <- MCStages
    NewDurations <- MCNewDurations
    EventSlots <- MCEventSlots
    MaxReleases = 2
    MaxNow = 3

    Merchants <- MCMerchants
    OfferIds <- MCOfferIds
    Prices <- MCPrices
    Amounts <- MCAmounts
    Word = 5
    MinFee = 1
    MaxFee = 2
    StackSize = 1
    MaxOffers = 2
    MaxChecks = 2
    StartPurse <- MCStartPurse
    StartBank <- MCStartBank
    StartStock <- MCStartStock
    StartStash <- MCStartStash

    Fellows <- MCPlayers
    PartyIds <- MCPartyIds
    NoParty = NoParty
    Rovers <- MCRovers
    Levels <- MCLevels
    StartLevel <- MCStartLevel

    MaxSteps = 2
    WalkEvents <- MCWalkEvents
    MaxQueue = 3

    Blocks <- MCBlocks
    Blockable <- MCBlockable
    RateSpawn = 1
    MaxPending = 2

    MaxReopens = 2

INVARIANTS
    MarketConserved
    PartyConsistent
    WalkNotStuck
    SpawnNotForgotten
    PortServed
PROPERTIES
    TradeSound
    DecaySound
CHECK_DEADLOCK FALSE
