------------------------------- MODULE MCWorld -------------------------------
(***************************************************************************)
(* Small instances of the parts of the game that share the dispatcher      *)
(* thread but no state: trade, decay, market, party, walking, spawns and   *)
(* (on the network thread) a listening port.  A behaviour is one of a      *)
(* single part, chosen at the start; the others stand still.               *)
(***************************************************************************)
EXTENDS Trade, Decay, Market, Party, Walk, Spawn, ServicePort, TLC

CONSTANTS ann, bob, cid,          \* players of every part
          bag, coin, sword, pack, \* goods of a trade
          corpse, torch, ring     \* items that decay

VARIABLE part

worldVars == <<part, tradeVars, decayVars, marketVars, partyVars, walkVars, spawnVars, portVars>>

MCPlayers == {ann, bob, cid}

\* Trade: a bag with a coin in a backpack; what is traded may be too heavy.
MCGoods == {bag, coin, sword, pack}
MCBags == {bag, pack}
MCRefusable == {coin}
MCStartPlace == bag :> pack @@ coin :> bag @@ sword :> bob @@ pack :> ann
MCWeight == bag :> 1 @@ coin :> 1 @@ sword :> 2 @@ pack :> 1
MCCapacity == ann :> 3 @@ bob :> 3 @@ cid :> 1

\* Decay: two items at a time, of which one may lie in the other.
MCPerishables == {corpse, torch, ring}
MCWorn == {ring}
MCScripted == {torch}
MCFirstParents ==
    {corpse :> OnMap @@ torch :> corpse @@ ring :> Removed,
     corpse :> OnMap @@ torch :> Removed @@ ring :> corpse,
     corpse :> Removed @@ torch :> OnMap @@ ring :> OnMap}
MCLifetime == corpse :> 1 @@ torch :> 2 @@ ring :> 2
MCStages == corpse :> 2 @@ torch :> 1 @@ ring :> 1
MCNewDurations == {0, 1}
MCEventSlots == 1..2

\* Market: 3 * 2 does not fit into a word of 5.
MCMerchants == {ann, bob}
MCOfferIds == 1..2
MCPrices == {1, 3}
MCAmounts == {1, 2}
MCStartPurse == ann :> 4 @@ bob :> 3
MCStartBank == ann :> 3 @@ bob :> 3
MCStartStock == ann :> 1 @@ bob :> 2
MCStartStash == ann :> 1 @@ bob :> 0

\* Party: cid's level is at first too low for the others.
MCPartyIds == 1..2
MCRovers == {cid}
MCLevels == {3, 6}
MCStartLevel == ann :> 6 @@ bob :> 6 @@ cid :> 3

\* Walk: two events at a time, of which one may be handed over already.
MCWalkEvents == 1..2

\* Spawn: the third block is one that is not blockable.
MCBlocks == 1..3
MCBlockable == 1..2

Init ==
    /\ part \in {"trade", "decay", "market", "party", "walk", "spawn", "port"}
    /\ TradeInit /\ DecayInit /\ MarketInit /\ PartyInit /\ WalkInit /\ SpawnInit /\ PortInit
    /\ part # "decay" => decay.parent = CHOOSE first \in FirstParents : TRUE

Next ==
    /\ UNCHANGED part
    /\ part # "trade" => UNCHANGED tradeVars
    /\ part # "decay" => UNCHANGED decayVars
    /\ part # "market" => UNCHANGED marketVars
    /\ part # "party" => UNCHANGED partyVars
    /\ part # "walk" => UNCHANGED walkVars
    /\ part # "spawn" => UNCHANGED spawnVars
    /\ part # "port" => UNCHANGED portVars
    /\ \/ part = "trade" /\ TradeNext
       \/ part = "decay" /\ DecayNext
       \/ part = "market" /\ MarketNext
       \/ part = "party" /\ PartyNext
       \/ part = "walk" /\ WalkNext
       \/ part = "spawn" /\ SpawnNext
       \/ part = "port" /\ PortNext

Spec == Init /\ [][Next]_worldVars
=============================================================================
