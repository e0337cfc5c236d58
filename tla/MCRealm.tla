------------------------------- MODULE MCRealm -------------------------------
(***************************************************************************)
(* Small instances of four more parts of the game without common state:    *)
(* the login queue, raids, the movement of items, and chat with guilds.  A *)
(* behaviour is one of a single part, chosen at the start; the others      *)
(* stand still.  Items have two: a player with little and all that may     *)
(* become of it, and one with more money than there is room for.           *)
(***************************************************************************)
EXTENDS MCWaitingList, Raids, Items, Chat, TLC

CONSTANTS storm, once, dud,        \* raids
          c1, c2, c3,              \* stacks of coins
          backpack, pouch, axe,    \* what the player has
          reds, blues, band, help  \* guilds, a party, a public channel

VARIABLE realm

realmVars == <<realm, waitVars, raidVars, itemVars, chatVars>>

\* Raids: one can be repeated, one cannot, one has no events.
MCRaidNames == {storm, once, dud}
MCRaidEvents == storm :> 2 @@ once :> 2 @@ dud :> 0
MCRepeatable == {storm}

\* Items: a backpack with room for two and a gold pouch in it, which has
\* pages and shows one place; the axe is in the hand, a coin on the ground.
MCCoins == {c1, c2, c3}
MCBoxes == {backpack, pouch}
MCTools == {axe}
MCPaged == {pouch}
MCSlots == {3, 5}
MCDressable == 3 :> {backpack} @@ 5 :> MCCoins \cup MCTools
MCRoom == backpack :> 2 @@ pouch :> 1
FewThings ==
    [parent |-> [o \in Objects |-> CASE o \in {backpack, axe} -> Owner
                                     [] o = pouch -> backpack
                                     [] o = c1 -> Tile
                                     [] OTHER -> Void],
     list |-> backpack :> <<pouch>> @@ pouch :> <<>> @@ Tile :> <<c1>>,
     inventory |-> 3 :> backpack @@ 5 :> axe,
     count |-> [o \in Coins |-> IF o = c1 THEN 1 ELSE 0],
     total |-> backpack :> 1 @@ pouch :> 0,
     carried |-> 3, capacity |-> 4, offered |-> Nothing, unweighed |-> FALSE, due |-> 4]

\* Backpack and pouch are full, and two stacks take one more coin each.
MuchMoney ==
    [parent |-> [o \in Objects |-> CASE o \in {backpack, c1} -> Owner
                                     [] o \in {pouch, c2} -> backpack
                                     [] o = axe -> pouch
                                     [] OTHER -> Void],
     list |-> backpack :> <<c2, pouch>> @@ pouch :> <<axe>> @@ Tile :> <<>>,
     inventory |-> 3 :> backpack @@ 5 :> c1,
     count |-> [o \in Coins |-> IF o \in {c1, c2} THEN 2 ELSE 0],
     total |-> backpack :> 4 @@ pouch :> 1,
     carried |-> 7, capacity |-> 10, offered |-> Nothing, unweighed |-> FALSE, due |-> 7]
MCFirstStuff == {FewThings, MuchMoney}

\* Bounds: how much there is in the first of them, in two stacks at most, and
\* that in the second only coins are given away and the pouch stays full.
Few == stuff'.due <= 6 /\ \E c \in Coins : stuff'.parent[c] = Void
Kept == stuff'.parent[axe] = pouch /\ IsCarried(stuff', pouch)

\* Chat: the second guild has no ranks; guilds and the party are apart from the
\* channels that need neither.
MCSpeakers == {ada, ben}
MCHome == ada :> reds @@ ben :> blues
MCGuilds == {reds, blues}
MCRanked == {reds}
MCBands == {band}
MCNormalIds == {help}
MCPrivateIds == {100, 101}
MCFashions == {{help, 100}, {100, 101}, {reds, blues}, {band}}

\* Stacks are interchangeable.
CoinSymmetry == Permutations(MCCoins)

Init ==
    /\ realm \in {"queue", "raids", "items", "hoard", "chat"}
    /\ WaitInit /\ RaidInit /\ ItemsInit /\ ChatInit
    /\ stuff = IF realm = "hoard" THEN MuchMoney ELSE FewThings
    /\ realm # "chat" => chat.inUse = CHOOSE fashion \in Fashions : TRUE

Next ==
    /\ UNCHANGED realm
    /\ realm # "queue" => UNCHANGED waitVars
    /\ realm # "raids" => UNCHANGED raidVars
    /\ realm \notin {"items", "hoard"} => UNCHANGED itemVars
    /\ realm # "chat" => UNCHANGED chatVars
    /\ \/ realm = "queue" /\ WaitNext
       \/ realm = "raids" /\ RaidNext
       \/ realm = "items" /\ ItemsNext /\ Few
       \/ realm = "hoard" /\ ItemsNext /\ Kept
       \/ realm = "chat" /\ ChatNext

Spec == Init /\ [][Next]_realmVars
=============================================================================
