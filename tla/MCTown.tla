------------------------------- MODULE MCTown --------------------------------
(***************************************************************************)
(* Small instances of what is about players and creatures as objects that  *)
(* others point at or write to: the clients of one character, a house and  *)
(* its rows, its beds, monsters, conditions and imbuements.  They share    *)
(* no state; a behaviour is one of a single part, chosen at the start, and *)
(* the others stand still.                                                 *)
(***************************************************************************)
EXTENDS GameSession, Bed, Monster, Imbue, TLC

CONSTANTS ann, bob,     \* players of the house, of the beds and among monsters
          wolf, boar    \* monsters

VARIABLE part

townVars == <<part, vars, houseVars, bedVars, wildVars, condVars, imbueVars>>

ClientSymmetry == Permutations(Protocols)

\* House and beds: bob is of the staff, ann who is invited or not.  The house is
\* explored twice, its lists while the rent is paid, and the rent, asked for with
\* one warning, while the staff leave a house that nobody owns alone.  So are the
\* beds: both while nobody dies, and one of them with deaths.
MCResidents == {ann, bob}
MCStaff == {bob}
MCListIds == {"guest", "subowner"}
MCTexts == {{}, {ann}}
MCTenants == {ann}
MCSmiths == {ann}
MCBeds == 1..2

\* Monster: one monster of a faction that fights the other's; the boar may be
\* away from its den; three places: in sight, within reach, out of reach.
MCBeasts == {wolf, boar}
MCVisitors == {ann}
MCPartisans == {boar}
MCFrail == {boar}
MCFoes == boar :> {wolf}
MCPlaces == 0..2
MCHaunts == wolf :> {0} @@ boar :> {0, 1} @@ ann :> {0, 2}
MCDen == wolf :> 0 @@ boar :> 1

\* Conditions: speeds, looks, a transformation within another, magic shields of
\* a spell and of a ring, forbidden defence, a ring that adds a percentage of the
\* magic level.  Two items suppress drunkenness.
Condition(kind, id, sub, left, val, off) ==
    [kind |-> kind, id |-> id, sub |-> sub, left |-> left, val |-> val, off |-> off]
Adventure(spells, slots, looks, styles, levels) ==
    [spells |-> spells, slots |-> slots, looks |-> looks, styles |-> styles, levels |-> levels]
MCAdventures ==
    {Adventure({Condition("haste", 0, 0, 1, 2, FALSE), Condition("haste", 0, 1, 0, 1, FALSE),
                Condition("paralyze", 0, 0, 1, -1, FALSE)}, {1}, {"knight"}, {}, {1}),
     Adventure({Condition("invisible", 0, 0, 0, 0, FALSE), Condition("outfit", 0, 0, 0, "rat", FALSE)},
               {2}, {"knight", "mage"}, {}, {1}),
     Adventure({Condition("invisible", 0, 0, 0, 0, FALSE), Condition("outfit", 0, 0, 0, "rat", FALSE)},
               {}, {"knight", "mage"}, {"mage"}, {1}),
     Adventure({Condition("outfit", 0, 0, 1, "rat", FALSE), Condition("outfit", -1, 0, 0, "cat", FALSE)},
               {}, {"knight"}, {"knight"}, {1}),
     Adventure({Condition("manashield", 0, 0, 1, 2, FALSE)}, {1, 2}, {"knight"}, {}, {1}),
     Adventure({Condition("attributes", 0, 0, 1, 2, TRUE), Condition("attributes", 0, 1, 0, 1, FALSE)},
               {}, {"knight"}, {}, {1}),
     Adventure({Condition("attributes", 0, 0, 0, 1, FALSE)}, {3}, {"knight"}, {}, {1, 2})}
MCGear ==
    <<[speed |-> 1, skill |-> <<0, 0>>, invisible |-> FALSE, manaShield |-> TRUE, suppress |-> {"drunk"}],
      [speed |-> 0, skill |-> <<0, 0>>, invisible |-> TRUE, manaShield |-> FALSE, suppress |-> {"drunk"}],
      [speed |-> 0, skill |-> <<1, 2>>, invisible |-> FALSE, manaShield |-> FALSE, suppress |-> {}]>>
MCDelays == {0, 1}

\* Imbue: ann imbues two items, one of which bob may have as well.
MCWares == 1..2
MCHands == ann :> {1, 2} @@ bob :> {1}
MCAggressive == {2}

TownInit ==
    /\ part \in {"session", "house", "rent", "bed", "rise", "wild", "hero", "smith"}
    /\ Init /\ HouseInit /\ BedInit /\ WildInit /\ CondInit /\ ImbueInit
    /\ part # "hero" => \* one initial state of what stands still is enough
          me.look = Unmounted("knight") /\ adventure = CHOOSE v \in MCAdventures : TRUE

TownNext ==
    /\ UNCHANGED part
    /\ part # "session" => UNCHANGED vars
    /\ part \notin {"house", "rent"} => UNCHANGED houseVars
    /\ part \notin {"bed", "rise"} => UNCHANGED bedVars
    /\ part # "wild" => UNCHANGED wildVars
    /\ part # "hero" => UNCHANGED condVars
    /\ part # "smith" => UNCHANGED imbueVars
    /\ \/ part = "session" /\ Next
       \/ part = "house" /\ HouseNext /\ (house.paid => house'.paid)
       \/ part = "rent" /\ HouseNext /\ house'.seeded = {} /\ house'.lists["subowner"] = {}
       \/ part = "bed" /\ BedNext /\ dead' = {} /\ bedItem'[bob] # 2
       \/ part = "rise" /\ BedNext /\ \A p \in MCResidents : bedItem'[p] # 2
       \/ part = "wild" /\ WildNext
       \/ part = "hero" /\ CondNext
       \/ part = "smith" /\ ImbueNext
       \/ part = "wild" /\ UNCHANGED wildVars \* nothing happens once all are gone

TownSpec == TownInit /\ [][TownNext]_townVars
=============================================================================
