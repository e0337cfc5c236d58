SPECIFICATION TownSpec
CONSTANTS
    ann = ann  bob = bob
    wolf = wolf  boar = boar

    Protocols = {p1, p2}
    None = None
    MaxTasks = 3
    MaxBodies = 1

    Residents <- MCResidents
    Staff <- MCStaff
    NoResident = NoResident
    ListIds <- MCListIds
    Texts <- MCTexts
    NoDeal = NoDeal
    NoList = NoList
    LastWarning = 1
    MaxTenures = 2
    MaxWindows = 1
    Guests <- MCResidents
    Tenants <- MCTenants
    Beds <- MCBeds
    NoBed = NoBed

    Beasts <- MCBeasts
    Visitors <- MCVisitors
    Partisans <- MCPartisans
    Foes <- MCFoes
    Places <- MCPlaces
    Haunts <- MCHaunts
    Den <- MCDen
    View = 0
    Reach = 1
    Radius = 0
    NoCreature = NoCreature
    Frail <- MCFrail
    MaxOnScreen = 2

    Adventures <- MCAdventures
    Gear <- MCGear
    NoLook = "blank"
    MountSpeed = 3
    Forever = 9
    Delays <- MCDelays
    MaxRemovals = 1
    Levels = {1, 2}
    MaxStray = 6

    Wearers <- MCResidents
    Wares <- MCWares
    Hands <- MCHands
    Busy <- MCSmiths
    Aggressive <- MCAggressive
    NoWearer = NoWearer
    NoWare = NoWare
    SlotCount = 2
    Lasting = 2
    Byte = 3
    MaxDrift = 1

SYMMETRY ClientSymmetry
INVARIANTS
    ClientAgreed
    RefsExact
    ReachableIsAlive
    AutosendRuns
    ClosedIsReleased
    HouseSound
    MonstersSound
    GearSound
