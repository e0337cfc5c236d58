SPECIFICATION Spec
CONSTANTS
    ada = ada  ben = ben  cyd = cyd  vip = vip  gm = gm
    Players <- MCPlayers
    Premium <- MCPremium
    AlwaysLogin <- MCAlwaysLogin
    MaxPlayers = 2
    Jumps <- MCJumps
    MaxTime = 35
    MaxLogouts = 3
    Modulus = 256

    storm = storm  once = once  dud = dud
    RaidNames <- MCRaidNames
    RaidEvents <- MCRaidEvents
    Repeatable <- MCRepeatable
    NoRaid = NoRaid
    CheckTask = CheckTask
    MaxReloads = 1
    MaxRaidTasks = 5

    c1 = c1  c2 = c2  c3 = c3
    backpack = backpack  pouch = pouch  axe = axe
    Coins <- MCCoins
    Boxes <- MCBoxes
    Tools <- MCTools
    Paged <- MCPaged
    Fixed = {}
    Owner = Owner
    Tile = Tile
    Void = Void
    Nothing = Nothing
    Slots <- MCSlots
    Dressable <- MCDressable
    Room <- MCRoom
    MaxStack = 3
    MaxDue = 10
    FirstStuff <- MCFirstStuff

    reds = reds  blues = blues  band = band  help = help
    Speakers <- MCSpeakers
    PremiumSpeakers <- MCSpeakers
    Home <- MCHome
    Guilds <- MCGuilds
    NoGuild = NoGuild
    Ranked <- MCRanked
    Bands <- MCBands
    NoBand = NoBand
    NormalIds <- MCNormalIds
    PrivateIds <- MCPrivateIds
    Fashions <- MCFashions
SYMMETRY CoinSymmetry
INVARIANTS
    WaitListSound
    RaidsSound
    ItemsSound
    ChatSound
PROPERTIES
    RoomForThoseAhead
CHECK_DEADLOCK FALSE
