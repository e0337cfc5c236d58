CONSTANTS
    ada = ada
    ben = ben
    cyd = cyd
    vip = vip
    gm = gm
    Players <- MCPlayers
    Premium <- MCPremium
    AlwaysLogin <- MCAlwaysLogin
    MaxPlayers = 2
    Jumps <- MCJumps
    MaxTime = 35
    MaxLogouts = 2
    Modulus = 256
SPECIFICATION WaitSpec
PROPERTIES
    LapsedEntriesRemoved
CHECK_DEADLOCK FALSE
