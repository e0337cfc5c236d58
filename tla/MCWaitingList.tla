---------------------------- MODULE MCWaitingList ----------------------------
EXTENDS WaitingList

CONSTANTS ada, ben, cyd, vip, gm

MCPlayers == {ada, ben, cyd, vip, gm}
MCPremium == {vip, cyd}
MCAlwaysLogin == {gm}
MCJumps == {10, 25}
=============================================================================
