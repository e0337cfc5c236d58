---------------------------- MODULE MCConnection -----------------------------
EXTENDS Connection

CONSTANTS m1, m2, m3
MCMessages == {m1, m2, m3}
=============================================================================
