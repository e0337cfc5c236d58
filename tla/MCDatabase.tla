----------------------------- MODULE MCDatabase ------------------------------
EXTENDS Database

CONSTANTS d, t1, t2
MCOthers == {t1, t2}
MCUnchecked == {2}
=============================================================================
