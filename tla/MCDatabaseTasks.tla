--------------------------- MODULE MCDatabaseTasks ---------------------------
EXTENDS DatabaseTasks

CONSTANTS self, net, q1, q2, q3

MCThreads == {self, net}
MCQueries == {q1, q2, q3}
MCWithCallback == {q2}
=============================================================================
