----------------------------- MODULE MCScheduler -----------------------------
EXTENDS Scheduler

CONSTANTS self, net, e1, e2

MCThreads == {self, net}
MCEvents == {e1, e2}
MCDelays == {0, 1, 2}
=============================================================================
