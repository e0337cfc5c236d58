---------------------------- MODULE MCDispatcher ----------------------------
EXTENDS Dispatcher

CONSTANTS self, net, main, t1, t2, t3, u1

MCThreads == {self, net, main}
MCTasks == {t1, t2, t3, u1}
MCUrgent == {u1}
MCPerishable == {t1}
=============================================================================
