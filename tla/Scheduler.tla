------------------------------ MODULE Scheduler ------------------------------
(***************************************************************************)
(* The scheduler thread (game/scheduling/scheduler.cpp): timed events that *)
(* are handed to the dispatcher when they are due.  eventList is ordered   *)
(* by due time; eventIds holds the ids of the events that were not         *)
(* stopped.  The dispatcher is present only as the consumer of handed-over *)
(* events: they go to the front of its list, and it deletes an event after *)
(* running it, never while its own thread is inside addEvent().            *)
(*                                                                         *)
(* Each critical section of eventLock is one step.  system_clock is taken  *)
(* to be monotonic.                                                        *)
(***************************************************************************)
EXTENDS Naturals, Sequences, FiniteSets

CONSTANTS Threads,   \* the threads that call addEvent() and stopEvent()
          Self,      \* among them, the dispatcher's own thread
          Events,    \* the SchedulerTask objects of a behaviour, too few to use
                     \* an id twice
          Delays,    \* the delays callers ask for, in ticks
          MaxTime,   \* bound on the clock
          IdLimit,   \* the largest event id (2^32 - 1 in the code)
          NoEvent    \* "no event"

ASSUME SchedulerAssumption ==
    /\ Self \in Threads
    /\ Delays \subseteq Nat
    /\ MaxTime \in Nat
    /\ IdLimit \in Nat \ {0}
    /\ IsFiniteSet(Events) /\ Cardinality(Events) <= IdLimit
    /\ NoEvent \notin Events

VARIABLES threadState,  \* ThreadHolder::threadState
          eventList,    \* the events in the priority queue
          eventIds,     \* Scheduler::eventIds
          lastEventId,  \* Scheduler::lastEventId
          cycle,        \* SchedulerTask::getCycle() of each event
          eventId,      \* SchedulerTask::eventId, 0 before addEvent()
          now,          \* the clock
          worker,       \* where threadMain() is
          deadline,     \* the time threadMain() waits for
          inHand,       \* the event threadMain() is handing over
          adding,       \* per thread, the event whose addEvent() call it is in
          notifying,    \* threads between unlock() and notify_one()
          closing,      \* how far Scheduler::shutdown() has got
          fate,         \* what became of each event
          handed,       \* events in the dispatcher's list, front first
          stopped       \* events for which stopEvent() returned true

vars == <<threadState, eventList, eventIds, lastEventId, cycle, eventId, now,
          worker, deadline, inHand, adding, notifying, closing, fate, handed,
          stopped>>
queueVars == <<eventList, eventIds, lastEventId, cycle, eventId>>
callVars == <<adding, notifying>>
workerVars == <<worker, deadline, inHand>>
fateVars == <<fate, handed, stopped>>

ThreadStates == {"RUNNING", "CLOSING", "TERMINATED"}
WorkerStates == {"none", "loop", "lock", "wait", "timed", "woken",
                 "timedWoken", "handover", "exit"}
Fates == {"new", "pending", "dropped", "handover", "handed", "run", "discarded"}

TypeOK ==
    /\ threadState \in ThreadStates
    /\ eventList \subseteq Events
    /\ eventIds \subseteq 1..IdLimit
    /\ lastEventId \in 0..IdLimit
    /\ cycle \in [Events -> 0..MaxTime]
    /\ eventId \in [Events -> 0..IdLimit]
    /\ now \in 0..MaxTime
    /\ worker \in WorkerStates
    /\ deadline \in 0..MaxTime
    /\ inHand \in Events \cup {NoEvent}
    /\ adding \in [Threads -> Events \cup {NoEvent}]
    /\ notifying \subseteq {c \in Threads : adding[c] # NoEvent}
    /\ closing \in {"no", "marked", "cleared", "done"}
    /\ fate \in [Events -> Fates]
    /\ handed \in Seq(Events)
    /\ stopped \subseteq Events

\* ThreadHolder::start() has created the thread; any number of events, all gone
\* by now, may have been added since.
Init ==
    /\ threadState = "RUNNING"
    /\ worker = "loop"
    /\ eventList = {} /\ eventIds = {}
    /\ lastEventId \in 0..IdLimit
    /\ cycle = [e \in Events |-> 0]
    /\ eventId = [e \in Events |-> 0]
    /\ now = 0 /\ deadline = 0
    /\ inHand = NoEvent
    /\ adding = [c \in Threads |-> NoEvent]
    /\ notifying = {}
    /\ closing = "no"
    /\ fate = [e \in Events |-> "new"]
    /\ handed = <<>>
    /\ stopped = {}

-----------------------------------------------------------------------------
(* The callers' side. *)

\* Both kinds of waiting can be ended by notify_one().
Notified(w) ==
    IF w = "wait" THEN "woken" ELSE IF w = "timed" THEN "timedWoken" ELSE w

\* ++lastEventId on an unsigned integer; 0 is not an id.
NextId == IF lastEventId = IdLimit THEN 1 ELSE lastEventId + 1

\* The event's object exists: queued (stopped or not), or with the dispatcher.
Live(e) == fate[e] \in {"pending", "handover", "handed"}

\* Fault: the top is compared before the push.
DoSignalEarly(e) == {FALSE}

\* task == eventList.top() after the push.  When another event is due at the
\* same time either may be the top.
DoSignal(e) ==
    {signal \in BOOLEAN :
       IF signal THEN \A f \in eventList : cycle'[e] <= cycle'[f]
                 ELSE \E f \in eventList : cycle'[f] <= cycle'[e]}

Idle(c) == adding[c] = NoEvent /\ (c = Self => closing \in {"no", "done"})

\* createSchedulerTask() and addEvent() up to unlock().
AddEvent(c, e, delay) ==
    /\ Idle(c)
    /\ fate[e] = "new"
    /\ now + delay <= MaxTime
    /\ \/ /\ threadState = "RUNNING"
          /\ cycle' = [cycle EXCEPT ![e] = now + delay]
          /\ lastEventId' = NextId
          /\ eventId' = [eventId EXCEPT ![e] = NextId]
          /\ eventIds' = eventIds \cup {NextId}
          /\ eventList' = eventList \cup {e}
          /\ adding' = [adding EXCEPT ![c] = e]
          /\ \E signal \in DoSignal(e) :
                notifying' = IF signal THEN notifying \cup {c} ELSE notifying
          /\ fate' = [fate EXCEPT ![e] = "pending"]
       \/ /\ threadState # "RUNNING"
          /\ fate' = [fate EXCEPT ![e] = "dropped"]
          /\ UNCHANGED <<cycle, lastEventId, eventId, eventIds, eventList,
                         adding, notifying>>
    /\ UNCHANGED <<threadState, now, workerVars, closing, handed, stopped>>

\* notify_one() in addEvent(), after unlock().
Notify(c) ==
    /\ c \in notifying
    /\ notifying' = notifying \ {c}
    /\ worker' = Notified(worker)
    /\ UNCHANGED <<threadState, queueVars, now, deadline, inHand, adding, closing,
                   fateVars>>

\* "return task->getEventId()": the task is read after the lock was released.
ReturnId(c) ==
    /\ adding[c] # NoEvent
    /\ c \notin notifying
    /\ adding' = [adding EXCEPT ![c] = NoEvent]
    /\ UNCHANGED <<threadState, queueVars, now, workerVars, notifying, closing,
                   fateVars>>

\* stopEvent() for the id that addEvent() returned for e, whose owner forgets
\* the id when e runs.  The event stays in eventList: threadMain() discards it
\* when it gets there.
StopEvent(c, e) ==
    /\ Idle(c)
    /\ Live(e)
    /\ \A d \in Threads : adding[d] # e
    /\ eventId[e] \in eventIds
    /\ eventIds' = eventIds \ {eventId[e]}
    /\ stopped' = stopped \cup {e}
    /\ UNCHANGED <<threadState, eventList, lastEventId, cycle, eventId, now,
                   workerVars, callVars, closing, fate, handed>>

\* ThreadHolder::stop().
Stop ==
    /\ Idle(Self)
    /\ threadState = "RUNNING"
    /\ threadState' = "CLOSING"
    /\ UNCHANGED <<queueVars, now, workerVars, callVars, closing, fateVars>>

\* Scheduler::shutdown(), on the dispatcher thread: the state is set before the
\* lock is taken, and notify_one() comes after it was released.
ShutdownMark ==
    /\ closing = "no"
    /\ Idle(Self)
    /\ threadState' = "TERMINATED"
    /\ closing' = "marked"
    /\ UNCHANGED <<queueVars, now, workerVars, callVars, fateVars>>

ShutdownClear ==
    /\ closing = "marked"
    /\ closing' = "cleared"
    /\ fate' = [e \in Events |-> IF e \in eventList THEN "discarded" ELSE fate[e]]
    /\ eventList' = {}
    /\ eventIds' = {}
    /\ UNCHANGED <<threadState, lastEventId, cycle, eventId, now, workerVars,
                   callVars, handed, stopped>>

ShutdownNotify ==
    /\ closing = "cleared"
    /\ closing' = "done"
    /\ worker' = Notified(worker)
    /\ UNCHANGED <<threadState, queueVars, now, deadline, inHand, callVars, fateVars>>

-----------------------------------------------------------------------------
(* threadMain(). *)

LoopTest ==
    /\ worker = "loop"
    /\ worker' = IF threadState = "TERMINATED" THEN "exit" ELSE "lock"
    /\ UNCHANGED <<threadState, queueVars, now, deadline, inHand, callVars, closing,
                   fateVars>>

\* The event may be eventList.top().
IsTop(e) == e \in eventList /\ \A f \in eventList : cycle[e] <= cycle[f]

\* lock(), then wait(), or wait_until() the time of the top event.
LockAndWait ==
    /\ worker = "lock"
    /\ \/ /\ eventList = {}
          /\ worker' = "wait"
          /\ UNCHANGED deadline
       \/ \E top \in eventList :
             /\ IsTop(top)
             /\ worker' = "timed"
             /\ deadline' = cycle[top]
    /\ UNCHANGED <<threadState, queueVars, now, inHand, callVars, closing, fateVars>>

\* wait() and wait_until() may return at any time; wait_until() does when the
\* time has come.
WakeUp ==
    /\ worker \in {"wait", "timed"}
    /\ worker' = Notified(worker)
    /\ UNCHANGED <<threadState, queueVars, now, deadline, inHand, callVars, closing,
                   fateVars>>

Timeout == worker = "timed" /\ deadline <= now /\ WakeUp

\* Fault: the id of the event taken is not looked up.
ActiveAlways(e) == TRUE

\* The event was not stopped.
Active(e) == eventId[e] \in eventIds

TakeTop(top) ==
    /\ IsTop(top)
    /\ eventList' = eventList \ {top}
    /\ \/ /\ ~Active(top)
          /\ fate' = [fate EXCEPT ![top] = "discarded"]
          /\ worker' = "loop"
          /\ UNCHANGED <<eventIds, inHand>>
       \/ /\ Active(top)
          /\ eventIds' = eventIds \ {eventId[top]}
          /\ fate' = [fate EXCEPT ![top] = "handover"]
          /\ inHand' = top
          /\ worker' = "handover"

\* Fault: wait_until() is taken to have timed out whenever it returns.
TimedOutAlways == TRUE

\* The status of wait_until() is a timeout if the clock has passed the time
\* waited for, whatever woke the thread.
TimedOut == deadline <= now

\* The mutex is locked again: on a timeout the top event is taken, and deleted
\* if its id is no longer active.
AfterWait ==
    /\ \/ worker = "timedWoken" /\ TimedOut /\ \E top \in eventList : TakeTop(top)
       \/ /\ \/ worker = "woken"
             \/ worker = "timedWoken" /\ (~TimedOut \/ eventList = {})
          /\ worker' = "loop"
          /\ UNCHANGED <<eventList, eventIds, fate, inHand>>
    /\ deadline' = 0  \* no longer of use
    /\ UNCHANGED <<threadState, lastEventId, cycle, eventId, now,
                   callVars, closing, handed, stopped>>

\* Fault: the event is run and deleted on the scheduler's own thread.
HandOverInline ==
    /\ worker = "handover"
    /\ fate' = [fate EXCEPT ![inHand] = "run"]
    /\ inHand' = NoEvent
    /\ worker' = "loop"
    /\ UNCHANGED <<threadState, queueVars, now, deadline, callVars, closing, handed, stopped>>

\* g_dispatcher.addTask(task, true), with an expiration that never strikes and
\* to a dispatcher that runs: one that has been stopped deletes the task
\* (tasks.cpp:83), in a server that is going down.
HandOver ==
    /\ worker = "handover"
    /\ handed' = <<inHand>> \o handed
    /\ fate' = [fate EXCEPT ![inHand] = "handed"]
    /\ inHand' = NoEvent
    /\ worker' = "loop"
    /\ UNCHANGED <<threadState, queueVars, now, deadline, callVars, closing, stopped>>

-----------------------------------------------------------------------------
(* The surroundings. *)

\* The dispatcher runs the event at the front of its list and deletes it.
DispatcherRuns ==
    /\ Idle(Self)
    /\ handed # <<>>
    /\ handed' = Tail(handed)
    /\ fate' = [fate EXCEPT ![Head(handed)] = "run"]
    /\ UNCHANGED <<threadState, queueVars, now, workerVars, callVars, closing, stopped>>

Tick ==
    /\ now < MaxTime
    /\ now' = now + 1
    /\ UNCHANGED <<threadState, queueVars, workerVars, callVars, closing, fateVars>>

WorkerStep == LoopTest \/ LockAndWait \/ Timeout \/ AfterWait \/ HandOver
CallStep(c) == Notify(c) \/ ReturnId(c)
ShutdownStep == ShutdownClear \/ ShutdownNotify

Next ==
    \/ \E c \in Threads :
          \/ \E e \in Events, d \in Delays : AddEvent(c, e, d)
          \/ \E e \in Events : StopEvent(c, e)
          \/ CallStep(c)
    \/ Stop \/ ShutdownMark \/ ShutdownStep
    \/ WakeUp
    \/ WorkerStep
    \/ DispatcherRuns
    \/ Tick

Spec == Init /\ [][Next]_vars

\* Time passes, threads that can run do run, and shutdown() once begun is
\* finished; no fairness on the callers' initiatives or on spurious wake-ups.
FairSpec ==
    /\ Spec
    /\ WF_vars(WorkerStep) /\ WF_vars(Tick) /\ WF_vars(ShutdownStep)
    /\ WF_vars(DispatcherRuns)
    /\ \A c \in Threads : WF_vars(CallStep(c))

-----------------------------------------------------------------------------
(* Properties. *)

\* threadMain() hands an event over only when its time has come, although
\* another event may have become the top while it slept or the lock was free.
NeverEarly ==
    /\ TypeOK
    /\ \A e \in Events : fate[e] \in {"handover", "handed", "run"} => cycle[e] <= now

\* A true result of stopEvent() is a promise: the event never reaches the
\* dispatcher, although its object stays in eventList.
StopIsFinal ==
    \A e \in stopped : fate[e] \notin {"handover", "handed", "run"}

\* addEvent() reads the task after unlocking.  When the dispatcher's own thread
\* is the caller the task cannot have been run and deleted in between.
IdReadIsSafe ==
    adding[Self] # NoEvent =>
        fate[adding[Self]] \notin {"run", "discarded"}

\* Every event is eventually handed over and run, unless it is stopped or the
\* scheduler is shut down: it is neither slept past nor thrown away, although
\* addEvent() notifies after unlocking and only if the event is the top.
EventsFire ==
    \A e \in Events :
       fate[e] = "pending" ~> \/ fate[e] = "run" \/ e \in stopped
                              \/ closing # "no"

\* Those who join the scheduler thread after shutdown() get it back.
ThreadEnds == closing = "done" ~> worker = "exit"
=============================================================================
