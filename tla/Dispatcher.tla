------------------------------ MODULE Dispatcher -----------------------------
(***************************************************************************)
(* The dispatcher thread (game/scheduling/tasks.cpp): the one thread on    *)
(* which all of the game's logic runs.  Any thread hands it work through   *)
(* addTask(); threadMain() takes the tasks from the front of taskList.     *)
(*                                                                         *)
(* Each critical section of taskLock is one step: it reads threadState at  *)
(* most once and never blocks inside.  What happens outside the lock is a  *)
(* step of its own: the loop's test of threadState, the notify_one() that  *)
(* addTask() issues after unlocking, and the execution of the task.        *)
(***************************************************************************)
EXTENDS Naturals, Sequences, FiniteSets

CONSTANTS Threads,     \* the threads that call addTask()
          Self,        \* among them, the dispatcher's own thread
          Tasks,       \* the Task objects of a behaviour
          Urgent,      \* those queued with push_front = true
          Perishable,  \* those created with an expiration time
          Terminator,  \* the lambda that shutdown() queues
          NoTask       \* "the worker holds no task"

ASSUME DispatcherAssumption ==
    /\ Self \in Threads
    /\ Urgent \subseteq Tasks
    /\ Perishable \subseteq Tasks
    /\ Terminator \notin Tasks
    /\ NoTask \notin Tasks \cup {Terminator}

VARIABLES threadState,   \* ThreadHolder::threadState
          taskList,      \* Dispatcher::taskList
          worker,        \* where threadMain() is
          current,       \* the task threadMain() has popped
          notifying,     \* threads between unlock() and notify_one() in addTask()
          fate,          \* what became of each Task object
          shutdownFrom   \* threadState when shutdown() was called, or "no"

vars == <<threadState, taskList, worker, current, notifying, fate, shutdownFrom>>

ThreadStates == {"RUNNING", "CLOSING", "TERMINATED"}

WorkerStates ==
    {"none",      \* start() has not created the thread
     "loop",      \* at the test of the while loop
     "lock",      \* about to lock taskLock
     "wait",      \* inside taskSignal.wait()
     "woken",     \* wait() is returning: about to have taskLock again
     "popped",    \* a task in hand, hasExpired() not yet tested
     "execute",   \* inside (*task)()
     "exit"}      \* threadMain() has returned

Fates == {"new", "queued", "dropped", "popped", "executed", "expired"}

TypeOK ==
    /\ threadState \in ThreadStates
    /\ taskList \in Seq(Tasks \cup {Terminator})
    /\ worker \in WorkerStates
    /\ current \in Tasks \cup {Terminator, NoTask}
    /\ notifying \subseteq Threads
    /\ fate \in [Tasks -> Fates]
    /\ shutdownFrom \in ThreadStates \cup {"no"}
    /\ current = NoTask <=> worker \notin {"popped", "execute"}

Init ==
    /\ threadState = "TERMINATED"
    /\ taskList = <<>>
    /\ worker = "none"
    /\ current = NoTask
    /\ notifying = {}
    /\ fate = [t \in Tasks |-> "new"]
    /\ shutdownFrom = "no"

-----------------------------------------------------------------------------
(* The callers' side. *)

\* Fault: the wrong condition variable is notified.
NotifiedNobody(w) == w

\* notify_one() reaches the worker only if it is inside wait() at that moment.
Notified(w) == IF w = "wait" THEN "woken" ELSE w

\* ThreadHolder::start(), called by main().
Start ==
    /\ worker = "none"
    /\ threadState' = "RUNNING"
    /\ worker' = "loop"
    /\ UNCHANGED <<taskList, current, notifying, fate, shutdownFrom>>

\* A thread can make a call when it is not inside one already; the dispatcher's
\* own thread calls only from inside a task.
CanCall(c) ==
    /\ c \notin notifying
    /\ c = Self => worker = "execute"

Accepting == threadState = "RUNNING"

\* Fault: computed after the push.
DoSignalLate == FALSE

DoSignal == taskList = <<>>

\* addTask() up to unlock(): the task is queued, or deleted when the dispatcher
\* is not running.
AddTask(c, t) ==
    /\ CanCall(c)
    /\ fate[t] = "new"
    /\ \/ /\ Accepting
          /\ taskList' = IF t \in Urgent THEN <<t>> \o taskList
                                         ELSE Append(taskList, t)
          /\ notifying' = IF DoSignal THEN notifying \cup {c} ELSE notifying
          /\ fate' = [fate EXCEPT ![t] = "queued"]
       \/ /\ ~Accepting
          /\ fate' = [fate EXCEPT ![t] = "dropped"]
          /\ UNCHANGED <<taskList, notifying>>
    /\ UNCHANGED <<threadState, worker, current, shutdownFrom>>

\* addTask() after unlock(), when do_signal was set.
Notify(c) ==
    /\ c \in notifying
    /\ notifying' = notifying \ {c}
    /\ worker' = Notified(worker)
    /\ UNCHANGED <<threadState, taskList, current, fate, shutdownFrom>>

\* ThreadHolder::stop(): only setGameState(GAME_STATE_SHUTDOWN) calls it, on
\* the dispatcher thread.
Stop ==
    /\ worker = "execute"
    /\ threadState = "RUNNING"
    /\ threadState' = "CLOSING"
    /\ UNCHANGED <<taskList, worker, current, notifying, fate, shutdownFrom>>

\* Fault: the terminating task jumps the queue.
TerminatorInFront == <<Terminator>> \o taskList

WithTerminator == Append(taskList, Terminator)

\* Dispatcher::shutdown(): called by Game::shutdown() on the dispatcher thread,
\* normally after stop(); or by main(), with the dispatcher still running, when
\* no service could be started.  notify_one() is issued under the lock here.
Shutdown(c) ==
    /\ shutdownFrom = "no"
    /\ worker # "none"
    /\ CanCall(c)
    /\ taskList' = WithTerminator
    /\ worker' = Notified(worker)
    /\ shutdownFrom' = threadState
    /\ UNCHANGED <<threadState, current, notifying, fate>>

-----------------------------------------------------------------------------
(* threadMain(). *)

LoopTest ==
    /\ worker = "loop"
    /\ worker' = IF threadState = "TERMINATED" THEN "exit" ELSE "lock"
    /\ UNCHANGED <<threadState, taskList, current, notifying, fate, shutdownFrom>>

\* Fault: front() with pop_back().
RestPopBack == SubSeq(taskList, 1, Len(taskList) - 1)

\* The list after pop_front().
Rest == Tail(taskList)

TakeFirst ==
    /\ taskList # <<>>
    /\ current' = Head(taskList)
    /\ taskList' = Rest
    /\ fate' = IF current' \in Tasks THEN [fate EXCEPT ![current'] = "popped"]
                                     ELSE fate
    /\ worker' = "popped"

\* lock(), and either wait() on an empty list or take the first task.
LockAndCheck ==
    /\ worker = "lock"
    /\ \/ TakeFirst
       \/ /\ taskList = <<>>
          /\ worker' = "wait"
          /\ UNCHANGED <<taskList, current, fate>>
    /\ UNCHANGED <<threadState, notifying, shutdownFrom>>

\* wait() may return without any notification.
SpuriousWakeup ==
    /\ worker = "wait"
    /\ worker' = "woken"
    /\ UNCHANGED <<threadState, taskList, current, notifying, fate, shutdownFrom>>

\* wait() has returned with the lock held: the list is tested again.
AfterWait ==
    /\ worker = "woken"
    /\ \/ TakeFirst
       \/ /\ taskList = <<>>
          /\ worker' = "loop"
          /\ UNCHANGED <<taskList, current, fate>>
    /\ UNCHANGED <<threadState, notifying, shutdownFrom>>

\* hasExpired() is true: the task is deleted without being executed.
Expire ==
    /\ worker = "popped"
    /\ current \in Perishable
    /\ fate' = [fate EXCEPT ![current] = "expired"]
    /\ current' = NoTask
    /\ worker' = "loop"
    /\ UNCHANGED <<threadState, taskList, notifying, shutdownFrom>>

\* hasExpired() is false: the task starts.  While it runs, the dispatcher's
\* thread may itself call addTask(), stop() and shutdown().
Begin ==
    /\ worker = "popped"
    /\ worker' = "execute"
    /\ UNCHANGED <<threadState, taskList, current, notifying, fate, shutdownFrom>>

\* Fault: the pointer to the deleted task is kept.
FinishDangling ==
    /\ worker = "execute"
    /\ Self \notin notifying
    /\ threadState' = IF current = Terminator THEN "TERMINATED" ELSE threadState
    /\ fate' = IF current \in Tasks THEN [fate EXCEPT ![current] = "executed"]
                                    ELSE fate
    /\ worker' = "loop"
    /\ UNCHANGED <<taskList, current, notifying, shutdownFrom>>

\* The task returns and is deleted.  The task of shutdown() sets the state (its
\* notify_one() finds nobody waiting: the only waiter is running it).
Finish ==
    /\ worker = "execute"
    /\ Self \notin notifying
    /\ threadState' = IF current = Terminator THEN "TERMINATED" ELSE threadState
    /\ fate' = IF current \in Tasks THEN [fate EXCEPT ![current] = "executed"]
                                    ELSE fate
    /\ current' = NoTask
    /\ worker' = "loop"
    /\ UNCHANGED <<taskList, notifying, shutdownFrom>>

WorkerStep == LoopTest \/ LockAndCheck \/ AfterWait \/ Begin \/ Finish

Next ==
    \/ Start
    \/ \E c \in Threads : (\E t \in Tasks : AddTask(c, t)) \/ Notify(c) \/ Shutdown(c)
    \/ Stop
    \/ SpuriousWakeup
    \/ Expire
    \/ WorkerStep

Spec == Init /\ [][Next]_vars

\* The operating system runs every thread that can run, and every task returns.
\* Nothing forces anyone to submit work, to stop the server, a spurious
\* wake-up or an expiry.
Fairness ==
    /\ WF_vars(WorkerStep)
    /\ \A c \in Threads : WF_vars(Notify(c))

FairSpec == Spec /\ Fairness

-----------------------------------------------------------------------------
(* Properties. *)

\* addTask() signals after it has released the lock and only if it found the
\* list empty.  Even so the worker never sleeps on a non-empty list unless a
\* thread is still on its way to notify_one().
NoLostWakeup ==
    worker = "wait" /\ taskList # <<>> => notifying # {}

\* When shutdown() follows stop(), nothing that addTask() accepted is still in
\* the list when threadMain() returns: the remaining tasks were all taken first.
DrainedAtExit ==
    worker = "exit" /\ shutdownFrom = "CLOSING" => taskList = <<>>

\* shutdown() ends the thread, so that join() returns.
ShutdownEndsThread == shutdownFrom # "no" ~> worker = "exit"

\* The dispatcher implements the abstract work queue: no task is lost, run twice
\* or overtaken by one behind it, and every accepted task is picked up, however
\* the worker's waits and the callers' signals interleave.  An item is in hand
\* from the moment it is popped until it is deleted.
AbstractQueue == INSTANCE WorkQueue WITH
    Items    <- Tasks,
    LastItem <- Terminator,
    Nothing  <- NoTask,
    door     <- IF worker = "none" THEN "shut"
                ELSE IF threadState = "RUNNING" THEN "open"
                ELSE IF threadState = "CLOSING" THEN "closed" ELSE "ended",
    backlog  <- taskList,
    inHand   <- current

ImplementsWorkQueue == AbstractQueue!WQSpec
=============================================================================
