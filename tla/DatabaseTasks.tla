---------------------------- MODULE DatabaseTasks ----------------------------
(***************************************************************************)
(* The database thread (database/databasetasks.cpp): queries that game     *)
(* code does not wait for, executed in order; their callbacks go to the    *)
(* dispatcher.  The dispatcher's thread calls addTask(), flush() (from     *)
(* saveGameState()), then stop() and shutdown() when the server goes down; *)
(* the network threads call addTask() too (IOBan::isIpBanned()).           *)
(* Each critical section of taskLock is one step.                          *)
(***************************************************************************)
EXTENDS Naturals, Sequences, FiniteSets

CONSTANTS Threads,       \* the threads that call addTask()
          Self,          \* among them, the dispatcher's thread
          Queries,       \* the DatabaseTask objects of a behaviour
          WithCallback,  \* those with a callback
          NoQuery        \* "no query"

ASSUME DatabaseTasksAssumption ==
    /\ Self \in Threads
    /\ WithCallback \subseteq Queries
    /\ NoQuery \notin Queries

VARIABLES threadState,   \* ThreadHolder::threadState
          tasks,         \* DatabaseTasks::tasks
          flushTasks,    \* DatabaseTasks::flushTasks
          worker,        \* where threadMain() is
          current,       \* the query threadMain() has taken
          notifying,     \* threads between unlock() and notify_one() in addTask()
          flusher,       \* where the caller of flush() is
          closing,       \* how far DatabaseTasks::shutdown() has got
          accepted,      \* the queries addTask() has taken, in order
          executed,      \* the queries that reached the database, in order
          callbacks,     \* queries whose callback went to g_dispatcher.addTask()
          toFlush,       \* the queries that were queued when flush() was called
          saved,         \* the dispatcher's last call was a flush() that returned
          cutShort,      \* flush() returned from a wait nobody had ended
          late           \* another thread has queued a query since flush() was woken

vars == <<threadState, tasks, flushTasks, worker, current, notifying, flusher,
          closing, accepted, executed, callbacks, toFlush, saved, cutShort, late>>
logVars == <<accepted, executed, callbacks>>
flushVars == <<flushTasks, flusher, toFlush, saved, cutShort, late>>

WorkerStates == {"none", "loop", "lock", "wait", "woken", "run", "exit"}

TypeOK ==
    /\ threadState \in {"RUNNING", "CLOSING", "TERMINATED"}
    /\ tasks \in Seq(Queries)
    /\ flushTasks \in BOOLEAN
    /\ worker \in WorkerStates
    /\ current \in Queries \cup {NoQuery}
    /\ current # NoQuery <=> worker = "run"
    /\ notifying \subseteq Threads
    /\ flusher \in {"idle", "wait", "woken"}
    /\ closing \in {"no", "marked", "flushed", "done"}
    /\ accepted \in Seq(Queries) /\ executed \in Seq(Queries)
    /\ callbacks \subseteq WithCallback
    /\ toFlush \subseteq Queries
    /\ saved \in BOOLEAN /\ cutShort \in BOOLEAN /\ late \in BOOLEAN

Init ==
    /\ threadState = "TERMINATED" /\ worker = "none"
    /\ tasks = <<>> /\ current = NoQuery
    /\ notifying = {}
    /\ flushTasks = FALSE /\ flusher = "idle" /\ toFlush = {}
    /\ saved = FALSE /\ cutShort = FALSE /\ late = FALSE
    /\ closing = "no"
    /\ accepted = <<>> /\ executed = <<>> /\ callbacks = {}

Elements(s) == {s[i] : i \in DOMAIN s}

-----------------------------------------------------------------------------
(* The callers' side. *)

Notified(w) == IF w = "wait" THEN "woken" ELSE w

\* The thread is not inside a call of this class.
Idle(c) ==
    /\ c \notin notifying
    /\ c = Self => flusher = "idle" /\ closing \in {"no", "done"}

\* DatabaseTasks::start(): connects and creates the thread.
Start ==
    /\ worker = "none"
    /\ threadState' = "RUNNING"
    /\ worker' = "loop"
    /\ UNCHANGED <<tasks, current, notifying, closing, logVars, flushVars>>

\* Fault: the list is tested after the push.
DoSignalLate == FALSE

DoSignal == tasks = <<>>

Accepting == threadState = "RUNNING"

\* addTask() up to unlock(); a query that is not accepted is dropped.
AddTask(c, q) ==
    /\ Idle(c)
    /\ q \notin Elements(accepted)
    /\ Accepting
    /\ tasks' = Append(tasks, q)
    /\ accepted' = Append(accepted, q)
    /\ notifying' = IF DoSignal THEN notifying \cup {c} ELSE notifying
    /\ saved' = (saved /\ c # Self)
    /\ late' = (late \/ (c # Self /\ (saved \/ flusher = "woken")))
    /\ UNCHANGED <<threadState, worker, current, closing, executed, callbacks,
                   flushTasks, flusher, toFlush, cutShort>>

Notify(c) ==
    /\ c \in notifying
    /\ notifying' = notifying \ {c}
    /\ worker' = Notified(worker)
    /\ UNCHANGED <<threadState, tasks, current, closing, logVars, flushVars>>

\* The critical section of flush(): returns at once, or goes to sleep on
\* flushSignal.
FlushCheck ==
    /\ toFlush' = Elements(tasks)
    /\ flusher' = IF tasks = <<>> THEN "idle" ELSE "wait"
    /\ flushTasks' = (flushTasks \/ tasks # <<>>)
    /\ saved' = (tasks = <<>>)

\* flush() called by saveGameState().
Flush ==
    /\ Idle(Self) /\ threadState = "RUNNING"
    /\ FlushCheck
    /\ cutShort' = FALSE /\ late' = FALSE
    /\ UNCHANGED <<threadState, tasks, worker, current, notifying, closing, logVars>>

\* flushSignal.wait() has no predicate: it may return on its own.
FlushWakesAlone ==
    /\ flusher = "wait"
    /\ flusher' = "woken"
    /\ cutShort' = TRUE
    /\ UNCHANGED <<threadState, tasks, flushTasks, worker, current, notifying,
                   closing, logVars, toFlush, saved, late>>

FlushReturns ==
    /\ flusher = "woken"
    /\ flusher' = "idle"
    /\ flushTasks' = FALSE
    /\ saved' = TRUE
    /\ closing' = IF closing = "marked" THEN "flushed" ELSE closing
    /\ UNCHANGED <<threadState, tasks, worker, current, notifying, logVars,
                   toFlush, cutShort, late>>

\* Fault: stop() before saveGameState().
StopUnsaved ==
    /\ Idle(Self)
    /\ threadState = "RUNNING"
    /\ threadState' = "CLOSING"
    /\ UNCHANGED <<tasks, worker, current, notifying, closing, logVars, flushVars>>

\* ThreadHolder::stop(), which setGameState(SHUTDOWN) calls after
\* saveGameState() has returned from flush().
Stop ==
    /\ Idle(Self)
    /\ threadState = "RUNNING"
    /\ saved
    /\ threadState' = "CLOSING"
    /\ UNCHANGED <<tasks, worker, current, notifying, closing, logVars, flushVars>>

\* shutdown(): TERMINATED is stored under the lock, then flush(), then one
\* notify_one() without the lock.
ShutdownMark ==
    /\ Idle(Self) /\ closing = "no"
    /\ threadState = "CLOSING"
    /\ threadState' = "TERMINATED"
    /\ closing' = "marked"
    /\ UNCHANGED <<tasks, worker, current, notifying, logVars, flushVars>>

ShutdownFlush ==
    /\ closing = "marked" /\ flusher = "idle"
    /\ FlushCheck
    /\ closing' = IF tasks = <<>> THEN "flushed" ELSE "marked"
    /\ UNCHANGED <<threadState, tasks, worker, current, notifying, logVars, cutShort, late>>

ShutdownNotify ==
    /\ closing = "flushed"
    /\ closing' = "done"
    /\ worker' = Notified(worker)
    /\ UNCHANGED <<threadState, tasks, current, notifying, logVars, flushVars>>

-----------------------------------------------------------------------------
(* threadMain(). *)

LoopTest ==
    /\ worker = "loop"
    /\ worker' = IF threadState = "TERMINATED" THEN "exit" ELSE "lock"
    /\ UNCHANGED <<threadState, tasks, current, notifying, closing, logVars, flushVars>>

NextQuery == [query |-> Head(tasks), rest |-> Tail(tasks)]

\* Fault: the flusher is notified when the last query is taken, before it ran.
TakeFirstSignals ==
    /\ tasks # <<>>
    /\ current' = Head(tasks)
    /\ tasks' = Tail(tasks)
    /\ worker' = "run"
    /\ flusher' = IF flusher = "wait" /\ Tail(tasks) = <<>> THEN "woken" ELSE flusher

TakeFirst ==
    /\ tasks # <<>>
    /\ current' = NextQuery.query
    /\ tasks' = NextQuery.rest
    /\ worker' = "run"
    /\ UNCHANGED flusher

\* flushSignal.notify_one(), when flushTasks is set.
FlushSignalled == IF flushTasks /\ flusher = "wait" THEN "woken" ELSE flusher

LockAndCheck ==
    /\ worker = "lock"
    /\ \/ TakeFirst
       \/ /\ tasks = <<>>
          /\ flusher' = FlushSignalled
          /\ worker' = "wait"
          /\ UNCHANGED <<tasks, current>>
    /\ UNCHANGED <<threadState, notifying, closing, logVars, flushTasks, toFlush,
                   saved, cutShort, late>>

SpuriousWakeup ==
    /\ worker = "wait"
    /\ worker' = "woken"
    /\ UNCHANGED <<threadState, tasks, current, notifying, closing, logVars, flushVars>>

AfterWait ==
    /\ worker = "woken"
    /\ \/ TakeFirst
       \/ /\ tasks = <<>>
          /\ worker' = "loop"
          /\ UNCHANGED <<tasks, current, flusher>>
    /\ UNCHANGED <<threadState, notifying, closing, logVars, flushTasks, toFlush,
                   saved, cutShort, late>>

\* runTask(): the query is executed or stored; either way its callback, if it
\* has one, is posted to the dispatcher.
RunTask ==
    /\ worker = "run"
    /\ executed' = Append(executed, current)
    /\ callbacks' = callbacks \cup ({current} \cap WithCallback)
    /\ current' = NoQuery
    /\ worker' = "loop"
    /\ UNCHANGED <<threadState, tasks, notifying, closing, accepted, flushVars>>

WorkerStep == LoopTest \/ LockAndCheck \/ AfterWait \/ RunTask
SelfStep == FlushReturns \/ ShutdownFlush \/ ShutdownNotify

Next ==
    \/ \E c \in Threads : (\E q \in Queries : AddTask(c, q)) \/ Notify(c)
    \/ Start
    \/ Flush \/ FlushWakesAlone \/ Stop \/ ShutdownMark
    \/ SelfStep
    \/ SpuriousWakeup
    \/ WorkerStep

Spec == Init /\ [][Next]_vars

\* Threads that can run do run; the database answers every query.
FairSpec ==
    /\ Spec
    /\ WF_vars(WorkerStep) /\ WF_vars(SelfStep)
    /\ \A c \in Threads : WF_vars(Notify(c))

-----------------------------------------------------------------------------
(* Properties. *)

\* When flush() returns because it was signalled, every query it found in the
\* queue has been executed.  (One that the worker already had in hand when
\* flush() was called may still be running.)
FlushCovers ==
    /\ TypeOK
    /\ flusher = "woken" /\ ~cutShort => toFlush \subseteq Elements(executed)

\* Calls return: the flush() of saveGameState(), whatever is queued meanwhile, and
\* shutdown(), unless the flush() before it was cut short or another thread has
\* queued a query since.
CallsReturn ==
    /\ flusher = "wait" /\ closing = "no" ~> flusher = "idle"
    /\ closing = "marked" ~> closing = "done" \/ cutShort \/ late

\* The database thread implements the abstract work queue: queries reach the
\* database once each, in the order in which they were accepted, and no wake-up
\* is lost.
AbstractQueue == INSTANCE WorkQueue WITH
    Items    <- Queries,
    LastItem <- NoQuery,
    Nothing  <- NoQuery,
    door     <- IF worker = "none" THEN "shut"
                ELSE IF threadState = "RUNNING" THEN "open"
                ELSE IF threadState = "CLOSING" THEN "closed" ELSE "ended",
    backlog  <- tasks,
    inHand   <- current

ImplementsWorkQueue == AbstractQueue!WQSpec
=============================================================================
