------------------------- MODULE DatabaseTasksProofs -------------------------
(***************************************************************************)
(* Theorems about the database thread, for any set of calling threads and  *)
(* any set of queries.                                                     *)
(***************************************************************************)
EXTENDS DatabaseTasks, SequenceTheorems, TLAPS

-----------------------------------------------------------------------------
(* Sequences of queries. *)

LEMMA ElementsAppend ==
    ASSUME NEW S, NEW s \in Seq(S), NEW x \in S
    PROVE  Append(s, x) \in Seq(S) /\ Elements(Append(s, x)) = Elements(s) \cup {x}
<1>1. /\ Append(s, x) \in Seq(S)
      /\ DOMAIN s = 1..Len(s) /\ DOMAIN Append(s, x) = 1..(Len(s) + 1)
      /\ Append(s, x)[Len(s) + 1] = x
      /\ \A i \in 1..Len(s) : Append(s, x)[i] = s[i]
  OBVIOUS
<1>2. 1..(Len(s) + 1) = (1..Len(s)) \cup {Len(s) + 1}
  OBVIOUS
<1>3. QED
  BY <1>1, <1>2 DEF Elements

LEMMA ElementsHeadTail ==
    ASSUME NEW S, NEW s \in Seq(S), s # <<>>
    PROVE  /\ Head(s) \in S /\ Tail(s) \in Seq(S)
           /\ Elements(s) = {Head(s)} \cup Elements(Tail(s))
<1>1. /\ Head(s) \in S /\ Tail(s) \in Seq(S) /\ Head(s) = s[1] /\ Len(s) >= 1
      /\ DOMAIN s = 1..Len(s) /\ DOMAIN Tail(s) = 1..(Len(s) - 1)
      /\ \A i \in 1..(Len(s) - 1) : Tail(s)[i] = s[i + 1]
  OBVIOUS
<1>2. \A i \in 1..Len(s) : i = 1 \/ (i - 1 \in 1..(Len(s) - 1) /\ (i - 1) + 1 = i)
  BY <1>1
<1>3. ASSUME NEW i \in 1..Len(s) PROVE s[i] \in {Head(s)} \cup Elements(Tail(s))
  <2>1. CASE i = 1
    BY <1>1, <2>1
  <2>2. CASE i - 1 \in 1..(Len(s) - 1) /\ (i - 1) + 1 = i
    <3>1. Tail(s)[i - 1] = s[i]
      BY <1>1, <2>2
    <3>2. QED
      BY <1>1, <2>2, <3>1 DEF Elements
  <2>3. QED
    BY <1>2, <2>1, <2>2
<1>4. ASSUME NEW i \in 1..(Len(s) - 1) PROVE Tail(s)[i] \in Elements(s)
  <2>1. i + 1 \in 1..Len(s)
    BY <1>1
  <2>2. QED
    BY <1>1, <2>1 DEF Elements
<1>5. QED
  BY <1>1, <1>3, <1>4 DEF Elements

-----------------------------------------------------------------------------
(* Types. *)

LEMMA NextTypeOK == TypeOK /\ [Next]_vars => TypeOK'
<1> SUFFICES ASSUME TypeOK, [Next]_vars PROVE TypeOK'
  OBVIOUS
<1> USE DatabaseTasksAssumption DEF TypeOK, WorkerStates, logVars, flushVars
<1>1. ASSUME NEW c \in Threads, NEW q \in Queries, AddTask(c, q) PROVE TypeOK'
  <2>1. Append(tasks, q) \in Seq(Queries) /\ Append(accepted, q) \in Seq(Queries)
    OBVIOUS
  <2>2. tasks' \in Seq(Queries) /\ accepted' \in Seq(Queries)
    BY <1>1, <2>1 DEF AddTask
  <2>3. notifying' \subseteq Threads
    BY <1>1 DEF AddTask
  <2>4. saved' \in BOOLEAN /\ late' \in BOOLEAN
    BY <1>1 DEF AddTask
  <2>5. QED
    BY <1>1, <2>2, <2>3, <2>4 DEF AddTask
<1>2. ASSUME NEW c \in Threads, Notify(c) PROVE TypeOK'
  BY <1>2 DEF Notify, Notified
<1>3. CASE Start \/ Stop \/ ShutdownMark \/ ShutdownNotify \/ SpuriousWakeup \/ LoopTest
  BY <1>3 DEF Start, Stop, ShutdownMark, ShutdownNotify, Notified, SpuriousWakeup, LoopTest
<1>4. ASSUME FlushCheck
      PROVE  /\ toFlush' \subseteq Queries /\ flusher' \in {"idle", "wait"}
             /\ flushTasks' \in BOOLEAN /\ saved' \in BOOLEAN
  <2>1. Elements(tasks) \subseteq Queries
    BY DEF Elements
  <2>2. flushTasks' \in BOOLEAN /\ saved' \in BOOLEAN
    BY <1>4 DEF FlushCheck
  <2>3. QED
    BY <1>4, <2>1, <2>2 DEF FlushCheck
<1>5. CASE Flush \/ ShutdownFlush
  BY <1>4, <1>5 DEF Flush, ShutdownFlush
<1>6. CASE FlushWakesAlone \/ FlushReturns
  BY <1>6 DEF FlushWakesAlone, FlushReturns
<1>7. ASSUME TakeFirst
      PROVE  current' \in Queries /\ tasks' \in Seq(Queries) /\ worker' = "run"
             /\ flusher' = flusher
  BY <1>7, ElementsHeadTail DEF TakeFirst, NextQuery
<1>8. CASE LockAndCheck
  BY <1>7, <1>8 DEF LockAndCheck, FlushSignalled
<1>9. CASE AfterWait
  BY <1>7, <1>9 DEF AfterWait
<1>10. CASE RunTask
  <2>1. current \in Queries
    BY <1>10 DEF RunTask
  <2>2. executed' \in Seq(Queries) /\ callbacks' \subseteq WithCallback
    BY <1>10, <2>1 DEF RunTask
  <2>3. QED
    BY <1>10, <2>2 DEF RunTask
<1>11. CASE UNCHANGED vars
  BY <1>11 DEF vars
<1>12. QED
  BY <1>1, <1>2, <1>3, <1>5, <1>6, <1>8, <1>9, <1>10, <1>11
  DEF Next, SelfStep, WorkerStep

-----------------------------------------------------------------------------
(* flush(). *)

\* FlushCovers says nothing while flush() sleeps.  Strengthened: until then the
\* queries it found are queued, in the worker's hand, or executed.
FlushInv ==
    /\ flusher = "wait" =>
         toFlush \subseteq Elements(tasks) \cup {current} \cup Elements(executed)
    /\ flusher = "woken" /\ ~cutShort => toFlush \subseteq Elements(executed)

LEMMA NextFlushInv == TypeOK /\ FlushInv /\ [Next]_vars => FlushInv'
<1> SUFFICES ASSUME TypeOK, FlushInv, [Next]_vars PROVE FlushInv'
  OBVIOUS
<1> USE DatabaseTasksAssumption DEF FlushInv, logVars, flushVars
<1>0. /\ tasks \in Seq(Queries) /\ executed \in Seq(Queries) /\ toFlush \subseteq Queries
      /\ NoQuery \notin Queries
      /\ current # NoQuery <=> worker = "run"
      /\ current \in Queries \cup {NoQuery}
  BY DEF TypeOK
<1>1. ASSUME NEW c \in Threads, NEW q \in Queries, AddTask(c, q) PROVE FlushInv'
  <2>1. Elements(tasks') = Elements(tasks) \cup {q}
    BY <1>0, <1>1, ElementsAppend DEF AddTask
  <2>2. UNCHANGED <<current, executed, flusher, toFlush, cutShort>>
    BY <1>1 DEF AddTask
  <2>3. QED
    BY <2>1, <2>2
<1>2. ASSUME NEW c \in Threads, Notify(c) PROVE FlushInv'
  BY <1>2 DEF Notify
<1>3. CASE Start \/ Stop \/ ShutdownMark \/ ShutdownNotify \/ SpuriousWakeup \/ LoopTest
  BY <1>3 DEF Start, Stop, ShutdownMark, ShutdownNotify, SpuriousWakeup, LoopTest
<1>4. CASE Flush \/ ShutdownFlush
  BY <1>4 DEF Flush, ShutdownFlush, FlushCheck
<1>5. CASE FlushWakesAlone \/ FlushReturns
  BY <1>5 DEF FlushWakesAlone, FlushReturns
<1>6. ASSUME TakeFirst, worker # "run", UNCHANGED <<executed, toFlush, cutShort>>
      PROVE  FlushInv'
  \* The query moves from the queue to the worker's hand, which was empty.
  <2>1. /\ Elements(tasks) = {current'} \cup Elements(tasks') /\ current = NoQuery
        /\ flusher' = flusher
    BY <1>0, <1>6, ElementsHeadTail DEF TakeFirst, NextQuery
  <2>2. QED
    BY <1>0, <1>6, <2>1
<1>7. CASE LockAndCheck
  <2>1. CASE TakeFirst
    BY <1>6, <1>7, <2>1 DEF LockAndCheck
  <2>2. CASE ~TakeFirst
    \* The worker goes to sleep over an empty queue with nothing in hand.
    <3>1. /\ tasks = <<>> /\ current = NoQuery /\ flusher' = FlushSignalled
          /\ UNCHANGED <<tasks, current, executed, toFlush, cutShort>>
      BY <1>0, <1>7, <2>2 DEF LockAndCheck
    <3>2. Elements(tasks) = {}
      BY <3>1 DEF Elements
    <3>3. QED
      BY <1>0, <3>1, <3>2 DEF FlushSignalled
  <2>3. QED
    BY <2>1, <2>2
<1>8. CASE AfterWait
  BY <1>6, <1>8 DEF AfterWait
<1>9. CASE RunTask
  <2>1. Elements(executed') = Elements(executed) \cup {current}
    BY <1>0, <1>9, ElementsAppend DEF RunTask
  <2>2. UNCHANGED <<tasks, flusher, toFlush, cutShort>>
    BY <1>9 DEF RunTask
  <2>3. QED
    BY <2>1, <2>2
<1>10. CASE UNCHANGED vars
  BY <1>10 DEF vars
<1>11. QED
  BY <1>1, <1>2, <1>3, <1>4, <1>5, <1>7, <1>8, <1>9, <1>10
  DEF Next, SelfStep, WorkerStep

LEMMA TypeCorrect == Spec => []TypeOK
<1>1. Init => TypeOK
  <2> SUFFICES ASSUME Init PROVE TypeOK
    OBVIOUS
  <2>1. current = NoQuery /\ worker = "none"
    BY DEF Init
  <2>2. tasks \in Seq(Queries) /\ accepted \in Seq(Queries) /\ executed \in Seq(Queries)
    BY DEF Init
  <2>3. QED
    BY <2>1, <2>2 DEF Init, TypeOK, WorkerStates
<1>2. QED
  BY <1>1, NextTypeOK, PTL DEF Spec

\* A flush() that was signalled, and not cut short by a wake-up of its own, has
\* found all queries it saw in the queue executed.
THEOREM FlushWaitsForAll == Spec => []FlushCovers
<1>1. Init => FlushInv
  BY DEF Init, FlushInv
<1>2. TypeOK /\ FlushInv => FlushCovers
  BY DEF FlushInv, FlushCovers
<1>3. QED
  BY <1>1, <1>2, NextFlushInv, TypeCorrect, PTL DEF Spec

-----------------------------------------------------------------------------
(* Order. *)

\* What the worker holds, as a sequence.
Holding == IF current = NoQuery THEN <<>> ELSE <<current>>

\* Every query addTask() accepted is executed, in hand or queued, once, in the
\* order of acceptance.
InOrderOnce == accepted = (executed \o Holding) \o tasks

\* Concatenation under a name the provers leave alone.
Joined(h, u) == h \o u

LEMMA AppendToConcat ==
    ASSUME NEW S, NEW h \in Seq(S), NEW u \in Seq(S), NEW x \in S, NEW a \in Seq(S),
           a = Joined(h, u)
    PROVE  Append(a, x) = Joined(h, Append(u, x))
<1> USE DEF Joined
<1> DEFINE s == Append(a, x)
           t == h \o Append(u, x)
<1>1. s \in Seq(S) /\ t \in Seq(S)
  OBVIOUS
<1>2. /\ Len(a) = Len(h) + Len(u)
      /\ Len(s) = Len(h) + Len(u) + 1 /\ Len(t) = Len(h) + Len(u) + 1
  OBVIOUS
<1>3. \A i \in 1..Len(a) : a[i] = IF i <= Len(h) THEN h[i] ELSE u[i - Len(h)]
  OBVIOUS
<1>4. \A i \in 1..Len(s) : s[i] = IF i <= Len(a) THEN a[i] ELSE x
  BY <1>2
<1>5. \A i \in 1..Len(s) :
          t[i] = IF i <= Len(h) THEN h[i] ELSE IF i <= Len(a) THEN u[i - Len(h)] ELSE x
  BY <1>2
<1>6. ASSUME NEW i \in 1..Len(s) PROVE s[i] = t[i]
  <2>1. i \in Nat /\ i >= 1 /\ Len(h) \in Nat /\ Len(a) \in Nat /\ Len(h) <= Len(a)
    BY <1>2
  <2>2. CASE i <= Len(a)
    <3>1. i \in 1..Len(a)
      BY <2>1, <2>2
    <3>2. a[i] = IF i <= Len(h) THEN h[i] ELSE u[i - Len(h)]
      BY <3>1, <1>3
    <3> HIDE DEF s, t
    <3>3. QED
      BY <3>2, <1>4, <1>5, <2>2
  <2>3. CASE ~(i <= Len(a))
    <3>1. ~(i <= Len(h))
      BY <2>1, <2>3
    <3> HIDE DEF s, t
    <3>2. QED
      BY <3>1, <2>3, <1>4, <1>5
  <2>4. QED
    BY <2>2, <2>3
<1> HIDE DEF s, t
<1>7. s = t
  BY <1>1, <1>2, <1>6
<1>8. QED
  BY <1>7 DEF s, t

LEMMA NextInOrder == TypeOK /\ InOrderOnce /\ [Next]_vars => InOrderOnce'
<1> SUFFICES ASSUME TypeOK, InOrderOnce, [Next]_vars PROVE InOrderOnce'
  OBVIOUS
<1> USE DatabaseTasksAssumption DEF InOrderOnce, logVars, flushVars
<1>0. /\ tasks \in Seq(Queries) /\ executed \in Seq(Queries) /\ accepted \in Seq(Queries)
      /\ current # NoQuery <=> worker = "run"
      /\ current \in Queries \cup {NoQuery}
      /\ NoQuery \notin Queries
  BY DEF TypeOK
<1>1. ASSUME NEW c \in Threads, NEW q \in Queries, AddTask(c, q) PROVE InOrderOnce'
  <2>1. /\ tasks' = Append(tasks, q) /\ accepted' = Append(accepted, q)
        /\ UNCHANGED <<executed, Holding>>
    BY <1>1 DEF AddTask, Holding
  <2>2. executed \o Holding \in Seq(Queries)
    BY <1>0 DEF Holding
  <2>3. PICK h \in Seq(Queries) : h = executed \o Holding
    BY <2>2
  <2>4. accepted = Joined(h, tasks)
    BY <2>3 DEF Joined
  <2>5. Append(accepted, q) = Joined(h, Append(tasks, q))
    <3>1. tasks \in Seq(Queries) /\ accepted \in Seq(Queries)
      BY <1>0
    <3> HIDE DEF InOrderOnce
    <3>2. QED
      BY <3>1, <2>4, AppendToConcat
  <2>6. QED
    BY <2>1, <2>3, <2>5 DEF Joined
<1>2. ASSUME NEW c \in Threads, Notify(c) PROVE InOrderOnce'
  BY <1>2 DEF Notify, Holding
<1>3. CASE Start \/ Stop \/ ShutdownMark \/ ShutdownNotify \/ SpuriousWakeup \/ LoopTest
  BY <1>3 DEF Start, Stop, ShutdownMark, ShutdownNotify, SpuriousWakeup, LoopTest, Holding
<1>4. CASE Flush \/ ShutdownFlush \/ FlushWakesAlone \/ FlushReturns
  BY <1>4 DEF Holding, Flush, ShutdownFlush, FlushWakesAlone, FlushReturns
<1>5. ASSUME TakeFirst, worker # "run", UNCHANGED <<executed, accepted>> PROVE InOrderOnce'
  <2>1. /\ tasks # <<>> /\ current' = Head(tasks) /\ tasks' = Tail(tasks)
        /\ current = NoQuery /\ Head(tasks) \in Queries /\ Tail(tasks) \in Seq(Queries)
    BY <1>0, <1>5 DEF TakeFirst, NextQuery
  <2>2. executed \o <<>> = executed /\ tasks = <<Head(tasks)>> \o Tail(tasks)
    BY <1>0, <2>1
  <2>3. executed \o (<<Head(tasks)>> \o Tail(tasks)) = (executed \o <<Head(tasks)>>) \o Tail(tasks)
    BY <1>0, <2>1
  <2>4. QED
    BY <1>0, <1>5, <2>1, <2>2, <2>3 DEF Holding
<1>6. CASE LockAndCheck \/ AfterWait
  BY <1>5, <1>6 DEF LockAndCheck, AfterWait, Holding
<1>7. CASE RunTask
  <2>1. current \in Queries /\ current' = NoQuery /\ executed' = Append(executed, current)
        /\ UNCHANGED <<tasks, accepted>>
    BY <1>0, <1>7 DEF RunTask
  <2>2. executed \o <<current>> = Append(executed, current)
        /\ Append(executed, current) \o <<>> = Append(executed, current)
    BY <1>0, <2>1
  <2>3. QED
    BY <1>0, <2>1, <2>2 DEF Holding
<1>8. CASE UNCHANGED vars
  BY <1>8 DEF vars, Holding
<1>9. QED
  BY <1>1, <1>2, <1>3, <1>4, <1>6, <1>7, <1>8 DEF Next, SelfStep, WorkerStep

\* threadMain() executes the queries in the order in which addTask() accepted
\* them, each once, and none is lost, also when flush(), stop() and shutdown()
\* come in between.
THEOREM ExecutedInOrder == Spec => []InOrderOnce
<1>1. Init => InOrderOnce
  BY DEF Init, InOrderOnce, Holding
<1>2. QED
  BY <1>1, NextInOrder, TypeCorrect, PTL DEF Spec

-----------------------------------------------------------------------------
(* The database thread implements the abstract work queue. *)

\* Before start() nothing is accepted.
Shut == worker = "none" => threadState = "TERMINATED"

LEMMA ShutHolds == Spec => []Shut
<1>1. Init => Shut
  BY DEF Init, Shut
<1>2. Shut /\ [Next]_vars => Shut'
  <2> SUFFICES ASSUME Shut, [Next]_vars PROVE Shut'
    OBVIOUS
  <2> USE DEF Shut, logVars, flushVars
  <2>1. ASSUME NEW c \in Threads, NEW q \in Queries, AddTask(c, q) PROVE Shut'
    BY <2>1 DEF AddTask
  <2>2. ASSUME NEW c \in Threads, Notify(c) PROVE Shut'
    BY <2>2 DEF Notify, Notified
  <2>3. CASE Start \/ Stop \/ ShutdownMark \/ SpuriousWakeup \/ LoopTest
    BY <2>3 DEF Start, Stop, ShutdownMark, SpuriousWakeup, LoopTest
  <2>4. CASE Flush \/ FlushWakesAlone \/ SelfStep
    BY <2>4 DEF Flush, FlushWakesAlone, SelfStep, ShutdownFlush, FlushReturns,
       ShutdownNotify, Notified
  <2>5. CASE LockAndCheck \/ AfterWait \/ RunTask
    BY <2>5 DEF LockAndCheck, AfterWait, RunTask, TakeFirst
  <2>6. CASE UNCHANGED vars
    BY <2>6 DEF vars
  <2>7. QED
    BY <2>1, <2>2, <2>3, <2>4, <2>5, <2>6 DEF Next, WorkerStep
<1>3. QED
  BY <1>1, <1>2, PTL DEF Spec

\* The door of the work queue, as seen through threadState.
Door == IF worker = "none" THEN "shut"
        ELSE IF threadState = "RUNNING" THEN "open"
        ELSE IF threadState = "CLOSING" THEN "closed" ELSE "ended"

LEMMA StepImplements ==
    TypeOK /\ Shut /\ [Next]_vars => [AbstractQueue!WQNext]_(AbstractQueue!wqVars)
<1> SUFFICES ASSUME TypeOK, Shut, [Next]_vars
             PROVE  AbstractQueue!WQNext \/ UNCHANGED <<Door, tasks, current>>
  BY DEF AbstractQueue!wqVars, Door
<1> USE DatabaseTasksAssumption DEF AbstractQueue!WQNext, Door, logVars, flushVars
<1>1. ASSUME NEW c \in Threads, NEW q \in Queries, AddTask(c, q)
      PROVE  AbstractQueue!SubmitBack(q)
  BY <1>1 DEF AddTask, Accepting, Shut, AbstractQueue!SubmitBack
<1>2. ASSUME NEW c \in Threads, Notify(c) PROVE UNCHANGED <<Door, tasks, current>>
  BY <1>2 DEF Notify, Notified
<1>3. CASE Start
  BY <1>3 DEF Start, AbstractQueue!OpenDoor
<1>4. CASE Stop
  BY <1>4 DEF Stop, Shut, AbstractQueue!CloseDoor
<1>5. CASE ShutdownMark
  BY <1>5 DEF ShutdownMark, Shut, AbstractQueue!End
<1>6. CASE Flush \/ FlushWakesAlone \/ SelfStep \/ SpuriousWakeup \/ LoopTest
  BY <1>6 DEF Flush, FlushWakesAlone, SelfStep, ShutdownFlush, FlushReturns,
     ShutdownNotify, Notified, SpuriousWakeup, LoopTest
<1>7. ASSUME TakeFirst, worker \in {"lock", "woken"}, UNCHANGED threadState
      PROVE  AbstractQueue!PickUp
  BY <1>7 DEF TakeFirst, NextQuery, TypeOK, AbstractQueue!PickUp
<1>8. CASE LockAndCheck
  BY <1>7, <1>8 DEF LockAndCheck
<1>9. CASE AfterWait
  BY <1>7, <1>9 DEF AfterWait
<1>10. CASE RunTask
  BY <1>10 DEF RunTask, TypeOK, AbstractQueue!PutDown
<1>11. CASE UNCHANGED vars
  BY <1>11 DEF vars
<1>12. QED
  BY <1>1, <1>2, <1>3, <1>4, <1>5, <1>6, <1>8, <1>9, <1>10, <1>11 DEF Next, WorkerStep

\* The database thread implements the safety part of the abstract work queue.
THEOREM RefinesWorkQueue == Spec => AbstractQueue!WQSafety
<1>1. Init => AbstractQueue!WQInit
  BY DEF Init, AbstractQueue!WQInit
<1>2. QED
  BY <1>1, StepImplements, TypeCorrect, ShutHolds, PTL
  DEF Spec, AbstractQueue!WQSafety
=============================================================================
