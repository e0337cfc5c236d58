--------------------------- MODULE SchedulerProofs ---------------------------
(***************************************************************************)
(* Theorems about the scheduler thread, for any set of calling threads,    *)
(* any delays and any number of events that does not use an id twice.      *)
(***************************************************************************)
EXTENDS Scheduler, FiniteSetTheorems, TLAPS

-----------------------------------------------------------------------------
(* The inductive invariant. *)

\* The events addEvent() has queued, and what became of them.
Added == {e \in Events : fate[e] \notin {"new", "dropped"}}

\* Where the objects are: each queued event is in eventList, in threadMain()'s
\* hand or in the dispatcher's list, as its fate says.
Places ==
    /\ eventList = {e \in Events : fate[e] = "pending"}
    /\ worker = "handover" <=> inHand # NoEvent
    /\ \A e \in Events : fate[e] = "handover" <=> e = inHand
    /\ \A i \in 1..Len(handed) : fate[handed[i]] = "handed"
    /\ \A i, j \in 1..Len(handed) : handed[i] = handed[j] => i = j

\* The wait of threadMain() never outlasts the top event's time: once it sleeps
\* until deadline, some event of eventList is due by then, although others come
\* and go, unless shutdown() has cleared the list for good.
Deadline ==
    worker \in {"timed", "timedWoken"} =>
        \/ \E e \in eventList : cycle[e] <= deadline
        \/ eventList = {} /\ threadState = "TERMINATED"

\* The events threadMain() took out of eventList to hand over were due.
Due == \A e \in Events : fate[e] \in {"handover", "handed", "run"} => cycle[e] <= now

\* How many ids were given out since that of e, on the circle 1..IdLimit.
Age(last, id) == IF id <= last THEN last - id ELSE last + IdLimit - id

\* The ids in use are the latest ones, and no two events share one.
IdsFresh ==
    /\ \A e \in Added : eventId[e] \in 1..IdLimit
    /\ \A e \in Added : Age(lastEventId, eventId[e]) < Cardinality(Added)
    /\ \A e, f \in Added : eventId[e] = eventId[f] => e = f

\* eventIds says which queued events are still wanted.
IdsActive ==
    /\ \A e \in Added : eventId[e] \in eventIds => fate[e] = "pending"
    /\ \A e \in stopped : e \in Added /\ eventId[e] \notin eventIds
    /\ StopIsFinal

\* A call of addEvent() on the dispatcher's own thread keeps shutdown() and the
\* dispatcher's next task away, and nobody has the id with which to stop the event.
OwnCall ==
    /\ closing # "no" => threadState = "TERMINATED"
    /\ adding[Self] # NoEvent =>
         /\ closing = "no"
         /\ Live(adding[Self])
         /\ fate[adding[Self]] = "pending" => eventId[adding[Self]] \in eventIds

IInv ==
    /\ TypeOK
    /\ Places
    /\ Deadline
    /\ Due
    /\ IdsFresh
    /\ IdsActive
    /\ OwnCall

LEMMA InitIInv == Init => IInv
<1> SUFFICES ASSUME Init PROVE IInv
  OBVIOUS
<1> USE SchedulerAssumption DEF Init
<1>1. TypeOK
  BY DEF TypeOK, ThreadStates, WorkerStates, Fates
<1>2. Added = {}
  BY DEF Added
<1>3. Places /\ Deadline /\ Due
  BY DEF Places, Deadline, Due
<1>4. IdsFresh /\ IdsActive /\ OwnCall
  BY <1>2 DEF IdsFresh, IdsActive, OwnCall, StopIsFinal
<1>5. QED
  BY <1>1, <1>3, <1>4 DEF IInv

-----------------------------------------------------------------------------
(* Types. *)

LEMMA NextTypeOK == TypeOK /\ Places /\ [Next]_vars => TypeOK'
<1> SUFFICES ASSUME TypeOK, Places, [Next]_vars PROVE TypeOK'
  OBVIOUS
<1> USE SchedulerAssumption DEF TypeOK, ThreadStates, WorkerStates, Fates,
        queueVars, callVars, workerVars, fateVars
<1>1. ASSUME NEW c \in Threads, NEW e \in Events, NEW d \in Delays, AddEvent(c, e, d)
      PROVE  TypeOK'
  <2>1. now + d \in 0..MaxTime /\ NextId \in 1..IdLimit
    BY <1>1 DEF AddEvent, NextId
  <2>2. CASE threadState = "RUNNING"
    <3>0. /\ cycle' = [cycle EXCEPT ![e] = now + d]
          /\ eventId' = [eventId EXCEPT ![e] = NextId]
          /\ lastEventId' = NextId
          /\ eventIds' = eventIds \cup {NextId}
          /\ eventList' = eventList \cup {e}
          /\ adding' = [adding EXCEPT ![c] = e]
          /\ fate' = [fate EXCEPT ![e] = "pending"]
      BY <1>1, <2>2 DEF AddEvent
    <3>1. cycle' \in [Events -> 0..MaxTime] /\ eventId' \in [Events -> 0..IdLimit]
      <4>1. cycle \in [Events -> 0..MaxTime] /\ eventId \in [Events -> 0..IdLimit]
        OBVIOUS
      <4>2. NextId \in 0..IdLimit
        BY <2>1
      <4>3. QED
        BY <2>1, <3>0, <4>1, <4>2
    <3>2. notifying' \subseteq {x \in Threads : adding'[x] # NoEvent}
      BY <1>1, <2>2 DEF AddEvent, DoSignal
    <3>3. eventIds' \subseteq 1..IdLimit /\ lastEventId' \in 0..IdLimit
      BY <2>1, <3>0
    <3>4. /\ eventList' \subseteq Events
          /\ adding' \in [Threads -> Events \cup {NoEvent}]
          /\ fate' \in [Events -> Fates]
      BY <3>0
    <3>5. UNCHANGED <<threadState, now, worker, deadline, inHand, closing, handed, stopped>>
      BY <1>1, <2>2 DEF AddEvent
    <3>6. QED
      BY <3>1, <3>2, <3>3, <3>4, <3>5
  <2>3. CASE threadState # "RUNNING"
    BY <1>1, <2>3 DEF AddEvent
  <2>4. QED
    BY <2>2, <2>3
<1>2. ASSUME NEW c \in Threads, NEW e \in Events, StopEvent(c, e) PROVE TypeOK'
  BY <1>2 DEF StopEvent
<1>3. ASSUME NEW c \in Threads, CallStep(c) PROVE TypeOK'
  BY <1>3 DEF CallStep, Notify, ReturnId, Notified
<1>4. CASE Stop \/ ShutdownMark \/ ShutdownStep
  BY <1>4 DEF Stop, ShutdownMark, ShutdownStep, ShutdownClear, ShutdownNotify, Notified
<1>5. CASE WakeUp \/ LoopTest \/ LockAndWait \/ Timeout
  <2>1. CASE LockAndWait
    <3>1. \A top \in eventList : cycle[top] \in 0..MaxTime
      OBVIOUS
    <3>2. deadline' \in 0..MaxTime
      BY <2>1, <3>1 DEF LockAndWait
    <3>3. QED
      BY <2>1, <3>2 DEF LockAndWait
  <2>2. CASE WakeUp \/ LoopTest \/ Timeout
    BY <2>2 DEF WakeUp, LoopTest, Timeout, Notified
  <2>3. QED
    BY <1>5, <2>1, <2>2
<1>6. CASE AfterWait
  <2>1. ASSUME NEW top \in eventList, TakeTop(top)
        PROVE  /\ eventList' \subseteq Events /\ eventIds' \subseteq 1..IdLimit
               /\ fate' \in [Events -> Fates]
               /\ worker' \in WorkerStates
               /\ inHand' \in Events \cup {NoEvent}
    BY <2>1 DEF TakeTop
  <2>2. /\ eventList' \subseteq Events /\ eventIds' \subseteq 1..IdLimit
        /\ fate' \in [Events -> Fates]
        /\ worker' \in WorkerStates
        /\ inHand' \in Events \cup {NoEvent}
    BY <1>6, <2>1 DEF AfterWait
  <2>3. QED
    BY <1>6, <2>2 DEF AfterWait
<1>7. CASE HandOver
  <2>1. inHand \in Events
    BY <1>7 DEF HandOver, Places
  <2>2. QED
    BY <1>7, <2>1 DEF HandOver
<1>8. CASE DispatcherRuns
  <2>1. Head(handed) \in Events /\ Tail(handed) \in Seq(Events)
    BY <1>8 DEF DispatcherRuns
  <2>2. QED
    BY <1>8, <2>1 DEF DispatcherRuns
<1>9. CASE Tick
  BY <1>9 DEF Tick
<1>10. CASE UNCHANGED vars
  BY <1>10 DEF vars
<1>11. QED
  BY <1>1, <1>2, <1>3, <1>4, <1>5, <1>6, <1>7, <1>8, <1>9, <1>10 DEF Next, WorkerStep

-----------------------------------------------------------------------------
(* Where the events are, and when they may leave. *)

LEMMA NextPlaces == TypeOK /\ Places /\ [Next]_vars => Places'
<1> SUFFICES ASSUME TypeOK, Places, [Next]_vars PROVE Places'
  OBVIOUS
<1> USE SchedulerAssumption DEF Places, queueVars, callVars, workerVars, fateVars
<1>0. /\ fate \in [Events -> Fates] /\ handed \in Seq(Events)
      /\ eventList \subseteq Events /\ inHand \in Events \cup {NoEvent}
  BY DEF TypeOK
<1>1. ASSUME NEW c \in Threads, NEW e \in Events, NEW d \in Delays, AddEvent(c, e, d)
      PROVE  Places'
  <2>1. \A i \in 1..Len(handed) : handed[i] \in Events /\ handed[i] # e
    BY <1>0, <1>1 DEF AddEvent
  <2>2. fate'[e] \in {"pending", "dropped"} /\ \A f \in Events : f # e => fate'[f] = fate[f]
    BY <1>0, <1>1 DEF AddEvent
  <2>3. eventList' = {f \in Events : fate'[f] = "pending"}
    BY <1>0, <1>1, <2>2 DEF AddEvent
  <2>4. QED
    BY <1>0, <1>1, <2>1, <2>2, <2>3 DEF AddEvent
<1>2. ASSUME NEW c \in Threads, NEW e \in Events, StopEvent(c, e) PROVE Places'
  BY <1>2 DEF StopEvent
<1>3. ASSUME NEW c \in Threads, CallStep(c) PROVE Places'
  BY <1>3 DEF CallStep, Notify, ReturnId, Notified
<1>4. CASE Stop \/ ShutdownMark \/ ShutdownNotify
  BY <1>4 DEF Stop, ShutdownMark, ShutdownNotify, Notified
<1>5. CASE ShutdownClear
  <2>1. \A f \in Events : fate'[f] # "pending"
    BY <1>0, <1>5 DEF ShutdownClear
  <2>2. \A i \in 1..Len(handed) : handed[i] \in Events /\ handed[i] \notin eventList
    BY <1>0, <1>5
  <2>3. inHand \notin eventList
    BY <1>0
  <2>4. QED
    BY <1>0, <1>5, <2>1, <2>2, <2>3 DEF ShutdownClear
<1>6. CASE WakeUp \/ LoopTest \/ LockAndWait \/ Timeout
  BY <1>6 DEF WakeUp, LoopTest, LockAndWait, Timeout, Notified
<1>7. CASE AfterWait
  <2>1. ASSUME NEW top \in eventList, TakeTop(top), worker = "timedWoken",
               UNCHANGED handed
        PROVE  Places'
    <3>1. /\ fate'[top] \in {"handover", "discarded"}
          /\ \A f \in Events : f # top => fate'[f] = fate[f]
      BY <1>0, <2>1 DEF TakeTop
    <3>2. inHand = NoEvent /\ \A f \in Events : fate[f] # "handover"
      BY <1>0, <2>1
    <3>3. \A i \in 1..Len(handed) : handed[i] \in Events /\ handed[i] # top
      BY <1>0
    <3>4. QED
      BY <1>0, <2>1, <3>1, <3>2, <3>3 DEF TakeTop
  <2>2. QED
    BY <1>7, <2>1 DEF AfterWait
<1>8. CASE HandOver
  <2>1. inHand \in Events /\ fate[inHand] = "handover"
    BY <1>0, <1>8 DEF HandOver
  <2>2. /\ fate'[inHand] = "handed"
        /\ \A f \in Events : f # inHand => fate'[f] = fate[f]
    BY <1>0, <1>8, <2>1 DEF HandOver
  <2>3. /\ Len(handed') = Len(handed) + 1
        /\ handed'[1] = inHand
        /\ \A i \in 2..Len(handed') : handed'[i] = handed[i - 1]
    BY <1>0, <1>8, <2>1 DEF HandOver
  <2>4. \A i \in 1..Len(handed) : handed[i] \in Events /\ handed[i] # inHand
    BY <1>0, <2>1
  <2>5. \A i \in 2..Len(handed') : i - 1 \in 1..Len(handed)
    BY <1>0, <2>3
  <2>6. \A i \in 1..Len(handed') : fate'[handed'[i]] = "handed"
    BY <1>0, <2>2, <2>3, <2>4, <2>5
  <2>7. \A i, j \in 1..Len(handed') : handed'[i] = handed'[j] => i = j
    <3>1. SUFFICES ASSUME NEW i \in 1..Len(handed'), NEW j \in 1..Len(handed'),
                          handed'[i] = handed'[j]
                   PROVE  i = j
      OBVIOUS
    <3>2. CASE i = 1 \/ j = 1
      BY <1>0, <2>3, <2>4, <2>5, <3>1, <3>2
    <3>3. CASE i # 1 /\ j # 1
      <4>1. i - 1 \in 1..Len(handed) /\ j - 1 \in 1..Len(handed)
        BY <1>0, <2>3, <3>3
      <4>2. handed[i - 1] = handed[j - 1]
        BY <1>0, <2>3, <3>1, <3>3
      <4>3. i - 1 = j - 1
        BY <4>1, <4>2
      <4>4. QED
        BY <4>3
    <3>4. QED
      BY <3>2, <3>3
  <2>8. QED
    BY <1>0, <1>8, <2>1, <2>2, <2>6, <2>7 DEF HandOver
<1>9. CASE DispatcherRuns
  <2>1. /\ Len(handed) > 0 /\ Len(handed') = Len(handed) - 1
        /\ Head(handed) = handed[1] /\ Head(handed) \in Events
        /\ \A i \in 1..Len(handed') : handed'[i] = handed[i + 1]
    BY <1>0, <1>9 DEF DispatcherRuns
  <2>2. /\ fate'[Head(handed)] = "run" /\ fate[Head(handed)] = "handed"
        /\ \A f \in Events : f # Head(handed) => fate'[f] = fate[f]
    BY <1>0, <1>9, <2>1 DEF DispatcherRuns
  <2>3. \A i \in 1..Len(handed') : handed'[i] \in Events /\ handed'[i] # Head(handed)
    BY <1>0, <2>1
  <2>4. \A i \in 1..Len(handed') : fate'[handed'[i]] = "handed"
    BY <1>0, <2>1, <2>2, <2>3
  <2>5. \A i, j \in 1..Len(handed') : handed'[i] = handed'[j] => i = j
    BY <1>0, <2>1
  <2>6. QED
    BY <1>0, <1>9, <2>1, <2>2, <2>4, <2>5 DEF DispatcherRuns
<1>10. CASE Tick \/ UNCHANGED vars
  BY <1>10 DEF Tick, vars
<1>11. QED
  BY <1>1, <1>2, <1>3, <1>4, <1>5, <1>6, <1>7, <1>8, <1>9, <1>10
  DEF Next, WorkerStep, ShutdownStep

LEMMA NextDeadline ==
    TypeOK /\ Places /\ OwnCall /\ Deadline /\ [Next]_vars => Deadline'
<1> SUFFICES ASSUME TypeOK, Places, OwnCall, Deadline, [Next]_vars PROVE Deadline'
  OBVIOUS
<1> USE SchedulerAssumption DEF Deadline, queueVars, callVars, workerVars, fateVars
<1>0. /\ fate \in [Events -> Fates] /\ cycle \in [Events -> 0..MaxTime]
      /\ eventList = {e \in Events : fate[e] = "pending"}
  BY DEF TypeOK, Places
<1>1. ASSUME NEW c \in Threads, NEW e \in Events, NEW d \in Delays, AddEvent(c, e, d)
      PROVE  Deadline'
  <2>1. /\ eventList \subseteq eventList'
        /\ \A f \in eventList : cycle'[f] = cycle[f]
    BY <1>0, <1>1 DEF AddEvent
  <2>2. UNCHANGED <<worker, deadline, threadState>>
        /\ (threadState = "TERMINATED" => eventList' = eventList)
    BY <1>1 DEF AddEvent
  <2>3. QED
    BY <2>1, <2>2
<1>2. ASSUME NEW c \in Threads, NEW e \in Events, StopEvent(c, e) PROVE Deadline'
  BY <1>2 DEF StopEvent
<1>3. ASSUME NEW c \in Threads, CallStep(c) PROVE Deadline'
  BY <1>3 DEF CallStep, Notify, ReturnId, Notified
<1>4. CASE Stop \/ ShutdownMark \/ ShutdownNotify
  BY <1>4 DEF Stop, ShutdownMark, ShutdownNotify, Notified
<1>5. CASE ShutdownClear
  BY <1>5 DEF ShutdownClear, OwnCall
<1>6. CASE LockAndWait
  <2>1. \A top \in eventList : cycle[top] \in 0..MaxTime
    BY <1>0
  <2>2. QED
    BY <1>6, <2>1 DEF LockAndWait
<1>7. CASE WakeUp \/ LoopTest \/ Timeout
  BY <1>7 DEF WakeUp, LoopTest, Timeout, Notified
<1>8. CASE AfterWait \/ HandOver
  BY <1>8 DEF AfterWait, HandOver, TakeTop
<1>9. CASE DispatcherRuns \/ Tick \/ UNCHANGED vars
  BY <1>9 DEF DispatcherRuns, Tick, vars
<1>10. QED
  BY <1>1, <1>2, <1>3, <1>4, <1>5, <1>6, <1>7, <1>8, <1>9
  DEF Next, WorkerStep, ShutdownStep

LEMMA NextDue == TypeOK /\ Places /\ Deadline /\ Due /\ [Next]_vars => Due'
<1> SUFFICES ASSUME TypeOK, Places, Deadline, Due, [Next]_vars PROVE Due'
  OBVIOUS
<1> USE SchedulerAssumption DEF Due, queueVars, callVars, workerVars, fateVars
<1>0. /\ fate \in [Events -> Fates] /\ cycle \in [Events -> 0..MaxTime]
      /\ eventList \subseteq Events /\ now \in 0..MaxTime /\ deadline \in 0..MaxTime
      /\ handed \in Seq(Events) /\ inHand \in Events \cup {NoEvent}
  BY DEF TypeOK
<1>1. ASSUME NEW c \in Threads, NEW e \in Events, NEW d \in Delays, AddEvent(c, e, d)
      PROVE  Due'
  <2>1. /\ \A f \in Events : f # e => fate'[f] = fate[f] /\ cycle'[f] = cycle[f]
        /\ fate'[e] \in {"pending", "dropped"} /\ now' = now
    BY <1>0, <1>1 DEF AddEvent
  <2>2. QED
    BY <2>1
<1>2. ASSUME NEW c \in Threads, NEW e \in Events, StopEvent(c, e) PROVE Due'
  BY <1>2 DEF StopEvent
<1>3. ASSUME NEW c \in Threads, CallStep(c) PROVE Due'
  BY <1>3 DEF CallStep, Notify, ReturnId
<1>4. CASE Stop \/ ShutdownMark \/ ShutdownNotify
  BY <1>4 DEF Stop, ShutdownMark, ShutdownNotify
<1>5. CASE ShutdownClear
  BY <1>0, <1>5 DEF ShutdownClear
<1>6. CASE WakeUp \/ LoopTest \/ LockAndWait \/ Timeout
  BY <1>6 DEF WakeUp, LoopTest, LockAndWait, Timeout
<1>7. CASE AfterWait
  <2>1. ASSUME NEW top \in eventList, TakeTop(top), worker = "timedWoken", TimedOut,
               UNCHANGED <<cycle, now>>
        PROVE  Due'
    \* The top is at least as early as the event the deadline was set for.
    <3>1. PICK e \in eventList : cycle[e] <= deadline
      BY <2>1 DEF Deadline
    <3>2. cycle[top] <= cycle[e] /\ deadline <= now
      BY <2>1 DEF TakeTop, IsTop, TimedOut
    <3>3. cycle[top] <= now
      BY <1>0, <3>1, <3>2
    <3>4. \A f \in Events : f # top => fate'[f] = fate[f]
      BY <1>0, <2>1 DEF TakeTop
    <3>5. QED
      BY <2>1, <3>3, <3>4
  <2>2. QED
    BY <1>7, <2>1 DEF AfterWait
<1>8. CASE HandOver
  <2>1. inHand \in Events /\ fate[inHand] = "handover"
    BY <1>0, <1>8 DEF HandOver, Places
  <2>2. QED
    BY <1>0, <1>8, <2>1 DEF HandOver
<1>9. CASE DispatcherRuns
  <2>1. Head(handed) \in Events /\ fate[Head(handed)] = "handed"
    <3>1. Head(handed) = handed[1] /\ 1 \in 1..Len(handed)
      BY <1>0, <1>9 DEF DispatcherRuns
    <3>2. QED
      BY <1>0, <3>1 DEF Places
  <2>2. QED
    BY <1>0, <1>9, <2>1 DEF DispatcherRuns
<1>10. CASE Tick
  BY <1>0, <1>10 DEF Tick
<1>11. CASE UNCHANGED vars
  BY <1>11 DEF vars
<1>12. QED
  BY <1>1, <1>2, <1>3, <1>4, <1>5, <1>6, <1>7, <1>8, <1>9, <1>10, <1>11
  DEF Next, WorkerStep, ShutdownStep

-----------------------------------------------------------------------------
(* The ids. *)

\* Only addEvent() before stop() enlarges the set of queued events.
LEMMA AddedGrows ==
    ASSUME TypeOK, Places, [Next]_vars
    PROVE  \/ \E c \in Threads, e \in Events, d \in Delays :
                 AddEvent(c, e, d) /\ threadState = "RUNNING"
           \/ Added' = Added /\ UNCHANGED <<lastEventId, eventId>>
<1> USE DEF Added, queueVars, callVars, workerVars, fateVars
<1>0. /\ fate \in [Events -> Fates] /\ handed \in Seq(Events)
      /\ inHand \in Events \cup {NoEvent}
      /\ eventList = {e \in Events : fate[e] = "pending"}
  BY DEF TypeOK, Places
<1>1. ASSUME NEW c \in Threads, NEW e \in Events, NEW d \in Delays, AddEvent(c, e, d),
             threadState # "RUNNING"
      PROVE  Added' = Added /\ UNCHANGED <<lastEventId, eventId>>
  BY <1>0, <1>1 DEF AddEvent
<1>2. CASE ShutdownClear
  BY <1>0, <1>2 DEF ShutdownClear
<1>3. CASE AfterWait
  <2>1. ASSUME NEW top \in eventList, TakeTop(top) PROVE Added' = Added
    <3>1. /\ top \in Events /\ fate[top] = "pending"
          /\ fate'[top] \in {"handover", "discarded"}
          /\ \A f \in Events : f # top => fate'[f] = fate[f]
      BY <1>0, <2>1 DEF TakeTop
    <3>2. QED
      BY <3>1
  <2>2. QED
    BY <1>3, <2>1 DEF AfterWait
<1>4. CASE HandOver
  <2>1. inHand \in Events /\ fate[inHand] = "handover"
    BY <1>0, <1>4, SchedulerAssumption DEF HandOver, Places
  <2>2. QED
    BY <1>0, <1>4, <2>1 DEF HandOver
<1>5. CASE DispatcherRuns
  <2>1. Head(handed) = handed[1] /\ 1 \in 1..Len(handed)
    BY <1>0, <1>5 DEF DispatcherRuns
  <2>2. Head(handed) \in Events /\ fate[Head(handed)] = "handed"
    BY <1>0, <2>1 DEF Places
  <2>3. QED
    BY <1>0, <1>5, <2>2 DEF DispatcherRuns
<1>6. ASSUME NEW c \in Threads, NEW e \in Events, StopEvent(c, e)
      PROVE  UNCHANGED <<fate, lastEventId, eventId>>
  BY <1>6 DEF StopEvent
<1>7. ASSUME NEW c \in Threads, CallStep(c) PROVE UNCHANGED <<fate, lastEventId, eventId>>
  BY <1>7 DEF CallStep, Notify, ReturnId
<1>8. CASE Stop \/ ShutdownMark \/ ShutdownNotify
  BY <1>8 DEF Stop, ShutdownMark, ShutdownNotify
<1>9. CASE WakeUp \/ LoopTest \/ LockAndWait \/ Timeout \/ Tick \/ UNCHANGED vars
  BY <1>9 DEF WakeUp, LoopTest, LockAndWait, Timeout, Tick, vars
<1>10. QED
  BY <1>1, <1>2, <1>3, <1>4, <1>5, <1>6, <1>7, <1>8, <1>9
  DEF Next, WorkerStep, ShutdownStep

\* One more id makes each of the others one older, as long as it is not given
\* out again.
LEMMA AgeGrows ==
    ASSUME NEW last \in 0..IdLimit, NEW id \in 1..IdLimit, Age(last, id) + 1 < IdLimit
    PROVE  LET next == IF last = IdLimit THEN 1 ELSE last + 1
           IN  id # next /\ Age(next, id) = Age(last, id) + 1
  BY SchedulerAssumption DEF Age

LEMMA AddIdsFresh ==
    ASSUME TypeOK, IdsFresh,
           NEW c \in Threads, NEW e \in Events, NEW d \in Delays, AddEvent(c, e, d),
           threadState = "RUNNING"
    PROVE  /\ IdsFresh'
           /\ NextId \in 1..IdLimit /\ \A f \in Added : eventId[f] # NextId
           /\ Added' = Added \cup {e} /\ e \notin Added
<1>0. /\ fate \in [Events -> Fates] /\ eventId \in [Events -> 0..IdLimit]
      /\ lastEventId \in 0..IdLimit /\ IdLimit \in Nat \ {0}
  BY SchedulerAssumption DEF TypeOK
<1>1. /\ lastEventId' = NextId /\ eventId' = [eventId EXCEPT ![e] = NextId]
      /\ fate' = [fate EXCEPT ![e] = "pending"] /\ fate[e] = "new"
  BY DEF AddEvent
<1>2. NextId \in 1..IdLimit
  BY <1>0 DEF NextId
<1>3. e \notin Added /\ Added' = Added \cup {e} /\ Added \subseteq Events
  BY <1>0, <1>1 DEF Added
<1>4. /\ IsFiniteSet(Added) /\ Cardinality(Added) \in Nat
      /\ Cardinality(Added') = Cardinality(Added) + 1
      /\ Cardinality(Added') <= IdLimit
  <2>1. IsFiniteSet(Events) /\ Cardinality(Events) \in Nat /\ Cardinality(Events) <= IdLimit
    BY FS_CardinalityType, SchedulerAssumption
  <2>2. IsFiniteSet(Added) /\ Cardinality(Added) \in Nat
    BY <1>3, <2>1, FS_Subset, FS_CardinalityType
  <2>3. Cardinality(Added \cup {e}) = Cardinality(Added) + 1
    BY <1>3, <2>2, FS_AddElement
  <2>4. Cardinality(Added \cup {e}) <= Cardinality(Events)
    BY <1>3, <2>1, FS_Subset
  <2>5. QED
    BY <1>0, <1>3, <2>1, <2>2, <2>3, <2>4
<1>5. ASSUME NEW f \in Added
      PROVE  /\ eventId[f] # NextId
             /\ Age(NextId, eventId[f]) < Cardinality(Added')
             /\ eventId'[f] = eventId[f] /\ eventId[f] \in 1..IdLimit
  <2>1. eventId[f] \in 1..IdLimit /\ Age(lastEventId, eventId[f]) < Cardinality(Added)
    BY DEF IdsFresh
  <2>2. Age(lastEventId, eventId[f]) \in Int
    BY <1>0, <2>1 DEF Age
  <2>3. eventId[f] # NextId /\ Age(NextId, eventId[f]) = Age(lastEventId, eventId[f]) + 1
    BY <1>0, <1>4, <2>1, <2>2, AgeGrows DEF NextId
  <2>4. QED
    BY <1>0, <1>1, <1>3, <1>4, <2>1, <2>2, <2>3
<1>6. eventId'[e] = NextId /\ Age(NextId, NextId) = 0
  BY <1>0, <1>1, <1>2 DEF Age
<1>7. IdsFresh'
  <2>1. \A f \in Added' : eventId'[f] \in 1..IdLimit
    BY <1>2, <1>3, <1>5, <1>6
  <2>2. \A f \in Added' : Age(lastEventId', eventId'[f]) < Cardinality(Added')
    BY <1>1, <1>3, <1>4, <1>5, <1>6
  <2>3. \A f, g \in Added' : eventId'[f] = eventId'[g] => f = g
    BY <1>3, <1>5, <1>6 DEF IdsFresh
  <2>4. QED
    BY <2>1, <2>2, <2>3 DEF IdsFresh, Age
<1>8. QED
  BY <1>2, <1>3, <1>5, <1>7

LEMMA NextIdsFresh == TypeOK /\ Places /\ IdsFresh /\ [Next]_vars => IdsFresh'
<1> SUFFICES ASSUME TypeOK, Places, IdsFresh, [Next]_vars PROVE IdsFresh'
  OBVIOUS
<1>1. CASE Added' = Added /\ UNCHANGED <<lastEventId, eventId>>
  BY <1>1 DEF IdsFresh, Age
<1>2. QED
  BY <1>1, AddedGrows, AddIdsFresh

LEMMA NextIdsActive ==
    TypeOK /\ Places /\ IdsFresh /\ IdsActive /\ [Next]_vars => IdsActive'
<1> SUFFICES ASSUME TypeOK, Places, IdsFresh, IdsActive, [Next]_vars PROVE IdsActive'
  OBVIOUS
<1> USE DEF IdsActive, StopIsFinal, queueVars, callVars, workerVars, fateVars
<1>0. /\ fate \in [Events -> Fates] /\ handed \in Seq(Events)
      /\ eventId \in [Events -> 0..IdLimit]
      /\ inHand \in Events \cup {NoEvent} /\ stopped \subseteq Events
      /\ eventList = {e \in Events : fate[e] = "pending"}
      /\ eventList \subseteq Added /\ Added \subseteq Events
  BY DEF TypeOK, Places, Added
<1>1. ASSUME NEW c \in Threads, NEW e \in Events, NEW d \in Delays, AddEvent(c, e, d)
      PROVE  IdsActive'
  <2>1. CASE threadState = "RUNNING"
    <3>1. /\ \A f \in Added : eventId[f] # NextId
          /\ Added' = Added \cup {e} /\ e \notin Added
      BY <1>1, <2>1, AddIdsFresh
    <3>2. /\ eventIds' = eventIds \cup {NextId} /\ stopped' = stopped
          /\ fate'[e] = "pending" /\ eventId'[e] = NextId
          /\ \A f \in Events : f # e => fate'[f] = fate[f] /\ eventId'[f] = eventId[f]
      BY <1>0, <1>1, <2>1 DEF AddEvent
    <3>3. \A f \in Added : f # e /\ fate'[f] = fate[f] /\ eventId'[f] = eventId[f]
      BY <1>0, <3>1, <3>2
    <3>4. QED
      BY <1>0, <3>1, <3>2, <3>3
  <2>2. CASE threadState # "RUNNING"
    <3>1. /\ fate'[e] = "dropped" /\ fate[e] = "new"
          /\ \A f \in Events : f # e => fate'[f] = fate[f]
          /\ UNCHANGED <<eventIds, eventId, stopped>>
      BY <1>0, <1>1, <2>2 DEF AddEvent
    <3>2. QED
      BY <1>0, <3>1 DEF Added
  <2>3. QED
    BY <2>1, <2>2
<1>2. ASSUME NEW c \in Threads, NEW e \in Events, StopEvent(c, e) PROVE IdsActive'
  \* The id is still in eventIds, so the event has not been taken yet.
  <2>1. /\ e \in Added /\ fate[e] = "pending"
        /\ eventIds' = eventIds \ {eventId[e]} /\ stopped' = stopped \cup {e}
        /\ UNCHANGED <<fate, eventId>>
    BY <1>2 DEF StopEvent, Live, Added
  <2>2. QED
    BY <1>0, <2>1 DEF Added
<1>3. CASE ShutdownClear
  BY <1>0, <1>3 DEF ShutdownClear, Added
<1>4. CASE AfterWait
  <2>1. ASSUME NEW top \in eventList, TakeTop(top), UNCHANGED <<eventId, stopped>>
        PROVE  IdsActive'
    <3>1. /\ top \in Added /\ fate[top] = "pending"
          /\ \A f \in Events : f # top => fate'[f] = fate[f]
      BY <1>0, <2>1 DEF TakeTop
    <3>2. CASE Active(top)
      <4>1. top \notin stopped
        BY <3>2 DEF Active
      <4>2. \A f \in Added : eventId[f] = eventId[top] => f = top
        BY <3>1 DEF IdsFresh
      <4>3. fate'[top] = "handover" /\ eventIds' = eventIds \ {eventId[top]}
        BY <1>0, <2>1, <3>2 DEF TakeTop
      <4>4. QED
        BY <1>0, <2>1, <3>1, <4>1, <4>2, <4>3 DEF Added
    <3>3. CASE ~Active(top)
      <4>1. fate'[top] = "discarded" /\ eventIds' = eventIds
        BY <1>0, <2>1, <3>3 DEF TakeTop
      <4>2. QED
        BY <1>0, <2>1, <3>1, <3>3, <4>1 DEF Added, Active
    <3>4. QED
      BY <3>2, <3>3
  <2>2. CASE UNCHANGED <<fate, eventIds, eventId, stopped>>
    BY <2>2 DEF Added
  <2>3. QED
    BY <1>4, <2>1, <2>2 DEF AfterWait
<1>5. CASE HandOver
  <2>1. inHand \in Events /\ fate[inHand] = "handover"
    BY <1>0, <1>5, SchedulerAssumption DEF HandOver, Places
  <2>2. inHand \in Added /\ inHand \notin stopped /\ eventId[inHand] \notin eventIds
    BY <2>1 DEF Added
  <2>3. QED
    BY <1>0, <1>5, <2>2 DEF HandOver, Added
<1>6. CASE DispatcherRuns
  <2>1. Head(handed) = handed[1] /\ 1 \in 1..Len(handed)
    BY <1>0, <1>6 DEF DispatcherRuns
  <2>2. Head(handed) \in Events /\ fate[Head(handed)] = "handed"
    BY <1>0, <2>1 DEF Places
  <2>3. /\ Head(handed) \in Added /\ Head(handed) \notin stopped
        /\ eventId[Head(handed)] \notin eventIds
    BY <2>2 DEF Added
  <2>4. QED
    BY <1>0, <1>6, <2>3 DEF DispatcherRuns, Added
<1>7. ASSUME NEW c \in Threads, CallStep(c) PROVE UNCHANGED <<fate, eventIds, eventId, stopped>>
  BY <1>7 DEF CallStep, Notify, ReturnId
<1>8. CASE Stop \/ ShutdownMark \/ ShutdownNotify
  BY <1>8 DEF Stop, ShutdownMark, ShutdownNotify, Added
<1>9. CASE WakeUp \/ LoopTest \/ LockAndWait \/ Timeout \/ Tick \/ UNCHANGED vars
  BY <1>9 DEF WakeUp, LoopTest, LockAndWait, Timeout, Tick, vars, Added
<1>10. CASE UNCHANGED <<fate, eventIds, eventId, stopped>>
  BY <1>10 DEF Added
<1>11. QED
  BY <1>1, <1>2, <1>3, <1>4, <1>5, <1>6, <1>7, <1>8, <1>9, <1>10
  DEF Next, WorkerStep, ShutdownStep

-----------------------------------------------------------------------------
(* The call of addEvent() on the dispatcher's own thread. *)

LEMMA NextOwnCall ==
    TypeOK /\ Places /\ IdsFresh /\ IdsActive /\ OwnCall /\ [Next]_vars => OwnCall'
<1> SUFFICES ASSUME TypeOK, Places, IdsFresh, IdsActive, OwnCall, [Next]_vars
             PROVE  OwnCall'
  OBVIOUS
<1> USE SchedulerAssumption DEF OwnCall, Live, queueVars, callVars, workerVars, fateVars
<1>0. /\ fate \in [Events -> Fates] /\ handed \in Seq(Events)
      /\ eventId \in [Events -> 0..IdLimit]
      /\ adding \in [Threads -> Events \cup {NoEvent}]
      /\ inHand \in Events \cup {NoEvent}
      /\ eventList = {e \in Events : fate[e] = "pending"}
      /\ eventList \subseteq Added /\ Added \subseteq Events
  BY DEF TypeOK, Places, Added
<1> DEFINE own == adding[Self]
<1>1. ASSUME NEW c \in Threads, NEW e \in Events, NEW d \in Delays, AddEvent(c, e, d)
      PROVE  OwnCall'
  <2>1. CASE threadState = "RUNNING"
    <3>1. /\ eventIds' = eventIds \cup {NextId} /\ closing' = closing
          /\ fate'[e] = "pending" /\ eventId'[e] = NextId
          /\ \A f \in Events : f # e => fate'[f] = fate[f] /\ eventId'[f] = eventId[f]
          /\ adding' = [adding EXCEPT ![c] = e] /\ threadState' = threadState
          /\ fate[e] = "new"
      BY <1>0, <1>1, <2>1 DEF AddEvent
    <3>2. closing = "no"
      BY <2>1
    <3>3. CASE c = Self
      BY <1>0, <3>1, <3>2, <3>3
    <3>4. CASE c # Self
      <4>1. adding'[Self] = own /\ (own # NoEvent => own # e /\ own \in Events)
        BY <1>0, <3>1, <3>4
      <4>2. QED
        BY <3>1, <3>2, <4>1
    <3>5. QED
      BY <3>3, <3>4
  <2>2. CASE threadState # "RUNNING"
    <3>1. /\ fate[e] = "new" /\ \A f \in Events : f # e => fate'[f] = fate[f]
          /\ UNCHANGED <<eventIds, eventId, adding, closing, threadState>>
      BY <1>0, <1>1, <2>2 DEF AddEvent
    <3>2. own # NoEvent => own # e /\ own \in Events
      BY <1>0, <3>1
    <3>3. QED
      BY <3>1, <3>2
  <2>3. QED
    BY <2>1, <2>2
<1>2. ASSUME NEW c \in Threads, NEW e \in Events, StopEvent(c, e) PROVE OwnCall'
  \* The id of the event being added is another one than the one stopped.
  <2>1. /\ eventIds' = eventIds \ {eventId[e]} /\ e \in Added /\ own # e
        /\ UNCHANGED <<fate, eventId, adding, closing, threadState>>
    BY <1>2 DEF StopEvent, Added
  <2>2. own # NoEvent => own \in Added
    BY <1>0 DEF Added
  <2>3. own # NoEvent => eventId[own] # eventId[e]
    BY <2>1, <2>2 DEF IdsFresh
  <2>4. QED
    BY <2>1, <2>3
<1>3. ASSUME NEW c \in Threads, CallStep(c) PROVE OwnCall'
  BY <1>0, <1>3 DEF CallStep, Notify, ReturnId
<1>4. CASE Stop \/ ShutdownMark \/ ShutdownStep
  BY <1>4 DEF Stop, ShutdownMark, ShutdownStep, ShutdownClear, ShutdownNotify, Idle
<1>5. CASE AfterWait
  <2>1. ASSUME NEW top \in eventList, TakeTop(top),
               UNCHANGED <<eventId, adding, closing, threadState>>
        PROVE  OwnCall'
    <3>1. /\ top \in Added /\ fate[top] = "pending"
          /\ \A f \in Events : f # top => fate'[f] = fate[f]
      BY <1>0, <2>1 DEF TakeTop
    <3>2. CASE own = top
      <4>1. Active(top) /\ top # NoEvent
        BY <1>0, <3>1, <3>2 DEF Active
      <4>2. fate'[top] = "handover"
        BY <1>0, <2>1, <4>1 DEF TakeTop
      <4>3. QED
        BY <2>1, <3>2, <4>2
    <3>3. CASE own # top /\ own # NoEvent
      <4>1. own \in Added /\ fate'[own] = fate[own]
        BY <1>0, <3>1, <3>3 DEF Added
      <4>2. eventId[own] # eventId[top]
        BY <3>1, <3>3, <4>1 DEF IdsFresh
      <4>3. eventId[own] \in eventIds => eventId[own] \in eventIds'
        BY <2>1, <4>2 DEF TakeTop
      <4>4. QED
        BY <2>1, <3>3, <4>1, <4>3
    <3>4. CASE own = NoEvent
      BY <2>1, <3>4
    <3>5. QED
      BY <3>2, <3>3, <3>4
  <2>2. CASE UNCHANGED <<fate, eventIds, eventId, adding, closing, threadState>>
    BY <2>2
  <2>3. QED
    BY <1>5, <2>1, <2>2 DEF AfterWait
<1>6. CASE HandOver
  BY <1>0, <1>6 DEF HandOver, Places
<1>7. CASE DispatcherRuns
  BY <1>7 DEF DispatcherRuns, Idle
<1>8. CASE WakeUp \/ LoopTest \/ LockAndWait \/ Timeout \/ Tick \/ UNCHANGED vars
  BY <1>8 DEF WakeUp, LoopTest, LockAndWait, Timeout, Tick, vars
<1>9. QED
  BY <1>1, <1>2, <1>3, <1>4, <1>5, <1>6, <1>7, <1>8 DEF Next, WorkerStep

-----------------------------------------------------------------------------
(* The theorems. *)

LEMMA InvariantHolds == Spec => []IInv
<1>1. IInv /\ [Next]_vars => IInv'
  BY NextTypeOK, NextPlaces, NextDeadline, NextDue, NextIdsFresh, NextIdsActive,
     NextOwnCall DEF IInv
<1>2. QED
  BY <1>1, InitIInv, PTL DEF Spec

\* threadMain() hands no event to the dispatcher before its time, however events
\* are added, stopped and come to the top while it sleeps or the lock is free.
THEOREM EventsNeverEarly == Spec => []NeverEarly
<1>1. IInv => NeverEarly
  BY DEF IInv, Due, NeverEarly
<1>2. QED
  BY <1>1, InvariantHolds, PTL

\* After stopEvent() has returned true the event never reaches the dispatcher.
THEOREM StopHolds == Spec => []StopIsFinal
<1>1. IInv => StopIsFinal
  BY DEF IInv, IdsActive
<1>2. QED
  BY <1>1, InvariantHolds, PTL

\* When addEvent() reads the id of its task after unlock() on the dispatcher's
\* own thread, the task has not been deleted.
THEOREM OwnIdReadSafe == Spec => []IdReadIsSafe
<1>1. IInv => IdReadIsSafe
  BY DEF IInv, OwnCall, Live, IdReadIsSafe
<1>2. QED
  BY <1>1, InvariantHolds, PTL
=============================================================================
