----------------------------- MODULE WorldProofs -----------------------------
(***************************************************************************)
(* Theorems about the dispatcher thread, for any set of calling threads    *)
(* and any set of tasks, and about parts of the game that stand alone: a   *)
(* listening port, a walking player, a spawn of monsters, the raids, the   *)
(* parties, the channels and guilds of any players, and the decay of any   *)
(* items, for any bounds.                                                  *)
(***************************************************************************)
EXTENDS Dispatcher, ServicePort, Walk, Spawn, Raids, Party, Chat, Decay,
        FoldTheorems, FiniteSetTheorems, SequenceTheorems, TLAPS

-----------------------------------------------------------------------------
(* The dispatcher: what a step does to the list. *)

LEMMA PushType ==
    ASSUME NEW S, NEW s \in Seq(S), NEW x \in S
    PROVE  Append(s, x) \in Seq(S) /\ <<x>> \o s \in Seq(S)
  OBVIOUS

LEMMA HeadTailType ==
    ASSUME NEW S, NEW s \in Seq(S), s # <<>>
    PROVE  Head(s) \in S /\ Tail(s) \in Seq(S)
  OBVIOUS

-----------------------------------------------------------------------------
(* The dispatcher: types. *)

LEMMA InitTypeOK == Init => TypeOK
  BY DispatcherAssumption DEF Init, TypeOK, ThreadStates, WorkerStates, Fates

LEMMA NextTypeOK == TypeOK /\ [Next]_vars => TypeOK'
<1> SUFFICES ASSUME TypeOK, [Next]_vars PROVE TypeOK'
  OBVIOUS
<1> USE DispatcherAssumption DEF TypeOK, ThreadStates, WorkerStates, Fates
<1>1. CASE Start
  BY <1>1 DEF Start
<1>2. ASSUME NEW c \in Threads, NEW t \in Tasks, AddTask(c, t) PROVE TypeOK'
  <2> DEFINE S == Tasks \cup {Terminator}
  <2>0. Append(taskList, t) \in Seq(S) /\ <<t>> \o taskList \in Seq(S)
    <3>1. taskList \in Seq(S) /\ t \in S
      OBVIOUS
    <3>2. QED
      BY <3>1, PushType
  <2>1. taskList' \in Seq(S)
    BY <1>2, <2>0 DEF AddTask, Accepting, DoSignal
  <2>2. fate' \in [Tasks -> Fates]
    BY <1>2 DEF AddTask, Accepting, DoSignal
  <2>3. QED
    BY <1>2, <2>1, <2>2 DEF AddTask, Accepting, DoSignal
<1>3. ASSUME NEW c \in Threads, Notify(c) PROVE TypeOK'
  BY <1>3 DEF Notify, Notified
<1>4. ASSUME NEW c \in Threads, Shutdown(c) PROVE TypeOK'
  <2>1. taskList' \in Seq(Tasks \cup {Terminator})
    BY <1>4, PushType DEF Shutdown, WithTerminator
  <2>2. QED
    BY <1>4, <2>1 DEF Shutdown, WithTerminator, Notified
<1>5. CASE Stop
  BY <1>5 DEF Stop
<1>6. CASE SpuriousWakeup
  BY <1>6 DEF SpuriousWakeup
<1>7. CASE Expire
  BY <1>7 DEF Expire
<1>8. ASSUME TakeFirst, UNCHANGED <<threadState, notifying, shutdownFrom>>
      PROVE  TypeOK'
  <2>1. /\ current' \in Tasks \cup {Terminator}
        /\ taskList' \in Seq(Tasks \cup {Terminator})
    BY <1>8, HeadTailType DEF TakeFirst, Rest
  <2>2. QED
    BY <1>8, <2>1 DEF TakeFirst, Rest
<1>9. CASE LockAndCheck
  BY <1>8, <1>9 DEF LockAndCheck
<1>10. CASE AfterWait
  BY <1>8, <1>10 DEF AfterWait
<1>11. CASE LoopTest
  BY <1>11 DEF LoopTest
<1>12. CASE Begin
  BY <1>12 DEF Begin
<1>13. CASE Finish
  BY <1>13 DEF Finish
<1>14. CASE UNCHANGED vars
  BY <1>14 DEF vars
<1>15. QED
  BY <1>1, <1>2, <1>3, <1>4, <1>5, <1>6, <1>7, <1>9, <1>10, <1>11, <1>12,
     <1>13, <1>14 DEF Next, WorkerStep

\* The variables of the dispatcher keep their types: in particular threadMain()
\* holds a task exactly while it is between pop_front() and delete.
THEOREM TypeCorrect == Spec => []TypeOK
  BY InitTypeOK, NextTypeOK, PTL DEF Spec

-----------------------------------------------------------------------------
(* The wake-up protocol. *)

LEMMA NextWakeup ==
    TypeOK /\ NoLostWakeup /\ [Next]_vars => NoLostWakeup'
<1> SUFFICES ASSUME TypeOK, NoLostWakeup, [Next]_vars PROVE NoLostWakeup'
  OBVIOUS
<1> USE DEF NoLostWakeup
<1>1. ASSUME NEW c \in Threads, NEW t \in Tasks, AddTask(c, t)
      PROVE  NoLostWakeup'
  \* A push onto an empty list leaves the caller with a notification to send;
  \* on a non-empty list the worker is awake or someone else owes one.
  BY <1>1 DEF AddTask, Accepting, DoSignal
<1>2. ASSUME NEW c \in Threads, Notify(c) PROVE NoLostWakeup'
  BY <1>2 DEF Notify, Notified
<1>3. ASSUME NEW c \in Threads, Shutdown(c) PROVE NoLostWakeup'
  BY <1>3 DEF Shutdown, WithTerminator, Notified
<1>4. CASE LockAndCheck
  \* The only step that goes to sleep: it has just seen the list empty.
  BY <1>4 DEF LockAndCheck, TakeFirst
<1>5. CASE AfterWait
  BY <1>5 DEF AfterWait, TakeFirst
<1>6. CASE Start \/ Stop \/ SpuriousWakeup \/ Expire \/ LoopTest \/ Begin \/ Finish
  BY <1>6 DEF Start, Stop, SpuriousWakeup, Expire, LoopTest, Begin, Finish
<1>7. CASE UNCHANGED vars
  BY <1>7 DEF vars
<1>8. QED
  BY <1>1, <1>2, <1>3, <1>4, <1>5, <1>6, <1>7 DEF Next, WorkerStep

\* No wake-up is lost: signalling after unlock(), and only on the transition
\* from an empty list, never leaves the worker asleep over queued work with
\* nobody about to notify it.
THEOREM WakeupSafe == Spec => []NoLostWakeup
<1>1. Init => NoLostWakeup
  BY DEF Init, NoLostWakeup
<1>2. QED
  BY <1>1, NextWakeup, TypeCorrect, PTL DEF Spec

-----------------------------------------------------------------------------
(* The order of the end. *)

TerminatorFree(s) == \A i \in 1..Len(s) : s[i] # Terminator

\* The terminating task is last in the list, and nowhere else.
TerminatorLast(s) ==
    /\ s # <<>>
    /\ s[Len(s)] = Terminator
    /\ \A i \in 1..(Len(s) - 1) : s[i] # Terminator

\* DrainedAtExit is not inductive: it says nothing before the worker exits.
\* Strengthened: until shutdown() the terminating task is nowhere; after a
\* shutdown() that followed stop() it is behind everything, until it is taken
\* from a list it leaves empty and to which nothing can be added any more.
EndOrder ==
    /\ worker = "none" => threadState = "TERMINATED" /\ shutdownFrom = "no"
    /\ worker = "exit" => threadState = "TERMINATED"
    /\ shutdownFrom = "no" =>
         /\ TerminatorFree(taskList)
         /\ current # Terminator
         /\ threadState = "TERMINATED" => worker = "none"
    /\ shutdownFrom = "CLOSING" =>
         /\ threadState # "RUNNING"
         /\ \/ /\ TerminatorLast(taskList)
               /\ current # Terminator
               /\ threadState = "CLOSING"
            \/ taskList = <<>>

LEMMA PushTerminator ==
    ASSUME NEW s \in Seq(Tasks \cup {Terminator}), TerminatorFree(s)
    PROVE  TerminatorLast(Append(s, Terminator))
  BY DEF TerminatorFree, TerminatorLast

LEMMA PushTask ==
    ASSUME NEW s \in Seq(Tasks \cup {Terminator}), TerminatorFree(s),
           NEW t \in Tasks
    PROVE  TerminatorFree(Append(s, t)) /\ TerminatorFree(<<t>> \o s)
  BY DispatcherAssumption DEF TerminatorFree

LEMMA TakeFree ==
    ASSUME NEW s \in Seq(Tasks \cup {Terminator}), s # <<>>, TerminatorFree(s)
    PROVE  Head(s) # Terminator /\ TerminatorFree(Tail(s))
  BY DEF TerminatorFree

LEMMA TakeLastFree ==
    ASSUME NEW s \in Seq(Tasks \cup {Terminator}), TerminatorLast(s)
    PROVE  \/ Tail(s) = <<>>
           \/ Head(s) # Terminator /\ TerminatorLast(Tail(s))
<1>1. CASE Len(s) = 1
  <2>1. Tail(s) \in Seq(Tasks \cup {Terminator}) /\ Len(Tail(s)) = 0
    BY <1>1, TerminatorLast(s) DEF TerminatorLast
  <2>2. QED
    BY <2>1, EmptySeq
<1>2. CASE Len(s) # 1
  BY <1>2 DEF TerminatorLast
<1>3. QED
  BY <1>1, <1>2

LEMMA NextEndOrder == TypeOK /\ EndOrder /\ [Next]_vars => EndOrder'
<1> SUFFICES ASSUME TypeOK, EndOrder, [Next]_vars PROVE EndOrder'
  OBVIOUS
<1> USE DispatcherAssumption DEF EndOrder
<1>1. taskList \in Seq(Tasks \cup {Terminator})
  BY DEF TypeOK
<1>2. ASSUME NEW c \in Threads, NEW t \in Tasks, AddTask(c, t) PROVE EndOrder'
  <2>1. shutdownFrom = "no" => TerminatorFree(taskList')
    BY <1>1, <1>2, PushTask DEF AddTask, Accepting, DoSignal
  <2>2. shutdownFrom = "CLOSING" => UNCHANGED taskList
    BY <1>2 DEF AddTask, Accepting, DoSignal
  <2>3. QED
    BY <1>2, <2>1, <2>2 DEF AddTask, Accepting, DoSignal
<1>3. ASSUME NEW c \in Threads, Shutdown(c) PROVE EndOrder'
  <2>1. TerminatorLast(taskList')
    BY <1>1, <1>3, PushTerminator DEF Shutdown, WithTerminator
  <2>2. QED
    BY <1>3, <2>1 DEF Shutdown, WithTerminator, Notified, TypeOK, ThreadStates
<1>4. ASSUME TakeFirst, worker \in {"lock", "woken"},
             UNCHANGED <<threadState, notifying, shutdownFrom>>
      PROVE  EndOrder'
  <2>1. taskList # <<>> /\ current' = Head(taskList) /\ taskList' = Tail(taskList)
    BY <1>4 DEF TakeFirst, Rest
  <2>2. CASE shutdownFrom = "no"
    BY <1>1, <1>4, <2>1, <2>2, TakeFree DEF TakeFirst, Rest
  <2>3. CASE shutdownFrom = "CLOSING"
    BY <1>1, <1>4, <2>1, <2>3, TakeLastFree DEF TakeFirst, Rest
  <2>4. CASE shutdownFrom \notin {"no", "CLOSING"}
    BY <1>4, <2>4 DEF TakeFirst, Rest
  <2>5. QED
    BY <2>2, <2>3, <2>4
<1>5. CASE LockAndCheck
  BY <1>4, <1>5 DEF LockAndCheck
<1>6. CASE AfterWait
  BY <1>4, <1>6 DEF AfterWait
<1>7. ASSUME NEW c \in Threads, Notify(c) PROVE EndOrder'
  BY <1>7 DEF Notify, Notified
<1>8. CASE Finish
  BY <1>8 DEF Finish
<1>9. CASE Start \/ Stop \/ SpuriousWakeup \/ Expire \/ LoopTest \/ Begin
  BY <1>9 DEF Start, Stop, SpuriousWakeup, Expire, LoopTest, Begin
<1>10. CASE UNCHANGED vars
  BY <1>10 DEF vars
<1>11. QED
  BY <1>2, <1>3, <1>5, <1>6, <1>7, <1>8, <1>9, <1>10 DEF Next, WorkerStep

LEMMA EndOrderHolds == Spec => []EndOrder
<1>1. Init => EndOrder
  BY DispatcherAssumption DEF Init, EndOrder, TerminatorFree
<1>2. QED
  BY <1>1, NextEndOrder, TypeCorrect, PTL DEF Spec

\* When shutdown() follows stop(), threadMain() returns with an empty list: no
\* accepted task is leaked, whatever the other threads do meanwhile.
THEOREM NothingLeftBehind == Spec => []DrainedAtExit
<1>1. EndOrder => DrainedAtExit
  BY DEF EndOrder, DrainedAtExit
<1>2. QED
  BY <1>1, EndOrderHolds, PTL

-----------------------------------------------------------------------------
(* The dispatcher implements the abstract work queue. *)

\* The door of the work queue, as seen through threadState.
Door == IF worker = "none" THEN "shut"
        ELSE IF threadState = "RUNNING" THEN "open"
        ELSE IF threadState = "CLOSING" THEN "closed" ELSE "ended"

LEMMA StepImplements ==
    TypeOK /\ EndOrder /\ [Next]_vars =>
        [AbstractQueue!WQNext]_(AbstractQueue!wqVars)
<1> SUFFICES ASSUME TypeOK, EndOrder, [Next]_vars
             PROVE  AbstractQueue!WQNext \/ UNCHANGED <<Door, taskList, current>>
  BY DEF AbstractQueue!wqVars, Door
<1> USE DispatcherAssumption DEF AbstractQueue!WQNext, Door
<1>1. CASE Start
  BY <1>1 DEF Start, AbstractQueue!OpenDoor
<1>2. ASSUME NEW c \in Threads, NEW t \in Tasks, AddTask(c, t)
      PROVE  AbstractQueue!WQNext \/ UNCHANGED <<Door, taskList, current>>
  <2>1. CASE Accepting
    <3>1. Door = "open" /\ UNCHANGED <<Door, current>>
      BY <1>2, <2>1 DEF AddTask, Accepting, EndOrder
    <3>2. AbstractQueue!SubmitFront(t) \/ AbstractQueue!SubmitBack(t)
      BY <1>2, <2>1, <3>1 DEF AddTask, AbstractQueue!SubmitFront, AbstractQueue!SubmitBack
    <3>3. QED
      BY <3>2
  <2>2. CASE ~Accepting
    BY <1>2, <2>2 DEF AddTask
  <2>3. QED
    BY <2>1, <2>2
<1>3. ASSUME NEW c \in Threads, Notify(c) PROVE UNCHANGED <<Door, taskList, current>>
  BY <1>3 DEF Notify, Notified
<1>4. ASSUME NEW c \in Threads, Shutdown(c) PROVE AbstractQueue!SubmitLast
  \* The worker has not ended: only the terminating task ends it.
  <2>1. Door \in {"open", "closed"} /\ UNCHANGED <<Door, current>>
    BY <1>4 DEF Shutdown, Notified, EndOrder, TypeOK, ThreadStates
  <2>2. QED
    BY <1>4, <2>1 DEF Shutdown, WithTerminator, AbstractQueue!SubmitLast
<1>5. CASE Stop
  BY <1>5 DEF Stop, AbstractQueue!CloseDoor
<1>6. ASSUME TakeFirst, worker \in {"lock", "woken"}, UNCHANGED threadState
      PROVE  AbstractQueue!PickUp
  BY <1>6 DEF TakeFirst, Rest, TypeOK, AbstractQueue!PickUp
<1>7. CASE LockAndCheck
  BY <1>6, <1>7 DEF LockAndCheck
<1>8. CASE AfterWait
  BY <1>6, <1>8 DEF AfterWait
<1>9. CASE SpuriousWakeup \/ LoopTest \/ Begin
  BY <1>9 DEF SpuriousWakeup, LoopTest, Begin
<1>10. CASE Expire
  BY <1>10 DEF Expire, AbstractQueue!PutDown
<1>11. CASE Finish
  BY <1>11 DEF Finish, TypeOK, AbstractQueue!PutDown
<1>12. CASE UNCHANGED vars
  BY <1>12 DEF vars
<1>13. QED
  BY <1>1, <1>2, <1>3, <1>4, <1>5, <1>7, <1>8, <1>9, <1>10, <1>11, <1>12
  DEF Next, WorkerStep

\* The dispatcher implements the safety part of the abstract work queue: no task
\* is lost, taken twice or overtaken by one behind it, however the waits of
\* threadMain() and the callers' signals interleave.
THEOREM RefinesWorkQueue == Spec => AbstractQueue!WQSafety
<1>1. Init => AbstractQueue!WQInit
  BY DEF Init, AbstractQueue!WQInit
<1>2. QED
  BY <1>1, StepImplements, TypeCorrect, EndOrderHolds, PTL
  DEF Spec, AbstractQueue!WQSafety

-----------------------------------------------------------------------------
(* The service port. *)

\* Until the server stops, onStopServer() is not posted, so nothing but open()
\* itself closes the acceptor, and open() never meets an accept under way.
Undisturbed == managed => ~stopPosted /\ accepting # "aborted"

\* PortServed, with the number of keepers spelled out.
Keeper ==
    /\ acceptor \in {"none", "open", "closed"}
    /\ accepting \in {"none", "waiting", "done", "failed", "aborted"}
    /\ pendingStart \in BOOLEAN /\ opening \in BOOLEAN
    /\ managed \in BOOLEAN /\ stopPosted \in BOOLEAN
    /\ reopens \in 0..MaxReopens
    /\ managed =>
          /\ \/ accepting # "none" /\ ~opening /\ reopens = 0
             \/ accepting = "none" /\ opening /\ reopens = 0
             \/ accepting = "none" /\ ~opening /\ reopens = 1
          /\ accepting \in {"waiting", "done"} => acceptor = "open"
          /\ pendingStart <=> reopens > 0
    /\ Undisturbed

LEMMA NextPort == Keeper /\ [PortNext]_portVars => Keeper'
<1> SUFFICES ASSUME Keeper, [PortNext]_portVars PROVE Keeper'
  OBVIOUS
<1> USE DEF Keeper, Undisturbed
<1>0. MaxReopens \in Nat \ {0}
  BY ServicePortAssumption
<1>1. CASE OpenBegins
  <2>1. reopens' \in 0..MaxReopens /\ (managed => reopens' = 0)
    BY <1>0, <1>1 DEF OpenBegins
  <2>2. ~(reopens' > 0) <=> reopens' = 0
    BY <1>0, <2>1
  <2>3. QED
    BY <1>1, <2>1, <2>2 DEF OpenBegins, CloseAcceptor
<1>2. CASE OpenExpired
  BY <1>0, <1>2 DEF OpenExpired
<1>3. CASE OpenSucceeds
  BY <1>3 DEF OpenSucceeds
<1>4. CASE OpenFails
  <2>1. reopens' \in 0..MaxReopens /\ (managed => reopens' = 1) /\ reopens' > 0
    BY <1>0, <1>4 DEF OpenFails, RetryLater
  <2>2. pendingStart' = TRUE
    BY <1>4 DEF OpenFails, RetryLater
  <2>3. QED
    BY <1>4, <2>1, <2>2 DEF OpenFails
<1>5. ASSUME NEW result \in {"done", "failed"}, Complete(result) PROVE Keeper'
  BY <1>5 DEF Complete
<1>6. CASE onAcceptOk
  BY <1>6 DEF onAcceptOk
<1>7. CASE onAcceptFailed
  <2>1. CASE pendingStart
    BY <1>7, <2>1 DEF onAcceptFailed
  <2>2. CASE ~pendingStart
    <3>1. reopens' \in 0..MaxReopens /\ (managed => reopens' = 1) /\ reopens' > 0
      BY <1>0, <1>7, <2>2 DEF onAcceptFailed, RetryLater
    <3>2. pendingStart' = TRUE
      BY <1>7, <2>2 DEF onAcceptFailed, RetryLater
    <3>3. QED
      BY <1>7, <2>2, <3>1, <3>2 DEF onAcceptFailed
  <2>3. QED
    BY <2>1, <2>2
<1>8. CASE onAcceptAborted
  BY <1>8 DEF onAcceptAborted
<1>9. CASE StopPort
  BY <1>9 DEF StopPort
<1>10. CASE onStopServer
  BY <1>10 DEF onStopServer, CloseAcceptor
<1>11. CASE UNCHANGED portVars
  BY <1>11 DEF portVars
<1>12. QED
  BY <1>1, <1>2, <1>3, <1>4, <1>5, <1>6, <1>7, <1>8, <1>9, <1>10, <1>11 DEF PortNext

\* Until the server stops exactly one thing keeps a port alive: an accept, an
\* open() under way, or one event that will call openAcceptor().
THEOREM PortStaysServed == PortSpec => []PortServed
<1>1. PortInit => Keeper
  <2>1. MaxReopens \in Nat \ {0} /\ 0 \in 0..MaxReopens /\ ~(0 > 0)
    BY ServicePortAssumption
  <2>2. QED
    BY <2>1 DEF PortInit, Keeper, Undisturbed
<1>2. Keeper => PortServed
  <2> SUFFICES ASSUME Keeper PROVE PortServed
    OBVIOUS
  <2>1. PortTypeOK
    BY DEF Keeper, PortTypeOK
  <2>2. CASE managed
    BY <2>1, <2>2 DEF Keeper, PortServed
  <2>3. CASE ~managed
    BY <2>1, <2>3 DEF PortServed
  <2>4. QED
    BY <2>2, <2>3
<1>3. QED
  BY <1>1, <1>2, NextPort, PTL DEF PortSpec

-----------------------------------------------------------------------------
(* The walking player, as predicates on a state s of the walk and a queue. *)

Has(q, do) == \E k \in DOMAIN q : q[k].do = do

Coming(s, q) == s.pending # {} \/ Has(q, "check")

\* eventWalk outlives its event only until the task the event has queued.
EventComes(s, q) == s.eventWalk # 0 => Coming(s, q)

\* Steps that are left, and an action that waits for them, have a walk event or,
\* before it, the walk that is to be started.
StepsHaveEvent(s) == s.list > 0 /\ s.fast /\ ~s.halted => s.eventWalk # 0

ActionHasWalk(s, q) ==
    s.task /\ s.fast /\ ~s.stranded => s.eventWalk # 0 \/ Has(q, "autoWalk")

Going(s, q) == EventComes(s, q) /\ StepsHaveEvent(s) /\ ActionHasWalk(s, q)

\* Nothing is left of a walk: a dead player starts anew with respawn().
Settled(s) == s.list = 0 /\ s.eventWalk = 0 /\ ~s.task

\* A dying player may wait for an event that will not come: onCreatureWalk() is
\* not called for it any more, and its death is queued.
WalkIInv ==
    /\ WalkTypeOK
    /\ life = "alive" => Going(walk, queue)
    /\ life = "dead" => Settled(walk)

LEMMA WalkFacts ==
    /\ MaxSteps \in Nat /\ 0 \in 0..MaxSteps /\ 1 \in 0..MaxSteps
    /\ 1..MaxSteps \subseteq 0..MaxSteps /\ 0 \notin WalkEvents
BY WalkAssumption

\* The action that waits is set, replaced or given up.
LEMMA NextWalkActionDoes ==
    ASSUME NEW s \in WalkState, NEW h, h = NextWalkAction(s, TRUE) \/ h = NextWalkAction(s, FALSE)
    PROVE  /\ h \in WalkState /\ h.list = s.list /\ h.eventWalk = s.eventWalk
           /\ h.pending = s.pending /\ h.fast = s.fast /\ h.halted = s.halted
           /\ ~h.stranded /\ h.rooted = s.rooted /\ h.crowded = s.crowded /\ h.cancel = s.cancel
           /\ h = NextWalkAction(s, FALSE) => ~h.task
BY DEF NextWalkAction, WalkState

LEMMA StopEventWalkDoes ==
    ASSUME NEW s \in WalkState
    PROVE  LET h == stopEventWalk(s)
           IN  /\ h \in WalkState /\ h.list = s.list /\ h.eventWalk = 0
               /\ h.pending \subseteq s.pending /\ h.fast = s.fast /\ h.halted = s.halted
               /\ h.task = s.task /\ h.stranded = s.stranded /\ h.rooted = s.rooted
               /\ h.crowded = s.crowded
BY DEF stopEventWalk, WalkState

LEMMA TeleportedDoes ==
    ASSUME NEW s \in WalkState
    PROVE  LET h == Teleported(s)
           IN  /\ h \in WalkState /\ h.eventWalk = 0 /\ h.halted /\ h.stranded = s.task
               /\ h.task = s.task /\ h.crowded = s.crowded
<1>1. PICK u : u = stopEventWalk(s)
  OBVIOUS
<1>2. u \in WalkState /\ u.eventWalk = 0 /\ u.task = s.task /\ u.crowded = s.crowded
  BY <1>1, StopEventWalkDoes
<1>3. PICK b \in BOOLEAN : b = s.task
  BY DEF WalkState
<1>4. Teleported(s) = [u EXCEPT !.halted = TRUE, !.stranded = b]
  BY <1>1, <1>3 DEF Teleported
<1>5. QED
  BY <1>2, <1>3, <1>4 DEF WalkState

\* What a step of the walk keeps, whether or not it is the last one.
Keeps(s, h) ==
    /\ h \in WalkState /\ h.crowded = s.crowded
    /\ StepsHaveEvent(s) => StepsHaveEvent(h)
    /\ \A q : ActionHasWalk(s, q) => ActionHasWalk(h, q)

LEMMA NextStepKeeps ==
    ASSUME NEW s \in WalkState, NEW h, h = NextStep(s, TRUE) \/ h = NextStep(s, FALSE)
    PROVE  Keeps(s, h)
<1>1. CASE s.list = 0
  <2>1. PICK u : u = onWalkComplete(s)
    OBVIOUS
  <2>2. u \in WalkState /\ u.list = 0 /\ ~u.task /\ u.crowded = s.crowded
    BY <1>1, <2>1 DEF onWalkComplete, WalkState
  <2>3. h = stopEventWalk(u)
    BY <1>1, <2>1 DEF NextStep
  <2>4. h \in WalkState /\ h.list = 0 /\ ~h.task /\ h.crowded = s.crowded
    BY <2>2, <2>3, StopEventWalkDoes
  <2>5. QED
    BY <2>4 DEF Keeps, StepsHaveEvent, ActionHasWalk
<1>2. CASE s.list # 0
  <2>1. PICK n \in 0..MaxSteps : n = s.list - 1 /\ s.list \in Nat
    BY <1>2, WalkFacts DEF WalkState
  <2>2. PICK u : u = [s EXCEPT !.list = n]
    OBVIOUS
  <2>3. /\ u \in WalkState /\ u.list = n /\ u.eventWalk = s.eventWalk /\ u.fast = s.fast
        /\ u.halted = s.halted /\ u.task = s.task /\ u.stranded = s.stranded
        /\ u.crowded = s.crowded
    BY <2>2 DEF WalkState
  <2>4. h = Teleported(u) \/ h = u
    BY <1>2, <2>1, <2>2 DEF NextStep
  <2>5. CASE h = u
    BY <2>1, <2>3, <2>5 DEF Keeps, StepsHaveEvent, ActionHasWalk
  <2>6. CASE h = Teleported(u)
    <3>1. /\ h \in WalkState /\ h.halted /\ h.stranded = u.task /\ h.task = u.task
          /\ h.crowded = u.crowded
      BY <2>3, <2>6, TeleportedDoes
    <3>2. QED
      BY <2>3, <3>1 DEF Keeps, StepsHaveEvent, ActionHasWalk
  <2>7. QED
    BY <2>4, <2>5, <2>6
<1>3. QED
  BY <1>1, <1>2

LEMMA CancelledKeeps ==
    ASSUME NEW s \in WalkState
    PROVE  Keeps(s, Cancelled(s))
<1>1. CASE ~s.cancel
  BY <1>1 DEF Cancelled, Keeps
<1>2. CASE s.cancel
  <2>1. PICK u : u = [s EXCEPT !.list = 0, !.cancel = FALSE]
    OBVIOUS
  <2>2. u \in WalkState /\ u.list = 0 /\ u.crowded = s.crowded
    BY <2>1, WalkFacts DEF WalkState
  <2>3. PICK h : h = Cancelled(s)
    OBVIOUS
  <2>4. h = NextWalkAction(u, FALSE)
    BY <1>2, <2>1, <2>3 DEF Cancelled, onWalkAborted
  <2>5. h \in WalkState /\ h.list = 0 /\ ~h.task /\ h.crowded = s.crowded
    BY <2>2, <2>4, NextWalkActionDoes
  <2>6. QED
    BY <2>3, <2>5 DEF Keeps, StepsHaveEvent, ActionHasWalk
<1>3. QED
  BY <1>1, <1>2

LEMMA NewEventDoes ==
    ASSUME NEW s \in WalkState
    PROVE  LET h == NewEvent(s)
           IN  h \in WalkState /\ (h.crowded \/ (h.eventWalk # 0 /\ h.pending # {}))
<1>1. CASE WalkEvents \ s.pending = {}
  BY <1>1 DEF NewEvent, WalkState
<1>2. CASE WalkEvents \ s.pending # {}
  <2>1. PICK e \in WalkEvents : e = CHOOSE x \in WalkEvents \ s.pending : TRUE
    BY <1>2
  <2>2. NewEvent(s) = [s EXCEPT !.eventWalk = e, !.pending = s.pending \cup {e},
                                !.halted = FALSE, !.stranded = FALSE]
    BY <1>2, <2>1 DEF NewEvent
  <2>3. s.pending \cup {e} \in SUBSET WalkEvents /\ e # 0
    BY WalkFacts DEF WalkState
  <2>4. QED
    BY <2>2, <2>3 DEF WalkState
<1>3. QED
  BY <1>1, <1>2

\* addEventWalk() leaves the player with an event on its way, a new one unless
\* eventWalk is set already.
LEMMA AddEventWalkGoes ==
    ASSUME NEW s \in WalkState, NEW q, NEW h,
           h = addEventWalk(s, TRUE) \/ h = addEventWalk(s, FALSE)
    PROVE  h \in WalkState /\ (EventComes(s, q) => h.crowded \/ Going(h, q))
<1>1. PICK u : u = [s EXCEPT !.cancel = FALSE]
  OBVIOUS
<1>2. /\ u \in WalkState /\ u.eventWalk = s.eventWalk /\ u.pending = s.pending
      /\ u.fast = s.fast
  BY <1>1 DEF WalkState
<1>3. CASE s.eventWalk # 0
  <2>1. h = u
    BY <1>1, <1>3 DEF addEventWalk
  <2>2. QED
    BY <1>2, <1>3, <2>1 DEF Going, EventComes, Coming, StepsHaveEvent, ActionHasWalk
<1>4. CASE ~(s.eventWalk # 0)
  <2>1. PICK v : v = Cancelled(NextStep(u, FALSE))
    OBVIOUS
  <2>2. v \in WalkState
    <3>1. NextStep(u, FALSE) \in WalkState
      BY <1>2, NextStepKeeps DEF Keeps
    <3>2. QED
      BY <2>1, <3>1, CancelledKeeps DEF Keeps
  <2>3. h = NewEvent(u) \/ h = NewEvent(v)
    BY <1>1, <1>4, <2>1 DEF addEventWalk
  <2>4. h \in WalkState /\ (h.crowded \/ (h.eventWalk # 0 /\ h.pending # {}))
    BY <1>2, <2>2, <2>3, NewEventDoes
  <2>5. QED
    BY <2>4 DEF Going, EventComes, Coming, StepsHaveEvent, ActionHasWalk
<1>5. QED
  BY <1>3, <1>4

LEMMA StartAutoWalkGoes ==
    ASSUME NEW s \in WalkState, NEW q, NEW steps \in 0..MaxSteps, NEW h,
           h = startAutoWalk(s, steps, TRUE) \/ h = startAutoWalk(s, steps, FALSE)
    PROVE  /\ h \in WalkState
           /\ EventComes(s, q) /\ (s.rooted => StepsHaveEvent(s)) => h.crowded \/ Going(h, q)
<1>1. CASE s.rooted
  <2>1. PICK b \in BOOLEAN : b = (s.task /\ s.eventWalk = 0)
    OBVIOUS
  <2>2. h = [s EXCEPT !.stranded = b]
    BY <1>1, <2>1 DEF startAutoWalk
  <2>3. /\ h \in WalkState /\ h.list = s.list /\ h.eventWalk = s.eventWalk
        /\ h.pending = s.pending /\ h.fast = s.fast /\ h.halted = s.halted
        /\ h.task = s.task /\ h.stranded = b
    BY <2>2 DEF WalkState
  <2>4. s.task /\ s.eventWalk = 0 => h.stranded
    BY <2>1, <2>3
  <2>5. QED
    BY <1>1, <2>3, <2>4 DEF Going, EventComes, Coming, StepsHaveEvent, ActionHasWalk
<1>2. CASE ~s.rooted
  <2>1. PICK u : u = [s EXCEPT !.list = steps, !.stranded = FALSE, !.halted = FALSE]
    OBVIOUS
  <2>2. u \in WalkState /\ u.eventWalk = s.eventWalk /\ u.pending = s.pending
    BY <2>1 DEF WalkState
  <2>3. h = addEventWalk(u, TRUE) \/ h = addEventWalk(u, FALSE)
    <3>1. (TRUE /\ steps = 1) = TRUE \/ (TRUE /\ steps = 1) = FALSE
      OBVIOUS
    <3>2. (FALSE /\ steps = 1) = FALSE
      OBVIOUS
    <3>3. h = addEventWalk(u, TRUE /\ steps = 1) \/ h = addEventWalk(u, FALSE /\ steps = 1)
      BY <1>2, <2>1 DEF startAutoWalk
    <3>4. QED
      BY <3>1, <3>2, <3>3
  <2>4. EventComes(s, q) => EventComes(u, q)
    BY <2>2 DEF EventComes, Coming
  <2>5. QED
    BY <2>2, <2>3, <2>4, AddEventWalkGoes
<1>3. QED
  BY <1>1, <1>2

\* onCreatureWalk() has used up its task, so no other need be queued.
LEMMA OnCreatureWalkGoes ==
    ASSUME NEW s \in WalkState, NEW q, StepsHaveEvent(s), ActionHasWalk(s, q), NEW h,
           \/ h = onCreatureWalk(s, TRUE, TRUE) \/ h = onCreatureWalk(s, TRUE, FALSE)
           \/ h = onCreatureWalk(s, FALSE, TRUE) \/ h = onCreatureWalk(s, FALSE, FALSE)
    PROVE  h \in WalkState /\ (h.crowded \/ Going(h, q))
<1>1. PICK u : /\ u = NextStep(s, TRUE) \/ u = NextStep(s, FALSE) \/ u = s
               /\ h = LET t == Cancelled(u)
                      IN  IF t.eventWalk # 0 THEN addEventWalk([t EXCEPT !.eventWalk = 0], FALSE)
                          ELSE t
  BY DEF onCreatureWalk
<1>2. u \in WalkState /\ StepsHaveEvent(u) /\ ActionHasWalk(u, q)
  BY <1>1, NextStepKeeps DEF Keeps
<1>3. PICK t : t = Cancelled(u)
  OBVIOUS
<1>4. t \in WalkState /\ StepsHaveEvent(t) /\ ActionHasWalk(t, q)
  BY <1>2, <1>3, CancelledKeeps DEF Keeps
<1>5. CASE t.eventWalk # 0
  <2>1. PICK v : v = [t EXCEPT !.eventWalk = 0]
    OBVIOUS
  <2>2. v \in WalkState /\ v.eventWalk = 0
    BY <1>4, <2>1 DEF WalkState
  <2>3. h = addEventWalk(v, FALSE)
    BY <1>1, <1>3, <1>5, <2>1
  <2>4. QED
    BY <2>2, <2>3, AddEventWalkGoes DEF EventComes
<1>6. CASE t.eventWalk = 0
  <2>1. h = t
    BY <1>1, <1>3, <1>6
  <2>2. QED
    BY <1>4, <1>6, <2>1 DEF Going, EventComes
<1>7. QED
  BY <1>5, <1>6

-----------------------------------------------------------------------------
(* The queue of the walking player's tasks. *)

LEMMA AppendedHas ==
    ASSUME NEW s \in Seq(WalkTasks), NEW t \in WalkTasks, NEW u, u = Append(s, t)
    PROVE  /\ u \in Seq(WalkTasks) /\ Len(u) = Len(s) + 1 /\ Has(u, t.do)
           /\ \A do : Has(s, do) => Has(u, do)
<1>1. /\ u \in Seq(WalkTasks) /\ Len(u) = Len(s) + 1 /\ Len(s) \in Nat
      /\ DOMAIN s = 1..Len(s) /\ DOMAIN u = 1..(Len(s) + 1)
      /\ u[Len(s) + 1] = t /\ \A i \in 1..Len(s) : u[i] = s[i]
  OBVIOUS
<1>2. Len(s) + 1 \in DOMAIN u /\ \A i \in DOMAIN s : i \in DOMAIN u /\ u[i] = s[i]
  BY <1>1
<1>3. QED
  BY <1>1, <1>2 DEF Has

LEMMA TailedHas ==
    ASSUME NEW s \in Seq(WalkTasks), s # <<>>, NEW u, u = Tail(s)
    PROVE  /\ u \in Seq(WalkTasks) /\ Len(u) <= Len(s) /\ Len(u) \in Nat
           /\ Head(s) \in WalkTasks
           /\ \A do : Has(s, do) /\ Head(s).do # do => Has(u, do)
<1>1. /\ u \in Seq(WalkTasks) /\ Len(u) = Len(s) - 1 /\ Len(s) \in Nat /\ Len(s) > 0
      /\ DOMAIN s = 1..Len(s) /\ DOMAIN u = 1..(Len(s) - 1)
      /\ Head(s) = s[1] /\ Head(s) \in WalkTasks
      /\ \A i \in 1..(Len(s) - 1) : u[i] = s[i + 1]
  OBVIOUS
<1>2. ASSUME NEW do, NEW k \in DOMAIN s, s[k].do = do, Head(s).do # do
      PROVE  Has(u, do)
  <2>1. k \in 1..Len(s) /\ k # 1
    BY <1>1, <1>2
  <2>2. k - 1 \in 1..(Len(s) - 1) /\ (k - 1) + 1 = k
    BY <1>1, <2>1
  <2>3. k - 1 \in DOMAIN u /\ u[k - 1] = s[k]
    BY <1>1, <2>2
  <2>4. QED
    BY <1>2, <2>3 DEF Has
<1>3. QED
  BY <1>1, <1>2 DEF Has

LEMMA NextWalk == WalkIInv /\ [WalkNext]_walkVars => WalkIInv'
<1> SUFFICES ASSUME WalkIInv, [WalkNext]_walkVars PROVE WalkIInv'
  OBVIOUS
<1>0. /\ walk \in WalkState /\ queue \in Seq(WalkTasks) /\ Len(queue) <= MaxQueue
      /\ Len(queue) \in Nat /\ MaxQueue \in Nat /\ life \in {"alive", "dying", "dead"}
      /\ life = "alive" => Going(walk, queue)
      /\ life = "dead" => Settled(walk)
  BY WalkAssumption DEF WalkIInv, WalkTypeOK
<1>1. ASSUME walk' \in WalkState, life # "dead", UNCHANGED <<queue, life>>,
             Going(walk, queue) => Going(walk', queue)
      PROVE  WalkIInv'
  BY <1>0, <1>1 DEF WalkIInv, WalkTypeOK
<1>2. ASSUME NEW s \in WalkState, NEW steps \in 0..MaxSteps, NEW early \in BOOLEAN,
             walk' = startAutoWalk(s, steps, early), ~walk'.crowded, NEW q
      PROVE  /\ walk' \in WalkState
             /\ EventComes(s, q) /\ (s.rooted => StepsHaveEvent(s)) => Going(walk', q)
  <2>1. walk' = startAutoWalk(s, steps, TRUE) \/ walk' = startAutoWalk(s, steps, FALSE)
    BY <1>2
  <2>2. QED
    BY <1>2, <2>1, StartAutoWalkGoes
<1>3. CASE MoveKey
  <2>1. PICK s : s = NextWalkAction(walk, FALSE)
    OBVIOUS
  <2>2. /\ s \in WalkState /\ s.list = walk.list /\ s.eventWalk = walk.eventWalk
        /\ s.pending = walk.pending /\ s.fast = walk.fast /\ s.halted = walk.halted
    BY <1>0, <2>1, NextWalkActionDoes
  <2>3. Going(walk, queue) => EventComes(s, queue) /\ StepsHaveEvent(s)
    BY <2>2 DEF Going, EventComes, Coming, StepsHaveEvent
  <2>4. PICK early \in BOOLEAN : walk' = startAutoWalk(s, 1, early) /\ ~walk'.crowded
    BY <1>3, <2>1 DEF MoveKey, WalkTo
  <2>5. QED
    BY <1>1, <1>2, <1>3, <2>2, <2>3, <2>4, WalkFacts DEF MoveKey
<1>4. ASSUME NEW steps \in 1..MaxSteps, ClickGround(steps)
      PROVE  WalkIInv'
  <2>1. PICK early \in BOOLEAN : walk' = startAutoWalk(walk, steps, early) /\ ~walk'.crowded
    BY <1>4 DEF ClickGround, WalkTo
  <2>2. steps \in 0..MaxSteps
    BY WalkFacts
  <2>3. QED
    BY <1>0, <1>1, <1>2, <1>4, <2>1, <2>2 DEF ClickGround, Going
<1>5. ASSUME NEW rest \in Seq(WalkTasks), NEW steps \in 1..MaxSteps, UseFarOn(rest, steps),
             life # "dead",
             Has(queue, "check") => Has(rest, "check")
      PROVE  WalkIInv'
  <2>1. PICK t : t = [do |-> "autoWalk", steps |-> steps]
    OBVIOUS
  <2>2. t \in WalkTasks /\ t.do = "autoWalk"
    BY <2>1 DEF WalkTasks
  <2>3. queue' = Append(rest, t) /\ walk' = NextWalkAction(walk, TRUE) /\ life' = life
        /\ Len(rest) < MaxQueue
    BY <1>5, <2>1 DEF UseFarOn, WalkTo
  <2>4. /\ queue' \in Seq(WalkTasks) /\ Len(queue') = Len(rest) + 1 /\ Has(queue', "autoWalk")
        /\ Has(rest, "check") => Has(queue', "check")
    BY <2>2, <2>3, AppendedHas
  <2>5. Len(queue') <= MaxQueue
    BY <1>0, <2>3, <2>4
  <2>6. /\ walk' \in WalkState /\ walk'.list = walk.list /\ walk'.eventWalk = walk.eventWalk
        /\ walk'.pending = walk.pending /\ walk'.fast = walk.fast /\ walk'.halted = walk.halted
    BY <1>0, <2>3, NextWalkActionDoes
  <2>7. Going(walk, queue) => Going(walk', queue')
    BY <1>5, <2>4, <2>6 DEF Going, EventComes, Coming, StepsHaveEvent, ActionHasWalk
  <2>8. QED
    BY <1>0, <1>5, <2>3, <2>4, <2>5, <2>6, <2>7 DEF WalkIInv, WalkTypeOK
<1>6. ASSUME NEW steps \in 1..MaxSteps, UseFar(steps)
      PROVE  WalkIInv'
  BY <1>0, <1>5, <1>6 DEF UseFar
<1>7. CASE StopAutoWalk
  <2>1. /\ walk' \in WalkState /\ walk'.list = walk.list /\ walk'.eventWalk = walk.eventWalk
        /\ walk'.pending = walk.pending /\ walk'.fast = walk.fast /\ walk'.halted = walk.halted
        /\ walk'.task = walk.task /\ walk'.stranded = walk.stranded
    BY <1>0, <1>7 DEF StopAutoWalk, WalkState
  <2>2. QED
    BY <1>1, <1>7, <2>1
    DEF StopAutoWalk, Going, EventComes, Coming, StepsHaveEvent, ActionHasWalk
<1>8. CASE Follow
  <2>1. PICK s : s = [walk EXCEPT !.list = 0]
    OBVIOUS
  <2>2. /\ s \in WalkState /\ s.list = 0 /\ s.eventWalk = walk.eventWalk
        /\ s.pending = walk.pending
    BY <1>0, <2>1, WalkFacts DEF WalkState
  <2>3. walk' = NextWalkAction(s, FALSE)
    BY <1>8, <2>1 DEF Follow, onWalkAborted
  <2>4. /\ walk' \in WalkState /\ walk'.list = 0 /\ walk'.eventWalk = walk.eventWalk
        /\ walk'.pending = walk.pending /\ ~walk'.task
    BY <2>2, <2>3, NextWalkActionDoes
  <2>5. QED
    BY <1>1, <1>8, <2>4 DEF Follow, Going, EventComes, Coming, StepsHaveEvent, ActionHasWalk
<1>9. ASSUME NEW steps \in 0..MaxSteps, GoToFollowed(steps)
      PROVE  WalkIInv'
  <2>1. PICK b \in BOOLEAN : b = (walk.rooted /\ steps > 0 /\ walk.eventWalk = 0)
    OBVIOUS
  <2>2. PICK s : s = [walk EXCEPT !.list = steps, !.halted = b]
    OBVIOUS
  <2>3. /\ s \in WalkState /\ s.list = steps /\ s.eventWalk = walk.eventWalk
        /\ s.pending = walk.pending /\ s.halted = b /\ s.rooted = walk.rooted
        /\ s.task = walk.task
    BY <1>0, <2>2 DEF WalkState
  <2>4. life = "alive" /\ ~walk.task /\ UNCHANGED <<queue, life>>
    BY <1>9 DEF GoToFollowed
  <2>5. EventComes(walk, queue) => EventComes(s, queue)
    BY <2>3 DEF EventComes, Coming
  <2>6. s.rooted => StepsHaveEvent(s)
    BY <2>1, <2>3 DEF StepsHaveEvent
  <2>7. \/ steps = 0 /\ walk' = s
        \/ \E early \in BOOLEAN : walk' = startAutoWalk(s, steps, early) /\ ~walk'.crowded
    BY <1>9, <2>1, <2>2 DEF GoToFollowed, WalkTo
  <2>8. CASE steps = 0 /\ walk' = s
    BY <1>1, <2>3, <2>4, <2>5, <2>8 DEF Going, StepsHaveEvent, ActionHasWalk
  <2>9. CASE \E early \in BOOLEAN : walk' = startAutoWalk(s, steps, early) /\ ~walk'.crowded
    BY <1>1, <1>2, <2>3, <2>4, <2>5, <2>6, <2>9 DEF Going
  <2>10. QED
    BY <2>7, <2>8, <2>9
<1>10. CASE Slow
  <2>1. PICK s : s = stopEventWalk(walk)
    OBVIOUS
  <2>2. s \in WalkState /\ s.eventWalk = 0
    BY <1>0, <2>1, StopEventWalkDoes
  <2>3. walk' = [s EXCEPT !.fast = FALSE, !.cancel = TRUE]
    BY <1>10, <2>1 DEF Slow
  <2>4. walk' \in WalkState /\ walk'.eventWalk = 0 /\ ~walk'.fast
    BY <2>2, <2>3 DEF WalkState
  <2>5. QED
    BY <1>1, <1>10, <2>4 DEF Slow, Going, EventComes, StepsHaveEvent, ActionHasWalk
<1>11. CASE Hasten
  <2>1. PICK b \in BOOLEAN :
            b = (walk.stranded \/ (walk.task /\ walk.list = 0 /\ walk.eventWalk = 0))
    OBVIOUS
  <2>2. PICK s : s = [walk EXCEPT !.fast = TRUE, !.stranded = b]
    OBVIOUS
  <2>3. /\ s \in WalkState /\ s.list = walk.list /\ s.eventWalk = walk.eventWalk
        /\ s.pending = walk.pending /\ s.task = walk.task /\ s.stranded = b
    BY <1>0, <2>2 DEF WalkState
  <2>4. EventComes(walk, queue) => EventComes(s, queue)
    BY <2>3 DEF EventComes, Coming
  <2>5. walk' = IF s.list > 0 THEN addEventWalk(s, FALSE) ELSE s
    BY <1>11, <2>1, <2>2 DEF Hasten, WalkTo
  <2>6. ~walk'.crowded /\ life # "dead" /\ UNCHANGED <<queue, life>>
    BY <1>11 DEF Hasten, WalkTo
  <2>7. CASE s.list > 0
    <3>1. walk' \in WalkState /\ (EventComes(s, queue) => walk'.crowded \/ Going(walk', queue))
      BY <2>3, <2>5, <2>7, AddEventWalkGoes
    <3>2. QED
      BY <1>1, <2>4, <2>6, <3>1 DEF Going
  <2>8. CASE ~(s.list > 0)
    <3>1. walk.list = 0 /\ walk' = s
      BY <1>0, <2>3, <2>5, <2>8 DEF WalkState
    <3>2. s.task => s.stranded \/ s.eventWalk # 0
      BY <2>1, <2>3, <3>1
    <3>3. QED
      BY <1>1, <2>3, <2>4, <2>6, <2>8, <3>1, <3>2 DEF Going, StepsHaveEvent, ActionHasWalk
  <2>9. QED
    BY <2>7, <2>8
<1>12. CASE Teleport
  <2>1. /\ walk' \in WalkState /\ walk'.eventWalk = 0 /\ walk'.halted
        /\ walk'.stranded = walk.task /\ walk'.task = walk.task
    BY <1>0, <1>12, TeleportedDoes DEF Teleport
  <2>2. QED
    BY <1>1, <1>12, <2>1 DEF Teleport, Going, EventComes, StepsHaveEvent, ActionHasWalk
<1>13. CASE Root
  <2>1. PICK b \in BOOLEAN : b = ~walk.rooted
    OBVIOUS
  <2>2. walk' = [walk EXCEPT !.rooted = b] /\ UNCHANGED <<queue, life>>
    BY <1>13, <2>1 DEF Root
  <2>3. /\ walk' \in WalkState /\ walk'.list = walk.list /\ walk'.eventWalk = walk.eventWalk
        /\ walk'.pending = walk.pending /\ walk'.fast = walk.fast /\ walk'.halted = walk.halted
        /\ walk'.task = walk.task /\ walk'.stranded = walk.stranded
    BY <1>0, <2>2 DEF WalkState
  <2>4. /\ Going(walk, queue) => Going(walk', queue)
        /\ Settled(walk) => Settled(walk')
    BY <2>3 DEF Settled, Going, EventComes, Coming, StepsHaveEvent, ActionHasWalk
  <2>5. QED
    BY <1>0, <2>2, <2>3, <2>4 DEF WalkIInv, WalkTypeOK
<1>14. CASE Kill
  <2>1. PICK t : t = [do |-> "death"]
    OBVIOUS
  <2>2. t \in WalkTasks
    BY <2>1 DEF WalkTasks
  <2>3. queue' = Append(queue, t) /\ Len(queue) < MaxQueue /\ life' = "dying" /\ walk' = walk
    BY <1>14, <2>1 DEF Kill
  <2>4. queue' \in Seq(WalkTasks) /\ Len(queue') = Len(queue) + 1
    BY <1>0, <2>2, <2>3, AppendedHas
  <2>5. Len(queue') <= MaxQueue
    BY <1>0, <2>3, <2>4
  <2>6. QED
    BY <1>0, <2>3, <2>4, <2>5 DEF WalkIInv, WalkTypeOK
<1>15. CASE SpawnAgain
  <2>1. Going(walk, queue)
    BY <1>0, <1>15 DEF SpawnAgain, Settled, Going, EventComes, StepsHaveEvent, ActionHasWalk
  <2>2. QED
    BY <1>0, <1>15, <2>1 DEF SpawnAgain, WalkIInv, WalkTypeOK
<1>16. ASSUME NEW e \in WalkEvents, FireWalk(e)
       PROVE  WalkIInv'
  <2>1. PICK t : t = [do |-> "check"]
    OBVIOUS
  <2>2. t \in WalkTasks /\ t.do = "check"
    BY <2>1 DEF WalkTasks
  <2>3. /\ queue' = Append(queue, t) /\ Len(queue) < MaxQueue /\ life' = life
        /\ walk' = [walk EXCEPT !.pending = @ \ {e}]
    BY <1>16, <2>1 DEF FireWalk
  <2>4. /\ queue' \in Seq(WalkTasks) /\ Len(queue') = Len(queue) + 1 /\ Has(queue', "check")
        /\ \A do : Has(queue, do) => Has(queue', do)
    BY <1>0, <2>2, <2>3, AppendedHas
  <2>5. Len(queue') <= MaxQueue
    BY <1>0, <2>3, <2>4
  <2>6. /\ walk' \in WalkState /\ walk'.list = walk.list /\ walk'.eventWalk = walk.eventWalk
        /\ walk'.fast = walk.fast /\ walk'.halted = walk.halted
        /\ walk'.task = walk.task /\ walk'.stranded = walk.stranded
    BY <1>0, <2>3 DEF WalkState
  <2>7. /\ Going(walk, queue) => Going(walk', queue')
        /\ Settled(walk) => Settled(walk')
    BY <2>4, <2>6 DEF Settled, Going, EventComes, Coming, StepsHaveEvent, ActionHasWalk
  <2>8. QED
    BY <1>0, <2>3, <2>4, <2>5, <2>6, <2>7 DEF WalkIInv, WalkTypeOK
<1>17. CASE FireAction
  <2>1. PICK t : t = [do |-> "action"]
    OBVIOUS
  <2>2. t \in WalkTasks
    BY <2>1 DEF WalkTasks
  <2>3. /\ queue' = Append(queue, t) /\ Len(queue) < MaxQueue /\ life' = life
        /\ walk' = [walk EXCEPT !.taskEvent = FALSE]
    BY <1>17, <2>1 DEF FireAction
  <2>4. /\ queue' \in Seq(WalkTasks) /\ Len(queue') = Len(queue) + 1
        /\ \A do : Has(queue, do) => Has(queue', do)
    BY <1>0, <2>2, <2>3, AppendedHas
  <2>5. Len(queue') <= MaxQueue
    BY <1>0, <2>3, <2>4
  <2>6. /\ walk' \in WalkState /\ walk'.list = walk.list /\ walk'.eventWalk = walk.eventWalk
        /\ walk'.pending = walk.pending /\ walk'.fast = walk.fast /\ walk'.halted = walk.halted
        /\ walk'.task = walk.task /\ walk'.stranded = walk.stranded
    BY <1>0, <2>3 DEF WalkState
  <2>7. /\ Going(walk, queue) => Going(walk', queue')
        /\ Settled(walk) => Settled(walk')
    BY <2>4, <2>6 DEF Settled, Going, EventComes, Coming, StepsHaveEvent, ActionHasWalk
  <2>8. QED
    BY <1>0, <2>3, <2>4, <2>5, <2>6, <2>7 DEF WalkIInv, WalkTypeOK
<1>18. CASE RunTask
  <2>1. queue # <<>>
    BY <1>18 DEF RunTask
  <2>2. PICK rest : rest = Tail(queue)
    OBVIOUS
  <2>3. PICK t : t = Head(queue)
    OBVIOUS
  <2>4. /\ rest \in Seq(WalkTasks) /\ Len(rest) <= MaxQueue /\ t \in WalkTasks
        /\ \A do : Has(queue, do) /\ t.do # do => Has(rest, do)
    <3>1. /\ rest \in Seq(WalkTasks) /\ Len(rest) <= Len(queue) /\ Len(rest) \in Nat
          /\ t \in WalkTasks /\ \A do : Has(queue, do) /\ t.do # do => Has(rest, do)
      BY <1>0, <2>1, <2>2, <2>3, TailedHas
    <3>2. QED
      BY <1>0, <3>1
  <2>5. CASE /\ t.do = "check" /\ life = "alive"
             /\ \E ready, jump \in BOOLEAN : WalkTo(onCreatureWalk(walk, ready, jump))
             /\ queue' = rest /\ UNCHANGED life
    <3>1. /\ \/ walk' = onCreatureWalk(walk, TRUE, TRUE)
             \/ walk' = onCreatureWalk(walk, TRUE, FALSE)
             \/ walk' = onCreatureWalk(walk, FALSE, TRUE)
             \/ walk' = onCreatureWalk(walk, FALSE, FALSE)
          /\ ~walk'.crowded
      BY <2>5 DEF WalkTo
    <3>2. StepsHaveEvent(walk) /\ ActionHasWalk(walk, rest)
      BY <1>0, <2>4, <2>5 DEF Going, ActionHasWalk
    <3>3. walk' \in WalkState /\ Going(walk', rest)
      BY <1>0, <3>1, <3>2, OnCreatureWalkGoes
    <3>4. QED
      BY <2>4, <2>5, <3>3 DEF WalkIInv, WalkTypeOK
  <2>6. CASE /\ t.do = "autoWalk" /\ life # "dead"
             /\ \E early \in BOOLEAN : WalkTo(startAutoWalk(walk, t.steps, early))
             /\ queue' = rest /\ UNCHANGED life
    <3>1. t.steps \in 0..MaxSteps
      <4>1. t \in [do : {"autoWalk"}, steps : 1..MaxSteps]
        BY <2>4, <2>6 DEF WalkTasks
      <4>2. QED
        BY <4>1, WalkFacts
    <3>2. PICK early \in BOOLEAN : walk' = startAutoWalk(walk, t.steps, early) /\ ~walk'.crowded
      BY <2>6 DEF WalkTo
    <3>3. Going(walk, queue) => EventComes(walk, rest) /\ StepsHaveEvent(walk)
      BY <2>4, <2>6 DEF Going, EventComes, Coming
    <3>4. walk' \in WalkState /\ (Going(walk, queue) => Going(walk', rest))
      BY <1>0, <1>2, <3>1, <3>2, <3>3
    <3>5. QED
      BY <1>0, <2>4, <2>6, <3>4 DEF WalkIInv, WalkTypeOK
  <2>7. CASE /\ t.do = "action" /\ life # "dead"
             /\ \/ queue' = rest /\ UNCHANGED <<walk, life>>
                \/ \E steps \in 1..MaxSteps : UseFarOn(rest, steps)
    <3>1. /\ Has(queue, "check") => Has(rest, "check")
          /\ Has(queue, "autoWalk") => Has(rest, "autoWalk")
      BY <2>4, <2>7
    <3>2. Going(walk, queue) => Going(walk, rest)
      BY <3>1 DEF Going, EventComes, Coming, ActionHasWalk
    <3>3. CASE queue' = rest /\ UNCHANGED <<walk, life>>
      BY <1>0, <2>4, <3>2, <3>3 DEF WalkIInv, WalkTypeOK
    <3>4. CASE \E steps \in 1..MaxSteps : UseFarOn(rest, steps)
      BY <1>5, <2>4, <2>7, <3>1, <3>4
    <3>5. QED
      BY <2>7, <3>3, <3>4
  <2>8. CASE walk' = Despawned(walk) /\ queue' = rest /\ life' = "dead"
    <3>1. PICK s : s = [walk EXCEPT !.list = 0]
      OBVIOUS
    <3>2. s \in WalkState /\ s.list = 0
      BY <1>0, <3>1, WalkFacts DEF WalkState
    <3>3. PICK u : u = stopEventWalk(s)
      OBVIOUS
    <3>4. u \in WalkState /\ u.list = 0 /\ u.eventWalk = 0
      BY <3>2, <3>3, StopEventWalkDoes
    <3>5. walk' = NextWalkAction(u, FALSE)
      BY <2>8, <3>1, <3>3 DEF Despawned, onWalkAborted
    <3>6. walk' \in WalkState /\ Settled(walk')
      BY <3>4, <3>5, NextWalkActionDoes DEF Settled
    <3>7. QED
      BY <2>4, <2>8, <3>6 DEF WalkIInv, WalkTypeOK
  <2>9. CASE life \in {"dead", "dying"} /\ queue' = rest /\ UNCHANGED <<walk, life>>
    BY <1>0, <2>4, <2>9 DEF WalkIInv, WalkTypeOK
  <2>10. QED
    BY <1>18, <2>2, <2>3, <2>5, <2>6, <2>7, <2>8, <2>9 DEF RunTask
<1>19. CASE UNCHANGED walkVars
  BY <1>0, <1>19 DEF walkVars, WalkIInv, WalkTypeOK
<1>20. CASE GainLevel
  <2>1. PICK b \in BOOLEAN : b = (walk.halted \/ (walk.list > 0 /\ walk.eventWalk = 0))
    OBVIOUS
  <2>2. PICK c \in BOOLEAN : c = (walk.stranded \/ (walk.task /\ walk.eventWalk = 0))
    OBVIOUS
  <2>3. walk' = [walk EXCEPT !.fast = TRUE, !.halted = b, !.stranded = c]
    BY <1>20, <2>1, <2>2 DEF GainLevel
  <2>4. /\ walk' \in WalkState /\ walk'.list = walk.list /\ walk'.eventWalk = walk.eventWalk
        /\ walk'.pending = walk.pending /\ walk'.task = walk.task
        /\ walk'.halted = b /\ walk'.stranded = c
    BY <1>0, <2>3 DEF WalkState
  <2>5. QED
    BY <1>1, <1>20, <2>1, <2>2, <2>4
    DEF GainLevel, Going, EventComes, Coming, StepsHaveEvent, ActionHasWalk
<1>21. QED
  BY <1>3, <1>4, <1>6, <1>7, <1>8, <1>9, <1>10, <1>11, <1>12, <1>13, <1>14, <1>15, <1>16,
     <1>17, <1>18, <1>19, <1>20 DEF WalkNext

LEMMA InitWalk == WalkInit => WalkIInv
<1> SUFFICES ASSUME WalkInit PROVE WalkIInv
  OBVIOUS
<1>1. walk \in WalkState
  BY WalkFacts DEF WalkInit, WalkState
<1>2. queue = <<>> /\ queue \in Seq(WalkTasks) /\ Len(queue) = 0 /\ 0 <= MaxQueue
  BY WalkAssumption DEF WalkInit
<1>3. Going(walk, queue)
  BY DEF WalkInit, Going, EventComes, StepsHaveEvent, ActionHasWalk
<1>4. QED
  BY <1>1, <1>2, <1>3 DEF WalkInit, WalkIInv, WalkTypeOK

\* A player does not get stuck: as long as eventWalk is set, or steps are left
\* and the player can move, a walk event is on its way, and an action that waits
\* for a walk has one, however stopEvent(), the scheduler's thread, teleports
\* and changes of speed interleave, for paths and queues of any length.
THEOREM WalkersNeverStuck == WalkSpec => []WalkNotStuck
<1>1. WalkIInv => WalkNotStuck
  BY DEF WalkIInv, WalkNotStuck, Going, EventComes, Coming, StepsHaveEvent, ActionHasWalk,
         Has, Queued
<1>2. QED
  BY <1>1, InitWalk, NextWalk, PTL DEF WalkSpec

-----------------------------------------------------------------------------
(* The spawn. *)

\* With at most one monster each, the blocks have fewer monsters than there are
\* blocks as soon as one has none: the size comparison tells that one is missing.
LEMMA SomebodyMissing ==
    ASSUME NEW f \in [Blocks -> 0..MaxPending], NEW b \in Blocks, f[b] = 0,
           \A c \in Blocks : f[c] <= 1
    PROVE  Rearm(f)
<1> DEFINE M == {m \in Blocks \X (1..MaxPending) : m[2] <= f[m[1]]}
           g == [m \in M |-> m[1]]
<1>1. IsFiniteSet(Blocks) /\ IsFiniteSet(Blocks \ {b}) /\ Cardinality(Blocks) \in Nat
      /\ Cardinality(Blocks \ {b}) = Cardinality(Blocks) - 1
  BY SpawnAssumption, FS_RemoveElement, FS_CardinalityType
<1>2. \A m \in M : m[1] \in Blocks \ {b} /\ m = <<m[1], 1>>
  BY SpawnAssumption
<1>3. g \in Injection(M, Blocks \ {b})
  BY <1>2 DEF Injection, IsInjective
<1>4. IsFiniteSet(M) /\ Cardinality(M) <= Cardinality(Blocks \ {b})
  BY <1>1, <1>3, FS_Injection
<1>5. Cardinality(M) \in Nat
  BY <1>4, FS_CardinalityType
<1>6. QED
  BY <1>1, <1>4, <1>5 DEF Rearm, Population

\* Only blocks that are not blockable get their monster by scheduleSpawn().
SpawnIInv ==
    /\ alive \in [Blocks -> 0..MaxPending] /\ corpses \in [Blocks -> 0..MaxPending]
    /\ scheduled \in [Blocks -> 0..MaxPending]
    /\ checkEvent \in BOOLEAN /\ started \in BOOLEAN /\ forgotten \in BOOLEAN
    /\ \A b \in Blockable : alive[b] <= 1 /\ scheduled[b] = 0
    /\ checkTasks = IF checkEvent THEN 1 ELSE 0
    /\ \A b \in Blocks : started /\ alive[b] = 0 =>
          checkEvent \/ forgotten \/ \E c \in Blocks : alive[c] + corpses[c] > 1

LEMMA NextSpawn == SpawnIInv /\ [SpawnNext]_spawnVars => SpawnIInv'
<1> SUFFICES ASSUME SpawnIInv, [SpawnNext]_spawnVars PROVE SpawnIInv'
  OBVIOUS
<1>0. Blockable \subseteq Blocks /\ MaxPending \in Nat \ {0}
  BY SpawnAssumption
<1>1. CASE UNCHANGED spawnVars
  BY <1>1 DEF SpawnIInv, spawnVars
<1>2. ASSUME NEW placed \in SUBSET Blocks, StartSpawn(placed) PROVE SpawnIInv'
  <2>1. alive' \in [Blocks -> 0..MaxPending] /\ \A b \in Blocks : alive'[b] = IF b \in placed THEN 1 ELSE 0
    BY <1>0, <1>2 DEF StartSpawn
  <2>2. ASSUME NEW b \in Blocks, alive'[b] = 0 PROVE forgotten'
    <3>1. placed # Blocks /\ forgotten' = (placed # Blocks)
      BY <1>2, <2>1, <2>2 DEF StartSpawn
    <3>2. QED
      BY <3>1, Zenon
  <2>3. started' \in BOOLEAN /\ forgotten' \in BOOLEAN
    BY <1>2 DEF StartSpawn
  <2>4. QED
    BY <1>0, <1>2, <2>1, <2>2, <2>3 DEF StartSpawn, SpawnIInv
<1>3. ASSUME NEW b \in Blocks, MonsterGone(b) PROVE SpawnIInv'
  <2>1. checkEvent' = TRUE /\ checkTasks' = 1
    BY <1>3 DEF MonsterGone, SpawnIInv
  <2>2. /\ alive' \in [Blocks -> 0..MaxPending] /\ corpses' \in [Blocks -> 0..MaxPending]
        /\ \A c \in Blockable : alive'[c] <= 1
    BY <1>0, <1>3 DEF MonsterGone, SpawnIInv
  <2>3. QED
    BY <1>3, <2>1, <2>2 DEF MonsterGone, SpawnIInv
<1>4. ASSUME NEW due \in SUBSET Blocks, NEW placed \in SUBSET Blocks, CheckSpawn(due, placed) PROVE SpawnIInv'
  <2>1. alive' \in [Blocks -> 0..MaxPending] /\ \A b \in Blockable : alive'[b] <= 1
    BY <1>0, <1>4 DEF CheckSpawn, SpawnIInv
  <2>2. /\ corpses' = [b \in Blocks |-> 0]
        /\ scheduled' \in [Blocks -> 0..MaxPending] /\ \A b \in Blockable : scheduled'[b] = 0
    BY <1>0, <1>4 DEF CheckSpawn, SpawnIInv
  <2>3. checkEvent' = Rearm(alive') /\ checkEvent' \in BOOLEAN
    BY <1>4 DEF CheckSpawn, Rearm
  <2>4. checkTasks = 1
    BY <1>4 DEF CheckSpawn, SpawnIInv
  <2>5. checkTasks' = IF checkEvent' THEN 1 ELSE 0
    BY <1>4, <2>3, <2>4 DEF CheckSpawn
  <2>6. ASSUME NEW b \in Blocks, alive'[b] = 0
        PROVE  checkEvent' \/ \E c \in Blocks : alive'[c] + corpses'[c] > 1
    <3> SUFFICES ASSUME ~ \E c \in Blocks : alive'[c] + corpses'[c] > 1 PROVE checkEvent'
      OBVIOUS
    <3>1. \A c \in Blocks : alive'[c] <= 1
      BY <2>1, <2>2
    <3>2. Rearm(alive')
      BY <2>1, <2>6, <3>1, SomebodyMissing
    <3>3. QED
      BY <2>3, <3>2
  <2>7. started' \in BOOLEAN /\ forgotten' \in BOOLEAN
    BY <1>4 DEF CheckSpawn, SpawnIInv
  <2>8. corpses' \in [Blocks -> 0..MaxPending]
    BY <1>0, <2>2
  <2>9. QED
    BY <2>1, <2>2, <2>3, <2>5, <2>6, <2>7, <2>8 DEF SpawnIInv
<1>5. ASSUME NEW b \in Blocks, NEW room \in BOOLEAN, SpawnScheduled(b, room) PROVE SpawnIInv'
  <2>1. b \notin Blockable
    BY <1>5 DEF SpawnScheduled, SpawnIInv
  <2>2. /\ alive' \in [Blocks -> 0..MaxPending] /\ scheduled' \in [Blocks -> 0..MaxPending]
        /\ \A c \in Blocks : alive'[c] >= alive[c]
        /\ \A c \in Blockable : alive'[c] <= 1 /\ scheduled'[c] = 0
    BY <1>0, <1>5, <2>1 DEF SpawnScheduled, SpawnIInv
  <2>3. QED
    BY <1>5, <2>2 DEF SpawnScheduled, SpawnIInv
<1>6. QED
  BY <1>1, <1>2, <1>3, <1>4, <1>5 DEF SpawnNext

\* For any number of blocks and any rate: a block that waits for its monster
\* has the one event of checkSpawnMonster() pending, but for the exceptions
\* SpawnNotForgotten names.
THEOREM SpawnsComeBack == SpawnSpec => []SpawnNotForgotten
<1>1. SpawnInit => SpawnIInv
  <2> SUFFICES ASSUME SpawnInit PROVE SpawnIInv
    OBVIOUS
  <2>1. checkEvent \in BOOLEAN /\ started \in BOOLEAN /\ forgotten \in BOOLEAN /\ checkTasks = IF checkEvent THEN 1 ELSE 0
    BY DEF SpawnInit
  <2>2. QED
    BY <2>1, SpawnAssumption DEF SpawnInit, SpawnIInv
<1>2. ASSUME SpawnIInv PROVE SpawnNotForgotten
  <2>1. checkTasks = (IF checkEvent THEN 1 ELSE 0) /\ checkEvent \in BOOLEAN /\ MaxPending \in Nat \ {0}
    BY <1>2, SpawnAssumption DEF SpawnIInv
  <2>2. (checkEvent <=> checkTasks = 1) /\ checkTasks \in 0..MaxPending
    BY <2>1
  <2>3. SpawnTypeOK
    BY <1>2, <2>2, Zenon DEF SpawnIInv, SpawnTypeOK
  <2>4. QED
    BY <1>2, <2>2, <2>3 DEF SpawnIInv, SpawnNotForgotten
<1>3. QED
  BY <1>1, <1>2, NextSpawn, PTL DEF SpawnSpec

-----------------------------------------------------------------------------
(* Raids: how many tasks there are. *)

\* How often w is in a queue.
HowMany(q, w) == Cardinality({i \in DOMAIN q : q[i] = w})

LEMMA HowManyPushed ==
    ASSUME NEW S, NEW q \in Seq(S), NEW x \in S, NEW w
    PROVE  /\ HowMany(q, w) \in Nat
           /\ HowMany(<<x>> \o q, w) = HowMany(q, w) + (IF w = x THEN 1 ELSE 0)
<1> DEFINE p == <<x>> \o q
           A == {i \in DOMAIN q : q[i] = w}
           B == {i + 1 : i \in A}
           f == [i \in A |-> i + 1]
<1>1. Len(q) \in Nat /\ DOMAIN q = 1..Len(q)
  OBVIOUS
<1>2. DOMAIN p = 1..(Len(q) + 1) /\ p[1] = x /\ \A i \in 1..Len(q) : p[i + 1] = q[i]
  <2>1. <<x>> \in Seq(S) /\ Len(<<x>>) = 1
    OBVIOUS
  <2>2. /\ p \in Seq(S) /\ Len(p) = 1 + Len(q)
        /\ \A i \in 1..(1 + Len(q)) : p[i] = IF i <= 1 THEN <<x>>[i] ELSE q[i - 1]
    BY <2>1, ConcatProperties
  <2> HIDE DEF p
  <2>3. DOMAIN p = 1..(Len(q) + 1)
    BY <1>1, <2>2
  <2>4. QED
    BY <1>1, <2>2, <2>3
<1> HIDE DEF p
<1>3. IsFiniteSet(A) /\ Cardinality(A) \in Nat
  <2>1. A \in SUBSET (1..Len(q)) /\ IsFiniteSet(1..Len(q))
    BY <1>1, FS_Interval
  <2>2. QED
    BY <2>1, FS_Subset, FS_CardinalityType
<1>4. f \in Bijection(A, B)
  BY <1>1 DEF Bijection, Injection, IsInjective, Surjection
<1>5. IsFiniteSet(B) /\ Cardinality(B) = Cardinality(A)
  BY <1>3, <1>4, FS_Bijection DEF ExistsBijection
<1>6. 1 \notin B
  BY <1>1
<1>7. {i \in DOMAIN p : p[i] = w} = IF w = x THEN B \cup {1} ELSE B
  <2>1. B = {i \in 2..(Len(q) + 1) : p[i] = w}
    <3>1. ASSUME NEW i \in B PROVE i \in 2..(Len(q) + 1) /\ p[i] = w
      BY <1>1, <1>2
    <3>2. ASSUME NEW i \in 2..(Len(q) + 1), p[i] = w PROVE i \in B
      <4>1. i - 1 \in 1..Len(q) /\ (i - 1) + 1 = i
        BY <1>1
      <4>2. q[i - 1] = w
        BY <1>2, <3>2, <4>1
      <4>3. i - 1 \in A
        BY <1>1, <4>1, <4>2
      <4>4. QED
        BY <4>1, <4>3
    <3>3. QED
      BY <3>1, <3>2
  <2> HIDE DEF B, A
  <2>2. QED
    BY <1>1, <1>2, <2>1
<1>8. Cardinality(B \cup {1}) = Cardinality(B) + 1
  BY <1>5, <1>6, FS_AddElement
<1>9. HowMany(q, w) = Cardinality(A) /\ HowMany(p, w) = Cardinality(IF w = x THEN B \cup {1} ELSE B)
  BY <1>7 DEF HowMany
<1> HIDE DEF A, B
<1>10. HowMany(p, w) = HowMany(q, w) + (IF w = x THEN 1 ELSE 0)
  BY <1>3, <1>5, <1>8, <1>9
<1>11. QED
  BY <1>3, <1>9, <1>10 DEF p

LEMMA HowManyPopped ==
    ASSUME NEW S, NEW q \in Seq(S), q # <<>>, NEW w
    PROVE  /\ HowMany(Tail(q), w) \in Nat
           /\ HowMany(q, w) = HowMany(Tail(q), w) + (IF w = Head(q) THEN 1 ELSE 0)
<1>1. Head(q) \in S /\ Tail(q) \in Seq(S)
  OBVIOUS
<1>2. q = <<Head(q)>> \o Tail(q)
  OBVIOUS
<1> DEFINE h == Head(q)
           t == Tail(q)
<1> HIDE DEF h, t
<1>3. HowMany(t, w) \in Nat /\ HowMany(<<h>> \o t, w) = HowMany(t, w) + (IF w = h THEN 1 ELSE 0)
  <2>1. h \in S /\ t \in Seq(S)
    BY <1>1 DEF h, t
  <2>2. QED
    BY <2>1, HowManyPushed
<1>4. q = <<h>> \o t
  BY <1>2 DEF h, t
<1>5. QED
  BY <1>3, <1>4 DEF h, t

Timed(T, w) == T[TaskOf(w, "latest")] + T[TaskOf(w, "stale")]

\* All tasks of w, as Chains counts them.
TasksOf(T, q, w) == Timed(T, w) + HowMany(q, w)

LEMMA ChainsAreTasks == \A w : Chains(w) = TasksOf(raidTimers, raidQueue, w)
BY DEF Chains, QueuedTasks, TasksOf, Timed, HowMany

LEMMA TaskKinds ==
    /\ \A w \in RaidTaskOwners : TaskOf(w, "latest") \in RaidTask /\ TaskOf(w, "stale") \in RaidTask
    /\ \A t \in RaidTask : t.of \in RaidTaskOwners /\ (t = TaskOf(t.of, "latest") \/ t = TaskOf(t.of, "stale"))
    /\ \A v, w, l, k : TaskOf(v, l) = TaskOf(w, k) => v = w /\ l = k
    /\ \A w, l : TaskOf(w, l).of = w /\ TaskOf(w, l).id = l
BY DEF TaskOf, RaidTask

\* addEvent() adds one task.
LEMMA ArmedTimers ==
    ASSUME NEW T \in [RaidTask -> Nat], NEW w \in RaidTaskOwners
    PROVE  /\ Armed(T, w) \in [RaidTask -> Nat]
           /\ \A v \in RaidTaskOwners : Timed(Armed(T, w), v) = Timed(T, v) + (IF v = w THEN 1 ELSE 0)
           /\ \A v \in RaidTaskOwners : Timed(T, v) = 0 /\ v = w => Armed(T, w)[TaskOf(v, "stale")] = 0
           /\ \A v \in RaidTaskOwners : v # w => Armed(T, w)[TaskOf(v, "stale")] = T[TaskOf(v, "stale")]
<1> DEFINE a == TaskOf(w, "latest")
           b == TaskOf(w, "stale")
<1>1. a \in RaidTask /\ b \in RaidTask /\ a # b
  BY TaskKinds
<1>2. Armed(T, w) = [T EXCEPT ![b] = T[b] + T[a], ![a] = 1]
  BY DEF Armed
<1>3. /\ Armed(T, w) \in [RaidTask -> Nat]
      /\ Armed(T, w)[a] = 1 /\ Armed(T, w)[b] = T[b] + T[a]
      /\ \A t \in RaidTask : t # a /\ t # b => Armed(T, w)[t] = T[t]
  BY <1>1, <1>2
<1>4. ASSUME NEW v \in RaidTaskOwners, v # w
      PROVE  /\ TaskOf(v, "latest") \in RaidTask /\ TaskOf(v, "latest") # a /\ TaskOf(v, "latest") # b
             /\ TaskOf(v, "stale") \in RaidTask /\ TaskOf(v, "stale") # a /\ TaskOf(v, "stale") # b
  BY <1>4, TaskKinds
<1>5. T[a] \in Nat /\ T[b] \in Nat
  BY <1>1
<1>6. Timed(Armed(T, w), w) = Timed(T, w) + 1 /\ (Timed(T, w) = 0 => Armed(T, w)[b] = 0)
  BY <1>3, <1>5 DEF Timed
<1>7. ASSUME NEW v \in RaidTaskOwners, v # w
      PROVE  Timed(Armed(T, w), v) = Timed(T, v) + 0 /\ Armed(T, w)[TaskOf(v, "stale")] = T[TaskOf(v, "stale")]
  BY <1>3, <1>4, <1>7 DEF Timed
<1>8. QED
  BY <1>3, <1>6, <1>7

\* The scheduler takes one task away.
LEMMA FiredTimers ==
    ASSUME NEW T \in [RaidTask -> Nat], NEW t \in RaidTask, T[t] > 0
    PROVE  LET U == [T EXCEPT ![t] = @ - 1]
           IN  /\ U \in [RaidTask -> Nat]
               /\ \A v \in RaidTaskOwners : Timed(T, v) = Timed(U, v) + (IF v = t.of THEN 1 ELSE 0)
               /\ \A s \in RaidTask : U[s] <= T[s]
<1> DEFINE U == [T EXCEPT ![t] = @ - 1]
<1>1. /\ U \in [RaidTask -> Nat] /\ U[t] = T[t] - 1
      /\ \A s \in RaidTask : s # t => U[s] = T[s]
  OBVIOUS
<1> HIDE DEF U
<1>2. ASSUME NEW v \in RaidTaskOwners, v # t.of PROVE Timed(T, v) = Timed(U, v) + 0
  <2>1. TaskOf(v, "latest") \in RaidTask \ {t} /\ TaskOf(v, "stale") \in RaidTask \ {t}
    BY <1>2, TaskKinds
  <2>2. QED
    BY <1>1, <2>1 DEF Timed
<1>3. Timed(T, t.of) = Timed(U, t.of) + 1
  <2>1. TaskOf(t.of, "latest") \in RaidTask /\ TaskOf(t.of, "stale") \in RaidTask /\ TaskOf(t.of, "latest") # TaskOf(t.of, "stale")
    BY TaskKinds
  <2>2. CASE t = TaskOf(t.of, "latest")
    BY <1>1, <2>1, <2>2 DEF Timed
  <2>3. CASE t = TaskOf(t.of, "stale")
    BY <1>1, <2>1, <2>3 DEF Timed
  <2>4. QED
    BY <2>2, <2>3, TaskKinds
<1>4. \A s \in RaidTask : U[s] <= T[s]
  BY <1>1
<1>5. QED
  BY <1>1, <1>2, <1>3, <1>4 DEF U

-----------------------------------------------------------------------------
(* Raids: the invariant. *)

\* Raids are deleted by the reload that follows the load which has made them;
\* no object stands behind its last event.
RaidObjectsOK ==
    /\ raidLoads \in 0..MaxReloads
    /\ raidList \subseteq LoadedRaids(raidLoads)
    /\ raidsDeleted \subseteq {r \in RaidObjects : r[2] < raidLoads}
    /\ nextEvent \in [RaidObjects -> Nat]
    /\ \A r \in RaidObjects : nextEvent[r] = 0 \/ nextEvent[r] < RaidEvents[r[1]]
    /\ raidRunning \in (RaidObjects \ raidsDeleted) \cup {NoRaid}
    /\ raidTimers \in [RaidTask -> Nat] /\ raidQueue \in Seq(RaidTaskOwners)
    /\ raidsStarted \in BOOLEAN /\ raidOrphaned \in BOOLEAN /\ raidUndefined \in BOOLEAN

\* The running raid r, if any, goes on, with timers T and queue q.
RaidGoesOn(r, T, q) == r # NoRaid => TasksOf(T, q, r) > 0 \/ RaidEvents[r[1]] = 0

\* Only the running raid r goes on, and nobody has lost the id of a timer.
OnlyRunning(r, T, q, next, gone) ==
    /\ \A w \in RaidTaskOwners : T[TaskOf(w, "stale")] = 0
    /\ \A o \in RaidObjects \ gone : TasksOf(T, q, o) = 0 => next[o] = 0
    /\ \A o \in RaidObjects : TasksOf(T, q, o) <= IF r = o THEN 1 ELSE 0

OneCheck(T, q, on) == TasksOf(T, q, CheckTask) = IF on THEN 1 ELSE 0

RaidIInv ==
    /\ RaidObjectsOK
    /\ RaidGoesOn(raidRunning, raidTimers, raidQueue)
    /\ ~raidOrphaned =>
          /\ ~raidUndefined
          /\ OneCheck(raidTimers, raidQueue, raidsStarted)
          /\ OnlyRunning(raidRunning, raidTimers, raidQueue, nextEvent, raidsDeleted)

LEMMA RaidsSoundFollows == RaidIInv => RaidsSound
<1> SUFFICES ASSUME RaidIInv PROVE RaidsSound
  OBVIOUS
<1>1. RaidObjectsOK /\ RaidEvents \in [RaidNames -> Nat] /\ MaxReloads \in Nat
  BY RaidsAssumption DEF RaidIInv
<1>2. raidList \subseteq RaidObjects /\ raidsDeleted \subseteq RaidObjects
  BY <1>1 DEF RaidObjectsOK, LoadedRaids, RaidObjects
<1>3. \A r \in RaidObjects : nextEvent[r] \in 0..RaidEvents[r[1]]
  <2> SUFFICES ASSUME NEW r \in RaidObjects PROVE nextEvent[r] \in 0..RaidEvents[r[1]]
    OBVIOUS
  <2>1. r[1] \in RaidNames
    BY DEF RaidObjects
  <2>2. RaidEvents[r[1]] \in Nat /\ nextEvent[r] \in Nat /\ (nextEvent[r] = 0 \/ nextEvent[r] < RaidEvents[r[1]])
    BY <1>1, <2>1 DEF RaidObjectsOK
  <2>3. QED
    BY <2>2
<1>4. RaidTypeOK
  <2>1. {raidsStarted, raidOrphaned, raidUndefined} \subseteq BOOLEAN
    BY <1>1, Zenon DEF RaidObjectsOK
  <2>2. QED
    BY <1>1, <1>2, <1>3, <2>1 DEF RaidObjectsOK, RaidTypeOK
<1>5. QED
  BY <1>4, ChainsAreTasks DEF RaidIInv, RaidGoesOn, OneCheck, OnlyRunning, RaidsSound

LEMMA InitRaids == RaidInit => RaidIInv
<1> SUFFICES ASSUME RaidInit PROVE RaidIInv
  OBVIOUS
<1>0. MaxReloads \in Nat /\ CheckTask \notin RaidObjects /\ NoRaid \notin RaidObjects
  BY RaidsAssumption
<1>1. RaidObjectsOK
  <2>1. /\ raidTimers \in [RaidTask -> Nat] /\ raidQueue \in Seq(RaidTaskOwners)
        /\ nextEvent \in [RaidObjects -> Nat] /\ raidLoads \in 0..MaxReloads
    BY <1>0 DEF RaidInit
  <2>2. raidsStarted \in BOOLEAN /\ raidOrphaned \in BOOLEAN /\ raidUndefined \in BOOLEAN
    BY DEF RaidInit
  <2>3. QED
    BY <2>1, <2>2 DEF RaidInit, RaidObjectsOK
<1>2. \A w \in RaidTaskOwners : HowMany(raidQueue, w) = 0
  BY FS_EmptySet DEF RaidInit, HowMany
<1>3. ASSUME NEW w \in RaidTaskOwners
      PROVE  raidTimers[TaskOf(w, "stale")] = 0 /\ raidTimers[TaskOf(w, "latest")] = IF w = CheckTask THEN 1 ELSE 0
  BY TaskKinds DEF RaidInit
<1>4. \A w \in RaidTaskOwners : TasksOf(raidTimers, raidQueue, w) = IF w = CheckTask THEN 1 ELSE 0
  BY <1>2, <1>3 DEF TasksOf, Timed
<1>5. OnlyRunning(raidRunning, raidTimers, raidQueue, nextEvent, raidsDeleted)
  BY <1>0, <1>3, <1>4 DEF OnlyRunning, RaidInit, RaidTaskOwners
<1>6. OneCheck(raidTimers, raidQueue, raidsStarted)
  BY <1>4 DEF OneCheck, RaidInit, RaidTaskOwners
<1>7. QED
  BY <1>1, <1>5, <1>6 DEF RaidIInv, RaidGoesOn, RaidInit

-----------------------------------------------------------------------------
(* Raids: the steps. *)

LEMMA TasksNat ==
    ASSUME NEW T \in [RaidTask -> Nat], NEW q \in Seq(RaidTaskOwners), NEW w \in RaidTaskOwners
    PROVE  Timed(T, w) \in Nat /\ HowMany(q, w) \in Nat /\ TasksOf(T, q, w) \in Nat
<1>1. HowMany(q, w) \in Nat
  BY HowManyPushed
<1>2. Timed(T, w) \in Nat
  BY TaskKinds DEF Timed
<1>3. QED
  BY <1>1, <1>2 DEF TasksOf

LEMMA PoppedTasks ==
    ASSUME NEW T \in [RaidTask -> Nat], NEW q \in Seq(RaidTaskOwners), q # <<>>
    PROVE  /\ Tail(q) \in Seq(RaidTaskOwners) /\ Head(q) \in RaidTaskOwners
           /\ \A w \in RaidTaskOwners : TasksOf(T, q, w) = TasksOf(T, Tail(q), w) + (IF w = Head(q) THEN 1 ELSE 0)
<1>1. Tail(q) \in Seq(RaidTaskOwners) /\ Head(q) \in RaidTaskOwners
  OBVIOUS
<1>2. ASSUME NEW w \in RaidTaskOwners
      PROVE  TasksOf(T, q, w) = TasksOf(T, Tail(q), w) + (IF w = Head(q) THEN 1 ELSE 0)
  <2>1. HowMany(Tail(q), w) \in Nat /\ HowMany(q, w) = HowMany(Tail(q), w) + (IF w = Head(q) THEN 1 ELSE 0)
    BY HowManyPopped
  <2>2. Timed(T, w) \in Nat
    BY TasksNat
  <2>3. QED
    BY <2>1, <2>2 DEF TasksOf
<1>3. QED
  BY <1>1, <1>2

LEMMA ArmedTasks ==
    ASSUME NEW T \in [RaidTask -> Nat], NEW q \in Seq(RaidTaskOwners), NEW w \in RaidTaskOwners
    PROVE  \A v \in RaidTaskOwners : TasksOf(Armed(T, w), q, v) = TasksOf(T, q, v) + (IF v = w THEN 1 ELSE 0)
<1> SUFFICES ASSUME NEW v \in RaidTaskOwners
             PROVE  TasksOf(Armed(T, w), q, v) = TasksOf(T, q, v) + (IF v = w THEN 1 ELSE 0)
  OBVIOUS
<1>1. Timed(Armed(T, w), v) = Timed(T, v) + (IF v = w THEN 1 ELSE 0)
  BY ArmedTimers
<1>2. Timed(T, v) \in Nat /\ HowMany(q, v) \in Nat
  BY TasksNat
<1>3. QED
  BY <1>1, <1>2 DEF TasksOf

\* startRaid() of a raid of the list, when none is running.
LEMMA RaidStarted ==
    ASSUME RaidObjectsOK, NEW r \in raidList, NEW q \in Seq(RaidTaskOwners)
    PROVE  LET T == StartedRaid(raidTimers, r)
           IN  /\ r \in RaidObjects \ raidsDeleted
               /\ T \in [RaidTask -> Nat] /\ RaidGoesOn(r, T, q)
               /\ \A w \in RaidTaskOwners : w # r => TasksOf(T, q, w) = TasksOf(raidTimers, q, w)
               /\ OnlyRunning(NoRaid, raidTimers, q, nextEvent, raidsDeleted)
                     => OnlyRunning(r, T, q, nextEvent, raidsDeleted)
<1> DEFINE T == StartedRaid(raidTimers, r)
<1>0. /\ RaidEvents \in [RaidNames -> Nat] /\ NoRaid \notin RaidObjects /\ MaxReloads \in Nat
      /\ raidTimers \in [RaidTask -> Nat] /\ nextEvent \in [RaidObjects -> Nat]
  BY RaidsAssumption DEF RaidObjectsOK
<1>1. r \in RaidObjects \ raidsDeleted /\ r \in RaidTaskOwners /\ r[1] \in RaidNames
  <2>1. r \in RaidObjects /\ r[2] = raidLoads /\ raidLoads \in Nat
    BY <1>0 DEF RaidObjectsOK, LoadedRaids, RaidObjects
  <2>2. r \notin raidsDeleted
    BY <2>1 DEF RaidObjectsOK
  <2>3. QED
    BY <2>1, <2>2 DEF RaidObjects, RaidTaskOwners
<1>2. nextEvent[r] \in Nat /\ RaidEvents[r[1]] \in Nat /\ (nextEvent[r] = 0 \/ nextEvent[r] < RaidEvents[r[1]])
  BY <1>0, <1>1 DEF RaidObjectsOK
<1>3. CASE nextEvent[r] < RaidEvents[r[1]]
  <2>1. T = Armed(raidTimers, r)
    BY <1>3 DEF StartedRaid
  <2>2. T \in [RaidTask -> Nat]
    BY <1>0, <1>1, <2>1, ArmedTimers
  <2>3. \A w \in RaidTaskOwners : /\ TasksOf(T, q, w) = TasksOf(raidTimers, q, w) + (IF w = r THEN 1 ELSE 0)
                                  /\ TasksOf(raidTimers, q, w) \in Nat
    <3>1. \A w \in RaidTaskOwners : TasksOf(T, q, w) = TasksOf(raidTimers, q, w) + (IF w = r THEN 1 ELSE 0)
      BY <1>0, <1>1, <2>1, ArmedTasks
    <3>2. \A w \in RaidTaskOwners : TasksOf(raidTimers, q, w) \in Nat
      BY <1>0, TasksNat
    <3>3. QED
      BY <3>1, <3>2
  <2>4. \A w \in RaidTaskOwners : w # r => T[TaskOf(w, "stale")] = raidTimers[TaskOf(w, "stale")]
    BY <1>0, <1>1, <2>1, ArmedTimers
  <2>5. TasksOf(raidTimers, q, r) = 0 => T[TaskOf(r, "stale")] = 0
    <3>1. TasksOf(raidTimers, q, r) = 0 => Timed(raidTimers, r) = 0
      BY <1>0, <1>1, TasksNat DEF TasksOf
    <3>2. QED
      BY <1>0, <1>1, <2>1, <3>1, ArmedTimers
  <2> HIDE DEF T
  <2>6. RaidGoesOn(r, T, q)
    BY <1>1, <2>3 DEF RaidGoesOn
  <2>7. ASSUME OnlyRunning(NoRaid, raidTimers, q, nextEvent, raidsDeleted)
        PROVE  OnlyRunning(r, T, q, nextEvent, raidsDeleted)
    <3>1. \A o \in RaidObjects : TasksOf(raidTimers, q, o) = 0
      <4>1. \A o \in RaidObjects : o # NoRaid /\ o \in RaidTaskOwners
        BY <1>0 DEF RaidTaskOwners
      <4>2. \A o \in RaidObjects : TasksOf(raidTimers, q, o) <= 0
        BY <2>7, <4>1 DEF OnlyRunning
      <4>3. QED
        BY <2>3, <4>1, <4>2
    <3>2. \A w \in RaidTaskOwners : T[TaskOf(w, "stale")] = 0
      BY <1>1, <2>4, <2>5, <2>7, <3>1 DEF OnlyRunning
    <3>3. \A o \in RaidObjects : TasksOf(T, q, o) = IF o = r THEN 1 ELSE 0
      BY <2>3, <3>1 DEF RaidTaskOwners
    <3>4. \A o \in RaidObjects \ raidsDeleted : TasksOf(T, q, o) = 0 => nextEvent[o] = 0
      BY <2>7, <3>1 DEF OnlyRunning
    <3>5. QED
      BY <3>2, <3>3, <3>4 DEF OnlyRunning
  <2>8. QED
    BY <1>1, <2>2, <2>3, <2>6, <2>7 DEF T
<1>4. CASE ~(nextEvent[r] < RaidEvents[r[1]])
  <2>1. T = raidTimers
    BY <1>4 DEF StartedRaid
  <2>2. RaidEvents[r[1]] = 0
    BY <1>2, <1>4
  <2>3. ASSUME OnlyRunning(NoRaid, raidTimers, q, nextEvent, raidsDeleted)
        PROVE  OnlyRunning(r, raidTimers, q, nextEvent, raidsDeleted)
    <3>1. \A o \in RaidObjects : TasksOf(raidTimers, q, o) <= 0
      BY <1>0, <2>3 DEF OnlyRunning
    <3>2. \A o \in RaidObjects : TasksOf(raidTimers, q, o) \in Nat
      BY <1>0, TasksNat DEF RaidTaskOwners
    <3>3. QED
      BY <2>3, <3>1, <3>2 DEF OnlyRunning
  <2>4. QED
    BY <1>0, <1>1, <2>1, <2>2, <2>3 DEF RaidGoesOn
<1>5. QED
  BY <1>3, <1>4

\* The check is armed again.
LEMMA CheckArmed ==
    ASSUME NEW T \in [RaidTask -> Nat], NEW q \in Seq(RaidTaskOwners), NEW r \in RaidObjects \cup {NoRaid},
           NEW next, NEW gone \in SUBSET RaidObjects
    PROVE  LET U == Armed(T, CheckTask)
           IN  /\ U \in [RaidTask -> Nat]
               /\ RaidGoesOn(r, T, q) => RaidGoesOn(r, U, q)
               /\ OnlyRunning(r, T, q, next, gone) /\ TasksOf(T, q, CheckTask) = 0 =>
                     OnlyRunning(r, U, q, next, gone) /\ TasksOf(U, q, CheckTask) = 1
<1> DEFINE U == Armed(T, CheckTask)
<1>0. CheckTask \notin RaidObjects /\ CheckTask \in RaidTaskOwners /\ RaidObjects \subseteq RaidTaskOwners
  BY RaidsAssumption DEF RaidTaskOwners
<1>1. /\ U \in [RaidTask -> Nat]
      /\ \A v \in RaidTaskOwners : Timed(T, v) = 0 /\ v = CheckTask => U[TaskOf(v, "stale")] = 0
      /\ \A v \in RaidTaskOwners : v # CheckTask => U[TaskOf(v, "stale")] = T[TaskOf(v, "stale")]
  BY <1>0, ArmedTimers
<1>2. \A v \in RaidTaskOwners : TasksOf(U, q, v) = TasksOf(T, q, v) + (IF v = CheckTask THEN 1 ELSE 0)
  BY <1>0, ArmedTasks
<1>3. \A v \in RaidTaskOwners : TasksOf(T, q, v) \in Nat /\ (TasksOf(T, q, v) = 0 => Timed(T, v) = 0)
  BY TasksNat DEF TasksOf
<1> HIDE DEF U
<1>4. \A o \in RaidObjects : TasksOf(U, q, o) = TasksOf(T, q, o)
  BY <1>0, <1>2, <1>3
<1>5. RaidGoesOn(r, T, q) => RaidGoesOn(r, U, q)
  BY <1>4 DEF RaidGoesOn
<1>6. ASSUME OnlyRunning(r, T, q, next, gone), TasksOf(T, q, CheckTask) = 0
      PROVE  OnlyRunning(r, U, q, next, gone) /\ TasksOf(U, q, CheckTask) = 1
  <2>1. \A w \in RaidTaskOwners : U[TaskOf(w, "stale")] = 0
    BY <1>0, <1>1, <1>3, <1>6 DEF OnlyRunning
  <2>2. TasksOf(U, q, CheckTask) = 1
    BY <1>0, <1>2, <1>6
  <2>3. QED
    BY <1>4, <1>6, <2>1, <2>2 DEF OnlyRunning
<1>7. QED
  BY <1>1, <1>5, <1>6 DEF U

\* A task of the check is taken from the queue: nothing changes for the raids.
LEMMA CheckPopped ==
    ASSUME NEW T \in [RaidTask -> Nat], NEW q \in Seq(RaidTaskOwners), q # <<>>, Head(q) = CheckTask,
           NEW r \in RaidObjects \cup {NoRaid}, NEW next, NEW gone \in SUBSET RaidObjects
    PROVE  /\ Tail(q) \in Seq(RaidTaskOwners)
           /\ RaidGoesOn(r, T, q) => RaidGoesOn(r, T, Tail(q))
           /\ OnlyRunning(r, T, q, next, gone) => OnlyRunning(r, T, Tail(q), next, gone)
           /\ TasksOf(T, q, CheckTask) <= 1 => TasksOf(T, q, CheckTask) = 1 /\ TasksOf(T, Tail(q), CheckTask) = 0
<1>0. CheckTask \notin RaidObjects /\ CheckTask \in RaidTaskOwners /\ RaidObjects \subseteq RaidTaskOwners
  BY RaidsAssumption DEF RaidTaskOwners
<1>1. /\ Tail(q) \in Seq(RaidTaskOwners)
      /\ \A w \in RaidTaskOwners : TasksOf(T, q, w) = TasksOf(T, Tail(q), w) + (IF w = CheckTask THEN 1 ELSE 0)
  BY PoppedTasks
<1>2. \A w \in RaidTaskOwners : TasksOf(T, Tail(q), w) \in Nat
  BY <1>1, TasksNat
<1>3. \A o \in RaidObjects : TasksOf(T, Tail(q), o) = TasksOf(T, q, o)
  BY <1>0, <1>1, <1>2
<1>4. TasksOf(T, q, CheckTask) <= 1 => TasksOf(T, q, CheckTask) = 1 /\ TasksOf(T, Tail(q), CheckTask) = 0
  BY <1>0, <1>1, <1>2
<1>5. RaidGoesOn(r, T, q) => RaidGoesOn(r, T, Tail(q))
  BY <1>3 DEF RaidGoesOn
<1>6. OnlyRunning(r, T, q, next, gone) => OnlyRunning(r, T, Tail(q), next, gone)
  BY <1>3 DEF OnlyRunning
<1>7. QED
  BY <1>1, <1>4, <1>5, <1>6

LEMMA RaidTimerFiresOK ==
    ASSUME RaidIInv, NEW t \in RaidTask, RaidTimerFires(t)
    PROVE  RaidIInv'
<1> DEFINE T == raidTimers
           U == [T EXCEPT ![t] = @ - 1]
           q == raidQueue
           p == <<t.of>> \o q
<1>0. T \in [RaidTask -> Nat] /\ q \in Seq(RaidTaskOwners) /\ T[t] > 0
  BY DEF RaidIInv, RaidObjectsOK, RaidTimerFires
<1>1. raidTimers' = U /\ raidQueue' = p
  BY DEF RaidTimerFires
<1>2. /\ U \in [RaidTask -> Nat]
      /\ \A v \in RaidTaskOwners : Timed(T, v) = Timed(U, v) + (IF v = t.of THEN 1 ELSE 0)
      /\ \A s \in RaidTask : U[s] <= T[s]
  BY <1>0, FiredTimers
<1>3. t.of \in RaidTaskOwners
  BY TaskKinds
<1>4. p \in Seq(RaidTaskOwners)
  BY <1>0, <1>3, ConcatProperties
<1>5. \A v \in RaidTaskOwners : HowMany(p, v) = HowMany(q, v) + (IF v = t.of THEN 1 ELSE 0)
  BY <1>0, <1>3, HowManyPushed
<1>6. \A v \in RaidTaskOwners : Timed(U, v) \in Nat /\ HowMany(q, v) \in Nat
  BY <1>0, <1>2, TasksNat
<1> HIDE DEF T, U, q, p
<1>7. \A v \in RaidTaskOwners : TasksOf(U, p, v) = TasksOf(T, q, v)
  BY <1>2, <1>5, <1>6 DEF TasksOf
<1>8. \A w \in RaidTaskOwners : T[TaskOf(w, "stale")] = 0 => U[TaskOf(w, "stale")] = 0
  <2> SUFFICES ASSUME NEW w \in RaidTaskOwners, T[TaskOf(w, "stale")] = 0 PROVE U[TaskOf(w, "stale")] = 0
    OBVIOUS
  <2>1. TaskOf(w, "stale") \in RaidTask
    BY TaskKinds
  <2>2. QED
    BY <1>2, <2>1
<1>9. RaidObjectsOK'
  BY <1>1, <1>2, <1>4 DEF RaidIInv, RaidObjectsOK, RaidTimerFires
<1>10. /\ RaidGoesOn(raidRunning, T, q) => RaidGoesOn(raidRunning, U, p)
       /\ OneCheck(T, q, raidsStarted) => OneCheck(U, p, raidsStarted)
       /\ OnlyRunning(raidRunning, T, q, nextEvent, raidsDeleted) => OnlyRunning(raidRunning, U, p, nextEvent, raidsDeleted)
  <2>1. raidRunning # NoRaid => raidRunning \in RaidTaskOwners
    BY DEF RaidIInv, RaidObjectsOK, RaidTaskOwners
  <2>2. RaidObjects \subseteq RaidTaskOwners /\ CheckTask \in RaidTaskOwners
    BY DEF RaidTaskOwners
  <2>3. RaidGoesOn(raidRunning, T, q) => RaidGoesOn(raidRunning, U, p)
    BY <1>7, <2>1 DEF RaidGoesOn
  <2>4. OneCheck(T, q, raidsStarted) => OneCheck(U, p, raidsStarted)
    BY <1>7, <2>2 DEF OneCheck
  <2>5. OnlyRunning(raidRunning, T, q, nextEvent, raidsDeleted) => OnlyRunning(raidRunning, U, p, nextEvent, raidsDeleted)
    BY <1>7, <1>8, <2>2 DEF OnlyRunning
  <2>6. QED
    BY <2>3, <2>4, <2>5
<1>11. QED
  BY <1>1, <1>9, <1>10 DEF RaidIInv, RaidTimerFires, T, q

LEMMA CheckRaidsOK ==
    ASSUME RaidIInv, NEW picked \in raidList \cup {NoRaid}, CheckRaids(picked)
    PROVE  RaidIInv'
<1> DEFINE T == raidTimers
           q == Tail(raidQueue)
<1>0. /\ RaidObjectsOK /\ T \in [RaidTask -> Nat] /\ raidQueue \in Seq(RaidTaskOwners)
      /\ raidsDeleted \in SUBSET RaidObjects /\ raidRunning \in RaidObjects \cup {NoRaid}
      /\ NoRaid \notin RaidObjects
  BY RaidsAssumption DEF RaidIInv, RaidObjectsOK
<1>1. /\ raidQueue # <<>> /\ Head(raidQueue) = CheckTask /\ raidQueue' = q
      /\ UNCHANGED <<raidsDeleted, nextEvent, raidsStarted, raidLoads, raidOrphaned, raidUndefined>>
  BY DEF CheckRaids
<1>2. /\ q \in Seq(RaidTaskOwners)
      /\ \A r \in RaidObjects \cup {NoRaid} :
            /\ RaidGoesOn(r, T, raidQueue) => RaidGoesOn(r, T, q)
            /\ OnlyRunning(r, T, raidQueue, nextEvent, raidsDeleted) => OnlyRunning(r, T, q, nextEvent, raidsDeleted)
      /\ TasksOf(T, raidQueue, CheckTask) <= 1 => TasksOf(T, raidQueue, CheckTask) = 1 /\ TasksOf(T, q, CheckTask) = 0
  BY <1>0, <1>1, CheckPopped
<1>3. ~raidOrphaned => /\ raidsStarted /\ TasksOf(T, q, CheckTask) = 0 /\ ~raidUndefined
                       /\ OnlyRunning(raidRunning, T, q, nextEvent, raidsDeleted)
  <2> SUFFICES ASSUME ~raidOrphaned
               PROVE  /\ raidsStarted /\ TasksOf(T, q, CheckTask) = 0 /\ ~raidUndefined
                      /\ OnlyRunning(raidRunning, T, q, nextEvent, raidsDeleted)
    OBVIOUS
  <2>1. /\ ~raidUndefined /\ TasksOf(T, raidQueue, CheckTask) = IF raidsStarted THEN 1 ELSE 0
        /\ OnlyRunning(raidRunning, T, raidQueue, nextEvent, raidsDeleted)
    BY DEF RaidIInv, OneCheck
  <2> HIDE DEF T, q
  <2>2. QED
    BY <1>0, <1>2, <2>1
<1>4. CASE picked = NoRaid /\ raidTimers' = Armed(T, CheckTask) /\ UNCHANGED <<raidList, raidRunning>>
  <2> DEFINE U == Armed(T, CheckTask)
  <2>1. /\ U \in [RaidTask -> Nat]
        /\ RaidGoesOn(raidRunning, T, q) => RaidGoesOn(raidRunning, U, q)
        /\ OnlyRunning(raidRunning, T, q, nextEvent, raidsDeleted) /\ TasksOf(T, q, CheckTask) = 0 =>
              OnlyRunning(raidRunning, U, q, nextEvent, raidsDeleted) /\ TasksOf(U, q, CheckTask) = 1
    BY <1>0, <1>2, CheckArmed
  <2>2. RaidGoesOn(raidRunning, T, raidQueue)
    BY DEF RaidIInv
  <2> HIDE DEF U, T, q
  <2>3. RaidObjectsOK'
    BY <1>0, <1>1, <1>2, <1>4, <2>1 DEF RaidObjectsOK, U
  <2>4. RaidGoesOn(raidRunning, U, q)
    BY <1>0, <1>2, <2>1, <2>2
  <2>5. ~raidOrphaned => /\ OnlyRunning(raidRunning, U, q, nextEvent, raidsDeleted)
                         /\ OneCheck(U, q, raidsStarted) /\ ~raidUndefined
    BY <1>3, <2>1 DEF OneCheck
  <2>6. QED
    BY <1>1, <1>4, <2>3, <2>4, <2>5 DEF RaidIInv, U
<1>5. CASE /\ picked \in raidList /\ raidRunning = NoRaid /\ raidRunning' = picked
           /\ raidTimers' = Armed(StartedRaid(T, picked), CheckTask)
           /\ raidList' = IF picked[1] \in Repeatable THEN raidList ELSE raidList \ {picked}
  <2> DEFINE S == StartedRaid(T, picked)
             U == Armed(S, CheckTask)
  <2>1. /\ picked \in RaidObjects \ raidsDeleted
        /\ S \in [RaidTask -> Nat] /\ RaidGoesOn(picked, S, q)
        /\ \A w \in RaidTaskOwners : w # picked => TasksOf(S, q, w) = TasksOf(T, q, w)
        /\ OnlyRunning(NoRaid, T, q, nextEvent, raidsDeleted) => OnlyRunning(picked, S, q, nextEvent, raidsDeleted)
    BY <1>0, <1>2, <1>5, RaidStarted
  <2> HIDE DEF S
  <2>2. /\ U \in [RaidTask -> Nat]
        /\ RaidGoesOn(picked, S, q) => RaidGoesOn(picked, U, q)
        /\ OnlyRunning(picked, S, q, nextEvent, raidsDeleted) /\ TasksOf(S, q, CheckTask) = 0 =>
              OnlyRunning(picked, U, q, nextEvent, raidsDeleted) /\ TasksOf(U, q, CheckTask) = 1
    BY <1>0, <1>2, <2>1, CheckArmed
  <2>3. CheckTask # picked /\ CheckTask \in RaidTaskOwners
    BY <2>1, RaidsAssumption DEF RaidTaskOwners
  <2> HIDE DEF U, T, q
  <2>4. RaidObjectsOK'
    <3>1. raidTimers' \in [RaidTask -> Nat] /\ raidQueue' \in Seq(RaidTaskOwners) /\ raidList' \subseteq raidList
      BY <1>1, <1>2, <1>5, <2>2 DEF U, S
    <3>2. QED
      BY <1>0, <1>1, <1>5, <2>1, <3>1 DEF RaidObjectsOK
  <2>5. RaidGoesOn(picked, U, q)
    BY <2>1, <2>2
  <2>6. ~raidOrphaned => /\ OnlyRunning(picked, U, q, nextEvent, raidsDeleted)
                         /\ OneCheck(U, q, raidsStarted) /\ ~raidUndefined
    BY <1>3, <1>5, <2>1, <2>2, <2>3 DEF OneCheck
  <2>7. QED
    BY <1>1, <1>5, <2>4, <2>5, <2>6 DEF RaidIInv, U, S
<1>6. QED
  BY <1>4, <1>5 DEF CheckRaids

LEMMA ScriptStartsRaid ==
    ASSUME RaidIInv, NEW r \in raidList, luaGameStartRaid(r)
    PROVE  RaidIInv'
<1> DEFINE T == raidTimers
           q == raidQueue
           S == StartedRaid(T, r)
<1>0. RaidObjectsOK /\ q \in Seq(RaidTaskOwners) /\ T \in [RaidTask -> Nat]
  BY DEF RaidIInv, RaidObjectsOK
<1>1. /\ raidRunning = NoRaid /\ raidRunning' = r /\ raidTimers' = S
      /\ UNCHANGED <<raidList, raidsDeleted, nextEvent, raidsStarted, raidQueue, raidLoads, raidOrphaned, raidUndefined>>
  BY DEF luaGameStartRaid
<1>2. /\ r \in RaidObjects \ raidsDeleted
      /\ S \in [RaidTask -> Nat] /\ RaidGoesOn(r, S, q)
      /\ \A w \in RaidTaskOwners : w # r => TasksOf(S, q, w) = TasksOf(T, q, w)
      /\ OnlyRunning(NoRaid, T, q, nextEvent, raidsDeleted) => OnlyRunning(r, S, q, nextEvent, raidsDeleted)
  BY <1>0, RaidStarted
<1>3. CheckTask # r /\ CheckTask \in RaidTaskOwners
  BY <1>2, RaidsAssumption DEF RaidTaskOwners
<1>4. ~raidOrphaned => /\ ~raidUndefined /\ OneCheck(T, q, raidsStarted)
                       /\ OnlyRunning(NoRaid, T, q, nextEvent, raidsDeleted)
  BY <1>1 DEF RaidIInv
<1> HIDE DEF T, q, S
<1>5. ~raidOrphaned => /\ ~raidUndefined /\ OneCheck(S, q, raidsStarted)
                       /\ OnlyRunning(r, S, q, nextEvent, raidsDeleted)
  BY <1>2, <1>3, <1>4 DEF OneCheck
<1>6. RaidObjectsOK'
  BY <1>0, <1>1, <1>2 DEF RaidObjectsOK
<1>7. QED
  BY <1>1, <1>2, <1>5, <1>6 DEF RaidIInv, q

LEMMA ExecuteRaidEventOK ==
    ASSUME RaidIInv, NEW ok \in BOOLEAN, ExecuteRaidEvent(ok)
    PROVE  RaidIInv'
<1> DEFINE T == raidTimers
           q == Tail(raidQueue)
           r == Head(raidQueue)
<1>0. /\ RaidObjectsOK /\ T \in [RaidTask -> Nat] /\ raidQueue \in Seq(RaidTaskOwners)
      /\ nextEvent \in [RaidObjects -> Nat] /\ raidRunning \in (RaidObjects \ raidsDeleted) \cup {NoRaid}
      /\ NoRaid \notin RaidObjects /\ CheckTask \notin RaidObjects
      /\ RaidObjects \subseteq RaidTaskOwners /\ CheckTask \in RaidTaskOwners
  BY RaidsAssumption DEF RaidIInv, RaidObjectsOK, RaidTaskOwners
<1>1. /\ raidQueue # <<>> /\ r \in RaidObjects \ raidsDeleted /\ raidQueue' = q
      /\ UNCHANGED <<raidList, raidsDeleted, raidsStarted, raidLoads, raidOrphaned, raidUndefined>>
  BY DEF ExecuteRaidEvent
<1>2. /\ q \in Seq(RaidTaskOwners)
      /\ \A w \in RaidTaskOwners : TasksOf(T, raidQueue, w) = TasksOf(T, q, w) + (IF w = r THEN 1 ELSE 0)
  BY <1>0, <1>1, PoppedTasks
<1>3. \A w \in RaidTaskOwners : /\ TasksOf(T, q, w) \in Nat /\ Timed(T, w) \in Nat
                                /\ TasksOf(T, q, w) = 0 => Timed(T, w) = 0
  <2> SUFFICES ASSUME NEW w \in RaidTaskOwners
               PROVE  /\ TasksOf(T, q, w) \in Nat /\ Timed(T, w) \in Nat
                      /\ TasksOf(T, q, w) = 0 => Timed(T, w) = 0
    OBVIOUS
  <2>1. Timed(T, w) \in Nat /\ HowMany(q, w) \in Nat
    BY <1>0, <1>2, TasksNat
  <2>2. QED
    BY <2>1 DEF TasksOf
<1>4. /\ RaidGoesOn(raidRunning, T, raidQueue)
      /\ ~raidOrphaned => /\ ~raidUndefined /\ OneCheck(T, raidQueue, raidsStarted)
                          /\ OnlyRunning(raidRunning, T, raidQueue, nextEvent, raidsDeleted)
  BY DEF RaidIInv
<1> HIDE DEF T, q, r

\* Without orphans the task was the only one, and that of the running raid.
<1>5. ASSUME ~raidOrphaned
      PROVE  /\ raidRunning = r /\ TasksOf(T, q, r) = 0
             /\ \A o \in RaidObjects : o # r => TasksOf(T, q, o) = 0
  <2>1. \A o \in RaidObjects : TasksOf(T, raidQueue, o) <= IF raidRunning = o THEN 1 ELSE 0
    BY <1>4, <1>5 DEF OnlyRunning
  <2>2. raidRunning = r /\ TasksOf(T, q, r) = 0
    BY <1>0, <1>1, <1>2, <1>3, <2>1
  <2>3. ASSUME NEW o \in RaidObjects, o # r PROVE TasksOf(T, q, o) = 0
    BY <1>0, <1>1, <1>2, <1>3, <2>1, <2>2, <2>3
  <2>4. QED
    BY <2>2, <2>3
<1>6. CASE nextEvent' = [nextEvent EXCEPT ![r] = 0] /\ raidRunning' = NoRaid /\ raidTimers' = T
  <2>1. /\ nextEvent' \in [RaidObjects -> Nat] /\ nextEvent'[r] = 0
        /\ \A o \in RaidObjects : o # r => nextEvent'[o] = nextEvent[o]
    BY <1>0, <1>1, <1>6
  <2>2. RaidObjectsOK'
    <3>1. \A o \in RaidObjects : nextEvent'[o] = 0 \/ nextEvent'[o] < RaidEvents[o[1]]
      BY <1>0, <2>1 DEF RaidObjectsOK
    <3>2. QED
      BY <1>0, <1>1, <1>2, <1>6, <2>1, <3>1 DEF RaidObjectsOK
  <2>3. ASSUME ~raidOrphaned
        PROVE  OneCheck(T, q, raidsStarted) /\ OnlyRunning(NoRaid, T, q, nextEvent', raidsDeleted)
    <3>1. OneCheck(T, q, raidsStarted)
      <4>1. TasksOf(T, q, CheckTask) = TasksOf(T, raidQueue, CheckTask)
        <5>1. CheckTask # r /\ CheckTask \in RaidTaskOwners
          BY <1>0, <1>1
        <5>2. TasksOf(T, raidQueue, CheckTask) = TasksOf(T, q, CheckTask) + 0
          BY <1>2, <5>1
        <5>3. TasksOf(T, q, CheckTask) \in Nat
          BY <1>3, <5>1
        <5>4. QED
          BY <5>2, <5>3
      <4>2. OneCheck(T, raidQueue, raidsStarted)
        BY <1>4, <2>3
      <4>3. QED
        BY <4>1, <4>2 DEF OneCheck
    <3>2. \A o \in RaidObjects : TasksOf(T, q, o) = 0
      BY <1>5, <2>3
    <3>3. \A o \in RaidObjects \ raidsDeleted : nextEvent'[o] = 0
      <4> SUFFICES ASSUME NEW o \in RaidObjects \ raidsDeleted, o # r PROVE nextEvent'[o] = 0
        BY <2>1
      <4>1. TasksOf(T, raidQueue, o) = 0
        BY <1>0, <1>2, <3>2
      <4>2. QED
        BY <1>4, <2>1, <2>3, <4>1 DEF OnlyRunning
    <3>4. \A w \in RaidTaskOwners : T[TaskOf(w, "stale")] = 0
      BY <1>4, <2>3 DEF OnlyRunning
    <3>5. OnlyRunning(NoRaid, T, q, nextEvent', raidsDeleted)
      BY <1>0, <3>2, <3>3, <3>4 DEF OnlyRunning
    <3>6. QED
      BY <3>1, <3>5
  <2>4. RaidGoesOn(NoRaid, T, q)
    BY DEF RaidGoesOn
  <2>5. QED
    BY <1>1, <1>4, <1>6, <2>2, <2>3, <2>4 DEF RaidIInv
<1>7. CASE /\ ~RaidEnds(r, ok) /\ nextEvent' = [nextEvent EXCEPT ![r] = @ + 1]
           /\ raidTimers' = (IF ok THEN Armed(T, r) ELSE T) /\ raidRunning' = raidRunning
  <2> DEFINE U == Armed(T, r)
  <2>1. ok /\ ~(nextEvent[r] + 1 >= RaidEvents[r[1]])
    BY <1>7 DEF RaidEnds
  <2>2. raidTimers' = U
    BY <1>7, <2>1
  <2>3. /\ nextEvent' \in [RaidObjects -> Nat] /\ nextEvent'[r] = nextEvent[r] + 1
        /\ \A o \in RaidObjects : o # r => nextEvent'[o] = nextEvent[o]
    BY <1>0, <1>1, <1>7
  <2>4. /\ U \in [RaidTask -> Nat]
        /\ \A v \in RaidTaskOwners : Timed(T, v) = 0 /\ v = r => U[TaskOf(v, "stale")] = 0
        /\ \A v \in RaidTaskOwners : v # r => U[TaskOf(v, "stale")] = T[TaskOf(v, "stale")]
    BY <1>0, <1>1, ArmedTimers
  <2>5. \A v \in RaidTaskOwners : TasksOf(U, q, v) = TasksOf(T, q, v) + (IF v = r THEN 1 ELSE 0)
    BY <1>0, <1>1, <1>2, ArmedTasks
  <2> HIDE DEF U
  <2>6. \A v \in RaidTaskOwners : TasksOf(U, q, v) = TasksOf(T, raidQueue, v)
    BY <1>2, <2>5
  <2>7. RaidObjectsOK'
    <3>1. RaidEvents \in [RaidNames -> Nat] /\ r[1] \in RaidNames
      BY <1>1, RaidsAssumption DEF RaidObjects
    <3>2. nextEvent[r] \in Nat /\ RaidEvents[r[1]] \in Nat
      BY <1>0, <1>1, <3>1
    <3>3. \A o \in RaidObjects : nextEvent'[o] = 0 \/ nextEvent'[o] < RaidEvents[o[1]]
      BY <1>0, <2>1, <2>3, <3>2 DEF RaidObjectsOK
    <3>4. QED
      BY <1>0, <1>1, <1>2, <1>7, <2>2, <2>3, <2>4, <3>3 DEF RaidObjectsOK
  <2>8. RaidGoesOn(raidRunning, U, q)
    BY <1>0, <1>4, <2>6 DEF RaidGoesOn
  <2>9. ASSUME ~raidOrphaned
        PROVE  OneCheck(U, q, raidsStarted) /\ OnlyRunning(raidRunning, U, q, nextEvent', raidsDeleted)
    <3>1. OneCheck(U, q, raidsStarted)
      BY <1>0, <1>4, <2>6, <2>9 DEF OneCheck
    <3>2. \A w \in RaidTaskOwners : U[TaskOf(w, "stale")] = 0
      <4>1. Timed(T, r) = 0
        BY <1>0, <1>1, <1>3, <1>5, <2>9
      <4>2. QED
        BY <1>4, <2>4, <2>9, <4>1 DEF OnlyRunning
    <3>3. \A o \in RaidObjects \ raidsDeleted : TasksOf(U, q, o) = 0 => nextEvent'[o] = 0
      <4> SUFFICES ASSUME NEW o \in RaidObjects \ raidsDeleted, TasksOf(U, q, o) = 0 PROVE nextEvent'[o] = 0
        OBVIOUS
      <4>1. o # r /\ TasksOf(T, raidQueue, o) = 0
        BY <1>0, <1>3, <2>5, <2>6
      <4>2. QED
        BY <1>4, <2>3, <2>9, <4>1 DEF OnlyRunning
    <3>4. \A o \in RaidObjects : TasksOf(U, q, o) <= IF raidRunning = o THEN 1 ELSE 0
      BY <1>0, <1>4, <2>6, <2>9 DEF OnlyRunning
    <3>5. QED
      BY <3>1, <3>2, <3>3, <3>4 DEF OnlyRunning
  <2>10. QED
    BY <1>1, <1>4, <1>7, <2>2, <2>7, <2>8, <2>9 DEF RaidIInv
<1>8. QED
  BY <1>6, <1>7 DEF ExecuteRaidEvent, T, r

LEMMA ExecuteDeletedOK ==
    ASSUME RaidIInv, ExecuteDeleted
    PROVE  RaidIInv'
<1>0. /\ RaidObjectsOK /\ raidTimers \in [RaidTask -> Nat] /\ raidQueue \in Seq(RaidTaskOwners)
      /\ raidRunning \notin raidsDeleted /\ raidsDeleted \subseteq RaidObjects
      /\ RaidObjects \subseteq RaidTaskOwners
  BY RaidsAssumption DEF RaidIInv, RaidObjectsOK, RaidTaskOwners
<1>1. /\ raidQueue # <<>> /\ Head(raidQueue) \in raidsDeleted /\ raidUndefined' = TRUE
      /\ UNCHANGED <<raidList, raidsDeleted, nextEvent, raidRunning, raidsStarted,
                     raidTimers, raidQueue, raidLoads, raidOrphaned>>
  BY DEF ExecuteDeleted
<1>2. raidOrphaned
  <2> SUFFICES ASSUME ~raidOrphaned PROVE FALSE
    BY DEF RaidIInv, RaidObjectsOK
  <2>1. TasksOf(raidTimers, raidQueue, Head(raidQueue)) <= 0
    BY <1>0, <1>1 DEF RaidIInv, OnlyRunning
  <2>2. /\ Tail(raidQueue) \in Seq(RaidTaskOwners)
        /\ TasksOf(raidTimers, raidQueue, Head(raidQueue)) = TasksOf(raidTimers, Tail(raidQueue), Head(raidQueue)) + 1
    BY <1>0, <1>1, PoppedTasks
  <2>3. TasksOf(raidTimers, Tail(raidQueue), Head(raidQueue)) \in Nat
    BY <1>0, <1>1, <2>2, TasksNat
  <2>4. QED
    BY <2>1, <2>2, <2>3
<1>3. RaidObjectsOK'
  BY <1>0, <1>1 DEF RaidObjectsOK
<1>4. QED
  BY <1>1, <1>2, <1>3 DEF RaidIInv

LEMMA ReloadRaidsOK ==
    ASSUME RaidIInv, NEW readable \in BOOLEAN, ReloadRaids(readable)
    PROVE  RaidIInv'
<1> DEFINE T == raidTimers
           C == ClearedTimers(T)
           all == raidList \cup {CheckTask}
<1>0. /\ RaidObjectsOK /\ T \in [RaidTask -> Nat] /\ raidQueue \in Seq(RaidTaskOwners)
      /\ CheckTask \notin RaidObjects /\ NoRaid \notin RaidObjects /\ MaxReloads \in Nat
      /\ RaidObjects \subseteq RaidTaskOwners /\ CheckTask \in RaidTaskOwners
  BY RaidsAssumption DEF RaidIInv, RaidObjectsOK, RaidTaskOwners
<1>1. /\ raidLoads < MaxReloads /\ raidLoads' = raidLoads + 1
      /\ raidsDeleted' = raidsDeleted \cup raidList
      /\ raidList' = (IF readable THEN LoadedRaids(raidLoads + 1) ELSE {})
      /\ raidsStarted' = readable /\ raidRunning' = NoRaid
      /\ raidTimers' = (IF readable THEN Armed(C, CheckTask) ELSE C)
      /\ nextEvent' = nextEvent /\ raidQueue' = raidQueue /\ raidUndefined' = raidUndefined
  BY DEF ReloadRaids
<1>2. /\ raidOrphaned' \in BOOLEAN
      /\ ~raidOrphaned' => /\ ~raidOrphaned /\ raidQueue = <<>>
                           /\ \A t \in RaidTask : T[t] > 0 => t.of \in all
  BY Zenon DEF ReloadRaids
<1>3. C = [t \in RaidTask |-> IF t.of \in all /\ t.id = "latest" THEN 0 ELSE T[t]]
  BY DEF ClearedTimers, Stopped
<1>4. C \in [RaidTask -> Nat]
  BY <1>0, <1>3
<1> HIDE DEF C, T, all
<1>5. raidTimers' \in [RaidTask -> Nat]
  BY <1>0, <1>1, <1>4, ArmedTimers
<1>6. RaidObjectsOK'
  <2>1. raidLoads \in Nat /\ raidLoads' \in 0..MaxReloads
    BY <1>0, <1>1 DEF RaidObjectsOK
  <2>2. raidList' \subseteq LoadedRaids(raidLoads')
    BY <1>1
  <2>3. raidsDeleted' \subseteq {o \in RaidObjects : o[2] < raidLoads'}
    <3>1. \A o \in raidsDeleted : o \in RaidObjects /\ o[2] < raidLoads /\ o[2] \in Nat
      BY <1>0 DEF RaidObjectsOK, RaidObjects
    <3>2. \A o \in raidList : o \in RaidObjects /\ o[2] = raidLoads
      BY <1>0 DEF RaidObjectsOK, LoadedRaids, RaidObjects
    <3>3. QED
      BY <1>1, <2>1, <3>1, <3>2
  <2>4. raidsStarted' \in BOOLEAN /\ raidUndefined' \in BOOLEAN
    BY <1>0, <1>1 DEF RaidObjectsOK
  <2>5. QED
    BY <1>0, <1>1, <1>2, <1>5, <2>1, <2>2, <2>3, <2>4 DEF RaidObjectsOK
<1>7. RaidGoesOn(raidRunning', raidTimers', raidQueue')
  BY <1>1 DEF RaidGoesOn
<1>8. ASSUME ~raidOrphaned'
      PROVE  /\ ~raidUndefined' /\ OneCheck(raidTimers', raidQueue', raidsStarted')
             /\ OnlyRunning(raidRunning', raidTimers', raidQueue', nextEvent', raidsDeleted')
  <2>1. /\ ~raidUndefined
        /\ OnlyRunning(raidRunning, T, raidQueue, nextEvent, raidsDeleted)
    BY <1>2, <1>8 DEF RaidIInv, T
  <2>2. raidQueue = <<>> /\ \A t \in RaidTask : T[t] > 0 => t.of \in all
    BY <1>2, <1>8
  <2>3. \A w \in RaidTaskOwners : HowMany(raidQueue, w) = 0
    BY <2>2, FS_EmptySet DEF HowMany
  <2>4. ASSUME NEW w \in RaidTaskOwners
        PROVE  C[TaskOf(w, "latest")] = 0 /\ C[TaskOf(w, "stale")] = 0
    <3>1. /\ TaskOf(w, "latest") \in RaidTask /\ TaskOf(w, "stale") \in RaidTask
          /\ TaskOf(w, "latest").of = w /\ TaskOf(w, "latest").id = "latest" /\ TaskOf(w, "stale").id = "stale"
      BY TaskKinds
    <3>2. C[TaskOf(w, "stale")] = T[TaskOf(w, "stale")]
      BY <1>3, <3>1
    <3>3. T[TaskOf(w, "stale")] = 0
      BY <2>1 DEF OnlyRunning
    <3>4. CASE w \in all
      BY <1>3, <3>1, <3>2, <3>3, <3>4
    <3>5. CASE w \notin all
      <4>1. ~(T[TaskOf(w, "latest")] > 0) /\ T[TaskOf(w, "latest")] \in Nat
        BY <1>0, <2>2, <3>1, <3>5
      <4>2. C[TaskOf(w, "latest")] = T[TaskOf(w, "latest")]
        BY <1>3, <3>1, <3>5
      <4>3. QED
        BY <3>2, <3>3, <4>1, <4>2
    <3>6. QED
      BY <3>4, <3>5
  <2>5. \A w \in RaidTaskOwners : TasksOf(C, raidQueue, w) = 0
    BY <2>3, <2>4 DEF TasksOf, Timed
  \* A raid of an earlier list that was not running has not begun.
  <2>6. ASSUME NEW o \in RaidObjects \ raidsDeleted' PROVE nextEvent[o] = 0
    <3>1. o \in RaidTaskOwners /\ o \notin all /\ o \notin raidsDeleted
      BY <1>0, <1>1 DEF all
    <3>2. \A t \in RaidTask : t.of = o => T[t] = 0
      BY <1>0, <2>2, <3>1
    <3>3. T[TaskOf(o, "latest")] = 0 /\ T[TaskOf(o, "stale")] = 0
      BY <3>1, <3>2, TaskKinds
    <3>4. TasksOf(T, raidQueue, o) = 0
      BY <2>3, <3>1, <3>3 DEF TasksOf, Timed
    <3>5. QED
      BY <2>1, <3>1, <3>4 DEF OnlyRunning
  <2>7. OnlyRunning(NoRaid, C, raidQueue, nextEvent, raidsDeleted')
    BY <1>0, <2>4, <2>5, <2>6 DEF OnlyRunning
  <2>8. CASE readable
    <3>1. raidsDeleted' \in SUBSET RaidObjects
      BY <1>6 DEF RaidObjectsOK
    <3>2. raidTimers' = Armed(C, CheckTask)
      BY <1>1, <2>8
    <3>3. /\ OnlyRunning(NoRaid, Armed(C, CheckTask), raidQueue, nextEvent, raidsDeleted')
          /\ TasksOf(Armed(C, CheckTask), raidQueue, CheckTask) = 1
      BY <1>0, <1>4, <2>5, <2>7, <3>1, CheckArmed
    <3>4. QED
      BY <1>1, <2>1, <2>8, <3>2, <3>3 DEF OneCheck
  <2>9. CASE ~readable
    <3>1. raidTimers' = C
      BY <1>1, <2>9
    <3>2. QED
      BY <1>0, <1>1, <2>1, <2>5, <2>7, <2>9, <3>1 DEF OneCheck
  <2>10. QED
    BY <2>8, <2>9
<1>9. QED
  BY <1>6, <1>7, <1>8 DEF RaidIInv

\* For any raids, events and number of reloads: a raid that is marked as
\* running has a task that ends it, and unless a reload has met a task it could
\* not stop there is one chain of checks, only the running raid goes on and no
\* deleted raid is used (Raids::checkRaids, Raid::executeRaidEvent, Raids::reload).
THEOREM RaidsStaySound == RaidSpec => []RaidsSound
<1>1. RaidIInv /\ [RaidNext]_raidVars => RaidIInv'
  <2> SUFFICES ASSUME RaidIInv, [RaidNext]_raidVars PROVE RaidIInv'
    OBVIOUS
  <2>1. CASE UNCHANGED raidVars
    BY <2>1 DEF raidVars, RaidIInv, RaidObjectsOK
  <2>2. QED
    BY <2>1, RaidTimerFiresOK, CheckRaidsOK, ScriptStartsRaid, ExecuteRaidEventOK, ExecuteDeletedOK,
       ReloadRaidsOK DEF RaidNext
<1>2. QED
  BY <1>1, InitRaids, RaidsSoundFollows, PTL DEF RaidSpec

-----------------------------------------------------------------------------
(* Parties: lists, from which somebody is taken out. *)

\* RemoveAt() takes one entry out.
LEMMA RemoveAtFacts ==
    ASSUME NEW S, NEW s \in Seq(S), NEW i \in 1..Len(s)
    PROVE  LET t == RemoveAt(s, i)
           IN  /\ t \in Seq(S) /\ Len(t) = Len(s) - 1
               /\ \A k \in 1..Len(t) : t[k] = IF k < i THEN s[k] ELSE s[k + 1]
<1> DEFINE n == Len(s)
           a == SubSeq(s, 1, i - 1)
           b == SubSeq(s, i + 1, n)
           t == RemoveAt(s, i)
<1>1. n \in Nat /\ i \in Int /\ \A k \in 1..n : s[k] \in S
  OBVIOUS
<1>2. a \in Seq(S) /\ Len(a) = i - 1 /\ \A k \in 1..i - 1 : a[k] = s[k]
  <2>1. \A k \in 1..i - 1 : s[k] \in S
    BY <1>1
  <2>2. /\ a \in Seq(S) /\ Len(a) = IF 1 <= i - 1 THEN i - 1 - 1 + 1 ELSE 0
        /\ \A k \in 1..i - 1 - 1 + 1 : a[k] = s[1 + k - 1]
    <3> HIDE DEF n
    <3> QED BY <2>1, <1>1, SubSeqProperties
  <2> QED BY <2>2, <1>1
<1>3. b \in Seq(S) /\ Len(b) = n - i /\ \A k \in 1..n - i : b[k] = s[i + k]
  <2>1. \A k \in i + 1..n : s[k] \in S
    BY <1>1
  <2>2. /\ b \in Seq(S) /\ Len(b) = IF i + 1 <= n THEN n - (i + 1) + 1 ELSE 0
        /\ \A k \in 1..n - (i + 1) + 1 : b[k] = s[(i + 1) + k - 1]
    <3> HIDE DEF n
    <3> QED BY <2>1, <1>1, SubSeqProperties
  <2> QED BY <2>2, <1>1
<1>4. t = a \o b
  BY DEF RemoveAt
<1> HIDE DEF a, b, t
<1>5. /\ t \in Seq(S) /\ Len(t) = i - 1 + (n - i)
      /\ \A k \in 1..Len(t) : t[k] = IF k <= i - 1 THEN a[k] ELSE b[k - (i - 1)]
  <2>1. /\ a \o b \in Seq(S) /\ Len(a \o b) = Len(a) + Len(b)
        /\ \A k \in 1..Len(a) + Len(b) : (a \o b)[k] = IF k <= Len(a) THEN a[k] ELSE b[k - Len(a)]
    BY <1>2, <1>3, ConcatProperties, Zenon
  <2>2. Len(a) = i - 1 /\ Len(b) = n - i
    BY <1>2, <1>3
  <2> HIDE DEF n
  <2> QED BY <2>1, <2>2, <1>4, Zenon
<1>6. Len(t) = n - 1
  BY <1>5, <1>1
<1>7. ASSUME NEW k \in 1..n - 1 PROVE t[k] = IF k < i THEN s[k] ELSE s[k + 1]
  <2>1. CASE k < i
    <3>1. k <= i - 1 /\ k \in 1..i - 1
      BY <2>1, <1>1
    <3> QED BY <3>1, <2>1, <1>5, <1>6, <1>2
  <2>2. CASE ~(k < i)
    <3>1. ~(k <= i - 1) /\ k - (i - 1) \in 1..n - i /\ i + (k - (i - 1)) = k + 1
      BY <2>2, <1>1
    <3>2. t[k] = b[k - (i - 1)]
      BY <3>1, <1>5, <1>6
    <3>3. b[k - (i - 1)] = s[i + (k - (i - 1))]
      BY <3>1, <1>3
    <3> QED BY <3>1, <3>2, <3>3, <2>2
  <2> QED BY <2>1, <2>2
<1> QED BY <1>5, <1>6, <1>7 DEF t

-----------------------------------------------------------------------------
(* Lists of players without duplicates.                                    *)

\* s is a list of some of S, each once.
OnceEach(s, S) == s \in Seq(S) /\ \A i, j \in 1..Len(s) : s[i] = s[j] => i = j

LEMMA OnceEachInjective ==
    ASSUME NEW S, NEW s \in Seq(S)
    PROVE  /\ IsInjective(s) <=> OnceEach(s, S)
           /\ ToSet(s) = {s[i] : i \in 1..Len(s)}
<1>1. DOMAIN s = 1..Len(s)
  OBVIOUS
<1> QED BY <1>1 DEF IsInjective, OnceEach, ToSet

LEMMA RemoveFirstFacts ==
    ASSUME NEW S, NEW s, OnceEach(s, S), NEW e
    PROVE  LET t == RemoveFirst(s, e)
           IN  OnceEach(t, S) /\ ToSet(t) = ToSet(s) \ {e}
<1> DEFINE t == RemoveFirst(s, e)
<1>0. s \in Seq(S) /\ Len(s) \in Nat /\ DOMAIN s = 1..Len(s) /\ \A i, j \in 1..Len(s) : s[i] = s[j] => i = j
  BY DEF OnceEach
<1>1. CASE \E i \in 1..Len(s) : s[i] = e
  <2>1. PICK i \in 1..Len(s) : s[i] = e
    BY <1>1
  <2>2. {j \in 1..Len(s) : s[j] = e} = {i}
    BY <2>1, <1>0
  <2>3. Min({i}) = i
    BY <1>0 DEF Min
  <2>4. t = RemoveAt(s, i)
    BY <1>1, <2>2, <2>3 DEF RemoveFirst, SelectInSeq
  <2> HIDE DEF t
  <2>5. /\ t \in Seq(S) /\ Len(t) = Len(s) - 1
        /\ \A k \in 1..Len(t) : t[k] = IF k < i THEN s[k] ELSE s[k + 1]
    BY <2>4, <1>0, RemoveAtFacts
  <2> DEFINE at(k) == IF k < i THEN k ELSE k + 1
  <2>6. ASSUME NEW k \in 1..Len(t) PROVE at(k) \in 1..Len(s) /\ at(k) # i /\ t[k] = s[at(k)]
    BY <2>5, <1>0
  <2>7. ASSUME NEW k \in 1..Len(t), NEW l \in 1..Len(t), at(k) = at(l) PROVE k = l
    BY <2>5, <1>0, <2>7
  <2>8. ASSUME NEW j \in 1..Len(s), j # i PROVE \E k \in 1..Len(t) : at(k) = j
    <3>1. CASE j < i
      <4>1. j \in 1..Len(t) /\ at(j) = j
        BY <3>1, <2>5, <1>0
      <4> QED BY <4>1
    <3>2. CASE ~(j < i)
      <4>1. j - 1 \in 1..Len(t) /\ at(j - 1) = j
        BY <3>2, <2>8, <2>5, <1>0
      <4> QED BY <4>1
    <3> QED BY <3>1, <3>2
  <2> HIDE DEF at
  <2>9. OnceEach(t, S)
    BY <2>5, <2>6, <2>7, <1>0 DEF OnceEach
  <2>10. DOMAIN t = 1..Len(t)
    BY <2>5
  <2>11. ToSet(t) \subseteq ToSet(s) \ {e}
    BY <2>1, <2>6, <2>10, <1>0 DEF ToSet
  <2>12. ToSet(s) \ {e} \subseteq ToSet(t)
    <3> SUFFICES ASSUME NEW j \in 1..Len(s), s[j] # e PROVE s[j] \in ToSet(t)
      BY <1>0 DEF ToSet
    <3>1. PICK k \in 1..Len(t) : at(k) = j
      BY <2>1, <2>8
    <3> QED BY <3>1, <2>6, <2>10 DEF ToSet
  <2> QED BY <2>9, <2>11, <2>12 DEF t
<1>2. CASE ~\E i \in 1..Len(s) : s[i] = e
  <2>1. t = s
    BY <1>2 DEF RemoveFirst
  <2>2. e \notin ToSet(s)
    BY <1>2, <1>0 DEF ToSet
  <2> QED BY <2>1, <2>2
<1> QED BY <1>1, <1>2

\* A player is put before or behind the others.
LEMMA PutFacts ==
    ASSUME NEW S, NEW s, OnceEach(s, S), NEW e \in S, e \notin ToSet(s)
    PROVE  /\ OnceEach(<<e>> \o s, S) /\ ToSet(<<e>> \o s) = ToSet(s) \cup {e}
<1>0. s \in Seq(S) /\ Len(s) \in Nat /\ DOMAIN s = 1..Len(s) /\ \A i, j \in 1..Len(s) : s[i] = s[j] => i = j
  BY DEF OnceEach
<1>1. \A i \in 1..Len(s) : s[i] # e
  BY <1>0 DEF ToSet
<1>2. OnceEach(<<e>> \o s, S) /\ ToSet(<<e>> \o s) = ToSet(s) \cup {e}
  <2> DEFINE t == <<e>> \o s
  <2>1. <<e>> \in Seq(S) /\ Len(<<e>>) = 1 /\ <<e>>[1] = e
    OBVIOUS
  <2>2. /\ t \in Seq(S) /\ Len(t) = 1 + Len(s)
        /\ \A i \in 1..1 + Len(s) : t[i] = IF i <= 1 THEN <<e>>[i] ELSE s[i - 1]
    BY <2>1, <1>0, ConcatProperties
  <2> HIDE DEF t
  <2>3. DOMAIN t = 1..Len(t)
    BY <2>2
  <2>4. t[1] = e /\ 1 \in 1..Len(t)
    BY <2>1, <2>2, <1>0
  <2>5. ASSUME NEW i \in 1..Len(t), i # 1 PROVE i - 1 \in 1..Len(s) /\ t[i] = s[i - 1]
    <3>1. i \in 1..1 + Len(s) /\ ~(i <= 1) /\ i - 1 \in 1..Len(s)
      BY <2>2, <2>5, <1>0
    <3> QED BY <3>1, <2>2
  <2>6. ASSUME NEW i \in 1..Len(s) PROVE i + 1 \in 1..Len(t) /\ t[i + 1] = s[i]
    <3>1. i + 1 \in 1..1 + Len(s) /\ ~(i + 1 <= 1) /\ i + 1 - 1 = i
      BY <1>0
    <3> QED BY <3>1, <2>2
  <2>7. ASSUME NEW i \in 1..Len(t), NEW j \in 1..Len(t), t[i] = t[j] PROVE i = j
    <3>1. CASE i = 1 \/ j = 1
      BY <3>1, <2>4, <2>5, <2>7, <1>1
    <3>2. CASE i # 1 /\ j # 1
      <4>1. i - 1 = j - 1
        BY <3>2, <2>5, <2>7, <1>0
      <4> QED BY <4>1, <2>2, <1>0
    <3> QED BY <3>1, <3>2
  <2>8. OnceEach(t, S)
    BY <2>2, <2>7 DEF OnceEach
  <2>9. ToSet(t) \subseteq ToSet(s) \cup {e}
    BY <2>3, <2>4, <2>5, <1>0 DEF ToSet
  <2>10. ToSet(s) \cup {e} \subseteq ToSet(t)
    BY <2>3, <2>4, <2>6, <1>0 DEF ToSet
  <2> QED BY <2>8, <2>9, <2>10 DEF t
<1> QED BY <1>2

LEMMA AppendFacts ==
    ASSUME NEW S, NEW s, OnceEach(s, S), NEW e \in S, e \notin ToSet(s)
    PROVE  OnceEach(Append(s, e), S) /\ ToSet(Append(s, e)) = ToSet(s) \cup {e}
<1>0. s \in Seq(S) /\ Len(s) \in Nat /\ DOMAIN s = 1..Len(s) /\ \A i, j \in 1..Len(s) : s[i] = s[j] => i = j
  BY DEF OnceEach
<1>1. \A i \in 1..Len(s) : s[i] # e
  BY <1>0 DEF ToSet
<1>2. OnceEach(Append(s, e), S) /\ ToSet(Append(s, e)) = ToSet(s) \cup {e}
  <2> DEFINE t == Append(s, e)
  <2>1. /\ t \in Seq(S) /\ Len(t) = Len(s) + 1 /\ DOMAIN t = 1..Len(s) + 1
        /\ \A i \in 1..Len(s) : t[i] = s[i]
        /\ t[Len(s) + 1] = e
    BY <1>0
  <2> HIDE DEF t
  <2>2. ASSUME NEW i \in 1..Len(s) + 1, i # Len(s) + 1 PROVE i \in 1..Len(s)
    BY <2>2, <1>0
  <2>3. Len(s) + 1 \in 1..Len(s) + 1 /\ \A i \in 1..Len(s) : i \in 1..Len(s) + 1
    BY <1>0
  <2>4. ASSUME NEW i \in 1..Len(s) + 1, NEW j \in 1..Len(s) + 1, t[i] = t[j] PROVE i = j
    BY <2>1, <2>2, <2>4, <1>0, <1>1
  <2>5. OnceEach(t, S)
    BY <2>1, <2>4 DEF OnceEach
  <2>6. ToSet(t) \subseteq ToSet(s) \cup {e}
    BY <2>1, <2>2, <1>0 DEF ToSet
  <2>7. ToSet(s) \cup {e} \subseteq ToSet(t)
    BY <2>1, <2>3, <1>0 DEF ToSet
  <2> QED BY <2>5, <2>6, <2>7 DEF t
<1> QED BY <1>2

-----------------------------------------------------------------------------
(* Parties as records.                                                     *)

\* sharedExpEnabled is what canEnableSharedExperience() would say.
Current(q, lv, far) ==
    q.active /\ ~q.stale => q.enabled = canEnableSharedExperience(q, lv, far)

\* Nobody is in it twice, and only those in it have fought for it.
GoodParty(q) ==
    /\ q \in PartyObject
    /\ OnceEach(q.members, Fellows) /\ q.leader \notin ToSet(q.members)
    /\ \A p \in Fellows : q.ticks[p] # "none" => p \in Company(q)

\* What canEnableSharedExperience() looks at.
LEMMA CanEnableSame ==
    ASSUME NEW q, NEW r, NEW lv, NEW lw, NEW far, NEW fas,
           r.leader = q.leader, r.members = q.members, r.ticks = q.ticks,
           \A p \in Company(q) : lw[p] = lv[p] /\ (p \in fas <=> p \in far)
    PROVE  canEnableSharedExperience(r, lw, fas) = canEnableSharedExperience(q, lv, far)
<1>1. Company(r) = Company(q)
  BY DEF Company
<1>2. {lw[p] : p \in Company(r)} = {lv[p] : p \in Company(q)}
  BY <1>1
<1>3. MinLevel(r, lw) = MinLevel(q, lv)
  BY <1>2 DEF MinLevel
<1>4. q.leader \in Company(q)
  BY DEF Company
<1>5. ASSUME NEW p \in Company(q)
      PROVE  canUseSharedExperience(r, p, lw, fas) <=> canUseSharedExperience(q, p, lv, far)
  <2>1. lw[p] = lv[p] /\ (p \in fas <=> p \in far) /\ (q.leader \in fas <=> q.leader \in far)
    BY <1>4
  <2> QED BY <1>3, <2>1 DEF canUseSharedExperience
<1> HIDE DEF canUseSharedExperience
<1>6. canEnableSharedExperience(r, lw, fas) <=> canEnableSharedExperience(q, lv, far)
  BY <1>1, <1>5 DEF canEnableSharedExperience
<1>7. /\ canEnableSharedExperience(r, lw, fas) \in BOOLEAN
      /\ canEnableSharedExperience(q, lv, far) \in BOOLEAN
  BY DEF canEnableSharedExperience
<1> HIDE DEF canEnableSharedExperience
<1> QED BY <1>6, <1>7

LEMMA CurrentSame ==
    ASSUME NEW q, NEW r, NEW lv, NEW lw, NEW far, NEW fas, Current(q, lv, far),
           r.leader = q.leader, r.members = q.members, r.ticks = q.ticks,
           r.active = q.active, r.stale = q.stale, r.enabled = q.enabled,
           \A p \in Company(q) : lw[p] = lv[p] /\ (p \in fas <=> p \in far)
    PROVE  Current(r, lw, fas)
<1>1. canEnableSharedExperience(r, lw, fas) = canEnableSharedExperience(q, lv, far)
  BY CanEnableSame
<1> QED BY <1>1 DEF Current

\* updateSharedExperience()
LEMMA UpdatedFacts ==
    ASSUME NEW q \in PartyObject, NEW lv, NEW far
    PROVE  LET u == Updated(q, lv, far)
           IN  /\ u \in PartyObject
               /\ u.leader = q.leader /\ u.members = q.members /\ u.invites = q.invites
               /\ u.ticks = q.ticks /\ u.active = q.active
               /\ Current(u, lv, far)
<1> DEFINE u == Updated(q, lv, far)
           c == canEnableSharedExperience(q, lv, far)
<1>0. c \in BOOLEAN
  BY DEF canEnableSharedExperience
<1> HIDE DEF c
<1>1. u = IF q.active THEN [q EXCEPT !.enabled = c, !.stale = FALSE] ELSE [q EXCEPT !.stale = FALSE]
  BY DEF Updated, c
<1> HIDE DEF u
<1>2. u \in PartyObject
  BY <1>0, <1>1 DEF PartyObject
<1>3. /\ u.leader = q.leader /\ u.members = q.members /\ u.invites = q.invites
      /\ u.ticks = q.ticks /\ u.active = q.active
  BY <1>1 DEF PartyObject
<1>4. canEnableSharedExperience(u, lv, far) = c
  BY <1>3, CanEnableSame DEF c
<1>5. q.active => u.enabled = c
  BY <1>1 DEF PartyObject
<1>6. Current(u, lv, far)
  BY <1>3, <1>4, <1>5 DEF Current
<1> QED BY <1>2, <1>3, <1>6 DEF u

\* Updating keeps a party good.
LEMMA UpdatedGood ==
    ASSUME NEW q, GoodParty(q), NEW lv, NEW far
    PROVE  LET u == Updated(q, lv, far)
           IN  /\ GoodParty(u) /\ Company(u) = Company(q) /\ u.invites = q.invites
               /\ u.ticks = q.ticks /\ u.members = q.members /\ u.leader = q.leader
               /\ Current(u, lv, far)
<1> DEFINE u == Updated(q, lv, far)
<1>1. q \in PartyObject
  BY DEF GoodParty
<1>2. /\ u \in PartyObject
      /\ u.leader = q.leader /\ u.members = q.members /\ u.invites = q.invites
      /\ u.ticks = q.ticks /\ Current(u, lv, far)
  BY <1>1, UpdatedFacts
<1> HIDE DEF u
<1>3. Company(u) = Company(q)
  BY <1>2 DEF Company
<1>4. GoodParty(u)
  BY <1>2, <1>3 DEF GoodParty
<1> QED BY <1>2, <1>3, <1>4 DEF u

\* passPartyLeadership()
LEMMA PassedFacts ==
    ASSUME NEW q, GoodParty(q), NEW p \in ToSet(q.members)
    PROVE  LET r == Passed(q, p)
           IN  /\ GoodParty(r) /\ Company(r) = Company(q) /\ r.leader = p
               /\ r.invites = q.invites /\ Current(r, level, away)
               /\ r.members = <<q.leader>> \o RemoveFirst(q.members, p)
<1> DEFINE m == <<q.leader>> \o RemoveFirst(q.members, p)
           n == [q EXCEPT !.leader = p, !.members = m]
           r == Passed(q, p)
<1>1. /\ q \in PartyObject /\ OnceEach(q.members, Fellows) /\ q.leader \notin ToSet(q.members)
      /\ \A x \in Fellows : q.ticks[x] # "none" => x \in Company(q)
  BY DEF GoodParty
<1>2. q.leader \in Fellows /\ q.members \in Seq(Fellows)
  BY <1>1 DEF PartyObject
<1>3. p \in Fellows /\ p # q.leader
  BY <1>1, <1>2 DEF ToSet
<1>4. /\ OnceEach(RemoveFirst(q.members, p), Fellows)
      /\ ToSet(RemoveFirst(q.members, p)) = ToSet(q.members) \ {p}
  BY <1>1, RemoveFirstFacts
<1>5. OnceEach(m, Fellows) /\ ToSet(m) = (ToSet(q.members) \ {p}) \cup {q.leader}
  BY <1>1, <1>2, <1>4, PutFacts
<1>6. r = Updated(n, level, away)
  BY DEF Passed
<1> HIDE DEF m
<1>7. m \in Seq(Fellows)
  BY <1>5 DEF OnceEach
<1>8. /\ n \in PartyObject /\ n.leader = p /\ n.members = m /\ n.invites = q.invites
      /\ n.ticks = q.ticks
  BY <1>1, <1>3, <1>7 DEF PartyObject
<1> HIDE DEF n
<1>9. Company(n) = Company(q)
  BY <1>3, <1>5, <1>8 DEF Company
<1>10. GoodParty(n)
  BY <1>1, <1>3, <1>5, <1>8, <1>9 DEF GoodParty
<1>11. /\ GoodParty(r) /\ Company(r) = Company(n) /\ r.invites = n.invites
       /\ r.members = n.members /\ r.leader = n.leader /\ Current(r, level, away)
  BY <1>6, <1>10, UpdatedGood
<1> QED BY <1>8, <1>9, <1>11 DEF m

\* joinParty()
LEMMA JoinedFacts ==
    ASSUME NEW q, GoodParty(q), NEW p \in Fellows, p \notin Company(q)
    PROVE  LET r == Joined(q, p)
           IN  /\ GoodParty(r) /\ Company(r) = Company(q) \cup {p} /\ r.members # <<>>
               /\ r.invites = q.invites \ {p} /\ Current(r, level, away)
<1> DEFINE m == Append(q.members, p)
           n == [q EXCEPT !.members = m, !.invites = q.invites \ {p}]
           r == Joined(q, p)
<1>1. /\ q \in PartyObject /\ OnceEach(q.members, Fellows) /\ q.leader \notin ToSet(q.members)
      /\ \A x \in Fellows : q.ticks[x] # "none" => x \in Company(q)
  BY DEF GoodParty
<1>2. p \notin ToSet(q.members) /\ p # q.leader
  BY DEF Company
<1>3. OnceEach(m, Fellows) /\ ToSet(m) = ToSet(q.members) \cup {p}
  <2> DEFINE s == q.members
  <2>1. OnceEach(s, Fellows) /\ p \notin ToSet(s)
    BY <1>1, <1>2
  <2> HIDE DEF s
  <2>2. OnceEach(Append(s, p), Fellows) /\ ToSet(Append(s, p)) = ToSet(s) \cup {p}
    BY <2>1, AppendFacts
  <2> QED BY <2>2 DEF s
<1>4. r = Updated(n, level, away)
  BY DEF Joined
<1> HIDE DEF m
<1>5. m \in Seq(Fellows)
  BY <1>3 DEF OnceEach
<1>6. /\ n \in PartyObject /\ n.leader = q.leader /\ n.members = m /\ n.invites = q.invites \ {p}
      /\ n.ticks = q.ticks
  BY <1>1, <1>5 DEF PartyObject
<1> HIDE DEF n
<1>7. Company(n) = Company(q) \cup {p}
  BY <1>3, <1>6 DEF Company
<1>8. GoodParty(n)
  BY <1>1, <1>2, <1>3, <1>6, <1>7 DEF GoodParty
<1>9. /\ GoodParty(r) /\ Company(r) = Company(n) /\ r.invites = n.invites
      /\ r.members = n.members /\ Current(r, level, away)
  BY <1>4, <1>8, UpdatedGood
<1>10. m # <<>>
  BY <1>3 DEF ToSet
<1> QED BY <1>6, <1>7, <1>9, <1>10

\* clearPlayerPoints()
LEMMA PointsClearedFacts ==
    ASSUME NEW q, GoodParty(q), Current(q, level, away), NEW p \in Fellows
    PROVE  LET r == PointsCleared(q, p)
           IN  /\ GoodParty(r) /\ Company(r) = Company(q) /\ r.members = q.members
               /\ r.invites = q.invites /\ r.leader = q.leader /\ Current(r, level, away)
               /\ r.ticks = [q.ticks EXCEPT ![p] = "none"]
<1> DEFINE t == [q.ticks EXCEPT ![p] = "none"]
           n == [q EXCEPT !.ticks = t]
           r == PointsCleared(q, p)
<1>1. /\ q \in PartyObject /\ OnceEach(q.members, Fellows) /\ q.leader \notin ToSet(q.members)
      /\ \A x \in Fellows : q.ticks[x] # "none" => x \in Company(q)
  BY DEF GoodParty
<1>2. q.ticks \in [Fellows -> TickStates]
  BY <1>1 DEF PartyObject
<1>3. CASE q.ticks[p] = "none"
  <2>1. r = q
    BY <1>3 DEF PointsCleared
  <2>2. q.ticks = t
    BY <1>2, <1>3
  <2> QED BY <2>1, <2>2
<1>4. CASE q.ticks[p] # "none"
  <2>1. r = Updated(n, level, away)
    BY <1>4 DEF PointsCleared
  <2>2. t \in [Fellows -> TickStates] /\ \A x \in Fellows : t[x] # "none" => q.ticks[x] # "none"
    BY <1>2 DEF TickStates
  <2> HIDE DEF t
  <2>3. /\ n \in PartyObject /\ n.leader = q.leader /\ n.members = q.members /\ n.invites = q.invites
        /\ n.ticks = t
    BY <1>1, <2>2 DEF PartyObject
  <2> HIDE DEF n
  <2>4. Company(n) = Company(q)
    BY <2>3 DEF Company
  <2>5. GoodParty(n)
    BY <1>1, <2>2, <2>3, <2>4 DEF GoodParty
  <2>6. /\ GoodParty(r) /\ Company(r) = Company(n) /\ r.invites = n.invites /\ r.leader = n.leader
        /\ r.members = n.members /\ r.ticks = n.ticks /\ Current(r, level, away)
    BY <2>1, <2>5, UpdatedGood
  <2> QED BY <2>3, <2>4, <2>6 DEF t
<1> QED BY <1>3, <1>4

\* leaveParty() of a party that goes on.
LEMMA LeftFacts ==
    ASSUME NEW q, GoodParty(q), NEW p \in Company(q), ~MissingLeader(q, p)
    PROVE  LET r == Left(q, p)
           IN  /\ GoodParty(r) /\ Company(r) = Company(q) \ {p}
               /\ r.invites = q.invites /\ Current(r, level, away)
<1> DEFINE led  == IF q.leader = p /\ ~MissingLeader(q, p) THEN Passed(q, q.members[1]) ELSE q
           m    == RemoveFirst(led.members, p)
           less == [led EXCEPT !.members = m]
           u    == Updated(less, level, away)
           r    == Left(q, p)
<1>0. r = PointsCleared(u, p)
  BY DEF Left
<1>1. /\ q \in PartyObject /\ OnceEach(q.members, Fellows) /\ q.leader \notin ToSet(q.members)
      /\ \A x \in Fellows : q.ticks[x] # "none" => x \in Company(q)
  BY DEF GoodParty
<1>2. /\ GoodParty(led) /\ Company(led) = Company(q) /\ led.invites = q.invites /\ led.leader # p
  <2>1. CASE q.leader = p
    <3>1. q.members # <<>>
      BY <2>1 DEF MissingLeader
    <3>2. q.members \in Seq(Fellows)
      BY <1>1 DEF PartyObject
    <3>3. 1 \in DOMAIN q.members
      BY <3>1, <3>2
    <3>4. q.members[1] \in ToSet(q.members)
      BY <3>3 DEF ToSet
    <3>5. led = Passed(q, q.members[1])
      BY <2>1
    <3> HIDE DEF led
    <3>6. /\ GoodParty(led) /\ Company(led) = Company(q) /\ led.leader = q.members[1]
          /\ led.invites = q.invites
      BY <3>4, <3>5, PassedFacts
    <3> QED BY <1>1, <2>1, <3>4, <3>6
  <2>2. CASE q.leader # p
    BY <2>2
  <2> QED BY <2>1, <2>2
<1> HIDE DEF led
<1>3. /\ led \in PartyObject /\ OnceEach(led.members, Fellows) /\ led.leader \notin ToSet(led.members)
      /\ \A x \in Fellows : led.ticks[x] # "none" => x \in Company(led)
  BY <1>2 DEF GoodParty
<1>4. OnceEach(m, Fellows) /\ ToSet(m) = ToSet(led.members) \ {p}
  BY <1>3, RemoveFirstFacts
<1> HIDE DEF m
<1>5. m \in Seq(Fellows)
  BY <1>4 DEF OnceEach
<1>6. /\ less \in PartyObject /\ less.leader = led.leader /\ less.members = m
      /\ less.invites = led.invites /\ less.ticks = led.ticks
  BY <1>3, <1>5 DEF PartyObject
<1> HIDE DEF less
<1>7. /\ u \in PartyObject /\ u.leader = less.leader /\ u.members = less.members
      /\ u.invites = less.invites /\ u.ticks = less.ticks /\ Current(u, level, away)
  BY <1>6, UpdatedFacts
<1> HIDE DEF u
<1>8. Company(u) = Company(q) \ {p}
  BY <1>2, <1>4, <1>6, <1>7 DEF Company
<1>9. OnceEach(u.members, Fellows) /\ u.leader \notin ToSet(u.members) /\ u.invites = q.invites
  BY <1>2, <1>3, <1>4, <1>6, <1>7
<1>10. \A x \in Fellows : u.ticks[x] # "none" /\ x # p => x \in Company(u)
  BY <1>2, <1>3, <1>6, <1>7, <1>8
<1>11. u.ticks \in [Fellows -> TickStates] /\ p \in Fellows
  <2>1. \A x \in ToSet(q.members) : x \in Fellows
    BY <1>1 DEF OnceEach, ToSet
  <2> QED BY <2>1, <1>1, <1>7 DEF PartyObject, Company
<1>12. CASE u.ticks[p] = "none"
  <2>1. r = u
    BY <1>0, <1>12 DEF PointsCleared
  <2>2. GoodParty(u)
    BY <1>7, <1>9, <1>10, <1>12 DEF GoodParty
  <2> QED BY <2>1, <2>2, <1>7, <1>8, <1>9
<1>13. CASE u.ticks[p] # "none"
  <2> DEFINE t == [u.ticks EXCEPT ![p] = "none"]
             n == [u EXCEPT !.ticks = t]
  <2>1. r = Updated(n, level, away)
    BY <1>0, <1>13 DEF PointsCleared
  <2>2. /\ t \in [Fellows -> TickStates]
        /\ \A x \in Fellows : t[x] # "none" => u.ticks[x] # "none" /\ x # p
    BY <1>11 DEF TickStates
  <2> HIDE DEF t
  <2>3. /\ n \in PartyObject /\ n.leader = u.leader /\ n.members = u.members
        /\ n.invites = u.invites /\ n.ticks = t
    BY <1>7, <2>2 DEF PartyObject
  <2> HIDE DEF n
  <2>4. Company(n) = Company(u)
    BY <2>3 DEF Company
  <2>5. GoodParty(n)
    BY <1>9, <1>10, <2>2, <2>3, <2>4 DEF GoodParty
  <2>6. /\ GoodParty(r) /\ Company(r) = Company(n) /\ r.invites = n.invites
        /\ Current(r, level, away)
    BY <2>1, <2>5, UpdatedGood
  <2> QED BY <2>3, <2>4, <2>6, <1>8, <1>9
<1> QED BY <1>12, <1>13

-----------------------------------------------------------------------------
(* The inductive invariant: PartyConsistent, party by party.               *)

Mutual ==
    \A p \in online, k \in PartyIds :
        /\ k \in invitations[p] => parties[k] # NoParty /\ p \in parties[k].invites
        /\ partyOf[p] = k => parties[k] # NoParty /\ p \in Company(parties[k])

\* Party k in order.
Fine(k) ==
    /\ GoodParty(parties[k]) /\ Current(parties[k], level, away)
    /\ \A p \in Company(parties[k]) : partyOf[p] = k /\ k \notin invitations[p]
    /\ \A p \in parties[k].invites : p \in online /\ k \in invitations[p]
    /\ ~EmptyParty(parties[k])

PartyInv == PartyTypeOK /\ Mutual /\ \A k \in PartyIds : Sound(k) => Fine(k)

LEMMA PartyInvConsistent == PartyInv => PartyConsistent
<1> SUFFICES ASSUME PartyInv PROVE PartyConsistent
  OBVIOUS
<1>1. PartyTypeOK /\ Mutual /\ \A k \in PartyIds : Sound(k) => Fine(k)
  BY DEF PartyInv
<1>2. SharedExpCurrent
  BY <1>1 DEF SharedExpCurrent, Fine, Current
<1>3. ASSUME NEW k \in PartyIds, Sound(k)
      PROVE  /\ \A p \in Company(parties[k]) : partyOf[p] = k /\ k \notin invitations[p]
             /\ \A p \in parties[k].invites : p \in online /\ k \in invitations[p]
             /\ parties[k].leader \notin ToSet(parties[k].members) /\ IsInjective(parties[k].members)
             /\ ~EmptyParty(parties[k])
             /\ \A p \in Fellows : parties[k].ticks[p] # "none" => p \in Company(parties[k])
  <2> DEFINE q == parties[k]
  <2>1. Fine(k)
    BY <1>1, <1>3
  <2>2. /\ OnceEach(q.members, Fellows) /\ q.leader \notin ToSet(q.members)
        /\ \A p \in Fellows : q.ticks[p] # "none" => p \in Company(q)
    BY <2>1 DEF Fine, GoodParty
  <2>3. IsInjective(q.members)
    <3> HIDE DEF q
    <3>1. q.members \in Seq(Fellows)
      BY <2>2 DEF OnceEach
    <3> QED BY <2>2, <3>1, OnceEachInjective
  <2> QED BY <2>1, <2>2, <2>3 DEF Fine
<1> QED BY <1>1, <1>2, <1>3 DEF PartyConsistent, Mutual

\* A party that comes into being, changes or ends.
LEMMA BecomeKeeps ==
    ASSUME PartyInv, NEW k \in PartyIds, NEW q, NEW end \in BOOLEAN, Become(k, q, end),
           UNCHANGED <<online, level, away>>,
           ~end => /\ GoodParty(q) /\ Current(q, level, away) /\ ~EmptyParty(q)
                   /\ Company(q) \subseteq online /\ q.invites \subseteq online
                   /\ Company(q) \cap q.invites = {}
                   /\ \A r \in Company(q) : partyOf[r] \in {k, NoParty}
    PROVE  PartyInv'
<1>1. /\ online \subseteq Fellows /\ away \subseteq Fellows
      /\ partyOf \in [Fellows -> PartyIds \cup {NoParty}]
      /\ invitations \in [Fellows -> SUBSET PartyIds]
      /\ level \in [Fellows -> Levels]
      /\ parties \in [PartyIds -> PartyObject \cup {NoParty}]
  BY DEF PartyInv, PartyTypeOK
<1>2. NoParty \notin PartyIds /\ NoParty \notin PartyObject
  BY PartyAssumption
<1>3. online' = online /\ level' = level /\ away' = away
  OBVIOUS
<1>4. ~end => q \in PartyObject /\ q # NoParty
  BY <1>2 DEF GoodParty
<1>5. /\ parties' \in [PartyIds -> PartyObject \cup {NoParty}]
      /\ parties'[k] = IF end THEN NoParty ELSE q
      /\ \A j \in PartyIds : j # k => parties'[j] = parties[j]
  BY <1>1, <1>4 DEF Become
<1>6. /\ partyOf' \in [Fellows -> PartyIds \cup {NoParty}]
      /\ \A r \in Fellows : partyOf'[r] =
            IF partyOf[r] = k /\ (end \/ r \notin Company(q)) THEN NoParty
            ELSE IF ~end /\ r \in Company(q) THEN k ELSE partyOf[r]
  <2>1. partyOf' = [r \in Fellows |->
            IF partyOf[r] = k /\ (end \/ r \notin Company(q)) THEN NoParty
            ELSE IF ~end /\ r \in Company(q) THEN k ELSE partyOf[r]]
    BY DEF Become
  <2> QED BY <2>1, <1>1
<1>7. /\ invitations' \in [Fellows -> SUBSET PartyIds]
      /\ \A r \in Fellows, j \in PartyIds : j # k => (j \in invitations'[r] <=> j \in invitations[r])
      /\ \A r \in Fellows : k \in invitations'[r] <=> ~end /\ r \in q.invites
  <2>1. invitations' = IF end THEN [r \in Fellows |-> invitations[r] \ {k}]
                       ELSE [r \in Fellows |-> IF r \in q.invites THEN invitations[r] \cup {k}
                                               ELSE invitations[r] \ {k}]
    BY DEF Become, Uninvited
  <2>2. CASE end
    BY <2>1, <2>2, <1>1
  <2>3. CASE ~end
    BY <2>1, <2>3, <1>1
  <2> QED BY <2>2, <2>3
<1>8. PartyTypeOK'
  BY <1>1, <1>3, <1>5, <1>6, <1>7 DEF PartyTypeOK
<1>9. Mutual'
  <2> SUFFICES ASSUME NEW p \in online', NEW j \in PartyIds
               PROVE  /\ j \in invitations'[p] => parties'[j] # NoParty /\ p \in parties'[j].invites
                      /\ partyOf'[p] = j => parties'[j] # NoParty /\ p \in Company(parties'[j])
    BY DEF Mutual, Company
  <2>1. /\ p \in Fellows
        /\ j \in invitations[p] => parties[j] # NoParty /\ p \in parties[j].invites
        /\ partyOf[p] = j => parties[j] # NoParty /\ p \in Company(parties[j])
    BY <1>1, <1>3 DEF PartyInv, Mutual
  <2>2. CASE j = k
    BY <2>1, <2>2, <1>2, <1>4, <1>5, <1>6, <1>7
  <2>3. CASE j # k
    BY <2>1, <2>3, <1>2, <1>5, <1>6, <1>7
  <2> QED BY <2>2, <2>3
<1>10. ASSUME NEW j \in PartyIds, Sound(j)' PROVE Fine(j)'
  <2>1. parties'[j] # NoParty /\ Company(parties'[j]) \subseteq online
    BY <1>10, <1>3 DEF Sound, Company
  <2> SUFFICES /\ GoodParty(parties'[j]) /\ Current(parties'[j], level, away)
               /\ \A p \in Company(parties'[j]) : partyOf'[p] = j /\ j \notin invitations'[p]
               /\ \A p \in parties'[j].invites : p \in online /\ j \in invitations'[p]
               /\ ~EmptyParty(parties'[j])
    BY <1>3 DEF Fine
  <2>2. CASE j = k
    <3>1. ~end /\ parties'[j] = q
      BY <2>1, <2>2, <1>5
    <3>2. \A p \in Company(q) : partyOf'[p] = k /\ k \notin invitations'[p]
      BY <3>1, <1>1, <1>6, <1>7
    <3>3. \A p \in q.invites : p \in online /\ k \in invitations'[p]
      BY <3>1, <1>1, <1>7
    <3> QED BY <3>1, <3>2, <3>3, <2>2
  <2>3. CASE j # k
    <3>1. parties'[j] = parties[j]
      BY <2>3, <1>5
    <3>2. Sound(j)
      BY <2>1, <3>1 DEF Sound
    <3>3. Fine(j)
      BY <3>2 DEF PartyInv
    <3>4. \A p \in Company(parties[j]) : partyOf'[p] = j /\ j \notin invitations'[p]
      <4> SUFFICES ASSUME NEW p \in Company(parties[j])
                   PROVE  partyOf'[p] = j /\ j \notin invitations'[p]
        OBVIOUS
      <4>1. p \in Fellows /\ partyOf[p] = j /\ j \notin invitations[p]
        BY <2>1, <3>1, <3>3, <1>1 DEF Fine
      <4>2. ~(~end /\ p \in Company(q))
        BY <4>1, <2>3, <1>2
      <4> QED BY <4>1, <4>2, <2>3, <1>6, <1>7
    <3>5. \A p \in parties[j].invites : p \in online /\ j \in invitations'[p]
      BY <3>3, <2>3, <1>1, <1>7 DEF Fine
    <3> QED BY <3>1, <3>3, <3>4, <3>5 DEF Fine
  <2> QED BY <2>2, <2>3
<1> QED BY <1>8, <1>9, <1>10 DEF PartyInv

\* A step that leaves every party its players.
LEMMA TouchKeeps ==
    ASSUME PartyInv, UNCHANGED <<online, partyOf, invitations>>,
           level' \in [Fellows -> Levels], away' \subseteq Fellows,
           parties' \in [PartyIds -> PartyObject \cup {NoParty}],
           \A k \in PartyIds :
              /\ parties[k] = NoParty <=> parties'[k] = NoParty
              /\ parties[k] # NoParty => /\ parties'[k].leader = parties[k].leader
                                         /\ parties'[k].members = parties[k].members
                                         /\ parties'[k].invites = parties[k].invites
              /\ Sound(k) => GoodParty(parties'[k]) /\ Current(parties'[k], level', away')
    PROVE  PartyInv'
<1>1. /\ online \subseteq Fellows
      /\ partyOf \in [Fellows -> PartyIds \cup {NoParty}]
      /\ invitations \in [Fellows -> SUBSET PartyIds]
  BY DEF PartyInv, PartyTypeOK
<1>2. online' = online /\ partyOf' = partyOf /\ invitations' = invitations
  OBVIOUS
<1>3. PartyTypeOK'
  BY <1>1, <1>2 DEF PartyTypeOK
<1>4. ASSUME NEW k \in PartyIds, parties[k] # NoParty
      PROVE  Company(parties'[k]) = Company(parties[k])
  BY <1>4 DEF Company
<1>5. Mutual'
  <2> SUFFICES ASSUME NEW p \in online', NEW j \in PartyIds
               PROVE  /\ j \in invitations'[p] => parties'[j] # NoParty /\ p \in parties'[j].invites
                      /\ partyOf'[p] = j => parties'[j] # NoParty /\ p \in Company(parties'[j])
    BY DEF Mutual
  <2>1. /\ j \in invitations[p] => parties[j] # NoParty /\ p \in parties[j].invites
        /\ partyOf[p] = j => parties[j] # NoParty /\ p \in Company(parties[j])
    BY <1>2 DEF PartyInv, Mutual
  <2> QED BY <2>1, <1>2, <1>4
<1>6. ASSUME NEW j \in PartyIds, Sound(j)' PROVE Fine(j)'
  <2>1. parties'[j] # NoParty /\ Company(parties'[j]) \subseteq online
    BY <1>6, <1>2 DEF Sound
  <2>2. parties[j] # NoParty /\ Company(parties'[j]) = Company(parties[j]) /\ Sound(j)
    BY <2>1, <1>4 DEF Sound
  <2>3. Fine(j)
    BY <2>2 DEF PartyInv
  <2>4. /\ \A p \in Company(parties'[j]) : partyOf'[p] = j /\ j \notin invitations'[p]
        /\ \A p \in parties'[j].invites : p \in online' /\ j \in invitations'[p]
    BY <2>2, <2>3, <1>2 DEF Fine
  <2>5. ~EmptyParty(parties'[j])
    BY <2>2, <2>3 DEF Fine, EmptyParty
  <2>6. GoodParty(parties'[j]) /\ Current(parties'[j], level', away')
    BY <2>2
  <2> QED BY <2>4, <2>5, <2>6 DEF Fine
<1> QED BY <1>3, <1>5, <1>6 DEF PartyInv

\* The same for a step that touches party k only, and in the world nobody
\* but those of party k.
LEMMA TouchOne ==
    ASSUME PartyInv, UNCHANGED <<online, partyOf, invitations>>,
           level' \in [Fellows -> Levels], away' \subseteq Fellows,
           NEW k \in PartyIds, Sound(k), NEW q,
           parties' = [parties EXCEPT ![k] = q],
           GoodParty(q), Current(q, level', away'), q.leader = parties[k].leader,
           q.members = parties[k].members, q.invites = parties[k].invites,
           \A p \in Fellows : partyOf[p] # k =>
              level'[p] = level[p] /\ (p \in away' <=> p \in away)
    PROVE  PartyInv'
<1>1. parties \in [PartyIds -> PartyObject \cup {NoParty}] /\ online \subseteq Fellows
  BY DEF PartyInv, PartyTypeOK
<1>2. q \in PartyObject /\ q # NoParty /\ parties[k] # NoParty
  BY PartyAssumption DEF GoodParty, Sound
<1>3. /\ parties' \in [PartyIds -> PartyObject \cup {NoParty}]
      /\ parties'[k] = q /\ \A j \in PartyIds : j # k => parties'[j] = parties[j]
  BY <1>1, <1>2
<1>4. ASSUME NEW j \in PartyIds, Sound(j)
      PROVE  GoodParty(parties'[j]) /\ Current(parties'[j], level', away')
  <2>1. CASE j = k
    BY <2>1, <1>3
  <2>2. CASE j # k
    <3>1. parties'[j] = parties[j] /\ Fine(j)
      BY <2>2, <1>3, <1>4 DEF PartyInv
    <3>2. \A p \in Company(parties[j]) : level'[p] = level[p] /\ (p \in away' <=> p \in away)
      BY <2>2, <3>1, <1>1, <1>4 DEF Fine, Sound
    <3>3. GoodParty(parties[j]) /\ Current(parties[j], level, away)
      BY <3>1 DEF Fine
    <3>4. Current(parties[j], level', away')
      BY <3>2, <3>3, CurrentSame
    <3> QED BY <3>1, <3>3, <3>4
  <2> QED BY <2>1, <2>2
<1>5. \A j \in PartyIds :
         /\ parties[j] = NoParty <=> parties'[j] = NoParty
         /\ parties[j] # NoParty => /\ parties'[j].leader = parties[j].leader
                                    /\ parties'[j].members = parties[j].members
                                    /\ parties'[j].invites = parties[j].invites
         /\ Sound(j) => GoodParty(parties'[j]) /\ Current(parties'[j], level', away')
  BY <1>2, <1>3, <1>4
<1> QED BY <1>3, <1>5, TouchKeeps

\* Nobody who is in a party is touched.
LEMMA TouchNone ==
    ASSUME PartyInv, UNCHANGED <<online, partyOf, invitations, parties>>,
           level' \in [Fellows -> Levels], away' \subseteq Fellows,
           \A p \in Fellows : partyOf[p] # NoParty =>
              level'[p] = level[p] /\ (p \in away' <=> p \in away)
    PROVE  PartyInv'
<1>1. parties \in [PartyIds -> PartyObject \cup {NoParty}] /\ online \subseteq Fellows
  BY DEF PartyInv, PartyTypeOK
<1>2. ASSUME NEW j \in PartyIds, Sound(j)
      PROVE  GoodParty(parties'[j]) /\ Current(parties'[j], level', away')
  <2>1. Fine(j)
    BY <1>2 DEF PartyInv
  <2>2. \A p \in Company(parties[j]) : level'[p] = level[p] /\ (p \in away' <=> p \in away)
    BY <2>1, <1>1, <1>2, PartyAssumption DEF Fine, Sound
  <2>3. GoodParty(parties[j]) /\ Current(parties[j], level, away)
    BY <2>1 DEF Fine
  <2>4. Current(parties[j], level', away')
    BY <2>2, <2>3, CurrentSame
  <2> QED BY <2>3, <2>4
<1>3. \A j \in PartyIds :
         /\ parties[j] = NoParty <=> parties'[j] = NoParty
         /\ parties[j] # NoParty => /\ parties'[j].leader = parties[j].leader
                                    /\ parties'[j].members = parties[j].members
                                    /\ parties'[j].invites = parties[j].invites
         /\ Sound(j) => GoodParty(parties'[j]) /\ Current(parties'[j], level', away')
  BY <1>2
<1>4. parties' \in [PartyIds -> PartyObject \cup {NoParty}]
  BY <1>1
<1> QED BY <1>3, <1>4, TouchKeeps

\* What is known of a party that the players in it still belong to.
LEMMA SoundFacts ==
    ASSUME PartyInv, NEW k \in PartyIds, Sound(k)
    PROVE  /\ GoodParty(parties[k]) /\ Current(parties[k], level, away) /\ ~EmptyParty(parties[k])
           /\ Company(parties[k]) \subseteq online /\ parties[k].invites \subseteq online
           /\ Company(parties[k]) \cap parties[k].invites = {}
           /\ \A r \in Company(parties[k]) : partyOf[r] = k
           /\ parties[k] \in PartyObject /\ online \subseteq Fellows
<1>1. Fine(k)
  BY DEF PartyInv
<1>2. online \subseteq Fellows
  BY DEF PartyInv, PartyTypeOK
<1>3. parties[k] \in PartyObject
  BY <1>1 DEF Fine, GoodParty
<1> QED BY <1>1, <1>2, <1>3 DEF Fine, Sound

\* Only the list of those invited is set.
LEMMA InvitesFacts ==
    ASSUME NEW q, GoodParty(q), NEW i \in SUBSET Fellows, NEW n, n = [q EXCEPT !.invites = i]
    PROVE  /\ GoodParty(n) /\ Company(n) = Company(q) /\ n.invites = i /\ n.members = q.members
           /\ \A lv, far : Current(q, lv, far) => Current(n, lv, far)
<1>1. /\ q \in PartyObject /\ OnceEach(q.members, Fellows) /\ q.leader \notin ToSet(q.members)
      /\ \A x \in Fellows : q.ticks[x] # "none" => x \in Company(q)
  BY DEF GoodParty
<1>2. /\ n \in PartyObject /\ n.leader = q.leader /\ n.members = q.members /\ n.invites = i
      /\ n.ticks = q.ticks /\ n.active = q.active /\ n.stale = q.stale /\ n.enabled = q.enabled
  BY <1>1 DEF PartyObject
<1>3. Company(n) = Company(q)
  BY <1>2 DEF Company
<1>4. GoodParty(n)
  BY <1>1, <1>2, <1>3 DEF GoodParty
<1>5. ASSUME NEW lv, NEW far, Current(q, lv, far) PROVE Current(n, lv, far)
  BY <1>2, <1>5, CurrentSame
<1> QED BY <1>2, <1>3, <1>4, <1>5

LEMMA InviteKeeps ==
    ASSUME PartyInv, NEW p \in Fellows, NEW r \in Fellows, Invite(p, r)
    PROVE  PartyInv'
<1>1. p # r /\ {p, r} \subseteq online /\ partyOf[r] = NoParty /\ UNCHANGED <<online, level, away>>
  BY DEF Invite
<1>2. CASE partyOf[p] = NoParty
  <2> DEFINE n == NewParty(p)
             q == [n EXCEPT !.invites = n.invites \cup {r}]
  <2>1. PICK k \in PartyIds : Become(k, q, FALSE)
    <3>1. PICK k \in PartyIds :
             LET o == IF partyOf[p] = NoParty THEN NewParty(p) ELSE parties[k]
             IN  Become(k, [o EXCEPT !.invites = @ \cup {r}], FALSE)
      BY DEF Invite
    <3> QED BY <1>2, <3>1
  <2>2. n \in PartyObject /\ n.leader = p /\ n.members = <<>> /\ n.invites = {} /\ n.active = FALSE
        /\ \A x \in Fellows : n.ticks[x] = "none"
    BY DEF NewParty, PartyObject, TickStates
  <2>3. ToSet(n.members) = {} /\ OnceEach(n.members, Fellows)
    BY <2>2 DEF ToSet, OnceEach
  <2> HIDE DEF n
  <2>4. GoodParty(n) /\ Company(n) = {p} /\ Current(n, level, away)
    BY <2>2, <2>3 DEF GoodParty, Company, Current
  <2>5. n.invites \cup {r} \in SUBSET Fellows
    BY <2>2
  <2>6. GoodParty(q) /\ Company(q) = Company(n) /\ q.invites = {r} /\ Current(q, level, away)
    <3> DEFINE i == n.invites \cup {r}
    <3>1. i \in SUBSET Fellows /\ q = [n EXCEPT !.invites = i]
      BY <2>5
    <3> HIDE DEF i, q
    <3>2. GoodParty(q) /\ Company(q) = Company(n) /\ q.invites = i /\ Current(q, level, away)
      BY <3>1, <2>4, InvitesFacts
    <3> QED BY <3>2, <2>2 DEF i
  <2> HIDE DEF q
  <2>7. ~EmptyParty(q)
    BY <2>6 DEF EmptyParty
  <2>8. Company(q) \subseteq online /\ q.invites \subseteq online /\ Company(q) \cap q.invites = {}
        /\ \A x \in Company(q) : partyOf[x] \in {k, NoParty}
    BY <2>4, <2>6, <1>1, <1>2
  <2> QED BY <2>1, <2>6, <2>7, <2>8, <1>1, BecomeKeeps
<1>3. CASE partyOf[p] # NoParty
  <2>1. PICK k \in PartyIds : /\ Leads(p, k)
                              /\ Become(k, [parties[k] EXCEPT !.invites = @ \cup {r}], FALSE)
    BY <1>3 DEF Invite
  <2> DEFINE n == parties[k]
             q == [n EXCEPT !.invites = n.invites \cup {r}]
  <2>2. Become(k, q, FALSE)
    BY <2>1
  <2>3. Sound(k)
    BY <2>1 DEF Leads
  <2>4. /\ GoodParty(n) /\ Current(n, level, away) /\ Company(n) \subseteq online
        /\ n.invites \subseteq online /\ Company(n) \cap n.invites = {}
        /\ \A x \in Company(n) : partyOf[x] = k
        /\ online \subseteq Fellows
    BY <2>3, SoundFacts
  <2> HIDE DEF n
  <2>5. n.invites \cup {r} \in SUBSET Fellows
    BY <2>4
  <2>6. GoodParty(q) /\ Company(q) = Company(n) /\ q.invites = n.invites \cup {r}
        /\ Current(q, level, away)
    BY <2>4, <2>5, InvitesFacts
  <2> HIDE DEF q
  <2>7. ~EmptyParty(q)
    BY <2>6 DEF EmptyParty
  <2>8. r \notin Company(n)
    BY <2>4, <1>1, PartyAssumption
  <2>9. Company(q) \subseteq online /\ q.invites \subseteq online /\ Company(q) \cap q.invites = {}
        /\ \A x \in Company(q) : partyOf[x] \in {k, NoParty}
    BY <2>4, <2>6, <2>8, <1>1
  <2> QED BY <2>2, <2>6, <2>7, <2>9, <1>1, BecomeKeeps
<1> QED BY <1>2, <1>3

LEMMA JoinKeeps ==
    ASSUME PartyInv, NEW p \in Fellows, NEW r \in Fellows, Join(p, r)
    PROVE  PartyInv'
<1>1. /\ {p, r} \subseteq online /\ partyOf[p] = NoParty /\ UNCHANGED <<online, level, away>>
      /\ Inviting(r, p)
  BY DEF Join
<1>2. PICK k \in PartyIds : Leads(r, k) /\ p \in parties[k].invites
  BY <1>1 DEF Inviting
<1>3. partyOf[r] = k /\ Sound(k)
  BY <1>2 DEF Leads
<1> DEFINE n == parties[k]
           q == Joined(n, p)
<1>4. Become(k, q, FALSE)
  BY <1>3 DEF Join
<1>5. /\ GoodParty(n) /\ Company(n) \subseteq online
      /\ n.invites \subseteq online /\ Company(n) \cap n.invites = {}
      /\ \A x \in Company(n) : partyOf[x] = k
  BY <1>3, SoundFacts
<1>6. p \notin Company(n)
  BY <1>2, <1>5
<1> HIDE DEF n
<1>7. /\ GoodParty(q) /\ Company(q) = Company(n) \cup {p} /\ q.members # <<>>
      /\ q.invites = n.invites \ {p} /\ Current(q, level, away)
  BY <1>5, <1>6, JoinedFacts
<1> HIDE DEF q
<1>8. ~EmptyParty(q)
  BY <1>7 DEF EmptyParty
<1>9. Company(q) \subseteq online /\ q.invites \subseteq online /\ Company(q) \cap q.invites = {}
      /\ \A x \in Company(q) : partyOf[x] \in {k, NoParty}
  BY <1>5, <1>7, <1>1
<1> QED BY <1>4, <1>7, <1>8, <1>9, <1>1, BecomeKeeps

LEMMA RevokeKeeps ==
    ASSUME PartyInv, NEW p \in Fellows, NEW r \in Fellows, RevokeInvitation(p, r)
    PROVE  PartyInv'
<1>1. UNCHANGED <<online, level, away>> /\ Inviting(p, r)
  BY DEF RevokeInvitation
<1>2. PICK k \in PartyIds : Leads(p, k)
  BY <1>1 DEF Inviting
<1>3. partyOf[p] = k /\ Sound(k)
  BY <1>2 DEF Leads
<1> DEFINE n == parties[k]
           q == [n EXCEPT !.invites = n.invites \ {r}]
           e == EmptyParty(q)
<1>4. Become(k, q, e)
  BY <1>3 DEF RevokeInvitation
<1>5. /\ GoodParty(n) /\ Current(n, level, away) /\ Company(n) \subseteq online
      /\ n.invites \subseteq online /\ Company(n) \cap n.invites = {}
      /\ \A x \in Company(n) : partyOf[x] = k
      /\ online \subseteq Fellows
  BY <1>3, SoundFacts
<1> HIDE DEF n
<1>6. n.invites \ {r} \in SUBSET Fellows
  BY <1>5
<1>7. GoodParty(q) /\ Company(q) = Company(n) /\ q.invites = n.invites \ {r}
      /\ Current(q, level, away)
  BY <1>5, <1>6, InvitesFacts
<1> HIDE DEF q
<1>8. e \in BOOLEAN /\ (~e => ~EmptyParty(q))
  BY DEF EmptyParty
<1>9. Company(q) \subseteq online /\ q.invites \subseteq online /\ Company(q) \cap q.invites = {}
      /\ \A x \in Company(q) : partyOf[x] \in {k, NoParty}
  BY <1>5, <1>7
<1> HIDE DEF e
<1> QED BY <1>4, <1>7, <1>8, <1>9, <1>1, BecomeKeeps

LEMMA PassKeeps ==
    ASSUME PartyInv, NEW p \in Fellows, NEW r \in Fellows, PassLeadership(p, r)
    PROVE  PartyInv'
<1>1. {p, r} \subseteq online /\ p # r /\ UNCHANGED <<online, level, away>>
  BY DEF PassLeadership
<1>2. PICK k \in PartyIds : Leads(p, k) /\ partyOf[r] = k /\ Become(k, Passed(parties[k], r), FALSE)
  BY DEF PassLeadership
<1>3. Sound(k) /\ parties[k].leader = p
  BY <1>2 DEF Leads
<1> DEFINE n == parties[k]
           q == Passed(n, r)
<1>4. Become(k, q, FALSE)
  BY <1>2
<1>5. /\ GoodParty(n) /\ Company(n) \subseteq online /\ ~EmptyParty(n)
      /\ n.invites \subseteq online /\ Company(n) \cap n.invites = {}
      /\ \A x \in Company(n) : partyOf[x] = k
  BY <1>3, SoundFacts
<1>6. r \in ToSet(n.members)
  <2>1. r \in Company(n)
    BY <1>1, <1>2 DEF PartyInv, Mutual
  <2> QED BY <2>1, <1>1, <1>3 DEF Company
<1> HIDE DEF n
<1>7. /\ GoodParty(q) /\ Company(q) = Company(n) /\ q.invites = n.invites /\ Current(q, level, away)
      /\ q.leader = r
  BY <1>5, <1>6, PassedFacts
<1> HIDE DEF q
<1>8. ~EmptyParty(q)
  <2>1. p \in Company(q) /\ p # q.leader
    BY <1>1, <1>3, <1>7 DEF Company, n
  <2>2. p \in ToSet(q.members)
    BY <2>1 DEF Company
  <2> QED BY <2>2 DEF EmptyParty, ToSet
<1>9. Company(q) \subseteq online /\ q.invites \subseteq online /\ Company(q) \cap q.invites = {}
      /\ \A x \in Company(q) : partyOf[x] \in {k, NoParty}
  BY <1>5, <1>7
<1> QED BY <1>4, <1>7, <1>8, <1>9, <1>1, BecomeKeeps

LEMMA LeaveKeeps ==
    ASSUME PartyInv, NEW p \in Fellows, Leave(p)
    PROVE  PartyInv'
<1> DEFINE k == partyOf[p]
           n == parties[k]
           q == Left(n, p)
           e == MissingLeader(n, p) \/ EmptyParty(q)
<1>1. /\ p \in online /\ Sound(k) /\ k # NoParty /\ Become(k, q, e)
      /\ UNCHANGED <<online, level, away>>
  BY DEF Leave
<1>2. k \in PartyIds
  BY <1>1 DEF PartyInv, PartyTypeOK
<1>3. p \in Company(n)
  BY <1>1, <1>2 DEF PartyInv, Mutual
<1> HIDE DEF k
<1>4. /\ GoodParty(n) /\ Company(n) \subseteq online
      /\ n.invites \subseteq online /\ Company(n) \cap n.invites = {}
      /\ \A x \in Company(n) : partyOf[x] = k
  BY <1>1, <1>2, SoundFacts
<1>5. e \in BOOLEAN
  BY DEF EmptyParty, MissingLeader
<1> HIDE DEF n
<1>6. ASSUME ~e
      PROVE  /\ GoodParty(q) /\ Company(q) = Company(n) \ {p} /\ q.invites = n.invites
             /\ Current(q, level, away) /\ ~EmptyParty(q)
  BY <1>3, <1>4, <1>6, LeftFacts
<1> HIDE DEF q, e
<1>7. ~e => /\ GoodParty(q) /\ Current(q, level, away) /\ ~EmptyParty(q)
            /\ Company(q) \subseteq online /\ q.invites \subseteq online
            /\ Company(q) \cap q.invites = {}
            /\ \A x \in Company(q) : partyOf[x] \in {k, NoParty}
  BY <1>4, <1>6
<1> QED BY <1>1, <1>2, <1>5, <1>7, BecomeKeeps

\* setSharedExperience()
LEMMA EnableKeeps ==
    ASSUME PartyInv, NEW p \in Fellows, NEW on \in BOOLEAN, EnableShared(p, on)
    PROVE  PartyInv'
<1>1. PICK k \in PartyIds :
         /\ Leads(p, k)
         /\ parties' = [parties EXCEPT ![k] = Updated([parties[k] EXCEPT !.active = on], level, away)]
  BY DEF EnableShared
<1>2. UNCHANGED <<online, partyOf, invitations, level, away>>
  BY DEF EnableShared
<1>3. Sound(k)
  BY <1>1 DEF Leads
<1> DEFINE n == parties[k]
           m == [n EXCEPT !.active = on]
           q == Updated(m, level, away)
<1>4. GoodParty(n)
  BY <1>3, SoundFacts
<1>5. GoodParty(m) /\ m.leader = n.leader /\ m.members = n.members /\ m.invites = n.invites
  <2> HIDE DEF n
  <2>1. /\ n \in PartyObject /\ OnceEach(n.members, Fellows) /\ n.leader \notin ToSet(n.members)
        /\ \A x \in Fellows : n.ticks[x] # "none" => x \in Company(n)
    BY <1>4 DEF GoodParty
  <2>2. /\ m \in PartyObject /\ m.leader = n.leader /\ m.members = n.members
        /\ m.invites = n.invites /\ m.ticks = n.ticks
    BY <2>1 DEF PartyObject
  <2> HIDE DEF m
  <2>3. Company(m) = Company(n)
    BY <2>2 DEF Company
  <2> QED BY <2>1, <2>2, <2>3 DEF GoodParty
<1> HIDE DEF m
<1>6. /\ GoodParty(q) /\ Current(q, level, away) /\ q.leader = m.leader /\ q.members = m.members
      /\ q.invites = m.invites
  BY <1>5, UpdatedGood
<1>7. parties' = [parties EXCEPT ![k] = q]
  BY <1>1 DEF m
<1>8. level' \in [Fellows -> Levels] /\ away' \subseteq Fellows
  BY <1>2 DEF PartyInv, PartyTypeOK
<1> HIDE DEF q
<1> QED BY <1>2, <1>3, <1>5, <1>6, <1>7, <1>8, TouchOne

\* updatePlayerTicks()
LEMMA FightKeeps ==
    ASSUME PartyInv, NEW p \in Fellows, Fight(p)
    PROVE  PartyInv'
<1> DEFINE k == partyOf[p]
           n == parties[k]
           m == [n EXCEPT !.ticks[p] = "fresh"]
           q == Updated(m, level, away)
<1>1. /\ p \in online /\ k # NoParty /\ Sound(k) /\ parties' = [parties EXCEPT ![k] = q]
      /\ UNCHANGED <<online, partyOf, invitations, level, away>>
  BY DEF Fight, SoundFor
<1>2. k \in PartyIds
  BY <1>1 DEF PartyInv, PartyTypeOK
<1>3. p \in Company(n)
  BY <1>1, <1>2 DEF PartyInv, Mutual
<1> HIDE DEF k
<1>4. GoodParty(n)
  BY <1>1, <1>2, SoundFacts
<1>5. GoodParty(m) /\ m.leader = n.leader /\ m.members = n.members /\ m.invites = n.invites
  <2> HIDE DEF n
  <2>1. /\ n \in PartyObject /\ OnceEach(n.members, Fellows) /\ n.leader \notin ToSet(n.members)
        /\ \A x \in Fellows : n.ticks[x] # "none" => x \in Company(n)
    BY <1>4 DEF GoodParty
  <2>2. /\ m \in PartyObject /\ m.leader = n.leader /\ m.members = n.members
        /\ m.invites = n.invites /\ \A x \in Fellows : x # p => m.ticks[x] = n.ticks[x]
    BY <2>1 DEF PartyObject, TickStates
  <2> HIDE DEF m
  <2>3. Company(m) = Company(n)
    BY <2>2 DEF Company
  <2> QED BY <2>1, <2>2, <2>3, <1>3 DEF GoodParty
<1> HIDE DEF m
<1>6. /\ GoodParty(q) /\ Current(q, level, away) /\ q.leader = m.leader /\ q.members = m.members
      /\ q.invites = m.invites
  BY <1>5, UpdatedGood
<1>7. level' \in [Fellows -> Levels] /\ away' \subseteq Fellows
  BY <1>1 DEF PartyInv, PartyTypeOK
<1> HIDE DEF q
<1> QED BY <1>1, <1>2, <1>5, <1>6, <1>7, TouchOne

\* onIdleStatus()
LEMMA IdleKeeps ==
    ASSUME PartyInv, NEW p \in Fellows, Idle(p)
    PROVE  PartyInv'
<1> DEFINE k == partyOf[p]
           n == parties[k]
           q == PointsCleared(n, p)
<1>1. /\ p \in online /\ k # NoParty /\ Sound(k) /\ parties' = [parties EXCEPT ![k] = q]
      /\ UNCHANGED <<online, partyOf, invitations, level, away>>
  BY DEF Idle, SoundFor
<1>2. k \in PartyIds
  BY <1>1 DEF PartyInv, PartyTypeOK
<1> HIDE DEF k
<1>3. GoodParty(n) /\ Current(n, level, away)
  BY <1>1, <1>2, SoundFacts
<1>4. /\ GoodParty(q) /\ Current(q, level, away) /\ q.leader = n.leader /\ q.members = n.members
      /\ q.invites = n.invites
  <2> HIDE DEF n
  <2> QED BY <1>3, PointsClearedFacts
<1>5. level' \in [Fellows -> Levels] /\ away' \subseteq Fellows
  BY <1>1 DEF PartyInv, PartyTypeOK
<1> HIDE DEF q
<1> QED BY <1>1, <1>2, <1>4, <1>5, TouchOne

\* The party of somebody who rose or walked is told.
LEMMA TellKeeps ==
    ASSUME PartyInv, NEW p \in Fellows, SoundFor(p), TellParty(p, level', away'),
           UNCHANGED <<online, partyOf, invitations>>,
           level' \in [Fellows -> Levels], away' \subseteq Fellows,
           \A r \in Fellows : r # p => level'[r] = level[r] /\ (r \in away' <=> r \in away)
    PROVE  PartyInv'
<1> DEFINE k == partyOf[p]
           n == parties[k]
           q == Updated(n, level', away')
<1>1. CASE k = NoParty
  <2>1. UNCHANGED parties
    BY <1>1 DEF TellParty
  <2>2. \A r \in Fellows : partyOf[r] # NoParty =>
           level'[r] = level[r] /\ (r \in away' <=> r \in away)
    BY <1>1
  <2> QED BY <2>1, <2>2, TouchNone
<1>2. CASE k # NoParty
  <2>1. Sound(k) /\ parties' = [parties EXCEPT ![k] = q]
    BY <1>2 DEF SoundFor, TellParty
  <2>2. k \in PartyIds
    BY <1>2 DEF PartyInv, PartyTypeOK
  <2>3. \A r \in Fellows : partyOf[r] # k => level'[r] = level[r] /\ (r \in away' <=> r \in away)
    OBVIOUS
  <2> HIDE DEF k
  <2>4. GoodParty(n)
    BY <2>1, <2>2, SoundFacts
  <2>5. /\ GoodParty(q) /\ Current(q, level', away') /\ q.leader = n.leader
        /\ q.members = n.members /\ q.invites = n.invites
    <3> HIDE DEF n
    <3> QED BY <2>4, UpdatedGood
  <2> HIDE DEF q
  <2> QED BY <2>1, <2>2, <2>3, <2>5, TouchOne
<1> QED BY <1>1, <1>2

LEMMA ChangeLevelKeeps ==
    ASSUME PartyInv, NEW p \in Fellows, NEW n \in Levels, ChangeLevel(p, n)
    PROVE  PartyInv'
<1>1. /\ SoundFor(p) /\ level' = [level EXCEPT ![p] = n] /\ TellParty(p, level', away)
      /\ UNCHANGED <<online, partyOf, invitations, away>>
  BY DEF ChangeLevel
<1>2. level \in [Fellows -> Levels] /\ away \subseteq Fellows
  BY DEF PartyInv, PartyTypeOK
<1>3. TellParty(p, level', away')
  BY <1>1 DEF TellParty
<1>4. level' \in [Fellows -> Levels] /\ away' \subseteq Fellows
      /\ \A r \in Fellows : r # p => level'[r] = level[r] /\ (r \in away' <=> r \in away)
  BY <1>1, <1>2
<1> QED BY <1>1, <1>3, <1>4, TellKeeps

LEMMA WalkKeeps ==
    ASSUME PartyInv, NEW p \in Fellows, Walk(p)
    PROVE  PartyInv'
<1>1. /\ SoundFor(p) /\ away' = IF p \in away THEN away \ {p} ELSE away \cup {p}
      /\ TellParty(p, level, away') /\ UNCHANGED <<online, partyOf, invitations, level>>
  BY DEF Walk
<1>2. level \in [Fellows -> Levels] /\ away \subseteq Fellows
  BY DEF PartyInv, PartyTypeOK
<1>3. TellParty(p, level', away')
  BY <1>1 DEF TellParty
<1>4. level' \in [Fellows -> Levels] /\ away' \subseteq Fellows
      /\ \A r \in Fellows : r # p => level'[r] = level[r] /\ (r \in away' <=> r \in away)
  BY <1>1, <1>2
<1> QED BY <1>1, <1>3, <1>4, TellKeeps

\* A party that knows that it does not know: its conditions have changed.
LEMMA SpoiledFacts ==
    ASSUME NEW q, GoodParty(q), NEW t \in [Fellows -> TickStates],
           \A x \in Fellows : t[x] # "none" => x \in Company(q),
           NEW n, n = [q EXCEPT !.ticks = t, !.stale = q.active]
    PROVE  /\ GoodParty(n) /\ n.leader = q.leader /\ n.members = q.members /\ n.invites = q.invites
           /\ \A lv, far : Current(n, lv, far)
<1>1. /\ q \in PartyObject /\ OnceEach(q.members, Fellows) /\ q.leader \notin ToSet(q.members)
  BY DEF GoodParty
<1>2. /\ n \in PartyObject /\ n.leader = q.leader /\ n.members = q.members /\ n.invites = q.invites
      /\ n.ticks = t /\ n.active = q.active /\ n.stale = q.active
  BY <1>1 DEF PartyObject
<1>3. Company(n) = Company(q)
  BY <1>2 DEF Company
<1>4. GoodParty(n)
  BY <1>1, <1>2, <1>3 DEF GoodParty
<1>5. ~(n.active /\ ~n.stale)
  BY <1>2
<1>6. \A lv, far : Current(n, lv, far)
  BY <1>5 DEF Current
<1> QED BY <1>2, <1>4, <1>6

LEMMA DieKeeps ==
    ASSUME PartyInv, NEW p \in Fellows, NEW n \in Levels, Die(p, n)
    PROVE  PartyInv'
<1> DEFINE k == partyOf[p]
           o == parties[k]
           q == [o EXCEPT !.stale = o.active]
<1>1. /\ SoundFor(p) /\ level' = [level EXCEPT ![p] = n]
      /\ parties' = (IF k = NoParty THEN parties ELSE Spoiled(k))
      /\ UNCHANGED <<online, partyOf, invitations, away>>
  BY DEF Die
<1>2. level \in [Fellows -> Levels] /\ away \subseteq Fellows
      /\ parties \in [PartyIds -> PartyObject \cup {NoParty}]
  BY DEF PartyInv, PartyTypeOK
<1>3. level' \in [Fellows -> Levels] /\ away' \subseteq Fellows
      /\ \A r \in Fellows : r # p => level'[r] = level[r] /\ (r \in away' <=> r \in away)
  BY <1>1, <1>2
<1>4. CASE k = NoParty
  <2>1. UNCHANGED parties
    BY <1>1, <1>4
  <2>2. \A r \in Fellows : partyOf[r] # NoParty =>
           level'[r] = level[r] /\ (r \in away' <=> r \in away)
    BY <1>3, <1>4
  <2> QED BY <1>1, <1>3, <2>1, <2>2, TouchNone
<1>5. CASE k # NoParty
  <2>1. k \in PartyIds
    BY <1>5 DEF PartyInv, PartyTypeOK
  <2>2. Sound(k) /\ parties' = [parties EXCEPT ![k] = q]
    BY <1>1, <1>2, <1>5, <2>1 DEF SoundFor, Spoiled
  <2>3. \A r \in Fellows : partyOf[r] # k => level'[r] = level[r] /\ (r \in away' <=> r \in away)
    BY <1>3
  <2> HIDE DEF k
  <2>4. GoodParty(o)
    BY <2>1, <2>2, SoundFacts
  <2>5. /\ GoodParty(q) /\ q.leader = o.leader /\ q.members = o.members /\ q.invites = o.invites
        /\ Current(q, level', away')
    <3> HIDE DEF o
    <3>1. /\ o \in PartyObject /\ \A x \in Fellows : o.ticks[x] # "none" => x \in Company(o)
      BY <2>4 DEF GoodParty
    <3>2. o.ticks \in [Fellows -> TickStates]
      BY <3>1 DEF PartyObject
    <3>3. q = [o EXCEPT !.ticks = o.ticks, !.stale = o.active]
      BY <3>1 DEF PartyObject
    <3> HIDE DEF q
    <3> QED BY <2>4, <3>1, <3>2, <3>3, SpoiledFacts
  <2> HIDE DEF q
  <2> QED BY <1>1, <1>3, <2>1, <2>2, <2>3, <2>5, TouchOne
<1> QED BY <1>4, <1>5

LEMMA TimeOutKeeps ==
    ASSUME PartyInv, NEW p \in Fellows, NEW k \in PartyIds, TimeOut(p, k)
    PROVE  PartyInv'
<1> DEFINE o == parties[k]
           t == [o.ticks EXCEPT ![p] = "old"]
           q == [o EXCEPT !.ticks = t, !.stale = o.active]
<1>1. Sound(k) /\ o.ticks[p] = "fresh" /\ UNCHANGED <<online, partyOf, invitations, level, away>>
  BY DEF TimeOut
<1>2. GoodParty(o)
  BY <1>1, SoundFacts
<1>3. parties \in [PartyIds -> PartyObject \cup {NoParty}] /\ level' \in [Fellows -> Levels]
      /\ away' \subseteq Fellows
  BY <1>1 DEF PartyInv, PartyTypeOK
<1>4. /\ o \in PartyObject /\ \A x \in Fellows : o.ticks[x] # "none" => x \in Company(o)
  BY <1>2 DEF GoodParty
<1>5. parties' = [parties EXCEPT ![k] = q]
  <2>1. parties' = [parties EXCEPT ![k].ticks[p] = "old", ![k].stale = parties[k].active]
    BY DEF TimeOut
  <2> QED BY <2>1, <1>3, <1>4 DEF PartyObject
<1> HIDE DEF o
<1>6. t \in [Fellows -> TickStates] /\ \A x \in Fellows : t[x] # "none" => x \in Company(o)
  BY <1>1, <1>4 DEF PartyObject, TickStates
<1> HIDE DEF t
<1>7. /\ GoodParty(q) /\ q.leader = o.leader /\ q.members = o.members /\ q.invites = o.invites
      /\ Current(q, level', away')
  BY <1>2, <1>6, SpoiledFacts
<1>8. q.leader = parties[k].leader /\ q.members = parties[k].members
      /\ q.invites = parties[k].invites
  BY <1>7 DEF o
<1> HIDE DEF q
<1> QED BY <1>1, <1>3, <1>5, <1>7, <1>8, TouchOne

\* Whoever logs out gives up the invitations, and with the last of these a
\* party may end; who was in it and who was invited otherwise, stays so.
LEMMA LogoutKeeps ==
    ASSUME PartyInv, NEW p \in Fellows, Logout(p)
    PROVE  PartyInv'
<1> DEFINE less(k) == [parties[k] EXCEPT !.invites = parties[k].invites \ {p}]
           ended == {k \in invitations[p] : EmptyParty(less(k))}
<1>1. /\ p \in online /\ \A k \in invitations[p] : Sound(k)
      /\ parties' = [k \in PartyIds |-> IF k \in ended THEN NoParty
                        ELSE IF k \in invitations[p] THEN less(k) ELSE parties[k]]
      /\ partyOf' = [r \in Fellows |-> IF partyOf[r] \in ended THEN NoParty ELSE partyOf[r]]
      /\ invitations' = [invitations EXCEPT ![p] = {}]
      /\ online' = online \ {p}
      /\ away' = away \ {p} /\ level' = [level EXCEPT ![p] = StartLevel[p]]
  BY DEF Logout
<1>2. /\ online \subseteq Fellows /\ away \subseteq Fellows
      /\ partyOf \in [Fellows -> PartyIds \cup {NoParty}]
      /\ invitations \in [Fellows -> SUBSET PartyIds]
      /\ level \in [Fellows -> Levels]
      /\ parties \in [PartyIds -> PartyObject \cup {NoParty}]
  BY DEF PartyInv, PartyTypeOK
<1>3. StartLevel[p] \in Levels /\ NoParty \notin PartyIds /\ NoParty \notin PartyObject
  BY PartyAssumption
<1>4. ASSUME NEW k \in invitations[p]
      PROVE  /\ k \in PartyIds /\ GoodParty(less(k)) /\ less(k) \in PartyObject /\ less(k) # NoParty
             /\ Company(less(k)) = Company(parties[k])
             /\ less(k).invites = parties[k].invites \ {p} /\ Current(less(k), level, away)
             /\ parties[k] # NoParty
  <2> DEFINE q == parties[k]
             i == q.invites \ {p}
             n == less(k)
  <2>1. k \in PartyIds /\ Sound(k)
    BY <1>1, <1>2
  <2>2. GoodParty(q) /\ Current(q, level, away) /\ i \in SUBSET Fellows /\ q # NoParty
    <3>1. /\ GoodParty(parties[k]) /\ Current(parties[k], level, away)
          /\ parties[k].invites \subseteq online
      BY <2>1, SoundFacts
    <3> QED BY <3>1, <2>1, <1>2 DEF Sound
  <2>3. n = [q EXCEPT !.invites = i]
    OBVIOUS
  <2> HIDE DEF q, i, n
  <2>4. GoodParty(n) /\ Company(n) = Company(q) /\ n.invites = i /\ Current(n, level, away)
    BY <2>2, <2>3, InvitesFacts
  <2>5. n \in PartyObject
    BY <2>4 DEF GoodParty
  <2> QED BY <2>1, <2>2, <2>4, <2>5, <1>3 DEF n, i, q
<1>5. ended \subseteq PartyIds /\ ended \subseteq invitations[p]
      /\ \A k \in invitations[p] : k \in ended <=> EmptyParty(less(k))
  BY <1>2
<1> HIDE DEF ended
<1>6. /\ parties' \in [PartyIds -> PartyObject \cup {NoParty}]
      /\ \A k \in PartyIds : parties'[k] = IF k \in ended THEN NoParty
                        ELSE IF k \in invitations[p] THEN less(k) ELSE parties[k]
  <2> HIDE DEF less
  <2> QED BY <1>1, <1>2, <1>4
<1> HIDE DEF less
<1>7. /\ partyOf' \in [Fellows -> PartyIds \cup {NoParty}]
      /\ \A r \in Fellows : partyOf'[r] = IF partyOf[r] \in ended THEN NoParty ELSE partyOf[r]
  BY <1>1, <1>2
<1>8. /\ invitations' \in [Fellows -> SUBSET PartyIds] /\ invitations'[p] = {}
      /\ \A r \in Fellows : r # p => invitations'[r] = invitations[r]
  BY <1>1, <1>2
<1>9. /\ level' \in [Fellows -> Levels] /\ away' \subseteq Fellows /\ online' \subseteq Fellows
      /\ \A r \in Fellows : r # p => level'[r] = level[r] /\ (r \in away' <=> r \in away)
  BY <1>1, <1>2, <1>3
<1>10. PartyTypeOK'
  BY <1>6, <1>7, <1>8, <1>9 DEF PartyTypeOK
<1>11. ASSUME NEW k \in PartyIds, k \notin ended, parties[k] # NoParty
       PROVE  /\ parties'[k] # NoParty /\ Company(parties'[k]) = Company(parties[k])
              /\ \A r \in Fellows : r # p =>
                     (r \in parties'[k].invites <=> r \in parties[k].invites)
  BY <1>4, <1>6, <1>11
<1>12. Mutual'
  <2> SUFFICES ASSUME NEW r \in online', NEW j \in PartyIds
               PROVE  /\ j \in invitations'[r] => parties'[j] # NoParty /\ r \in parties'[j].invites
                      /\ partyOf'[r] = j => parties'[j] # NoParty /\ r \in Company(parties'[j])
    BY DEF Mutual
  <2>1. /\ r \in Fellows /\ r # p
        /\ j \in invitations[r] => parties[j] # NoParty /\ r \in parties[j].invites
        /\ partyOf[r] = j => parties[j] # NoParty /\ r \in Company(parties[j])
    BY <1>1, <1>2 DEF PartyInv, Mutual
  <2>2. ASSUME j \in invitations'[r]
        PROVE  parties'[j] # NoParty /\ r \in parties'[j].invites
    <3>1. parties[j] # NoParty /\ r \in parties[j].invites
      BY <2>1, <2>2, <1>8
    <3>2. j \notin ended
      <4>1. SUFFICES ASSUME j \in ended PROVE FALSE
        OBVIOUS
      <4>2. r \in less(j).invites
        BY <4>1, <3>1, <2>1, <1>4, <1>5
      <4>3. EmptyParty(less(j))
        BY <4>1, <1>5
      <4> QED BY <4>2, <4>3 DEF EmptyParty
    <3> QED BY <3>1, <3>2, <2>1, <1>11
  <2>3. ASSUME partyOf'[r] = j
        PROVE  parties'[j] # NoParty /\ r \in Company(parties'[j])
    <3>1. partyOf[r] = j /\ j \notin ended
      BY <2>1, <2>3, <1>3, <1>7
    <3> QED BY <3>1, <2>1, <1>11
  <2> QED BY <2>2, <2>3
<1>13. ASSUME NEW j \in PartyIds, Sound(j)' PROVE Fine(j)'
  <2>1. parties'[j] # NoParty /\ Company(parties'[j]) \subseteq online \ {p}
    BY <1>13, <1>1 DEF Sound
  <2>2. j \notin ended /\ parties[j] # NoParty
    BY <2>1, <1>4, <1>6
  <2>3. Company(parties'[j]) = Company(parties[j])
    BY <2>2, <1>11
  <2>4. Sound(j)
    BY <2>1, <2>2, <2>3 DEF Sound
  <2>5. Fine(j)
    BY <2>4 DEF PartyInv
  <2>6. GoodParty(parties'[j]) /\ Current(parties'[j], level, away) /\ ~EmptyParty(parties'[j])
    <3>1. CASE j \in invitations[p]
      <4>1. parties'[j] = less(j)
        BY <3>1, <2>2, <1>6
      <4> QED BY <4>1, <3>1, <2>2, <1>4, <1>5
    <3>2. CASE j \notin invitations[p]
      <4>1. parties'[j] = parties[j]
        BY <3>2, <2>2, <1>6
      <4> QED BY <4>1, <2>5 DEF Fine
    <3> QED BY <3>1, <3>2
  <2>7. Current(parties'[j], level', away')
    <3>1. \A r \in Company(parties'[j]) : level'[r] = level[r] /\ (r \in away' <=> r \in away)
      BY <2>1, <1>2, <1>9
    <3> QED BY <3>1, <2>6, CurrentSame
  <2>8. ASSUME NEW r \in Company(parties'[j]) PROVE partyOf'[r] = j /\ j \notin invitations'[r]
    <3>1. r \in Fellows /\ r # p /\ partyOf[r] = j /\ j \notin invitations[r]
      BY <2>1, <2>3, <2>5, <1>2 DEF Fine
    <3> QED BY <3>1, <2>2, <1>7, <1>8
  <2>9. ASSUME NEW r \in parties'[j].invites PROVE r \in online' /\ j \in invitations'[r]
    <3>1. r \in parties[j].invites /\ (j \in invitations[p] => r # p)
      <4>1. CASE j \in invitations[p]
        BY <4>1, <2>2, <1>4, <1>6
      <4>2. CASE j \notin invitations[p]
        BY <4>2, <2>2, <1>6
      <4> QED BY <4>1, <4>2
    <3>2. r \in online /\ j \in invitations[r]
      BY <3>1, <2>5 DEF Fine
    <3>3. r # p
      BY <3>1, <3>2
    <3> QED BY <3>2, <3>3, <1>1, <1>2, <1>8
  <2> QED BY <2>6, <2>7, <2>8, <2>9 DEF Fine
<1> QED BY <1>10, <1>12, <1>13 DEF PartyInv

LEMMA PartyInvInit == PartyInit => PartyInv
<1> SUFFICES ASSUME PartyInit PROVE PartyInv
  OBVIOUS
<1>1. PartyTypeOK
  BY PartyAssumption DEF PartyInit, PartyTypeOK
<1>2. Mutual
  BY PartyAssumption DEF PartyInit, Mutual
<1>3. \A k \in PartyIds : ~Sound(k)
  BY DEF PartyInit, Sound
<1> QED BY <1>1, <1>2, <1>3 DEF PartyInv

LEMMA PartyInvNext == PartyInv /\ [PartyNext]_partyVars => PartyInv'
<1> SUFFICES ASSUME PartyInv, [PartyNext]_partyVars PROVE PartyInv'
  OBVIOUS
<1>1. CASE UNCHANGED partyVars
  BY <1>1 DEF partyVars, PartyInv, PartyTypeOK, Mutual, Fine, Sound
<1>2. ASSUME NEW p \in Fellows, NEW r \in Fellows,
             Invite(p, r) \/ Join(p, r) \/ RevokeInvitation(p, r) \/ PassLeadership(p, r)
      PROVE  PartyInv'
  BY <1>2, InviteKeeps, JoinKeeps, RevokeKeeps, PassKeeps
<1>3. ASSUME NEW p \in Fellows, Leave(p) \/ Logout(p) \/ Walk(p) \/ Fight(p) \/ Idle(p)
      PROVE  PartyInv'
  BY <1>3, LeaveKeeps, LogoutKeeps, WalkKeeps, FightKeeps, IdleKeeps
<1>4. ASSUME NEW p \in Fellows, NEW on \in BOOLEAN, EnableShared(p, on)
      PROVE  PartyInv'
  BY <1>4, EnableKeeps
<1>5. ASSUME NEW p \in Fellows, NEW n \in Levels, ChangeLevel(p, n) \/ Die(p, n)
      PROVE  PartyInv'
  BY <1>5, ChangeLevelKeeps, DieKeeps
<1>6. ASSUME NEW p \in Fellows, NEW k \in PartyIds, TimeOut(p, k)
      PROVE  PartyInv'
  BY <1>6, TimeOutKeeps
<1> QED BY <1>1, <1>2, <1>3, <1>4, <1>5, <1>6 DEF PartyNext

\* Players and parties agree, whatever the players do and whoever logs out
\* in between: PartyConsistent holds of Party for any number of players and
\* parties and all levels.
THEOREM PartyConsistentHolds == PartySpec => []PartyConsistent
BY PartyInvInit, PartyInvNext, PartyInvConsistent, PTL DEF PartySpec

-----------------------------------------------------------------------------
(* Chat. *)

\* The states of module Chat, as records.
ChatStates ==
    [life : [Speakers -> {"out", "in", "dead"}], open : SUBSET Channels, inUse : Fashions,
     users : [Channels -> SUBSET Speakers],
     owner : [PrivateIds -> SUBSET Speakers], invites : [PrivateIds -> SUBSET Speakers],
     guild : [Speakers -> Guilds \cup {NoGuild}], loaded : SUBSET Guilds,
     membersOnline : [Guilds -> SUBSET Speakers], band : [Speakers -> Bands \cup {NoBand}],
     dangling : SUBSET Speakers, reborn : SUBSET Speakers, haunted : SUBSET Guilds,
     moved : SUBSET Speakers, departed : SUBSET Speakers, spoiled : SUBSET Guilds,
     undefined : BOOLEAN]

\* Who uses a channel is in the game and belongs there.
UsersBelong(s) ==
    \A c \in Channels : \A p \in s.users[c] :
        /\ s.life[p] = "in" /\ c \in s.open
        /\ c \in Guilds => s.guild[p] = c \/ p \in s.moved
        /\ c \in Bands => s.band[p] = c \/ p \in s.departed

\* Private channels: one owner each, and nobody but owner and invited players.
PrivateKept(s) ==
    /\ \A c \in PrivateIds :
          /\ \A p \in s.invites[c] : s.life[p] = "in"
          /\ c \in s.open => \E p \in Speakers : s.owner[c] = {p}
          /\ s.owner[c] \subseteq s.users[c]
          /\ s.users[c] \subseteq s.owner[c] \cup s.invites[c]
    /\ \A c, d \in PrivateIds, p \in Speakers : p \in s.owner[c] /\ p \in s.owner[d] => c = d

\* Players and their guilds.  A Player that does not exist was not reborn.
GuildsKept(s) ==
    /\ \A p \in Speakers, g \in Guilds :
          /\ s.life[p] = "in" /\ s.guild[p] = g =>
                (g \in s.loaded /\ p \in s.membersOnline[g] /\ p \notin s.dangling) \/ p \in s.reborn
          /\ p \in s.membersOnline[g] => (s.life[p] = "in" /\ s.guild[p] = g) \/ g \in s.spoiled
    /\ s.haunted \subseteq s.spoiled
    /\ \A p \in s.dangling : s.life[p] = "dead" \/ p \in s.reborn
    /\ \A p \in s.reborn : s.life[p] # "out"

ChatOK(s) == s \in ChatStates /\ UsersBelong(s) /\ PrivateKept(s) /\ GuildsKept(s)

LEMMA ChatSoundFollows == ChatOK(chat) => ChatSound
<1> SUFFICES ASSUME ChatOK(chat) PROVE ChatSound
  OBVIOUS
<1>1. ChatTypeOK
  BY DEF ChatOK, ChatStates, ChatTypeOK
<1>2. ASSUME NEW c \in PrivateIds, c \in chat.open PROVE Cardinality(chat.owner[c]) = 1
  <2>1. PICK p \in Speakers : chat.owner[c] = {p}
    BY <1>2 DEF ChatOK, PrivateKept
  <2>2. QED
    BY <2>1, FS_Singleton
<1>3. ASSUME NEW p \in Speakers PROVE Cardinality(Owned(chat, p)) <= 1
  <2>1. CASE Owned(chat, p) = {}
    BY <2>1, FS_EmptySet
  <2>2. CASE Owned(chat, p) # {}
    <3>1. PICK c \in PrivateIds : p \in chat.owner[c]
      BY <2>2 DEF Owned
    <3>2. Owned(chat, p) = {c}
      BY <3>1 DEF Owned, ChatOK, PrivateKept
    <3>3. Cardinality(Owned(chat, p)) = 1
      BY <3>2, FS_Singleton
    <3>4. QED
      BY <3>3
  <2>3. QED
    BY <2>1, <2>2
<1>4. ASSUME NEW c \in PrivateIds
      PROVE  /\ \A p \in chat.invites[c] : Present(p)
             /\ chat.owner[c] \subseteq chat.users[c]
             /\ chat.users[c] \subseteq chat.owner[c] \cup chat.invites[c]
  BY DEF ChatOK, PrivateKept, Present
<1>5. ASSUME NEW c \in Channels, NEW p \in chat.users[c]
      PROVE  /\ Present(p) /\ c \in chat.open
             /\ c \in Guilds => chat.guild[p] = c \/ p \in chat.moved
             /\ c \in Bands => chat.band[p] = c \/ p \in chat.departed
  BY DEF ChatOK, UsersBelong, Present
<1>6. ASSUME NEW p \in Speakers, NEW g \in Guilds
      PROVE  /\ Present(p) /\ chat.guild[p] = g =>
                   \/ g \in chat.loaded /\ p \in chat.membersOnline[g] \ chat.dangling
                   \/ p \in chat.reborn
             /\ p \in chat.membersOnline[g] => (Present(p) /\ chat.guild[p] = g) \/ g \in chat.spoiled
             /\ g \in chat.haunted => g \in chat.spoiled
  BY DEF ChatOK, GuildsKept, Present
<1>7. \A p \in chat.dangling : chat.life[p] = "dead" \/ p \in chat.reborn
  BY DEF ChatOK, GuildsKept
<1>8. QED
  BY <1>1, <1>2, <1>3, <1>4, <1>5, <1>6, <1>7 DEF ChatSound

LEMMA InitChat == ChatInit => ChatOK(chat)
<1> SUFFICES ASSUME ChatInit PROVE ChatOK(chat)
  OBVIOUS
<1>1. chat \in ChatStates
  BY DEF ChatInit, ChatStates, Channels
<1>2. UsersBelong(chat) /\ GuildsKept(chat)
  BY DEF ChatInit, UsersBelong, GuildsKept
<1>3. PrivateKept(chat)
  <2>1. /\ chat.open = NormalIds /\ chat.users = [c \in Channels |-> {}]
        /\ chat.owner = [c \in PrivateIds |-> {}] /\ chat.invites = [c \in PrivateIds |-> {}]
    BY DEF ChatInit
  <2>2. PrivateIds \cap NormalIds = {} /\ PrivateIds \subseteq Channels
    BY ChannelsAssumption DEF Channels
  <2>3. QED
    BY <2>1, <2>2 DEF PrivateKept
<1>4. QED
  BY <1>1, <1>2, <1>3 DEF ChatOK

\* What a state keeps when only its channels change ...
SamePlayers(s, k) ==
    /\ k.life = s.life /\ k.inUse = s.inUse /\ k.guild = s.guild /\ k.loaded = s.loaded
    /\ k.membersOnline = s.membersOnline /\ k.band = s.band /\ k.dangling = s.dangling
    /\ k.reborn = s.reborn /\ k.haunted = s.haunted /\ k.spoiled = s.spoiled
    /\ k.undefined = s.undefined

\* ... and when only its players and guilds do.
SameChannels(s, k) ==
    /\ k.open = s.open /\ k.inUse = s.inUse /\ k.users = s.users
    /\ k.owner = s.owner /\ k.invites = s.invites

LEMMA DeletedChannels ==
    ASSUME NEW s \in ChatStates, NEW cs \in SUBSET PrivateIds
    PROVE  LET k == deleteChannels(s, cs)
           IN  /\ k \in ChatStates /\ SamePlayers(s, k)
               /\ k.open = s.open \ cs
               /\ k.users = [c \in Channels |-> IF c \in cs THEN {} ELSE s.users[c]]
               /\ k.owner = [c \in PrivateIds |-> IF c \in cs THEN {} ELSE s.owner[c]]
               /\ k.invites = [c \in PrivateIds |-> IF c \in cs THEN {} ELSE s.invites[c]]
               /\ k.moved = s.moved /\ k.departed = s.departed
<1> DEFINE k == deleteChannels(s, cs)
           U == [c \in Channels |-> IF c \in cs THEN {} ELSE s.users[c]]
           O == [c \in PrivateIds |-> IF c \in cs THEN {} ELSE s.owner[c]]
           I == [c \in PrivateIds |-> IF c \in cs THEN {} ELSE s.invites[c]]
<1>1. /\ U \in [Channels -> SUBSET Speakers] /\ O \in [PrivateIds -> SUBSET Speakers]
      /\ I \in [PrivateIds -> SUBSET Speakers] /\ s.open \ cs \in SUBSET Channels
  BY DEF ChatStates
<1>2. k = [s EXCEPT !.open = s.open \ cs, !.users = U, !.owner = O, !.invites = I]
  BY DEF deleteChannels, ChatStates
<1> HIDE DEF k, U, O, I
<1>3. k \in ChatStates
  BY <1>1, <1>2 DEF ChatStates
<1>4. /\ k.open = s.open \ cs /\ k.users = U /\ k.owner = O /\ k.invites = I
      /\ k.moved = s.moved /\ k.departed = s.departed
  BY <1>2 DEF ChatStates
<1>5. SamePlayers(s, k)
  BY <1>2 DEF ChatStates, SamePlayers
<1>6. QED
  BY <1>3, <1>4, <1>5 DEF k, U, O, I

LEMMA RemovedFromAll ==
    ASSUME NEW s \in ChatStates, NEW p \in Speakers
    PROVE  LET k == removeUserFromAllChannels(s, p)
               cs == Owned(s, p)
           IN  /\ k \in ChatStates /\ SamePlayers(s, k)
               /\ k.open = s.open \ cs
               /\ k.users = [c \in Channels |-> IF c \in cs THEN {} ELSE s.users[c] \ {p}]
               /\ k.owner = [c \in PrivateIds |-> IF c \in cs THEN {} ELSE s.owner[c]]
               /\ k.invites = [c \in PrivateIds |-> IF c \in cs THEN {} ELSE s.invites[c] \ {p}]
               /\ k.moved = s.moved \ {p} /\ k.departed = s.departed \ {p}
<1> DEFINE k == removeUserFromAllChannels(s, p)
           cs == Owned(s, p)
           U == [c \in Channels |-> s.users[c] \ {p}]
           I == [c \in PrivateIds |-> s.invites[c] \ {p}]
           t == [s EXCEPT !.users = U, !.invites = I, !.moved = s.moved \ {p}, !.departed = s.departed \ {p}]
<1>1. /\ U \in [Channels -> SUBSET Speakers] /\ I \in [PrivateIds -> SUBSET Speakers]
      /\ s.moved \ {p} \in SUBSET Speakers /\ s.departed \ {p} \in SUBSET Speakers
  BY DEF ChatStates
<1>2. k = deleteChannels(t, cs)
  BY DEF removeUserFromAllChannels, ChatStates
<1>3. cs \in SUBSET PrivateIds
  BY DEF Owned
<1> HIDE DEF k, U, I, cs
<1>4. /\ t \in ChatStates /\ SamePlayers(s, t)
      /\ t.users = U /\ t.invites = I /\ t.moved = s.moved \ {p} /\ t.departed = s.departed \ {p}
      /\ t.open = s.open /\ t.owner = s.owner
  BY <1>1 DEF ChatStates, SamePlayers
<1> HIDE DEF t
<1>5. /\ k \in ChatStates /\ SamePlayers(t, k)
      /\ k.open = t.open \ cs
      /\ k.users = [c \in Channels |-> IF c \in cs THEN {} ELSE t.users[c]]
      /\ k.owner = [c \in PrivateIds |-> IF c \in cs THEN {} ELSE t.owner[c]]
      /\ k.invites = [c \in PrivateIds |-> IF c \in cs THEN {} ELSE t.invites[c]]
      /\ k.moved = t.moved /\ k.departed = t.departed
  BY <1>2, <1>3, <1>4, DeletedChannels
<1>6. /\ k.users = [c \in Channels |-> IF c \in cs THEN {} ELSE s.users[c] \ {p}]
      /\ k.invites = [c \in PrivateIds |-> IF c \in cs THEN {} ELSE s.invites[c] \ {p}]
  BY <1>4, <1>5 DEF U, I
<1>7. SamePlayers(s, k)
  BY <1>4, <1>5 DEF SamePlayers
<1>8. QED
  BY <1>4, <1>5, <1>6, <1>7 DEF k, cs

\* Whoever is removed from all channels is on none, and the others are as before.
LEMMA RemovedFromAllOK ==
    ASSUME NEW s, ChatOK(s), NEW p \in Speakers
    PROVE  LET k == removeUserFromAllChannels(s, p)
           IN  /\ ChatOK(k) /\ SamePlayers(s, k)
               /\ \A c \in Channels : p \notin k.users[c]
               /\ \A c \in PrivateIds : p \notin k.invites[c]
<1> DEFINE k == removeUserFromAllChannels(s, p)
           cs == Owned(s, p)
<1>1. /\ k \in ChatStates /\ SamePlayers(s, k)
      /\ k.open = s.open \ cs
      /\ k.users = [c \in Channels |-> IF c \in cs THEN {} ELSE s.users[c] \ {p}]
      /\ k.owner = [c \in PrivateIds |-> IF c \in cs THEN {} ELSE s.owner[c]]
      /\ k.invites = [c \in PrivateIds |-> IF c \in cs THEN {} ELSE s.invites[c] \ {p}]
      /\ k.moved = s.moved \ {p} /\ k.departed = s.departed \ {p}
  BY RemovedFromAll DEF ChatOK
<1>2. \A c \in PrivateIds : c \notin cs => p \notin s.owner[c]
  BY DEF Owned
<1> HIDE DEF k, cs
<1>3. UsersBelong(k)
  <2> SUFFICES ASSUME NEW c \in Channels, NEW q \in k.users[c]
               PROVE  /\ k.life[q] = "in" /\ c \in k.open
                      /\ c \in Guilds => k.guild[q] = c \/ q \in k.moved
                      /\ c \in Bands => k.band[q] = c \/ q \in k.departed
    BY DEF UsersBelong
  <2>1. c \notin cs /\ q # p /\ q \in s.users[c]
    BY <1>1
  <2>2. QED
    BY <1>1, <2>1 DEF ChatOK, UsersBelong, SamePlayers
<1>4. PrivateKept(k)
  <2>0. PrivateIds \subseteq Channels
    BY DEF Channels
  <2>1. ASSUME NEW c \in PrivateIds
        PROVE  /\ \A q \in k.invites[c] : k.life[q] = "in"
               /\ c \in k.open => \E q \in Speakers : k.owner[c] = {q}
               /\ k.owner[c] \subseteq k.users[c]
               /\ k.users[c] \subseteq k.owner[c] \cup k.invites[c]
    <3>1. CASE c \in cs
      BY <1>1, <2>0, <3>1
    <3>2. CASE c \notin cs
      BY <1>1, <1>2, <2>0, <3>2 DEF ChatOK, PrivateKept, SamePlayers
    <3>3. QED
      BY <3>1, <3>2
  <2>2. \A c, d \in PrivateIds, q \in Speakers : q \in k.owner[c] /\ q \in k.owner[d] => c = d
    BY <1>1 DEF ChatOK, PrivateKept
  <2>3. QED
    BY <2>1, <2>2 DEF PrivateKept
<1>5. GuildsKept(k)
  BY <1>1 DEF ChatOK, GuildsKept, SamePlayers
<1>6. /\ \A c \in Channels : p \notin k.users[c]
      /\ \A c \in PrivateIds : p \notin k.invites[c]
  BY <1>1
<1>7. QED
  BY <1>1, <1>3, <1>4, <1>5, <1>6 DEF ChatOK, k

LEMMA RemovedFromOneOK ==
    ASSUME NEW s, ChatOK(s), NEW p \in Speakers, NEW c \in Channels, NEW scripted \in BOOLEAN
    PROVE  ChatOK(removeUserFromChannel(s, p, c, scripted))
<1> DEFINE k == removeUserFromChannel(s, p, c, scripted)
<1>0. s \in ChatStates /\ PrivateIds \subseteq Channels
  BY DEF ChatOK, Channels
<1>1. CASE k = s
  BY <1>1
<1>2. CASE c \in Owned(s, p) /\ k = deleteChannels(s, {c})
  <2>0. c \in PrivateIds
    BY <1>2 DEF Owned
  <2> HIDE DEF k
  <2>1. /\ k \in ChatStates /\ SamePlayers(s, k)
        /\ k.open = s.open \ {c}
        /\ k.users = [d \in Channels |-> IF d \in {c} THEN {} ELSE s.users[d]]
        /\ k.owner = [d \in PrivateIds |-> IF d \in {c} THEN {} ELSE s.owner[d]]
        /\ k.invites = [d \in PrivateIds |-> IF d \in {c} THEN {} ELSE s.invites[d]]
        /\ k.moved = s.moved /\ k.departed = s.departed
    BY <1>0, <1>2, <2>0, DeletedChannels
  <2>2. UsersBelong(k)
    BY <2>1 DEF ChatOK, UsersBelong, SamePlayers
  <2>3. PrivateKept(k)
    BY <1>0, <2>1 DEF ChatOK, PrivateKept, SamePlayers
  <2>4. GuildsKept(k)
    BY <2>1 DEF ChatOK, GuildsKept, SamePlayers
  <2>5. QED
    BY <2>1, <2>2, <2>3, <2>4 DEF ChatOK, k
<1>3. CASE c \notin Owned(s, p) /\ k = removeUser(s, p, c)
  <2> HIDE DEF k
  <2>1. /\ k \in ChatStates /\ SamePlayers(s, k)
        /\ k.open = s.open /\ k.owner = s.owner /\ k.invites = s.invites
        /\ k.users = [s.users EXCEPT ![c] = @ \ {p}]
        /\ k.moved = s.moved /\ k.departed = s.departed
    BY <1>0, <1>3 DEF removeUser, ChatStates, SamePlayers
  <2>2. s.users \in [Channels -> SUBSET Speakers]
    BY <1>0 DEF ChatStates
  <2>3. \A d \in Channels : k.users[d] = IF d = c THEN s.users[d] \ {p} ELSE s.users[d]
    BY <2>1, <2>2
  <2>4. UsersBelong(k)
    BY <2>1, <2>3 DEF ChatOK, UsersBelong, SamePlayers
  <2>5. c \in PrivateIds => p \notin s.owner[c]
    BY <1>3 DEF Owned
  <2>6. PrivateKept(k)
    BY <1>0, <2>1, <2>3, <2>5 DEF ChatOK, PrivateKept, SamePlayers
  <2>7. GuildsKept(k)
    BY <2>1 DEF ChatOK, GuildsKept, SamePlayers
  <2>8. QED
    BY <2>1, <2>4, <2>6, <2>7 DEF ChatOK, k
<1>4. QED
  BY <1>1, <1>2, <1>3 DEF removeUserFromChannel

\* The fields that removeMember() and addMember() leave alone.
SameButGuilds(s, k) ==
    /\ SameChannels(s, k) /\ k.life = s.life /\ k.guild = s.guild /\ k.band = s.band
    /\ k.reborn = s.reborn /\ k.haunted = s.haunted /\ k.spoiled = s.spoiled
    /\ k.moved = s.moved /\ k.departed = s.departed

LEMMA RemovedMember ==
    ASSUME NEW s \in ChatStates, NEW g \in Guilds, NEW p \in Speakers
    PROVE  LET k == removeMember(s, g, p)
           IN  /\ k \in ChatStates /\ SameButGuilds(s, k)
               /\ k.membersOnline = [s.membersOnline EXCEPT ![g] = @ \ {p}]
               /\ \/ k.loaded = s.loaded /\ k.dangling = s.dangling
                  \/ /\ s.membersOnline[g] \subseteq {p} /\ k.loaded = s.loaded \ {g}
                     /\ k.dangling = s.dangling \cup {q \in Speakers : s.life[q] # "out" /\ s.guild[q] = g}
<1> DEFINE k == removeMember(s, g, p)
           Q == s.dangling \cup {q \in Speakers : s.life[q] # "out" /\ s.guild[q] = g}
           M == [s.membersOnline EXCEPT ![g] = @ \ {p}]
<1>0. g # NoGuild
  BY ChatAssumption
<1>1. M \in [Guilds -> SUBSET Speakers] /\ Q \in SUBSET Speakers /\ s.loaded \ {g} \in SUBSET Guilds
  BY DEF ChatStates
<1>2. CASE s.membersOnline[g] \subseteq {p} /\ g \notin s.haunted
  <2>1. [s.membersOnline EXCEPT ![g] = {}] = M
    BY <1>2 DEF ChatStates
  <2>2. k = [s EXCEPT !.membersOnline = M, !.loaded = s.loaded \ {g}, !.dangling = Q]
    BY <1>0, <1>2, <2>1 DEF removeMember, ChatStates
  <2> HIDE DEF M, Q, k
  <2>3. k \in ChatStates /\ k.membersOnline = M /\ k.loaded = s.loaded \ {g} /\ k.dangling = Q
    BY <1>1, <2>2 DEF ChatStates
  <2>4. SameButGuilds(s, k)
    BY <2>2 DEF ChatStates, SameButGuilds, SameChannels
  <2>5. QED
    BY <1>2, <2>3, <2>4 DEF M, Q, k
<1>3. CASE ~(s.membersOnline[g] \subseteq {p} /\ g \notin s.haunted)
  <2>1. k = [s EXCEPT !.membersOnline = M]
    BY <1>0, <1>3 DEF removeMember, ChatStates
  <2> HIDE DEF M, Q, k
  <2>2. k \in ChatStates /\ k.membersOnline = M /\ k.loaded = s.loaded /\ k.dangling = s.dangling
    BY <1>1, <2>1 DEF ChatStates
  <2>3. SameButGuilds(s, k)
    BY <2>1 DEF ChatStates, SameButGuilds, SameChannels
  <2>4. QED
    BY <2>2, <2>3 DEF M, Q, k
<1>4. QED
  BY <1>2, <1>3

\* What is said of the players but p and their own guild.
OthersKept(s, p) ==
    \A q \in Speakers : q # p =>
        /\ q \in s.dangling => s.life[q] = "dead" \/ q \in s.reborn
        /\ \A h \in Guilds : s.life[q] = "in" /\ s.guild[q] = h =>
              \/ h \in s.loaded /\ q \in s.membersOnline[h] /\ q \notin s.dangling
              \/ q \in s.reborn

\* removeMember() may break only what is said of the player who leaves: all
\* others who have lost their guild with that were reborn or are dead.
LEMMA RemovedMemberOK ==
    ASSUME NEW s \in ChatStates, NEW g \in Guilds \cup {NoGuild}, NEW p \in Speakers, OthersKept(s, p)
    PROVE  LET k == removeMember(s, g, p)
           IN  /\ k \in ChatStates /\ SameButGuilds(s, k)
               /\ g # NoGuild => p \notin k.membersOnline[g]
               /\ \A h \in Guilds : /\ k.membersOnline[h] \subseteq s.membersOnline[h]
                                    /\ s.membersOnline[h] \subseteq k.membersOnline[h] \cup {p}
                                    /\ h # g => k.membersOnline[h] = s.membersOnline[h]
               /\ OthersKept(k, p)
               /\ p \in k.dangling => p \in s.dangling \/ s.guild[p] = g
               /\ \A h \in s.loaded : h # g => h \in k.loaded
<1> DEFINE k == removeMember(s, g, p)
<1>0. NoGuild \notin Guilds
  BY ChatAssumption
<1>1. CASE g = NoGuild
  <2>1. k = s
    BY <1>1 DEF removeMember
  <2>2. QED
    BY <1>0, <1>1, <2>1 DEF OthersKept, SameButGuilds, SameChannels
<1>2. CASE g \in Guilds
  <2>1. /\ k \in ChatStates /\ SameButGuilds(s, k)
        /\ k.membersOnline = [s.membersOnline EXCEPT ![g] = @ \ {p}]
        /\ \/ k.loaded = s.loaded /\ k.dangling = s.dangling
           \/ /\ s.membersOnline[g] \subseteq {p} /\ k.loaded = s.loaded \ {g}
              /\ k.dangling = s.dangling \cup {q \in Speakers : s.life[q] # "out" /\ s.guild[q] = g}
    BY <1>0, <1>2, RemovedMember
  <2>2. s.membersOnline \in [Guilds -> SUBSET Speakers] /\ s.life \in [Speakers -> {"out", "in", "dead"}]
    BY <1>0 DEF ChatStates
  <2> HIDE DEF k
  <2>3. \A h \in Guilds : k.membersOnline[h] = IF h = g THEN s.membersOnline[h] \ {p} ELSE s.membersOnline[h]
    BY <2>1, <2>2
  <2>4. ASSUME NEW q \in Speakers, q # p, q \in k.dangling PROVE k.life[q] = "dead" \/ q \in k.reborn
    <3>1. CASE q \in s.dangling
      BY <2>1, <2>4, <3>1 DEF OthersKept, SameButGuilds
    <3>2. CASE q \notin s.dangling
      <4>1. s.membersOnline[g] \subseteq {p} /\ s.life[q] # "out" /\ s.guild[q] = g
        BY <2>1, <2>4, <3>2
      <4>2. QED
        BY <1>2, <2>1, <2>2, <2>4, <4>1 DEF OthersKept, SameButGuilds
    <3>3. QED
      BY <3>1, <3>2
  <2>5. ASSUME NEW q \in Speakers, q # p, NEW h \in Guilds, k.life[q] = "in", k.guild[q] = h
        PROVE  \/ h \in k.loaded /\ q \in k.membersOnline[h] /\ q \notin k.dangling
               \/ q \in k.reborn
    <3>1. CASE q \in s.reborn
      BY <2>1, <3>1 DEF SameButGuilds
    <3>2. CASE q \notin s.reborn
      <4>1. h \in s.loaded /\ q \in s.membersOnline[h] /\ q \notin s.dangling
        BY <2>1, <2>5, <3>2 DEF OthersKept, SameButGuilds
      <4>2. q \in k.membersOnline[h]
        BY <2>3, <2>5, <4>1
      <4>3. q \notin k.dangling
        BY <2>1, <2>4, <2>5, <3>2 DEF SameButGuilds
      <4>4. h \in k.loaded
        BY <2>1, <2>5, <4>1
      <4>5. QED
        BY <4>2, <4>3, <4>4
    <3>3. QED
      BY <3>1, <3>2
  <2>6. p \in k.dangling => p \in s.dangling \/ s.guild[p] = g
    BY <2>1
  <2>7. \A h \in s.loaded : h # g => h \in k.loaded
    BY <2>1
  <2>8. QED
    BY <1>0, <2>1, <2>3, <2>4, <2>5, <2>6, <2>7 DEF OthersKept, k
<1>3. QED
  BY <1>1, <1>2

\* onRemoveCreature() of p: nothing of the channels points to p any more, and
\* of the guilds only those a script has spoiled.
LEMMA RemovedCreature ==
    ASSUME NEW s, ChatOK(s), NEW p \in Speakers
    PROVE  LET k == onRemoveCreature(s, p)
           IN  /\ k \in ChatStates /\ UsersBelong(k) /\ PrivateKept(k)
               /\ \A c \in Channels : p \notin k.users[c]
               /\ \A c \in PrivateIds : p \notin k.invites[c]
               /\ k.haunted \subseteq k.spoiled
               /\ \A h \in Guilds : p \in k.membersOnline[h] => h \in k.spoiled
               /\ \A q \in Speakers : q # p =>
                     /\ q \in k.dangling => k.life[q] = "dead" \/ q \in k.reborn
                     /\ q \in k.reborn => k.life[q] # "out"
                     /\ \A h \in Guilds :
                           /\ q \in k.membersOnline[h] => (k.life[q] = "in" /\ k.guild[q] = h) \/ h \in k.spoiled
                           /\ k.life[q] = "in" /\ k.guild[q] = h =>
                                 \/ h \in k.loaded /\ q \in k.membersOnline[h] /\ q \notin k.dangling
                                 \/ q \in k.reborn
<1> DEFINE t == removeUserFromAllChannels(s, p)
           g == s.guild[p]
           k == removeMember(t, g, p)
<1>1. /\ ChatOK(t) /\ SamePlayers(s, t)
      /\ \A c \in Channels : p \notin t.users[c]
      /\ \A c \in PrivateIds : p \notin t.invites[c]
  BY RemovedFromAllOK
<1>2. g \in Guilds \cup {NoGuild} /\ t.guild[p] = g
  BY <1>1 DEF ChatOK, ChatStates, SamePlayers
<1>3. onRemoveCreature(s, p) = k
  BY DEF onRemoveCreature
<1> HIDE DEF t, g
<1>4. /\ k \in ChatStates /\ SameButGuilds(t, k)
      /\ g # NoGuild => p \notin k.membersOnline[g]
      /\ \A h \in Guilds : /\ k.membersOnline[h] \subseteq t.membersOnline[h]
                           /\ h # g => k.membersOnline[h] = t.membersOnline[h]
      /\ OthersKept(k, p)
  <2>1. t \in ChatStates /\ OthersKept(t, p)
    BY <1>1 DEF ChatOK, GuildsKept, OthersKept
  <2>2. p \in Speakers /\ g \in Guilds \cup {NoGuild}
    BY <1>2
  <2>3. /\ removeMember(t, g, p) \in ChatStates /\ SameButGuilds(t, removeMember(t, g, p))
        /\ g # NoGuild => p \notin removeMember(t, g, p).membersOnline[g]
        /\ OthersKept(removeMember(t, g, p), p)
    BY <2>1, <2>2, RemovedMemberOK
  <2>4. \A h \in Guilds : /\ removeMember(t, g, p).membersOnline[h] \subseteq t.membersOnline[h]
                          /\ h # g => removeMember(t, g, p).membersOnline[h] = t.membersOnline[h]
    BY <2>1, <2>2, RemovedMemberOK
  <2>5. QED
    BY <2>3, <2>4
<1> HIDE DEF k
<1>5. UsersBelong(k) /\ PrivateKept(k)
  BY <1>1, <1>4 DEF ChatOK, UsersBelong, PrivateKept, SameButGuilds, SameChannels
<1>6. /\ \A c \in Channels : p \notin k.users[c]
      /\ \A c \in PrivateIds : p \notin k.invites[c]
      /\ k.haunted \subseteq k.spoiled
  BY <1>1, <1>4 DEF ChatOK, GuildsKept, SameButGuilds, SameChannels
<1>7. ASSUME NEW h \in Guilds, p \in k.membersOnline[h] PROVE h \in k.spoiled
  <2>1. h # g /\ p \in t.membersOnline[h]
    BY <1>4, <1>7, ChatAssumption
  <2>2. QED
    BY <1>1, <1>2, <1>4, <2>1 DEF ChatOK, GuildsKept, SameButGuilds
<1>8. ASSUME NEW q \in Speakers, NEW h \in Guilds, q \in k.membersOnline[h]
      PROVE  (k.life[q] = "in" /\ k.guild[q] = h) \/ h \in k.spoiled
  BY <1>1, <1>4, <1>8 DEF ChatOK, GuildsKept, SameButGuilds
<1>9. \A q \in Speakers : q \in k.reborn => k.life[q] # "out"
  BY <1>1, <1>4 DEF ChatOK, GuildsKept, SameButGuilds
<1>10. QED
  BY <1>3, <1>4, <1>5, <1>6, <1>7, <1>8, <1>9 DEF OthersKept

\* The Player object of p, to whom no channel points, is deleted.
LEMMA DeletedOK ==
    ASSUME NEW s \in ChatStates, NEW p \in Speakers, UsersBelong(s), PrivateKept(s),
           \A c \in Channels : p \notin s.users[c],
           \A c \in PrivateIds : p \notin s.invites[c],
           s.haunted \subseteq s.spoiled,
           \A h \in Guilds : p \in s.membersOnline[h] => h \in s.spoiled,
           \A q \in Speakers : q # p =>
               /\ q \in s.dangling => s.life[q] = "dead" \/ q \in s.reborn
               /\ q \in s.reborn => s.life[q] # "out"
               /\ \A h \in Guilds :
                     /\ q \in s.membersOnline[h] => (s.life[q] = "in" /\ s.guild[q] = h) \/ h \in s.spoiled
                     /\ s.life[q] = "in" /\ s.guild[q] = h =>
                           \/ h \in s.loaded /\ q \in s.membersOnline[h] /\ q \notin s.dangling
                           \/ q \in s.reborn
    PROVE  ChatOK(Deleted(s, p))
<1> DEFINE k == Deleted(s, p)
           L == [s.life EXCEPT ![p] = "out"]
           G == [s.guild EXCEPT ![p] = NoGuild]
           B == [s.band EXCEPT ![p] = NoBand]
           H == s.haunted \cup {g \in Guilds : p \in s.membersOnline[g]}
           M == [g \in Guilds |-> s.membersOnline[g] \ {p}]
<1>1. k = [s EXCEPT !.life = L, !.guild = G, !.band = B, !.dangling = s.dangling \ {p},
                    !.reborn = s.reborn \ {p}, !.haunted = H, !.membersOnline = M]
  BY DEF Deleted, ChatStates
<1>2. /\ L \in [Speakers -> {"out", "in", "dead"}] /\ G \in [Speakers -> Guilds \cup {NoGuild}]
      /\ B \in [Speakers -> Bands \cup {NoBand}] /\ H \in SUBSET Guilds
      /\ M \in [Guilds -> SUBSET Speakers]
      /\ s.dangling \ {p} \in SUBSET Speakers /\ s.reborn \ {p} \in SUBSET Speakers
  BY DEF ChatStates
<1>3. /\ s.life \in [Speakers -> {"out", "in", "dead"}] /\ s.guild \in [Speakers -> Guilds \cup {NoGuild}]
      /\ s.band \in [Speakers -> Bands \cup {NoBand}] /\ s.users \in [Channels -> SUBSET Speakers]
      /\ s.invites \in [PrivateIds -> SUBSET Speakers] /\ s.reborn \subseteq Speakers /\ s.dangling \subseteq Speakers
  BY DEF ChatStates
<1> HIDE DEF k, L, G, B, H, M
<1>4. /\ k.life = L /\ k.guild = G /\ k.band = B /\ k.dangling = s.dangling \ {p}
      /\ k.reborn = s.reborn \ {p} /\ k.haunted = H /\ k.membersOnline = M
      /\ SameChannels(s, k) /\ k.loaded = s.loaded /\ k.spoiled = s.spoiled
      /\ k.moved = s.moved /\ k.departed = s.departed
  BY <1>1 DEF ChatStates, SameChannels
<1>5. k \in ChatStates
  BY <1>1, <1>2 DEF ChatStates
<1>6. \A q \in Speakers : q # p => k.life[q] = s.life[q] /\ k.guild[q] = s.guild[q] /\ k.band[q] = s.band[q]
  BY <1>3, <1>4 DEF L, G, B
<1>7. k.life[p] = "out"
  BY <1>3, <1>4 DEF L
<1>8. UsersBelong(k)
  <2> SUFFICES ASSUME NEW c \in Channels, NEW q \in k.users[c]
               PROVE  /\ k.life[q] = "in" /\ c \in k.open
                      /\ c \in Guilds => k.guild[q] = c \/ q \in k.moved
                      /\ c \in Bands => k.band[q] = c \/ q \in k.departed
    BY DEF UsersBelong
  <2>1. q \in s.users[c] /\ q # p /\ q \in Speakers
    BY <1>3, <1>4 DEF SameChannels
  <2>2. QED
    BY <1>4, <1>6, <2>1 DEF UsersBelong, SameChannels
<1>9. PrivateKept(k)
  <2>1. ASSUME NEW c \in PrivateIds, NEW q \in k.invites[c] PROVE k.life[q] = "in"
    <3>1. q \in s.invites[c] /\ q # p /\ q \in Speakers
      BY <1>3, <1>4, <2>1 DEF SameChannels
    <3>2. QED
      BY <1>6, <2>1, <3>1 DEF PrivateKept
  <2>2. QED
    BY <1>4, <2>1 DEF PrivateKept, SameChannels
<1>10. GuildsKept(k)
  <2>1. \A g \in Guilds : k.membersOnline[g] = s.membersOnline[g] \ {p}
    BY <1>4 DEF M
  <2>2. k.haunted \subseteq k.spoiled
    BY <1>4 DEF H
  <2>3. ASSUME NEW q \in Speakers, NEW g \in Guilds
        PROVE  /\ k.life[q] = "in" /\ k.guild[q] = g =>
                     (g \in k.loaded /\ q \in k.membersOnline[g] /\ q \notin k.dangling) \/ q \in k.reborn
               /\ q \in k.membersOnline[g] => (k.life[q] = "in" /\ k.guild[q] = g) \/ g \in k.spoiled
    <3>1. CASE q = p
      BY <1>7, <2>1, <3>1
    <3>2. CASE q # p
      BY <1>4, <1>6, <2>1, <3>2
    <3>3. QED
      BY <3>1, <3>2
  <2>4. \A q \in k.dangling : k.life[q] = "dead" \/ q \in k.reborn
    BY <1>3, <1>4, <1>6
  <2>5. \A q \in k.reborn : k.life[q] # "out"
    BY <1>3, <1>4, <1>6
  <2>6. QED
    BY <2>2, <2>3, <2>4, <2>5 DEF GuildsKept
<1>11. QED
  BY <1>5, <1>8, <1>9, <1>10 DEF ChatOK, k

\* Coming and going: EnterGame(), LoadOffline(), LeaveGame(), Dies(), Respawn(),
\* DeadLeaves(), Reconnect(), UseDeletedGuild().
LEMMA ComingAndGoing ==
    ASSUME ChatOK(chat), NEW p \in Speakers,
           \/ \E placed \in BOOLEAN, g \in {Home[p], NoGuild} : EnterGame(p, placed, g)
           \/ LeaveGame(p) \/ Dies(p) \/ Respawn(p) \/ DeadLeaves(p) \/ Reconnect(p)
           \/ UseDeletedGuild(p) \/ LoadOffline(p)
    PROVE  ChatOK(chat')
<1> DEFINE s == chat
           k == chat'
<1>0. /\ s \in ChatStates /\ Home[p] \in Guilds \cup {NoGuild} /\ NoGuild \notin Guilds
      /\ s.life \in [Speakers -> {"out", "in", "dead"}] /\ s.guild \in [Speakers -> Guilds \cup {NoGuild}]
      /\ s.users \in [Channels -> SUBSET Speakers] /\ s.membersOnline \in [Guilds -> SUBSET Speakers]
      /\ s.invites \in [PrivateIds -> SUBSET Speakers] /\ s.dangling \subseteq Speakers /\ s.reborn \subseteq Speakers
  BY ChatAssumption DEF ChatOK, ChatStates

\* Nothing but one more guild is loaded.
<1>1. ASSUME NEW t, t = GuildLoaded(s, p)
      PROVE  /\ ChatOK(t) /\ SameButGuilds(s, t) /\ t.membersOnline = s.membersOnline
             /\ t.dangling = s.dangling /\ (Home[p] # NoGuild => Home[p] \in t.loaded)
  <2> DEFINE L == IF Home[p] = NoGuild THEN s.loaded ELSE s.loaded \cup {Home[p]}
  <2>1. L \in SUBSET Guilds /\ s.loaded \subseteq L /\ (Home[p] # NoGuild => Home[p] \in L)
    BY <1>0 DEF ChatStates
  <2>2. t = [s EXCEPT !.loaded = L]
    BY <1>1 DEF GuildLoaded
  <2> HIDE DEF L
  <2>3. /\ t \in ChatStates /\ t.loaded = L /\ SameButGuilds(s, t)
        /\ t.membersOnline = s.membersOnline /\ t.dangling = s.dangling
    BY <1>0, <2>1, <2>2 DEF ChatStates, SameButGuilds, SameChannels
  <2>4. UsersBelong(t) /\ PrivateKept(t)
    BY <2>3 DEF ChatOK, UsersBelong, PrivateKept, SameButGuilds, SameChannels
  <2>5. GuildsKept(t)
    BY <2>1, <2>3 DEF ChatOK, GuildsKept, SameButGuilds
  <2>6. QED
    BY <2>1, <2>3, <2>4, <2>5 DEF ChatOK
<1>2. CASE LoadOffline(p)
  BY <1>1, <1>2 DEF LoadOffline
<1>3. ASSUME NEW placed \in BOOLEAN, NEW g \in {Home[p], NoGuild}, EnterGame(p, placed, g)
      PROVE  ChatOK(k)
  <2> DEFINE t == GuildLoaded(s, p)
             u == [t EXCEPT !.life[p] = "in", !.guild[p] = g]
  <2>1. /\ ChatOK(t) /\ SameButGuilds(s, t) /\ t.membersOnline = s.membersOnline
        /\ t.dangling = s.dangling /\ (Home[p] # NoGuild => Home[p] \in t.loaded)
    BY <1>1
  <2>2. CASE ~placed
    BY <1>3, <2>1, <2>2 DEF EnterGame
  <2>3. CASE placed
    <3>0. k = addMember(u, p) /\ t.life[p] = "out" /\ g \in Guilds \cup {NoGuild}
      BY <1>0, <1>3, <2>1, <2>3 DEF EnterGame, SameButGuilds
    <3> HIDE DEF t
    <3>1. /\ t \in ChatStates
          /\ t.life \in [Speakers -> {"out", "in", "dead"}] /\ t.guild \in [Speakers -> Guilds \cup {NoGuild}]
          /\ t.membersOnline \in [Guilds -> SUBSET Speakers] /\ t.users \in [Channels -> SUBSET Speakers]
          /\ t.invites \in [PrivateIds -> SUBSET Speakers] /\ t.dangling \subseteq Speakers /\ t.reborn \subseteq Speakers
      BY <2>1 DEF ChatOK, ChatStates
    <3> DEFINE L == [t.life EXCEPT ![p] = "in"]
               G == [t.guild EXCEPT ![p] = g]
               M == IF g = NoGuild THEN t.membersOnline ELSE [t.membersOnline EXCEPT ![g] = @ \cup {p}]
    <3>2. /\ L \in [Speakers -> {"out", "in", "dead"}] /\ G \in [Speakers -> Guilds \cup {NoGuild}]
          /\ M \in [Guilds -> SUBSET Speakers] /\ G[p] = g
      BY <3>0, <3>1
    <3>3. u = [t EXCEPT !.life = L, !.guild = G] /\ u \in ChatStates /\ u.guild = G /\ u.membersOnline = t.membersOnline
      BY <3>1, <3>2 DEF ChatStates
    <3>4. k = [t EXCEPT !.life = L, !.guild = G, !.membersOnline = M]
      <4>1. CASE g = NoGuild
        <5>1. k = u /\ M = t.membersOnline
          BY <3>0, <3>2, <3>3, <4>1 DEF addMember
        <5> HIDE DEF u, L, G, M
        <5>2. QED
          BY <3>1, <3>3, <5>1 DEF ChatStates
      <4>2. CASE g # NoGuild
        <5>1. k = [u EXCEPT !.membersOnline = M]
          <6>1. u.guild[p] = g /\ g # NoGuild /\ M = [u.membersOnline EXCEPT ![g] = @ \cup {p}]
            BY <3>2, <3>3, <4>2
          <6> HIDE DEF u, L, G, M
          <6>2. k = [u EXCEPT !.membersOnline[g] = @ \cup {p}]
            BY <3>0, <6>1 DEF addMember
          <6>3. QED
            BY <6>1, <6>2
        <5> HIDE DEF u, L, G, M
        <5>2. QED
          BY <3>1, <3>3, <5>1 DEF ChatStates
      <4>3. QED
        BY <4>1, <4>2
    <3>5. \A q \in Speakers : /\ L[q] = IF q = p THEN "in" ELSE t.life[q]
                              /\ G[q] = IF q = p THEN g ELSE t.guild[q]
      BY <3>1
    <3>6. \A h \in Guilds : M[h] = IF h = g THEN t.membersOnline[h] \cup {p} ELSE t.membersOnline[h]
      BY <1>0, <3>1
    <3> HIDE DEF k, u, L, G, M
    <3>7. k \in ChatStates
      BY <3>1, <3>2, <3>4 DEF ChatStates
    <3>8. /\ k.life = L /\ k.guild = G /\ k.membersOnline = M /\ SameChannels(t, k)
          /\ k.band = t.band /\ k.loaded = t.loaded /\ k.dangling = t.dangling /\ k.reborn = t.reborn
          /\ k.haunted = t.haunted /\ k.spoiled = t.spoiled /\ k.moved = t.moved /\ k.departed = t.departed
      BY <3>1, <3>4 DEF ChatStates, SameChannels
    <3>9. \A c \in Channels : p \notin t.users[c]
      BY <2>1, <3>0 DEF ChatOK, UsersBelong
    <3>10. UsersBelong(k)
      BY <2>1, <3>1, <3>5, <3>8, <3>9 DEF ChatOK, UsersBelong, SameChannels
    <3>11. PrivateKept(k)
      BY <2>1, <3>1, <3>5, <3>8 DEF ChatOK, PrivateKept, SameChannels
    <3>12. GuildsKept(k)
      <4>1. p \notin t.dangling /\ p \notin t.reborn
        BY <2>1, <3>0 DEF ChatOK, GuildsKept
      <4>2. g # NoGuild => g \in t.loaded
        BY <1>0, <2>1
      <4>3. ASSUME NEW q \in Speakers, NEW h \in Guilds
            PROVE  /\ k.life[q] = "in" /\ k.guild[q] = h =>
                         (h \in k.loaded /\ q \in k.membersOnline[h] /\ q \notin k.dangling) \/ q \in k.reborn
                   /\ q \in k.membersOnline[h] => (k.life[q] = "in" /\ k.guild[q] = h) \/ h \in k.spoiled
        <5>1. CASE q = p
          <6>1. k.life[q] = "in" /\ k.guild[q] = g /\ (h = g => q \in k.membersOnline[h])
            BY <3>5, <3>6, <3>8, <5>1
          <6>2. h # g /\ q \in k.membersOnline[h] => q \in t.membersOnline[h]
            BY <3>6, <3>8
          <6>3. q \in t.membersOnline[h] => h \in t.spoiled
            BY <2>1, <3>0, <5>1 DEF ChatOK, GuildsKept
          <6>4. h = g => h \in k.loaded /\ q \notin k.dangling
            BY <1>0, <3>8, <4>1, <4>2, <5>1
          <6>5. QED
            BY <3>8, <6>1, <6>2, <6>3, <6>4
        <5>2. CASE q # p
          <6>1. k.life[q] = t.life[q] /\ k.guild[q] = t.guild[q]
            BY <3>5, <3>8, <5>2
          <6>2. q \in k.membersOnline[h] <=> q \in t.membersOnline[h]
            BY <3>6, <3>8, <5>2
          <6>3. QED
            BY <2>1, <3>8, <6>1, <6>2 DEF ChatOK, GuildsKept
        <5>3. QED
          BY <5>1, <5>2
      <4>4. k.haunted \subseteq k.spoiled
        BY <2>1, <3>8 DEF ChatOK, GuildsKept
      <4>5. /\ \A q \in k.dangling : k.life[q] = "dead" \/ q \in k.reborn
            /\ \A q \in k.reborn : k.life[q] # "out"
        BY <2>1, <3>1, <3>5, <3>8, <4>1 DEF ChatOK, GuildsKept
      <4>6. QED
        BY <4>3, <4>4, <4>5 DEF GuildsKept
    <3>13. QED
      BY <3>7, <3>10, <3>11, <3>12 DEF ChatOK
  <2>4. QED
    BY <2>2, <2>3
<1>4. CASE LeaveGame(p)
  <2> DEFINE t == onRemoveCreature(s, p)
  <2>1. /\ t \in ChatStates /\ UsersBelong(t) /\ PrivateKept(t)
        /\ \A c \in Channels : p \notin t.users[c]
        /\ \A c \in PrivateIds : p \notin t.invites[c]
        /\ t.haunted \subseteq t.spoiled
        /\ \A h \in Guilds : p \in t.membersOnline[h] => h \in t.spoiled
        /\ \A q \in Speakers : q # p =>
              /\ q \in t.dangling => t.life[q] = "dead" \/ q \in t.reborn
              /\ q \in t.reborn => t.life[q] # "out"
              /\ \A h \in Guilds :
                    /\ q \in t.membersOnline[h] => (t.life[q] = "in" /\ t.guild[q] = h) \/ h \in t.spoiled
                    /\ t.life[q] = "in" /\ t.guild[q] = h =>
                          \/ h \in t.loaded /\ q \in t.membersOnline[h] /\ q \notin t.dangling
                          \/ q \in t.reborn
    BY RemovedCreature
  <2>2. k = Deleted(t, p)
    BY <1>4 DEF LeaveGame
  <2> HIDE DEF t
  <2>3. QED
    BY <2>1, <2>2, DeletedOK
<1>5. CASE DeadLeaves(p)
  <2>1. s.life[p] = "dead" /\ k = Deleted(s, p)
    BY <1>5 DEF DeadLeaves
  <2>2. /\ UsersBelong(s) /\ PrivateKept(s)
        /\ \A c \in Channels : p \notin s.users[c]
        /\ \A c \in PrivateIds : p \notin s.invites[c]
        /\ s.haunted \subseteq s.spoiled
        /\ \A h \in Guilds : p \in s.membersOnline[h] => h \in s.spoiled
    BY <2>1 DEF ChatOK, UsersBelong, PrivateKept, GuildsKept
  <2>3. \A q \in Speakers : q # p =>
              /\ q \in s.dangling => s.life[q] = "dead" \/ q \in s.reborn
              /\ q \in s.reborn => s.life[q] # "out"
              /\ \A h \in Guilds :
                    /\ q \in s.membersOnline[h] => (s.life[q] = "in" /\ s.guild[q] = h) \/ h \in s.spoiled
                    /\ s.life[q] = "in" /\ s.guild[q] = h =>
                          \/ h \in s.loaded /\ q \in s.membersOnline[h] /\ q \notin s.dangling
                          \/ q \in s.reborn
    BY DEF ChatOK, GuildsKept
  <2>4. QED
    BY <1>0, <2>1, <2>2, <2>3, DeletedOK
<1>6. CASE Dies(p)
  <2> DEFINE t == onRemoveCreature(s, p)
             L == [t.life EXCEPT ![p] = "dead"]
  <2>1. /\ t \in ChatStates /\ UsersBelong(t) /\ PrivateKept(t)
        /\ \A c \in Channels : p \notin t.users[c]
        /\ \A c \in PrivateIds : p \notin t.invites[c]
        /\ t.haunted \subseteq t.spoiled
        /\ \A h \in Guilds : p \in t.membersOnline[h] => h \in t.spoiled
        /\ \A q \in Speakers : q # p =>
              /\ q \in t.dangling => t.life[q] = "dead" \/ q \in t.reborn
              /\ q \in t.reborn => t.life[q] # "out"
              /\ \A h \in Guilds :
                    /\ q \in t.membersOnline[h] => (t.life[q] = "in" /\ t.guild[q] = h) \/ h \in t.spoiled
                    /\ t.life[q] = "in" /\ t.guild[q] = h =>
                          \/ h \in t.loaded /\ q \in t.membersOnline[h] /\ q \notin t.dangling
                          \/ q \in t.reborn
    BY RemovedCreature
  <2>2. k = [t EXCEPT !.life[p] = "dead"]
    BY <1>6 DEF Dies
  <2> HIDE DEF t
  <2>3. /\ t.life \in [Speakers -> {"out", "in", "dead"}] /\ t.users \in [Channels -> SUBSET Speakers]
        /\ t.invites \in [PrivateIds -> SUBSET Speakers] /\ t.dangling \subseteq Speakers /\ t.reborn \subseteq Speakers
    BY <2>1 DEF ChatStates
  <2>4. /\ L \in [Speakers -> {"out", "in", "dead"}]
        /\ \A q \in Speakers : L[q] = IF q = p THEN "dead" ELSE t.life[q]
    BY <2>3
  <2>5. k = [t EXCEPT !.life = L]
    BY <2>1, <2>2 DEF ChatStates
  <2> HIDE DEF k, L
  <2>6. /\ k \in ChatStates /\ k.life = L /\ SameChannels(t, k)
        /\ k.guild = t.guild /\ k.membersOnline = t.membersOnline
        /\ k.band = t.band /\ k.loaded = t.loaded /\ k.dangling = t.dangling /\ k.reborn = t.reborn
        /\ k.haunted = t.haunted /\ k.spoiled = t.spoiled /\ k.moved = t.moved /\ k.departed = t.departed
    BY <2>1, <2>4, <2>5 DEF ChatStates, SameChannels
  <2>7. UsersBelong(k)
    BY <2>1, <2>3, <2>4, <2>6 DEF UsersBelong, SameChannels
  <2>8. PrivateKept(k)
    BY <2>1, <2>3, <2>4, <2>6 DEF PrivateKept, SameChannels
  <2>9. GuildsKept(k)
    BY <2>1, <2>3, <2>4, <2>6 DEF GuildsKept
  <2>10. QED
    BY <2>6, <2>7, <2>8, <2>9 DEF ChatOK, k
<1>7. CASE Respawn(p)
  <2> DEFINE L == [s.life EXCEPT ![p] = "in"]
             R == s.reborn \cup {p}
  <2>1. /\ L \in [Speakers -> {"out", "in", "dead"}] /\ R \in SUBSET Speakers
        /\ \A q \in Speakers : L[q] = IF q = p THEN "in" ELSE s.life[q]
        /\ s.life[p] = "dead"
    BY <1>0, <1>7 DEF Respawn
  <2>2. k = [s EXCEPT !.life = L, !.reborn = R]
    BY <1>0, <1>7 DEF Respawn, ChatStates
  <2> HIDE DEF k, L, R
  <2>3. /\ k \in ChatStates /\ k.life = L /\ SameChannels(s, k)
        /\ k.guild = s.guild /\ k.membersOnline = s.membersOnline
        /\ k.band = s.band /\ k.loaded = s.loaded /\ k.dangling = s.dangling /\ k.reborn = R
        /\ k.haunted = s.haunted /\ k.spoiled = s.spoiled /\ k.moved = s.moved /\ k.departed = s.departed
    BY <1>0, <2>1, <2>2 DEF ChatStates, SameChannels
  <2>4. UsersBelong(k)
    BY <1>0, <2>1, <2>3 DEF ChatOK, UsersBelong, SameChannels
  <2>5. PrivateKept(k)
    BY <1>0, <2>1, <2>3 DEF ChatOK, PrivateKept, SameChannels
  <2>6. GuildsKept(k)
    BY <1>0, <2>1, <2>3 DEF ChatOK, GuildsKept, R
  <2>7. QED
    BY <2>3, <2>4, <2>5, <2>6 DEF ChatOK, k
<1>8. CASE Reconnect(p)
  BY <1>8, RemovedFromAllOK DEF Reconnect
<1>9. CASE UseDeletedGuild(p)
  <2>1. k = [s EXCEPT !.undefined = TRUE]
    BY <1>9 DEF UseDeletedGuild
  <2>2. /\ k \in ChatStates /\ k.life = s.life /\ SameChannels(s, k)
        /\ k.guild = s.guild /\ k.membersOnline = s.membersOnline
        /\ k.band = s.band /\ k.loaded = s.loaded /\ k.dangling = s.dangling /\ k.reborn = s.reborn
        /\ k.haunted = s.haunted /\ k.spoiled = s.spoiled /\ k.moved = s.moved /\ k.departed = s.departed
    BY <1>0, <2>1 DEF ChatStates, SameChannels
  <2>3. QED
    BY <2>2 DEF ChatOK, UsersBelong, PrivateKept, GuildsKept, SameChannels
<1>10. QED
  BY <1>2, <1>3, <1>4, <1>5, <1>6, <1>7, <1>8, <1>9

\* Requests about channels, and a reload of them: the players stay as they are.
LEMMA Requests ==
    ASSUME ChatOK(chat), NEW p \in Speakers,
           \/ playerCreatePrivateChannel(p) \/ playerRequestChannels(p)
           \/ \E q \in Speakers : playerChannelInvite(p, q) \/ playerChannelExclude(p, q)
           \/ \E c \in chat.inUse : playerOpenChannel(p, c)
           \/ \E c \in chat.inUse, scripted \in BOOLEAN : playerCloseChannel(p, c, scripted)
    PROVE  ChatOK(chat')
<1> DEFINE s == chat
           k == chat'
<1>0. /\ s \in ChatStates /\ UsersBelong(s) /\ PrivateKept(s) /\ GuildsKept(s)
      /\ s.users \in [Channels -> SUBSET Speakers] /\ s.owner \in [PrivateIds -> SUBSET Speakers]
      /\ s.invites \in [PrivateIds -> SUBSET Speakers] /\ s.open \subseteq Channels
      /\ s.inUse \subseteq Channels
      /\ s.guild[p] \in Guilds \cup {NoGuild} /\ s.band[p] \in Bands \cup {NoBand}
  BY ChannelsAssumption DEF ChatOK, ChatStates
<1>1. /\ PrivateIds \subseteq Channels /\ PrivateIds \cap (NormalIds \cup Guilds \cup Bands) = {}
      /\ NormalIds \cap (Guilds \cup Bands) = {} /\ Guilds \cap Bands = {}
      /\ NoGuild \notin Channels /\ NoBand \notin Channels
  BY ChannelsAssumption DEF Channels

\* What has to be shown of such a step.
<1>2. ASSUME k \in ChatStates, SamePlayers(s, k), k.moved = s.moved, k.departed = s.departed,
             \A c \in Channels : \A q \in k.users[c] : q \in s.users[c] \/
                 /\ s.life[q] = "in" /\ c \in k.open
                 /\ c \in Guilds => s.guild[q] = c
                 /\ c \in Bands => s.band[q] = c,
             s.open \subseteq k.open, PrivateKept(k)
      PROVE  ChatOK(k)
  <2>1. UsersBelong(k)
    BY <1>0, <1>2 DEF UsersBelong, SamePlayers
  <2>2. GuildsKept(k)
    BY <1>0, <1>2 DEF GuildsKept, SamePlayers
  <2>3. QED
    BY <1>2, <2>1, <2>2 DEF ChatOK
<1>3. CASE playerCreatePrivateChannel(p)
  <2>1. PICK c \in (PrivateIds \cap s.inUse) \ s.open :
            k = addUser([s EXCEPT !.open = @ \cup {c}, !.owner[c] = {p}], p, c)
    BY <1>3 DEF playerCreatePrivateChannel
  <2>2. s.life[p] = "in" /\ \A d \in PrivateIds : p \notin s.owner[d]
    BY <1>3 DEF playerCreatePrivateChannel, Present, Owned
  <2>3. s.users[c] = {}
    BY <1>0, <1>1, <2>1 DEF UsersBelong
  <2> DEFINE U == [s.users EXCEPT ![c] = {p}]
             O == [s.owner EXCEPT ![c] = {p}]
             V == s.open \cup {c}
  <2>4. /\ U \in [Channels -> SUBSET Speakers] /\ O \in [PrivateIds -> SUBSET Speakers] /\ V \in SUBSET Channels
        /\ \A d \in Channels : U[d] = IF d = c THEN {p} ELSE s.users[d]
        /\ \A d \in PrivateIds : O[d] = IF d = c THEN {p} ELSE s.owner[d]
    BY <1>0, <1>1, <2>1
  <2>5. k = [s EXCEPT !.open = V, !.owner = O, !.users = U]
    <3> DEFINE t == [s EXCEPT !.open = V, !.owner = O]
    <3>1. [s EXCEPT !.open = @ \cup {c}, !.owner[c] = {p}] = t
      BY <1>0 DEF ChatStates
    <3>2. k = [t EXCEPT !.users[c] = @ \cup {p}]
      BY <2>1, <3>1 DEF addUser
    <3>3. t.users = s.users
      BY <1>0 DEF ChatStates
    <3>4. [t.users EXCEPT ![c] = @ \cup {p}] = U
      BY <1>0, <2>3, <3>3
    <3> HIDE DEF U, O, V, t
    <3>5. k = [t EXCEPT !.users = U]
      BY <3>2, <3>4
    <3>6. QED
      BY <1>0, <3>5 DEF t, ChatStates
  <2> HIDE DEF k, U, O, V
  <2>6. /\ k \in ChatStates /\ SamePlayers(s, k) /\ k.moved = s.moved /\ k.departed = s.departed
        /\ k.open = V /\ k.owner = O /\ k.users = U /\ k.invites = s.invites
    BY <1>0, <2>4, <2>5 DEF ChatStates, SamePlayers
  <2>7. ASSUME NEW d \in PrivateIds
        PROVE  /\ \A q \in k.invites[d] : k.life[q] = "in"
               /\ d \in k.open => \E q \in Speakers : k.owner[d] = {q}
               /\ k.owner[d] \subseteq k.users[d]
               /\ k.users[d] \subseteq k.owner[d] \cup k.invites[d]
    <3>1. CASE d = c
      BY <1>0, <1>1, <2>4, <2>6, <3>1 DEF PrivateKept, SamePlayers
    <3>2. CASE d # c
      BY <1>0, <1>1, <2>4, <2>6, <3>2 DEF PrivateKept, SamePlayers, V
    <3>3. QED
      BY <3>1, <3>2
  <2>8. \A d, e \in PrivateIds, q \in Speakers : q \in k.owner[d] /\ q \in k.owner[e] => d = e
    BY <1>0, <2>2, <2>4, <2>6 DEF PrivateKept
  <2>9. PrivateKept(k)
    BY <2>7, <2>8 DEF PrivateKept
  <2>10. \A d \in Channels : \A q \in k.users[d] : q \in s.users[d] \/
             /\ s.life[q] = "in" /\ d \in k.open
             /\ d \in Guilds => s.guild[q] = d
             /\ d \in Bands => s.band[q] = d
    BY <1>1, <2>1, <2>2, <2>4, <2>6 DEF V
  <2>11. QED
    BY <1>2, <2>6, <2>9, <2>10 DEF V, k
<1>4. CASE playerRequestChannels(p)
  <2> DEFINE V == s.open \cup ({s.guild[p], s.band[p]} \cap s.inUse)
  <2>1. V \in SUBSET Channels /\ s.open \subseteq V /\ V \cap PrivateIds \subseteq s.open
    BY <1>0, <1>1
  <2>2. k = [s EXCEPT !.open = V]
    BY <1>4 DEF playerRequestChannels
  <2> HIDE DEF k, V
  <2>3. /\ k \in ChatStates /\ SamePlayers(s, k) /\ k.moved = s.moved /\ k.departed = s.departed
        /\ k.open = V /\ k.owner = s.owner /\ k.users = s.users /\ k.invites = s.invites
    BY <1>0, <2>1, <2>2 DEF ChatStates, SamePlayers
  <2>4. PrivateKept(k)
    BY <1>0, <2>1, <2>3 DEF PrivateKept, SamePlayers
  <2>5. QED
    BY <1>2, <2>1, <2>3, <2>4 DEF k
<1>5. ASSUME NEW q \in Speakers, playerChannelInvite(p, q) PROVE ChatOK(k)
  <2>1. PICK c \in PrivateIds : s.life[q] = "in" /\ k = [s EXCEPT !.invites[c] = @ \cup {q}]
    BY <1>5 DEF playerChannelInvite, Owned, Present
  <2> DEFINE I == [s.invites EXCEPT ![c] = @ \cup {q}]
  <2>2. /\ I \in [PrivateIds -> SUBSET Speakers]
        /\ \A d \in PrivateIds : I[d] = IF d = c THEN s.invites[d] \cup {q} ELSE s.invites[d]
    BY <1>0
  <2>3. k = [s EXCEPT !.invites = I]
    BY <2>1
  <2> HIDE DEF k, I
  <2>4. /\ k \in ChatStates /\ SamePlayers(s, k) /\ k.moved = s.moved /\ k.departed = s.departed
        /\ k.open = s.open /\ k.owner = s.owner /\ k.users = s.users /\ k.invites = I
    BY <1>0, <2>2, <2>3 DEF ChatStates, SamePlayers
  <2>5. PrivateKept(k)
    BY <1>0, <2>1, <2>2, <2>4 DEF PrivateKept, SamePlayers
  <2>6. QED
    BY <1>2, <2>4, <2>5
<1>6. ASSUME NEW q \in Speakers, playerChannelExclude(p, q) PROVE ChatOK(k)
  <2>1. PICK c \in PrivateIds : p \in s.owner[c] /\ k = removeUser([s EXCEPT !.invites[c] = @ \ {q}], q, c)
    BY <1>6 DEF playerChannelExclude, Owned
  <2>2. p # q
    BY <1>6 DEF playerChannelExclude
  <2> DEFINE I == [s.invites EXCEPT ![c] = @ \ {q}]
             U == [s.users EXCEPT ![c] = @ \ {q}]
  <2>3. /\ I \in [PrivateIds -> SUBSET Speakers] /\ U \in [Channels -> SUBSET Speakers]
        /\ \A d \in PrivateIds : I[d] = IF d = c THEN s.invites[d] \ {q} ELSE s.invites[d]
        /\ \A d \in Channels : U[d] = IF d = c THEN s.users[d] \ {q} ELSE s.users[d]
    BY <1>0, <1>1
  <2>4. k = [s EXCEPT !.invites = I, !.users = U]
    <3> DEFINE t == [s EXCEPT !.invites = I]
    <3>1. k = [t EXCEPT !.users[c] = @ \ {q}]
      BY <2>1 DEF removeUser
    <3>2. t.users = s.users
      BY <1>0 DEF ChatStates
    <3> HIDE DEF t
    <3>3. k = [t EXCEPT !.users = U]
      BY <3>1, <3>2
    <3> HIDE DEF I, U
    <3>4. QED
      BY <1>0, <3>3 DEF t, ChatStates
  <2> HIDE DEF k, I, U
  <2>5. /\ k \in ChatStates /\ SamePlayers(s, k) /\ k.moved = s.moved /\ k.departed = s.departed
        /\ k.open = s.open /\ k.owner = s.owner /\ k.users = U /\ k.invites = I
    BY <1>0, <2>3, <2>4 DEF ChatStates, SamePlayers
  \* The owner, who is the only one, is not the excluded player.
  <2>6. s.owner[c] = {p}
    <3>1. p \in s.users[c]
      BY <1>0, <2>1 DEF PrivateKept
    <3>2. c \in s.open
      BY <1>0, <1>1, <3>1 DEF UsersBelong
    <3>3. QED
      BY <1>0, <2>1, <3>2 DEF PrivateKept
  <2>7. ASSUME NEW d \in PrivateIds
        PROVE  /\ \A r \in k.invites[d] : k.life[r] = "in"
               /\ d \in k.open => \E r \in Speakers : k.owner[d] = {r}
               /\ k.owner[d] \subseteq k.users[d]
               /\ k.users[d] \subseteq k.owner[d] \cup k.invites[d]
    <3>1. CASE d = c
      BY <1>0, <1>1, <2>2, <2>3, <2>5, <2>6, <3>1 DEF PrivateKept, SamePlayers
    <3>2. CASE d # c
      BY <1>0, <1>1, <2>3, <2>5, <3>2 DEF PrivateKept, SamePlayers
    <3>3. QED
      BY <3>1, <3>2
  <2>8. PrivateKept(k)
    BY <1>0, <2>5, <2>7 DEF PrivateKept
  <2>9. QED
    BY <1>2, <2>3, <2>5, <2>8
<1>7. ASSUME NEW c \in s.inUse, playerOpenChannel(p, c) PROVE ChatOK(k)
  <2>1. /\ s.life[p] = "in" /\ c \in s.open /\ k = [s EXCEPT !.users[c] = @ \cup {p}]
        /\ \/ c \in NormalIds \/ c = s.guild[p] \/ c = s.band[p]
           \/ c \in PrivateIds /\ p \in s.owner[c] \cup s.invites[c]
    BY <1>7 DEF playerOpenChannel, Present, getChannel, Invited, addUser
  <2>2. c \in Channels
    BY <1>0
  <2> DEFINE U == [s.users EXCEPT ![c] = @ \cup {p}]
  <2>3. /\ U \in [Channels -> SUBSET Speakers]
        /\ \A d \in Channels : U[d] = IF d = c THEN s.users[d] \cup {p} ELSE s.users[d]
    BY <1>0, <2>2
  <2>4. k = [s EXCEPT !.users = U]
    BY <2>1
  <2> HIDE DEF k, U
  <2>5. /\ k \in ChatStates /\ SamePlayers(s, k) /\ k.moved = s.moved /\ k.departed = s.departed
        /\ k.open = s.open /\ k.owner = s.owner /\ k.users = U /\ k.invites = s.invites
    BY <1>0, <2>3, <2>4 DEF ChatStates, SamePlayers
  <2>6. /\ c \in Guilds => s.guild[p] = c
        /\ c \in Bands => s.band[p] = c
        /\ c \in PrivateIds => p \in s.owner[c] \cup s.invites[c]
    BY <1>0, <1>1, <2>1, <2>2
  <2>7. PrivateKept(k)
    BY <1>0, <1>1, <2>3, <2>5, <2>6 DEF PrivateKept, SamePlayers
  <2>8. \A d \in Channels : \A q \in k.users[d] : q \in s.users[d] \/
            /\ s.life[q] = "in" /\ d \in k.open
            /\ d \in Guilds => s.guild[q] = d
            /\ d \in Bands => s.band[q] = d
    BY <2>1, <2>3, <2>5, <2>6
  <2>9. QED
    BY <1>2, <2>5, <2>7, <2>8
<1>8. ASSUME NEW c \in s.inUse, NEW scripted \in BOOLEAN, playerCloseChannel(p, c, scripted) PROVE ChatOK(k)
  BY <1>0, <1>8, RemovedFromOneOK DEF playerCloseChannel
<1>9. QED
  BY <1>3, <1>4, <1>5, <1>6, <1>7, <1>8

\* Parties.
LEMMA InParty ==
    ASSUME ChatOK(chat), NEW p \in Speakers,
           (\E b \in Bands : EnterParty(p, b)) \/ LeaveParty(p)
    PROVE  ChatOK(chat')
<1> DEFINE s == chat
<1>0. /\ s \in ChatStates /\ UsersBelong(s) /\ PrivateKept(s) /\ GuildsKept(s)
      /\ s.band \in [Speakers -> Bands \cup {NoBand}] /\ s.users \in [Channels -> SUBSET Speakers]
      /\ s.departed \subseteq Speakers
  BY DEF ChatOK, ChatStates
<1>1. NoBand \notin Bands
  BY ChatAssumption

\* Only the party of p changes, and who used its channel has departed.
<1>2. ASSUME NEW b \in Bands \cup {NoBand}, NEW D \in SUBSET Speakers, s.departed \subseteq D,
             \A c \in Bands : p \in s.users[c] => p \in D,
             NEW t, t = [s EXCEPT !.band[p] = b, !.departed = D]
      PROVE  ChatOK(t)
  <2> DEFINE B == [s.band EXCEPT ![p] = b]
  <2>1. /\ B \in [Speakers -> Bands \cup {NoBand}]
        /\ \A q \in Speakers : q # p => B[q] = s.band[q]
    BY <1>0
  <2>2. t = [s EXCEPT !.band = B, !.departed = D]
    BY <1>0, <1>2 DEF ChatStates
  <2> HIDE DEF B
  <2>3. /\ t \in ChatStates /\ t.life = s.life /\ SameChannels(s, t) /\ t.band = B /\ t.departed = D
        /\ t.guild = s.guild /\ t.membersOnline = s.membersOnline
        /\ t.loaded = s.loaded /\ t.dangling = s.dangling /\ t.reborn = s.reborn
        /\ t.haunted = s.haunted /\ t.spoiled = s.spoiled /\ t.moved = s.moved
    BY <1>0, <1>2, <2>1, <2>2 DEF ChatStates, SameChannels
  <2>4. PrivateKept(t) /\ GuildsKept(t)
    BY <1>0, <2>3 DEF PrivateKept, GuildsKept, SameChannels
  <2>5. UsersBelong(t)
    <3> SUFFICES ASSUME NEW c \in Channels, NEW q \in t.users[c]
                 PROVE  /\ t.life[q] = "in" /\ c \in t.open
                        /\ c \in Guilds => t.guild[q] = c \/ q \in t.moved
                        /\ c \in Bands => t.band[q] = c \/ q \in t.departed
      BY DEF UsersBelong
    <3>1. q \in s.users[c] /\ q \in Speakers
      BY <1>0, <2>3 DEF SameChannels
    <3>2. /\ s.life[q] = "in" /\ c \in s.open
          /\ c \in Guilds => s.guild[q] = c \/ q \in s.moved
          /\ c \in Bands => s.band[q] = c \/ q \in s.departed
      BY <1>0, <3>1 DEF UsersBelong
    <3>3. QED
      BY <1>2, <2>1, <2>3, <3>1, <3>2 DEF SameChannels
  <2>6. QED
    BY <2>3, <2>4, <2>5 DEF ChatOK
<1>3. ASSUME NEW b \in Bands, EnterParty(p, b) PROVE ChatOK(chat')
  <2>1. s.band[p] = NoBand /\ chat' = [s EXCEPT !.band[p] = b]
    BY <1>3 DEF EnterParty
  <2>2. chat' = [s EXCEPT !.band[p] = b, !.departed = s.departed]
    BY <1>0, <2>1 DEF ChatStates
  <2>3. \A c \in Bands : p \in s.users[c] => p \in s.departed
    BY <1>0, <1>1, <2>1 DEF UsersBelong, Channels
  <2>4. s.departed \in SUBSET Speakers
    BY <1>0
  <2>5. QED
    BY <1>2, <2>2, <2>3, <2>4
<1>4. CASE LeaveParty(p)
  <2> DEFINE D == s.departed \cup ({p} \cap s.users[s.band[p]])
             t == [s EXCEPT !.band[p] = NoBand, !.departed = D]
  <2>1. s.band[p] \in Bands /\ s.band[p] \in Channels
    BY <1>0, <1>4 DEF LeaveParty, Channels
  <2>2. chat' = removeUserFromChannel(t, p, s.band[p], TRUE)
    BY <1>4 DEF LeaveParty
  <2>3. D \in SUBSET Speakers /\ s.departed \subseteq D
    BY <1>0
  <2>4. \A c \in Bands : p \in s.users[c] => p \in D
    BY <1>0 DEF UsersBelong, Channels
  <2>5. ChatOK(t)
    BY <1>2, <2>3, <2>4
  <2> HIDE DEF t
  <2>6. QED
    BY <2>1, <2>2, <2>5, RemovedFromOneOK
<1>5. QED
  BY <1>3, <1>4

\* A state with other guilds of players, other members and spoiled guilds.
Regroup(s, G, V, M, X) == [s EXCEPT !.guild = G, !.moved = V, !.membersOnline = M, !.spoiled = X]

LEMMA Regrouped ==
    ASSUME NEW s \in ChatStates, NEW G \in [Speakers -> Guilds \cup {NoGuild}], NEW V \in SUBSET Speakers,
           NEW M \in [Guilds -> SUBSET Speakers], NEW X \in SUBSET Guilds,
           NEW t, t = Regroup(s, G, V, M, X)
    PROVE  /\ t \in ChatStates /\ t.life = s.life /\ SameChannels(s, t) /\ t.guild = G /\ t.moved = V
           /\ t.membersOnline = M /\ t.band = s.band /\ t.departed = s.departed
           /\ t.loaded = s.loaded /\ t.dangling = s.dangling /\ t.reborn = s.reborn
           /\ t.haunted = s.haunted /\ t.spoiled = X
<1>1. t \in ChatStates
  BY DEF Regroup, ChatStates
<1>2. /\ t.life = s.life /\ t.guild = G /\ t.moved = V
      /\ t.membersOnline = M /\ t.band = s.band /\ t.departed = s.departed
      /\ t.loaded = s.loaded /\ t.dangling = s.dangling /\ t.reborn = s.reborn
      /\ t.haunted = s.haunted /\ t.spoiled = X
  BY DEF Regroup, ChatStates
<1>3. SameChannels(s, t)
  BY DEF Regroup, ChatStates, SameChannels
<1>4. QED
  BY <1>1, <1>2, <1>3

\* A script gives p another guild: with one that has no ranks p stays a member
\* of the old one, which is spoiled; otherwise p is enlisted before it leaves.
LEMMA OtherGuild ==
    ASSUME ChatOK(chat), NEW p \in Speakers, NEW g \in Guilds \cup {NoGuild}, setGuild(p, g)
    PROVE  ChatOK(chat')
<1> DEFINE s == chat
           old == s.guild[p]
           used == UNION {s.users[g2] : g2 \in {old} \cap Guilds}
           V == s.moved \cup ({p} \cap used)
           left == [s EXCEPT !.guild[p] = NoGuild, !.moved = V]
<1>0. /\ s \in ChatStates /\ UsersBelong(s) /\ PrivateKept(s) /\ GuildsKept(s)
      /\ s.guild \in [Speakers -> Guilds \cup {NoGuild}] /\ s.users \in [Channels -> SUBSET Speakers]
      /\ s.membersOnline \in [Guilds -> SUBSET Speakers] /\ s.moved \subseteq Speakers /\ s.spoiled \subseteq Guilds
      /\ s.dangling \subseteq Speakers
      /\ old \in Guilds \cup {NoGuild} /\ NoGuild \notin Guilds /\ Guilds \subseteq Channels
  BY ChatAssumption DEF ChatOK, ChatStates, Channels
<1>1. /\ s.life[p] = "in" /\ p \notin s.dangling /\ g # old /\ g \in s.loaded \cup {NoGuild}
      /\ chat' = IF g \in Guilds \ Ranked
                 THEN [left EXCEPT !.spoiled = @ \cup ({old} \ {NoGuild})]
                 ELSE removeMember(addMember([left EXCEPT !.guild[p] = g], p), old, p)
  BY DEF setGuild, Intact, Present
<1>2. V \in SUBSET Speakers /\ s.moved \subseteq V /\ (old \in Guilds /\ p \in s.users[old] => p \in V)
  BY <1>0
<1> HIDE DEF V, used

\* A state with another guild of p, other members and spoiled guilds.
<1>3. ASSUME NEW h \in Guilds \cup {NoGuild}, NEW M \in [Guilds -> SUBSET Speakers],
             NEW X \in SUBSET Guilds, s.spoiled \subseteq X,
             \A q \in Speakers, f \in Guilds : q # p => (q \in M[f] <=> q \in s.membersOnline[f]),
             NEW t, t = Regroup(s, [s.guild EXCEPT ![p] = h], V, M, X)
      PROVE  /\ t \in ChatStates /\ UsersBelong(t) /\ PrivateKept(t)
             /\ SameChannels(s, t) /\ t.life = s.life /\ t.guild = [s.guild EXCEPT ![p] = h]
             /\ t.loaded = s.loaded /\ t.dangling = s.dangling /\ t.reborn = s.reborn
             /\ t.haunted = s.haunted /\ t.membersOnline = M /\ t.spoiled = X
             /\ \A q \in Speakers : q # p =>
                   \A f \in Guilds :
                     /\ t.life[q] = "in" /\ t.guild[q] = f =>
                           (f \in t.loaded /\ q \in t.membersOnline[f] /\ q \notin t.dangling) \/ q \in t.reborn
                     /\ q \in t.membersOnline[f] => (t.life[q] = "in" /\ t.guild[q] = f) \/ f \in t.spoiled
             /\ t.haunted \subseteq t.spoiled
             /\ \A q \in t.dangling : t.life[q] = "dead" \/ q \in t.reborn
             /\ \A q \in t.reborn : t.life[q] # "out"
  <2> DEFINE G == [s.guild EXCEPT ![p] = h]
  <2>1. G \in [Speakers -> Guilds \cup {NoGuild}] /\ G[p] = h /\ \A q \in Speakers : q # p => G[q] = s.guild[q]
    BY <1>0
  <2>2. t = Regroup(s, G, V, M, X)
    BY <1>3
  <2> HIDE DEF G
  <2>3. /\ t \in ChatStates /\ t.life = s.life /\ SameChannels(s, t) /\ t.guild = G /\ t.moved = V
        /\ t.membersOnline = M /\ t.band = s.band /\ t.departed = s.departed
        /\ t.loaded = s.loaded /\ t.dangling = s.dangling /\ t.reborn = s.reborn
        /\ t.haunted = s.haunted /\ t.spoiled = X
    <3>1. /\ s \in ChatStates /\ G \in [Speakers -> Guilds \cup {NoGuild}] /\ V \in SUBSET Speakers
          /\ M \in [Guilds -> SUBSET Speakers] /\ X \in SUBSET Guilds
      BY <1>0, <1>2, <2>1
    <3> HIDE DEF s
    <3>2. QED
      BY <2>2, <3>1, Regrouped
  <2>4. PrivateKept(t)
    BY <1>0, <2>3 DEF PrivateKept, SameChannels
  <2>5. UsersBelong(t)
    <3> SUFFICES ASSUME NEW c \in Channels, NEW q \in t.users[c]
                 PROVE  /\ t.life[q] = "in" /\ c \in t.open
                        /\ c \in Guilds => t.guild[q] = c \/ q \in t.moved
                        /\ c \in Bands => t.band[q] = c \/ q \in t.departed
      BY DEF UsersBelong
    <3>1. q \in s.users[c] /\ q \in Speakers
      BY <1>0, <2>3 DEF SameChannels
    <3>2. /\ s.life[q] = "in" /\ c \in s.open
          /\ c \in Guilds => s.guild[q] = c \/ q \in s.moved
          /\ c \in Bands => s.band[q] = c \/ q \in s.departed
      BY <1>0, <3>1 DEF UsersBelong
    <3>3. QED
      BY <1>2, <2>1, <2>3, <3>1, <3>2 DEF SameChannels
  <2>6. ASSUME NEW q \in Speakers, q # p, NEW f \in Guilds
        PROVE  /\ t.life[q] = "in" /\ t.guild[q] = f =>
                     (f \in t.loaded /\ q \in t.membersOnline[f] /\ q \notin t.dangling) \/ q \in t.reborn
               /\ q \in t.membersOnline[f] => (t.life[q] = "in" /\ t.guild[q] = f) \/ f \in t.spoiled
    BY <1>0, <1>3, <2>1, <2>3, <2>6 DEF GuildsKept
  <2>7. /\ t.haunted \subseteq t.spoiled
        /\ \A q \in t.dangling : t.life[q] = "dead" \/ q \in t.reborn
        /\ \A q \in t.reborn : t.life[q] # "out"
    BY <1>0, <1>3, <2>3 DEF GuildsKept
  <2>8. QED
    BY <2>3, <2>4, <2>5, <2>6, <2>7 DEF G
<1>4. CASE g \in Guilds \ Ranked
  <2> DEFINE X == s.spoiled \cup ({old} \ {NoGuild})
             t == [s EXCEPT !.guild = [s.guild EXCEPT ![p] = NoGuild], !.moved = V,
                            !.membersOnline = s.membersOnline, !.spoiled = X]
  <2>1. X \in SUBSET Guilds /\ s.spoiled \subseteq X
    BY <1>0
  <2>2. chat' = t
    <3>1. left = [s EXCEPT !.guild = [s.guild EXCEPT ![p] = NoGuild], !.moved = V] /\ left.spoiled = s.spoiled
      BY <1>0 DEF ChatStates
    <3>2. chat' = [left EXCEPT !.spoiled = X]
      BY <1>1, <1>4, <3>1
    <3> HIDE DEF left, X
    <3>3. QED
      BY <1>0, <3>1, <3>2 DEF ChatStates
  <2>3. /\ t \in ChatStates /\ UsersBelong(t) /\ PrivateKept(t)
        /\ t.life = s.life /\ t.guild = [s.guild EXCEPT ![p] = NoGuild]
        /\ t.membersOnline = s.membersOnline /\ t.spoiled = X
        /\ \A q \in Speakers : q # p =>
              \A f \in Guilds :
                /\ t.life[q] = "in" /\ t.guild[q] = f =>
                      (f \in t.loaded /\ q \in t.membersOnline[f] /\ q \notin t.dangling) \/ q \in t.reborn
                /\ q \in t.membersOnline[f] => (t.life[q] = "in" /\ t.guild[q] = f) \/ f \in t.spoiled
        /\ t.haunted \subseteq t.spoiled
        /\ \A q \in t.dangling : t.life[q] = "dead" \/ q \in t.reborn
        /\ \A q \in t.reborn : t.life[q] # "out"
    <3>1. \A q \in Speakers, f \in Guilds : q # p => (q \in s.membersOnline[f] <=> q \in s.membersOnline[f])
      OBVIOUS
    <3>2. t = Regroup(s, [s.guild EXCEPT ![p] = NoGuild], V, s.membersOnline, X)
      BY DEF Regroup
    <3>3. NoGuild \in Guilds \cup {NoGuild} /\ s.membersOnline \in [Guilds -> SUBSET Speakers]
      BY <1>0
    <3> HIDE DEF t, X, s
    <3>4. QED
      BY <1>3, <2>1, <3>1, <3>2, <3>3
  <2> HIDE DEF t
  <2>4. \A f \in Guilds : t.guild[p] # f /\ (p \in t.membersOnline[f] => f \in t.spoiled)
    BY <1>0, <2>3 DEF GuildsKept
  <2>5. GuildsKept(t)
    BY <2>3, <2>4 DEF GuildsKept
  <2>6. QED
    BY <2>2, <2>3, <2>5 DEF ChatOK
<1>5. CASE g \notin Guilds \ Ranked
  <2> DEFINE M == IF g = NoGuild THEN s.membersOnline ELSE [s.membersOnline EXCEPT ![g] = @ \cup {p}]
             t == [s EXCEPT !.guild = [s.guild EXCEPT ![p] = g], !.moved = V,
                            !.membersOnline = M, !.spoiled = s.spoiled]
             k == removeMember(t, old, p)
  <2>1. /\ M \in [Guilds -> SUBSET Speakers]
        /\ \A f \in Guilds : M[f] = IF f = g THEN s.membersOnline[f] \cup {p} ELSE s.membersOnline[f]
    BY <1>0
  <2>2. chat' = k
    <3> DEFINE u == [left EXCEPT !.guild[p] = g]
               G == [s.guild EXCEPT ![p] = g]
    <3>1. u = [s EXCEPT !.guild = G, !.moved = V] /\ G[p] = g
      <4> DEFINE G0 == [s.guild EXCEPT ![p] = NoGuild]
      <4>1. left = [s EXCEPT !.guild = G0, !.moved = V]
        OBVIOUS
      <4>2. G = [G0 EXCEPT ![p] = g] /\ G[p] = g
        BY <1>0
      <4>3. u = [left EXCEPT !.guild = [left.guild EXCEPT ![p] = g]]
        OBVIOUS
      <4> HIDE DEF left, u, G, G0
      <4>4. left.guild = G0
        BY <1>0, <4>1 DEF ChatStates
      <4>5. u = [left EXCEPT !.guild = G]
        BY <4>2, <4>3, <4>4
      <4>6. QED
        BY <1>0, <4>1, <4>2, <4>5 DEF ChatStates
    <3>2. chat' = removeMember(addMember(u, p), old, p)
      BY <1>1, <1>5
    <3>3. t = [s EXCEPT !.guild = G, !.moved = V, !.membersOnline = M]
      BY <1>0 DEF ChatStates
    <3> HIDE DEF u, G, t
    <3>4. u.guild = G /\ u.membersOnline = s.membersOnline
      BY <1>0, <3>1 DEF ChatStates
    <3>5. addMember(u, p) = t
      <4>1. CASE g = NoGuild
        <5>1. addMember(u, p) = u /\ M = s.membersOnline
          BY <3>1, <3>4, <4>1 DEF addMember
        <5> HIDE DEF M
        <5>2. u = [s EXCEPT !.guild = G, !.moved = V] /\ s \in ChatStates
          BY <1>0, <3>1
        <5>3. t = [s EXCEPT !.guild = G, !.moved = V, !.membersOnline = s.membersOnline]
          BY <3>3, <5>1
        <5> HIDE DEF s
        <5>4. u = t
          BY <5>2, <5>3 DEF ChatStates
        <5>5. QED
          BY <5>1, <5>4
      <4>2. CASE g # NoGuild
        <5>1. addMember(u, p) = [u EXCEPT !.membersOnline[g] = @ \cup {p}]
          BY <3>1, <3>4, <4>2 DEF addMember
        <5>2. M = [u.membersOnline EXCEPT ![g] = @ \cup {p}]
          BY <3>4, <4>2
        <5> HIDE DEF M
        <5>3. addMember(u, p) = [u EXCEPT !.membersOnline = M]
          BY <5>1, <5>2
        <5>4. QED
          BY <1>0, <3>1, <3>3, <5>3 DEF ChatStates
      <4>3. QED
        BY <4>1, <4>2
    <3>6. QED
      BY <3>2, <3>5
  <2>3. \A q \in Speakers, f \in Guilds : q # p => (q \in M[f] <=> q \in s.membersOnline[f])
    BY <2>1
  <2> HIDE DEF M
  <2>4. /\ t \in ChatStates /\ UsersBelong(t) /\ PrivateKept(t)
        /\ t.life = s.life /\ t.guild = [s.guild EXCEPT ![p] = g]
        /\ t.loaded = s.loaded /\ t.dangling = s.dangling /\ t.reborn = s.reborn
        /\ t.haunted = s.haunted /\ t.membersOnline = M /\ t.spoiled = s.spoiled
        /\ \A q \in Speakers : q # p =>
              \A f \in Guilds :
                /\ t.life[q] = "in" /\ t.guild[q] = f =>
                      (f \in t.loaded /\ q \in t.membersOnline[f] /\ q \notin t.dangling) \/ q \in t.reborn
                /\ q \in t.membersOnline[f] => (t.life[q] = "in" /\ t.guild[q] = f) \/ f \in t.spoiled
        /\ t.haunted \subseteq t.spoiled
        /\ \A q \in t.dangling : t.life[q] = "dead" \/ q \in t.reborn
        /\ \A q \in t.reborn : t.life[q] # "out"
    <3>1. t = Regroup(s, [s.guild EXCEPT ![p] = g], V, M, s.spoiled)
      BY DEF Regroup
    <3>2. s.spoiled \in SUBSET Guilds /\ s.spoiled \subseteq s.spoiled
      BY <1>0
    <3> HIDE DEF t, s
    <3>3. QED
      BY <1>3, <2>1, <2>3, <3>1, <3>2
  <2>5. t.guild[p] = g /\ OthersKept(t, p)
    BY <1>0, <2>4 DEF OthersKept
  <2> HIDE DEF t
  <2>6. /\ k \in ChatStates /\ SameButGuilds(t, k)
        /\ old # NoGuild => p \notin k.membersOnline[old]
        /\ \A h \in Guilds : /\ k.membersOnline[h] \subseteq t.membersOnline[h]
                             /\ t.membersOnline[h] \subseteq k.membersOnline[h] \cup {p}
                             /\ h # old => k.membersOnline[h] = t.membersOnline[h]
        /\ OthersKept(k, p)
        /\ p \in k.dangling => p \in t.dangling \/ t.guild[p] = old
        /\ \A h \in t.loaded : h # old => h \in k.loaded
    BY <1>0, <2>4, <2>5, RemovedMemberOK
  <2> HIDE DEF k
  <2>7. UsersBelong(k) /\ PrivateKept(k)
    BY <2>4, <2>6 DEF UsersBelong, PrivateKept, SameButGuilds, SameChannels
  <2>8. p \notin k.dangling
    BY <1>1, <2>4, <2>5, <2>6
  <2>9. ASSUME NEW f \in Guilds
        PROVE  /\ k.life[p] = "in" /\ k.guild[p] = f =>
                     f \in k.loaded /\ p \in k.membersOnline[f] /\ p \notin k.dangling
               /\ p \in k.membersOnline[f] => (k.life[p] = "in" /\ k.guild[p] = f) \/ f \in k.spoiled
    <3>1. CASE f = g
      BY <1>0, <1>1, <2>1, <2>4, <2>5, <2>6, <2>8, <3>1 DEF SameButGuilds
    <3>2. CASE f # g
      <4>1. p \in k.membersOnline[f] => p \in s.membersOnline[f] /\ f # old
        BY <1>0, <2>1, <2>4, <2>6, <3>2
      <4>2. p \in k.membersOnline[f] => f \in k.spoiled
        BY <1>0, <2>4, <2>6, <4>1 DEF GuildsKept, SameButGuilds
      <4>3. k.guild[p] # f
        BY <2>5, <2>6, <3>2 DEF SameButGuilds
      <4>4. QED
        BY <4>2, <4>3
    <3>3. QED
      BY <3>1, <3>2
  <2>10. GuildsKept(k)
    <3>1. ASSUME NEW q \in Speakers, NEW f \in Guilds
          PROVE  /\ k.life[q] = "in" /\ k.guild[q] = f =>
                       (f \in k.loaded /\ q \in k.membersOnline[f] /\ q \notin k.dangling) \/ q \in k.reborn
                 /\ q \in k.membersOnline[f] => (k.life[q] = "in" /\ k.guild[q] = f) \/ f \in k.spoiled
      <4>1. CASE q = p
        BY <2>9, <4>1
      <4>2. CASE q # p
        BY <2>4, <2>6, <4>2 DEF OthersKept, SameButGuilds
      <4>3. QED
        BY <4>1, <4>2
    <3>2. k.dangling \subseteq Speakers
      BY <2>6 DEF ChatStates
    <3>3. \A q \in k.dangling : k.life[q] = "dead" \/ q \in k.reborn
      BY <2>6, <2>8, <3>2 DEF OthersKept
    <3>4. k.haunted \subseteq k.spoiled /\ \A q \in k.reborn : k.life[q] # "out"
      BY <2>4, <2>6 DEF SameButGuilds
    <3>5. QED
      BY <3>1, <3>3, <3>4 DEF GuildsKept
  <2>11. QED
    BY <2>2, <2>6, <2>7, <2>10 DEF ChatOK
<1>6. QED
  BY <1>4, <1>5

ChatIInv == ChatOK(chat)

LEMMA NextChat == ChatIInv /\ [ChatNext]_chatVars => ChatIInv'
<1> SUFFICES ASSUME ChatOK(chat), [ChatNext]_chatVars PROVE ChatOK(chat')
  BY DEF ChatIInv
<1>1. CASE UNCHANGED chatVars
  BY <1>1 DEF chatVars
<1>2. ASSUME NEW c \in NormalIds, NEW kept \in SUBSET Speakers, ReloadChat(c, kept) PROVE ChatOK(chat')
  <2> DEFINE U == [chat.users EXCEPT ![c] = kept]
  <2>1. /\ chat \in ChatStates /\ chat.users \in [Channels -> SUBSET Speakers] /\ c \in Channels
        /\ PrivateIds \subseteq Channels /\ c \notin PrivateIds
    BY ChannelsAssumption DEF ChatOK, ChatStates, Channels
  <2>2. kept \subseteq chat.users[c] /\ chat' = [chat EXCEPT !.users = U]
    BY <1>2 DEF ReloadChat
  <2>3. /\ U \in [Channels -> SUBSET Speakers]
        /\ \A d \in Channels : U[d] = IF d = c THEN kept ELSE chat.users[d]
    BY <2>1
  <2> HIDE DEF U
  <2>4. /\ chat' \in ChatStates /\ SamePlayers(chat, chat') /\ chat'.moved = chat.moved
        /\ chat'.departed = chat.departed /\ chat'.open = chat.open /\ chat'.owner = chat.owner
        /\ chat'.users = U /\ chat'.invites = chat.invites
    BY <2>1, <2>2, <2>3 DEF ChatStates, SamePlayers
  <2>5. UsersBelong(chat')
    BY <2>2, <2>3, <2>4 DEF ChatOK, UsersBelong, SamePlayers
  <2>6. PrivateKept(chat')
    BY <2>1, <2>3, <2>4 DEF ChatOK, PrivateKept, SamePlayers
  <2>7. GuildsKept(chat')
    BY <2>4 DEF ChatOK, GuildsKept, SamePlayers
  <2>8. QED
    BY <2>4, <2>5, <2>6, <2>7 DEF ChatOK
<1>3. QED
  BY <1>1, <1>2, ComingAndGoing, Requests, InParty, OtherGuild DEF ChatNext

\* What channels and guilds point to is in the game, for any players, guilds,
\* parties and channels and however players come, go, die and respawn: users,
\* invited players, the one owner of a private channel, the members of a guild
\* and the guild of a player, but for the cases ChatSound names.
THEOREM ChatStaysSound == ChatSpec => []ChatSound
<1>1. ChatInit => ChatIInv
  BY InitChat DEF ChatIInv
<1>2. ChatIInv => ChatSound
  BY ChatSoundFollows DEF ChatIInv
<1>3. QED
  BY <1>1, <1>2, NextChat, PTL DEF ChatSpec

-----------------------------------------------------------------------------
(* Decay: what the handlers do to the fields of a state.                   *)

LEMMA DecayConstants ==
    /\ Worn \subseteq Perishables /\ IsFiniteSet(Perishables)
    /\ OnMap \notin Perishables /\ Removed \notin Perishables /\ OnMap # Removed
    /\ Lifetime \in [Perishables -> Nat \ {0}] /\ EventSlots \subseteq Nat \ {0} /\ MaxNow \in Nat
BY DecayAssumption

LEMMA MaxZero == ASSUME NEW x \in Int PROVE Max({0, x}) = IF x > 0 THEN x ELSE 0
<1>1. \E y \in {0, x} : \A z \in {0, x} : y >= z
  OBVIOUS
<1>2. Max({0, x}) \in {0, x} /\ \A z \in {0, x} : Max({0, x}) >= z
  BY <1>1 DEF Max
<1> QED BY <1>2

LEMMA MinIs == ASSUME NEW N \in SUBSET Nat, N # {} PROVE Min(N) \in N /\ \A m \in N : Min(N) <= m
<1>1. \E n \in N : \A m \in N : n <= m
  BY LeastOf
<1> QED BY <1>1 DEF Min

\* How long i has to go at time n, as getDuration() has it.
TimeLeft(s, i, n) ==
    IF s.state[i] \in {"true", "stopping"}
    THEN IF s.stamp[i] = None \/ s.stamp[i] <= n THEN 0 ELSE s.stamp[i] - n
    ELSE s.duration[i]

LEMMA DurationIs ==
    ASSUME NEW s \in DecayState, NEW i \in Perishables, now \in Nat
    PROVE  getDuration(s, i) = TimeLeft(s, i, now) /\ getDuration(s, i) \in Nat
<1>1. s.stamp[i] \in Nat \cup {None} /\ s.duration[i] \in Nat /\ None = -1
  BY DEF DecayState, Times, None
<1>2. Max({0, 0 - now}) = 0
  BY MaxZero
<1>3. s.stamp[i] # None => Max({0, s.stamp[i] - now}) = IF s.stamp[i] <= now THEN 0 ELSE s.stamp[i] - now
  BY <1>1, MaxZero
<1> DEFINE v == IF s.stamp[i] = None THEN 0 ELSE s.stamp[i]
<1>4. Max({0, v - now}) = IF s.stamp[i] = None \/ s.stamp[i] <= now THEN 0 ELSE s.stamp[i] - now
  BY <1>1, <1>2, <1>3
<1>5. getDuration(s, i) = IF s.state[i] \in {"true", "stopping"} THEN Max({0, v - now}) ELSE s.duration[i]
  BY DEF getDuration
<1> HIDE DEF v
<1> QED BY <1>1, <1>4, <1>5 DEF TimeLeft

LEMMA FirstKeyIs ==
    ASSUME NEW s \in DecayState, s.decayMap # {}
    PROVE  /\ FirstKey(s.decayMap) \in Nat /\ \E x \in s.decayMap : x[1] = FirstKey(s.decayMap)
           /\ \A x \in s.decayMap : FirstKey(s.decayMap) <= x[1]
<1> DEFINE N == {x[1] : x \in s.decayMap}
<1>1. N \in SUBSET Nat /\ N # {}
  BY DEF DecayState, Times
<1>2. Min(N) \in N /\ \A m \in N : Min(N) <= m
  <2> HIDE DEF N
  <2> QED BY <1>1, MinIs
<1> QED BY <1>1, <1>2 DEF FirstKey

LEMMA EntryIs ==
    ASSUME NEW s \in DecayState, NEW x \in s.decayMap
    PROVE  x[1] \in Nat /\ x[2] \in Perishables /\ x = <<x[1], x[2]>>
BY DEF DecayState, Times

\* Only the item itself is touched, and neither its place nor its type.
SameItems(s, r) == r.parent = s.parent /\ r.worn = s.worn /\ r.stage = s.stage /\ r.owed = s.owed
SameOthers(s, r, i) ==
    \A j \in Perishables \ {i} : /\ r.state[j] = s.state[j] /\ r.stamp[j] = s.stamp[j]
                                 /\ r.duration[j] = s.duration[j] /\ r.refs[j] = s.refs[j]
                                 /\ r.toRelease[j] = s.toRelease[j]

\* Nothing but the events changes.
SameState(s, r) ==
    /\ SameItems(s, r) /\ r.decayMap = s.decayMap /\ r.state = s.state /\ r.stamp = s.stamp
    /\ r.duration = s.duration /\ r.refs = s.refs /\ r.toRelease = s.toRelease
SameTimes(s, r) == SameState(s, r) /\ r.dangling = s.dangling /\ r.erased = s.erased

\* The events after addEvent().
LEMMA AddEventIs ==
    ASSUME NEW s \in DecayState, NEW t \in Nat \ {0}
    PROVE  LET r == addEvent(s, t)
           IN  /\ r \in DecayState /\ SameTimes(s, r)
               /\ s.full => r.full
               /\ r.full \/ \E e \in EventSlots : r.events[e] = t
               /\ \A e \in EventSlots : s.events[e] # 0 => r.events[e] = s.events[e]
<1> DEFINE free == {e \in EventSlots : s.events[e] = 0}
           e0 == Min(free)
<1>1. CASE free = {}
  <2>1. addEvent(s, t) = [s EXCEPT !.full = TRUE]
    BY <1>1 DEF addEvent
  <2> QED BY <2>1 DEF DecayState, SameTimes, SameState, SameItems
<1>2. CASE free # {}
  <2>1. e0 \in free
    <3>1. free \in SUBSET Nat
      BY DecayConstants
    <3> HIDE DEF free
    <3> QED BY <1>2, <3>1, MinIs
  <2>2. addEvent(s, t) = [s EXCEPT !.events[e0] = t, !.eventId = e0]
    BY <1>2 DEF addEvent
  <2>3. e0 \in EventSlots /\ s.events[e0] = 0
    BY <2>1
  <2> HIDE DEF e0
  <2> DEFINE ev == [s.events EXCEPT ![e0] = t]
  <2>5. ev \in [EventSlots -> Nat]
    BY <2>3 DEF DecayState, Times
  <2>6. addEvent(s, t) = [s EXCEPT !.events = ev, !.eventId = e0]
    BY <2>2
  <2>4. addEvent(s, t) \in DecayState
    <3> HIDE DEF ev
    <3> QED BY <2>3, <2>5, <2>6 DEF DecayState, Times
  <2> QED BY <2>2, <2>3, <2>4 DEF DecayState, SameTimes, SameState, SameItems
<1> QED BY <1>1, <1>2

LEMMA StopEventIs ==
    ASSUME NEW s \in DecayState
    PROVE  LET r == stopEvent(s)
           IN  r \in DecayState /\ SameTimes(s, r) /\ r.full = s.full
BY DEF stopEvent, DecayState, SameTimes, SameState, SameItems, Times

LEMMA StopDecayIs ==
    ASSUME NEW s \in DecayState, NEW i \in Perishables, now \in Nat
    PROVE  LET r == stopDecay(s, i)
           IN  /\ r \in DecayState /\ SameItems(s, r) /\ SameOthers(s, r, i)
               /\ r.refs = s.refs /\ r.events = s.events /\ r.dangling = s.dangling /\ r.full = s.full
               /\ \/ /\ r.decayMap = s.decayMap /\ r.toRelease = s.toRelease
                     /\ r.duration = s.duration
                     /\ s.state[i] # "absent" /\ s.stamp[i] # None => <<s.stamp[i], i>> \notin s.decayMap
                  \/ /\ s.state[i] # "absent" /\ s.stamp[i] # None /\ <<s.stamp[i], i>> \in s.decayMap
                     /\ r.decayMap = s.decayMap \ {<<s.stamp[i], i>>}
                     /\ r.toRelease = [s.toRelease EXCEPT ![i] = @ + 1]
                     /\ s.stage[i] # Plain => r.duration[i] = TimeLeft(s, i, now)
<1> DEFINE r == stopDecay(s, i)
<1>1. CASE s.state[i] = "absent"
  <2>1. r = s
    BY <1>1 DEF stopDecay
  <2> QED BY <1>1, <2>1 DEF SameItems, SameOthers
<1>2. CASE s.state[i] # "absent" /\ s.stamp[i] = None
  <2>0. <<s.stamp[i], i>> \notin s.decayMap
    BY <1>2 DEF DecayState, Times, None
  <2>1. r = [s EXCEPT !.state[i] = "absent"]
    BY <1>2, <2>0 DEF stopDecay
  <2>2. r \in DecayState
    BY <2>1 DEF DecayState
  <2> QED BY <1>2, <2>1, <2>2 DEF SameItems, SameOthers, DecayState
<1>3. CASE s.state[i] # "absent" /\ s.stamp[i] # None /\ <<s.stamp[i], i>> \in s.decayMap
  <2> DEFINE rest == s.decayMap \ {<<s.stamp[i], i>>}
             d == IF s.stage[i] = Plain THEN s.duration[i] ELSE getDuration(s, i)
             e == IF \E x \in rest : x[1] = s.stamp[i] THEN s.erased ELSE s.erased \cup {s.stamp[i]}
  <2>1. r = Unlisted(s, i)
    BY <1>3 DEF stopDecay
  <2>2. d \in Nat /\ e \in SUBSET Nat /\ (s.stage[i] # Plain => d = TimeLeft(s, i, now))
    <3>1. s.stamp[i] \in Nat
      BY <1>3 DEF DecayState, Times
    <3> QED BY <3>1, DurationIs DEF DecayState, Times
  <2>3. r = [s EXCEPT !.duration[i] = d, !.state[i] = "absent", !.decayMap = rest, !.erased = e,
                      !.toRelease[i] = @ + 1]
    BY <2>1 DEF Unlisted, ReleaseItem, DecayState
  <2> HIDE DEF d, e, rest
  <2>4. rest \in SUBSET (Nat \X Perishables) /\ rest = s.decayMap \ {<<s.stamp[i], i>>}
    BY DEF rest, DecayState, Times
  <2> DEFINE du == [s.duration EXCEPT ![i] = d]
             st == [s.state EXCEPT ![i] = "absent"]
             re == [s.toRelease EXCEPT ![i] = @ + 1]
  <2>9. du \in [Perishables -> Nat] /\ re \in [Perishables -> Nat]
        /\ st \in [Perishables -> {"absent", "false", "true", "pending", "stopping"}]
    BY <2>2 DEF DecayState, Times
  <2>10. r = [s EXCEPT !.duration = du, !.state = st, !.decayMap = rest, !.erased = e, !.toRelease = re]
    BY <2>3
  <2>5. r \in DecayState
    <3> HIDE DEF du, st, re, r
    <3> QED BY <2>2, <2>4, <2>9, <2>10 DEF DecayState, Times
  <2>6. r.toRelease = [s.toRelease EXCEPT ![i] = @ + 1] /\ r.duration[i] = d /\ r.decayMap = rest
    BY <2>3 DEF DecayState
  <2>7. SameItems(s, r) /\ r.refs = s.refs /\ r.events = s.events /\ r.dangling = s.dangling /\ r.full = s.full
    BY <2>3 DEF SameItems, DecayState
  <2>8. SameOthers(s, r, i)
    BY <2>3 DEF SameOthers, DecayState
  <2> HIDE DEF r
  <2> QED BY <1>3, <2>2, <2>4, <2>5, <2>6, <2>7, <2>8 DEF r
<1>4. CASE s.state[i] # "absent" /\ s.stamp[i] # None /\ <<s.stamp[i], i>> \notin s.decayMap
  <2>1. r = s \/ r = [s EXCEPT !.stamp[i] = None]
    BY <1>4 DEF stopDecay
  <2> QED BY <1>4, <2>1 DEF SameItems, SameOthers, DecayState
<1> QED BY <1>1, <1>2, <1>3, <1>4

-----------------------------------------------------------------------------
(* The invariant, inside of handlers.                                      *)

\* An event comes for every entry of decayMap, or is to be added for one of
\* the times K.
Served(s, n) == \E e \in EventSlots : s.events[e] \in 1..n
Awaited(s, K, n) == Served(s, n) \/ \E k \in K : k <= n
Timely(s, K) == s.full \/ s.dangling \/ \A x \in s.decayMap : Awaited(s, K, x[1])

LEMMA ScheduledIs ==
    ASSUME NEW s \in DecayState, NEW t \in Nat \ {0}, NEW K \in SUBSET Nat, Timely(s, K)
    PROVE  LET r == Scheduled(s, t)
           IN  /\ r \in DecayState /\ SameTimes(s, r) /\ Timely(r, K)
               /\ r.full \/ r.dangling \/ Awaited(r, K, t)
<1> DEFINE r == Scheduled(s, t)
<1>0. \A x \in s.decayMap : x[1] \in Nat
  BY EntryIs
<1>1. CASE s.decayMap = {}
  <2>1. r = addEvent(s, t)
    BY <1>1 DEF Scheduled
  <2>2. r \in DecayState /\ SameTimes(s, r) /\ (r.full \/ \E e \in EventSlots : r.events[e] = t)
    BY <2>1, AddEventIs
  <2> HIDE DEF r
  <2>3. r.full \/ Served(r, t)
    BY <2>2 DEF Served
  <2>4. r.decayMap = {}
    BY <1>1, <2>2 DEF SameTimes, SameState
  <2>5. r.full \/ r.dangling \/ Awaited(r, K, t)
    BY <2>3 DEF Awaited
  <2>6. Timely(r, K)
    BY <2>4 DEF Timely
  <2> QED BY <2>2, <2>5, <2>6 DEF r
<1>2. CASE s.decayMap # {} /\ t < FirstKey(s.decayMap)
  <2> DEFINE u == stopEvent(s)
  <2>1. r = addEvent(u, t)
    BY <1>2 DEF Scheduled
  <2>2. u \in DecayState /\ SameTimes(s, u)
    BY StopEventIs
  <2> HIDE DEF u
  <2>3. r \in DecayState /\ SameTimes(u, r) /\ (r.full \/ \E e \in EventSlots : r.events[e] = t)
    BY <2>1, <2>2, AddEventIs
  <2> HIDE DEF r
  <2>4. SameTimes(s, r)
    BY <2>2, <2>3 DEF SameTimes, SameState, SameItems
  <2>5. r.full \/ \A n \in Nat : t <= n => Served(r, n)
    BY <2>3 DEF Served
  <2>6. \A x \in r.decayMap : x[1] \in Nat /\ t <= x[1]
    BY <1>0, <1>2, <2>4, FirstKeyIs DEF SameTimes, SameState
  <2>7. Timely(r, K)
    BY <2>5, <2>6 DEF Timely, Awaited
  <2> QED BY <2>3, <2>4, <2>5, <2>7 DEF r, Awaited
<1>3. CASE s.decayMap # {} /\ ~(t < FirstKey(s.decayMap))
  <2>1. r = s
    BY <1>3 DEF Scheduled
  <2>2. PICK x \in s.decayMap : x[1] = FirstKey(s.decayMap)
    BY <1>3, FirstKeyIs
  <2>3. x[1] \in Nat /\ x[1] <= t
    BY <1>0, <1>3, <2>2
  <2>4. s.full \/ s.dangling \/ Awaited(s, K, x[1])
    BY DEF Timely
  <2>5. Awaited(s, K, x[1]) => Awaited(s, K, t)
    BY <2>3 DEF Awaited, Served
  <2> QED BY <2>1, <2>4, <2>5 DEF SameTimes, SameState, SameItems
<1> QED BY <1>1, <1>2, <1>3

\* Handlers make decayMap smaller without touching the events.
LEMMA TimelyLess ==
    ASSUME NEW s, NEW r, NEW K, Timely(s, K), r.decayMap \subseteq s.decayMap,
           r.events = s.events, r.full = s.full, r.dangling = s.dangling
    PROVE  Timely(r, K)
BY DEF Timely, Awaited, Served

\* The items in decayMap.
Listing(s) == {x[2] : x \in s.decayMap}

One(b) == IF b THEN 1 ELSE 0

\* The item has a parent that counts it.
Linked(s, i) == s.parent[i] = OnMap \/ (s.parent[i] \in Perishables /\ s.refs[s.parent[i]] > 0)

\* The references to the items, with those that handlers have in hand.
Counted(s, H) ==
    \A i \in Perishables :
        s.refs[i] = s.toRelease[i] + One(Linked(s, i)) + One(i \in Listing(s)) + H[i]

\* A container is not in a container, and only what is nowhere is deleted.
Shallow(s) == \A i \in Perishables : s.parent[i] \in Perishables => s.parent[s.parent[i]] \in {OnMap, Removed}
Rooted(s) == Shallow(s) /\ \A i \in Perishables : s.refs[i] = 0 => s.parent[i] = Removed

\* B: what checkDecay() has taken out of decayMap and not decayed yet.
Keyed(s, B) ==
    \A x \in s.decayMap : s.stamp[x[2]] = x[1] /\ s.state[x[2]] # "absent" /\ x[2] \notin B
Spent(s, B, n) ==
    \A i \in B : s.owed[i] = 0 /\ (isRemoved(s, i) \/ (s.state[i] = "true" /\ s.stamp[i] \in 0..n))

\* The time an item is owed is what it has left; but not of the items Y.
Owing(s, Y, n) ==
    \A i \in Perishables \ Y :
        s.stage[i] # Plain => IF i \in Listing(s) THEN TimeLeft(s, i, n) = s.owed[i]
                              ELSE isRemoved(s, i) \/ s.duration[i] = s.owed[i]

Kept(s, H, B, Y, n) ==
    s \in DecayState /\ Counted(s, H) /\ Rooted(s) /\ Keyed(s, B) /\ Spent(s, B, n) /\ Owing(s, Y, n)

\* Who is in decayMap decays; but perhaps not the items X.
Able(s, X) == \A i \in Listing(s) \ X : canDecay(s, i) /\ s.state[i] = "true"

Extra == [Perishables -> Nat]

LEMMA SameRemoved ==
    ASSUME NEW s, NEW r, SameItems(s, r)
    PROVE  \A i : (isRemoved(r, i) <=> isRemoved(s, i)) /\ (canDecay(r, i) <=> canDecay(s, i))
BY DEF SameItems, isRemoved, canDecay

LEMMA ListingIs ==
    ASSUME NEW s \in DecayState
    PROVE  /\ Listing(s) \subseteq Perishables
           /\ \A i : i \in Listing(s) <=> \E n : <<n, i>> \in s.decayMap
BY EntryIs DEF Listing

\* stopDecay() of an item.
LEMMA StopKeeps ==
    ASSUME NEW s, NEW i \in Perishables, NEW H \in Extra, NEW B \in SUBSET Perishables, NEW Y, NEW X, NEW K, now \in Nat,
           Kept(s, H, B, Y, now), Able(s, X), Timely(s, K), i \in B => isRemoved(s, i)
    PROVE  LET r == stopDecay(s, i)
           IN  /\ Kept(r, H, B, Y, now) /\ Able(r, X) /\ Timely(r, K) /\ SameItems(s, r)
               /\ Listing(r) = Listing(s) \ {i}
<1> DEFINE r == stopDecay(s, i)
<1>0. s \in DecayState /\ Counted(s, H) /\ Rooted(s) /\ Keyed(s, B) /\ Spent(s, B, now) /\ Owing(s, Y, now)
  BY DEF Kept
<1>1. /\ r \in DecayState /\ SameItems(s, r) /\ SameOthers(s, r, i)
      /\ r.refs = s.refs /\ r.events = s.events /\ r.dangling = s.dangling /\ r.full = s.full
      /\ \/ /\ r.decayMap = s.decayMap /\ r.toRelease = s.toRelease
            /\ r.duration = s.duration
            /\ s.state[i] # "absent" /\ s.stamp[i] # None => <<s.stamp[i], i>> \notin s.decayMap
         \/ /\ s.state[i] # "absent" /\ s.stamp[i] # None /\ <<s.stamp[i], i>> \in s.decayMap
            /\ r.decayMap = s.decayMap \ {<<s.stamp[i], i>>}
            /\ r.toRelease = [s.toRelease EXCEPT ![i] = @ + 1]
            /\ s.stage[i] # Plain => r.duration[i] = TimeLeft(s, i, now)
  BY <1>0, StopDecayIs
<1> HIDE DEF r
<1>2. \A n : <<n, i>> \in s.decayMap => s.stamp[i] = n /\ s.stamp[i] # None /\ s.state[i] # "absent"
  <2> SUFFICES ASSUME NEW n, <<n, i>> \in s.decayMap
               PROVE  s.stamp[i] = n /\ s.stamp[i] # None /\ s.state[i] # "absent"
    OBVIOUS
  <2>1. n \in Nat
    BY <1>0 DEF DecayState, Times
  <2> QED BY <1>0, <2>1 DEF Keyed, None
<1>3. /\ i \in Listing(s) => r.decayMap = s.decayMap \ {<<s.stamp[i], i>>}
                            /\ r.toRelease = [s.toRelease EXCEPT ![i] = @ + 1]
                            /\ (s.stage[i] # Plain => r.duration[i] = TimeLeft(s, i, now))
      /\ i \notin Listing(s) => r.decayMap = s.decayMap /\ r.toRelease = s.toRelease /\ r.duration = s.duration
  BY <1>0, <1>1, <1>2, ListingIs
<1>4. Listing(r) = Listing(s) \ {i}
  <2>1. \A j : (\E n : <<n, j>> \in r.decayMap) <=> j # i /\ \E n : <<n, j>> \in s.decayMap
    BY <1>0, <1>2, <1>3, ListingIs
  <2> QED BY <1>0, <1>1, <2>1, ListingIs
<1>5. \A j : (isRemoved(r, j) <=> isRemoved(s, j)) /\ (canDecay(r, j) <=> canDecay(s, j))
  BY <1>1, SameRemoved
<1>6. r.decayMap \subseteq s.decayMap
  BY <1>3
<1>7. Counted(r, H)
  <2> SUFFICES ASSUME NEW j \in Perishables
               PROVE  r.refs[j] = r.toRelease[j] + One(Linked(r, j)) + One(j \in Listing(r)) + H[j]
    BY DEF Counted
  <2>1. One(Linked(r, j)) = One(Linked(s, j))
    BY <1>1 DEF Linked, SameItems
  <2>2. s.refs[j] = s.toRelease[j] + One(Linked(s, j)) + One(j \in Listing(s)) + H[j]
    BY <1>0 DEF Counted
  <2>3. s.toRelease[j] \in Nat /\ H[j] \in Nat /\ One(Linked(s, j)) \in Nat
    BY <1>0 DEF DecayState, Extra, One
  <2>4. CASE j = i /\ i \in Listing(s)
    <3>1. r.toRelease[j] = s.toRelease[j] + 1 /\ One(j \in Listing(r)) = 0 /\ One(j \in Listing(s)) = 1
      BY <1>0, <1>3, <1>4, <2>4 DEF One, DecayState
    <3> QED BY <1>1, <2>1, <2>2, <2>3, <3>1
  <2>5. CASE ~(j = i /\ i \in Listing(s))
    <3>1. r.toRelease[j] = s.toRelease[j] /\ One(j \in Listing(r)) = One(j \in Listing(s))
      BY <1>1, <1>3, <1>4, <2>5 DEF SameOthers
    <3> QED BY <1>1, <2>1, <2>2, <3>1
  <2> QED BY <2>4, <2>5
<1>8. Rooted(r)
  BY <1>0, <1>1 DEF Rooted, Shallow, SameItems
<1>9. \A x \in r.decayMap : x[2] \in Perishables \ {i} /\ x[2] \in Listing(s)
  BY <1>1, <1>4, EntryIs DEF Listing
<1>10. Keyed(r, B)
  BY <1>0, <1>1, <1>6, <1>9 DEF Keyed, SameOthers
<1>11. Spent(r, B, now)
  <2> SUFFICES ASSUME NEW j \in B
               PROVE  r.owed[j] = 0 /\ (isRemoved(r, j) \/ (r.state[j] = "true" /\ r.stamp[j] \in 0..now))
    BY DEF Spent
  <2>1. s.owed[j] = 0 /\ (isRemoved(s, j) \/ (s.state[j] = "true" /\ s.stamp[j] \in 0..now))
    BY <1>0 DEF Spent
  <2>2. r.owed[j] = s.owed[j]
    BY <1>1 DEF SameItems
  <2>3. CASE j = i
    BY <1>5, <2>1, <2>2, <2>3
  <2>4. CASE j # i /\ j \in Perishables
    BY <1>1, <1>5, <2>1, <2>2, <2>4 DEF SameOthers
  <2> QED BY <2>3, <2>4
<1>12. Owing(r, Y, now)
  <2> SUFFICES ASSUME NEW j \in Perishables \ Y, r.stage[j] # Plain
               PROVE  IF j \in Listing(r) THEN TimeLeft(r, j, now) = r.owed[j]
                      ELSE isRemoved(r, j) \/ r.duration[j] = r.owed[j]
    BY DEF Owing
  <2>1. r.owed[j] = s.owed[j] /\ r.stage[j] = s.stage[j]
    BY <1>1 DEF SameItems
  <2>2. IF j \in Listing(s) THEN TimeLeft(s, j, now) = s.owed[j]
        ELSE isRemoved(s, j) \/ s.duration[j] = s.owed[j]
    BY <1>0, <2>1 DEF Owing
  <2>3. CASE j # i
    <3>1. TimeLeft(r, j, now) = TimeLeft(s, j, now) /\ r.duration[j] = s.duration[j]
      BY <1>1, <2>3 DEF SameOthers, TimeLeft
    <3> QED BY <1>4, <1>5, <2>1, <2>2, <2>3, <3>1
  <2>4. CASE j = i
    BY <1>3, <1>4, <1>5, <2>1, <2>2, <2>4
  <2> QED BY <2>3, <2>4
<1>13. Able(r, X)
  <2> SUFFICES ASSUME NEW j \in Listing(r) \ X PROVE canDecay(r, j) /\ r.state[j] = "true"
    BY DEF Able
  <2>1. j \in Listing(s) \ X /\ j # i /\ j \in Perishables
    BY <1>0, <1>4, ListingIs
  <2> QED BY <1>1, <1>5, <2>1 DEF Able, SameOthers
<1>14. Timely(r, K)
  BY <1>1, <1>6, TimelyLess
<1> QED BY <1>1, <1>4, <1>7, <1>8, <1>10, <1>11, <1>12, <1>13, <1>14 DEF Kept, r

\* Only the events change.
LEMMA KeptEvents ==
    ASSUME NEW s, NEW r \in DecayState, NEW H, NEW B, NEW Y, NEW X, NEW n, SameState(s, r),
           Kept(s, H, B, Y, n), Able(s, X)
    PROVE  Kept(r, H, B, Y, n) /\ Able(r, X) /\ Listing(r) = Listing(s)
<1>1. Listing(r) = Listing(s)
  BY DEF SameState, Listing
<1>2. \A j : (isRemoved(r, j) <=> isRemoved(s, j)) /\ (canDecay(r, j) <=> canDecay(s, j))
  BY SameRemoved DEF SameState
<1>3. \A j : One(Linked(r, j)) = One(Linked(s, j)) /\ TimeLeft(r, j, n) = TimeLeft(s, j, n)
  BY DEF SameState, SameItems, Linked, TimeLeft
<1>4. Counted(r, H)
  BY <1>1, <1>3 DEF Kept, Counted, SameState
<1>5. Rooted(r)
  BY DEF Kept, Rooted, Shallow, SameState, SameItems
<1>6. Keyed(r, B) /\ Spent(r, B, n)
  BY <1>2 DEF Kept, Keyed, Spent, SameState, SameItems
<1>7. Owing(r, Y, n)
  BY <1>1, <1>2, <1>3 DEF Kept, Owing, SameState, SameItems
<1>8. Able(r, X)
  BY <1>1, <1>2 DEF Able, SameState
<1> QED BY <1>1, <1>4, <1>5, <1>6, <1>7, <1>8 DEF Kept

\* The last part of startDecay().
LEMMA BeginKeeps ==
    ASSUME NEW s, NEW i \in Perishables, NEW H \in Extra, NEW B \in SUBSET Perishables, NEW Y, NEW X,
           NEW K \in SUBSET Nat, now \in Nat,
           Kept(s, H, B, Y, now), Able(s, X), Timely(s, K),
           i \notin B, canDecay(s, i), s.duration[i] = s.owed[i], s.duration[i] # 0
    PROVE  LET r == beginDecay(s, i)
           IN  /\ Kept(r, H, B, Y \ {i}, now) /\ Able(r, X \ {i}) /\ Timely(r, K) /\ SameItems(s, r)
<1> DEFINE t == now + s.duration[i]
           u == IF s.stamp[i] # None THEN stopDecay(s, i) ELSE s
           v == Scheduled(u, t)
           r == Listed(v, i, t)
<1>0. s \in DecayState /\ s.duration[i] \in Nat /\ t \in Nat \ {0} /\ t > now
  BY DEF Kept, DecayState, Times
<1>1. /\ Kept(u, H, B, Y, now) /\ Able(u, X) /\ Timely(u, K) /\ SameItems(s, u)
      /\ Listing(u) = Listing(s) \ {i}
  <2>1. CASE s.stamp[i] # None
    BY <2>1, StopKeeps
  <2>2. CASE s.stamp[i] = None
    <3>1. i \notin Listing(s)
      BY <1>0, <2>2, EntryIs DEF Kept, Keyed, Listing, None
    <3> QED BY <2>2, <3>1 DEF SameItems
  <2> QED BY <2>1, <2>2
<1>2. beginDecay(s, i) = r
  BY DEF beginDecay
<1> HIDE DEF u
<1>3. u \in DecayState
  BY <1>1 DEF Kept
<1>4. /\ v \in DecayState /\ SameTimes(u, v) /\ Timely(v, K)
      /\ v.full \/ v.dangling \/ Awaited(v, K, t)
  <2> HIDE DEF t
  <2> QED BY <1>0, <1>1, <1>3, ScheduledIs
<1> HIDE DEF v
<1>5. Kept(v, H, B, Y, now) /\ Able(v, X) /\ Listing(v) = Listing(s) \ {i} /\ SameItems(s, v)
  <2>1. Kept(v, H, B, Y, now) /\ Able(v, X) /\ Listing(v) = Listing(u)
    BY <1>1, <1>4, KeptEvents DEF SameTimes
  <2> QED BY <1>1, <1>4, <2>1 DEF SameTimes, SameState, SameItems
<1> HIDE DEF t
<1> DEFINE re == [v.refs EXCEPT ![i] = @ + 1]
           st == [v.state EXCEPT ![i] = "true"]
           sp == [v.stamp EXCEPT ![i] = t]
           ma == v.decayMap \cup {<<t, i>>}
<1>6. r = [v EXCEPT !.refs = re, !.state = st, !.stamp = sp, !.decayMap = ma]
  BY DEF Listed
<1>7. /\ re \in [Perishables -> Nat] /\ ma \in SUBSET (Nat \X Perishables)
      /\ st \in [Perishables -> {"absent", "false", "true", "pending", "stopping"}]
      /\ sp \in [Perishables -> Nat \cup {None}]
  BY <1>0, <1>4 DEF DecayState, Times
<1>8. r \in DecayState
  <2> HIDE DEF re, st, sp, ma, r
  <2> QED BY <1>4, <1>6, <1>7 DEF DecayState, Times
<1>9. /\ r.refs = re /\ r.state = st /\ r.stamp = sp /\ r.decayMap = ma
      /\ SameItems(v, r) /\ r.duration = v.duration /\ r.toRelease = v.toRelease
      /\ r.events = v.events /\ r.full = v.full /\ r.dangling = v.dangling
  <2> HIDE DEF re, st, sp, ma, r
  <2> QED BY <1>4, <1>6 DEF DecayState, SameItems
<1>10. /\ r.refs[i] = v.refs[i] + 1 /\ r.state[i] = "true" /\ r.stamp[i] = t
       /\ \A j \in Perishables : j # i => r.refs[j] = v.refs[j] /\ r.state[j] = v.state[j] /\ r.stamp[j] = v.stamp[j]
  BY <1>4, <1>9 DEF DecayState
<1>11. r.decayMap = v.decayMap \cup {<<t, i>>}
  BY <1>9
<1> HIDE DEF re, st, sp, ma, r
<1>12. SameItems(s, r)
  BY <1>5, <1>9 DEF SameItems
<1>13. \A j : /\ isRemoved(r, j) <=> isRemoved(v, j)
              /\ canDecay(r, j) <=> canDecay(v, j)
              /\ canDecay(r, j) <=> canDecay(s, j)
  BY <1>9, <1>12, SameRemoved
<1>14. Listing(r) = Listing(v) \cup {i} /\ i \notin Listing(v)
  <2>1. \A j : j \in Listing(r) <=> j \in Listing(v) \/ j = i
    BY <1>4, <1>8, <1>11, ListingIs
  <2> QED BY <1>5, <2>1
<1>15. v.refs[i] \in Nat \ {0} /\ v.parent[i] # Removed
  <2>1. v.parent[i] # Removed
    BY <1>5 DEF canDecay, isRemoved, SameItems
  <2> QED BY <1>4, <1>5, <2>1 DEF Kept, Rooted, DecayState
<1>16. Counted(r, H)
  <2> SUFFICES ASSUME NEW j \in Perishables
               PROVE  r.refs[j] = r.toRelease[j] + One(Linked(r, j)) + One(j \in Listing(r)) + H[j]
    BY DEF Counted
  <2>1. One(Linked(r, j)) = One(Linked(v, j))
    <3>1. \A k \in Perishables : r.refs[k] > 0 <=> v.refs[k] > 0
      BY <1>10, <1>15
    <3> QED BY <1>9, <3>1 DEF Linked, SameItems
  <2>2. v.refs[j] = v.toRelease[j] + One(Linked(v, j)) + One(j \in Listing(v)) + H[j]
    BY <1>5 DEF Kept, Counted
  <2>3. v.toRelease[j] \in Nat /\ H[j] \in Nat /\ One(Linked(v, j)) \in Nat
    BY <1>4 DEF DecayState, Extra, One
  <2>4. CASE j = i
    <3>1. One(j \in Listing(r)) = 1 /\ One(j \in Listing(v)) = 0
      BY <1>14, <2>4 DEF One
    <3> QED BY <1>9, <1>10, <2>1, <2>2, <2>3, <2>4, <3>1
  <2>5. CASE j # i
    <3>1. One(j \in Listing(r)) = One(j \in Listing(v))
      BY <1>14, <2>5
    <3> QED BY <1>9, <1>10, <2>1, <2>2, <2>5, <3>1
  <2> QED BY <2>4, <2>5
<1>17. Rooted(r)
  <2>1. \A j \in Perishables : r.refs[j] = 0 => v.refs[j] = 0
    BY <1>10, <1>15
  <2> QED BY <1>5, <1>9, <2>1 DEF Kept, Rooted, Shallow, SameItems
<1>18. Keyed(r, B)
  <2> SUFFICES ASSUME NEW x \in r.decayMap
               PROVE  r.stamp[x[2]] = x[1] /\ r.state[x[2]] # "absent" /\ x[2] \notin B
    BY DEF Keyed
  <2>1. CASE x = <<t, i>>
    BY <1>10, <2>1
  <2>2. CASE x \in v.decayMap
    <3>1. x[2] \in Perishables /\ x[2] # i
      BY <1>4, <1>14, <2>2, EntryIs DEF Listing
    <3> QED BY <1>5, <1>10, <2>2, <3>1 DEF Kept, Keyed
  <2> QED BY <1>11, <2>1, <2>2
<1>19. Spent(r, B, now)
  <2> SUFFICES ASSUME NEW j \in B
               PROVE  r.owed[j] = 0 /\ (isRemoved(r, j) \/ (r.state[j] = "true" /\ r.stamp[j] \in 0..now))
    BY DEF Spent
  <2>1. j \in Perishables /\ j # i
    OBVIOUS
  <2> QED BY <1>5, <1>9, <1>10, <1>13, <2>1 DEF Kept, Spent, SameItems
<1>20. Owing(r, Y \ {i}, now)
  <2> SUFFICES ASSUME NEW j \in Perishables \ (Y \ {i}), r.stage[j] # Plain
               PROVE  IF j \in Listing(r) THEN TimeLeft(r, j, now) = r.owed[j]
                      ELSE isRemoved(r, j) \/ r.duration[j] = r.owed[j]
    BY DEF Owing
  <2>1. CASE j = i
    <3>1. TimeLeft(r, i, now) = t - now
      BY <1>0, <1>10 DEF TimeLeft, None
    <3>2. t - now = s.owed[i] /\ r.owed[i] = s.owed[i]
      BY <1>0, <1>12 DEF t, SameItems
    <3> QED BY <1>14, <2>1, <3>1, <3>2
  <2>2. CASE j # i
    <3>1. TimeLeft(r, j, now) = TimeLeft(v, j, now) /\ r.duration[j] = v.duration[j]
          /\ r.owed[j] = v.owed[j] /\ r.stage[j] = v.stage[j]
      BY <1>9, <1>10, <2>2 DEF TimeLeft, SameItems
    <3>2. v.stage[j] # Plain => IF j \in Listing(v) THEN TimeLeft(v, j, now) = v.owed[j]
          ELSE isRemoved(v, j) \/ v.duration[j] = v.owed[j]
      BY <1>5, <2>2 DEF Kept, Owing
    <3> QED BY <1>13, <1>14, <2>2, <3>1, <3>2
  <2> QED BY <2>1, <2>2
<1>21. Able(r, X \ {i})
  <2> SUFFICES ASSUME NEW j \in Listing(r) \ (X \ {i}) PROVE canDecay(r, j) /\ r.state[j] = "true"
    BY DEF Able
  <2>1. CASE j = i
    BY <1>10, <1>13, <2>1
  <2>2. CASE j # i
    <3>1. j \in Listing(v) \ X /\ j \in Perishables
      BY <1>4, <1>14, <2>2, ListingIs
    <3> QED BY <1>5, <1>10, <1>13, <2>2, <3>1 DEF Able
  <2> QED BY <2>1, <2>2
<1>22. Timely(r, K)
  <2>1. \A n : Awaited(r, K, n) <=> Awaited(v, K, n)
    BY <1>9 DEF Awaited, Served
  <2> QED BY <1>4, <1>9, <1>11, <2>1 DEF Timely
<1> QED BY <1>2, <1>8, <1>12, <1>16, <1>17, <1>18, <1>19, <1>20, <1>21, <1>22 DEF Kept

\* startDecay() of what lies in a container.
LEMMA InsideKeeps ==
    ASSUME NEW s, NEW i \in Perishables, NEW H \in Extra, NEW B \in SUBSET Perishables,
           NEW K \in SUBSET Nat, now \in Nat,
           Kept(s, H, B, B, now), Able(s, {}), Timely(s, K)
    PROVE  LET r == startInside(s, i)
           IN  /\ Kept(r, H, B, B, now) /\ Able(r, {}) /\ Timely(r, K) /\ SameItems(s, r)
<1> DEFINE r == startInside(s, i)
<1>1. CASE canDecay(s, i) /\ s.state[i] # "true" /\ s.duration[i] > 0
  <2>1. r = beginDecay(s, i)
    BY <1>1 DEF startInside
  <2>2. i \notin Listing(s) /\ ~isRemoved(s, i) /\ s.stage[i] # Plain
    BY <1>1 DEF Able, canDecay
  <2>3. i \notin B
    BY <1>1, <2>2 DEF Kept, Spent
  <2>4. s.duration[i] = s.owed[i] /\ s.duration[i] # 0
    BY <1>1, <2>2, <2>3 DEF Kept, Owing
  <2>5. B \ {i} = B /\ {} \ {i} = {}
    BY <2>3
  <2> QED BY <1>1, <2>1, <2>3, <2>4, <2>5, BeginKeeps
<1>2. CASE ~(canDecay(s, i) /\ s.state[i] # "true" /\ s.duration[i] > 0)
  <2>1. r = s
    BY <1>2 DEF startInside
  <2> QED BY <2>1 DEF SameItems
<1> QED BY <1>1, <1>2

-----------------------------------------------------------------------------
(* Loops over the contents of a container.                                 *)

\* stopDecay() for every item of a list.
StopRun(h, q, base) ==
    h = [s \in SUBSET DOMAIN q |-> IF s = {} THEN base ELSE stopDecay(h[s \ {Max(s)}], q[Max(s)])]
AllStopped(q, base) == (CHOOSE h : StopRun(h, q, base))[DOMAIN q]

LEMMA StopLoop ==
    ASSUME NEW S \in SUBSET Perishables, NEW q, Lists(q, S), NEW base \in DecayState, now \in Nat,
           NEW G, \A T \in SUBSET S : G[T] \subseteq DecayState, base \in G[{}],
           \A T \in SUBSET S : \A i \in T : \A y \in G[T \ {i}] : stopDecay(y, i) \in G[T]
    PROVE  AllStopped(q, base) \in G[S]
<1> DEFINE U == DecayState
           F == [p \in S \X U |-> stopDecay(p[2], p[1])]
<1>1. \A i \in S, y \in U : stopDecay(y, i) \in U
  BY StopDecayIs
<1>2. F \in [S \X U -> U] /\ \A i \in S, y \in U : F[<<i, y>>] = stopDecay(y, i)
  BY <1>1
<1>3. PICK n \in Nat : q \in [1..n -> S]
  BY DEF Lists
<1>4. DOMAIN q = 1..n
  BY <1>3
<1>5. \A s \in SUBSET DOMAIN q : s # {} => Max(s) \in s /\ q[Max(s)] \in S /\ s \ {Max(s)} \in SUBSET DOMAIN q
  BY <1>3, <1>4, MaxIn
<1> HIDE DEF F, U
<1>6. base \in U /\ \A T \in SUBSET S : G[T] \subseteq U
  BY DEF U
<1>7. PICK h \in [SUBSET DOMAIN q -> U] : Loops(h, F, q, base, U)
  BY <1>2, <1>6, LoopExists
<1>8. StopRun(h, q, base)
  <2>1. \A s \in SUBSET DOMAIN q : h[s] = IF s = {} THEN base ELSE stopDecay(h[s \ {Max(s)}], q[Max(s)])
    BY <1>2, <1>5, <1>7 DEF Loops
  <2> QED BY <1>7, <2>1 DEF StopRun
<1> DEFINE k == CHOOSE g : StopRun(g, q, base)
<1>9. StopRun(k, q, base)
  BY <1>8
<1> HIDE DEF k
<1>10. Loops(k, F, q, base, U)
  <2>1. \A s \in SUBSET DOMAIN q : k[s] = IF s = {} THEN base ELSE stopDecay(k[s \ {Max(s)}], q[Max(s)])
    BY <1>9 DEF StopRun
  <2>2. k[{}] = base
    BY <2>1
  <2> QED BY <1>2, <1>5, <2>1, <2>2 DEF Loops
<1>11. \A T \in SUBSET S : \A i \in T : \A y \in G[T \ {i}] : F[<<i, y>>] \in G[T]
  <2> SUFFICES ASSUME NEW T \in SUBSET S, NEW i \in T, NEW y \in G[T \ {i}] PROVE F[<<i, y>>] \in G[T]
    OBVIOUS
  <2>1. T \ {i} \in SUBSET S /\ i \in S
    OBVIOUS
  <2>2. y \in U
    BY <1>6, <2>1
  <2>3. stopDecay(y, i) \in G[T]
    OBVIOUS
  <2>4. F[<<i, y>>] = stopDecay(y, i)
    BY <1>2, <2>1, <2>2
  <2> QED BY <2>3, <2>4
<1>12. k[DOMAIN q] \in G[S]
  BY <1>6, <1>10, <1>11, LoopReaches
<1> QED BY <1>12 DEF AllStopped, k

LEMMA BeginType ==
    ASSUME NEW s \in DecayState, NEW i \in Perishables, now \in Nat, s.duration[i] > 0
    PROVE  beginDecay(s, i) \in DecayState
<1> DEFINE t == now + s.duration[i]
           u == IF s.stamp[i] # None THEN stopDecay(s, i) ELSE s
           v == Scheduled(u, t)
           r == Listed(v, i, t)
<1>1. SUFFICES r \in DecayState
  BY DEF beginDecay
<1>2. t \in Nat \ {0}
  BY DEF DecayState, Times
<1>3. u \in DecayState
  BY StopDecayIs
<1> HIDE DEF t, u
<1>4. Timely(u, Nat)
  <2>1. \A x \in u.decayMap : x[1] \in Nat
    BY <1>3, EntryIs
  <2> QED BY <2>1 DEF Timely, Awaited
<1>5. v \in DecayState
  BY <1>2, <1>3, <1>4, ScheduledIs
<1> HIDE DEF v
<1> DEFINE re == [v.refs EXCEPT ![i] = @ + 1]
           st == [v.state EXCEPT ![i] = "true"]
           sp == [v.stamp EXCEPT ![i] = t]
           ma == v.decayMap \cup {<<t, i>>}
<1>6. r = [v EXCEPT !.refs = re, !.state = st, !.stamp = sp, !.decayMap = ma]
  BY DEF Listed
<1>7. /\ re \in [Perishables -> Nat] /\ ma \in SUBSET (Nat \X Perishables)
      /\ st \in [Perishables -> {"absent", "false", "true", "pending", "stopping"}]
      /\ sp \in [Perishables -> Nat \cup {None}]
  BY <1>2, <1>5 DEF DecayState, Times
<1> HIDE DEF re, st, sp, ma, r
<1> QED BY <1>5, <1>6, <1>7 DEF DecayState, Times

LEMMA InsideType ==
    ASSUME NEW s \in DecayState, NEW i \in Perishables, now \in Nat PROVE startInside(s, i) \in DecayState
BY BeginType DEF startInside

\* startDecay() for every item of a list.
InsideRun(h, q, base) ==
    h = [s \in SUBSET DOMAIN q |-> IF s = {} THEN base ELSE startInside(h[s \ {Max(s)}], q[Max(s)])]
Begun(q, base) == (CHOOSE h : InsideRun(h, q, base))[DOMAIN q]

LEMMA InsideLoop ==
    ASSUME NEW S \in SUBSET Perishables, NEW q, Lists(q, S), NEW base \in DecayState, now \in Nat,
           NEW G, \A T \in SUBSET S : G[T] \subseteq DecayState, base \in G[{}],
           \A T \in SUBSET S : \A i \in T : \A y \in G[T \ {i}] : startInside(y, i) \in G[T]
    PROVE  Begun(q, base) \in G[S]
<1> DEFINE U == DecayState
           F == [p \in S \X U |-> startInside(p[2], p[1])]
<1>1. \A i \in S, y \in U : startInside(y, i) \in U
  BY InsideType
<1>2. F \in [S \X U -> U] /\ \A i \in S, y \in U : F[<<i, y>>] = startInside(y, i)
  BY <1>1
<1>3. PICK n \in Nat : q \in [1..n -> S]
  BY DEF Lists
<1>4. DOMAIN q = 1..n
  BY <1>3
<1>5. \A s \in SUBSET DOMAIN q : s # {} => Max(s) \in s /\ q[Max(s)] \in S /\ s \ {Max(s)} \in SUBSET DOMAIN q
  BY <1>3, <1>4, MaxIn
<1> HIDE DEF F, U
<1>6. base \in U /\ \A T \in SUBSET S : G[T] \subseteq U
  BY DEF U
<1>7. PICK h \in [SUBSET DOMAIN q -> U] : Loops(h, F, q, base, U)
  BY <1>2, <1>6, LoopExists
<1>8. InsideRun(h, q, base)
  <2>1. \A s \in SUBSET DOMAIN q : h[s] = IF s = {} THEN base ELSE startInside(h[s \ {Max(s)}], q[Max(s)])
    BY <1>2, <1>5, <1>7 DEF Loops
  <2> QED BY <1>7, <2>1 DEF InsideRun
<1> DEFINE k == CHOOSE g : InsideRun(g, q, base)
<1>9. InsideRun(k, q, base)
  BY <1>8
<1> HIDE DEF k
<1>10. Loops(k, F, q, base, U)
  <2>1. \A s \in SUBSET DOMAIN q : k[s] = IF s = {} THEN base ELSE startInside(k[s \ {Max(s)}], q[Max(s)])
    BY <1>9 DEF InsideRun
  <2>2. k[{}] = base
    BY <2>1
  <2> QED BY <1>2, <1>5, <2>1, <2>2 DEF Loops
<1>11. \A T \in SUBSET S : \A i \in T : \A y \in G[T \ {i}] : F[<<i, y>>] \in G[T]
  <2> SUFFICES ASSUME NEW T \in SUBSET S, NEW i \in T, NEW y \in G[T \ {i}] PROVE F[<<i, y>>] \in G[T]
    OBVIOUS
  <2>1. T \ {i} \in SUBSET S /\ i \in S
    OBVIOUS
  <2>2. y \in U
    BY <1>6, <2>1
  <2>3. startInside(y, i) \in G[T]
    OBVIOUS
  <2>4. F[<<i, y>>] = startInside(y, i)
    BY <1>2, <2>1, <2>2
  <2> QED BY <2>3, <2>4
<1>12. k[DOMAIN q] \in G[S]
  BY <1>6, <1>10, <1>11, LoopReaches
<1> QED BY <1>12 DEF Begun, k

LEMMA ForEachIs ==
    ASSUME NEW s, NEW S
    PROVE  /\ ForEach(stopDecay, s, S) = AllStopped(SetToSeq(S), s)
           /\ ForEach(startInside, s, S) = Begun(SetToSeq(S), s)
BY DEF ForEach, FoldLeft, MapThenFoldSet, AllStopped, StopRun, Begun, InsideRun

LEMMA StopAllKeeps ==
    ASSUME NEW s, NEW S \in SUBSET Perishables, NEW H \in Extra, NEW B \in SUBSET Perishables, NEW Y, NEW X,
           NEW K, now \in Nat,
           Kept(s, H, B, Y, now), Able(s, X), Timely(s, K), \A j \in S \cap B : isRemoved(s, j)
    PROVE  LET r == ForEach(stopDecay, s, S)
           IN  /\ Kept(r, H, B, Y, now) /\ Able(r, X) /\ Timely(r, K) /\ SameItems(s, r)
               /\ Listing(r) = Listing(s) \ S
<1> DEFINE q == SetToSeq(S)
           Good(T) == {y \in DecayState : /\ Kept(y, H, B, Y, now) /\ Able(y, X) /\ Timely(y, K)
                                          /\ SameItems(s, y) /\ Listing(y) = Listing(s) \ T}
           G == [T \in SUBSET S |-> Good(T)]
<1>1. Lists(q, S)
  BY DecayConstants, FS_Subset, ListedSet
<1>2. s \in DecayState /\ s \in Good({})
  BY DEF Kept, SameItems
<1>3. \A T \in SUBSET S : G[T] = Good(T) /\ Good(T) \subseteq DecayState
  OBVIOUS
<1>4. ASSUME NEW T \in SUBSET S, NEW i \in T, NEW y \in G[T \ {i}] PROVE stopDecay(y, i) \in G[T]
  <2>1. y \in Good(T \ {i}) /\ i \in Perishables
    BY <1>3
  <2>2. i \in B => isRemoved(y, i)
    BY <2>1, SameRemoved
  <2> DEFINE r == stopDecay(y, i)
  <2>3. /\ Kept(r, H, B, Y, now) /\ Able(r, X) /\ Timely(r, K) /\ SameItems(y, r)
        /\ Listing(r) = Listing(y) \ {i}
    BY <2>1, <2>2, StopKeeps
  <2> HIDE DEF r
  <2>4. SameItems(s, r) /\ r \in DecayState
    BY <2>1, <2>3 DEF SameItems, Kept
  <2>5. Listing(r) = Listing(s) \ T
    BY <2>1, <2>3
  <2>6. r \in Good(T)
    BY <2>3, <2>4, <2>5
  <2> QED BY <1>3, <2>6 DEF r
<1> HIDE DEF q, G
<1>5. AllStopped(q, s) \in G[S]
  <2>1. s \in G[{}] /\ \A T \in SUBSET S : G[T] \subseteq DecayState
    BY <1>2, <1>3
  <2> HIDE DEF Good
  <2> QED BY <1>1, <1>2, <1>4, <2>1, StopLoop
<1> QED BY <1>3, <1>5, ForEachIs DEF q

LEMMA InsideAllKeeps ==
    ASSUME NEW s, NEW S \in SUBSET Perishables, NEW H \in Extra, NEW B \in SUBSET Perishables,
           NEW K \in SUBSET Nat, now \in Nat,
           Kept(s, H, B, B, now), Able(s, {}), Timely(s, K)
    PROVE  LET r == ForEach(startInside, s, S)
           IN  /\ Kept(r, H, B, B, now) /\ Able(r, {}) /\ Timely(r, K) /\ SameItems(s, r)
<1> DEFINE q == SetToSeq(S)
           Good == {y \in DecayState : /\ Kept(y, H, B, B, now) /\ Able(y, {}) /\ Timely(y, K)
                                       /\ SameItems(s, y)}
           G == [T \in SUBSET S |-> Good]
<1>1. Lists(q, S)
  BY DecayConstants, FS_Subset, ListedSet
<1>2. s \in DecayState /\ s \in Good
  BY DEF Kept, SameItems
<1>3. \A T \in SUBSET S : G[T] = Good /\ Good \subseteq DecayState
  OBVIOUS
<1>4. ASSUME NEW T \in SUBSET S, NEW i \in T, NEW y \in G[T \ {i}] PROVE startInside(y, i) \in G[T]
  <2>1. y \in Good /\ i \in Perishables
    BY <1>3
  <2> DEFINE r == startInside(y, i)
  <2>2. Kept(r, H, B, B, now) /\ Able(r, {}) /\ Timely(r, K) /\ SameItems(y, r)
    BY <2>1, InsideKeeps
  <2> HIDE DEF r
  <2>3. SameItems(s, r) /\ r \in DecayState
    BY <2>1, <2>2 DEF SameItems, Kept
  <2>4. r \in Good
    BY <2>2, <2>3
  <2> QED BY <1>3, <2>4 DEF r
<1> HIDE DEF q, G
<1>5. Begun(q, s) \in G[S]
  <2>1. s \in G[{}] /\ \A T \in SUBSET S : G[T] \subseteq DecayState
    BY <1>2, <1>3
  <2> HIDE DEF Good
  <2> QED BY <1>1, <1>2, <1>4, <2>1, InsideLoop
<1> QED BY <1>3, <1>5, ForEachIs DEF q

-----------------------------------------------------------------------------
(* Handlers.                                                               *)

\* A reference that a handler had in hand is left to cleanup().
LEMMA ReleaseKeeps ==
    ASSUME NEW s, NEW i \in Perishables, NEW H \in Extra, NEW B, NEW Y, NEW X, NEW K, NEW n,
           Kept(s, [H EXCEPT ![i] = @ + 1], B, Y, n), Able(s, X), Timely(s, K)
    PROVE  LET r == ReleaseItem(s, i)
           IN  /\ Kept(r, H, B, Y, n) /\ Able(r, X) /\ Timely(r, K) /\ SameItems(s, r)
               /\ Listing(r) = Listing(s)
<1> DEFINE r == ReleaseItem(s, i)
           re == [s.toRelease EXCEPT ![i] = @ + 1]
<1>0. s \in DecayState
  BY DEF Kept
<1>1. r = [s EXCEPT !.toRelease = re] /\ re \in [Perishables -> Nat]
  BY <1>0 DEF ReleaseItem, DecayState
<1>2. /\ r \in DecayState /\ r.toRelease = re /\ SameItems(s, r) /\ r.decayMap = s.decayMap
      /\ r.state = s.state /\ r.stamp = s.stamp /\ r.duration = s.duration /\ r.refs = s.refs
      /\ r.events = s.events /\ r.full = s.full /\ r.dangling = s.dangling
  <2> HIDE DEF re, r
  <2> QED BY <1>0, <1>1 DEF DecayState, SameItems
<1>3. ASSUME NEW j \in Perishables PROVE r.toRelease[j] + H[j] = s.toRelease[j] + [H EXCEPT ![i] = @ + 1][j]
  <2>1. s.toRelease[j] \in Nat /\ H[j] \in Nat
    BY <1>0 DEF DecayState, Extra
  <2>2. /\ r.toRelease[j] = IF j = i THEN s.toRelease[j] + 1 ELSE s.toRelease[j]
        /\ [H EXCEPT ![i] = @ + 1][j] = IF j = i THEN H[j] + 1 ELSE H[j]
    BY <1>0, <1>2 DEF DecayState, Extra
  <2> QED BY <2>1, <2>2
<1>4. \A j \in Perishables : r.toRelease[j] \in Nat /\ s.toRelease[j] \in Nat /\ H[j] \in Nat /\ [H EXCEPT ![i] = @ + 1][j] \in Nat
  BY <1>0, <1>2 DEF DecayState, Extra
<1> HIDE DEF r, re
<1>5. Listing(r) = Listing(s)
  BY <1>2 DEF Listing
<1>6. \A j : (isRemoved(r, j) <=> isRemoved(s, j)) /\ (canDecay(r, j) <=> canDecay(s, j))
  BY <1>2, SameRemoved
<1>7. \A j : One(Linked(r, j)) = One(Linked(s, j)) /\ TimeLeft(r, j, n) = TimeLeft(s, j, n)
  BY <1>2 DEF SameItems, Linked, TimeLeft
<1>8. Counted(r, H)
  <2> SUFFICES ASSUME NEW j \in Perishables
               PROVE  r.refs[j] = r.toRelease[j] + One(Linked(r, j)) + One(j \in Listing(r)) + H[j]
    BY DEF Counted
  <2>1. s.refs[j] = s.toRelease[j] + One(Linked(s, j)) + One(j \in Listing(s)) + [H EXCEPT ![i] = @ + 1][j]
    BY DEF Kept, Counted
  <2>2. One(Linked(s, j)) \in Nat /\ One(j \in Listing(s)) \in Nat
    BY DEF One
  <2> QED BY <1>2, <1>3, <1>4, <1>5, <1>7, <2>1, <2>2
<1>9. Rooted(r)
  BY <1>2 DEF Kept, Rooted, Shallow, SameItems
<1>10. Keyed(r, B) /\ Spent(r, B, n)
  BY <1>2, <1>6 DEF Kept, Keyed, Spent, SameItems
<1>11. Owing(r, Y, n)
  BY <1>2, <1>5, <1>6, <1>7 DEF Kept, Owing, SameItems
<1>12. Able(r, X)
  BY <1>2, <1>5, <1>6 DEF Able
<1>13. Timely(r, K)
  BY <1>2, TimelyLess
<1> QED BY <1>2, <1>5, <1>8, <1>9, <1>10, <1>11, <1>12, <1>13 DEF Kept, r

\* Game::internalRemoveItem()
LEMMA RemoveKeeps ==
    ASSUME NEW s, NEW i \in Perishables, NEW H \in Extra, NEW B \in SUBSET Perishables, NEW Y, NEW K, now \in Nat,
           Kept(s, H, B, Y, now), Able(s, {i}), Timely(s, K), ~isRemoved(s, i), i \notin B
    PROVE  LET r == internalRemoveItem(s, i)
           IN  /\ Kept(r, H, B, Y \ {i}, now) /\ Able(r, {}) /\ Timely(r, K) /\ r.stage = s.stage
<1> DEFINE pa == [s.parent EXCEPT ![i] = Removed]
           wo == s.worn \ {i}
           u == [s EXCEPT !.parent[i] = Removed, !.worn = @ \ {i}]
           C == Contents(u, i)
           J == [H EXCEPT ![i] = @ + 1]
           v == stopDecay(u, i)
           w == ForEach(stopDecay, v, C)
<1>0. s \in DecayState /\ J \in Extra
  BY DEF Kept, Extra
<1>1. u = [s EXCEPT !.parent = pa, !.worn = wo] /\ pa \in [Perishables -> Perishables \cup {OnMap, Removed}]
      /\ wo \in SUBSET Worn
  BY <1>0 DEF DecayState
<1>2. /\ u \in DecayState /\ u.parent = pa /\ u.worn = wo /\ u.decayMap = s.decayMap
      /\ u.state = s.state /\ u.stamp = s.stamp /\ u.duration = s.duration /\ u.refs = s.refs
      /\ u.events = s.events /\ u.full = s.full /\ u.dangling = s.dangling
      /\ u.toRelease = s.toRelease /\ u.stage = s.stage /\ u.owed = s.owed
  <2> HIDE DEF pa, wo, u
  <2> QED BY <1>0, <1>1 DEF DecayState
<1>3. u.parent[i] = Removed /\ \A j \in Perishables : j # i => u.parent[j] = s.parent[j]
  BY <1>0, <1>2 DEF DecayState
<1>4. internalRemoveItem(s, i) = ReleaseItem(w, i) /\ C \in SUBSET Perishables
  BY DEF internalRemoveItem, stopDecaying, Contents
<1>5. \A j \in Perishables : s.parent[j] \in Perishables \cup {OnMap, Removed}
  BY <1>0 DEF DecayState
<1> HIDE DEF u
<1>6. \A j \in Perishables : /\ isRemoved(s, j) => isRemoved(u, j)
                             /\ j = i \/ j \in C => isRemoved(u, j)
                             /\ j # i /\ j \notin C => (canDecay(u, j) <=> canDecay(s, j))
  <2>1. \A j \in Perishables : j \in C <=> u.parent[j] = i
    BY DEF Contents
  <2> HIDE DEF C
  <2> SUFFICES ASSUME NEW j \in Perishables
               PROVE  /\ isRemoved(s, j) => isRemoved(u, j)
                      /\ j = i \/ j \in C => isRemoved(u, j)
                      /\ j # i /\ j \notin C => (canDecay(u, j) <=> canDecay(s, j))
    OBVIOUS
  <2>2. isRemoved(s, j) => isRemoved(u, j)
    BY <1>3 DEF isRemoved
  <2>3. j = i \/ j \in C => isRemoved(u, j)
    BY <1>3, <2>1 DEF isRemoved
  <2>4. j # i /\ j \notin C => (isRemoved(u, j) <=> isRemoved(s, j))
    BY <1>3, <1>5, <2>1 DEF isRemoved
  <2> QED BY <1>2, <2>2, <2>3, <2>4 DEF canDecay
<1>7. Listing(u) = Listing(s)
  BY <1>2 DEF Listing
<1>8. Counted(u, J)
  <2> SUFFICES ASSUME NEW j \in Perishables
               PROVE  u.refs[j] = u.toRelease[j] + One(Linked(u, j)) + One(j \in Listing(u)) + J[j]
    BY DEF Counted
  <2>1. s.refs[j] = s.toRelease[j] + One(Linked(s, j)) + One(j \in Listing(s)) + H[j]
    BY DEF Kept, Counted
  <2>2. s.toRelease[j] \in Nat /\ H[j] \in Nat /\ One(j \in Listing(s)) \in Nat
    BY <1>0 DEF One, DecayState, Extra
  <2>3. CASE j = i
    <3>1. Linked(s, i)
      <4>1. s.parent[i] # Removed /\ (s.parent[i] \in Perishables => s.parent[s.parent[i]] # Removed)
        BY DEF isRemoved
      <4>2. \A k \in Perishables : s.refs[k] = 0 => s.parent[k] = Removed
        BY DEF Kept, Rooted
      <4>3. \A k \in Perishables : s.refs[k] \in Nat
        BY <1>0 DEF DecayState
      <4> QED BY <1>5, <4>1, <4>2, <4>3 DEF Linked
    <3>2. ~Linked(u, i)
      BY <1>3, DecayConstants DEF Linked
    <3>3. One(Linked(s, j)) = 1 /\ One(Linked(u, j)) = 0 /\ J[j] = H[j] + 1
      BY <2>3, <3>1, <3>2 DEF One, Extra
    <3> QED BY <1>2, <1>7, <2>1, <2>2, <3>3
  <2>4. CASE j # i
    <3>1. One(Linked(u, j)) = One(Linked(s, j)) /\ J[j] = H[j]
      BY <1>2, <1>3, <2>4 DEF Linked, Extra
    <3> QED BY <1>2, <1>7, <2>1, <3>1
  <2> QED BY <2>3, <2>4
<1>9. Rooted(u)
  <2>1. \A j \in Perishables : u.refs[j] = 0 => u.parent[j] = Removed
    BY <1>2, <1>3 DEF Kept, Rooted
  <2>2. \A j \in Perishables : u.parent[j] \in Perishables => u.parent[u.parent[j]] \in {OnMap, Removed}
    <3> SUFFICES ASSUME NEW j \in Perishables, u.parent[j] \in Perishables
                 PROVE  u.parent[u.parent[j]] \in {OnMap, Removed}
      OBVIOUS
    <3>1. j # i
      BY <1>3, DecayConstants
    <3>2. s.parent[s.parent[j]] \in {OnMap, Removed} /\ u.parent[j] = s.parent[j]
      BY <1>3, <3>1 DEF Kept, Rooted, Shallow
    <3> QED BY <1>3, <3>2
  <2> QED BY <2>1, <2>2 DEF Rooted, Shallow
<1>10. Keyed(u, B) /\ Spent(u, B, now)
  BY <1>2, <1>6 DEF Kept, Keyed, Spent
<1>11. Owing(u, Y, now)
  <2>1. \A j : TimeLeft(u, j, now) = TimeLeft(s, j, now)
    BY <1>2 DEF TimeLeft
  <2> QED BY <1>2, <1>6, <1>7, <2>1 DEF Kept, Owing
<1>12. Kept(u, J, B, Y, now)
  BY <1>2, <1>8, <1>9, <1>10, <1>11 DEF Kept
<1>13. Able(u, {i} \cup C)
  <2> SUFFICES ASSUME NEW j \in Listing(u) \ ({i} \cup C) PROVE canDecay(u, j) /\ u.state[j] = "true"
    BY DEF Able
  <2>1. j \in Perishables /\ j \in Listing(s) \ {i}
    BY <1>0, <1>7, ListingIs
  <2>2. canDecay(s, j) /\ s.state[j] = "true"
    BY <2>1 DEF Able
  <2> QED BY <1>2, <1>6, <2>1, <2>2
<1>14. Timely(u, K)
  BY <1>2, TimelyLess
<1>15. /\ Kept(v, J, B, Y, now) /\ Able(v, {i} \cup C) /\ Timely(v, K) /\ SameItems(u, v)
       /\ Listing(v) = Listing(u) \ {i}
  BY <1>0, <1>12, <1>13, <1>14, StopKeeps
<1> HIDE DEF v, C
<1>16. \A j \in C \cap B : isRemoved(v, j)
  BY <1>4, <1>6, <1>15, SameRemoved
<1>17. /\ Kept(w, J, B, Y, now) /\ Able(w, {i} \cup C) /\ Timely(w, K) /\ SameItems(v, w)
       /\ Listing(w) = Listing(v) \ C
  BY <1>0, <1>4, <1>15, <1>16, StopAllKeeps
<1> HIDE DEF w, J
<1>18. Able(w, {}) /\ i \notin Listing(w)
  BY <1>15, <1>17 DEF Able
<1> DEFINE r == ReleaseItem(w, i)
<1>19. /\ Kept(r, H, B, Y, now) /\ Able(r, {}) /\ Timely(r, K) /\ SameItems(w, r)
       /\ Listing(r) = Listing(w)
  BY <1>17, <1>18, ReleaseKeeps DEF J
<1> HIDE DEF r
<1>20. r.parent[i] = Removed /\ r.stage = s.stage
  BY <1>2, <1>3, <1>15, <1>17, <1>19 DEF SameItems
<1>21. Owing(r, Y \ {i}, now)
  <2> SUFFICES ASSUME NEW j \in Perishables \ (Y \ {i}), r.stage[j] # Plain
               PROVE  IF j \in Listing(r) THEN TimeLeft(r, j, now) = r.owed[j]
                      ELSE isRemoved(r, j) \/ r.duration[j] = r.owed[j]
    BY DEF Owing
  <2>1. CASE j = i
    BY <1>18, <1>19, <1>20, <2>1 DEF isRemoved
  <2>2. CASE j # i
    BY <1>19, <2>2 DEF Kept, Owing
  <2> QED BY <2>1, <2>2
<1>22. Kept(r, H, B, Y \ {i}, now)
  BY <1>19, <1>21 DEF Kept
<1> QED BY <1>4, <1>19, <1>20, <1>22 DEF r

\* Decay::internalDecayItem() of an item that can decay; the time it has left is
\* not looked at.
LEMMA DecayItemKeeps ==
    ASSUME NEW s, NEW i \in Perishables, NEW H \in Extra, NEW B \in SUBSET Perishables, NEW Y,
           NEW K \in SUBSET Nat, now \in Nat,
           Kept(s, H, B, Y, now), Able(s, {i}), Timely(s, K), canDecay(s, i), i \notin B, Y \ {i} = B
    PROVE  LET r == internalDecayItem(s, i)
           IN  /\ Kept(r, H, B, B, now) /\ Able(r, {}) /\ Timely(r, K)
               /\ \A j \in Perishables : r.stage[j] # s.stage[j] => j = i
<1>0. s \in DecayState /\ s.stage[i] \in Int /\ s.stage[i] # Plain /\ ~isRemoved(s, i)
  BY DEF Kept, DecayState, canDecay
<1>1. CASE s.stage[i] > 1
  <2> DEFINE u == [s EXCEPT !.stage[i] = @ - 1, !.state[i] = "pending",
                            !.duration[i] = Lifetime[i], !.owed[i] = Lifetime[i]]
             sg == [s.stage EXCEPT ![i] = @ - 1]
             st == [s.state EXCEPT ![i] = "pending"]
             du == [s.duration EXCEPT ![i] = Lifetime[i]]
             ow == [s.owed EXCEPT ![i] = Lifetime[i]]
             v == beginDecay(u, i)
             w == ForEach(startInside, v, Contents(u, i))
  <2>0. Lifetime[i] \in Nat \ {0}
    BY DecayConstants
  <2>1. internalDecayItem(s, i) = w /\ Contents(u, i) \in SUBSET Perishables
    BY <1>1 DEF internalDecayItem, Contents
  <2>2. /\ sg \in [Perishables -> Int] /\ du \in [Perishables -> Nat] /\ ow \in [Perishables -> Nat]
        /\ st \in [Perishables -> {"absent", "false", "true", "pending", "stopping"}]
    BY <1>0, <2>0 DEF DecayState, Times
  <2>3. u = [s EXCEPT !.stage = sg, !.state = st, !.duration = du, !.owed = ow]
    OBVIOUS
  <2>4. /\ u \in DecayState /\ u.stage = sg /\ u.state = st /\ u.duration = du /\ u.owed = ow
        /\ u.parent = s.parent /\ u.worn = s.worn /\ u.decayMap = s.decayMap /\ u.stamp = s.stamp
        /\ u.refs = s.refs /\ u.toRelease = s.toRelease
        /\ u.events = s.events /\ u.full = s.full /\ u.dangling = s.dangling
    <3> HIDE DEF sg, st, du, ow, u
    <3> QED BY <1>0, <2>2, <2>3 DEF DecayState, Times
  <2>5. /\ u.stage[i] = s.stage[i] - 1 /\ u.state[i] = "pending"
        /\ u.duration[i] = Lifetime[i] /\ u.owed[i] = Lifetime[i]
        /\ \A j \in Perishables : j # i => /\ u.stage[j] = s.stage[j] /\ u.state[j] = s.state[j]
                                           /\ u.duration[j] = s.duration[j] /\ u.owed[j] = s.owed[j]
    BY <1>0, <2>4 DEF DecayState
  <2> HIDE DEF u, sg, st, du, ow
  <2>6. \A j : isRemoved(u, j) <=> isRemoved(s, j)
    BY <2>4 DEF isRemoved
  <2>7. canDecay(u, i) /\ \A j \in Perishables : j # i => (canDecay(u, j) <=> canDecay(s, j))
    <3>1. u.stage[i] # Plain
      BY <1>0, <1>1, <2>5 DEF Plain
    <3> QED BY <2>4, <2>5, <2>6, <3>1 DEF canDecay
  <2>8. Listing(u) = Listing(s) /\ \A j : One(Linked(u, j)) = One(Linked(s, j))
    BY <2>4 DEF Listing, Linked
  <2>9. Counted(u, H)
    BY <2>4, <2>8 DEF Kept, Counted
  <2>10. Rooted(u)
    BY <2>4 DEF Kept, Rooted, Shallow
  <2>11. Keyed(u, B)
    <3>1. \A x \in u.decayMap : x[2] \in Perishables
      BY <2>4, EntryIs
    <3> QED BY <2>4, <2>5, <3>1 DEF Kept, Keyed
  <2>12. Spent(u, B, now)
    <3>1. \A j \in B : j \in Perishables /\ j # i
      OBVIOUS
    <3> QED BY <2>4, <2>5, <2>6, <3>1 DEF Kept, Spent
  <2>13. Owing(u, B, now)
    <3> SUFFICES ASSUME NEW j \in Perishables \ B, u.stage[j] # Plain
                 PROVE  IF j \in Listing(u) THEN TimeLeft(u, j, now) = u.owed[j]
                        ELSE isRemoved(u, j) \/ u.duration[j] = u.owed[j]
      BY DEF Owing
    <3>1. CASE j = i
      BY <2>5, <3>1 DEF TimeLeft
    <3>2. CASE j # i
      <4>1. j \notin Y
        BY <3>2
      <4>2. TimeLeft(u, j, now) = TimeLeft(s, j, now)
        BY <2>4, <2>5, <3>2 DEF TimeLeft
      <4> QED BY <2>5, <2>6, <2>8, <3>2, <4>1, <4>2 DEF Kept, Owing
    <3> QED BY <3>1, <3>2
  <2>14. Kept(u, H, B, B, now)
    BY <2>4, <2>9, <2>10, <2>11, <2>12, <2>13 DEF Kept
  <2>15. Able(u, {i})
    <3>1. \A j \in Listing(s) : j \in Perishables
      BY <1>0, ListingIs
    <3> QED BY <2>5, <2>7, <2>8, <3>1 DEF Able
  <2>16. Timely(u, K)
    BY <2>4, TimelyLess
  <2>17. B \ {i} = B /\ {i} \ {i} = {}
    OBVIOUS
  <2>18. u.duration[i] = u.owed[i] /\ u.duration[i] # 0
    BY <2>0, <2>5
  <2>19. Kept(v, H, B, B, now) /\ Able(v, {}) /\ Timely(v, K) /\ SameItems(u, v)
    <3>1. Kept(v, H, B, B \ {i}, now) /\ Able(v, {i} \ {i}) /\ Timely(v, K) /\ SameItems(u, v)
      BY <2>7, <2>14, <2>15, <2>16, <2>18, BeginKeeps
    <3> HIDE DEF v
    <3> QED BY <2>17, <3>1
  <2> HIDE DEF v
  <2>20. Kept(w, H, B, B, now) /\ Able(w, {}) /\ Timely(w, K) /\ SameItems(v, w)
    BY <2>1, <2>19, InsideAllKeeps
  <2> HIDE DEF w
  <2>21. \A j \in Perishables : w.stage[j] # s.stage[j] => j = i
    BY <2>5, <2>19, <2>20 DEF SameItems
  <2> QED BY <2>1, <2>20, <2>21
<1>2. CASE ~(s.stage[i] > 1)
  <2> DEFINE sg == [s.stage EXCEPT ![i] = 0]
             u == [s EXCEPT !.stage[i] = 0]
             w == internalRemoveItem(u, i)
  <2>1. internalDecayItem(s, i) = w
    BY <1>2 DEF internalDecayItem
  <2>2. sg \in [Perishables -> Int] /\ u = [s EXCEPT !.stage = sg]
    BY <1>0 DEF DecayState
  <2>3. /\ u \in DecayState /\ u.stage = sg /\ u.state = s.state /\ u.duration = s.duration /\ u.owed = s.owed
        /\ u.parent = s.parent /\ u.worn = s.worn /\ u.decayMap = s.decayMap /\ u.stamp = s.stamp
        /\ u.refs = s.refs /\ u.toRelease = s.toRelease
        /\ u.events = s.events /\ u.full = s.full /\ u.dangling = s.dangling
    <3> HIDE DEF sg, u
    <3> QED BY <1>0, <2>2 DEF DecayState
  <2>4. u.stage[i] = 0 /\ \A j \in Perishables : j # i => u.stage[j] = s.stage[j]
    BY <1>0, <2>3 DEF DecayState
  <2> HIDE DEF sg, u
  <2>5. \A j : isRemoved(u, j) <=> isRemoved(s, j)
    BY <2>3 DEF isRemoved
  <2>6. \A j \in Perishables : j # i => (canDecay(u, j) <=> canDecay(s, j))
    BY <2>3, <2>4, <2>5 DEF canDecay
  <2>7. Listing(u) = Listing(s) /\ \A j : One(Linked(u, j)) = One(Linked(s, j))
    BY <2>3 DEF Listing, Linked
  <2>8. Counted(u, H)
    BY <2>3, <2>7 DEF Kept, Counted
  <2>9. Rooted(u)
    BY <2>3 DEF Kept, Rooted, Shallow
  <2>10. Keyed(u, B) /\ Spent(u, B, now)
    BY <2>3, <2>5 DEF Kept, Keyed, Spent
  <2>11. Owing(u, Y, now)
    <3>1. \A j \in Perishables : u.stage[j] # Plain => s.stage[j] # Plain
      BY <1>0, <2>4
    <3>2. \A j : TimeLeft(u, j, now) = TimeLeft(s, j, now)
      BY <2>3 DEF TimeLeft
    <3> QED BY <2>3, <2>5, <2>7, <3>1, <3>2 DEF Kept, Owing
  <2>12. Kept(u, H, B, Y, now)
    BY <2>3, <2>8, <2>9, <2>10, <2>11 DEF Kept
  <2>13. Able(u, {i})
    <3>1. \A j \in Listing(s) : j \in Perishables
      BY <1>0, ListingIs
    <3> QED BY <2>3, <2>6, <2>7, <3>1 DEF Able
  <2>14. Timely(u, K)
    BY <2>3, TimelyLess
  <2>15. Kept(w, H, B, B, now) /\ Able(w, {}) /\ Timely(w, K) /\ w.stage = u.stage
    BY <1>0, <2>5, <2>12, <2>13, <2>14, RemoveKeeps
  <2> HIDE DEF w
  <2> QED BY <2>1, <2>4, <2>15
<1> QED BY <1>1, <1>2

\* Decay::startDecay()
LEMMA StartKeeps ==
    ASSUME NEW s, NEW i \in Perishables, NEW H \in Extra, NEW K \in SUBSET Nat, now \in Nat,
           Kept(s, H, {}, {}, now), Able(s, {i}), Timely(s, K),
           i \in Listing(s) => canDecay(s, i) \/ s.state[i] \in {"true", "stopping"}
    PROVE  LET r == startDecay(s, i)
           IN  /\ Kept(r, H, {}, {}, now) /\ Able(r, {}) /\ Timely(r, K)
               /\ \A j \in Perishables : r.stage[j] # s.stage[j] =>
                     j = i /\ canDecay(s, i) /\ s.state[i] \notin {"true", "stopping"} /\ s.duration[i] = 0
<1> DEFINE r == startDecay(s, i)
<1>0. s \in DecayState /\ s.duration[i] \in Nat /\ {} \ {i} = {} /\ {i} \ {i} = {}
  BY DEF Kept, DecayState, Times
<1>1. CASE s.state[i] = "stopping" \/ (~canDecay(s, i) /\ s.state[i] = "true")
  <2>1. r = stopDecay(s, i)
    BY <1>1 DEF startDecay
  <2>2. /\ Kept(r, H, {}, {}, now) /\ Able(r, {i}) /\ Timely(r, K) /\ SameItems(s, r)
        /\ Listing(r) = Listing(s) \ {i}
    BY <2>1, StopKeeps
  <2> HIDE DEF r
  <2>3. Able(r, {}) /\ r.stage = s.stage
    BY <2>2 DEF Able, SameItems
  <2> QED BY <2>2, <2>3 DEF r
<1>2. CASE s.state[i] # "stopping" /\ canDecay(s, i) /\ s.state[i] # "true"
  <2>1. CASE s.duration[i] = 0
    <3>1. r = internalDecayItem(s, i)
      BY <1>2, <2>1 DEF startDecay
    <3>2. /\ Kept(r, H, {}, {}, now) /\ Able(r, {}) /\ Timely(r, K)
          /\ \A j \in Perishables : r.stage[j] # s.stage[j] => j = i
      BY <1>0, <1>2, <3>1, DecayItemKeeps
    <3> QED BY <1>2, <2>1, <3>2
  <2>2. CASE s.duration[i] # 0
    <3>1. r = beginDecay(s, i)
      BY <1>2, <2>2 DEF startDecay
    <3>2. s.duration[i] = s.owed[i]
      <4>1. ~isRemoved(s, i) /\ s.stage[i] # Plain
        BY <1>2 DEF canDecay
      <4>2. IF i \in Listing(s) THEN TimeLeft(s, i, now) = s.owed[i]
            ELSE isRemoved(s, i) \/ s.duration[i] = s.owed[i]
        BY <4>1 DEF Kept, Owing
      <4> QED BY <1>2, <4>1, <4>2 DEF TimeLeft
    <3>3. Kept(r, H, {}, {}, now) /\ Able(r, {}) /\ Timely(r, K) /\ SameItems(s, r)
      <4> DEFINE none == {}
                 own == {i}
      <4>1. none \in SUBSET Perishables /\ i \notin none /\ Kept(s, H, none, none, now) /\ Able(s, own)
        OBVIOUS
      <4>2. none \ {i} = {} /\ own \ {i} = {} /\ none = {}
        OBVIOUS
      <4> HIDE DEF none, own, r
      <4>3. Kept(r, H, none, none \ {i}, now) /\ Able(r, own \ {i}) /\ Timely(r, K) /\ SameItems(s, r)
        BY <1>2, <2>2, <3>1, <3>2, <4>1, BeginKeeps
      <4> QED BY <4>2, <4>3
    <3> QED BY <3>3 DEF SameItems
  <2> QED BY <2>1, <2>2
<1>3. CASE s.state[i] # "stopping" /\ ~(~canDecay(s, i) /\ s.state[i] = "true") /\ ~(canDecay(s, i) /\ s.state[i] # "true")
  <2>1. r = s
    BY <1>3 DEF startDecay
  <2>2. Able(s, {})
    BY <1>3 DEF Able
  <2> QED BY <2>1, <2>2
<1> QED BY <1>1, <1>2, <1>3

\* Item::startDecaying()
LEMMA StartDecayingKeeps ==
    ASSUME NEW s, NEW i \in Perishables, NEW H \in Extra, NEW K \in SUBSET Nat, now \in Nat,
           Kept(s, H, {}, {}, now), Able(s, {i}), Timely(s, K),
           i \in Listing(s) => canDecay(s, i) \/ s.state[i] \in {"true", "stopping"}
    PROVE  LET r == startDecaying(s, i)
           IN  /\ Kept(r, H, {}, {}, now) /\ Able(r, {}) /\ Timely(r, K)
               /\ \A j \in Perishables : r.stage[j] # s.stage[j] =>
                     j = i /\ canDecay(s, i) /\ s.state[i] \notin {"true", "stopping"} /\ s.duration[i] = 0
<1> DEFINE v == startDecay(s, i)
           r == ForEach(startInside, v, Contents(s, i))
<1>1. /\ Kept(v, H, {}, {}, now) /\ Able(v, {}) /\ Timely(v, K)
      /\ \A j \in Perishables : v.stage[j] # s.stage[j] =>
            j = i /\ canDecay(s, i) /\ s.state[i] \notin {"true", "stopping"} /\ s.duration[i] = 0
  BY StartKeeps
<1>2. startDecaying(s, i) = r /\ Contents(s, i) \in SUBSET Perishables
  BY DEF startDecaying, Contents
<1> HIDE DEF v
<1>3. Kept(r, H, {}, {}, now) /\ Able(r, {}) /\ Timely(r, K) /\ SameItems(v, r)
  BY <1>1, <1>2, InsideAllKeeps
<1> HIDE DEF r
<1> QED BY <1>1, <1>2, <1>3 DEF SameItems

-----------------------------------------------------------------------------
(* Decay::checkDecay().                                                    *)

LEMMA AllTypes ==
    ASSUME NEW s \in DecayState, NEW S \in SUBSET Perishables, now \in Nat
    PROVE  ForEach(stopDecay, s, S) \in DecayState /\ ForEach(startInside, s, S) \in DecayState
<1> DEFINE q == SetToSeq(S)
           G == [T \in SUBSET S |-> DecayState]
<1>1. Lists(q, S)
  BY DecayConstants, FS_Subset, ListedSet
<1>2. /\ s \in G[{}] /\ G[S] = DecayState /\ \A T \in SUBSET S : G[T] \subseteq DecayState
      /\ \A T \in SUBSET S : \A i \in T : G[T \ {i}] = DecayState /\ G[T] = DecayState /\ i \in Perishables
  OBVIOUS
<1> HIDE DEF q, G
<1>3. \A T \in SUBSET S : \A i \in T : \A y \in G[T \ {i}] : stopDecay(y, i) \in G[T]
  BY <1>2, StopDecayIs
<1>4. \A T \in SUBSET S : \A i \in T : \A y \in G[T \ {i}] : startInside(y, i) \in G[T]
  BY <1>2, InsideType
<1>5. AllStopped(q, s) \in G[S]
  BY <1>1, <1>2, <1>3, StopLoop
<1>6. Begun(q, s) \in G[S]
  BY <1>1, <1>2, <1>4, InsideLoop
<1> QED BY <1>2, <1>5, <1>6, ForEachIs DEF q

LEMMA ReleaseType ==
    ASSUME NEW s \in DecayState, NEW i \in Perishables PROVE ReleaseItem(s, i) \in DecayState
<1> DEFINE re == [s.toRelease EXCEPT ![i] = @ + 1]
<1>1. ReleaseItem(s, i) = [s EXCEPT !.toRelease = re] /\ re \in [Perishables -> Nat]
  BY DEF ReleaseItem, DecayState
<1> HIDE DEF re
<1> QED BY <1>1 DEF DecayState

LEMMA DecayItemType ==
    ASSUME NEW s \in DecayState, NEW i \in Perishables, now \in Nat PROVE internalDecayItem(s, i) \in DecayState
<1>1. CASE s.stage[i] > 1
  <2> DEFINE u == [s EXCEPT !.stage[i] = @ - 1, !.state[i] = "pending",
                            !.duration[i] = Lifetime[i], !.owed[i] = Lifetime[i]]
             sg == [s.stage EXCEPT ![i] = @ - 1]
             st == [s.state EXCEPT ![i] = "pending"]
             du == [s.duration EXCEPT ![i] = Lifetime[i]]
             ow == [s.owed EXCEPT ![i] = Lifetime[i]]
  <2>1. Lifetime[i] \in Nat \ {0}
    BY DecayConstants
  <2>2. /\ sg \in [Perishables -> Int] /\ du \in [Perishables -> Nat] /\ ow \in [Perishables -> Nat]
        /\ st \in [Perishables -> {"absent", "false", "true", "pending", "stopping"}]
    BY <2>1 DEF DecayState, Times
  <2>3. u = [s EXCEPT !.stage = sg, !.state = st, !.duration = du, !.owed = ow] /\ du[i] = Lifetime[i]
    BY DEF DecayState
  <2>4. u \in DecayState /\ u.duration = du
    <3> HIDE DEF sg, st, du, ow, u
    <3> QED BY <2>2, <2>3 DEF DecayState, Times
  <2>5. internalDecayItem(s, i) = ForEach(startInside, beginDecay(u, i), Contents(u, i))
    BY <1>1 DEF internalDecayItem
  <2> HIDE DEF u, du
  <2>6. beginDecay(u, i) \in DecayState /\ Contents(u, i) \in SUBSET Perishables
    <3>1. u.duration[i] > 0
      BY <2>1, <2>3, <2>4
    <3> QED BY <2>4, <3>1, BeginType DEF Contents
  <2> QED BY <2>5, <2>6, AllTypes
<1>2. CASE ~(s.stage[i] > 1)
  <2> DEFINE u == [[s EXCEPT !.stage[i] = 0] EXCEPT !.parent[i] = Removed, !.worn = @ \ {i}]
             sg == [s.stage EXCEPT ![i] = 0]
             pa == [s.parent EXCEPT ![i] = Removed]
             wo == s.worn \ {i}
             v == stopDecay(u, i)
             w == ForEach(stopDecay, v, Contents(u, i))
  <2>1. internalDecayItem(s, i) = ReleaseItem(w, i)
    BY <1>2 DEF internalDecayItem, internalRemoveItem, stopDecaying
  <2>2. /\ sg \in [Perishables -> Int] /\ wo \in SUBSET Worn
        /\ pa \in [Perishables -> Perishables \cup {OnMap, Removed}]
    BY DEF DecayState
  <2>3. u = [s EXCEPT !.stage = sg, !.parent = pa, !.worn = wo]
    OBVIOUS
  <2>4. u \in DecayState
    <3> HIDE DEF sg, pa, wo, u
    <3> QED BY <2>2, <2>3 DEF DecayState
  <2> HIDE DEF u
  <2>5. v \in DecayState /\ Contents(u, i) \in SUBSET Perishables
    BY <2>4, StopDecayIs DEF Contents
  <2>6. w \in DecayState
    <3> HIDE DEF v
    <3> QED BY <2>5, AllTypes
  <2> HIDE DEF w
  <2> QED BY <2>1, <2>6, ReleaseType
<1> QED BY <1>1, <1>2

\* What decayOne() does to the item before it decays.
Dropped(s, i) == [s EXCEPT !.state[i] = "false", !.stamp[i] = None]
Rested(s, i) == [s EXCEPT !.duration[i] = getDuration(s, i), !.state[i] = "false", !.stamp[i] = None]

LEMMA DroppedIs ==
    ASSUME NEW s \in DecayState, NEW i \in Perishables, now \in Nat, NEW u \in {Dropped(s, i), Rested(s, i)}
    PROVE  /\ u \in DecayState /\ SameItems(s, u) /\ u.decayMap = s.decayMap
           /\ u.refs = s.refs /\ u.toRelease = s.toRelease
           /\ u.events = s.events /\ u.full = s.full /\ u.dangling = s.dangling
           /\ \A j \in Perishables : j # i => /\ u.state[j] = s.state[j] /\ u.stamp[j] = s.stamp[j]
                                              /\ u.duration[j] = s.duration[j]
           /\ u = Rested(s, i) => u.duration[i] = TimeLeft(s, i, now)
<1> DEFINE st == [s.state EXCEPT ![i] = "false"]
           sp == [s.stamp EXCEPT ![i] = None]
           du == [s.duration EXCEPT ![i] = getDuration(s, i)]
<1>1. getDuration(s, i) \in Nat /\ getDuration(s, i) = TimeLeft(s, i, now)
  BY DurationIs
<1>2. /\ du \in [Perishables -> Nat] /\ sp \in [Perishables -> Nat \cup {None}]
      /\ st \in [Perishables -> {"absent", "false", "true", "pending", "stopping"}]
  BY <1>1 DEF DecayState, Times
<1>3. /\ Dropped(s, i) = [s EXCEPT !.state = st, !.stamp = sp]
      /\ Rested(s, i) = [s EXCEPT !.duration = du, !.state = st, !.stamp = sp]
  BY DEF Dropped, Rested
<1>4. /\ du[i] = TimeLeft(s, i, now)
      /\ \A j \in Perishables : j # i => st[j] = s.state[j] /\ sp[j] = s.stamp[j] /\ du[j] = s.duration[j]
  BY <1>1 DEF DecayState
<1> HIDE DEF st, sp, du
<1>5. CASE u = Dropped(s, i) /\ u # Rested(s, i)
  <2>1. u \in DecayState
    BY <1>2, <1>3, <1>5 DEF DecayState, Times
  <2> QED BY <1>3, <1>4, <1>5, <2>1 DEF DecayState, SameItems
<1>6. CASE u = Rested(s, i)
  <2>1. u \in DecayState
    BY <1>2, <1>3, <1>6 DEF DecayState, Times
  <2> QED BY <1>3, <1>4, <1>6, <2>1 DEF DecayState, SameItems
<1> QED BY <1>5, <1>6

LEMMA DecayOneIs ==
    ASSUME NEW s, NEW i
    PROVE  /\ canDecay(s, i) => decayOne(s, i) = ReleaseItem(internalDecayItem(Dropped(s, i), i), i)
           /\ ~canDecay(s, i) => decayOne(s, i) = ReleaseItem(Rested(s, i), i)
BY DEF decayOne, Dropped, Rested

LEMMA DecayOneType ==
    ASSUME NEW s \in DecayState, NEW i \in Perishables, now \in Nat PROVE decayOne(s, i) \in DecayState
<1>1. Dropped(s, i) \in DecayState /\ Rested(s, i) \in DecayState
  BY DroppedIs
<1>2. internalDecayItem(Dropped(s, i), i) \in DecayState
  BY <1>1, DecayItemType
<1> QED BY <1>1, <1>2, ReleaseType, DecayOneIs

\* decayOne() for every item of a list.
DecayRun(h, q, base) ==
    h = [s \in SUBSET DOMAIN q |-> IF s = {} THEN base ELSE decayOne(h[s \ {Max(s)}], q[Max(s)])]
Decayed(q, base) == (CHOOSE h : DecayRun(h, q, base))[DOMAIN q]

LEMMA DecayLoop ==
    ASSUME NEW S \in SUBSET Perishables, NEW q, Lists(q, S), NEW base \in DecayState, now \in Nat,
           NEW G, \A T \in SUBSET S : G[T] \subseteq DecayState, base \in G[{}],
           \A T \in SUBSET S : \A i \in T : \A y \in G[T \ {i}] : decayOne(y, i) \in G[T]
    PROVE  Decayed(q, base) \in G[S]
<1> DEFINE U == DecayState
           F == [p \in S \X U |-> decayOne(p[2], p[1])]
<1>1. \A i \in S, y \in U : decayOne(y, i) \in U
  BY DecayOneType
<1>2. F \in [S \X U -> U] /\ \A i \in S, y \in U : F[<<i, y>>] = decayOne(y, i)
  BY <1>1
<1>3. PICK n \in Nat : q \in [1..n -> S]
  BY DEF Lists
<1>4. DOMAIN q = 1..n
  BY <1>3
<1>5. \A s \in SUBSET DOMAIN q : s # {} => Max(s) \in s /\ q[Max(s)] \in S /\ s \ {Max(s)} \in SUBSET DOMAIN q
  BY <1>3, <1>4, MaxIn
<1> HIDE DEF F, U
<1>6. base \in U /\ \A T \in SUBSET S : G[T] \subseteq U
  BY DEF U
<1>7. PICK h \in [SUBSET DOMAIN q -> U] : Loops(h, F, q, base, U)
  BY <1>2, <1>6, LoopExists
<1>8. DecayRun(h, q, base)
  <2>1. \A s \in SUBSET DOMAIN q : h[s] = IF s = {} THEN base ELSE decayOne(h[s \ {Max(s)}], q[Max(s)])
    BY <1>2, <1>5, <1>7 DEF Loops
  <2> QED BY <1>7, <2>1 DEF DecayRun
<1> DEFINE k == CHOOSE g : DecayRun(g, q, base)
<1>9. DecayRun(k, q, base)
  BY <1>8
<1> HIDE DEF k
<1>10. Loops(k, F, q, base, U)
  <2>1. \A s \in SUBSET DOMAIN q : k[s] = IF s = {} THEN base ELSE decayOne(k[s \ {Max(s)}], q[Max(s)])
    BY <1>9 DEF DecayRun
  <2>2. k[{}] = base
    BY <2>1
  <2> QED BY <1>2, <1>5, <2>1, <2>2 DEF Loops
<1>11. \A T \in SUBSET S : \A i \in T : \A y \in G[T \ {i}] : F[<<i, y>>] \in G[T]
  <2> SUFFICES ASSUME NEW T \in SUBSET S, NEW i \in T, NEW y \in G[T \ {i}] PROVE F[<<i, y>>] \in G[T]
    OBVIOUS
  <2>1. T \ {i} \in SUBSET S /\ i \in S
    OBVIOUS
  <2>2. y \in U
    BY <1>6, <2>1
  <2>3. decayOne(y, i) \in G[T]
    OBVIOUS
  <2>4. F[<<i, y>>] = decayOne(y, i)
    BY <1>2, <2>1, <2>2
  <2> QED BY <2>3, <2>4
<1>12. k[DOMAIN q] \in G[S]
  BY <1>6, <1>10, <1>11, LoopReaches
<1> QED BY <1>12 DEF Decayed, k

LEMMA DecayOneKeeps ==
    ASSUME NEW s, NEW i \in Perishables, NEW H \in Extra, NEW B \in SUBSET Perishables,
           NEW K \in SUBSET Nat, now \in Nat,
           Kept(s, [H EXCEPT ![i] = @ + 1], B, B, now), Able(s, {}), Timely(s, K), i \in B
    PROVE  LET r == decayOne(s, i)
           IN  /\ Kept(r, H, B \ {i}, B \ {i}, now) /\ Able(r, {}) /\ Timely(r, K)
               /\ \A j \in Perishables : r.stage[j] # s.stage[j] => j = i
<1> DEFINE J == [H EXCEPT ![i] = @ + 1]
           D == B \ {i}
<1>0. s \in DecayState /\ J \in Extra /\ D \in SUBSET Perishables /\ i \notin D /\ D \subseteq B
  BY DEF Kept, Extra
<1>1. ASSUME NEW u \in {Dropped(s, i), Rested(s, i)}
      PROVE  /\ Kept(u, J, D, B, now) /\ Able(u, {}) /\ Timely(u, K) /\ SameItems(s, u)
             /\ i \notin Listing(u)
  <2>1. /\ u \in DecayState /\ SameItems(s, u) /\ u.decayMap = s.decayMap
        /\ u.refs = s.refs /\ u.toRelease = s.toRelease
        /\ u.events = s.events /\ u.full = s.full /\ u.dangling = s.dangling
        /\ \A j \in Perishables : j # i => /\ u.state[j] = s.state[j] /\ u.stamp[j] = s.stamp[j]
                                           /\ u.duration[j] = s.duration[j]
    BY <1>0, DroppedIs
  <2>2. Listing(u) = Listing(s) /\ \A j : One(Linked(u, j)) = One(Linked(s, j))
    BY <2>1 DEF Listing, Linked, SameItems
  <2>3. \A j : (isRemoved(u, j) <=> isRemoved(s, j)) /\ (canDecay(u, j) <=> canDecay(s, j))
    BY <2>1, SameRemoved
  <2>4. \A x \in s.decayMap : x[2] \in Perishables /\ x[2] # i
    BY <1>0, EntryIs DEF Kept, Keyed
  <2>5. i \notin Listing(s) /\ Listing(s) \subseteq Perishables
    BY <1>0, <2>4, ListingIs DEF Listing
  <2>6. Counted(u, J)
    BY <2>1, <2>2 DEF Kept, Counted
  <2>7. Rooted(u)
    BY <2>1 DEF Kept, Rooted, Shallow, SameItems
  <2>8. Keyed(u, D)
    BY <2>1, <2>4 DEF Kept, Keyed
  <2>9. Spent(u, D, now)
    <3>1. \A j \in D : j \in B /\ j \in Perishables /\ j # i
      BY <1>0
    <3> QED BY <2>1, <2>3, <3>1 DEF Kept, Spent, SameItems
  <2>10. Owing(u, B, now)
    <3>1. \A j \in Perishables \ B : j # i /\ TimeLeft(u, j, now) = TimeLeft(s, j, now)
      BY <2>1 DEF TimeLeft
    <3> QED BY <2>1, <2>2, <2>3, <3>1 DEF Kept, Owing, SameItems
  <2>11. Able(u, {})
    BY <2>1, <2>2, <2>3, <2>5 DEF Able
  <2>12. Timely(u, K)
    BY <2>1, TimelyLess
  <2> QED BY <2>1, <2>2, <2>5, <2>6, <2>7, <2>8, <2>9, <2>10, <2>11, <2>12 DEF Kept
<1>2. CASE canDecay(s, i)
  <2> DEFINE u == Dropped(s, i)
             v == internalDecayItem(u, i)
             r == ReleaseItem(v, i)
  <2>1. Kept(u, J, D, B, now) /\ Able(u, {}) /\ Timely(u, K) /\ SameItems(s, u)
    BY <1>1
  <2>2. canDecay(u, i) /\ Able(u, {i}) /\ B \ {i} = D
    BY <1>2, <2>1, SameRemoved DEF Able
  <2> HIDE DEF u, J, D
  <2>3. /\ Kept(v, J, D, D, now) /\ Able(v, {}) /\ Timely(v, K)
        /\ \A j \in Perishables : v.stage[j] # u.stage[j] => j = i
    BY <1>0, <2>1, <2>2, DecayItemKeeps
  <2> HIDE DEF v
  <2>4. Kept(r, H, D, D, now) /\ Able(r, {}) /\ Timely(r, K) /\ SameItems(v, r)
    BY <2>3, ReleaseKeeps DEF J
  <2> HIDE DEF r
  <2>5. \A j \in Perishables : r.stage[j] # s.stage[j] => j = i
    BY <2>1, <2>3, <2>4 DEF SameItems
  <2>6. decayOne(s, i) = r
    BY <1>2, DecayOneIs DEF r, v, u
  <2> QED BY <2>4, <2>5, <2>6 DEF D
<1>3. CASE ~canDecay(s, i)
  <2> DEFINE u == Rested(s, i)
             r == ReleaseItem(u, i)
  <2>1. Kept(u, J, D, B, now) /\ Able(u, {}) /\ Timely(u, K) /\ SameItems(s, u) /\ i \notin Listing(u)
    BY <1>1
  <2>2. u.duration[i] = TimeLeft(s, i, now)
    BY <1>0, DroppedIs
  <2> HIDE DEF u
  <2>3. Owing(u, D, now)
    <3> SUFFICES ASSUME NEW j \in Perishables \ D, u.stage[j] # Plain
                 PROVE  IF j \in Listing(u) THEN TimeLeft(u, j, now) = u.owed[j]
                        ELSE isRemoved(u, j) \/ u.duration[j] = u.owed[j]
      BY DEF Owing
    <3>1. CASE j = i
      <4>1. s.owed[i] = 0 /\ (isRemoved(s, i) \/ (s.state[i] = "true" /\ s.stamp[i] \in 0..now))
        BY DEF Kept, Spent
      <4>2. isRemoved(s, i) \/ u.duration[i] = 0
        BY <2>2, <4>1 DEF TimeLeft
      <4>3. u.owed[i] = 0 /\ (isRemoved(u, i) <=> isRemoved(s, i))
        BY <2>1, <4>1, SameRemoved DEF SameItems
      <4> QED BY <2>1, <3>1, <4>2, <4>3
    <3>2. CASE j # i
      BY <2>1, <3>2 DEF Kept, Owing
    <3> QED BY <3>1, <3>2
  <2>4. Kept(u, J, D, D, now)
    BY <2>1, <2>3 DEF Kept
  <2>5. Kept(r, H, D, D, now) /\ Able(r, {}) /\ Timely(r, K) /\ SameItems(u, r)
    <3> HIDE DEF D
    <3> QED BY <2>1, <2>4, ReleaseKeeps
  <2> HIDE DEF r
  <2>6. r.stage = s.stage
    BY <2>1, <2>5 DEF SameItems
  <2>7. decayOne(s, i) = r
    BY <1>3, DecayOneIs DEF r, u
  <2> QED BY <2>5, <2>6, <2>7
<1> QED BY <1>2, <1>3
NoExtra == [i \in Perishables |-> 0]
InHand(B) == [i \in Perishables |-> One(i \in B)]

\* The loop of checkDecay().
LEMMA BatchKeeps ==
    ASSUME NEW s, NEW B \in SUBSET Perishables, NEW q, Lists(q, B), NEW K \in SUBSET Nat, now \in Nat,
           Kept(s, InHand(B), B, B, now), Able(s, {}), Timely(s, K)
    PROVE  LET r == Decayed(q, s)
           IN  /\ Kept(r, NoExtra, {}, {}, now) /\ Able(r, {}) /\ Timely(r, K)
               /\ \A j \in Perishables : r.stage[j] # s.stage[j] => j \in B
<1> DEFINE Good(T) == {y \in DecayState :
                          /\ Kept(y, InHand(B \ T), B \ T, B \ T, now) /\ Able(y, {}) /\ Timely(y, K)
                          /\ \A j \in Perishables : y.stage[j] # s.stage[j] => j \in B}
           G == [T \in SUBSET B |-> Good(T)]
<1>1. s \in DecayState /\ s \in Good({})
  <2>1. B \ {} = B
    OBVIOUS
  <2> QED BY <2>1 DEF Kept
<1>2. \A T \in SUBSET B : G[T] = Good(T) /\ Good(T) \subseteq DecayState
  OBVIOUS
<1>3. ASSUME NEW T \in SUBSET B, NEW i \in T, NEW y \in G[T \ {i}] PROVE decayOne(y, i) \in G[T]
  <2> DEFINE D == B \ (T \ {i})
             H == InHand(B \ T)
             r == decayOne(y, i)
  <2>1. y \in Good(T \ {i}) /\ i \in Perishables /\ D \ {i} = B \ T /\ i \in D /\ D \in SUBSET Perishables
    BY <1>2
  <2>2. H \in Extra /\ InHand(D) = [H EXCEPT ![i] = @ + 1]
    BY DEF InHand, One, Extra
  <2>3. /\ Kept(y, InHand(D), D, D, now) /\ Able(y, {}) /\ Timely(y, K)
        /\ \A j \in Perishables : y.stage[j] # s.stage[j] => j \in B
    BY <2>1
  <2> HIDE DEF D, H
  <2>4. /\ Kept(r, H, D \ {i}, D \ {i}, now) /\ Able(r, {}) /\ Timely(r, K)
        /\ \A j \in Perishables : r.stage[j] # y.stage[j] => j = i
    <3>1. Kept(y, [H EXCEPT ![i] = @ + 1], D, D, now)
      BY <2>2, <2>3
    <3> HIDE DEF r
    <3> QED BY <2>1, <2>2, <2>3, <3>1, DecayOneKeeps DEF r
  <2> HIDE DEF r
  <2>5. Kept(r, InHand(B \ T), B \ T, B \ T, now) /\ r \in DecayState
    BY <2>1, <2>4 DEF H, Kept
  <2>6. \A j \in Perishables : r.stage[j] # s.stage[j] => j \in B
    BY <2>3, <2>4
  <2>7. r \in Good(T)
    BY <2>4, <2>5, <2>6
  <2> QED BY <1>2, <2>7 DEF r
<1> HIDE DEF G
<1>4. Decayed(q, s) \in G[B]
  <2>1. s \in G[{}] /\ \A T \in SUBSET B : G[T] \subseteq DecayState
    BY <1>1, <1>2
  <2> HIDE DEF Good
  <2> QED BY <1>1, <1>3, <2>1, DecayLoop
<1>5. B \ B = {} /\ InHand({}) = NoExtra
  BY DEF InHand, NoExtra, One
<1>6. Decayed(q, s) \in Good(B)
  BY <1>2, <1>4
<1> QED BY <1>5, <1>6

-----------------------------------------------------------------------------
(* The inductive invariant, between two tasks.                             *)

DecayInv ==
    /\ now \in 0..MaxNow /\ ~decay.full
    /\ Kept(decay, NoExtra, {}, {}, now) /\ Able(decay, {}) /\ Timely(decay, {})

NeverEarly ==
    \A i \in Perishables :
        decay'.stage[i] # decay.stage[i] /\ decay'.stage[i] # Plain
        => decay.owed[i] = 0 \/ decay'.refs[i] = 0 \/ SetDuration(i, 0)

LEMMA DecayInvSound == DecayInv => DecayConsistent
<1> SUFFICES ASSUME DecayInv PROVE DecayConsistent
  OBVIOUS
<1>1. decay \in DecayState /\ Counted(decay, NoExtra) /\ Keyed(decay, {}) /\ Able(decay, {}) /\ Timely(decay, {})
  BY DEF DecayInv, Kept
<1>2. DecayScheduled
  <2> SUFFICES ASSUME decay.decayMap # {}, ~decay.dangling
               PROVE  \E e \in EventSlots : decay.events[e] \in 1..FirstKey(decay.decayMap)
    BY DEF DecayScheduled
  <2>1. \E x \in decay.decayMap : x[1] = FirstKey(decay.decayMap)
    BY <1>1, FirstKeyIs
  <2> QED BY <1>1, <2>1 DEF DecayInv, Timely, Awaited, Served
<1>3. \A x \in decay.decayMap : decay.state[x[2]] = "true" /\ decay.stamp[x[2]] = x[1]
  BY <1>1 DEF Keyed, Able, Listing
<1>4. ASSUME NEW i \in Perishables
      PROVE  LET linked == \/ decay.parent[i] = OnMap
                           \/ decay.parent[i] \in Perishables /\ decay.refs[decay.parent[i]] > 0
                 listed == \E x \in decay.decayMap : x[2] = i
             IN  decay.refs[i] = decay.toRelease[i] + (IF linked THEN 1 ELSE 0)
                                                    + (IF listed THEN 1 ELSE 0)
  <2>1. decay.refs[i] = decay.toRelease[i] + One(Linked(decay, i)) + One(i \in Listing(decay)) + 0
    BY <1>1 DEF Counted, NoExtra
  <2>2. i \in Listing(decay) <=> \E x \in decay.decayMap : x[2] = i
    BY DEF Listing
  <2>3. decay.toRelease[i] \in Nat
    BY <1>1 DEF DecayState
  <2> QED BY <2>1, <2>2, <2>3 DEF One, Linked
<1>5. DecayTypeOK
  BY <1>1 DEF DecayInv, DecayTypeOK
<1> QED BY <1>2, <1>3, <1>4, <1>5 DEF DecayConsistent, DecayRefsExact

\* A task ends: what was deleted is forgotten.
LEMMA BecomesKeeps ==
    ASSUME NEW s \in DecayState, Counted(s, NoExtra), Shallow(s), Keyed(s, {}), Owing(s, {}, now),
           Able(s, {}), Timely(s, {}), now \in 0..MaxNow, Becomes(s)
    PROVE  DecayInv' /\ \A j \in Perishables : decay'.stage[j] # s.stage[j] => decay'.refs[j] = 0
<1> DEFINE gone == {i \in Perishables : s.refs[i] = 0}
           Forget(f, v) == [i \in Perishables |-> IF i \in gone THEN v ELSE f[i]]
           st == Forget(s.state, "absent")
           du == Forget(s.duration, 0)
           sp == Forget(s.stamp, None)
           sg == Forget(s.stage, 0)
           ow == Forget(s.owed, 0)
           pa == Forget(s.parent, Removed)
<1>1. /\ ~s.full /\ now' = now
      /\ decay' = [s EXCEPT !.erased = {}, !.state = st, !.duration = du, !.stamp = sp,
                            !.stage = sg, !.owed = ow, !.parent = pa]
  BY DEF Becomes
<1>2. /\ st \in [Perishables -> {"absent", "false", "true", "pending", "stopping"}]
      /\ du \in [Perishables -> Nat] /\ sp \in [Perishables -> Nat \cup {None}]
      /\ sg \in [Perishables -> Int] /\ ow \in [Perishables -> Nat]
      /\ pa \in [Perishables -> Perishables \cup {OnMap, Removed}]
  BY DEF DecayState, Times
<1>3. \A j \in Perishables :
          /\ st[j] = IF j \in gone THEN "absent" ELSE s.state[j]
          /\ du[j] = IF j \in gone THEN 0 ELSE s.duration[j]
          /\ sp[j] = IF j \in gone THEN None ELSE s.stamp[j]
          /\ sg[j] = IF j \in gone THEN 0 ELSE s.stage[j]
          /\ ow[j] = IF j \in gone THEN 0 ELSE s.owed[j]
          /\ pa[j] = IF j \in gone THEN Removed ELSE s.parent[j]
  OBVIOUS
<1>4. \A j \in Perishables : j \in gone <=> s.refs[j] = 0
  OBVIOUS
<1> HIDE DEF st, du, sp, sg, ow, pa, gone, Forget
<1> DEFINE r == decay'
<1>5. /\ r \in DecayState /\ r.state = st /\ r.duration = du /\ r.stamp = sp /\ r.stage = sg
      /\ r.owed = ow /\ r.parent = pa /\ r.decayMap = s.decayMap /\ r.refs = s.refs
      /\ r.toRelease = s.toRelease /\ r.worn = s.worn /\ r.events = s.events
      /\ r.full = s.full /\ r.dangling = s.dangling
  BY <1>1, <1>2 DEF DecayState, Times
<1> HIDE DEF r
<1>6. Listing(r) = Listing(s) /\ Listing(s) \subseteq Perishables
  BY <1>5, ListingIs DEF Listing
<1>7. \A j \in Perishables : j \in gone => ~Linked(s, j) /\ j \notin Listing(s)
  <2> SUFFICES ASSUME NEW j \in Perishables, j \in gone PROVE ~Linked(s, j) /\ j \notin Listing(s)
    OBVIOUS
  <2>1. 0 = s.toRelease[j] + One(Linked(s, j)) + One(j \in Listing(s)) + 0 /\ s.toRelease[j] \in Nat
    BY <1>4 DEF Counted, NoExtra, DecayState
  <2> QED BY <2>1 DEF One
<1>8. \A j \in Perishables : s.parent[j] \in Perishables \cup {OnMap, Removed}
  BY DEF DecayState
<1>9. \A j \in Perishables : s.parent[j] \in gone => s.parent[s.parent[j]] = Removed
  <2> SUFFICES ASSUME NEW j \in Perishables, s.parent[j] \in gone PROVE s.parent[s.parent[j]] = Removed
    OBVIOUS
  <2>1. s.parent[j] \in Perishables /\ s.parent[s.parent[j]] \in {OnMap, Removed}
    BY DEF gone, Shallow
  <2> QED BY <1>7, <2>1 DEF Linked
<1>10. \A j \in Perishables : /\ j \in gone => isRemoved(r, j)
                              /\ j \notin gone => (isRemoved(r, j) <=> isRemoved(s, j))
  <2> SUFFICES ASSUME NEW j \in Perishables, j \notin gone PROVE isRemoved(r, j) <=> isRemoved(s, j)
    BY <1>3, <1>5 DEF isRemoved
  <2>1. r.parent[j] = s.parent[j]
    BY <1>3, <1>5
  <2>2. s.parent[j] \in Perishables => (r.parent[s.parent[j]] = Removed <=> s.parent[s.parent[j]] = Removed)
    BY <1>3, <1>5, <1>9
  <2> QED BY <2>1, <2>2 DEF isRemoved
<1>11. \A j \in Perishables : One(Linked(r, j)) = One(Linked(s, j))
  <2> SUFFICES ASSUME NEW j \in Perishables PROVE Linked(r, j) <=> Linked(s, j)
    BY DEF One
  <2>1. CASE j \in gone
    BY <1>3, <1>5, <1>7, <2>1, DecayConstants DEF Linked
  <2>2. CASE j \notin gone
    BY <1>3, <1>5, <2>2 DEF Linked
  <2> QED BY <2>1, <2>2
<1>12. Counted(r, NoExtra)
  BY <1>5, <1>6, <1>11 DEF Counted
<1>13. Rooted(r)
  <2>1. \A j \in Perishables : r.refs[j] = 0 => r.parent[j] = Removed
    BY <1>3, <1>4, <1>5
  <2>2. ASSUME NEW j \in Perishables, r.parent[j] \in Perishables
        PROVE  r.parent[r.parent[j]] \in {OnMap, Removed}
    <3>1. j \notin gone /\ r.parent[j] = s.parent[j]
      BY <1>3, <1>5, <2>2, DecayConstants
    <3>2. s.parent[s.parent[j]] \in {OnMap, Removed} /\ s.parent[j] \in Perishables
      BY <2>2, <3>1 DEF Shallow
    <3> QED BY <1>3, <1>5, <3>1, <3>2
  <2> QED BY <2>1, <2>2 DEF Rooted, Shallow
<1>14. Keyed(r, {})
  <2>1. \A x \in s.decayMap : x[2] \in Perishables /\ x[2] \notin gone
    BY <1>6, <1>7 DEF Listing
  <2> QED BY <1>3, <1>5, <2>1 DEF Keyed
<1>15. Owing(r, {}, now)
  <2> SUFFICES ASSUME NEW j \in Perishables, r.stage[j] # Plain
               PROVE  IF j \in Listing(r) THEN TimeLeft(r, j, now) = r.owed[j]
                      ELSE isRemoved(r, j) \/ r.duration[j] = r.owed[j]
    BY DEF Owing
  <2>1. CASE j \in gone
    BY <1>6, <1>7, <1>10, <2>1
  <2>2. CASE j \notin gone
    <3>1. /\ TimeLeft(r, j, now) = TimeLeft(s, j, now) /\ r.owed[j] = s.owed[j]
          /\ r.duration[j] = s.duration[j] /\ r.stage[j] = s.stage[j]
      BY <1>3, <1>5, <2>2 DEF TimeLeft
    <3> QED BY <1>6, <1>10, <2>2, <3>1 DEF Owing
  <2> QED BY <2>1, <2>2
<1>16. Able(r, {})
  <2> SUFFICES ASSUME NEW j \in Listing(r) PROVE canDecay(r, j) /\ r.state[j] = "true"
    BY DEF Able
  <2>1. j \in Perishables /\ j \notin gone /\ canDecay(s, j) /\ s.state[j] = "true"
    BY <1>6, <1>7 DEF Able
  <2> QED BY <1>3, <1>5, <1>10, <2>1 DEF canDecay
<1>17. Timely(r, {})
  BY <1>5, TimelyLess
<1>18. Spent(r, {}, now)
  BY DEF Spent
<1>19. Kept(r, NoExtra, {}, {}, now)
  BY <1>5, <1>12, <1>13, <1>14, <1>15, <1>18 DEF Kept
<1>20. DecayInv'
  <2>1. now' \in 0..MaxNow /\ ~r.full
    BY <1>1, <1>5
  <2>2. Kept(r, NoExtra, {}, {}, now') /\ MaxNow' = MaxNow
    BY <1>1, <1>19
  <2> QED BY <1>16, <1>17, <2>1, <2>2 DEF DecayInv, r
<1>21. \A j \in Perishables : r.stage[j] # s.stage[j] => r.refs[j] = 0
  BY <1>3, <1>4, <1>5
<1> QED BY <1>20, <1>21 DEF r

\* A task that is done.
LEMMA EndKeeps ==
    ASSUME DecayInv, NEW r, Kept(r, NoExtra, {}, {}, now), Able(r, {}), Timely(r, {}), Becomes(r)
    PROVE  DecayInv' /\ \A j \in Perishables : decay'.stage[j] # r.stage[j] => decay'.refs[j] = 0
BY BecomesKeeps DEF DecayInv, Kept, Rooted

LEMMA DecayInvParts ==
    ASSUME DecayInv
    PROVE  /\ now \in Nat /\ now \in 0..MaxNow /\ NoExtra \in Extra
           /\ decay \in DecayState /\ Counted(decay, NoExtra) /\ Shallow(decay) /\ Rooted(decay)
           /\ Keyed(decay, {}) /\ Owing(decay, {}, now)
           /\ Kept(decay, NoExtra, {}, {}, now) /\ Able(decay, {}) /\ Timely(decay, {})
           /\ Listing(decay) \subseteq Perishables
<1>1. decay \in DecayState /\ now \in Nat
  BY DecayConstants DEF DecayInv, Kept
<1> QED BY <1>1, ListingIs DEF DecayInv, Kept, Rooted, NoExtra, Extra

\* A script or a player does something to one item.
LEMMA AdjustKeeps ==
    ASSUME DecayInv, NEW i \in Perishables, NEW u \in DecayState,
           u.decayMap = decay.decayMap, u.stamp = decay.stamp, u.refs = decay.refs,
           u.toRelease = decay.toRelease, u.events = decay.events, u.full = decay.full,
           u.dangling = decay.dangling, Rooted(u),
           \A j \in Perishables : isRemoved(u, j) <=> isRemoved(decay, j),
           \A j \in Perishables : Linked(u, j) <=> Linked(decay, j),
           \A j \in Perishables \ {i} :
               /\ u.state[j] = decay.state[j] /\ u.duration[j] = decay.duration[j]
               /\ u.stage[j] = decay.stage[j] /\ u.owed[j] = decay.owed[j]
               /\ j \in u.worn <=> j \in decay.worn,
           u.state[i] = "absent" => decay.state[i] = "absent",
           u.stage[i] # Plain => IF i \in Listing(decay) THEN TimeLeft(u, i, now) = u.owed[i]
                                 ELSE isRemoved(u, i) \/ u.duration[i] = u.owed[i]
    PROVE  /\ Kept(u, NoExtra, {}, {}, now) /\ Able(u, {i}) /\ Timely(u, {})
           /\ Listing(u) = Listing(decay)
<1>1. Listing(u) = Listing(decay) /\ Listing(decay) \subseteq Perishables
  BY DecayInvParts DEF Listing
<1>2. Counted(u, NoExtra)
  <2>1. \A j \in Perishables : One(Linked(u, j)) = One(Linked(decay, j))
    BY DEF One
  <2> QED BY <1>1, <2>1, DecayInvParts DEF Counted
<1>3. Keyed(u, {})
  <2>1. \A x \in decay.decayMap : x[2] \in Perishables
    BY <1>1 DEF Listing
  <2> QED BY <2>1, DecayInvParts DEF Keyed
<1>4. Owing(u, {}, now)
  <2> SUFFICES ASSUME NEW j \in Perishables, u.stage[j] # Plain
               PROVE  IF j \in Listing(u) THEN TimeLeft(u, j, now) = u.owed[j]
                      ELSE isRemoved(u, j) \/ u.duration[j] = u.owed[j]
    BY DEF Owing
  <2>1. CASE j = i
    BY <1>1, <2>1
  <2>2. CASE j # i
    <3>1. TimeLeft(u, j, now) = TimeLeft(decay, j, now)
      BY <2>2 DEF TimeLeft
    <3> QED BY <1>1, <2>2, <3>1, DecayInvParts DEF Owing
  <2> QED BY <2>1, <2>2
<1>5. Able(u, {i})
  <2> SUFFICES ASSUME NEW j \in Listing(u) \ {i} PROVE canDecay(u, j) /\ u.state[j] = "true"
    BY DEF Able
  <2>1. j \in Perishables \ {i} /\ canDecay(decay, j) /\ decay.state[j] = "true"
    BY <1>1, DecayInvParts DEF Able
  <2> QED BY <2>1 DEF canDecay
<1>6. Timely(u, {})
  BY DecayInvParts, TimelyLess
<1>7. Spent(u, {}, now)
  BY DEF Spent
<1> QED BY <1>1, <1>2, <1>3, <1>4, <1>5, <1>6, <1>7 DEF Kept

\* The actions that end in startDecaying().
LEMMA RestartKeeps ==
    ASSUME DecayInv, NEW i \in Perishables, NEW u,
           Kept(u, NoExtra, {}, {}, now), Able(u, {i}), Timely(u, {}),
           i \in Listing(u) => canDecay(u, i) \/ u.state[i] \in {"true", "stopping"},
           u.owed = decay.owed,
           \A j \in Perishables : u.stage[j] # decay.stage[j] => u.stage[j] = Plain,
           Becomes(startDecaying(u, i))
    PROVE  DecayInv' /\ NeverEarly
<1> DEFINE r == startDecaying(u, i)
<1>1. /\ Kept(r, NoExtra, {}, {}, now) /\ Able(r, {}) /\ Timely(r, {})
      /\ \A j \in Perishables : r.stage[j] # u.stage[j] =>
            j = i /\ canDecay(u, i) /\ u.state[i] \notin {"true", "stopping"} /\ u.duration[i] = 0
  <2> DEFINE none == {}
  <2>1. none \in SUBSET Nat /\ Timely(u, none) /\ none = {}
    OBVIOUS
  <2> HIDE DEF none
  <2>2. Timely(r, none)
    BY <2>1, DecayInvParts, StartDecayingKeeps
  <2> QED BY <2>1, <2>2, DecayInvParts, StartDecayingKeeps
<1>2. Becomes(r)
  OBVIOUS
<1> HIDE DEF r
<1>3. DecayInv' /\ \A j \in Perishables : decay'.stage[j] # r.stage[j] => decay'.refs[j] = 0
  BY <1>1, <1>2, EndKeeps
<1>4. canDecay(u, i) /\ u.state[i] \notin {"true", "stopping"} /\ u.duration[i] = 0 => decay.owed[i] = 0
  <2> SUFFICES ASSUME canDecay(u, i), u.state[i] \notin {"true", "stopping"}, u.duration[i] = 0
               PROVE  decay.owed[i] = 0
    OBVIOUS
  <2>1. u.stage[i] # Plain /\ ~isRemoved(u, i)
    BY DEF canDecay
  <2>2. IF i \in Listing(u) THEN TimeLeft(u, i, now) = u.owed[i]
        ELSE isRemoved(u, i) \/ u.duration[i] = u.owed[i]
    BY <2>1 DEF Kept, Owing
  <2> QED BY <2>1, <2>2 DEF TimeLeft
<1>5. NeverEarly
  <2> SUFFICES ASSUME NEW j \in Perishables, decay'.stage[j] # decay.stage[j], decay'.stage[j] # Plain,
                      decay'.refs[j] # 0
               PROVE  decay.owed[j] = 0
    BY DEF NeverEarly
  <2>1. decay'.stage[j] = r.stage[j]
    BY <1>3
  <2>2. r.stage[j] # u.stage[j]
    BY <2>1
  <2> QED BY <1>1, <1>4, <2>2
<1> QED BY <1>3, <1>5

LEMMA PutSomewhereKeeps ==
    ASSUME DecayInv, NEW i \in Perishables, PutSomewhere(i) PROVE DecayInv' /\ NeverEarly
<1>1. Able(decay, {i}) /\ (i \in Listing(decay) => canDecay(decay, i))
  BY DecayInvParts DEF Able
<1>2. Becomes(startDecaying(decay, i))
  BY DEF PutSomewhere
<1> QED BY <1>1, <1>2, DecayInvParts, RestartKeeps

LEMMA TakeOutKeeps ==
    ASSUME DecayInv, NEW i \in Perishables, TakeOut(i) PROVE DecayInv' /\ NeverEarly
<1> DEFINE u == [decay EXCEPT !.parent[i] = OnMap]
<1>0. /\ decay \in DecayState /\ Rooted(decay) /\ Shallow(decay) /\ Owing(decay, {}, now) /\ Able(decay, {})
      /\ decay.parent \in [Perishables -> Perishables \cup {OnMap, Removed}]
      /\ OnMap \notin Perishables /\ Removed \notin Perishables /\ OnMap # Removed
  BY DecayInvParts, DecayConstants DEF DecayState
<1>1. /\ u.decayMap = decay.decayMap /\ u.stamp = decay.stamp /\ u.refs = decay.refs
      /\ u.toRelease = decay.toRelease /\ u.events = decay.events /\ u.full = decay.full
      /\ u.dangling = decay.dangling /\ u.state = decay.state /\ u.duration = decay.duration
      /\ u.stage = decay.stage /\ u.owed = decay.owed /\ u.worn = decay.worn
      /\ u.parent = [decay.parent EXCEPT ![i] = OnMap]
  BY <1>0 DEF DecayState
<1>2. u \in DecayState
  BY <1>0 DEF DecayState
<1>3. Becomes(startDecaying(u, i)) /\ decay.parent[i] # OnMap /\ ~isRemoved(decay, i)
  BY DEF TakeOut, There
<1> HIDE DEF u
<1> DEFINE p == decay.parent[i]
<1>4. p \in Perishables /\ decay.parent[p] = OnMap
  BY <1>0, <1>3 DEF isRemoved, Shallow
<1>5. decay.refs[p] > 0
  <2>1. decay.refs[p] # 0 /\ decay.refs[p] \in Nat
    BY <1>0, <1>4 DEF Rooted, DecayState
  <2> QED BY <2>1
<1>6. u.parent[i] = OnMap /\ \A j \in Perishables \ {i} : u.parent[j] = decay.parent[j]
  BY <1>0, <1>1
<1>7. \A j \in Perishables : decay.parent[j] # i
  BY <1>0, <1>4 DEF Shallow
<1>8. \A j \in Perishables : isRemoved(u, j) <=> isRemoved(decay, j)
  <2> SUFFICES ASSUME NEW j \in Perishables PROVE isRemoved(u, j) <=> isRemoved(decay, j)
    OBVIOUS
  <2>1. CASE j = i
    BY <1>0, <1>3, <1>6, <2>1 DEF isRemoved
  <2>2. CASE j # i
    BY <1>6, <1>7, <2>2 DEF isRemoved
  <2> QED BY <2>1, <2>2
<1>9. \A j \in Perishables : Linked(u, j) <=> Linked(decay, j)
  <2>1. Linked(u, i) /\ Linked(decay, i)
    BY <1>4, <1>5, <1>6 DEF Linked
  <2> QED BY <1>1, <1>6, <2>1 DEF Linked
<1>10. Rooted(u)
  <2>1. Shallow(u)
    BY <1>0, <1>6, <1>7 DEF Shallow
  <2>2. decay.refs[i] # 0
    BY <1>0, <1>4 DEF Rooted
  <2> QED BY <1>0, <1>1, <1>6, <2>1, <2>2 DEF Rooted
<1>11. u.stage[i] # Plain => IF i \in Listing(decay) THEN TimeLeft(u, i, now) = u.owed[i]
                             ELSE isRemoved(u, i) \/ u.duration[i] = u.owed[i]
  <2>1. TimeLeft(u, i, now) = TimeLeft(decay, i, now)
    BY <1>1 DEF TimeLeft
  <2> QED BY <1>0, <1>1, <1>8, <2>1 DEF Owing
<1>12. /\ Kept(u, NoExtra, {}, {}, now) /\ Able(u, {i}) /\ Timely(u, {})
       /\ Listing(u) = Listing(decay)
  BY <1>1, <1>2, <1>8, <1>9, <1>10, <1>11, AdjustKeeps
<1>13. i \in Listing(u) => u.state[i] = "true"
  BY <1>0, <1>1, <1>12 DEF Able
<1> QED BY <1>1, <1>3, <1>12, <1>13, RestartKeeps

\* Wearing an item, or a script: nothing moves.
LEMMA SamePlaces ==
    ASSUME DecayInv, NEW u, u.parent = decay.parent, u.refs = decay.refs
    PROVE  /\ Rooted(u)
           /\ \A j \in Perishables : isRemoved(u, j) <=> isRemoved(decay, j)
           /\ \A j \in Perishables : Linked(u, j) <=> Linked(decay, j)
<1>1. Rooted(decay)
  BY DecayInvParts
<1> QED BY <1>1 DEF Rooted, Shallow, isRemoved, Linked

LEMMA WearKeeps ==
    ASSUME DecayInv, NEW i \in Perishables, NEW w \in SUBSET Worn,
           \A j \in Perishables \ {i} : j \in w <=> j \in decay.worn,
           Becomes(startDecaying([decay EXCEPT !.worn = w], i))
    PROVE  DecayInv' /\ NeverEarly
<1> DEFINE u == [decay EXCEPT !.worn = w]
<1>0. decay \in DecayState /\ Owing(decay, {}, now) /\ Able(decay, {})
  BY DecayInvParts
<1>1. /\ u.decayMap = decay.decayMap /\ u.stamp = decay.stamp /\ u.refs = decay.refs
      /\ u.toRelease = decay.toRelease /\ u.events = decay.events /\ u.full = decay.full
      /\ u.dangling = decay.dangling /\ u.state = decay.state /\ u.duration = decay.duration
      /\ u.stage = decay.stage /\ u.owed = decay.owed /\ u.worn = w /\ u.parent = decay.parent
      /\ u \in DecayState
  BY <1>0 DEF DecayState
<1>2. Becomes(startDecaying(u, i))
  OBVIOUS
<1> HIDE DEF u
<1>3. /\ Rooted(u)
      /\ \A j \in Perishables : isRemoved(u, j) <=> isRemoved(decay, j)
      /\ \A j \in Perishables : Linked(u, j) <=> Linked(decay, j)
  BY <1>1, SamePlaces
<1>4. u.stage[i] # Plain => IF i \in Listing(decay) THEN TimeLeft(u, i, now) = u.owed[i]
                            ELSE isRemoved(u, i) \/ u.duration[i] = u.owed[i]
  <2>1. TimeLeft(u, i, now) = TimeLeft(decay, i, now)
    BY <1>1 DEF TimeLeft
  <2> QED BY <1>0, <1>1, <1>3, <2>1 DEF Owing
<1>5. /\ Kept(u, NoExtra, {}, {}, now) /\ Able(u, {i}) /\ Timely(u, {})
      /\ Listing(u) = Listing(decay)
  BY <1>1, <1>3, <1>4, AdjustKeeps
<1>6. i \in Listing(u) => u.state[i] = "true"
  BY <1>0, <1>1, <1>5 DEF Able
<1> QED BY <1>1, <1>2, <1>5, <1>6, RestartKeeps

LEMMA PutOnKeeps ==
    ASSUME DecayInv, NEW i \in Perishables, PutOn(i) PROVE DecayInv' /\ NeverEarly
<1>1. decay.worn \cup {i} \in SUBSET Worn /\ Becomes(startDecaying([decay EXCEPT !.worn = decay.worn \cup {i}], i))
  BY DecayInvParts DEF PutOn, DecayState
<1> QED BY <1>1, WearKeeps

LEMMA TakeOffKeeps ==
    ASSUME DecayInv, NEW i \in Perishables, TakeOff(i) PROVE DecayInv' /\ NeverEarly
<1>1. decay.worn \ {i} \in SUBSET Worn /\ Becomes(startDecaying([decay EXCEPT !.worn = decay.worn \ {i}], i))
  BY DecayInvParts DEF TakeOff, DecayState
<1> QED BY <1>1, WearKeeps

LEMMA TransformToPlainKeeps ==
    ASSUME DecayInv, NEW i \in Perishables, TransformToPlain(i) PROVE DecayInv' /\ NeverEarly
<1> DEFINE v == IF decay.state[i] = "absent" THEN "absent" ELSE "stopping"
           u == [decay EXCEPT !.stage[i] = Plain, !.state[i] = v]
<1>0. decay \in DecayState /\ Keyed(decay, {}) /\ Able(decay, {})
      /\ decay.state \in [Perishables -> {"absent", "false", "true", "pending", "stopping"}]
      /\ decay.stage \in [Perishables -> Int] /\ Plain \in Int
  BY DecayInvParts DEF DecayState, Plain
<1> DEFINE st == [decay.state EXCEPT ![i] = v]
           sg == [decay.stage EXCEPT ![i] = Plain]
<1>1. st \in [Perishables -> {"absent", "false", "true", "pending", "stopping"}] /\ sg \in [Perishables -> Int]
  BY <1>0
<1>2. u = [decay EXCEPT !.stage = sg, !.state = st]
  OBVIOUS
<1>3. u \in DecayState
  <2> HIDE DEF st, sg, u
  <2> QED BY <1>0, <1>1, <1>2 DEF DecayState
<1>4. /\ u.decayMap = decay.decayMap /\ u.stamp = decay.stamp /\ u.refs = decay.refs
      /\ u.toRelease = decay.toRelease /\ u.events = decay.events /\ u.full = decay.full
      /\ u.dangling = decay.dangling /\ u.state = st /\ u.duration = decay.duration
      /\ u.stage = sg /\ u.owed = decay.owed /\ u.worn = decay.worn /\ u.parent = decay.parent
  <2> HIDE DEF st, sg, u
  <2> QED BY <1>0, <1>2 DEF DecayState
<1>5. Becomes(startDecaying(u, i))
  BY DEF TransformToPlain
<1>6. st[i] = v /\ sg[i] = Plain /\ \A j \in Perishables \ {i} : st[j] = decay.state[j] /\ sg[j] = decay.stage[j]
  BY <1>0
<1>7. (v = "absent" <=> decay.state[i] = "absent") /\ v \in {"absent", "stopping"}
  OBVIOUS
<1> HIDE DEF u, st, sg, v
<1>8. /\ Rooted(u)
      /\ \A j \in Perishables : isRemoved(u, j) <=> isRemoved(decay, j)
      /\ \A j \in Perishables : Linked(u, j) <=> Linked(decay, j)
  BY <1>4, SamePlaces
<1>9. /\ Kept(u, NoExtra, {}, {}, now) /\ Able(u, {i}) /\ Timely(u, {})
      /\ Listing(u) = Listing(decay)
  BY <1>3, <1>4, <1>6, <1>7, <1>8, AdjustKeeps
<1>10. i \in Listing(u) => u.state[i] = "stopping"
  <2>1. i \in Listing(decay) => decay.state[i] = "true"
    BY <1>0 DEF Able
  <2> QED BY <1>4, <1>6, <1>7, <1>9, <2>1
<1>11. \A j \in Perishables : u.stage[j] # decay.stage[j] => u.stage[j] = Plain
  BY <1>4, <1>6
<1> QED BY <1>4, <1>5, <1>9, <1>10, <1>11, RestartKeeps

LEMMA SetDurationKeeps ==
    ASSUME DecayInv, NEW i \in Perishables, NEW d \in NewDurations, SetDuration(i, d)
    PROVE  DecayInv' /\ NeverEarly
<1> DEFINE u == [decay EXCEPT !.state[i] = "pending", !.duration[i] = d, !.owed[i] = d]
           r == startDecay(u, i)
<1>0. decay \in DecayState /\ Able(decay, {}) /\ d \in Nat
      /\ decay.state \in [Perishables -> {"absent", "false", "true", "pending", "stopping"}]
      /\ decay.duration \in [Perishables -> Nat] /\ decay.owed \in [Perishables -> Nat]
  BY DecayInvParts, DecayAssumption DEF DecayState, Times
<1> DEFINE st == [decay.state EXCEPT ![i] = "pending"]
           du == [decay.duration EXCEPT ![i] = d]
           ow == [decay.owed EXCEPT ![i] = d]
<1>1. /\ st \in [Perishables -> {"absent", "false", "true", "pending", "stopping"}]
      /\ du \in [Perishables -> Nat] /\ ow \in [Perishables -> Nat]
  BY <1>0
<1>2. u = [decay EXCEPT !.state = st, !.duration = du, !.owed = ow]
  OBVIOUS
<1>3. u \in DecayState
  <2> HIDE DEF st, du, ow, u
  <2> QED BY <1>0, <1>1, <1>2 DEF DecayState, Times
<1>4. /\ u.decayMap = decay.decayMap /\ u.stamp = decay.stamp /\ u.refs = decay.refs
      /\ u.toRelease = decay.toRelease /\ u.events = decay.events /\ u.full = decay.full
      /\ u.dangling = decay.dangling /\ u.state = st /\ u.duration = du
      /\ u.stage = decay.stage /\ u.owed = ow /\ u.worn = decay.worn /\ u.parent = decay.parent
  <2> HIDE DEF st, du, ow, u
  <2> QED BY <1>0, <1>2 DEF DecayState
<1>5. Becomes(r)
  BY DEF SetDuration
<1>6. /\ st[i] = "pending" /\ du[i] = d /\ ow[i] = d
      /\ \A j \in Perishables \ {i} :
            st[j] = decay.state[j] /\ du[j] = decay.duration[j] /\ ow[j] = decay.owed[j]
  BY <1>0
<1> HIDE DEF u, st, du, ow
<1>7. /\ Rooted(u)
      /\ \A j \in Perishables : isRemoved(u, j) <=> isRemoved(decay, j)
      /\ \A j \in Perishables : Linked(u, j) <=> Linked(decay, j)
  BY <1>4, SamePlaces
<1>8. TimeLeft(u, i, now) = u.owed[i] /\ u.duration[i] = u.owed[i]
  BY <1>4, <1>6 DEF TimeLeft
<1>9. /\ Kept(u, NoExtra, {}, {}, now) /\ Able(u, {i}) /\ Timely(u, {})
      /\ Listing(u) = Listing(decay)
  BY <1>3, <1>4, <1>6, <1>7, <1>8, AdjustKeeps
<1>10. i \in Listing(u) => canDecay(u, i)
  <2>1. i \in Listing(decay) => canDecay(decay, i)
    BY <1>0 DEF Able
  <2> QED BY <1>4, <1>7, <1>9, <2>1 DEF canDecay
<1>11. /\ Kept(r, NoExtra, {}, {}, now) /\ Able(r, {}) /\ Timely(r, {})
       /\ \A j \in Perishables : r.stage[j] # u.stage[j] => j = i /\ u.duration[i] = 0
  BY <1>9, <1>10, DecayInvParts, StartKeeps
<1> HIDE DEF r
<1>12. DecayInv' /\ \A j \in Perishables : decay'.stage[j] # r.stage[j] => decay'.refs[j] = 0
  BY <1>5, <1>11, EndKeeps
<1>13. NeverEarly
  <2> SUFFICES ASSUME NEW j \in Perishables, decay'.stage[j] # decay.stage[j], decay'.refs[j] # 0
               PROVE  SetDuration(j, 0)
    BY DEF NeverEarly
  <2>1. r.stage[j] # u.stage[j]
    BY <1>4, <1>12
  <2>2. j = i /\ d = 0
    BY <1>4, <1>6, <1>11, <2>1
  <2> QED BY <2>2
<1> QED BY <1>12, <1>13

LEMMA UseUpKeeps ==
    ASSUME DecayInv, NEW i \in Perishables, UseUp(i) PROVE DecayInv' /\ NeverEarly
<1> DEFINE r == internalRemoveItem(decay, i)
           none == {}
<1>1. none \in SUBSET Perishables /\ i \notin none /\ none \ {i} = {} /\ none = {}
  OBVIOUS
<1>2. Able(decay, {i}) /\ ~isRemoved(decay, i) /\ Becomes(r)
  BY DecayInvParts DEF Able, UseUp, There
<1> HIDE DEF none
<1>3. Kept(r, NoExtra, none, none \ {i}, now) /\ Able(r, {}) /\ Timely(r, {}) /\ r.stage = decay.stage
  <2>1. Kept(decay, NoExtra, none, none, now)
    BY <1>1, DecayInvParts
  <2> HIDE DEF r
  <2> QED BY <1>1, <1>2, <2>1, DecayInvParts, RemoveKeeps DEF r
<1> HIDE DEF r
<1>4. Kept(r, NoExtra, {}, {}, now)
  BY <1>1, <1>3
<1>5. DecayInv' /\ \A j \in Perishables : decay'.stage[j] # r.stage[j] => decay'.refs[j] = 0
  BY <1>2, <1>3, <1>4, EndKeeps
<1> QED BY <1>3, <1>5 DEF NeverEarly

\* Game::cleanup(): who loses its container loses one reference.
LEMMA CleanupKeeps == ASSUME DecayInv, Cleanup PROVE DecayInv' /\ NeverEarly
<1> DEFINE left(i) == decay.refs[i] - decay.toRelease[i]
           lost(i) == decay.parent[i] \in Perishables /\ decay.refs[decay.parent[i]] > 0 /\ left(decay.parent[i]) = 0
           after(i) == IF lost(i) THEN left(i) - 1 ELSE left(i)
           refs == [i \in Perishables |-> Max({0, after(i)})]
           none == [i \in Perishables |-> 0]
           s == [decay EXCEPT !.refs = refs, !.toRelease = none]
<1>0. /\ decay \in DecayState /\ Counted(decay, NoExtra) /\ Shallow(decay) /\ now \in 0..MaxNow
      /\ Keyed(decay, {}) /\ Owing(decay, {}, now) /\ Able(decay, {}) /\ Timely(decay, {})
      /\ OnMap \notin Perishables /\ Removed \notin Perishables
  BY DecayInvParts, DecayConstants
<1>1. Becomes(s)
  BY DEF Cleanup
<1>2. ASSUME NEW i \in Perishables
      PROVE  /\ left(i) = One(Linked(decay, i)) + One(i \in Listing(decay)) /\ left(i) \in Nat
             /\ decay.refs[i] \in Nat /\ decay.toRelease[i] \in Nat
  <2>1. decay.refs[i] = decay.toRelease[i] + One(Linked(decay, i)) + One(i \in Listing(decay)) + 0
    BY <1>0 DEF Counted, NoExtra
  <2>2. decay.refs[i] \in Nat /\ decay.toRelease[i] \in Nat
    BY <1>0 DEF DecayState
  <2>3. One(Linked(decay, i)) \in Nat /\ One(i \in Listing(decay)) \in Nat
    BY DEF One
  <2> QED BY <2>1, <2>2, <2>3
<1>3. ASSUME NEW i \in Perishables PROVE lost(i) => Linked(decay, i)
  BY DEF Linked
<1> HIDE DEF left
<1>4. ASSUME NEW i \in Perishables PROVE after(i) \in Nat /\ refs[i] = after(i)
  <2>1. after(i) \in Nat
    BY <1>2, <1>3 DEF One
  <2> HIDE DEF after
  <2> QED BY <2>1, MaxZero
<1>5. refs \in [Perishables -> Nat] /\ none \in [Perishables -> Nat]
  <2>1. \A i \in Perishables : refs[i] \in Nat
    BY <1>4
  <2>2. refs = [i \in Perishables |-> refs[i]]
    OBVIOUS
  <2> HIDE DEF refs
  <2> QED BY <2>1, <2>2
<1> HIDE DEF refs, none, s
<1>6. /\ s \in DecayState /\ s.refs = refs /\ s.toRelease = none /\ s.decayMap = decay.decayMap
      /\ s.parent = decay.parent /\ s.state = decay.state /\ s.stamp = decay.stamp
      /\ s.duration = decay.duration /\ s.stage = decay.stage /\ s.owed = decay.owed
      /\ s.worn = decay.worn /\ s.events = decay.events /\ s.full = decay.full /\ s.dangling = decay.dangling
  BY <1>0, <1>5 DEF DecayState, s
<1>7. Listing(s) = Listing(decay)
  BY <1>6 DEF Listing
<1>8. ASSUME NEW i \in Perishables PROVE left(i) - One(lost(i)) = One(Linked(s, i)) + One(i \in Listing(s))
  <2>1. CASE decay.parent[i] \notin Perishables
    <3>1. ~lost(i) /\ (Linked(s, i) <=> Linked(decay, i))
      BY <1>6, <2>1 DEF Linked
    <3> QED BY <1>2, <1>7, <3>1 DEF One
  <2>2. CASE decay.parent[i] \in Perishables
    <3> DEFINE p == decay.parent[i]
    <3>1. p \in Perishables /\ ~lost(p) /\ p # OnMap
      BY <1>0, <2>2 DEF Shallow
    <3>2. refs[p] = left(p) /\ left(p) \in Nat /\ decay.refs[p] \in Nat /\ decay.toRelease[p] \in Nat
          /\ left(p) = decay.refs[p] - decay.toRelease[p]
      BY <1>2, <1>4, <3>1 DEF left
    <3>3. (Linked(s, i) <=> left(p) > 0) /\ (Linked(decay, i) <=> decay.refs[p] > 0)
          /\ (lost(i) <=> decay.refs[p] > 0 /\ left(p) = 0)
      BY <1>6, <3>1, <3>2 DEF Linked
    <3> HIDE DEF lost, p
    <3>4. One(Linked(decay, i)) - One(lost(i)) = One(Linked(s, i))
      BY <3>2, <3>3 DEF One
    <3>5. One(Linked(decay, i)) \in Nat /\ One(lost(i)) \in Nat /\ One(i \in Listing(decay)) \in Nat
      BY DEF One
    <3> QED BY <1>2, <1>7, <3>4, <3>5
  <2> QED BY <2>1, <2>2
<1>9. Counted(s, NoExtra)
  <2> SUFFICES ASSUME NEW i \in Perishables
               PROVE  s.refs[i] = s.toRelease[i] + One(Linked(s, i)) + One(i \in Listing(s)) + NoExtra[i]
    BY DEF Counted
  <2>1. s.refs[i] = left(i) - One(lost(i))
    BY <1>2, <1>4, <1>6 DEF One
  <2>2. s.toRelease[i] = 0 /\ NoExtra[i] = 0
    BY <1>6 DEF none, NoExtra
  <2>3. One(Linked(s, i)) \in Nat /\ One(i \in Listing(s)) \in Nat
    BY DEF One
  <2> HIDE DEF lost
  <2> QED BY <1>8, <2>1, <2>2, <2>3
<1>10. SameItems(decay, s)
  BY <1>6 DEF SameItems
<1>11. \A j : (isRemoved(s, j) <=> isRemoved(decay, j)) /\ (canDecay(s, j) <=> canDecay(decay, j))
  BY <1>10, SameRemoved
<1>12. \A j : TimeLeft(s, j, now) = TimeLeft(decay, j, now)
  BY <1>6 DEF TimeLeft
<1>13. Shallow(s) /\ Keyed(s, {}) /\ Owing(s, {}, now) /\ Able(s, {})
  <2>1. Shallow(s) /\ Keyed(s, {})
    BY <1>0, <1>6 DEF Shallow, Keyed
  <2>2. Owing(s, {}, now)
    BY <1>0, <1>6, <1>7, <1>11, <1>12 DEF Owing
  <2>3. Able(s, {})
    BY <1>0, <1>6, <1>7, <1>11 DEF Able
  <2> QED BY <2>1, <2>2, <2>3
<1>14. Timely(s, {})
  BY <1>0, <1>6, TimelyLess
<1>15. DecayInv' /\ \A j \in Perishables : decay'.stage[j] # s.stage[j] => decay'.refs[j] = 0
  BY <1>0, <1>1, <1>6, <1>9, <1>13, <1>14, BecomesKeeps
<1> QED BY <1>6, <1>15 DEF NeverEarly

\* The clock.
LEMMA TickKeeps == ASSUME DecayInv, Tick PROVE DecayInv' /\ NeverEarly
<1> DEFINE ow == [i \in Perishables |-> IF i \in Listing(decay) THEN Max({0, decay.owed[i] - 1}) ELSE decay.owed[i]]
           r == decay'
<1>0. /\ decay \in DecayState /\ Counted(decay, NoExtra) /\ Rooted(decay) /\ now \in Nat
      /\ Keyed(decay, {}) /\ Owing(decay, {}, now) /\ Able(decay, {}) /\ Timely(decay, {})
      /\ decay.owed \in [Perishables -> Nat] /\ Listing(decay) \subseteq Perishables
  BY DecayInvParts DEF DecayState, Times
<1>1. \A i : i \in Listing(decay) <=> \E x \in decay.decayMap : x[2] = i
  BY DEF Listing
<1>2. r = [decay EXCEPT !.owed = ow]
  <2>1. ow = [i \in Perishables |-> IF \E x \in decay.decayMap : x[2] = i
                                    THEN Max({0, decay.owed[i] - 1}) ELSE decay.owed[i]]
    BY <1>1
  <2> HIDE DEF ow
  <2> QED BY <2>1 DEF Tick
<1>3. \A i \in Perishables : ow[i] = (IF i \in Listing(decay) /\ decay.owed[i] = 0 THEN 0
                                      ELSE IF i \in Listing(decay) THEN decay.owed[i] - 1 ELSE decay.owed[i])
                             /\ ow[i] \in Nat
  <2> SUFFICES ASSUME NEW i \in Perishables
               PROVE  ow[i] = (IF i \in Listing(decay) /\ decay.owed[i] = 0 THEN 0
                               ELSE IF i \in Listing(decay) THEN decay.owed[i] - 1 ELSE decay.owed[i])
                      /\ ow[i] \in Nat
    OBVIOUS
  <2>1. decay.owed[i] \in Nat
    BY <1>0
  <2>2. Max({0, decay.owed[i] - 1}) = IF decay.owed[i] - 1 > 0 THEN decay.owed[i] - 1 ELSE 0
    <3> DEFINE v == decay.owed[i] - 1
    <3>1. v \in Int
      BY <2>1
    <3> HIDE DEF v
    <3>2. Max({0, v}) = IF v > 0 THEN v ELSE 0
      BY <3>1, MaxZero
    <3> QED BY <3>2 DEF v
  <2>3. ow[i] = IF i \in Listing(decay) THEN Max({0, decay.owed[i] - 1}) ELSE decay.owed[i]
    OBVIOUS
  <2> HIDE DEF ow
  <2> QED BY <2>1, <2>2, <2>3
<1>4. ow \in [Perishables -> Nat]
  <2>1. ow = [i \in Perishables |-> ow[i]]
    OBVIOUS
  <2> HIDE DEF ow
  <2> QED BY <1>3, <2>1
<1> HIDE DEF ow, r
<1>5. /\ r \in DecayState /\ r.refs = decay.refs /\ r.toRelease = decay.toRelease /\ r.decayMap = decay.decayMap
      /\ r.parent = decay.parent /\ r.state = decay.state /\ r.stamp = decay.stamp
      /\ r.duration = decay.duration /\ r.stage = decay.stage /\ r.owed = ow
      /\ r.worn = decay.worn /\ r.events = decay.events /\ r.full = decay.full /\ r.dangling = decay.dangling
  BY <1>0, <1>2, <1>4 DEF DecayState, Times
<1>6. Listing(r) = Listing(decay)
  BY <1>5 DEF Listing
<1>7. \A j : /\ (isRemoved(r, j) <=> isRemoved(decay, j)) /\ (canDecay(r, j) <=> canDecay(decay, j))
             /\ One(Linked(r, j)) = One(Linked(decay, j))
  BY <1>5 DEF isRemoved, canDecay, Linked
<1>8. Counted(r, NoExtra) /\ Rooted(r) /\ Keyed(r, {}) /\ Able(r, {})
  <2>1. Counted(r, NoExtra)
    BY <1>0, <1>5, <1>6, <1>7 DEF Counted
  <2>2. Rooted(r) /\ Keyed(r, {})
    BY <1>0, <1>5 DEF Rooted, Shallow, Keyed
  <2>3. Able(r, {})
    BY <1>0, <1>5, <1>6, <1>7 DEF Able
  <2> QED BY <2>1, <2>2, <2>3
<1>9. Timely(r, {})
  BY <1>0, <1>5, TimelyLess
<1>10. Owing(r, {}, now + 1)
  <2> SUFFICES ASSUME NEW j \in Perishables, r.stage[j] # Plain
               PROVE  IF j \in Listing(r) THEN TimeLeft(r, j, now + 1) = r.owed[j]
                      ELSE isRemoved(r, j) \/ r.duration[j] = r.owed[j]
    BY DEF Owing
  <2>1. IF j \in Listing(decay) THEN TimeLeft(decay, j, now) = decay.owed[j]
        ELSE isRemoved(decay, j) \/ decay.duration[j] = decay.owed[j]
    BY <1>0, <1>5 DEF Owing
  <2>2. CASE j \notin Listing(decay)
    BY <1>3, <1>5, <1>6, <1>7, <2>1, <2>2
  <2>3. CASE j \in Listing(decay)
    <3>1. decay.state[j] = "true"
      BY <1>0, <2>3 DEF Able
    <3>2. decay.stamp[j] \in Nat \cup {None} /\ decay.owed[j] \in Nat
      BY <1>0 DEF DecayState, Times
    <3>3. r.state[j] = "true" /\ r.stamp[j] = decay.stamp[j]
      BY <1>5, <3>1
    <3>4. decay.owed[j] = IF decay.stamp[j] = None \/ decay.stamp[j] <= now THEN 0 ELSE decay.stamp[j] - now
      BY <2>1, <2>3, <3>1 DEF TimeLeft
    <3>5. TimeLeft(r, j, now + 1) = IF decay.stamp[j] = None \/ decay.stamp[j] <= now + 1 THEN 0
                                    ELSE decay.stamp[j] - (now + 1)
      BY <3>3 DEF TimeLeft
    <3>6. r.owed[j] = IF decay.owed[j] = 0 THEN 0 ELSE decay.owed[j] - 1
      BY <1>3, <1>5, <2>3
    <3>7. r.owed[j] = TimeLeft(r, j, now + 1)
      <4>1. CASE decay.stamp[j] = None
        BY <3>4, <3>5, <3>6, <4>1
      <4>2. CASE decay.stamp[j] # None
        BY <1>0, <3>2, <3>4, <3>5, <3>6, <4>2
      <4> QED BY <4>1, <4>2
    <3> QED BY <1>6, <2>3, <3>7
  <2> QED BY <2>2, <2>3
<1>11. Kept(r, NoExtra, {}, {}, now + 1)
  BY <1>5, <1>8, <1>10 DEF Kept, Spent
<1>12. now' = now + 1 /\ now' \in 0..MaxNow /\ ~r.full
  BY <1>0, <1>5, DecayConstants DEF Tick, DecayInv
<1>13. DecayInv'
  <2>1. Kept(r, NoExtra, {}, {}, now')
    BY <1>11, <1>12
  <2> QED BY <1>8, <1>9, <1>12, <2>1 DEF DecayInv, r
<1>14. decay'.stage = decay.stage
  BY <1>5 DEF r
<1> QED BY <1>13, <1>14 DEF NeverEarly

LEMMA DecayInitKeeps == DecayInit => DecayInv
<1> SUFFICES ASSUME DecayInit PROVE DecayInv
  OBVIOUS
<1>0. PICK first \in FirstParents :
          LET IfThere(f, v) == [i \in Perishables |-> IF first[i] = Removed THEN v ELSE f[i]]
          IN  decay = [decayMap |-> {}, eventId |-> 0,
                       events |-> [e \in EventSlots |-> 0],
                       state |-> [i \in Perishables |-> "absent"],
                       duration |-> IfThere(Lifetime, 0),
                       stamp |-> [i \in Perishables |-> None],
                       stage |-> IfThere(Stages, 0),
                       parent |-> first,
                       worn |-> {},
                       refs |-> IfThere([i \in Perishables |-> 1], 0),
                       toRelease |-> [i \in Perishables |-> 0],
                       erased |-> {}, dangling |-> FALSE, full |-> FALSE,
                       owed |-> IfThere(Lifetime, 0)]
  BY DEF DecayInit
<1> DEFINE du == [i \in Perishables |-> IF first[i] = Removed THEN 0 ELSE Lifetime[i]]
           sg == [i \in Perishables |-> IF first[i] = Removed THEN 0 ELSE Stages[i]]
           rf == [i \in Perishables |-> IF first[i] = Removed THEN 0 ELSE [j \in Perishables |-> 1][i]]
           ev == [e \in EventSlots |-> 0]
           st == [i \in Perishables |-> "absent"]
           sp == [i \in Perishables |-> None]
           zr == [i \in Perishables |-> 0]
<1>1. decay = [decayMap |-> {}, eventId |-> 0, events |-> ev, state |-> st, duration |-> du,
               stamp |-> sp, stage |-> sg, parent |-> first, worn |-> {}, refs |-> rf, toRelease |-> zr,
               erased |-> {}, dangling |-> FALSE, full |-> FALSE, owed |-> du]
  BY <1>0
<1>2. /\ first \in [Perishables -> Perishables \cup {OnMap, Removed}] /\ OnMap # Removed
      /\ Lifetime \in [Perishables -> Nat \ {0}] /\ Stages \in [Perishables -> Nat \ {0}] /\ MaxNow \in Nat
      /\ \A i \in Perishables : first[i] \in Perishables => first[first[i]] = OnMap
      /\ OnMap \notin Perishables /\ Removed \notin Perishables
  BY DecayAssumption
<1>3. /\ du \in [Perishables -> Nat] /\ sg \in [Perishables -> Int] /\ rf \in [Perishables -> Nat]
      /\ ev \in [EventSlots -> Nat] /\ sp \in [Perishables -> Nat \cup {None}] /\ zr \in [Perishables -> Nat]
      /\ st \in [Perishables -> {"absent", "false", "true", "pending", "stopping"}]
  BY <1>2
<1>4. \A i \in Perishables : rf[i] = (IF first[i] = Removed THEN 0 ELSE 1) /\ zr[i] = 0
  OBVIOUS
<1> HIDE DEF du, sg, rf, ev, st, sp, zr
<1>5. /\ decay.decayMap = {} /\ decay.refs = rf /\ decay.toRelease = zr /\ decay.parent = first
      /\ decay.owed = decay.duration /\ ~decay.full
  BY <1>1
<1>6. decay \in DecayState
  BY <1>1, <1>2, <1>3 DEF DecayState, Times
<1>7. Listing(decay) = {}
  BY <1>5 DEF Listing
<1>8. Counted(decay, NoExtra)
  <2> SUFFICES ASSUME NEW i \in Perishables
               PROVE  decay.refs[i] = decay.toRelease[i] + One(Linked(decay, i)) + One(i \in Listing(decay)) + NoExtra[i]
    BY DEF Counted
  <2>1. decay.toRelease[i] = 0 /\ One(i \in Listing(decay)) = 0 /\ NoExtra[i] = 0
    BY <1>4, <1>5, <1>7 DEF One, NoExtra
  <2>2. Linked(decay, i) <=> first[i] # Removed
    <3>1. first[i] \in Perishables => decay.refs[first[i]] = 1
      BY <1>2, <1>4, <1>5
    <3> QED BY <1>2, <1>5, <3>1 DEF Linked
  <2> QED BY <1>4, <1>5, <2>1, <2>2 DEF One
<1>9. Rooted(decay)
  BY <1>2, <1>4, <1>5 DEF Rooted, Shallow
<1>10. Keyed(decay, {}) /\ Spent(decay, {}, now) /\ Able(decay, {}) /\ Timely(decay, {})
  BY <1>5, <1>7 DEF Keyed, Spent, Able, Timely
<1>11. Owing(decay, {}, now)
  BY <1>5, <1>7 DEF Owing
<1>12. now \in 0..MaxNow
  BY <1>2 DEF DecayInit
<1> QED BY <1>5, <1>6, <1>8, <1>9, <1>10, <1>11, <1>12 DEF DecayInv, Kept

\* checkDecay() takes the due entries out of decayMap.
LEMMA TakenFacts ==
    ASSUME DecayInv, NEW e \in EventSlots, NEW q \in TempItems(decay),
           NEW items, items = [k \in DOMAIN q |-> q[k][2]],
           NEW later, later = {x \in decay.decayMap : ~Due(x[1])},
           NEW s, s = [decay EXCEPT !.decayMap = later, !.events[e] = 0, !.eventId = IF @ = e THEN 0 ELSE @],
           NEW B, B = {x[2] : x \in {y \in decay.decayMap : Due(y[1])}}
    PROVE  /\ B \in SUBSET Perishables /\ Lists(items, B)
           /\ Kept(s, InHand(B), B, B, now) /\ Able(s, {}) /\ s.decayMap = later
           /\ s.stage = decay.stage /\ \A i \in B : decay.owed[i] = 0
<1> DEFINE due == {y \in decay.decayMap : Due(y[1])}
<1>0. /\ decay \in DecayState /\ Counted(decay, NoExtra) /\ Rooted(decay) /\ now \in Nat
      /\ Keyed(decay, {}) /\ Owing(decay, {}, now) /\ Able(decay, {})
      /\ Listing(decay) \subseteq Perishables
  BY DecayInvParts
<1>1. \A x \in decay.decayMap : /\ x[1] \in Nat /\ x[2] \in Perishables /\ x = <<x[1], x[2]>>
                                /\ x[1] = decay.stamp[x[2]] /\ x[2] \in Listing(decay)
  BY <1>0, EntryIs DEF Keyed, Listing
<1>2. \A x, y \in decay.decayMap : x[2] = y[2] => x = y
  BY <1>1
<1>3. B \in SUBSET Perishables /\ B \subseteq Listing(decay)
  BY <1>1
<1>4. IsFiniteSet(due)
  <2> DEFINE f == [j \in B |-> <<decay.stamp[j], j>>]
  <2>1. IsFiniteSet(B)
    BY <1>3, DecayConstants, FS_Subset
  <2>2. \A j \in B : f[j] \in due
    BY <1>1
  <2>3. \A x \in due : \E j \in B : f[j] = x
    BY <1>1
  <2>4. f \in Surjection(B, due)
    BY <2>2, <2>3 DEF Surjection
  <2> HIDE DEF f, due
  <2> QED BY <2>1, <2>4, FS_Surjection
<1>5. Lists(q, due)
  <2>1. q \in [1..Cardinality(due) -> due] /\ \A i, j \in 1..Cardinality(due) : i # j => q[i] # q[j]
    BY DEF TempItems, SetToSeqs
  <2> HIDE DEF due
  <2> QED BY <1>4, <2>1, ListedOnce
<1>6. Lists(items, B)
  <2>1. PICK n \in Nat : /\ q \in [1..n -> due]
                         /\ \A i, j \in 1..n : q[i] = q[j] => i = j
                         /\ \A x \in due : \E i \in 1..n : q[i] = x
    BY <1>5 DEF Lists
  <2>2. items = [k \in 1..n |-> q[k][2]]
    BY <2>1
  <2>3. items \in [1..n -> B]
    <3>1. \A k \in 1..n : q[k] \in due
      BY <2>1
    <3>2. \A k \in 1..n : q[k][2] \in B
      BY <3>1
    <3> QED BY <2>2, <3>2
  <2>4. \A i, j \in 1..n : items[i] = items[j] => i = j
    <3> SUFFICES ASSUME NEW i \in 1..n, NEW j \in 1..n, items[i] = items[j] PROVE i = j
      OBVIOUS
    <3>1. q[i] \in decay.decayMap /\ q[j] \in decay.decayMap /\ q[i][2] = q[j][2]
      BY <2>1, <2>2
    <3>2. q[i] = q[j]
      BY <1>2, <3>1
    <3> QED BY <2>1, <3>2
  <2>5. \A b \in B : \E i \in 1..n : items[i] = b
    <3> SUFFICES ASSUME NEW x \in due PROVE \E i \in 1..n : items[i] = x[2]
      OBVIOUS
    <3>1. PICK i \in 1..n : q[i] = x
      BY <2>1
    <3>2. items[i] = x[2]
      BY <2>2, <3>1
    <3> QED BY <3>2
  <2> QED BY <2>3, <2>4, <2>5 DEF Lists
<1> HIDE DEF due
<1>7. later \in SUBSET (Nat \X Perishables) /\ later \subseteq decay.decayMap
  BY <1>0 DEF DecayState, Times
<1>8. s \in DecayState
  <2> DEFINE ev == [decay.events EXCEPT ![e] = 0]
             id == IF decay.eventId = e THEN 0 ELSE decay.eventId
  <2>1. ev \in [EventSlots -> Nat] /\ id \in EventSlots \cup {0}
    BY <1>0 DEF DecayState, Times
  <2>2. s = [decay EXCEPT !.decayMap = later, !.events = ev, !.eventId = id]
    OBVIOUS
  <2> HIDE DEF ev, id
  <2> QED BY <1>0, <1>7, <2>1, <2>2 DEF DecayState, Times
<1>9. /\ s.decayMap = later /\ s.refs = decay.refs /\ s.toRelease = decay.toRelease
      /\ s.parent = decay.parent /\ s.state = decay.state /\ s.stamp = decay.stamp
      /\ s.duration = decay.duration /\ s.stage = decay.stage /\ s.owed = decay.owed /\ s.worn = decay.worn
  BY <1>0 DEF DecayState
<1>10. Listing(s) \cap B = {} /\ Listing(decay) = Listing(s) \cup B
  <2>1. Listing(s) = {x[2] : x \in later} /\ Listing(decay) = {x[2] : x \in decay.decayMap}
    BY <1>9 DEF Listing
  <2>2. \A x \in decay.decayMap : x \in later <=> x \notin due
    BY DEF due
  <2>3. due \subseteq decay.decayMap /\ B = {x[2] : x \in due}
    BY DEF due
  <2>4. Listing(s) \cap B = {}
    BY <1>2, <1>7, <2>1, <2>2, <2>3
  <2>5. Listing(decay) = Listing(s) \cup B
    BY <1>7, <2>1, <2>2, <2>3
  <2> QED BY <2>4, <2>5
<1>11. \A j : /\ (isRemoved(s, j) <=> isRemoved(decay, j)) /\ (canDecay(s, j) <=> canDecay(decay, j))
              /\ One(Linked(s, j)) = One(Linked(decay, j)) /\ TimeLeft(s, j, now) = TimeLeft(decay, j, now)
  BY <1>9 DEF isRemoved, canDecay, Linked, TimeLeft
<1>12. Counted(s, InHand(B))
  <2> SUFFICES ASSUME NEW j \in Perishables
               PROVE  s.refs[j] = s.toRelease[j] + One(Linked(s, j)) + One(j \in Listing(s)) + InHand(B)[j]
    BY DEF Counted
  <2>1. decay.refs[j] = decay.toRelease[j] + One(Linked(decay, j)) + One(j \in Listing(decay)) + 0
    BY <1>0 DEF Counted, NoExtra
  <2>2. decay.toRelease[j] \in Nat /\ One(Linked(decay, j)) \in Nat
    BY <1>0 DEF DecayState, One
  <2>3. InHand(B)[j] = One(j \in B)
    BY DEF InHand
  <2>4. /\ j \in B => j \in Listing(decay) /\ j \notin Listing(s)
        /\ j \notin B => (j \in Listing(decay) <=> j \in Listing(s))
    <3> HIDE DEF Listing
    <3> QED BY <1>10
  <2>5. s.refs[j] = decay.refs[j] /\ s.toRelease[j] = decay.toRelease[j] /\ One(Linked(s, j)) = One(Linked(decay, j))
    BY <1>9, <1>11
  <2>6. CASE j \in B
    <3>1. One(j \in Listing(decay)) = 1 /\ One(j \in Listing(s)) = 0 /\ One(j \in B) = 1
      BY <2>4, <2>6 DEF One
    <3> QED BY <2>1, <2>2, <2>3, <2>5, <3>1
  <2>7. CASE j \notin B
    <3>1. One(j \in Listing(decay)) = One(j \in Listing(s)) /\ One(j \in B) = 0
      BY <2>4, <2>7 DEF One
    <3> QED BY <2>1, <2>2, <2>3, <2>5, <3>1
  <2> QED BY <2>6, <2>7
<1>13. Rooted(s)
  BY <1>0, <1>9 DEF Rooted, Shallow
<1>14. Keyed(s, B)
  <2>1. \A x \in later : x[2] \in Listing(s)
    BY <1>9 DEF Listing
  <2> QED BY <1>0, <1>7, <1>9, <1>10, <2>1 DEF Keyed
<1>15. ASSUME NEW i \in B
       PROVE  decay.owed[i] = 0 /\ decay.state[i] = "true" /\ decay.stamp[i] \in 0..now
  <2>1. PICK x \in decay.decayMap : Due(x[1]) /\ x[2] = i
    OBVIOUS
  <2>2. decay.stamp[i] = x[1] /\ x[1] \in Nat /\ x[1] <= now /\ i \in Listing(decay) /\ i \in Perishables
    BY <1>1, <2>1 DEF Due
  <2>3. canDecay(decay, i) /\ decay.state[i] = "true"
    BY <1>0, <2>2 DEF Able
  <2>4. TimeLeft(decay, i, now) = decay.owed[i]
    BY <1>0, <2>2, <2>3 DEF Owing, canDecay
  <2>5. TimeLeft(decay, i, now) = 0
    BY <2>2, <2>3 DEF TimeLeft
  <2> QED BY <1>0, <2>2, <2>3, <2>4, <2>5
<1>16. Spent(s, B, now)
  BY <1>9, <1>15 DEF Spent
<1>17. Owing(s, B, now)
  <2> SUFFICES ASSUME NEW j \in Perishables \ B, s.stage[j] # Plain
               PROVE  IF j \in Listing(s) THEN TimeLeft(s, j, now) = s.owed[j]
                      ELSE isRemoved(s, j) \/ s.duration[j] = s.owed[j]
    BY DEF Owing
  <2>1. IF j \in Listing(decay) THEN TimeLeft(decay, j, now) = decay.owed[j]
        ELSE isRemoved(decay, j) \/ decay.duration[j] = decay.owed[j]
    BY <1>0, <1>9 DEF Owing
  <2> QED BY <1>9, <1>10, <1>11, <2>1
<1>18. Able(s, {})
  BY <1>0, <1>9, <1>10, <1>11 DEF Able
<1> QED BY <1>3, <1>6, <1>8, <1>9, <1>12, <1>13, <1>14, <1>15, <1>16, <1>17, <1>18 DEF Kept

LEMMA DecayedIs == ASSUME NEW s, NEW q PROVE FoldLeft(decayOne, s, q) = Decayed(q, s)
BY DEF FoldLeft, MapThenFoldSet, Decayed, DecayRun

\* The event for what is left in decayMap.
LEMMA RescheduledKeeps ==
    ASSUME now \in Nat, NEW r, NEW later, NEW K \in SUBSET Nat, NEW s \in Rescheduled(r, later),
           later = {} => K = {}, later # {} => K = {FirstKey(later)} /\ FirstKey(later) \in Nat \ {0},
           Kept(r, NoExtra, {}, {}, now), Able(r, {}), Timely(r, K)
    PROVE  Kept(s, NoExtra, {}, {}, now) /\ Able(s, {}) /\ Timely(s, {}) /\ s.stage = r.stage
<1>0. r \in DecayState
  BY DEF Kept
<1>1. CASE later = {}
  BY <1>1 DEF Rescheduled
<1>2. CASE later # {} /\ FirstKey(later) \notin r.erased
  <2> DEFINE it == FirstKey(later)
  <2>1. s = addEvent(r, it) /\ it \in Nat \ {0}
    BY <1>2 DEF Rescheduled
  <2>2. K = {it}
    BY <1>2
  <2> HIDE DEF it
  <2>3. /\ s \in DecayState /\ SameTimes(r, s) /\ (r.full => s.full)
        /\ s.full \/ \E e \in EventSlots : s.events[e] = it
        /\ \A e \in EventSlots : r.events[e] # 0 => s.events[e] = r.events[e]
    BY <1>0, <2>1, AddEventIs
  <2>4. SameState(r, s) /\ s.stage = r.stage /\ s.decayMap = r.decayMap /\ s.dangling = r.dangling
    BY <2>3 DEF SameTimes, SameState, SameItems
  <2>5. Kept(s, NoExtra, {}, {}, now) /\ Able(s, {})
    BY <2>3, <2>4, KeptEvents
  <2>6. Timely(s, {})
    <3> SUFFICES ASSUME ~s.full, ~s.dangling, NEW x \in s.decayMap PROVE Served(s, x[1])
      BY DEF Timely, Awaited
    <3>1. x \in r.decayMap /\ x[1] \in Nat
      BY <2>3, <2>4, EntryIs
    <3>2. Served(r, x[1]) \/ it <= x[1]
      BY <2>2, <2>3, <2>4, <3>1 DEF Timely, Awaited
    <3>3. CASE Served(r, x[1])
      <4>1. PICK e \in EventSlots : r.events[e] \in 1..x[1]
        BY <3>3 DEF Served
      <4>2. s.events[e] \in 1..x[1]
        BY <2>3, <4>1
      <4> QED BY <4>2 DEF Served
    <3>4. CASE it <= x[1]
      <4>1. PICK e \in EventSlots : s.events[e] = it
        BY <2>3
      <4>2. s.events[e] \in 1..x[1]
        BY <2>1, <3>1, <3>4, <4>1
      <4> QED BY <4>2 DEF Served
    <3> QED BY <3>2, <3>3, <3>4
  <2> QED BY <2>4, <2>5, <2>6
<1>3. CASE later # {} /\ FirstKey(later) \in r.erased
  <2> DEFINE u == [r EXCEPT !.dangling = TRUE]
  <2>1. PICK t \in now + 1..MaxNow + 1 : s = addEvent(u, t)
    BY <1>3 DEF Rescheduled
  <2>2. t \in Nat \ {0}
    BY DecayConstants
  <2>3. u \in DecayState /\ SameState(r, u) /\ u.dangling = TRUE
    BY <1>0 DEF DecayState, SameState, SameItems
  <2> HIDE DEF u
  <2>4. Kept(u, NoExtra, {}, {}, now) /\ Able(u, {})
    BY <2>3, KeptEvents
  <2>5. s \in DecayState /\ SameTimes(u, s)
    BY <2>1, <2>2, <2>3, AddEventIs
  <2>6. SameState(u, s) /\ s.dangling = TRUE /\ s.stage = r.stage
    BY <2>3, <2>5 DEF SameTimes, SameState, SameItems
  <2>7. Kept(s, NoExtra, {}, {}, now) /\ Able(s, {})
    BY <2>4, <2>5, <2>6, KeptEvents
  <2> QED BY <2>6, <2>7 DEF Timely
<1> QED BY <1>1, <1>2, <1>3

LEMMA CheckDecayKeeps ==
    ASSUME DecayInv, NEW e \in EventSlots, CheckDecay(e) PROVE DecayInv' /\ NeverEarly
<1>0. now \in Nat /\ decay \in DecayState
  BY DecayInvParts
<1>1. PICK q \in TempItems(decay) :
          LET items == [k \in DOMAIN q |-> q[k][2]]
              later == {x \in decay.decayMap : ~Due(x[1])}
              s0    == [decay EXCEPT !.decayMap = later, !.events[e] = 0,
                                     !.eventId = IF @ = e THEN 0 ELSE @]
          IN  \E s \in Rescheduled(FoldLeft(decayOne, s0, items), later) : Becomes(s)
  BY DEF CheckDecay
<1> DEFINE items == [k \in DOMAIN q |-> q[k][2]]
           later == {x \in decay.decayMap : ~Due(x[1])}
           s0 == [decay EXCEPT !.decayMap = later, !.events[e] = 0, !.eventId = IF @ = e THEN 0 ELSE @]
           B == {x[2] : x \in {y \in decay.decayMap : Due(y[1])}}
           K == IF later = {} THEN {} ELSE {FirstKey(later)}
           r == FoldLeft(decayOne, s0, items)
<1>2. PICK s \in Rescheduled(r, later) : Becomes(s)
  BY <1>1
<1>3. /\ B \in SUBSET Perishables /\ Lists(items, B)
      /\ Kept(s0, InHand(B), B, B, now) /\ Able(s0, {}) /\ s0.decayMap = later
      /\ s0.stage = decay.stage /\ \A i \in B : decay.owed[i] = 0
  <2> HIDE DEF items, later, s0, B
  <2> QED BY TakenFacts DEF items, later, s0, B
<1>4. \A x \in later : x[1] \in Nat \ {0}
  <2>1. \A x \in later : x[1] \in Nat /\ x[1] > now
    BY <1>0, EntryIs DEF Due
  <2> QED BY <1>0, <2>1
<1> HIDE DEF items, later, s0, B
<1>5. later # {} => FirstKey(later) \in Nat \ {0} /\ \A x \in later : FirstKey(later) <= x[1]
  <2>1. s0 \in DecayState
    BY <1>3 DEF Kept
  <2> QED BY <1>3, <1>4, <2>1, FirstKeyIs
<1>6. K \in SUBSET Nat /\ Timely(s0, K)
  <2>1. K \in SUBSET Nat
    BY <1>5
  <2>2. \A x \in later : \E k \in K : k <= x[1]
    BY <1>5
  <2> HIDE DEF K
  <2> QED BY <1>3, <2>1, <2>2 DEF Timely, Awaited
<1>7. (later = {} => K = {}) /\ (later # {} => K = {FirstKey(later)})
  OBVIOUS
<1> HIDE DEF K
<1>8. /\ Kept(r, NoExtra, {}, {}, now) /\ Able(r, {}) /\ Timely(r, K)
      /\ \A j \in Perishables : r.stage[j] # s0.stage[j] => j \in B
  <2>1. r = Decayed(items, s0)
    BY DecayedIs
  <2> HIDE DEF r
  <2> QED BY <1>0, <1>3, <1>6, <2>1, BatchKeeps
<1> HIDE DEF r
<1>9. Kept(s, NoExtra, {}, {}, now) /\ Able(s, {}) /\ Timely(s, {}) /\ s.stage = r.stage
  BY <1>0, <1>2, <1>5, <1>6, <1>7, <1>8, RescheduledKeeps
<1>10. DecayInv' /\ \A j \in Perishables : decay'.stage[j] # s.stage[j] => decay'.refs[j] = 0
  BY <1>2, <1>9, EndKeeps
<1>11. NeverEarly
  BY <1>3, <1>8, <1>9, <1>10 DEF NeverEarly
<1> QED BY <1>10, <1>11

LEMMA DecayNextKeeps == DecayInv /\ [DecayNext]_decayVars => DecayInv' /\ (NeverEarly \/ UNCHANGED decayVars)
<1> SUFFICES ASSUME DecayInv, [DecayNext]_decayVars PROVE DecayInv' /\ (NeverEarly \/ UNCHANGED decayVars)
  OBVIOUS
<1>1. ASSUME NEW e \in EventSlots, CheckDecay(e) PROVE DecayInv' /\ NeverEarly
  BY <1>1, CheckDecayKeeps
<1>2. ASSUME NEW i \in Perishables, PutSomewhere(i) PROVE DecayInv' /\ NeverEarly
  BY <1>2, PutSomewhereKeeps
<1>3. ASSUME NEW i \in Perishables, TakeOut(i) PROVE DecayInv' /\ NeverEarly
  BY <1>3, TakeOutKeeps
<1>4. ASSUME NEW i \in Perishables, UseUp(i) PROVE DecayInv' /\ NeverEarly
  BY <1>4, UseUpKeeps
<1>5. ASSUME NEW i \in Perishables, PutOn(i) PROVE DecayInv' /\ NeverEarly
  BY <1>5, PutOnKeeps
<1>6. ASSUME NEW i \in Perishables, TakeOff(i) PROVE DecayInv' /\ NeverEarly
  BY <1>6, TakeOffKeeps
<1>7. ASSUME NEW i \in Perishables, TransformToPlain(i) PROVE DecayInv' /\ NeverEarly
  BY <1>7, TransformToPlainKeeps
<1>8. ASSUME NEW i \in Perishables, NEW d \in NewDurations, SetDuration(i, d) PROVE DecayInv' /\ NeverEarly
  BY <1>8, SetDurationKeeps
<1>9. CASE Cleanup
  BY <1>9, CleanupKeeps
<1>10. CASE Tick
  BY <1>10, TickKeeps
<1>11. CASE UNCHANGED decayVars
  <2>1. decay' = decay /\ now' = now
    BY <1>11 DEF decayVars
  <2>2. DecayInv'
    BY <2>1 DEF DecayInv
  <2> QED BY <1>11, <2>2
<1> QED BY <1>1, <1>2, <1>3, <1>4, <1>5, <1>6, <1>7, <1>8, <1>9, <1>10, <1>11 DEF DecayNext

\* Decay (Decay::startDecay, stopDecay and checkDecay, and the items that come
\* and go meanwhile): decayMap agrees with the attributes and with the exact
\* reference counts of the items and is served by an event in time, and no item
\* changes or vanishes before it has spent its time decaying.
THEOREM DecaySoundHolds == DecaySpec => DecaySound
<1>1. DecayInit => DecayInv
  BY DecayInitKeeps
<1>2. DecayInv /\ [DecayNext]_decayVars => DecayInv'
  BY DecayNextKeeps
<1>3. DecayInv /\ [DecayNext]_decayVars => [NeverEarly]_decayVars
  BY DecayNextKeeps
<1>4. DecaySpec => []DecayInv
  BY <1>1, <1>2, PTL DEF DecaySpec
<1>5. DecaySpec => [][NeverEarly]_decayVars
  BY <1>3, <1>4, PTL DEF DecaySpec
<1>6. DecaySpec => DecayNeverEarly
  BY <1>5 DEF DecayNeverEarly, NeverEarly
<1>7. DecaySpec => []DecayConsistent
  BY <1>4, DecayInvSound, PTL
<1> QED BY <1>6, <1>7 DEF DecaySound
=============================================================================
