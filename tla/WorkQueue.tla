------------------------------ MODULE WorkQueue ------------------------------
(***************************************************************************)
(* What a worker thread with a queue promises its callers, with no mutex,  *)
(* no condition variable and no wake-up protocol in sight: work is taken   *)
(* into the queue while the door is open, is carried out one item at a     *)
(* time from the front of the queue, and an item that waits in front of an *)
(* idle worker is eventually picked up.  Dispatcher and DatabaseTasks are  *)
(* both shown to implement it.                                             *)
(***************************************************************************)
EXTENDS Sequences

CONSTANTS Items,    \* the work items
          LastItem, \* an order to end, put behind all work by the queue's owner
          Nothing   \* stands for "no item in hand"

VARIABLES door,     \* "shut" before start(), then "open", "closed", "ended"
          backlog,  \* the items waiting, front first
          inHand    \* the item being carried out, or Nothing

wqVars == <<door, backlog, inHand>>

WQInit == door = "shut" /\ backlog = <<>> /\ inHand = Nothing

OpenDoor == door = "shut" /\ door' = "open" /\ UNCHANGED <<backlog, inHand>>

\* Nothing new is accepted; what is in the queue stays there.
CloseDoor == door = "open" /\ door' = "closed" /\ UNCHANGED <<backlog, inHand>>

\* The worker is told to end, whatever is left in the queue.
End == door # "ended" /\ door' = "ended" /\ UNCHANGED <<backlog, inHand>>

SubmitBack(i) ==
    /\ door = "open"
    /\ backlog' = Append(backlog, i)
    /\ UNCHANGED <<door, inHand>>

SubmitFront(i) ==
    /\ door = "open"
    /\ backlog' = <<i>> \o backlog
    /\ UNCHANGED <<door, inHand>>

\* The order to end is accepted at a closed door too.
SubmitLast ==
    /\ door \in {"open", "closed"}
    /\ backlog' = Append(backlog, LastItem)
    /\ UNCHANGED <<door, inHand>>

PickUp ==
    /\ inHand = Nothing
    /\ backlog # <<>>
    /\ inHand' = Head(backlog)
    /\ backlog' = Tail(backlog)
    /\ UNCHANGED door

\* The item is finished with; carrying out an order to end ends the worker.
PutDown ==
    /\ inHand # Nothing
    /\ inHand' = Nothing
    /\ door' = IF inHand = LastItem THEN "ended" ELSE door
    /\ UNCHANGED backlog

WQNext ==
    \/ OpenDoor \/ CloseDoor \/ End
    \/ \E i \in Items : SubmitBack(i) \/ SubmitFront(i)
    \/ SubmitLast
    \/ PickUp
    \/ PutDown

WQSafety == WQInit /\ [][WQNext]_wqVars

\* The promise of progress: until the worker is told to end, a waiting item is
\* picked up and an item in hand is finished with.
WQSpec ==
    /\ WQSafety
    /\ WF_wqVars(door # "ended" /\ PickUp)
    /\ WF_wqVars(PutDown)
=============================================================================
