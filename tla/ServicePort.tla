----------------------------- MODULE ServicePort -----------------------------
(***************************************************************************)
(* A port the server listens on (server.cpp).  The network thread runs     *)
(* onAccept() and onStopServer(); open() runs at start-up and, 15 seconds  *)
(* after a failure, as a task of the dispatcher's thread: it is two steps  *)
(* here because the network thread can come in between.                    *)
(***************************************************************************)
EXTENDS Integers

CONSTANT MaxReopens  \* bound on the reopen events at a time

ASSUME ServicePortAssumption == MaxReopens \in Nat \ {0}

VARIABLES acceptor,     \* "none", "open" or "closed"
          accepting,    \* the async_accept(): "none", "waiting", or its result
          pendingStart,
          opening,      \* open() has closed the old acceptor, not yet made a new one
          reopens,      \* events with openAcceptor() in the scheduler
          managed,      \* ServiceManager::acceptors has the port
          stopPosted    \* onStopServer() is posted to the io_service

portVars == <<acceptor, accepting, pendingStart, opening, reopens, managed, stopPosted>>

PortTypeOK ==
    /\ acceptor \in {"none", "open", "closed"}
    /\ accepting \in {"none", "waiting", "done", "failed", "aborted"}
    /\ {pendingStart, opening, managed, stopPosted} \subseteq BOOLEAN
    /\ reopens \in 0..MaxReopens

\* ServiceManager::add() calls open() at once.
PortInit ==
    /\ acceptor = "none" /\ accepting = "none" /\ reopens = 0
    /\ pendingStart = FALSE /\ stopPosted = FALSE
    /\ opening = TRUE /\ managed = TRUE

-----------------------------------------------------------------------------

\* close(); a pending accept ends with operation_aborted.
CloseAcceptor ==
    /\ acceptor' = IF acceptor = "open" THEN "closed" ELSE acceptor
    /\ accepting' = IF acceptor = "open" /\ accepting = "waiting" THEN "aborted" ELSE accepting

\* Fault: a failure to listen is only logged.
RetryLaterNot == UNCHANGED <<pendingStart, reopens>>

RetryLater ==
    /\ reopens < MaxReopens
    /\ pendingStart' = TRUE
    /\ reopens' = reopens + 1

\* The event fires; the weak pointer still leads to the port, which the
\* manager or, once it has dropped it, some connection keeps.
OpenBegins ==
    /\ reopens > 0 /\ ~opening
    /\ CloseAcceptor
    /\ reopens' = reopens - 1
    /\ pendingStart' = FALSE
    /\ opening' = TRUE
    /\ UNCHANGED <<managed, stopPosted>>

\* The weak pointer leads nowhere.
OpenExpired ==
    /\ reopens > 0 /\ ~managed
    /\ reopens' = reopens - 1
    /\ UNCHANGED <<acceptor, accepting, pendingStart, opening, managed, stopPosted>>

OpenSucceeds ==
    /\ opening
    /\ acceptor' = "open" /\ accepting' = "waiting"
    /\ opening' = FALSE
    /\ UNCHANGED <<pendingStart, reopens, managed, stopPosted>>

\* The constructor of the acceptor throws: the address is in use.  Or set_option()
\* does, and the new acceptor listens while nobody accepts.
OpenFails ==
    /\ opening
    /\ opening' = FALSE
    /\ acceptor' \in {acceptor, "open"}
    /\ RetryLater
    /\ UNCHANGED <<accepting, managed, stopPosted>>

\* Somebody connects, or accept(2) fails.
Complete(result) ==
    /\ accepting = "waiting"
    /\ accepting' = result
    /\ UNCHANGED <<acceptor, pendingStart, opening, reopens, managed, stopPosted>>

\* The connection is served or, if the address is banned, closed; there is a
\* service, for the network thread starts when all have been added.  On an
\* acceptor that was closed meanwhile the next accept fails at once.
onAcceptOk ==
    /\ accepting = "done"
    /\ accepting' = IF acceptor = "open" THEN "waiting" ELSE "failed"
    /\ UNCHANGED <<acceptor, pendingStart, opening, reopens, managed, stopPosted>>

onAcceptFailed ==
    /\ accepting = "failed"
    /\ acceptor' = IF ~pendingStart /\ acceptor = "open" THEN "closed" ELSE acceptor
    /\ accepting' = "none"
    /\ IF pendingStart THEN UNCHANGED <<pendingStart, reopens>> ELSE RetryLater
    /\ UNCHANGED <<opening, managed, stopPosted>>

onAcceptAborted ==
    /\ accepting = "aborted"
    /\ accepting' = "none"
    /\ UNCHANGED <<acceptor, pendingStart, opening, reopens, managed, stopPosted>>

\* ServiceManager::stop()
StopPort ==
    /\ managed
    /\ managed' = FALSE /\ stopPosted' = TRUE
    /\ UNCHANGED <<acceptor, accepting, pendingStart, opening, reopens>>

onStopServer ==
    /\ stopPosted
    /\ stopPosted' = FALSE
    /\ CloseAcceptor
    /\ UNCHANGED <<pendingStart, opening, reopens, managed>>

PortNext ==
    \/ OpenBegins \/ OpenExpired \/ OpenSucceeds \/ OpenFails
    \/ \E result \in {"done", "failed"} : Complete(result)
    \/ onAcceptOk \/ onAcceptFailed \/ onAcceptAborted
    \/ StopPort \/ onStopServer

PortSpec == PortInit /\ [][PortNext]_portVars

-----------------------------------------------------------------------------

\* Until the server stops, exactly one thing keeps every port alive, whichever
\* of accepting and opening fails however often: an accept, an open() under
\* way, or one event that will call it (pendingStart says so); never none,
\* which would leave the port deaf for ever, and never two.
PortServed ==
    /\ PortTypeOK
    /\ managed =>
          /\ (IF accepting # "none" THEN 1 ELSE 0) + (IF opening THEN 1 ELSE 0) + reopens = 1
          /\ accepting \in {"waiting", "done"} => acceptor = "open"
          /\ pendingStart <=> reopens > 0
=============================================================================
