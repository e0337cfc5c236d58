------------------------------ MODULE Connection -----------------------------
(***************************************************************************)
(* One client connection (server/network/connection/connection.cpp), from  *)
(* accept to destruction.  The network thread runs the completion handlers *)
(* of boost::asio one at a time; the dispatcher thread sends and closes.   *)
(* Every handler holds connectionLock throughout, so each is one step; the *)
(* exception is accept(protocol), which lets the dispatcher loose on the   *)
(* connection before it sets the state.  A handler may have several        *)
(* outcomes (what arrived, whether an asio call throws): handlers are      *)
(* operators from a connection to the set of connections it may become.    *)
(***************************************************************************)
EXTENDS Naturals, Sequences, FiniteSets

CONSTANTS Messages,  \* output messages
          NameLength \* length of the server name, without the final newline

ASSUME ConnectionAssumption == NameLength \in Nat \ {0, 1}

VARIABLES conn,     \* the Connection object
          accepted, \* messages send() has taken
          wire      \* messages written to the socket completely

vars == <<conn, accepted, wire>>

Timer == SUBSET {"armed", "fired"}  \* "fired": its handler is in asio's queue

Connections ==
    [state     : {"PENDING", "STAGE1", "STAGE2", "GAME", "DISCONNECTED"},
     protocol  : BOOLEAN,     \* Connection::protocol is set
     first     : BOOLEAN,     \* receivedFirst
     name      : BOOLEAN,     \* receivedName
     lastChar  : BOOLEAN,     \* receivedLastChar
     nameTime  : 0..NameLength,            \* serverNameTime
     queue     : Seq(Messages),            \* messageQueue
     reading   : {"no", "header", "body"}, \* outstanding async_read
     writing   : BOOLEAN,                  \* outstanding async_write
     readTimer : Timer, writeTimer : Timer,
     open      : BOOLEAN,     \* socket.is_open()
     forced    : BOOLEAN,     \* closed by force, or by closeAll()
     accepting : BOOLEAN,     \* inside accept(protocol)
     managed   : BOOLEAN,     \* in ConnectionManager::connections
     releases  : {"none", "once", "again"}, \* Protocol::release posted
     alive     : BOOLEAN]     \* not yet destroyed

TypeOK ==
    /\ conn \in Connections
    /\ accepted \in Seq(Messages) /\ wire \in Seq(Messages)

\* ConnectionManager::createConnection(), and async_accept() has succeeded.
Init ==
    /\ conn = [state |-> "PENDING", protocol |-> FALSE, first |-> FALSE,
               name |-> FALSE, lastChar |-> FALSE, nameTime |-> 0,
               queue |-> <<>>, reading |-> "no", writing |-> FALSE,
               readTimer |-> {}, writeTimer |-> {}, open |-> TRUE,
               forced |-> FALSE, accepting |-> FALSE, managed |-> TRUE,
               releases |-> "none", alive |-> TRUE]
    /\ accepted = <<>> /\ wire = <<>>

-----------------------------------------------------------------------------
(* Closing. *)

\* Cancelling a timer cannot recall a handler that is already queued.
Cancelled(timer) == timer \ {"armed"}

closeSocket(c) ==
    IF c.open THEN [c EXCEPT !.open = FALSE,
                             !.readTimer = Cancelled(@), !.writeTimer = Cancelled(@)]
              ELSE c

\* Fault: the socket is closed whatever is queued.
mustCloseAlways(c, force) == TRUE

mustClose(c, force) == c.queue = <<>> \/ force

\* Every close() posts Protocol::release to the dispatcher.
afterRelease(c) ==
    IF ~c.protocol THEN c.releases
    ELSE IF c.releases = "none" THEN "once" ELSE "again"

\* A graceful close leaves the socket to onWriteOperation() while messages are
\* queued.
close(c, force) ==
    LET d == [c EXCEPT !.managed = FALSE, !.state = "DISCONNECTED",
                       !.releases = afterRelease(c), !.forced = @ \/ force]
    IN  IF mustClose(c, force) THEN closeSocket(d) ELSE d

-----------------------------------------------------------------------------
(* Sending. *)

\* Fault: the write timer is not started.
armWriteNever(timer) == timer

armWrite(timer) == timer \cup {"armed"}

\* Starts the write of the message at the front, or closes if asio throws.
internalSend(c) ==
    {[c EXCEPT !.writing = TRUE, !.writeTimer = armWrite(@)], close(c, TRUE)}

\* Fault: an urgent message is put in front of the one being written.
queuedFront(q, m) == <<m>> \o q

queued(q, m) == Append(q, m)

send(c, m) ==
    IF c.state = "DISCONNECTED" THEN {c}
    ELSE LET d == [c EXCEPT !.queue = queued(@, m)]
         IN  IF c.queue = <<>> THEN internalSend(d) ELSE {d}

\* Fault: the next message is not started.
writeNextNever(c) == {c}

\* The queue moves on; a connection closed gracefully is closed when it is empty.
writeNext(c) ==
    IF c.queue # <<>> THEN internalSend(c)
    ELSE IF c.state = "DISCONNECTED" THEN {closeSocket(c)} ELSE {c}

onWriteOperation(c, error) ==
    LET d == [c EXCEPT !.writing = FALSE, !.writeTimer = Cancelled(@),
                       !.queue = Tail(@)]
    IN  IF error THEN {close([d EXCEPT !.queue = <<>>], TRUE)} ELSE writeNext(d)

-----------------------------------------------------------------------------
(* Receiving. *)

\* Starts a read and its timer, or closes if asio throws.
startRead(c, what) ==
    {[c EXCEPT !.reading = what, !.readTimer = @ \cup {"armed"}], close(c, TRUE)}

\* accept(): the next read of the handshake.
accept(c) ==
    startRead([c EXCEPT !.state = IF @ = "PENDING" THEN "STAGE1" ELSE @], "header")

\* accept(protocol), for the port that speaks first: Protocol::onConnect goes to
\* the dispatcher, which may send before the state is set.
acceptProtocol(c) == [c EXCEPT !.protocol = TRUE, !.accepting = TRUE]

acceptProtocolEnd(c) == accept([c EXCEPT !.accepting = FALSE, !.state = "STAGE2"])

\* The character read is the newline, the last one compared.
nameEnds(c) == c.nameTime + 1 = NameLength

\* The server name that a game client sends first, two characters and then one
\* by one, ends with a newline; a client that sends none starts with a packet
\* size below 256.
parseServerName(c) ==
    LET read == [c EXCEPT !.nameTime = @ + 1, !.lastChar = nameEnds(c)]
    IN  {close(c, TRUE)} \cup
        IF ~c.name THEN accept([c EXCEPT !.name = TRUE, !.nameTime = 1])
                   ELSE accept(read)

readBody(c) ==
    LET d == IF c.lastChar /\ c.state = "STAGE2" THEN [c EXCEPT !.state = "GAME"] ELSE c
    IN  {close(d, TRUE)}               \* size 0 or too large
        \cup startRead(d, "body")

\* Packet rate exceeded; handshake; packet size.
parseHeader(c0, error) ==
    LET c == [c0 EXCEPT !.reading = "no", !.readTimer = Cancelled(@)]
    IN  IF error THEN {close(c, TRUE)}
        ELSE IF c.state = "DISCONNECTED" THEN {c}
        ELSE {close(c, FALSE)} \cup
             IF ~c.lastChar /\ c.state = "STAGE2"
             THEN parseServerName(c) \cup
                  (IF c.name THEN {} ELSE readBody([c EXCEPT !.lastChar = TRUE]))
             ELSE readBody(c)

\* What the protocol does with a packet on the network thread: post work to the
\* dispatcher, send a reply, and disconnect with or without one.
received(c) ==
    {c, close(c, FALSE)} \cup
    UNION {{d, close(d, FALSE)} : d \in UNION {send(c, m) : m \in Messages}}

\* The first packet creates the protocol if the port has not; an unknown
\* protocol closes the connection.  The next read is started even if the
\* protocol has just closed the connection.
parsePacket(c0, error) ==
    LET c == [c0 EXCEPT !.reading = "no", !.readTimer = Cancelled(@)]
        first == [c EXCEPT !.first = TRUE]
    IN  IF error THEN {close(c, TRUE)}
        ELSE IF c.state = "DISCONNECTED" THEN {c}
        ELSE (IF c.protocol THEN {} ELSE {close(first, TRUE)}) \cup
             UNION {startRead(d, "header") : d \in received([first EXCEPT !.protocol = TRUE])}

-----------------------------------------------------------------------------
(* Steps. *)

Elements(q) == {q[i] : i \in DOMAIN q}

\* conn becomes one of the outcomes; a message newly queued is logged.  Messages
\* are fresh: each is sent at most once in a behaviour.
Becomes(outcomes) ==
    /\ conn' \in outcomes
    /\ \/ Len(conn'.queue) <= Len(conn.queue) /\ UNCHANGED accepted
       \/ /\ Len(conn'.queue) > Len(conn.queue)
          /\ \E m \in Elements(conn'.queue) \ Elements(accepted) : accepted' = Append(accepted, m)

\* ServicePort::onAccept(): either kind of port, or the address is refused; a
\* closed socket has none.
OnAccept ==
    /\ conn.state = "PENDING" /\ ~conn.accepting
    /\ Becomes({close(conn, TRUE)} \cup
               IF conn.open THEN accept(conn) \cup {acceptProtocol(conn)} ELSE {})
    /\ UNCHANGED wire

OnAcceptEnd ==
    /\ conn.accepting
    /\ Becomes(acceptProtocolEnd(conn))
    /\ UNCHANGED wire

\* A read completes; on a closed socket it completes with an error.
OnRead(error) ==
    /\ conn.reading # "no"
    /\ error \/ conn.open
    /\ Becomes(IF conn.reading = "header" THEN parseHeader(conn, error)
                                          ELSE parsePacket(conn, error))
    /\ UNCHANGED wire

OnWrite ==
    /\ conn.writing /\ conn.open
    /\ Becomes(onWriteOperation(conn, FALSE))
    /\ wire' = Append(wire, Head(conn.queue))

OnWriteError ==
    /\ conn.writing
    /\ conn' \in onWriteOperation(conn, TRUE)
    /\ UNCHANGED <<accepted, wire>>

\* A timer expires: its handler is queued.
ReadTimerExpires ==
    /\ "armed" \in conn.readTimer
    /\ conn' = [conn EXCEPT !.readTimer = {"fired"}]
    /\ UNCHANGED <<accepted, wire>>

WriteTimerExpires ==
    /\ "armed" \in conn.writeTimer
    /\ conn' = [conn EXCEPT !.writeTimer = {"fired"}]
    /\ UNCHANGED <<accepted, wire>>

\* handleTimeout(), which holds the connection only weakly.
HandleTimeout ==
    /\ conn.alive
    /\ \/ "fired" \in conn.readTimer
          /\ Becomes({close([conn EXCEPT !.readTimer = @ \ {"fired"}], TRUE)})
       \/ "fired" \in conn.writeTimer
          /\ Becomes({close([conn EXCEPT !.writeTimer = @ \ {"fired"}], TRUE)})
    /\ UNCHANGED wire

\* Protocol::send() and Protocol::disconnect() on the dispatcher thread; it has
\* a reason to disconnect only after a packet.
DispatcherSends(m) ==
    /\ conn.alive /\ conn.protocol
    /\ Becomes(send(conn, m))
    /\ UNCHANGED wire

DispatcherCloses ==
    /\ conn.alive /\ conn.first /\ conn.protocol
    /\ Becomes({close(conn, FALSE)})
    /\ UNCHANGED wire

\* ConnectionManager::closeAll() when the server goes down.
CloseAll ==
    /\ conn.managed
    /\ conn' = [conn EXCEPT !.open = FALSE, !.managed = FALSE, !.forced = TRUE]
    /\ UNCHANGED <<accepted, wire>>

\* The last shared_ptr is gone: neither the manager nor a handler holds one.
Destroy ==
    /\ conn.alive /\ ~conn.managed /\ conn.reading = "no" /\ ~conn.writing
    /\ conn.state # "PENDING" /\ ~conn.accepting   \* held by the accept handler
    /\ conn' = [closeSocket(conn) EXCEPT !.alive = FALSE]
    /\ UNCHANGED <<accepted, wire>>

Next ==
    \/ OnAccept \/ OnAcceptEnd
    \/ \E error \in BOOLEAN : OnRead(error)
    \/ OnWrite \/ OnWriteError
    \/ ReadTimerExpires \/ WriteTimerExpires \/ HandleTimeout
    \/ \E m \in Messages : DispatcherSends(m)
    \/ DispatcherCloses
    \/ CloseAll
    \/ Destroy

Spec == Init /\ [][Next]_vars

\* Timers expire and queued handlers run; operations on a closed socket end with
\* an error; an object without owners is destroyed.  The client is under no
\* obligation to send or to accept data.
FairSpec ==
    /\ Spec
    /\ WF_vars(ReadTimerExpires) /\ WF_vars(WriteTimerExpires) /\ WF_vars(HandleTimeout)
    /\ WF_vars(~conn.open /\ OnRead(TRUE)) /\ WF_vars(~conn.open /\ OnWriteError)
    /\ WF_vars(OnAcceptEnd) /\ WF_vars(Destroy)

-----------------------------------------------------------------------------
(* Properties. *)

\* The two chains of handlers never break while the connection is open: a write
\* is under way exactly when messages are queued (onWriteOperation() pops the
\* front without looking), and until the connection is disconnected a read, with
\* its timer, is outstanding.
OneReadOneWrite ==
    /\ TypeOK
    /\ conn.writing => conn.queue # <<>>
    /\ conn.open /\ conn.queue # <<>> => conn.writing
    /\ conn.open /\ conn.state \notin {"PENDING", "DISCONNECTED"} =>
           conn.reading # "no" /\ conn.readTimer # {}

\* What reaches the client is what send() accepted, in that order.
InOrder ==
    /\ Len(wire) <= Len(accepted)
    /\ \A i \in DOMAIN wire : wire[i] = accepted[i]

\* A graceful close delivers everything queued before the socket is closed.
GracefulDelivers == ~conn.open /\ ~conn.forced => wire = accepted

\* Once closed in any way, the socket is closed and the object destroyed, even
\* if the client neither reads nor sends, and its protocol has been sent its
\* release().
ClosedMeansGone ==
    conn.state = "DISCONNECTED" ~>
        ~conn.alive /\ ~conn.open /\ (conn.protocol => conn.releases # "none")
=============================================================================
