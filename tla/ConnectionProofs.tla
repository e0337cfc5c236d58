--------------------------- MODULE ConnectionProofs --------------------------
(***************************************************************************)
(* Theorems about one connection, for any set of messages and any length   *)
(* of the server name.  The handlers are operators on the record conn, so  *)
(* what each does to a sound connection is a lemma of its own, without     *)
(* variables; the steps only apply them.  And about the queue in front of  *)
(* the game that a connection may end in, for any number of players and    *)
(* any time: WaitingList.                                                  *)
(***************************************************************************)
EXTENDS Connection, WaitingList, SequenceTheorems, FiniteSetTheorems,
        WellFoundedInduction, TLAPS

-----------------------------------------------------------------------------
(* The inductive invariant. *)

\* Holds of the connection also in the middle of a handler: the write chain is
\* unbroken; only a forced or disconnected connection is closed or unmanaged;
\* the comparison of the server name stops at its end; before the first read
\* nothing is received, and accept(protocol) ends on a connection that nobody
\* but a failing write can have closed.
Sound(c) ==
    /\ c \in Connections
    /\ c.writing => c.queue # <<>>
    /\ c.open /\ c.queue # <<>> => c.writing
    /\ ~c.open \/ ~c.managed => c.forced \/ c.state = "DISCONNECTED"
    /\ ~c.lastChar => c.nameTime < NameLength
    /\ c.state = "PENDING" \/ c.accepting => c.reading = "no" /\ ~c.first
    /\ c.accepting => c.state = "PENDING" \/ c.forced

\* Holds between handlers: the read chain.
Reads(c) ==
    c.open /\ c.state \notin {"PENDING", "DISCONNECTED"} =>
        c.reading # "no" /\ c.readTimer # {}

\* The log: what is written and what is queued is what was accepted; once the
\* socket is closed what is written stays the beginning of it.
Log ==
    /\ conn.open =>
          /\ Len(accepted) = Len(wire) + Len(conn.queue)
          /\ \A i \in 1..Len(conn.queue) : accepted[Len(wire) + i] = conn.queue[i]
    /\ ~conn.open /\ ~conn.forced => wire = accepted
    /\ InOrder
    /\ Elements(conn.queue) \subseteq Elements(accepted)

\* The port has accepted the connection.
Past(c) == ~c.accepting /\ c.state # "PENDING"

\* What every handler respects: a socket is closed for good, by force or when
\* nothing is queued.
Follows(c, d) ==
    /\ d.open => c.open
    /\ c.forced => d.forced
    /\ Past(c) => Past(d)
    /\ ~d.open /\ ~d.forced => ~c.open \/ d.queue = <<>>

\* A handler that sends nothing, or possibly one message.
Keeps(c, d) == Follows(c, d) /\ d.queue = c.queue

Sends(c, d) ==
    /\ Follows(c, d)
    /\ \/ d.queue = c.queue
       \/ c.state # "DISCONNECTED" /\ \E m \in Messages : d.queue = Append(c.queue, m)

IInv == TypeOK /\ Sound(conn) /\ Reads(conn) /\ Log

-----------------------------------------------------------------------------
(* Closing. *)

LEMMA CloseSocketDoes ==
    ASSUME NEW c \in Connections
    PROVE  LET d == closeSocket(c) IN
           /\ d \in Connections /\ d.open = FALSE
           /\ d.state = c.state /\ d.managed = c.managed /\ d.queue = c.queue
           /\ d.writing = c.writing /\ d.reading = c.reading /\ d.first = c.first
           /\ d.accepting = c.accepting /\ d.lastChar = c.lastChar
           /\ d.nameTime = c.nameTime /\ d.forced = c.forced
<1> DEFINE d == [c EXCEPT !.open = FALSE, !.readTimer = Cancelled(@), !.writeTimer = Cancelled(@)]
<1>1. Cancelled(c.readTimer) \in Timer /\ Cancelled(c.writeTimer) \in Timer
  BY DEF Connections, Timer, Cancelled
<1>2. d \in Connections
  BY <1>1 DEF Connections
<1>3. /\ d.open = FALSE
      /\ d.state = c.state /\ d.managed = c.managed /\ d.queue = c.queue
      /\ d.writing = c.writing /\ d.reading = c.reading /\ d.first = c.first
      /\ d.accepting = c.accepting /\ d.lastChar = c.lastChar
      /\ d.nameTime = c.nameTime /\ d.forced = c.forced
  BY DEF Connections
<1> HIDE DEF d
<1>4. c.open \in BOOLEAN
  BY DEF Connections
<1>5. closeSocket(c) = IF c.open THEN d ELSE c
  BY DEF closeSocket, d
<1>6. CASE c.open
  BY <1>2, <1>3, <1>5, <1>6
<1>7. CASE ~c.open
  BY <1>4, <1>5, <1>7
<1>8. QED
  BY <1>6, <1>7

\* A close(), by force wherever it comes.
LEMMA CloseKeeps ==
    ASSUME NEW c \in Connections, NEW force \in BOOLEAN,
           c.writing => c.queue # <<>>,
           force \/ (c.open /\ c.queue # <<>> => c.writing),
           ~c.lastChar => c.nameTime < NameLength,
           c.accepting => c.reading = "no" /\ ~c.first /\ (force \/ c.forced)
    PROVE  LET d == close(c, force)
           IN  Sound(d) /\ Reads(d) /\ Keeps(c, d) /\ (force => ~d.open /\ d.forced)
<1> DEFINE d == close(c, force)
<1> DEFINE e == [c EXCEPT !.managed = FALSE, !.state = "DISCONNECTED",
                          !.releases = afterRelease(c), !.forced = @ \/ force]
<1>1. afterRelease(c) \in {"none", "once", "again"}
  BY DEF afterRelease, Connections
<1>2. e \in Connections
  BY <1>1 DEF Connections
<1>3. /\ e.state = "DISCONNECTED" /\ e.managed = FALSE
      /\ e.queue = c.queue /\ e.writing = c.writing /\ e.reading = c.reading
      /\ e.first = c.first /\ e.accepting = c.accepting
      /\ e.lastChar = c.lastChar /\ e.nameTime = c.nameTime
      /\ c.forced \/ force => e.forced
      /\ e.open = c.open /\ (e.forced => c.forced \/ force)
  BY DEF Connections
<1> HIDE DEF e
<1>4. close(c, force) = IF c.queue = <<>> \/ force THEN closeSocket(e) ELSE e
  BY DEF close, mustClose, e
<1>5. c.open \in BOOLEAN
  BY DEF Connections
<1>6. /\ d \in Connections /\ d.state = "DISCONNECTED" /\ d.managed = FALSE
      /\ d.queue = c.queue /\ d.writing = c.writing /\ d.reading = c.reading
      /\ d.first = c.first /\ d.accepting = c.accepting
      /\ d.lastChar = c.lastChar /\ d.nameTime = c.nameTime
      /\ c.forced \/ force => d.forced
      /\ d.open => c.open /\ c.queue # <<>> /\ ~force
      /\ c.open /\ c.queue # <<>> /\ ~force => d.open
  <2>1. CASE c.queue = <<>> \/ force
    <3>1. d = closeSocket(e)
      BY <1>4, <2>1
    <3>2. ~(c.open /\ c.queue # <<>> /\ ~force)
      BY <2>1
    <3>3. /\ closeSocket(e) \in Connections /\ closeSocket(e).open = FALSE
          /\ closeSocket(e).state = e.state /\ closeSocket(e).managed = e.managed
          /\ closeSocket(e).queue = e.queue /\ closeSocket(e).writing = e.writing
          /\ closeSocket(e).reading = e.reading /\ closeSocket(e).first = e.first
          /\ closeSocket(e).accepting = e.accepting
          /\ closeSocket(e).lastChar = e.lastChar
          /\ closeSocket(e).nameTime = e.nameTime /\ closeSocket(e).forced = e.forced
      BY <1>2, CloseSocketDoes
    <3> HIDE DEF d
    <3>4. QED
      BY <1>3, <3>1, <3>2, <3>3
  <2>2. CASE ~(c.queue = <<>> \/ force)
    BY <1>2, <1>3, <1>4, <1>5, <2>2
  <2>3. QED
    BY <2>1, <2>2
<1> HIDE DEF d
<1>7. Sound(d)
  BY <1>6 DEF Sound
<1>8. Reads(d)
  BY <1>6 DEF Reads
<1>9. Keeps(c, d)
  BY <1>6 DEF Keeps, Follows, Past
<1>10. QED
  BY <1>6, <1>7, <1>8, <1>9 DEF d

\* A close() after the connection was accepted.
LEMMA ClosePastKeeps ==
    ASSUME NEW c, Sound(c), Past(c), NEW d, d = close(c, TRUE) \/ d = close(c, FALSE)
    PROVE  Sound(d) /\ Reads(d) /\ Keeps(c, d)
<1>1. CASE d = close(c, TRUE)
  BY <1>1, CloseKeeps DEF Sound, Past
<1>2. CASE d = close(c, FALSE)
  <2>1. /\ c \in Connections /\ (c.writing => c.queue # <<>>) /\ ~c.accepting
        /\ c.open /\ c.queue # <<>> => c.writing
        /\ ~c.lastChar => c.nameTime < NameLength
    BY DEF Sound, Past
  <2>2. FALSE \in BOOLEAN
    OBVIOUS
  <2>3. QED
    BY <1>2, <2>1, <2>2, CloseKeeps
<1>3. QED
  BY <1>1, <1>2

-----------------------------------------------------------------------------
(* Receiving. *)

LEMMA StartReadKeeps ==
    ASSUME NEW c, Sound(c), Past(c), NEW what \in {"header", "body"},
           NEW d \in startRead(c, what)
    PROVE  Sound(d) /\ Reads(d) /\ Keeps(c, d)
<1>1. CASE d = close(c, TRUE)
  BY <1>1, CloseKeeps DEF Sound
<1>2. CASE d = [c EXCEPT !.reading = what, !.readTimer = @ \cup {"armed"}]
  <2>1. c \in Connections /\ c.readTimer \cup {"armed"} \in Timer
    BY DEF Sound, Connections, Timer
  <2>2. d \in Connections
    BY <1>2, <2>1 DEF Connections
  <2>3. /\ d.state = c.state /\ d.managed = c.managed /\ d.queue = c.queue
        /\ d.writing = c.writing /\ d.first = c.first /\ d.accepting = c.accepting
        /\ d.lastChar = c.lastChar /\ d.nameTime = c.nameTime /\ d.forced = c.forced
        /\ d.open = c.open /\ d.reading = what /\ "armed" \in d.readTimer
    BY <1>2, <2>1 DEF Connections
  <2>4. Sound(d)
    BY <2>2, <2>3 DEF Sound, Past
  <2>5. QED
    BY <2>3, <2>4 DEF Reads, Keeps, Follows, Past
<1>3. QED
  BY <1>1, <1>2 DEF startRead

LEMMA KeepsTransitive ==
    ASSUME NEW c, NEW d, NEW e, Keeps(c, d), Keeps(d, e)
    PROVE  Keeps(c, e)
BY DEF Keeps, Follows

LEMMA SendsThenKeeps ==
    ASSUME NEW c, NEW d, NEW e, Sends(c, d), Keeps(d, e)
    PROVE  Sends(c, e)
BY DEF Sends, Keeps, Follows

LEMMA KeepsThenSends ==
    ASSUME NEW c, NEW d, NEW e, Keeps(c, d), Sends(d, e), Sound(d), d.state = c.state
    PROVE  Sends(c, e)
BY DEF Sends, Keeps, Follows, Sound

LEMMA AcceptKeeps ==
    ASSUME NEW c, Sound(c), ~c.accepting, NEW d \in accept(c)
    PROVE  Sound(d) /\ Reads(d) /\ Keeps(c, d)
<1> DEFINE e == [c EXCEPT !.state = IF @ = "PENDING" THEN "STAGE1" ELSE @]
<1>1. c \in Connections
  BY DEF Sound
<1>2. e \in Connections
  BY <1>1 DEF Connections
<1>3. /\ e.state = (IF c.state = "PENDING" THEN "STAGE1" ELSE c.state)
      /\ e.managed = c.managed /\ e.queue = c.queue
      /\ e.writing = c.writing /\ e.first = c.first /\ e.accepting = c.accepting
      /\ e.lastChar = c.lastChar /\ e.nameTime = c.nameTime /\ e.forced = c.forced
      /\ e.open = c.open /\ e.reading = c.reading
  BY <1>1 DEF Connections
<1>4. d \in startRead(e, "header")
  BY DEF accept
<1> HIDE DEF e
<1>5. Sound(e) /\ Past(e)
  BY <1>2, <1>3 DEF Sound, Past
<1>6. Keeps(c, e)
  BY <1>3 DEF Keeps, Follows, Past
<1>7. QED
  BY <1>4, <1>5, <1>6, StartReadKeeps, KeepsTransitive

LEMMA AcceptProtocolEndKeeps ==
    ASSUME NEW c, Sound(c), c.accepting, NEW d \in acceptProtocolEnd(c)
    PROVE  Sound(d) /\ Reads(d) /\ Keeps(c, d)
<1> DEFINE e == [c EXCEPT !.accepting = FALSE, !.state = "STAGE2"]
<1>1. c \in Connections
  BY DEF Sound
<1>2. e \in Connections
  BY <1>1 DEF Connections
<1>3. /\ e.state = "STAGE2" /\ e.accepting = FALSE
      /\ e.managed = c.managed /\ e.queue = c.queue
      /\ e.writing = c.writing /\ e.first = c.first
      /\ e.lastChar = c.lastChar /\ e.nameTime = c.nameTime /\ e.forced = c.forced
      /\ e.open = c.open /\ e.reading = c.reading
  BY <1>1 DEF Connections
<1>4. d \in accept(e)
  BY DEF acceptProtocolEnd
<1> HIDE DEF e
<1>5. Sound(e)
  BY <1>2, <1>3 DEF Sound
<1>6. Keeps(c, e)
  BY <1>3 DEF Keeps, Follows, Past
<1>7. QED
  BY <1>3, <1>4, <1>5, <1>6, AcceptKeeps, KeepsTransitive

LEMMA ReadBodyKeeps ==
    ASSUME NEW c, Sound(c), Past(c), NEW d \in readBody(c)
    PROVE  Sound(d) /\ Reads(d) /\ Keeps(c, d)
<1> DEFINE e == IF c.lastChar /\ c.state = "STAGE2" THEN [c EXCEPT !.state = "GAME"] ELSE c
<1>1. c \in Connections
  BY DEF Sound
<1>2. e \in Connections
  BY <1>1 DEF Connections
<1>3. /\ e.state = (IF c.lastChar /\ c.state = "STAGE2" THEN "GAME" ELSE c.state)
      /\ e.managed = c.managed /\ e.queue = c.queue
      /\ e.writing = c.writing /\ e.first = c.first /\ e.accepting = c.accepting
      /\ e.lastChar = c.lastChar /\ e.nameTime = c.nameTime /\ e.forced = c.forced
      /\ e.open = c.open /\ e.reading = c.reading
  BY <1>1 DEF Connections
<1>4. d = close(e, TRUE) \/ d \in startRead(e, "body")
  BY DEF readBody
<1> HIDE DEF e
<1>5. Sound(e) /\ Past(e)
  BY <1>2, <1>3 DEF Sound, Past
<1>6. Keeps(c, e)
  BY <1>3 DEF Keeps, Follows, Past
<1>7. CASE d = close(e, TRUE)
  <2>1. Sound(d) /\ Reads(d) /\ Keeps(e, d)
    BY <1>5, <1>7, CloseKeeps DEF Sound
  <2>2. QED
    BY <1>6, <2>1, KeepsTransitive
<1>8. CASE d \in startRead(e, "body")
  BY <1>5, <1>6, <1>8, StartReadKeeps, KeepsTransitive
<1>9. QED
  BY <1>4, <1>7, <1>8

LEMMA ParseServerNameKeeps ==
    ASSUME NEW c, Sound(c), Past(c), ~c.lastChar, NEW d \in parseServerName(c)
    PROVE  Sound(d) /\ Reads(d) /\ Keeps(c, d)
<1> DEFINE begun == [c EXCEPT !.name = TRUE, !.nameTime = 1]
           read == [c EXCEPT !.nameTime = @ + 1, !.lastChar = nameEnds(c)]
<1>1. c \in Connections /\ NameLength \in Nat /\ NameLength > 1
  BY ConnectionAssumption DEF Sound
<1>2. /\ c.nameTime \in Nat /\ c.nameTime < NameLength
      /\ c.nameTime + 1 \in 0..NameLength /\ 1 \in 0..NameLength
      /\ nameEnds(c) \in BOOLEAN /\ (~nameEnds(c) => c.nameTime + 1 < NameLength)
  BY <1>1 DEF Sound, Connections, nameEnds
<1>3. begun \in Connections /\ read \in Connections
  BY <1>1, <1>2 DEF Connections
<1>4. ASSUME NEW e, e = begun \/ e = read
      PROVE  /\ e.state = c.state /\ e.managed = c.managed /\ e.queue = c.queue
             /\ e.writing = c.writing /\ e.first = c.first /\ e.accepting = c.accepting
             /\ e.forced = c.forced /\ e.open = c.open /\ e.reading = c.reading
  BY <1>1, <1>4 DEF Connections
<1>5. /\ begun.lastChar = c.lastChar /\ begun.nameTime = 1
      /\ read.lastChar = nameEnds(c) /\ read.nameTime = c.nameTime + 1
  BY <1>1 DEF Connections
<1>6. d = close(c, TRUE) \/ d \in accept(begun) \/ d \in accept(read)
  BY DEF parseServerName
<1> HIDE DEF begun, read
<1>7. ASSUME NEW e, e = begun \/ e = read
      PROVE  Sound(e) /\ ~e.accepting /\ Keeps(c, e)
  <2>1. e \in Connections /\ (~e.lastChar => e.nameTime < NameLength)
    BY <1>1, <1>2, <1>3, <1>5, <1>7
  <2>2. /\ e.state = c.state /\ e.managed = c.managed /\ e.queue = c.queue
        /\ e.writing = c.writing /\ e.first = c.first /\ e.accepting = c.accepting
        /\ e.forced = c.forced /\ e.open = c.open /\ e.reading = c.reading
    BY <1>4, <1>7
  <2>3. Sound(e)
    BY <2>1, <2>2 DEF Sound
  <2>4. QED
    BY <2>2, <2>3 DEF Keeps, Follows, Past
<1>8. CASE d = close(c, TRUE)
  BY <1>8, CloseKeeps DEF Sound
<1>9. ASSUME NEW e, e = begun \/ e = read, d \in accept(e)
      PROVE  Sound(d) /\ Reads(d) /\ Keeps(c, d)
  BY <1>7, <1>9, AcceptKeeps, KeepsTransitive
<1>10. QED
  BY <1>6, <1>8, <1>9

\* The first lines of parseHeader() and parsePacket().
ReadDone(c) == [c EXCEPT !.reading = "no", !.readTimer = Cancelled(@)]

LEMMA ReadDoneKeeps ==
    ASSUME NEW c, Sound(c), Past(c)
    PROVE  /\ Sound(ReadDone(c)) /\ Keeps(c, ReadDone(c)) /\ Past(ReadDone(c))
           /\ ReadDone(c).state = c.state
<1> DEFINE d == ReadDone(c)
<1>1. c \in Connections /\ Cancelled(c.readTimer) \in Timer
  BY DEF Sound, Connections, Timer, Cancelled
<1>2. d \in Connections
  BY <1>1 DEF Connections, ReadDone
<1>3. /\ d.state = c.state /\ d.managed = c.managed /\ d.queue = c.queue
      /\ d.writing = c.writing /\ d.first = c.first /\ d.accepting = c.accepting
      /\ d.lastChar = c.lastChar /\ d.nameTime = c.nameTime /\ d.forced = c.forced
      /\ d.open = c.open
  BY <1>1 DEF Connections, ReadDone
<1> HIDE DEF d
<1>4. Sound(d) /\ Past(d)
  BY <1>2, <1>3 DEF Sound, Past
<1>5. QED
  BY <1>3, <1>4 DEF Keeps, Follows, Past, d

LEMMA ParseHeaderKeeps ==
    ASSUME NEW c0, Sound(c0), Past(c0), NEW error \in BOOLEAN, NEW d \in parseHeader(c0, error)
    PROVE  Sound(d) /\ Reads(d) /\ Keeps(c0, d)
<1>1. PICK c : c = ReadDone(c0)
  OBVIOUS
<1>2. Sound(c) /\ Past(c) /\ Keeps(c0, c)
  BY <1>1, ReadDoneKeeps
<1> DEFINE named == [c EXCEPT !.lastChar = TRUE]
<1>3. \/ d = close(c, TRUE) \/ d = close(c, FALSE)
      \/ d = c /\ c.state = "DISCONNECTED"
      \/ ~c.lastChar /\ d \in parseServerName(c)
      \/ d \in readBody(named) \/ d \in readBody(c)
  BY <1>1 DEF parseHeader, ReadDone
<1>4. SUFFICES Sound(d) /\ Reads(d) /\ Keeps(c, d)
  BY <1>2, KeepsTransitive
<1>5. CASE d = close(c, TRUE) \/ d = close(c, FALSE)
  BY <1>2, <1>5, ClosePastKeeps
<1>6. CASE d = c /\ c.state = "DISCONNECTED"
  BY <1>2, <1>6 DEF Reads, Keeps, Follows
<1>7. CASE ~c.lastChar /\ d \in parseServerName(c)
  BY <1>2, <1>7, ParseServerNameKeeps
<1>8. CASE d \in readBody(named)
  <2>1. named \in Connections
    BY <1>2 DEF Sound, Connections
  <2>2. /\ named.state = c.state /\ named.managed = c.managed /\ named.queue = c.queue
        /\ named.writing = c.writing /\ named.first = c.first
        /\ named.accepting = c.accepting /\ named.lastChar = TRUE
        /\ named.forced = c.forced /\ named.open = c.open /\ named.reading = c.reading
    BY <1>2 DEF Sound, Connections
  <2> HIDE DEF named
  <2>3. Sound(named) /\ Past(named)
    BY <1>2, <2>1, <2>2 DEF Sound, Past
  <2>4. Keeps(c, named)
    BY <2>2 DEF Keeps, Follows, Past
  <2>5. QED
    BY <1>8, <2>3, <2>4, ReadBodyKeeps, KeepsTransitive
<1>9. CASE d \in readBody(c)
  BY <1>2, <1>9, ReadBodyKeeps
<1>10. QED
  BY <1>3, <1>5, <1>6, <1>7, <1>8, <1>9

-----------------------------------------------------------------------------
(* Sending. *)

\* Sound, but for a write that is to be started.
Unstarted(c) ==
    /\ c \in Connections
    /\ c.queue # <<>>
    /\ ~c.open \/ ~c.managed => c.forced \/ c.state = "DISCONNECTED"
    /\ ~c.lastChar => c.nameTime < NameLength
    /\ c.state = "PENDING" \/ c.accepting => c.reading = "no" /\ ~c.first
    /\ c.accepting => c.state = "PENDING" \/ c.forced

LEMMA InternalSendKeeps ==
    ASSUME NEW c, Unstarted(c), NEW d \in internalSend(c)
    PROVE  Sound(d) /\ Keeps(c, d) /\ (Reads(c) => Reads(d))
<1>1. CASE d = close(c, TRUE)
  BY <1>1, CloseKeeps DEF Unstarted
<1>2. CASE d = [c EXCEPT !.writing = TRUE, !.writeTimer = armWrite(@)]
  <2>1. c \in Connections /\ armWrite(c.writeTimer) \in Timer
    BY DEF Unstarted, Connections, Timer, armWrite
  <2>2. d \in Connections
    BY <1>2, <2>1 DEF Connections
  <2>3. /\ d.state = c.state /\ d.managed = c.managed /\ d.queue = c.queue
        /\ d.first = c.first /\ d.accepting = c.accepting /\ d.reading = c.reading
        /\ d.lastChar = c.lastChar /\ d.nameTime = c.nameTime /\ d.forced = c.forced
        /\ d.open = c.open /\ d.writing = TRUE /\ d.readTimer = c.readTimer
    BY <1>2, <2>1 DEF Connections
  <2>4. Sound(d)
    BY <2>2, <2>3 DEF Sound, Unstarted
  <2>5. QED
    BY <2>3, <2>4 DEF Reads, Keeps, Follows, Past
<1>3. QED
  BY <1>1, <1>2 DEF internalSend

LEMMA SendSends ==
    ASSUME NEW c, Sound(c), NEW m \in Messages, NEW d \in send(c, m)
    PROVE  Sound(d) /\ Sends(c, d) /\ (Reads(c) => Reads(d))
<1>1. CASE c.state = "DISCONNECTED"
  <2>1. d = c
    BY <1>1 DEF send
  <2>2. QED
    BY <2>1 DEF Sends, Follows
<1>2. CASE c.state # "DISCONNECTED"
  <2> DEFINE e == [c EXCEPT !.queue = queued(@, m)]
  <2>1. c \in Connections /\ c.queue \in Seq(Messages) /\ c.open \in BOOLEAN
    BY DEF Sound, Connections
  <2>2. queued(c.queue, m) \in Seq(Messages) /\ queued(c.queue, m) # <<>>
    BY <2>1 DEF queued
  <2>3. e \in Connections
    BY <2>1, <2>2 DEF Connections
  <2>4. /\ e.state = c.state /\ e.managed = c.managed /\ e.queue = queued(c.queue, m)
        /\ e.first = c.first /\ e.accepting = c.accepting /\ e.reading = c.reading
        /\ e.lastChar = c.lastChar /\ e.nameTime = c.nameTime /\ e.forced = c.forced
        /\ e.open = c.open /\ e.writing = c.writing /\ e.readTimer = c.readTimer
    BY <2>1 DEF Connections
  <2>5. d \in IF c.queue = <<>> THEN internalSend(e) ELSE {e}
    BY <1>2 DEF send
  <2> HIDE DEF e
  <2>6. (Reads(c) => Reads(e)) /\ Follows(c, e)
    BY <1>2, <2>4 DEF Reads, Follows, Past, Sound
  <2>7. Sends(c, e)
    BY <1>2, <2>4, <2>6 DEF Sends, queued
  <2>8. CASE c.queue = <<>>
    <3>1. Unstarted(e)
      BY <2>2, <2>3, <2>4 DEF Unstarted, Sound
    <3>2. Sound(d) /\ Keeps(e, d) /\ (Reads(e) => Reads(d))
      BY <2>5, <2>8, <3>1, InternalSendKeeps
    <3>3. QED
      BY <2>6, <2>7, <3>2, SendsThenKeeps
  <2>9. CASE c.queue # <<>>
    <3>1. Sound(e) /\ d = e
      BY <2>2, <2>3, <2>4, <2>5, <2>9 DEF Sound
    <3>2. QED
      BY <2>6, <2>7, <3>1
  <2>10. QED
    BY <2>8, <2>9
<1>3. QED
  BY <1>1, <1>2

LEMMA ReceivedSends ==
    ASSUME NEW c, Sound(c), Past(c), NEW d \in received(c)
    PROVE  Sound(d) /\ Past(d) /\ Sends(c, d)
<1>1. Sends(c, c)
  BY DEF Sends, Follows
<1>2. ASSUME NEW e, Sound(e), Past(e), Sends(c, e), d = e \/ d = close(e, FALSE)
      PROVE  Sound(d) /\ Past(d) /\ Sends(c, d)
  <2>1. CASE d = e
    BY <1>2, <2>1
  <2>2. CASE d = close(e, FALSE)
    <3>1. Sound(d) /\ Keeps(e, d)
      BY <1>2, <2>2, ClosePastKeeps
    <3>2. QED
      BY <1>2, <3>1, SendsThenKeeps DEF Keeps, Follows
  <2>3. QED
    BY <1>2, <2>1, <2>2
<1>3. CASE d \in {c, close(c, FALSE)}
  BY <1>1, <1>2, <1>3
<1>4. ASSUME NEW m \in Messages, NEW e \in send(c, m), d \in {e, close(e, FALSE)}
      PROVE  Sound(d) /\ Past(d) /\ Sends(c, d)
  <2>1. Sound(e) /\ Sends(c, e) /\ Past(e)
    BY <1>4, SendSends DEF Sends, Follows
  <2>2. QED
    BY <1>2, <1>4, <2>1
<1>5. QED
  BY <1>3, <1>4 DEF received

LEMMA ParsePacketSends ==
    ASSUME NEW c0, Sound(c0), Past(c0), NEW error \in BOOLEAN, NEW d \in parsePacket(c0, error)
    PROVE  Sound(d) /\ Reads(d) /\ Sends(c0, d)
<1>1. PICK c : c = ReadDone(c0)
  OBVIOUS
<1>2. Sound(c) /\ Past(c) /\ Keeps(c0, c) /\ c.state = c0.state
  BY <1>1, ReadDoneKeeps
<1> DEFINE first == [c EXCEPT !.first = TRUE]
           made == [first EXCEPT !.protocol = TRUE]
<1>3. \/ d = close(c, TRUE)
      \/ d = c /\ c.state = "DISCONNECTED"
      \/ d = close(first, TRUE)
      \/ \E e \in received(made) : d \in startRead(e, "header")
  BY <1>1 DEF parsePacket, ReadDone
<1>4. SUFFICES Sound(d) /\ Reads(d) /\ Sends(c, d)
  BY <1>2, KeepsThenSends
<1>5. CASE d = close(c, TRUE)
  BY <1>2, <1>5, ClosePastKeeps DEF Keeps, Sends
<1>6. CASE d = c /\ c.state = "DISCONNECTED"
  BY <1>2, <1>6 DEF Reads, Sends, Follows
<1>7. c \in Connections
  BY <1>2 DEF Sound
<1>8. first \in Connections
  BY <1>7 DEF Connections
<1>9. made \in Connections
  BY <1>8 DEF Connections
<1>10. ASSUME NEW e, e = first \/ e = made
       PROVE  /\ e.state = c.state /\ e.managed = c.managed /\ e.queue = c.queue
              /\ e.writing = c.writing /\ e.accepting = c.accepting
              /\ e.lastChar = c.lastChar /\ e.nameTime = c.nameTime
              /\ e.forced = c.forced /\ e.open = c.open /\ e.reading = c.reading
  BY <1>7, <1>10 DEF Connections
<1> HIDE DEF first, made
<1>11. ASSUME NEW e, e = first \/ e = made
       PROVE  Sound(e) /\ Past(e) /\ Keeps(c, e) /\ e.state = c.state
  <2>1. /\ e \in Connections
        /\ e.state = c.state /\ e.managed = c.managed /\ e.queue = c.queue
        /\ e.writing = c.writing /\ e.accepting = c.accepting
        /\ e.lastChar = c.lastChar /\ e.nameTime = c.nameTime
        /\ e.forced = c.forced /\ e.open = c.open /\ e.reading = c.reading
    BY <1>8, <1>9, <1>10, <1>11
  <2>2. Sound(e) /\ Past(e)
    BY <1>2, <2>1 DEF Sound, Past
  <2>3. QED
    BY <2>1, <2>2 DEF Keeps, Follows
<1>12. CASE d = close(first, TRUE)
  <2>1. Sound(d) /\ Reads(d) /\ Keeps(first, d)
    BY <1>11, <1>12, ClosePastKeeps
  <2>2. QED
    BY <1>11, <2>1, KeepsTransitive DEF Keeps, Sends
<1>13. ASSUME NEW e \in received(made), d \in startRead(e, "header")
       PROVE  Sound(d) /\ Reads(d) /\ Sends(c, d)
  <2>1. Sound(e) /\ Past(e) /\ Sends(made, e)
    BY <1>11, ReceivedSends
  <2>2. Sound(d) /\ Reads(d) /\ Keeps(e, d)
    BY <1>13, <2>1, StartReadKeeps
  <2>3. Sends(made, d)
    BY <2>1, <2>2, SendsThenKeeps
  <2>4. QED
    BY <1>11, <2>2, <2>3, KeepsThenSends
<1>14. QED
  BY <1>3, <1>5, <1>6, <1>12, <1>13

LEMMA WriteDone ==
    ASSUME NEW c, Sound(c), c.writing, NEW d \in onWriteOperation(c, FALSE)
    PROVE  /\ Sound(d) /\ Follows(c, d) /\ (Reads(c) => Reads(d))
           /\ d.queue = Tail(c.queue)
<1> DEFINE e == [c EXCEPT !.writing = FALSE, !.writeTimer = Cancelled(@), !.queue = Tail(@)]
<1>1. /\ c \in Connections /\ Cancelled(c.writeTimer) \in Timer
      /\ c.queue \in Seq(Messages) /\ c.queue # <<>>
  BY DEF Sound, Connections, Timer, Cancelled
<1>2. Tail(c.queue) \in Seq(Messages)
  BY <1>1
<1>3. e \in Connections
  BY <1>1, <1>2 DEF Connections
<1>4. /\ e.state = c.state /\ e.managed = c.managed /\ e.queue = Tail(c.queue)
      /\ e.first = c.first /\ e.accepting = c.accepting /\ e.reading = c.reading
      /\ e.lastChar = c.lastChar /\ e.nameTime = c.nameTime /\ e.forced = c.forced
      /\ e.open = c.open /\ e.writing = FALSE /\ e.readTimer = c.readTimer
  BY <1>1 DEF Connections
<1>5. d \in writeNext(e)
  BY DEF onWriteOperation
<1> HIDE DEF e
<1>6. Follows(c, e) /\ (Reads(c) => Reads(e))
  BY <1>4 DEF Follows, Past, Reads
<1>7. CASE e.queue # <<>>
  <2>1. Unstarted(e)
    BY <1>3, <1>4, <1>7 DEF Sound, Unstarted
  <2>2. Sound(d) /\ Keeps(e, d) /\ (Reads(e) => Reads(d))
    BY <1>5, <1>7, <2>1, InternalSendKeeps DEF writeNext
  <2>3. QED
    BY <1>4, <1>6, <2>2 DEF Keeps, Follows
<1>8. CASE e.queue = <<>>
  <2>1. Sound(e)
    BY <1>3, <1>4, <1>8 DEF Sound
  <2>2. CASE e.state # "DISCONNECTED"
    BY <1>4, <1>5, <1>6, <1>8, <2>1, <2>2 DEF writeNext
  <2>3. CASE e.state = "DISCONNECTED"
    <3>1. d = closeSocket(e)
      BY <1>5, <1>8, <2>3 DEF writeNext
    <3>2. /\ d \in Connections /\ d.open = FALSE
          /\ d.state = e.state /\ d.managed = e.managed /\ d.queue = e.queue
          /\ d.writing = e.writing /\ d.reading = e.reading /\ d.first = e.first
          /\ d.accepting = e.accepting /\ d.lastChar = e.lastChar
          /\ d.nameTime = e.nameTime /\ d.forced = e.forced
      BY <1>3, <3>1, CloseSocketDoes
    <3>3. Sound(d)
      BY <2>1, <2>3, <3>2 DEF Sound
    <3>4. QED
      BY <1>4, <1>6, <1>8, <3>2, <3>3 DEF Reads, Follows, Past
  <2>4. QED
    BY <2>2, <2>3
<1>9. QED
  BY <1>7, <1>8

LEMMA WriteFailed ==
    ASSUME NEW c, Sound(c), c.writing, NEW d \in onWriteOperation(c, TRUE)
    PROVE  Sound(d) /\ Reads(d) /\ ~d.open /\ d.forced /\ d.queue = <<>>
<1> DEFINE w == [c EXCEPT !.writing = FALSE, !.writeTimer = Cancelled(@), !.queue = Tail(@)]
           e == [w EXCEPT !.queue = <<>>]
<1>1. /\ c \in Connections /\ Cancelled(c.writeTimer) \in Timer
      /\ c.queue \in Seq(Messages) /\ c.queue # <<>>
  BY DEF Sound, Connections, Timer, Cancelled
<1>2. Tail(c.queue) \in Seq(Messages) /\ <<>> \in Seq(Messages)
  BY <1>1
<1>3. w \in Connections
  BY <1>1, <1>2 DEF Connections
<1>4. e \in Connections
  BY <1>2, <1>3 DEF Connections
<1>5. /\ e.state = c.state /\ e.managed = c.managed /\ e.queue = <<>>
      /\ e.first = c.first /\ e.accepting = c.accepting /\ e.reading = c.reading
      /\ e.lastChar = c.lastChar /\ e.nameTime = c.nameTime /\ e.forced = c.forced
      /\ e.open = c.open /\ e.writing = FALSE
  BY <1>1 DEF Connections
<1>6. d = close(e, TRUE)
  BY DEF onWriteOperation
<1> HIDE DEF e
<1>7. Sound(d) /\ Reads(d) /\ Keeps(e, d) /\ ~d.open /\ d.forced
  BY <1>4, <1>5, <1>6, CloseKeeps DEF Sound
<1>8. QED
  BY <1>5, <1>7 DEF Keeps

-----------------------------------------------------------------------------
(* The log. *)

LEMMA Appended ==
    ASSUME NEW s \in Seq(Messages), NEW x \in Messages, NEW t, t = Append(s, x)
    PROVE  /\ t \in Seq(Messages) /\ Len(t) = Len(s) + 1 /\ t # <<>>
           /\ t[Len(s) + 1] = x
           /\ \A i \in 1..Len(s) : t[i] = s[i]
OBVIOUS

LEMMA ElementsAppended ==
    ASSUME NEW s \in Seq(Messages), NEW x \in Messages
    PROVE  Elements(Append(s, x)) = Elements(s) \cup {x}
<1>1. /\ DOMAIN s = 1..Len(s) /\ DOMAIN Append(s, x) = 1..(Len(s) + 1)
      /\ Append(s, x)[Len(s) + 1] = x
      /\ \A i \in 1..Len(s) : Append(s, x)[i] = s[i]
  OBVIOUS
<1>2. 1..(Len(s) + 1) = (1..Len(s)) \cup {Len(s) + 1}
  OBVIOUS
<1>3. QED
  BY <1>1, <1>2 DEF Elements

\* The part of Becomes that keeps the log.
Logged ==
    \/ Len(conn'.queue) <= Len(conn.queue) /\ UNCHANGED accepted
    \/ /\ Len(conn'.queue) > Len(conn.queue)
       /\ \E m \in Elements(conn'.queue) \ Elements(accepted) : accepted' = Append(accepted, m)

LEMMA SendsLog ==
    ASSUME TypeOK, Sound(conn), Log, Sends(conn, conn'), conn' \in Connections,
           Logged, UNCHANGED wire
    PROVE  TypeOK' /\ Log'
<1>0. /\ accepted \in Seq(Messages) /\ wire \in Seq(Messages) /\ wire' = wire
      /\ conn.queue \in Seq(Messages) /\ conn'.queue \in Seq(Messages)
      /\ Len(conn.queue) \in Nat /\ Len(accepted) \in Nat /\ Len(wire) \in Nat
      /\ conn'.open => conn.open
      /\ conn.forced => conn'.forced
  BY DEF TypeOK, Connections, Sends, Follows
<1>1. CASE conn'.queue = conn.queue
  <2>1. accepted' = accepted
    BY <1>0, <1>1 DEF Logged
  <2>2. ASSUME ~conn'.open, ~conn'.forced PROVE wire = accepted
    <3>1. ~conn.forced /\ (~conn.open \/ conn.queue = <<>>)
      BY <1>0, <1>1, <2>2 DEF Sends, Follows
    <3>2. CASE ~conn.open
      BY <3>1, <3>2 DEF Log
    <3>3. CASE conn.open
      <4>1. Len(accepted) = Len(wire) /\ \A i \in 1..Len(wire) : wire[i] = accepted[i]
        BY <1>0, <3>1, <3>3 DEF Log, InOrder
      <4>2. QED
        BY <1>0, <4>1, SeqEqual
    <3>4. QED
      BY <3>2, <3>3
  <2>3. QED
    BY <1>0, <1>1, <2>1, <2>2 DEF TypeOK, Log, InOrder
<1>2. ASSUME conn.state # "DISCONNECTED",
             NEW m \in Messages, conn'.queue = Append(conn.queue, m)
      PROVE  TypeOK' /\ Log'
  <2>1. /\ Len(conn'.queue) = Len(conn.queue) + 1 /\ conn'.queue[Len(conn.queue) + 1] = m
        /\ \A i \in 1..Len(conn.queue) : conn'.queue[i] = conn.queue[i]
        /\ conn'.queue # <<>>
    <3>1. PICK s \in Seq(Messages), t \in Seq(Messages) : s = conn.queue /\ t = conn'.queue
      BY <1>0
    <3>2. t = Append(s, m)
      BY <1>2, <3>1
    <3>3. QED
      BY <3>1, <3>2, Appended
  <2>2. Elements(conn'.queue) = Elements(conn.queue) \cup {m}
    BY <1>0, <1>2, ElementsAppended
  <2>3. accepted' = Append(accepted, m)
    BY <1>0, <2>1, <2>2 DEF Logged, Log
  <2>4. /\ accepted' \in Seq(Messages) /\ Len(accepted') = Len(accepted) + 1
        /\ accepted'[Len(accepted) + 1] = m
        /\ \A i \in 1..Len(accepted) : accepted'[i] = accepted[i]
        /\ Elements(accepted') = Elements(accepted) \cup {m}
    BY <1>0, <2>3, ElementsAppended
  <2>5. conn'.open \/ conn'.forced
    BY <1>0, <1>2, <2>1 DEF Sends, Follows, Sound
  <2>6. ASSUME conn'.open
        PROVE  /\ Len(accepted') = Len(wire') + Len(conn'.queue)
               /\ \A i \in 1..Len(conn'.queue) : accepted'[Len(wire') + i] = conn'.queue[i]
    <3>1. /\ Len(accepted) = Len(wire) + Len(conn.queue)
          /\ \A i \in 1..Len(conn.queue) : accepted[Len(wire) + i] = conn.queue[i]
      BY <1>0, <2>6 DEF Log
    <3>2. ASSUME NEW i \in 1..Len(conn'.queue) PROVE accepted'[Len(wire) + i] = conn'.queue[i]
      <4>1. CASE i \in 1..Len(conn.queue)
        <5>1. Len(wire) + i \in 1..Len(accepted)
          BY <1>0, <3>1, <4>1
        <5>2. accepted'[Len(wire) + i] = accepted[Len(wire) + i]
          BY <2>4, <5>1
        <5>3. QED
          BY <2>1, <3>1, <4>1, <5>2
      <4>2. CASE i = Len(conn.queue) + 1
        BY <1>0, <2>1, <2>4, <3>1, <4>2
      <4>3. QED
        BY <1>0, <2>1, <4>1, <4>2
    <3>3. QED
      BY <1>0, <2>1, <2>4, <3>1, <3>2
  <2>7. InOrder'
    <3>1. Len(wire) <= Len(accepted) /\ \A i \in 1..Len(wire) : wire[i] = accepted[i]
      BY <1>0 DEF Log, InOrder
    <3>2. DOMAIN wire' = 1..Len(wire)
      BY <1>0
    <3>3. Len(wire') <= Len(accepted') /\ \A i \in 1..Len(wire) : wire'[i] = accepted'[i]
      BY <1>0, <2>4, <3>1
    <3>4. QED
      BY <3>2, <3>3 DEF InOrder
  <2>8. QED
    BY <1>0, <2>2, <2>4, <2>5, <2>6, <2>7 DEF TypeOK, Log
<1>3. QED
  BY <1>1, <1>2 DEF Sends

\* The front of the queue has reached the wire.
LEMMA WriteLog ==
    ASSUME TypeOK, Sound(conn), Log, conn.open, conn.queue # <<>>, Follows(conn, conn'),
           conn' \in Connections, conn'.queue = Tail(conn.queue),
           accepted' = accepted, wire' = Append(wire, Head(conn.queue))
    PROVE  TypeOK' /\ Log'
<1>0. /\ accepted \in Seq(Messages) /\ wire \in Seq(Messages)
      /\ conn.queue \in Seq(Messages) /\ conn'.queue \in Seq(Messages)
      /\ Len(accepted) \in Nat /\ Len(wire) \in Nat /\ Len(conn.queue) \in Nat
  BY DEF TypeOK, Connections
<1>1. PICK q \in Seq(Messages) : q = conn.queue
  BY <1>0
<1>2. /\ Head(q) \in Messages /\ Head(q) = q[1] /\ Len(q) > 0
      /\ Len(Tail(q)) = Len(q) - 1
      /\ \A i \in 1..Len(q) - 1 : Tail(q)[i] = q[i + 1]
  BY <1>1
<1>3. PICK w : w = wire'
  OBVIOUS
<1>4. /\ w \in Seq(Messages) /\ Len(w) = Len(wire) + 1 /\ w[Len(wire) + 1] = q[1]
      /\ \A i \in 1..Len(wire) : w[i] = wire[i]
  BY <1>0, <1>1, <1>2, <1>3, Appended
<1>5. /\ Len(accepted) = Len(wire) + Len(q)
      /\ \A i \in 1..Len(q) : accepted[Len(wire) + i] = q[i]
      /\ \A i \in 1..Len(wire) : wire[i] = accepted[i]
  BY <1>0, <1>1 DEF Log, InOrder
<1>6. /\ Len(conn'.queue) = Len(q) - 1
      /\ \A i \in 1..Len(q) - 1 : conn'.queue[i] = q[i + 1]
  BY <1>1, <1>2
<1>7. Len(w) <= Len(accepted) /\ \A i \in 1..Len(w) : w[i] = accepted[i]
  <2>1. Len(w) <= Len(accepted)
    BY <1>0, <1>2, <1>4, <1>5
  <2>2. accepted[Len(wire) + 1] = q[1]
    BY <1>0, <1>2, <1>5
  <2>3. ASSUME NEW i \in 1..Len(w) PROVE w[i] = accepted[i]
    <3>1. CASE i = Len(wire) + 1
      BY <1>4, <2>2, <3>1
    <3>2. CASE i \in 1..Len(wire)
      BY <1>4, <1>5, <3>2
    <3>3. QED
      BY <1>0, <1>4, <3>1, <3>2
  <2>4. QED
    BY <2>1, <2>3
<1>8. /\ Len(accepted) = Len(w) + Len(conn'.queue)
      /\ \A i \in 1..Len(conn'.queue) : accepted[Len(w) + i] = conn'.queue[i]
  <2>0. Len(wire) \in Nat /\ Len(q) \in Nat
    BY <1>0, <1>1
  <2>1. Len(accepted) = Len(w) + Len(conn'.queue)
    <3>1. PICK n : n = Len(conn'.queue)
      OBVIOUS
    <3>2. n = Len(q) - 1
      BY <1>6, <3>1
    <3>3. Len(accepted) = Len(w) + n
      BY <2>0, <1>4, <1>5, <3>2
    <3>4. QED
      BY <3>1, <3>3
  <2>2. ASSUME NEW i \in 1..Len(q) - 1 PROVE accepted[Len(w) + i] = conn'.queue[i]
    <3>0. Len(w) = Len(wire) + 1
      BY <1>4
    <3>1. i + 1 \in 1..Len(q) /\ Len(w) + i = Len(wire) + (i + 1)
      BY <2>0, <3>0
    <3>2. QED
      BY <1>5, <1>6, <3>1
  <2>3. QED
    BY <1>6, <2>1, <2>2
<1>9. ASSUME ~conn'.open, ~conn'.forced PROVE w = accepted
  <2>1. PICK r : r = conn'.queue
    OBVIOUS
  <2>2. r = <<>>
    BY <1>9, <2>1, Zenon DEF Follows
  <2>3. Len(r) = 0
    BY <2>2
  <2>4. Len(w) \in Nat /\ Len(accepted) = Len(w) + Len(r)
    BY <1>4, <1>8, <2>1
  <2>5. Len(w) = Len(accepted)
    BY <2>3, <2>4
  <2>6. QED
    BY <1>0, <1>4, <1>7, <2>5, SeqEqual
<1>10. Elements(conn'.queue) \subseteq Elements(accepted)
  <2>1. Elements(q) \subseteq Elements(accepted)
    BY <1>1 DEF Log
  <2>2. ASSUME NEW i \in DOMAIN conn'.queue PROVE conn'.queue[i] \in Elements(q)
    <3>1. i \in 1..Len(q) - 1 /\ i + 1 \in DOMAIN q
      BY <1>0, <1>1, <1>6
    <3>2. QED
      BY <1>6, <3>1 DEF Elements
  <2>3. QED
    BY <2>1, <2>2 DEF Elements
<1>11. InOrder'
  <2>1. DOMAIN w = 1..Len(w)
    BY <1>4
  <2>2. QED
    BY <1>3, <1>7, <2>1 DEF InOrder
<1>12. QED
  BY <1>0, <1>3, <1>4, <1>8, <1>9, <1>10, <1>11 DEF TypeOK, Log

-----------------------------------------------------------------------------
(* The steps. *)

\* Fields of a connection of which nothing but timers and alive have changed.
Same(c, d) ==
    /\ d \in Connections
    /\ d.state = c.state /\ d.managed = c.managed /\ d.queue = c.queue
    /\ d.writing = c.writing /\ d.reading = c.reading /\ d.first = c.first
    /\ d.accepting = c.accepting /\ d.lastChar = c.lastChar
    /\ d.nameTime = c.nameTime /\ d.forced = c.forced

LEMMA NextIInv == IInv /\ [Next]_vars => IInv'
<1> SUFFICES ASSUME IInv, [Next]_vars PROVE IInv'
  OBVIOUS
<1>0. /\ TypeOK /\ Sound(conn) /\ Reads(conn) /\ Log
      /\ conn \in Connections /\ conn.readTimer \in Timer /\ conn.writeTimer \in Timer
      /\ conn.reading # "no" => Past(conn)
      /\ conn.first => Past(conn)
  BY DEF IInv, TypeOK, Connections, Sound, Past
\* What is left to show of a step that writes nothing to the wire.
<1>1. ASSUME Sound(conn'), Reads(conn'), Sends(conn, conn'), Logged, UNCHANGED wire
      PROVE  IInv'
  BY <1>0, <1>1, SendsLog DEF IInv, Sound
<1>2. ASSUME Sound(conn'), Reads(conn'), Keeps(conn, conn'), UNCHANGED <<accepted, wire>>
      PROVE  IInv'
  <2>1. Len(conn'.queue) <= Len(conn.queue)
    <3>1. conn'.queue = conn.queue /\ Len(conn.queue) \in Nat
      BY <1>0, <1>2 DEF Keeps, Connections
    <3>2. QED
      BY <3>1
  <2>2. Sends(conn, conn') /\ Logged
    BY <1>2, <2>1 DEF Keeps, Sends, Logged
  <2>3. QED
    BY <1>1, <1>2, <2>2
<1>3. CASE OnAccept
  <2>1. /\ conn.state = "PENDING" /\ ~conn.accepting /\ Logged /\ UNCHANGED wire
        /\ conn' = close(conn, TRUE) \/ conn' \in accept(conn) \/ conn' = acceptProtocol(conn)
    BY <1>3 DEF OnAccept, Becomes, Logged
  <2>2. CASE conn' = close(conn, TRUE)
    BY <1>0, <1>1, <2>1, <2>2, CloseKeeps DEF Sound, Keeps, Sends
  <2>3. CASE conn' \in accept(conn)
    BY <1>0, <1>1, <2>1, <2>3, AcceptKeeps DEF Keeps, Sends
  <2>4. CASE conn' = acceptProtocol(conn)
    <3>1. conn' \in Connections
      BY <1>0, <2>4 DEF acceptProtocol, Connections
    <3>2. /\ conn'.state = conn.state /\ conn'.managed = conn.managed
          /\ conn'.queue = conn.queue /\ conn'.writing = conn.writing
          /\ conn'.reading = conn.reading /\ conn'.first = conn.first
          /\ conn'.lastChar = conn.lastChar /\ conn'.nameTime = conn.nameTime
          /\ conn'.forced = conn.forced /\ conn'.open = conn.open
      BY <1>0, <2>4 DEF acceptProtocol, Connections
    <3>3. Sound(conn')
      BY <1>0, <2>1, <3>1, <3>2 DEF Sound
    <3>4. Reads(conn') /\ Sends(conn, conn')
      BY <2>1, <3>2 DEF Reads, Sends, Follows, Past
    <3>5. QED
      BY <1>1, <2>1, <3>3, <3>4
  <2>5. QED
    BY <2>1, <2>2, <2>3, <2>4
<1>4. CASE OnAcceptEnd
  <2>1. conn.accepting /\ conn' \in acceptProtocolEnd(conn) /\ Logged /\ UNCHANGED wire
    BY <1>4 DEF OnAcceptEnd, Becomes, Logged
  <2>2. Sound(conn') /\ Reads(conn') /\ Keeps(conn, conn')
    BY <1>0, <2>1, AcceptProtocolEndKeeps
  <2>3. QED
    BY <1>1, <2>1, <2>2 DEF Keeps, Sends
<1>5. ASSUME NEW error \in BOOLEAN, OnRead(error) PROVE IInv'
  <2>1. /\ Past(conn) /\ Logged /\ UNCHANGED wire
        /\ conn' \in parseHeader(conn, error) \/ conn' \in parsePacket(conn, error)
    BY <1>0, <1>5 DEF OnRead, Becomes, Logged
  <2>2. CASE conn' \in parseHeader(conn, error)
    <3>1. Sound(conn') /\ Reads(conn') /\ Keeps(conn, conn')
      BY <1>0, <2>1, <2>2, ParseHeaderKeeps
    <3>2. QED
      BY <1>1, <2>1, <3>1 DEF Keeps, Sends
  <2>3. CASE conn' \in parsePacket(conn, error)
    <3>1. Sound(conn') /\ Reads(conn') /\ Sends(conn, conn')
      BY <1>0, <2>1, <2>3, ParsePacketSends
    <3>2. QED
      BY <1>1, <2>1, <3>1
  <2>4. QED
    BY <2>1, <2>2, <2>3
<1>6. CASE OnWrite
  <2>1. /\ conn.writing /\ conn.open /\ conn' \in onWriteOperation(conn, FALSE) /\ Logged
        /\ wire' = Append(wire, Head(conn.queue)) /\ conn.queue # <<>>
    BY <1>0, <1>6 DEF OnWrite, Becomes, Logged, Sound
  <2>2. Sound(conn') /\ Follows(conn, conn') /\ Reads(conn') /\ conn'.queue = Tail(conn.queue)
    BY <1>0, <2>1, WriteDone
  <2>3. conn.queue \in Seq(Messages)
    BY <1>0 DEF Connections
  <2>4. Len(conn'.queue) <= Len(conn.queue)
    BY <2>1, <2>2, <2>3
  <2>5. ~(Len(conn'.queue) > Len(conn.queue))
    BY <2>1, <2>2, <2>3
  <2>6. accepted' = accepted
    BY <2>1, <2>5 DEF Logged
  <2>7. conn' \in Connections
    BY <2>2 DEF Sound
  <2>8. TypeOK' /\ Log'
    BY <1>0, <2>1, <2>2, <2>6, <2>7, WriteLog
  <2>9. QED
    BY <2>2, <2>8 DEF IInv
<1>7. CASE OnWriteError
  <2>1. Sound(conn') /\ Reads(conn') /\ ~conn'.open /\ conn'.forced /\ conn'.queue = <<>>
    BY <1>0, <1>7, WriteFailed DEF OnWriteError
  <2>2. Elements(<<>>) = {}
    BY DEF Elements
  <2>3. UNCHANGED <<accepted, wire>>
    BY <1>7 DEF OnWriteError
  <2>4. QED
    BY <1>0, <2>1, <2>2, <2>3 DEF IInv, Log, InOrder, TypeOK, Sound
<1>8. CASE ReadTimerExpires
  <2>1. {"fired"} \in Timer /\ conn' = [conn EXCEPT !.readTimer = {"fired"}]
    BY <1>8 DEF Timer, ReadTimerExpires
  <2>2. Same(conn, conn') /\ conn'.open = conn.open /\ conn'.readTimer = {"fired"}
    BY <1>0, <2>1 DEF Same, Connections
  <2>3. Sound(conn') /\ Reads(conn') /\ Keeps(conn, conn')
    BY <1>0, <2>2 DEF Same, Sound, Reads, Keeps, Follows, Past
  <2>4. QED
    BY <1>2, <1>8, <2>3 DEF ReadTimerExpires
<1>9. CASE WriteTimerExpires
  <2>1. {"fired"} \in Timer /\ conn' = [conn EXCEPT !.writeTimer = {"fired"}]
    BY <1>9 DEF Timer, WriteTimerExpires
  <2>2. Same(conn, conn') /\ conn'.open = conn.open /\ conn'.readTimer = conn.readTimer
    BY <1>0, <2>1 DEF Same, Connections
  <2>3. Sound(conn') /\ Reads(conn') /\ Keeps(conn, conn')
    BY <1>0, <2>2 DEF Same, Sound, Reads, Keeps, Follows, Past
  <2>4. QED
    BY <1>2, <1>9, <2>3 DEF WriteTimerExpires
<1>10. CASE HandleTimeout
  <2>1. PICK c \in {[conn EXCEPT !.readTimer = @ \ {"fired"}],
                    [conn EXCEPT !.writeTimer = @ \ {"fired"}]} : conn' = close(c, TRUE)
    BY <1>10 DEF HandleTimeout, Becomes
  <2>2. conn.readTimer \ {"fired"} \in Timer /\ conn.writeTimer \ {"fired"} \in Timer
    BY <1>0 DEF Timer
  <2>3. Same(conn, c) /\ c.open = conn.open
    BY <1>0, <2>1, <2>2 DEF Same, Connections
  <2>4. Sound(c) /\ Keeps(conn, c)
    BY <1>0, <2>3 DEF Same, Sound, Keeps, Follows, Past
  <2>5. Sound(conn') /\ Reads(conn') /\ Keeps(c, conn')
    BY <2>1, <2>4, CloseKeeps DEF Sound
  <2>6. Sends(conn, conn')
    BY <2>4, <2>5, KeepsTransitive DEF Keeps, Sends
  <2>7. Logged /\ UNCHANGED wire
    BY <1>10 DEF HandleTimeout, Becomes, Logged
  <2>8. QED
    BY <1>1, <2>5, <2>6, <2>7
<1>11. ASSUME NEW m \in Messages, DispatcherSends(m) PROVE IInv'
  <2>1. Logged /\ UNCHANGED wire /\ conn' \in send(conn, m)
    BY <1>11 DEF DispatcherSends, Becomes, Logged
  <2>2. Sound(conn') /\ Reads(conn') /\ Sends(conn, conn')
    BY <1>0, <2>1, SendSends
  <2>3. QED
    BY <1>1, <2>1, <2>2
<1>12. CASE DispatcherCloses
  <2>1. Logged /\ UNCHANGED wire /\ conn' = close(conn, FALSE) /\ Past(conn)
    BY <1>0, <1>12 DEF DispatcherCloses, Becomes, Logged
  <2>2. Sound(conn') /\ Reads(conn') /\ Keeps(conn, conn')
    BY <1>0, <2>1, ClosePastKeeps
  <2>3. QED
    BY <1>1, <2>1, <2>2 DEF Keeps, Sends
<1>13. CASE CloseAll
  <2>1. conn' = [conn EXCEPT !.open = FALSE, !.managed = FALSE, !.forced = TRUE]
    BY <1>13 DEF CloseAll
  <2>2. conn' \in Connections
    BY <1>0, <2>1 DEF Connections
  <2>3. /\ conn'.state = conn.state /\ conn'.queue = conn.queue
        /\ conn'.writing = conn.writing /\ conn'.reading = conn.reading
        /\ conn'.first = conn.first /\ conn'.accepting = conn.accepting
        /\ conn'.lastChar = conn.lastChar /\ conn'.nameTime = conn.nameTime
        /\ conn'.forced /\ ~conn'.open
    BY <1>0, <2>1 DEF Connections
  <2>4. Sound(conn') /\ Reads(conn') /\ Keeps(conn, conn')
    BY <1>0, <2>2, <2>3 DEF Sound, Reads, Keeps, Follows, Past
  <2>5. QED
    BY <1>2, <1>13, <2>4 DEF CloseAll
<1>14. CASE Destroy
  <2>1. PICK c : c = closeSocket(conn)
    OBVIOUS
  <2>2. Same(conn, c) /\ c.open = FALSE
    BY <1>0, <2>1, CloseSocketDoes DEF Same
  <2>3. conn' = [c EXCEPT !.alive = FALSE] /\ ~conn.managed /\ ~conn.writing /\ Past(conn)
    BY <1>14, <2>1 DEF Destroy, Past
  <2>4. Same(c, conn') /\ conn'.open = FALSE
    BY <2>2, <2>3 DEF Same, Connections
  <2>5. conn.open => conn.queue = <<>>
    BY <1>0, <2>3 DEF Sound
  <2>6. Sound(conn') /\ Reads(conn') /\ Keeps(conn, conn')
    BY <1>0, <2>2, <2>3, <2>4, <2>5 DEF Same, Sound, Reads, Keeps, Follows, Past
  <2>7. QED
    BY <1>2, <1>14, <2>6 DEF Destroy
<1>15. CASE UNCHANGED vars
  BY <1>0, <1>15 DEF vars, IInv, TypeOK, Log, InOrder
<1>16. QED
  BY <1>3, <1>4, <1>5, <1>6, <1>7, <1>8, <1>9, <1>10, <1>11, <1>12, <1>13, <1>14, <1>15
  DEF Next

LEMMA InitIInv == Init => IInv
<1> SUFFICES ASSUME Init PROVE IInv
  OBVIOUS
<1>1. NameLength \in Nat /\ NameLength > 1
  BY ConnectionAssumption
<1>2. conn \in Connections /\ accepted \in Seq(Messages) /\ wire \in Seq(Messages)
  BY <1>1 DEF Init, Connections, Timer
<1>3. Sound(conn) /\ Reads(conn)
  BY <1>1, <1>2 DEF Init, Sound, Reads
<1>4. Log
  BY DEF Init, Log, InOrder, Elements
<1>5. QED
  BY <1>2, <1>3, <1>4 DEF IInv, TypeOK

LEMMA Invariance == Spec => []IInv
BY InitIInv, NextIInv, PTL DEF Spec

\* While the connection is open a write is under way exactly when messages are
\* queued, so that onWriteOperation() never pops from an empty queue, and until
\* it is disconnected a read is outstanding under a timer.
THEOREM ChainsUnbroken == Spec => []OneReadOneWrite
<1>1. IInv => OneReadOneWrite
  BY DEF IInv, OneReadOneWrite, Sound, Reads
<1>2. QED
  BY <1>1, Invariance, PTL

\* What onWriteOperation() has put on the wire is the beginning of what send()
\* has taken, whoever closes the connection when.
THEOREM WireInOrder == Spec => []InOrder
<1>1. IInv => InOrder
  BY DEF IInv, Log
<1>2. QED
  BY <1>1, Invariance, PTL

\* A connection that was closed with close(false) only has written
\* everything send() took before its socket is closed.
THEOREM GracefulCloseDelivers == Spec => []GracefulDelivers
<1>1. IInv => GracefulDelivers
  BY DEF IInv, Log, GracefulDelivers
<1>2. QED
  BY <1>1, Invariance, PTL

-----------------------------------------------------------------------------
(* The login queue (WaitingList).                                          *)

\* The k-th smallest position exists, and a larger k gives a larger position.
LEMMA KthFacts ==
    ASSUME NEW n \in Nat, NEW K \in SUBSET (1..n)
    PROVE  /\ Cardinality(K) \in Nat /\ Cardinality(K) <= n
           /\ \A k \in 1..Cardinality(K) : Kth(K, k) \in K
           /\ \A k, l \in 1..Cardinality(K) : k < l => Kth(K, k) < Kth(K, l)
<1> DEFINE Below(i) == {j \in K : j <= i}
           Rank(i) == Cardinality(Below(i))
<1>1. IsFiniteSet(1..n) /\ Cardinality(1..n) = n
  BY FS_Interval
<1>2. IsFiniteSet(K) /\ Cardinality(K) \in Nat /\ Cardinality(K) <= n
  BY <1>1, FS_Subset, FS_CardinalityType
<1>0. \A i \in K : i \in Int
  OBVIOUS
<1>3. \A i \in K : IsFiniteSet(Below(i)) /\ Rank(i) \in 1..Cardinality(K)
  <2> SUFFICES ASSUME NEW i \in K PROVE IsFiniteSet(Below(i)) /\ Rank(i) \in 1..Cardinality(K)
    OBVIOUS
  <2>1. Below(i) \subseteq K /\ i \in Below(i)
    BY <1>0
  <2>2. IsFiniteSet(Below(i)) /\ Rank(i) \in Nat /\ Rank(i) <= Cardinality(K)
    BY <2>1, <1>2, FS_Subset, FS_CardinalityType
  <2>3. Rank(i) # 0
    BY <2>1, <2>2, FS_EmptySet
  <2> QED BY <2>2, <2>3, <1>2
<1>4. \A i, j \in K : i < j => Rank(i) < Rank(j)
  <2> SUFFICES ASSUME NEW i \in K, NEW j \in K, i < j PROVE Rank(i) < Rank(j)
    OBVIOUS
  <2>1. Below(i) \subseteq Below(j) /\ j \in Below(j) /\ j \notin Below(i)
    <3>1. \A x \in K : x <= i => x <= j
      BY <1>0
    <3>2. ~(j <= i) /\ j <= j
      BY <1>0
    <3> QED BY <3>1, <3>2
  <2>2. Rank(i) <= Rank(j) /\ Rank(i) # Rank(j)
    BY <2>1, <1>3, FS_Subset
  <2> QED BY <2>2, <1>3, <1>2
<1>5. \A i, j \in K : Rank(i) < Rank(j) => i < j
  BY <1>3, <1>4, <1>2
<1>6. \A r \in 1..Cardinality(K) : \E i \in K : Rank(i) = r
  <2> DEFINE f == [i \in K |-> Rank(i)]
             N == 1..Cardinality(K)
  <2>1. f \in [K -> N]
    BY <1>3
  <2>2. \A i, j \in K : f[i] = f[j] => i = j
    BY <1>3, <1>4, <1>2
  <2>3. f \in Injection(K, N)
    BY <2>1, <2>2, Zenon DEF Injection, IsInjective
  <2>4. IsFiniteSet(N) /\ Cardinality(N) = Cardinality(K)
    BY <1>2, FS_Interval
  <2>5. f \in Surjection(K, N)
    <3> HIDE DEF f, N
    <3> QED BY <2>3, <2>4, FS_Injection
  <2>6. \A r \in N : \E i \in K : f[i] = r
    BY <2>5, Zenon DEF Surjection
  <2>7. \A r \in N : \E i \in K : Rank(i) = r
    BY <2>6
  <2> QED BY <2>7
<1>7. \A k \in 1..Cardinality(K) : Kth(K, k) \in K /\ Rank(Kth(K, k)) = k
  BY <1>6 DEF Kth
<1> QED
  <2>1. ASSUME NEW k \in 1..Cardinality(K), NEW l \in 1..Cardinality(K), k < l
        PROVE  Kth(K, k) < Kth(K, l)
    BY <2>1, <1>7, <1>5
  <2> QED BY <1>2, <1>7, <2>1

-----------------------------------------------------------------------------
\* t is what is left of s when some entries are taken out.
Thins(t, s) ==
    \E at \in [1..Len(t) -> 1..Len(s)] :
        /\ \A k \in 1..Len(t) : t[k] = s[at[k]]
        /\ \A k, l \in 1..Len(t) : k < l => at[k] < at[l]

\* cleanupList() takes entries out and leaves the others in their order.
LEMMA CleanThins ==
    ASSUME NEW S, NEW s \in Seq(S)
    PROVE  LET c == cleanupList(s)
           IN  c \in Seq(S) /\ Len(c) \in Nat /\ Len(c) <= Len(s) /\ Thins(c, s)
<1> DEFINE K == {i \in DOMAIN s : ~Lapsed(s[i])}
           n == Cardinality(K)
           at == [k \in 1..n |-> Kth(K, k)]
           c == cleanupList(s)
<1>1. Len(s) \in Nat /\ DOMAIN s = 1..Len(s) /\ \A i \in 1..Len(s) : s[i] \in S
  OBVIOUS
<1>2. K \in SUBSET (1..Len(s))
  BY <1>1
<1>3. c = [k \in 1..n |-> s[Kth(K, k)]]
  BY DEF cleanupList
<1> HIDE DEF K, c
<1>4. /\ n \in Nat /\ n <= Len(s)
      /\ \A k \in 1..n : Kth(K, k) \in K
      /\ \A k, l \in 1..n : k < l => Kth(K, k) < Kth(K, l)
  BY <1>1, <1>2, KthFacts
<1> HIDE DEF n
<1>5. c \in Seq(S) /\ Len(c) = n
  <2>1. \A k \in 1..n : s[Kth(K, k)] \in S
    BY <1>1, <1>2, <1>4
  <2>2. c \in [1..n -> S]
    BY <2>1, <1>3
  <2>3. c \in Seq(S)
    BY <2>2, <1>4
  <2> QED BY <2>3, <2>2, <1>4
<1>6. at \in [1..n -> 1..Len(s)]
  BY <1>2, <1>4
<1>7. \A k \in 1..n : c[k] = s[at[k]]
  BY <1>3
<1>8. \A k, l \in 1..n : k < l => at[k] < at[l]
  BY <1>4
<1> HIDE DEF at
<1>9. Thins(c, s)
  BY <1>5, <1>6, <1>7, <1>8 DEF Thins
<1> QED BY <1>4, <1>5, <1>9 DEF c

\* Two lists one after the other, each thinned.
LEMMA ThinsConcat ==
    ASSUME NEW S, NEW s1 \in Seq(S), NEW s2 \in Seq(S), NEW t1 \in Seq(S), NEW t2 \in Seq(S),
           Thins(t1, s1), Thins(t2, s2)
    PROVE  Thins(t1 \o t2, s1 \o s2)
<1>1. PICK a \in [1..Len(t1) -> 1..Len(s1)] :
         /\ \A k \in 1..Len(t1) : t1[k] = s1[a[k]]
         /\ \A k, l \in 1..Len(t1) : k < l => a[k] < a[l]
  BY DEF Thins
<1>2. PICK b \in [1..Len(t2) -> 1..Len(s2)] :
         /\ \A k \in 1..Len(t2) : t2[k] = s2[b[k]]
         /\ \A k, l \in 1..Len(t2) : k < l => b[k] < b[l]
  BY DEF Thins
<1> DEFINE t == t1 \o t2
           s == s1 \o s2
           m == Len(t1)
           n == Len(s1)
           at == [k \in 1..Len(t) |-> IF k <= m THEN a[k] ELSE n + b[k - m]]
<1>3. /\ m \in Nat /\ n \in Nat /\ Len(t2) \in Nat /\ Len(s2) \in Nat
      /\ Len(t) = m + Len(t2) /\ Len(s) = n + Len(s2)
      /\ \A i \in 1..Len(t) : t[i] = IF i <= m THEN t1[i] ELSE t2[i - m]
      /\ \A i \in 1..Len(s) : s[i] = IF i <= n THEN s1[i] ELSE s2[i - n]
  BY ConcatProperties
<1> HIDE DEF t, s, m, n
<1>4. \A k \in 1..m : a[k] \in 1..n
  BY <1>1 DEF m, n
<1>5. \A k \in 1..Len(t) : k > m => k - m \in 1..Len(t2) /\ b[k - m] \in 1..Len(s2)
  <2>1. \A k \in 1..Len(t) : k > m => k - m \in 1..Len(t2)
    BY <1>3
  <2>2. \A i \in 1..Len(t2) : b[i] \in 1..Len(s2)
    BY <1>2
  <2> QED BY <2>1, <2>2
<1>6. at \in [1..Len(t) -> 1..Len(s)]
  BY <1>3, <1>4, <1>5
<1>7. ASSUME NEW k \in 1..Len(t) PROVE t[k] = s[at[k]]
  <2>1. CASE k <= m
    <3>1. t[k] = t1[k] /\ at[k] = a[k] /\ k \in 1..m
      BY <2>1, <1>3
    <3>2. s[a[k]] = s1[a[k]] 
      BY <3>1, <1>4, <1>3
    <3> QED BY <3>1, <3>2, <1>1 DEF m
  <2>2. CASE ~(k <= m)
    <3>1. t[k] = t2[k - m] /\ at[k] = n + b[k - m]
      BY <2>2, <1>3
    <3>2. b[k - m] \in 1..Len(s2) /\ k - m \in 1..Len(t2)
      BY <2>2, <1>5, <1>3
    <3>3. s[n + b[k - m]] = s2[b[k - m]]
      <4> DEFINE x == b[k - m]
      <4>1. x \in 1..Len(s2)
        BY <3>2
      <4> HIDE DEF x
      <4>2. s[n + x] = s2[x]
        BY <4>1, <1>3
      <4> QED BY <4>2 DEF x
    <3> QED BY <3>1, <3>2, <3>3, <1>2
  <2> QED BY <2>1, <2>2
<1>8. ASSUME NEW k \in 1..Len(t), NEW l \in 1..Len(t), k < l PROVE at[k] < at[l]
  <2>1. CASE l <= m
    BY <2>1, <1>8, <1>1, <1>3 DEF m
  <2>2. CASE ~(k <= m)
    <3>1. at[k] = n + b[k - m] /\ at[l] = n + b[l - m]
      BY <2>2, <1>8, <1>3
    <3>2. k - m \in 1..Len(t2) /\ l - m \in 1..Len(t2) /\ k - m < l - m
      BY <2>2, <1>8, <1>3
    <3>3. b[k - m] < b[l - m] /\ b[k - m] \in Int /\ b[l - m] \in Int
      BY <3>2, <1>2
    <3> QED BY <3>1, <3>3, <1>3
  <2>3. CASE k <= m /\ ~(l <= m)
    <3>1. at[k] = a[k] /\ at[l] = n + b[l - m]
      BY <2>3
    <3>2. a[k] \in 1..n /\ b[l - m] \in 1..Len(s2)
      BY <2>3, <1>4, <1>5, <1>3
    <3> QED BY <3>1, <3>2, <1>3
  <2> QED BY <2>1, <2>2, <2>3, <1>8, <1>3
<1> HIDE DEF at
<1>9. Thins(t, s)
  BY <1>6, <1>7, <1>8 DEF Thins
<1> QED BY <1>9 DEF t, s

-----------------------------------------------------------------------------
\* No character has two entries.
Unique(s) == \A i, j \in 1..Len(s) : i # j => s[i].guid # s[j].guid

\* RemoveAt() takes one entry out.
LEMMA RemoveAtFacts ==
    ASSUME NEW S, NEW s \in Seq(S), NEW i \in 1..Len(s)
    PROVE  LET t == RemoveAt(s, i)
           IN  /\ t \in Seq(S) /\ Len(t) = Len(s) - 1
               /\ \A k \in 1..Len(t) : t[k] = IF k < i THEN s[k] ELSE s[k + 1]
<1> DEFINE n == Len(s)
           a == SubSeq(s, 1, i - 1)
           b == SubSeq(s, i + 1, n)
           t == RemoveAt(s, i)
<1>1. n \in Nat /\ i \in Int /\ \A k \in 1..n : s[k] \in S
  OBVIOUS
<1>2. a \in Seq(S) /\ Len(a) = i - 1 /\ \A k \in 1..i - 1 : a[k] = s[k]
  <2>1. \A k \in 1..i - 1 : s[k] \in S
    BY <1>1
  <2>2. /\ a \in Seq(S) /\ Len(a) = IF 1 <= i - 1 THEN i - 1 - 1 + 1 ELSE 0
        /\ \A k \in 1..i - 1 - 1 + 1 : a[k] = s[1 + k - 1]
    <3> HIDE DEF n
    <3> QED BY <2>1, <1>1, SubSeqProperties
  <2> QED BY <2>2, <1>1
<1>3. b \in Seq(S) /\ Len(b) = n - i /\ \A k \in 1..n - i : b[k] = s[i + k]
  <2>1. \A k \in i + 1..n : s[k] \in S
    BY <1>1
  <2>2. /\ b \in Seq(S) /\ Len(b) = IF i + 1 <= n THEN n - (i + 1) + 1 ELSE 0
        /\ \A k \in 1..n - (i + 1) + 1 : b[k] = s[(i + 1) + k - 1]
    <3> HIDE DEF n
    <3> QED BY <2>1, <1>1, SubSeqProperties
  <2> QED BY <2>2, <1>1
<1>4. t = a \o b
  BY DEF RemoveAt
<1> HIDE DEF a, b, t
<1>5. /\ t \in Seq(S) /\ Len(t) = i - 1 + (n - i)
      /\ \A k \in 1..Len(t) : t[k] = IF k <= i - 1 THEN a[k] ELSE b[k - (i - 1)]
  <2>1. /\ a \o b \in Seq(S) /\ Len(a \o b) = Len(a) + Len(b)
        /\ \A k \in 1..Len(a) + Len(b) : (a \o b)[k] = IF k <= Len(a) THEN a[k] ELSE b[k - Len(a)]
    BY <1>2, <1>3, ConcatProperties, Zenon
  <2>2. Len(a) = i - 1 /\ Len(b) = n - i
    BY <1>2, <1>3
  <2> HIDE DEF n
  <2> QED BY <2>1, <2>2, <1>4, Zenon
<1>6. Len(t) = n - 1
  BY <1>5, <1>1
<1>7. ASSUME NEW k \in 1..n - 1 PROVE t[k] = IF k < i THEN s[k] ELSE s[k + 1]
  <2>1. CASE k < i
    <3>1. k <= i - 1 /\ k \in 1..i - 1
      BY <2>1, <1>1
    <3> QED BY <3>1, <2>1, <1>5, <1>6, <1>2
  <2>2. CASE ~(k < i)
    <3>1. ~(k <= i - 1) /\ k - (i - 1) \in 1..n - i /\ i + (k - (i - 1)) = k + 1
      BY <2>2, <1>1
    <3>2. t[k] = b[k - (i - 1)]
      BY <3>1, <1>5, <1>6
    <3>3. b[k - (i - 1)] = s[i + (k - (i - 1))]
      BY <3>1, <1>3
    <3> QED BY <3>1, <3>2, <3>3, <2>2
  <2> QED BY <2>1, <2>2
<1> QED BY <1>5, <1>6, <1>7 DEF t

\* Entries that are taken out leave the others apart, and add nobody.
LEMMA ThinsUnique ==
    ASSUME NEW s \in Seq(Wait), NEW t \in Seq(Wait), Thins(t, s)
    PROVE  /\ Unique(s) => Unique(t)
           /\ Guids(t) \subseteq Guids(s)
<1>1. PICK at \in [1..Len(t) -> 1..Len(s)] :
         /\ \A k \in 1..Len(t) : t[k] = s[at[k]]
         /\ \A k, l \in 1..Len(t) : k < l => at[k] < at[l]
  BY DEF Thins
<1>2. \A k, l \in 1..Len(t) : k # l => at[k] # at[l]
  <2>1. \A k \in 1..Len(t) : at[k] \in Int /\ k \in Int
    BY <1>1
  <2>2. \A k, l \in 1..Len(t) : k # l => k < l \/ l < k
    BY <2>1
  <2> QED BY <2>1, <2>2, <1>1
<1>3. Unique(s) => Unique(t)
  BY <1>1, <1>2 DEF Unique
<1>4. \A k \in DOMAIN t : \E i \in DOMAIN s : t[k] = s[i]
  BY <1>1
<1> QED BY <1>3, <1>4 DEF Guids

\* A set of natural numbers has a least one.
LEMMA LeastOf ==
    ASSUME NEW T \in SUBSET Nat, T # {}
    PROVE  \E i \in T : \A j \in T : i <= j
<1>1. PICK i \in T : \A j \in T : ~(<<j, i>> \in OpToRel(<, Nat))
  BY NatLessThanWellFounded, WFMin
<1>2. \A j \in T : ~(j < i)
  BY <1>1 DEF OpToRel
<1> QED BY <1>2

\* findClient(): the place of the client's first entry in the lists, or 0.
LEMMA SlotFacts ==
    ASSUME NEW prio \in Seq(Wait), NEW wait \in Seq(Wait), NEW p
    PROVE  LET all == prio \o wait
               slot == Slot(p, prio, wait)
           IN  /\ slot = 0 => \A i \in 1..Len(all) : all[i].guid # p
               /\ slot # 0 => slot \in 1..Len(all) /\ all[slot].guid = p
               /\ slot \in Nat
<1> DEFINE all == prio \o wait
           at == {i \in DOMAIN all : all[i].guid = p}
           slot == Slot(p, prio, wait)
<1>1. all \in Seq(Wait) /\ DOMAIN all = 1..Len(all) /\ Len(all) \in Nat
  BY ConcatProperties
<1>2. slot = IF at = {} THEN 0 ELSE CHOOSE i \in at : \A j \in at : i <= j
  BY DEF Slot
<1> HIDE DEF all, slot
<1>3. CASE at = {}
  BY <1>1, <1>2, <1>3 DEF all, slot
<1>4. CASE at # {}
  <2>1. at \subseteq 1..Len(all)
    BY <1>1
  <2>2. \E i \in at : \A j \in at : i <= j
    <3> HIDE DEF at
    <3> QED BY <1>1, <1>4, <2>1, LeastOf
  <2>3. slot \in at
    <3> HIDE DEF at
    <3> QED BY <1>2, <1>4, <2>2
  <2>4. slot \in 1..Len(all) /\ all[slot].guid = p /\ slot # 0 /\ slot \in Nat
    BY <2>3, <1>1
  <2> QED BY <2>4 DEF all, slot
<1> QED BY <1>3, <1>4

\* Without duplicates a client has only one place.
LEMMA SlotUnique ==
    ASSUME NEW prio \in Seq(Wait), NEW wait \in Seq(Wait), NEW p,
           Unique(prio \o wait), NEW i \in 1..Len(prio \o wait), (prio \o wait)[i].guid = p
    PROVE  Slot(p, prio, wait) = i
<1> DEFINE all == prio \o wait
           slot == Slot(p, prio, wait)
<1>1. /\ slot = 0 => \A k \in 1..Len(all) : all[k].guid # p
      /\ slot # 0 => slot \in 1..Len(all) /\ all[slot].guid = p
  BY SlotFacts
<1> QED BY <1>1 DEF Unique

\* An entry is unlinked from the list it is in.
LEMMA RemovedConcat ==
    ASSUME NEW S, NEW prio \in Seq(S), NEW wait \in Seq(S), NEW slot \in 1..Len(prio \o wait)
    PROVE  LET P == IF slot <= Len(prio) THEN RemoveAt(prio, slot) ELSE prio
               W == IF slot <= Len(prio) THEN wait ELSE RemoveAt(wait, slot - Len(prio))
               A == prio \o wait
           IN  /\ P \in Seq(S) /\ W \in Seq(S) /\ Len(P \o W) = Len(A) - 1
               /\ \A k \in 1..Len(P \o W) : (P \o W)[k] = IF k < slot THEN A[k] ELSE A[k + 1]
<1> DEFINE P == IF slot <= Len(prio) THEN RemoveAt(prio, slot) ELSE prio
           W == IF slot <= Len(prio) THEN wait ELSE RemoveAt(wait, slot - Len(prio))
           A == prio \o wait
           m == Len(prio)
           n == Len(wait)
<1>1. /\ m \in Nat /\ n \in Nat /\ Len(A) = m + n /\ slot \in 1..m + n
      /\ \A k \in 1..m + n : A[k] = IF k <= m THEN prio[k] ELSE wait[k - m]
  BY ConcatProperties
<1>2. CASE slot <= m
  <2>1. slot \in 1..m
    BY <1>1, <1>2
  <2>2. /\ P \in Seq(S) /\ Len(P) = m - 1
        /\ \A k \in 1..m - 1 : P[k] = IF k < slot THEN prio[k] ELSE prio[k + 1]
    BY <2>1, <1>2, RemoveAtFacts
  <2>3. W \in Seq(S) /\ W = wait
    BY <1>2
  <2> HIDE DEF P, W, A, m, n
  <2>4. /\ Len(P \o W) = m - 1 + n
        /\ \A k \in 1..m - 1 + n : (P \o W)[k] = IF k <= m - 1 THEN P[k] ELSE W[k - (m - 1)]
    <3>1. /\ Len(P \o W) = Len(P) + Len(W)
          /\ \A k \in 1..Len(P) + Len(W) : (P \o W)[k] = IF k <= Len(P) THEN P[k] ELSE W[k - Len(P)]
      BY <2>2, <2>3, ConcatProperties
    <3>2. Len(P) = m - 1 /\ Len(W) = n
      BY <2>2, <2>3 DEF n
    <3> QED BY <3>1, <3>2, Zenon
  <2>5. Len(P \o W) = Len(A) - 1
    BY <2>4, <1>1
  <2>6. ASSUME NEW k \in 1..Len(P \o W) PROVE (P \o W)[k] = IF k < slot THEN A[k] ELSE A[k + 1]
    <3>0. k \in 1..m - 1 + n /\ k + 1 \in 1..m + n /\ k \in 1..m + n
      BY <2>4, <1>1
    <3>1. CASE k <= m - 1
      <4>1. (P \o W)[k] = P[k] /\ k \in 1..m - 1
        BY <3>0, <3>1, <2>4, <1>1
      <4>2. A[k] = prio[k] /\ A[k + 1] = prio[k + 1]
        BY <3>0, <3>1, <1>1
      <4> QED BY <4>1, <4>2, <2>2
    <3>2. CASE ~(k <= m - 1)
      <4>1. (P \o W)[k] = wait[k - (m - 1)]
        BY <3>0, <3>2, <2>4, <2>3
      <4>2. ~(k < slot) /\ ~(k + 1 <= m) /\ k + 1 - m = k - (m - 1)
        BY <3>0, <3>2, <1>1, <2>1
      <4>3. A[k + 1] = wait[k + 1 - m]
        BY <3>0, <4>2, <1>1
      <4> QED BY <4>1, <4>2, <4>3
    <3> QED BY <3>1, <3>2
  <2> QED BY <2>2, <2>3, <2>5, <2>6 DEF P, W, A
<1>3. CASE ~(slot <= m)
  <2>1. slot - m \in 1..n
    BY <1>1, <1>3
  <2>2. /\ W \in Seq(S) /\ Len(W) = n - 1
        /\ \A k \in 1..n - 1 : W[k] = IF k < slot - m THEN wait[k] ELSE wait[k + 1]
    BY <2>1, <1>3, RemoveAtFacts
  <2>3. P \in Seq(S) /\ P = prio
    BY <1>3
  <2> HIDE DEF P, W, A, m, n
  <2>4. /\ Len(P \o W) = m + (n - 1)
        /\ \A k \in 1..m + (n - 1) : (P \o W)[k] = IF k <= m THEN P[k] ELSE W[k - m]
    <3>1. /\ Len(P \o W) = Len(P) + Len(W)
          /\ \A k \in 1..Len(P) + Len(W) : (P \o W)[k] = IF k <= Len(P) THEN P[k] ELSE W[k - Len(P)]
      BY <2>2, <2>3, ConcatProperties
    <3>2. Len(P) = m /\ Len(W) = n - 1
      BY <2>2, <2>3 DEF m
    <3> QED BY <3>1, <3>2, Zenon
  <2>5. Len(P \o W) = Len(A) - 1
    BY <2>4, <1>1
  <2>6. ASSUME NEW k \in 1..Len(P \o W) PROVE (P \o W)[k] = IF k < slot THEN A[k] ELSE A[k + 1]
    <3>0. k \in 1..m + (n - 1) /\ k + 1 \in 1..m + n /\ k \in 1..m + n
      BY <2>4, <1>1
    <3>1. CASE k <= m
      <4>1. (P \o W)[k] = prio[k] /\ k < slot
        BY <3>0, <3>1, <2>4, <1>1, <2>3, <1>3
      <4>2. A[k] = prio[k]
        BY <3>0, <3>1, <1>1
      <4> QED BY <4>1, <4>2
    <3>2. CASE ~(k <= m)
      <4>1. (P \o W)[k] = W[k - m] /\ k - m \in 1..n - 1
        BY <3>0, <3>2, <2>4, <1>1
      <4>2. W[k - m] = IF k - m < slot - m THEN wait[k - m] ELSE wait[k - m + 1]
        BY <4>1, <2>2
      <4>3. /\ ~(k + 1 <= m) /\ k + 1 - m = k - m + 1
            /\ k - m < slot - m <=> k < slot
        BY <3>0, <3>2, <1>1
      <4>4. A[k] = wait[k - m] /\ A[k + 1] = wait[k + 1 - m]
        BY <3>0, <3>2, <4>3, <1>1
      <4> QED BY <4>1, <4>2, <4>3, <4>4
    <3> QED BY <3>1, <3>2
  <2> QED BY <2>2, <2>3, <2>5, <2>6 DEF P, W, A
<1> QED BY <1>2, <1>3

-----------------------------------------------------------------------------
(* Counts of type size_t.                                                  *)

LEMMA PlusFacts ==
    ASSUME NEW a \in 0..Modulus - 1, NEW b \in 0..Modulus - 1
    PROVE  Plus(a, b) = IF a + b < Modulus THEN a + b ELSE a + b - Modulus
<1>0. Modulus \in Nat /\ Modulus > 0
  BY WaitingListAssumption DEF WaitingListAssumption
<1>1. ASSUME NEW x \in 0..Modulus - 1 PROVE x % Modulus = x
  BY <1>0
<1>2. ASSUME NEW x \in Modulus..2 * Modulus - 1 PROVE x % Modulus = x - Modulus
  BY <1>0
<1> QED BY <1>0, <1>1, <1>2 DEF Plus

LEMMA MinusFacts ==
    ASSUME NEW a \in 0..Modulus - 1, NEW b \in 0..Modulus - 1
    PROVE  Minus(a, b) = IF b <= a THEN a - b ELSE a + Modulus - b
<1>0. Modulus \in Nat /\ Modulus > 0
  BY WaitingListAssumption DEF WaitingListAssumption
<1>1. ASSUME NEW x \in 0..Modulus - 1 PROVE x % Modulus = x
  BY <1>0
<1>2. ASSUME NEW x \in Modulus..2 * Modulus - 1 PROVE x % Modulus = x - Modulus
  BY <1>0
<1> QED BY <1>0, <1>1, <1>2 DEF Minus

\* Together the two counts give the number of entries.
Counts(a, b, t) ==
    /\ a \in 0..Modulus - 1 /\ b \in 0..Modulus - 1 /\ t \in Nat
    /\ Plus(a, b) = t

\* x and y entries are taken out of the two lists.
LEMMA CountsLess ==
    ASSUME NEW a, NEW b, NEW t, Counts(a, b, t), NEW x \in Nat, NEW y \in Nat, x + y <= t
    PROVE  Counts(Minus(a, x), Minus(b, y), t - x - y)
<1>0. Modulus \in Nat /\ Modulus > 1
  BY WaitingListAssumption DEF WaitingListAssumption
<1>1. a \in 0..Modulus - 1 /\ b \in 0..Modulus - 1 /\ t \in Nat /\ Plus(a, b) = t
  BY DEF Counts
<1>2. t < Modulus /\ (t = a + b \/ t = a + b - Modulus)
  BY <1>0, <1>1, PlusFacts
<1>3. x \in 0..Modulus - 1 /\ y \in 0..Modulus - 1
  BY <1>0, <1>1, <1>2
<1> DEFINE c == Minus(a, x)
           d == Minus(b, y)
<1>4. c = IF x <= a THEN a - x ELSE a + Modulus - x
  BY <1>1, <1>3, MinusFacts
<1>5. d = IF y <= b THEN b - y ELSE b + Modulus - y
  BY <1>1, <1>3, MinusFacts
<1> HIDE DEF c, d
<1>6. c \in 0..Modulus - 1 /\ d \in 0..Modulus - 1
  BY <1>1, <1>3, <1>4, <1>5, <1>0
<1>7. Plus(c, d) = IF c + d < Modulus THEN c + d ELSE c + d - Modulus
  BY <1>6, PlusFacts
<1>8. Plus(c, d) = t - x - y
  BY <1>1, <1>2, <1>3, <1>4, <1>5, <1>6, <1>7, <1>0
<1>9. t - x - y \in Nat
  BY <1>1
<1> QED BY <1>6, <1>8, <1>9 DEF Counts, c, d

\* One entry is taken out; one is put at the end of either list.
LEMMA CountsStep ==
    ASSUME NEW a, NEW b, NEW t, Counts(a, b, t)
    PROVE  /\ t > 0 => Counts(a, Minus(b, 1), t - 1)
           /\ t + 1 < Modulus => Counts(Plus(a, 1), b, t + 1) /\ Counts(a, Plus(b, 1), t + 1)
<1>0. Modulus \in Nat /\ Modulus > 1
  BY WaitingListAssumption DEF WaitingListAssumption
<1>1. a \in 0..Modulus - 1 /\ b \in 0..Modulus - 1 /\ t \in Nat /\ Plus(a, b) = t
  BY DEF Counts
<1>2. t < Modulus /\ (t = a + b \/ t = a + b - Modulus)
  BY <1>0, <1>1, PlusFacts
<1>3. ASSUME t > 0 PROVE Counts(a, Minus(b, 1), t - 1)
  <2> DEFINE d == Minus(b, 1)
  <2>1. d = IF 1 <= b THEN b - 1 ELSE b + Modulus - 1
    BY <1>0, <1>1, MinusFacts
  <2> HIDE DEF d
  <2>2. d \in 0..Modulus - 1
    BY <2>1, <1>0, <1>1
  <2>3. Plus(a, d) = IF a + d < Modulus THEN a + d ELSE a + d - Modulus
    BY <2>2, <1>1, PlusFacts
  <2>4. Plus(a, d) = t - 1 /\ t - 1 \in Nat
    BY <1>0, <1>1, <1>2, <1>3, <2>1, <2>3
  <2> QED BY <1>1, <2>2, <2>4 DEF d, Counts
<1>4. ASSUME t + 1 < Modulus PROVE Counts(Plus(a, 1), b, t + 1) /\ Counts(a, Plus(b, 1), t + 1)
  <2> DEFINE c == Plus(a, 1)
             d == Plus(b, 1)
  <2>1. /\ c = IF a + 1 < Modulus THEN a + 1 ELSE a + 1 - Modulus
        /\ d = IF b + 1 < Modulus THEN b + 1 ELSE b + 1 - Modulus
    BY <1>0, <1>1, PlusFacts
  <2> HIDE DEF c, d
  <2>2. c \in 0..Modulus - 1 /\ d \in 0..Modulus - 1
    BY <2>1, <1>0, <1>1
  <2>3. /\ Plus(c, b) = IF c + b < Modulus THEN c + b ELSE c + b - Modulus
        /\ Plus(a, d) = IF a + d < Modulus THEN a + d ELSE a + d - Modulus
    BY <2>2, <1>1, PlusFacts
  <2>4. Plus(c, b) = t + 1 /\ Plus(a, d) = t + 1 /\ t + 1 \in Nat
    BY <2>1, <2>3, <1>0, <1>1, <1>2, <1>4
  <2> QED BY <1>1, <2>2, <2>4 DEF c, d, Counts
<1> QED BY <1>3, <1>4

\* There are no more entries than characters.
LEMMA UniqueLen ==
    ASSUME NEW s \in Seq(Wait), Unique(s)
    PROVE  Len(s) <= Cardinality(Players) /\ Cardinality(Players) < Modulus
<1> DEFINE f == [i \in 1..Len(s) |-> s[i].guid]
           I == 1..Len(s)
<1>1. IsFiniteSet(Players) /\ Cardinality(Players) < Modulus
  BY WaitingListAssumption DEF WaitingListAssumption
<1>2. Len(s) \in Nat /\ \A i \in 1..Len(s) : s[i].guid \in Players
  <2>1. Len(s) \in Nat /\ \A i \in 1..Len(s) : s[i] \in Wait
    OBVIOUS
  <2> QED BY <2>1 DEF Wait
<1>3. f \in [I -> Players] /\ \A i, j \in I : f[i] = f[j] => i = j
  BY <1>2 DEF Unique
<1>4. f \in Injection(I, Players)
  BY <1>3, Zenon DEF Injection, IsInjective
<1>5. Cardinality(I) = Len(s)
  BY <1>2, FS_Interval
<1>6. Cardinality(I) <= Cardinality(Players)
  <2> HIDE DEF f, I
  <2> QED BY <1>1, <1>4, FS_Injection
<1> QED BY <1>1, <1>5, <1>6

-----------------------------------------------------------------------------
(* The invariant.                                                          *)

\* Inductive: nobody who always may log in waits.
WaitInv ==
    /\ WaitListSound
    /\ Guids(priorityWaitList \o waitList) \cap AlwaysLogin = {}

\* The lists and counts as clientLogin() sees them once it has cleaned up.
CleanPrio == cleanupList(priorityWaitList)
CleanWait == cleanupList(waitList)
CleanPrioSize == Minus(prioritySize, Len(priorityWaitList) - Len(CleanPrio))
CleanWaitSize == Minus(waitSize, Len(waitList) - Len(CleanWait))

LEMMA Cleaned ==
    ASSUME WaitInv
    PROVE  LET A == CleanPrio \o CleanWait
               all == priorityWaitList \o waitList
           IN  /\ CleanPrio \in Seq(Wait) /\ CleanWait \in Seq(Wait)
               /\ A \in Seq(Wait) /\ Len(A) = Len(CleanPrio) + Len(CleanWait)
               /\ Thins(A, all) /\ Unique(A) /\ Guids(A) \subseteq Guids(all)
               /\ all \in Seq(Wait) /\ Unique(all)
               /\ Counts(CleanPrioSize, CleanWaitSize, Len(A))
<1> DEFINE A == CleanPrio \o CleanWait
           all == priorityWaitList \o waitList
           m == Len(priorityWaitList)
           n == Len(waitList)
<1>1. /\ priorityWaitList \in Seq(Wait) /\ waitList \in Seq(Wait)
      /\ prioritySize \in 0..Modulus - 1 /\ waitSize \in 0..Modulus - 1
      /\ Plus(prioritySize, waitSize) = Len(all)
      /\ \A i, j \in DOMAIN all : i # j => all[i].guid # all[j].guid
  BY DEF WaitInv, WaitListSound, WaitTypeOK
<1>2. all \in Seq(Wait) /\ Len(all) = m + n /\ m \in Nat /\ n \in Nat
  BY <1>1, ConcatProperties
<1>3. Unique(all)
  BY <1>1, <1>2 DEF Unique
<1>4. /\ CleanPrio \in Seq(Wait) /\ Len(CleanPrio) \in 0..m /\ Thins(CleanPrio, priorityWaitList)
      /\ CleanWait \in Seq(Wait) /\ Len(CleanWait) \in 0..n /\ Thins(CleanWait, waitList)
  BY <1>1, <1>2, CleanThins DEF CleanPrio, CleanWait
<1>5. A \in Seq(Wait) /\ Len(A) = Len(CleanPrio) + Len(CleanWait)
  BY <1>4, ConcatProperties
<1>6. Thins(A, all)
  BY <1>1, <1>4, ThinsConcat
<1> HIDE DEF A, all
<1>7. Unique(A) /\ Guids(A) \subseteq Guids(all)
  BY <1>2, <1>3, <1>5, <1>6, ThinsUnique
<1>8. Counts(CleanPrioSize, CleanWaitSize, Len(A))
  <2> DEFINE x == m - Len(CleanPrio)
             y == n - Len(CleanWait)
  <2>1. Counts(prioritySize, waitSize, Len(all))
    BY <1>1, <1>2 DEF Counts
  <2>2. x \in Nat /\ y \in Nat /\ x + y <= Len(all) /\ Len(all) - x - y = Len(A)
    BY <1>2, <1>4, <1>5
  <2>3. CleanPrioSize = Minus(prioritySize, x) /\ CleanWaitSize = Minus(waitSize, y)
    BY DEF CleanPrioSize, CleanWaitSize
  <2> HIDE DEF x, y
  <2>4. Counts(Minus(prioritySize, x), Minus(waitSize, y), Len(all) - x - y)
    BY <2>1, <2>2, CountsLess
  <2> QED BY <2>2, <2>3, <2>4
<1> QED BY <1>2, <1>3, <1>4, <1>5, <1>6, <1>7, <1>8 DEF A, all

\* The new entry of a client has a time-out that fits its type.
LEMMA TimeoutType ==
    ASSUME WaitInv, NEW slot \in Nat
    PROVE  now + getTimeout(slot) \in 0..Modulus - 1
<1>1. now \in 0..MaxTime /\ MaxTime \in Nat /\ Modulus \in Nat /\ Modulus > MaxTime + 200
  BY WaitingListAssumption DEF WaitingListAssumption, WaitInv, WaitListSound, WaitTypeOK
<1>2. getTime(slot) \in {5, 10, 20, 60, 120}
  BY DEF getTime
<1> QED BY <1>1, <1>2 DEF getTimeout

\* An entry of the list at one place renewed.
LEMMA RenewedFacts ==
    ASSUME NEW s \in Seq(Wait), NEW i \in 1..Len(s), NEW slot, now + getTimeout(slot) \in 0..Modulus - 1
    PROVE  LET t == Renewed(s, i, slot)
           IN  t \in Seq(Wait) /\ Len(t) = Len(s) /\ \A k \in 1..Len(s) : t[k].guid = s[k].guid
<1> DEFINE t == Renewed(s, i, slot)
           e == [s[i] EXCEPT !.timeout = now + getTimeout(slot)]
<1>1. Len(s) \in Nat /\ DOMAIN s = 1..Len(s) /\ \A k \in 1..Len(s) : s[k] \in Wait
  OBVIOUS
<1>2. s[i] \in Wait
  BY <1>1
<1>3. e \in Wait /\ e.guid = s[i].guid
  BY <1>2 DEF Wait
<1>4. t = [s EXCEPT ![i] = e]
  BY DEF Renewed
<1> HIDE DEF e, t
<1>5. t \in [1..Len(s) -> Wait] /\ \A k \in 1..Len(s) : t[k] = IF k = i THEN e ELSE s[k]
  BY <1>1, <1>3, <1>4
<1>6. t \in Seq(Wait) /\ Len(t) = Len(s)
  BY <1>5, <1>1
<1> QED BY <1>3, <1>5, <1>6 DEF t

\* An entry renewed in the list it is in.
LEMMA RenewedConcat ==
    ASSUME NEW prio \in Seq(Wait), NEW wait \in Seq(Wait), NEW slot \in 1..Len(prio \o wait),
           now + getTimeout(slot) \in 0..Modulus - 1
    PROVE  LET P == IF slot <= Len(prio) THEN Renewed(prio, slot, slot) ELSE prio
               W == IF slot <= Len(prio) THEN wait ELSE Renewed(wait, slot - Len(prio), slot)
               A == prio \o wait
           IN  /\ P \in Seq(Wait) /\ W \in Seq(Wait) /\ Len(P \o W) = Len(A)
               /\ \A k \in 1..Len(A) : (P \o W)[k].guid = A[k].guid
<1> DEFINE P == IF slot <= Len(prio) THEN Renewed(prio, slot, slot) ELSE prio
           W == IF slot <= Len(prio) THEN wait ELSE Renewed(wait, slot - Len(prio), slot)
           A == prio \o wait
           m == Len(prio)
           n == Len(wait)
<1>1. /\ m \in Nat /\ n \in Nat /\ Len(A) = m + n /\ slot \in 1..m + n
      /\ \A k \in 1..m + n : A[k] = IF k <= m THEN prio[k] ELSE wait[k - m]
  BY ConcatProperties
<1>2. /\ P \in Seq(Wait) /\ Len(P) = m /\ \A k \in 1..m : P[k].guid = prio[k].guid
      /\ W \in Seq(Wait) /\ Len(W) = n /\ \A k \in 1..n : W[k].guid = wait[k].guid
  <2>1. CASE slot <= m
    <3>1. slot \in 1..m
      BY <1>1, <2>1
    <3> QED BY <3>1, <2>1, RenewedFacts
  <2>2. CASE ~(slot <= m)
    <3>1. slot - m \in 1..n
      BY <1>1, <2>2
    <3> QED BY <3>1, <2>2, RenewedFacts
  <2> QED BY <2>1, <2>2
<1> HIDE DEF P, W, A, m, n
<1>3. /\ Len(P \o W) = m + n
      /\ \A k \in 1..m + n : (P \o W)[k] = IF k <= m THEN P[k] ELSE W[k - m]
  <2>1. /\ Len(P \o W) = Len(P) + Len(W)
        /\ \A k \in 1..Len(P) + Len(W) : (P \o W)[k] = IF k <= Len(P) THEN P[k] ELSE W[k - Len(P)]
    BY <1>2, ConcatProperties
  <2>2. Len(P) = m /\ Len(W) = n
    BY <1>2
  <2> QED BY <2>1, <2>2, Zenon
<1>4. ASSUME NEW k \in 1..m + n PROVE (P \o W)[k].guid = A[k].guid
  <2>1. CASE k <= m
    BY <2>1, <1>1, <1>2, <1>3
  <2>2. CASE ~(k <= m)
    <3>1. k - m \in 1..n
      BY <2>2, <1>1
    <3> QED BY <3>1, <2>2, <1>1, <1>2, <1>3
  <2> QED BY <2>1, <2>2
<1> QED BY <1>1, <1>2, <1>3, <1>4 DEF P, W, A

\* B is A with e put in somewhere.
Inserted(B, A, e) ==
    \E c \in 1..Len(A) + 1 : \A k \in 1..Len(A) + 1 :
        B[k] = IF k < c THEN A[k] ELSE IF k = c THEN e ELSE A[k - 1]

\* P and W are the lists with e put at the end of one of them.
Puts(P, W, prio, wait, e) ==
    \/ P = Append(prio, e) /\ W = wait
    \/ P = prio /\ W = Append(wait, e)

LEMMA AppendedConcat ==
    ASSUME NEW S, NEW prio \in Seq(S), NEW wait \in Seq(S), NEW e \in S,
           NEW P, NEW W, Puts(P, W, prio, wait, e)
    PROVE  /\ P \in Seq(S) /\ W \in Seq(S) /\ Len(P \o W) = Len(prio \o wait) + 1
           /\ Inserted(P \o W, prio \o wait, e)
<1> DEFINE A == prio \o wait
           m == Len(prio)
           n == Len(wait)
<1>1. /\ m \in Nat /\ n \in Nat /\ Len(A) = m + n
      /\ \A k \in 1..m + n : A[k] = IF k <= m THEN prio[k] ELSE wait[k - m]
  BY ConcatProperties
<1>2. CASE P = Append(prio, e) /\ W = wait
  <2>1. /\ P \in Seq(S) /\ Len(P) = m + 1
        /\ \A k \in 1..m : P[k] = prio[k]
        /\ P[m + 1] = e
    BY <1>2
  <2>2. W \in Seq(S) /\ Len(W) = n
    BY <1>2
  <2> HIDE DEF A, m, n
  <2>3. /\ Len(P \o W) = m + 1 + n
        /\ \A k \in 1..m + 1 + n : (P \o W)[k] = IF k <= m + 1 THEN P[k] ELSE W[k - (m + 1)]
    <3>1. /\ Len(P \o W) = Len(P) + Len(W)
          /\ \A k \in 1..Len(P) + Len(W) : (P \o W)[k] = IF k <= Len(P) THEN P[k] ELSE W[k - Len(P)]
      BY <2>1, <2>2, ConcatProperties
    <3>2. Len(P) = m + 1 /\ Len(W) = n
      BY <2>1, <2>2
    <3> QED BY <3>1, <3>2, Zenon
  <2>4. m + 1 \in 1..Len(A) + 1 /\ Len(P \o W) = Len(A) + 1
    BY <1>1, <2>3
  <2>5. ASSUME NEW k \in 1..Len(A) + 1
        PROVE  (P \o W)[k] = IF k < m + 1 THEN A[k] ELSE IF k = m + 1 THEN e ELSE A[k - 1]
    <3>0. k \in 1..m + 1 + n
      BY <1>1
    <3>1. CASE k < m + 1
      <4>1. k <= m + 1 /\ k \in 1..m /\ k \in 1..m + n /\ k <= m
        BY <3>0, <3>1, <1>1
      <4>2. (P \o W)[k] = P[k] /\ P[k] = prio[k] /\ A[k] = prio[k]
        BY <4>1, <3>0, <2>1, <2>3, <1>1
      <4> QED BY <4>2, <3>1
    <3>2. CASE k = m + 1
      <4>1. k <= m + 1 /\ ~(k < m + 1)
        BY <3>2, <1>1
      <4>2. (P \o W)[k] = P[k]
        BY <4>1, <3>0, <2>3
      <4> QED BY <4>1, <4>2, <3>2, <2>1
    <3>3. CASE k > m + 1
      <4>0. ~(k <= m + 1)
        BY <3>3, <3>0, <1>1
      <4>1. (P \o W)[k] = wait[k - (m + 1)]
        BY <4>0, <3>0, <2>3, <1>2
      <4>2. k - 1 \in 1..m + n /\ ~(k - 1 <= m) /\ k - 1 - m = k - (m + 1) /\ ~(k < m + 1) /\ k # m + 1
        BY <3>3, <3>0, <1>1
      <4>3. A[k - 1] = wait[k - 1 - m]
        BY <4>2, <1>1
      <4> QED BY <4>1, <4>2, <4>3
    <3>4. k < m + 1 \/ k = m + 1 \/ k > m + 1
      BY <3>0, <1>1
    <3> QED BY <3>1, <3>2, <3>3, <3>4
  <2>6. Inserted(P \o W, A, e)
    BY <2>4, <2>5 DEF Inserted
  <2> QED BY <2>1, <2>2, <2>4, <2>6 DEF A
<1>3. CASE P = prio /\ W = Append(wait, e)
  <2>1. /\ W \in Seq(S) /\ Len(W) = n + 1
        /\ \A k \in 1..n : W[k] = wait[k]
        /\ W[n + 1] = e
    BY <1>3
  <2>2. P \in Seq(S) /\ Len(P) = m
    BY <1>3
  <2> HIDE DEF A, m, n
  <2>3. /\ Len(P \o W) = m + (n + 1)
        /\ \A k \in 1..m + (n + 1) : (P \o W)[k] = IF k <= m THEN P[k] ELSE W[k - m]
    <3>1. /\ Len(P \o W) = Len(P) + Len(W)
          /\ \A k \in 1..Len(P) + Len(W) : (P \o W)[k] = IF k <= Len(P) THEN P[k] ELSE W[k - Len(P)]
      BY <2>1, <2>2, ConcatProperties
    <3>2. Len(P) = m /\ Len(W) = n + 1
      BY <2>1, <2>2
    <3> QED BY <3>1, <3>2, Zenon
  <2>4. m + n + 1 \in 1..Len(A) + 1 /\ Len(P \o W) = Len(A) + 1
    BY <1>1, <2>3
  <2>5. ASSUME NEW k \in 1..Len(A) + 1
        PROVE  (P \o W)[k] = IF k < m + n + 1 THEN A[k] ELSE IF k = m + n + 1 THEN e ELSE A[k - 1]
    <3>0. k \in 1..m + (n + 1) /\ (k < m + n + 1 \/ k = m + n + 1)
      BY <1>1
    <3>1. CASE k <= m
      BY <3>1, <3>0, <2>2, <2>3, <1>1, <1>3
    <3>2. CASE ~(k <= m) /\ k < m + n + 1
      <4>1. k - m \in 1..n /\ k \in 1..m + n
        BY <3>2, <3>0, <1>1
      <4> QED BY <4>1, <3>2, <3>0, <2>1, <2>3, <1>1
    <3>3. CASE k = m + n + 1
      <4>1. k - m = n + 1 /\ ~(k <= m) /\ ~(k < m + n + 1)
        BY <3>3, <3>0, <1>1
      <4> QED BY <4>1, <3>3, <3>0, <2>1, <2>3
    <3> QED BY <3>0, <3>1, <3>2, <3>3
  <2>6. Inserted(P \o W, A, e)
    BY <2>4, <2>5 DEF Inserted
  <2> QED BY <2>1, <2>2, <2>4, <2>6 DEF A
<1> QED BY <1>2, <1>3 DEF Puts

-----------------------------------------------------------------------------
(* What is kept of the two lists P and W, their counts a and b and those   *)
(* in the game.                                                            *)

Lists(P, W, a, b, on) ==
    /\ P \in Seq(Wait) /\ W \in Seq(Wait)
    /\ Counts(a, b, Len(P \o W)) /\ Unique(P \o W)
    /\ Guids(P \o W) \cap on = {} /\ Guids(P \o W) \cap AlwaysLogin = {}

LEMMA WaitInvLists ==
    WaitInv <=> /\ Lists(priorityWaitList, waitList, prioritySize, waitSize, online)
                /\ online \subseteq Players /\ logouts \in 0..MaxLogouts /\ now \in 0..MaxTime
<1> DEFINE all == priorityWaitList \o waitList
<1>1. ASSUME priorityWaitList \in Seq(Wait), waitList \in Seq(Wait)
      PROVE  /\ Unique(all) <=> \A i, j \in DOMAIN all : i # j => all[i].guid # all[j].guid
             /\ Len(all) \in Nat
  <2>1. all \in Seq(Wait)
    BY <1>1, ConcatProperties
  <2>2. DOMAIN all = 1..Len(all) /\ Len(all) \in Nat
    BY <2>1
  <2> HIDE DEF all
  <2> QED BY <2>2 DEF Unique
<1>2. ASSUME WaitInv
      PROVE  /\ Lists(priorityWaitList, waitList, prioritySize, waitSize, online)
             /\ online \subseteq Players /\ logouts \in 0..MaxLogouts /\ now \in 0..MaxTime
  BY <1>1, <1>2 DEF WaitInv, WaitListSound, WaitTypeOK, Lists, Counts
<1>3. ASSUME Lists(priorityWaitList, waitList, prioritySize, waitSize, online),
             online \subseteq Players, logouts \in 0..MaxLogouts, now \in 0..MaxTime
      PROVE  WaitInv
  BY <1>1, <1>3 DEF WaitInv, WaitListSound, WaitTypeOK, Lists, Counts
<1> QED BY <1>2, <1>3

LEMMA WaitInvListsNext ==
    WaitInv' <=> /\ Lists(priorityWaitList', waitList', prioritySize', waitSize', online')
                 /\ online' \subseteq Players /\ logouts' \in 0..MaxLogouts /\ now' \in 0..MaxTime
<1> DEFINE all == priorityWaitList' \o waitList'
<1>1. ASSUME priorityWaitList' \in Seq(Wait), waitList' \in Seq(Wait)
      PROVE  /\ Unique(all) <=> \A i, j \in DOMAIN all : i # j => all[i].guid # all[j].guid
             /\ Len(all) \in Nat
  <2>1. all \in Seq(Wait)
    BY <1>1, ConcatProperties
  <2>2. DOMAIN all = 1..Len(all) /\ Len(all) \in Nat
    BY <2>1
  <2> HIDE DEF all
  <2> QED BY <2>2 DEF Unique
<1>2. ASSUME WaitInv'
      PROVE  /\ Lists(priorityWaitList', waitList', prioritySize', waitSize', online')
             /\ online' \subseteq Players /\ logouts' \in 0..MaxLogouts /\ now' \in 0..MaxTime
  BY <1>1, <1>2 DEF WaitInv, WaitListSound, WaitTypeOK, Lists, Counts
<1>3. ASSUME Lists(priorityWaitList', waitList', prioritySize', waitSize', online'),
             online' \subseteq Players, logouts' \in 0..MaxLogouts, now' \in 0..MaxTime
      PROVE  WaitInv'
  BY <1>1, <1>3 DEF WaitInv, WaitListSound, WaitTypeOK, Lists, Counts
<1> QED BY <1>2, <1>3

\* A client is let in: its entry goes, and the count of waitList goes down.
LEMMA ListsAdmit ==
    ASSUME NEW prio, NEW wait, NEW a, NEW b, NEW on, Lists(prio, wait, a, b, on),
           NEW slot \in 1..Len(prio \o wait)
    PROVE  LET P == IF slot <= Len(prio) THEN RemoveAt(prio, slot) ELSE prio
               W == IF slot <= Len(prio) THEN wait ELSE RemoveAt(wait, slot - Len(prio))
           IN  Lists(P, W, a, Minus(b, 1), on \cup {(prio \o wait)[slot].guid})
<1> DEFINE P == IF slot <= Len(prio) THEN RemoveAt(prio, slot) ELSE prio
           W == IF slot <= Len(prio) THEN wait ELSE RemoveAt(wait, slot - Len(prio))
           A == prio \o wait
           B == P \o W
           p == A[slot].guid
<1>1. /\ prio \in Seq(Wait) /\ wait \in Seq(Wait) /\ Counts(a, b, Len(A)) /\ Unique(A)
      /\ Guids(A) \cap on = {} /\ Guids(A) \cap AlwaysLogin = {}
  BY DEF Lists
<1>2. /\ P \in Seq(Wait) /\ W \in Seq(Wait) /\ Len(B) = Len(A) - 1
      /\ \A k \in 1..Len(B) : B[k] = IF k < slot THEN A[k] ELSE A[k + 1]
  BY <1>1, RemovedConcat
<1>3. A \in Seq(Wait) /\ Len(A) \in Nat /\ DOMAIN A = 1..Len(A)
  BY <1>1, ConcatProperties
<1>0. slot \in 1..Len(A)
  OBVIOUS
<1> HIDE DEF P, W, A
<1>4. B \in Seq(Wait) /\ DOMAIN B = 1..Len(B)
  BY <1>2, ConcatProperties
<1> HIDE DEF B
<1> DEFINE at(k) == IF k < slot THEN k ELSE k + 1
<1>5. ASSUME NEW k \in 1..Len(B) PROVE at(k) \in 1..Len(A) /\ at(k) # slot /\ B[k] = A[at(k)]
  BY <1>0, <1>2, <1>3
<1>6. ASSUME NEW k \in 1..Len(B), NEW l \in 1..Len(B), k # l PROVE at(k) # at(l)
  BY <1>0, <1>2, <1>3, <1>6
<1> HIDE DEF at
<1>7. Unique(B)
  BY <1>1, <1>5, <1>6 DEF Unique
<1>8. \A g \in Guids(B) : g \in Guids(A) /\ g # p
  <2> SUFFICES ASSUME NEW k \in 1..Len(B) PROVE B[k].guid \in Guids(A) /\ B[k].guid # p
    BY <1>4 DEF Guids
  <2> QED BY <1>0, <1>1, <1>3, <1>5 DEF Unique, Guids
<1>9. Counts(a, Minus(b, 1), Len(B))
  <2>1. Len(A) > 0 /\ Counts(a, b, Len(A))
    BY <1>0, <1>1, <1>3
  <2>2. Counts(a, Minus(b, 1), Len(A) - 1)
    BY <2>1, CountsStep
  <2> QED BY <2>2, <1>2
<1>10. Guids(B) \cap (on \cup {p}) = {} /\ Guids(B) \cap AlwaysLogin = {}
  <2> HIDE DEF p
  <2> QED BY <1>1, <1>8
<1> QED BY <1>2, <1>7, <1>9, <1>10 DEF Lists, P, W, A, B

\* A client is told to come back later: its entry is renewed.
LEMMA ListsRenew ==
    ASSUME NEW prio, NEW wait, NEW a, NEW b, NEW on, Lists(prio, wait, a, b, on),
           NEW slot \in 1..Len(prio \o wait), now + getTimeout(slot) \in 0..Modulus - 1
    PROVE  LET P == IF slot <= Len(prio) THEN Renewed(prio, slot, slot) ELSE prio
               W == IF slot <= Len(prio) THEN wait ELSE Renewed(wait, slot - Len(prio), slot)
           IN  Lists(P, W, a, b, on)
<1> DEFINE P == IF slot <= Len(prio) THEN Renewed(prio, slot, slot) ELSE prio
           W == IF slot <= Len(prio) THEN wait ELSE Renewed(wait, slot - Len(prio), slot)
           A == prio \o wait
           B == P \o W
<1>1. /\ prio \in Seq(Wait) /\ wait \in Seq(Wait) /\ Counts(a, b, Len(A)) /\ Unique(A)
      /\ Guids(A) \cap on = {} /\ Guids(A) \cap AlwaysLogin = {}
  BY DEF Lists
<1>2. /\ P \in Seq(Wait) /\ W \in Seq(Wait) /\ Len(B) = Len(A)
      /\ \A k \in 1..Len(A) : B[k].guid = A[k].guid
  BY <1>1, RenewedConcat
<1>3. A \in Seq(Wait) /\ DOMAIN A = 1..Len(A)
  BY <1>1, ConcatProperties
<1> HIDE DEF P, W, A
<1>4. B \in Seq(Wait) /\ DOMAIN B = 1..Len(B)
  BY <1>2, ConcatProperties
<1> HIDE DEF B
<1>5. Unique(B) /\ Guids(B) = Guids(A)
  BY <1>1, <1>2, <1>3, <1>4 DEF Unique, Guids
<1> QED BY <1>1, <1>2, <1>5 DEF Lists, P, W, A, B

\* A client is put at the end of one of the lists.
LEMMA ListsEnlist ==
    ASSUME NEW prio, NEW wait, NEW a, NEW b, NEW on, Lists(prio, wait, a, b, on),
           NEW e \in Wait, e.guid \notin on, e.guid \notin AlwaysLogin,
           \A i \in 1..Len(prio \o wait) : (prio \o wait)[i].guid # e.guid
    PROVE  /\ Lists(Append(prio, e), wait, Plus(a, 1), b, on)
           /\ Lists(prio, Append(wait, e), a, Plus(b, 1), on)
<1> DEFINE A == prio \o wait
<1>1. /\ prio \in Seq(Wait) /\ wait \in Seq(Wait) /\ Counts(a, b, Len(A)) /\ Unique(A)
      /\ Guids(A) \cap on = {} /\ Guids(A) \cap AlwaysLogin = {}
  BY DEF Lists
<1>2. A \in Seq(Wait) /\ DOMAIN A = 1..Len(A) /\ Len(A) \in Nat
  BY <1>1, ConcatProperties
<1>3. ASSUME NEW P, NEW W, Puts(P, W, prio, wait, e)
      PROVE  /\ P \in Seq(Wait) /\ W \in Seq(Wait)
             /\ Unique(P \o W) /\ Len(P \o W) = Len(A) + 1 /\ Len(A) + 1 < Modulus
             /\ Guids(P \o W) \cap on = {} /\ Guids(P \o W) \cap AlwaysLogin = {}
  <2> DEFINE B == P \o W
  <2>1. /\ P \in Seq(Wait) /\ W \in Seq(Wait) /\ Len(B) = Len(A) + 1
        /\ Inserted(B, A, e)
    <3>1. prio \in Seq(Wait) /\ wait \in Seq(Wait)
      BY <1>1
    <3> QED BY <3>1, <1>3, AppendedConcat
  <2>2. B \in Seq(Wait) /\ DOMAIN B = 1..Len(B)
    BY <2>1, ConcatProperties
  <2>3. \A i \in 1..Len(A) : A[i].guid # e.guid
    OBVIOUS
  <2> HIDE DEF A, B
  <2>4. PICK c \in 1..Len(A) + 1 : \A k \in 1..Len(A) + 1 :
              B[k] = IF k < c THEN A[k] ELSE IF k = c THEN e ELSE A[k - 1]
    BY <2>1 DEF Inserted
  <2> DEFINE at(k) == IF k < c THEN k ELSE k - 1
  <2>5. \A k \in 1..Len(B) : k # c => at(k) \in 1..Len(A) /\ B[k] = A[at(k)]
    BY <2>1, <2>4, <1>2
  <2>6. \A k, l \in 1..Len(B) : k # l /\ k # c /\ l # c => at(k) # at(l)
    BY <2>1, <1>2
  <2>7. B[c] = e /\ c \in 1..Len(B)
    BY <2>1, <2>4, <1>2
  <2> HIDE DEF at
  <2>8. Unique(B)
    <3> SUFFICES ASSUME NEW k \in 1..Len(B), NEW l \in 1..Len(B), k # l PROVE B[k].guid # B[l].guid
      BY DEF Unique
    <3>1. CASE k = c
      BY <3>1, <2>3, <2>5, <2>7
    <3>2. CASE l = c
      BY <3>2, <2>3, <2>5, <2>7
    <3>3. CASE k # c /\ l # c
      BY <3>3, <2>5, <2>6, <1>1 DEF Unique
    <3> QED BY <3>1, <3>2, <3>3
  <2>9. \A g \in Guids(B) : g \in Guids(A) \/ g = e.guid
    <3> SUFFICES ASSUME NEW k \in 1..Len(B) PROVE B[k].guid \in Guids(A) \/ B[k].guid = e.guid
      BY <2>2 DEF Guids
    <3> QED BY <2>5, <2>7, <1>2 DEF Guids
  <2>10. Len(A) + 1 < Modulus
    <3>1. Len(B) <= Cardinality(Players) /\ Cardinality(Players) < Modulus
      BY <2>2, <2>8, UniqueLen
    <3>2. Cardinality(Players) \in Nat /\ Modulus \in Nat
      BY WaitingListAssumption, FS_CardinalityType DEF WaitingListAssumption
    <3> QED BY <3>1, <3>2, <2>1, <1>2
  <2>11. Guids(B) \cap on = {} /\ Guids(B) \cap AlwaysLogin = {}
    BY <2>9, <1>1
  <2> QED BY <2>1, <2>8, <2>10, <2>11 DEF B
<1>0. Puts(Append(prio, e), wait, prio, wait, e) /\ Puts(prio, Append(wait, e), prio, wait, e)
  BY DEF Puts
<1>4. Len(A) + 1 < Modulus
  BY <1>0, <1>3
<1>5. Counts(Plus(a, 1), b, Len(A) + 1) /\ Counts(a, Plus(b, 1), Len(A) + 1)
  <2> HIDE DEF A
  <2> QED BY <1>1, <1>4, CountsStep
<1> HIDE DEF A
<1>6. Lists(Append(prio, e), wait, Plus(a, 1), b, on)
  BY <1>0, <1>3, <1>5 DEF Lists
<1>7. Lists(prio, Append(wait, e), a, Plus(b, 1), on)
  BY <1>0, <1>3, <1>5 DEF Lists
<1> QED BY <1>6, <1>7

-----------------------------------------------------------------------------
(* The steps.                                                              *)

\* What clientLogin() works on is as sound as what it found.
LEMMA CleanLists ==
    ASSUME WaitInv
    PROVE  Lists(CleanPrio, CleanWait, CleanPrioSize, CleanWaitSize, online)
<1>1. Lists(priorityWaitList, waitList, prioritySize, waitSize, online)
  BY WaitInvLists
<1> DEFINE A == CleanPrio \o CleanWait
           all == priorityWaitList \o waitList
<1>2. /\ CleanPrio \in Seq(Wait) /\ CleanWait \in Seq(Wait)
      /\ Unique(A) /\ Guids(A) \subseteq Guids(all)
      /\ Counts(CleanPrioSize, CleanWaitSize, Len(A))
  BY Cleaned
<1>3. Guids(all) \cap online = {} /\ Guids(all) \cap AlwaysLogin = {}
  BY <1>1 DEF Lists
<1> HIDE DEF A, all
<1>4. Guids(A) \cap online = {} /\ Guids(A) \cap AlwaysLogin = {}
  BY <1>2, <1>3
<1> QED BY <1>2, <1>4 DEF Lists, A

LEMMA LoginQueuedCases ==
    ASSUME NEW p, LoginQueued(p)
    PROVE  /\ p \notin AlwaysLogin /\ logouts' = logouts /\ now' = now
           /\ \/ LoginWaiting(p, CleanPrio, CleanWait, CleanPrioSize, CleanWaitSize)
              \/ Enlist(p, CleanPrio, CleanWait, CleanPrioSize, CleanWaitSize)
<1> HIDE DEF LoginWaiting, Enlist
<1> QED BY Zenon DEF LoginQueued, CleanPrio, CleanWait, CleanPrioSize, CleanWaitSize

\* A client on a list comes back and there is room up to its place.
LEMMA Admission ==
    ASSUME WaitInv, NEW p,
           LoginWaiting(p, CleanPrio, CleanWait, CleanPrioSize, CleanWaitSize),
           HasRoom(Slot(p, CleanPrio, CleanWait))
    PROVE  LET slot == Slot(p, CleanPrio, CleanWait)
               A == CleanPrio \o CleanWait
           IN  /\ slot \in 1..Len(A) /\ A[slot].guid = p
               /\ priorityWaitList' = IF slot <= Len(CleanPrio) THEN RemoveAt(CleanPrio, slot) ELSE CleanPrio
               /\ waitList' = IF slot <= Len(CleanPrio) THEN CleanWait
                              ELSE RemoveAt(CleanWait, slot - Len(CleanPrio))
               /\ prioritySize' = CleanPrioSize /\ waitSize' = Minus(CleanWaitSize, 1)
               /\ online' = online \cup {p}
<1> DEFINE slot == Slot(p, CleanPrio, CleanWait)
           A == CleanPrio \o CleanWait
<1>1. CleanPrio \in Seq(Wait) /\ CleanWait \in Seq(Wait)
  BY Cleaned
<1>2. slot # 0
  BY DEF LoginWaiting
<1>3. slot \in 1..Len(A) /\ A[slot].guid = p
  BY <1>1, <1>2, SlotFacts
<1>4. /\ priorityWaitList' = IF slot <= Len(CleanPrio) THEN RemoveAt(CleanPrio, slot) ELSE CleanPrio
      /\ waitList' = IF slot <= Len(CleanPrio) THEN CleanWait
                     ELSE RemoveAt(CleanWait, slot - Len(CleanPrio))
      /\ prioritySize' = CleanPrioSize /\ waitSize' = Minus(CleanWaitSize, 1)
      /\ online' = online \cup {p}
  BY DEF LoginWaiting, Enters
<1> QED BY <1>3, <1>4

LEMMA LoginQueuedInv ==
    ASSUME WaitInv, NEW p \in Players, p \notin online, LoginQueued(p)
    PROVE  WaitInv'
<1> DEFINE slot == Slot(p, CleanPrio, CleanWait)
           A == CleanPrio \o CleanWait
<1>1. /\ p \notin AlwaysLogin /\ logouts' = logouts /\ now' = now
      /\ \/ LoginWaiting(p, CleanPrio, CleanWait, CleanPrioSize, CleanWaitSize)
         \/ Enlist(p, CleanPrio, CleanWait, CleanPrioSize, CleanWaitSize)
  BY LoginQueuedCases
<1>2. Lists(CleanPrio, CleanWait, CleanPrioSize, CleanWaitSize, online)
  BY CleanLists
<1>3. CleanPrio \in Seq(Wait) /\ CleanWait \in Seq(Wait) /\ Len(A) \in Nat
      /\ CleanPrioSize \in 0..Modulus - 1 /\ CleanWaitSize \in 0..Modulus - 1
  <2>1. CleanPrio \in Seq(Wait) /\ CleanWait \in Seq(Wait) /\ Counts(CleanPrioSize, CleanWaitSize, Len(A))
    BY <1>2 DEF Lists
  <2> QED BY <2>1 DEF Counts
<1>4. online \subseteq Players /\ logouts \in 0..MaxLogouts /\ now \in 0..MaxTime
  BY WaitInvLists
<1>5. CASE LoginWaiting(p, CleanPrio, CleanWait, CleanPrioSize, CleanWaitSize) /\ HasRoom(slot)
  <2>1. /\ slot \in 1..Len(A) /\ A[slot].guid = p
        /\ priorityWaitList' = IF slot <= Len(CleanPrio) THEN RemoveAt(CleanPrio, slot) ELSE CleanPrio
        /\ waitList' = IF slot <= Len(CleanPrio) THEN CleanWait
                       ELSE RemoveAt(CleanWait, slot - Len(CleanPrio))
        /\ prioritySize' = CleanPrioSize /\ waitSize' = Minus(CleanWaitSize, 1)
        /\ online' = online \cup {p}
    BY <1>5, Admission
  <2> HIDE DEF slot
  <2>2. Lists(priorityWaitList', waitList', prioritySize', waitSize', online')
    BY <2>1, <1>2, ListsAdmit
  <2>3. online' \subseteq Players
    BY <2>1, <1>4
  <2> QED BY <2>2, <2>3, <1>1, <1>4, WaitInvListsNext
<1>6. CASE LoginWaiting(p, CleanPrio, CleanWait, CleanPrioSize, CleanWaitSize) /\ ~HasRoom(slot)
  <2>1. slot # 0
    BY <1>6 DEF LoginWaiting
  <2>2. slot \in 1..Len(A) /\ slot \in Nat
    BY <1>3, <2>1, SlotFacts
  <2>3. /\ priorityWaitList' = IF slot <= Len(CleanPrio) THEN Renewed(CleanPrio, slot, slot) ELSE CleanPrio
        /\ waitList' = IF slot <= Len(CleanPrio) THEN CleanWait
                       ELSE Renewed(CleanWait, slot - Len(CleanPrio), slot)
        /\ prioritySize' = CleanPrioSize /\ waitSize' = CleanWaitSize
        /\ online' = online
    BY <1>6 DEF LoginWaiting
  <2>4. now + getTimeout(slot) \in 0..Modulus - 1
    BY <2>2, TimeoutType
  <2> HIDE DEF slot
  <2>5. Lists(priorityWaitList', waitList', prioritySize', waitSize', online')
    BY <2>2, <2>3, <2>4, <1>2, ListsRenew
  <2> QED BY <2>3, <2>5, <1>1, <1>4, WaitInvListsNext
<1>7. CASE Enlist(p, CleanPrio, CleanWait, CleanPrioSize, CleanWaitSize)
  <2> DEFINE ahead == IF p \in Premium THEN CleanPrioSize ELSE Plus(CleanPrioSize, CleanWaitSize)
             e == [guid |-> p, timeout |-> now + getTimeout(Plus(ahead, 1))]
  <2>1. slot = 0 /\ online' = online
    BY <1>7 DEF Enlist
  <2>2. \/ /\ priorityWaitList' = Append(CleanPrio, e) /\ waitList' = CleanWait
           /\ prioritySize' = Plus(CleanPrioSize, 1) /\ waitSize' = CleanWaitSize
        \/ /\ priorityWaitList' = CleanPrio /\ waitList' = Append(CleanWait, e)
           /\ prioritySize' = CleanPrioSize /\ waitSize' = Plus(CleanWaitSize, 1)
    BY <1>7 DEF Enlist
  <2>3. Plus(ahead, 1) \in Nat
    <3>1. Modulus \in Nat /\ Modulus > 1
      BY WaitingListAssumption DEF WaitingListAssumption
    <3>2. \A x, y \in 0..Modulus - 1 : Plus(x, y) \in 0..Modulus - 1
      BY <3>1, PlusFacts
    <3>3. ahead \in 0..Modulus - 1 /\ 1 \in 0..Modulus - 1
      <4>1. Plus(CleanPrioSize, CleanWaitSize) \in 0..Modulus - 1
        BY <1>3, <3>2
      <4> QED BY <4>1, <1>3, <3>1
    <3> HIDE DEF ahead
    <3>4. Plus(ahead, 1) \in 0..Modulus - 1
      BY <3>2, <3>3
    <3> QED BY <3>1, <3>4
  <2>4. e \in Wait /\ e.guid = p
    <3>1. now + getTimeout(Plus(ahead, 1)) \in 0..Modulus - 1
      BY <2>3, TimeoutType
    <3> QED BY <3>1 DEF Wait
  <2> HIDE DEF e
  <2>5. \A i \in 1..Len(A) : A[i].guid # p
    BY <1>3, <2>1, SlotFacts
  <2>6. /\ Lists(Append(CleanPrio, e), CleanWait, Plus(CleanPrioSize, 1), CleanWaitSize, online)
        /\ Lists(CleanPrio, Append(CleanWait, e), CleanPrioSize, Plus(CleanWaitSize, 1), online)
    BY <1>1, <1>2, <2>4, <2>5, ListsEnlist
  <2>7. Lists(priorityWaitList', waitList', prioritySize', waitSize', online')
    BY <2>1, <2>2, <2>6
  <2> QED BY <2>1, <2>7, <1>1, <1>4, WaitInvListsNext
<1> QED BY <1>1, <1>5, <1>6, <1>7

LEMMA LoginDirectInv ==
    ASSUME WaitInv, NEW p \in Players, p \notin online, LoginDirect(p)
    PROVE  WaitInv'
<1> DEFINE all == priorityWaitList \o waitList
<1>1. /\ Lists(priorityWaitList, waitList, prioritySize, waitSize, online)
      /\ online \subseteq Players /\ logouts \in 0..MaxLogouts /\ now \in 0..MaxTime
  BY WaitInvLists
<1>2. /\ priorityWaitList' = priorityWaitList /\ waitList' = waitList
      /\ prioritySize' = prioritySize /\ waitSize' = waitSize
      /\ logouts' = logouts /\ now' = now /\ online' = online \cup {p}
      /\ p \in AlwaysLogin \/ (priorityWaitList = <<>> /\ waitList = <<>>)
  BY DEF LoginDirect, Enters
<1>3. p \notin Guids(all)
  <2>1. CASE p \in AlwaysLogin
    BY <2>1, <1>1 DEF Lists
  <2>2. CASE priorityWaitList = <<>> /\ waitList = <<>>
    <3>1. all = <<>>
      BY <2>2
    <3> QED BY <3>1 DEF Guids
  <2> QED BY <2>1, <2>2, <1>2
<1>4. Lists(priorityWaitList, waitList, prioritySize, waitSize, online \cup {p})
  BY <1>1, <1>3 DEF Lists
<1> QED BY <1>1, <1>2, <1>4, WaitInvListsNext

LEMMA WaitInvStep ==
    ASSUME WaitInv, [WaitNext]_waitVars
    PROVE  WaitInv'
<1>0. /\ Lists(priorityWaitList, waitList, prioritySize, waitSize, online)
      /\ online \subseteq Players /\ logouts \in 0..MaxLogouts /\ now \in 0..MaxTime
  BY WaitInvLists
<1>1. ASSUME NEW p \in Players, Login(p) PROVE WaitInv'
  BY <1>1, LoginDirectInv, LoginQueuedInv DEF Login
<1>2. ASSUME NEW p \in Players, Logout(p) PROVE WaitInv'
  <2>1. /\ priorityWaitList' = priorityWaitList /\ waitList' = waitList
        /\ prioritySize' = prioritySize /\ waitSize' = waitSize /\ now' = now
        /\ online' = online \ {p} /\ logouts < MaxLogouts /\ logouts' = logouts + 1
    BY <1>2 DEF Logout
  <2>2. Lists(priorityWaitList, waitList, prioritySize, waitSize, online \ {p})
    BY <1>0 DEF Lists
  <2>3. logouts' \in 0..MaxLogouts
    BY <2>1, <1>0, WaitingListAssumption DEF WaitingListAssumption
  <2>4. online' \subseteq Players
    BY <2>1, <1>0
  <2> QED BY <2>1, <2>2, <2>3, <2>4, <1>0, WaitInvListsNext
<1>3. ASSUME NEW d \in Jumps, TimePasses(d) PROVE WaitInv'
  <2>1. /\ priorityWaitList' = priorityWaitList /\ waitList' = waitList
        /\ prioritySize' = prioritySize /\ waitSize' = waitSize /\ logouts' = logouts
        /\ online' = online /\ now + d <= MaxTime /\ now' = now + d
    BY <1>3 DEF TimePasses
  <2>2. now' \in 0..MaxTime
    BY <2>1, <1>0, WaitingListAssumption DEF WaitingListAssumption
  <2> QED BY <2>1, <2>2, <1>0, WaitInvListsNext
<1>4. ASSUME UNCHANGED waitVars PROVE WaitInv'
  <2>1. /\ priorityWaitList' = priorityWaitList /\ waitList' = waitList
        /\ prioritySize' = prioritySize /\ waitSize' = waitSize /\ logouts' = logouts
        /\ online' = online /\ now' = now
    BY <1>4 DEF waitVars
  <2> QED BY <2>1, <1>0, WaitInvListsNext
<1> QED BY <1>1, <1>2, <1>3, <1>4 DEF WaitNext

LEMMA WaitInvInit == WaitInit => WaitInv
<1> SUFFICES ASSUME WaitInit PROVE WaitInv
  OBVIOUS
<1>1. Modulus \in Nat /\ Modulus > 1 /\ MaxLogouts \in Nat /\ MaxTime \in Nat
  BY WaitingListAssumption DEF WaitingListAssumption
<1>2. /\ priorityWaitList = <<>> /\ waitList = <<>> /\ prioritySize = 0 /\ waitSize = 0
      /\ online = {} /\ logouts = 0 /\ now = 0
  BY DEF WaitInit
<1>3. <<>> \o <<>> = <<>> /\ <<>> \in Seq(Wait)
  OBVIOUS
<1>4. Plus(0, 0) = 0
  BY <1>1, PlusFacts
<1>5. Lists(<<>>, <<>>, 0, 0, {})
  <2>1. Counts(0, 0, Len(<<>>))
    BY <1>1, <1>4 DEF Counts
  <2>2. Unique(<<>>) /\ Guids(<<>>) = {}
    BY DEF Unique, Guids
  <2> QED BY <1>3, <2>1, <2>2 DEF Lists
<1> QED BY <1>1, <1>2, <1>5, WaitInvLists

\* Every reachable state of the login queue is sound.
THEOREM WaitListSoundHolds == WaitSpec => []WaitListSound
<1>1. WaitInit => WaitInv
  BY WaitInvInit
<1>2. WaitInv /\ [WaitNext]_waitVars => WaitInv'
  BY WaitInvStep
<1>3. WaitInv => WaitListSound
  BY DEF WaitInv
<1> QED BY <1>1, <1>2, <1>3, PTL DEF WaitSpec

\* The online players can be counted.
LEMMA OnlineFinite ==
    ASSUME NEW on \in SUBSET Players
    PROVE  IsFiniteSet(on) /\ Cardinality(on) \in Nat
BY WaitingListAssumption, FS_Subset, FS_CardinalityType DEF WaitingListAssumption

\* Whoever is behind p in the cleaned lists was behind p before.
LEMMA OrderKept ==
    ASSUME NEW s1 \in Seq(Wait), NEW s2 \in Seq(Wait), NEW t1 \in Seq(Wait), NEW t2 \in Seq(Wait),
           Thins(t1 \o t2, s1 \o s2), Unique(s1 \o s2),
           NEW i \in 1..Len(t1 \o t2), NEW j \in 1..Len(t1 \o t2), i < j
    PROVE  Slot((t1 \o t2)[i].guid, s1, s2) < Slot((t1 \o t2)[j].guid, s1, s2)
<1> DEFINE t == t1 \o t2
           s == s1 \o s2
<1>1. PICK at \in [1..Len(t) -> 1..Len(s)] :
         /\ \A k \in 1..Len(t) : t[k] = s[at[k]]
         /\ \A k, l \in 1..Len(t) : k < l => at[k] < at[l]
  BY DEF Thins
<1>2. Unique(s) /\ i \in 1..Len(t) /\ j \in 1..Len(t)
  OBVIOUS
<1>3. at[i] \in 1..Len(s) /\ at[j] \in 1..Len(s) /\ at[i] < at[j]
  BY <1>1, <1>2
<1>4. s[at[i]].guid = t[i].guid /\ s[at[j]].guid = t[j].guid
  BY <1>1, <1>2
<1>5. Slot(t[i].guid, s1, s2) = at[i]
  BY <1>3, <1>4, SlotUnique
<1>6. Slot(t[j].guid, s1, s2) = at[j]
  BY <1>3, <1>4, SlotUnique
<1> QED BY <1>3, <1>5, <1>6

\* The client at "slot" is let in; who is on a list then and was before it has
\* a place before it.
LEMMA AheadOf ==
    ASSUME WaitInv, NEW p, LoginWaiting(p, CleanPrio, CleanWait, CleanPrioSize, CleanWaitSize),
           HasRoom(Slot(p, CleanPrio, CleanWait)), NEW q,
           Slot(q, priorityWaitList', waitList') # 0,
           Slot(q, priorityWaitList, waitList) < Slot(p, priorityWaitList, waitList)
    PROVE  /\ Slot(q, priorityWaitList', waitList') \in Nat
           /\ Slot(q, priorityWaitList', waitList') < Slot(p, CleanPrio, CleanWait)
<1> DEFINE slot == Slot(p, CleanPrio, CleanWait)
           A == CleanPrio \o CleanWait
           all == priorityWaitList \o waitList
           B == priorityWaitList' \o waitList'
           b == Slot(q, priorityWaitList', waitList')
<1>1. /\ slot \in 1..Len(A) /\ A[slot].guid = p
      /\ priorityWaitList' = IF slot <= Len(CleanPrio) THEN RemoveAt(CleanPrio, slot) ELSE CleanPrio
      /\ waitList' = IF slot <= Len(CleanPrio) THEN CleanWait
                     ELSE RemoveAt(CleanWait, slot - Len(CleanPrio))
  BY Admission
<1>2. /\ CleanPrio \in Seq(Wait) /\ CleanWait \in Seq(Wait)
      /\ A \in Seq(Wait) /\ Len(A) \in Nat /\ Thins(A, all) /\ Unique(all)
  BY Cleaned
<1>3. /\ priorityWaitList' \in Seq(Wait) /\ waitList' \in Seq(Wait)
      /\ Len(B) = Len(A) - 1
      /\ \A k \in 1..Len(B) : B[k] = IF k < slot THEN A[k] ELSE A[k + 1]
  <2> DEFINE P == IF slot <= Len(CleanPrio) THEN RemoveAt(CleanPrio, slot) ELSE CleanPrio
             W == IF slot <= Len(CleanPrio) THEN CleanWait ELSE RemoveAt(CleanWait, slot - Len(CleanPrio))
  <2>1. slot \in 1..Len(CleanPrio \o CleanWait) /\ CleanPrio \in Seq(Wait) /\ CleanWait \in Seq(Wait)
    BY <1>1, <1>2
  <2> HIDE DEF slot
  <2>2. /\ P \in Seq(Wait) /\ W \in Seq(Wait) /\ Len(P \o W) = Len(A) - 1
        /\ \A k \in 1..Len(P \o W) : (P \o W)[k] = IF k < slot THEN A[k] ELSE A[k + 1]
    BY <2>1, RemovedConcat
  <2>3. priorityWaitList' = P /\ waitList' = W
    BY <1>1
  <2> HIDE DEF P, W, A
  <2> QED BY <2>2, <2>3
<1>4. b \in 1..Len(B) /\ B[b].guid = q /\ b \in Nat
  BY <1>3, SlotFacts
<1>5. priorityWaitList \in Seq(Wait) /\ waitList \in Seq(Wait)
  BY DEF WaitInv, WaitListSound, WaitTypeOK
<1>6. ASSUME ~(b < slot) PROVE FALSE
  <2> HIDE DEF slot, b
  <2>1. B[b] = A[b + 1] /\ b + 1 \in 1..Len(A) /\ slot < b + 1
    BY <1>1, <1>2, <1>3, <1>4, <1>6
  <2>2. Slot(A[slot].guid, priorityWaitList, waitList) < Slot(A[b + 1].guid, priorityWaitList, waitList)
    BY <1>1, <1>2, <1>5, <2>1, OrderKept
  <2>3. Slot(p, priorityWaitList, waitList) < Slot(q, priorityWaitList, waitList)
    BY <2>1, <2>2, <1>1, <1>4
  <2>4. Slot(p, priorityWaitList, waitList) \in Nat /\ Slot(q, priorityWaitList, waitList) \in Nat
    BY <1>5, SlotFacts
  <2> QED BY <2>3, <2>4
<1> QED BY <1>4, <1>6

LEMMA RoomKeptStep ==
    ASSUME WaitInv, [WaitNext]_waitVars
    PROVE  [RoomKept]_waitVars
<1> SUFFICES ASSUME WaitNext, NEW p \in (online' \ online) \ AlwaysLogin
             PROVE  /\ Cardinality(online') <= MaxPlayers
                    /\ \A q \in Players :
                          /\ Slot(p, priorityWaitList, waitList) # 0
                          /\ Slot(q, priorityWaitList', waitList') # 0
                          /\ Slot(q, priorityWaitList, waitList) < Slot(p, priorityWaitList, waitList)
                          => Cardinality(online') + Slot(q, priorityWaitList', waitList') <= MaxPlayers
  BY DEF RoomKept
<1>1. online \subseteq Players /\ priorityWaitList \in Seq(Wait) /\ waitList \in Seq(Wait)
  BY DEF WaitInv, WaitListSound, WaitTypeOK
<1>2. IsFiniteSet(online) /\ Cardinality(online) \in Nat /\ MaxPlayers \in Nat
  BY <1>1, OnlineFinite, WaitingListAssumption DEF WaitingListAssumption
<1>3. p \in Players /\ p \notin online /\ p \notin AlwaysLogin /\ (LoginDirect(p) \/ LoginQueued(p))
  <2>1. ASSUME NEW r \in Players, Login(r) PROVE p = r
    <3>1. online' = online \/ online' = online \cup {r}
      <4>1. CASE LoginDirect(r)
        BY <4>1 DEF LoginDirect, Enters
      <4>2. CASE LoginQueued(r)
        <5>1. CASE LoginWaiting(r, CleanPrio, CleanWait, CleanPrioSize, CleanWaitSize)
          BY <5>1 DEF LoginWaiting, Enters
        <5>2. CASE Enlist(r, CleanPrio, CleanWait, CleanPrioSize, CleanWaitSize)
          BY <5>2 DEF Enlist
        <5> QED BY <4>2, <5>1, <5>2, LoginQueuedCases
      <4> QED BY <2>1, <4>1, <4>2 DEF Login
    <3> QED BY <3>1
  <2>2. ASSUME NEW r \in Players, Logout(r) PROVE FALSE
    BY <2>2 DEF Logout
  <2>3. ASSUME NEW d \in Jumps, TimePasses(d) PROVE FALSE
    BY <2>3 DEF TimePasses
  <2>4. PICK r \in Players : Login(r)
    BY <2>2, <2>3 DEF WaitNext
  <2>5. p = r
    BY <2>1, <2>4
  <2> QED BY <2>4, <2>5 DEF Login
<1>4. online' = online \cup {p} => Cardinality(online') = Cardinality(online) + 1
  BY <1>2, <1>3, FS_AddElement
<1>5. CASE LoginDirect(p)
  <2>1. /\ online' = online \cup {p} /\ priorityWaitList = <<>> /\ waitList = <<>>
        /\ Cardinality(online) < MaxPlayers
    BY <1>5, <1>3 DEF LoginDirect, Enters
  <2>2. Slot(p, priorityWaitList, waitList) = 0
    <3>1. priorityWaitList \o waitList = <<>>
      BY <2>1
    <3>2. \A i \in 1..Len(priorityWaitList \o waitList) : FALSE
      BY <3>1
    <3> QED BY <3>2, <1>1, SlotFacts
  <2> QED BY <2>1, <2>2, <1>2, <1>4
<1>6. CASE LoginQueued(p)
  <2> DEFINE slot == Slot(p, CleanPrio, CleanWait)
  <2>1. LoginWaiting(p, CleanPrio, CleanWait, CleanPrioSize, CleanWaitSize)
    <3>1. CASE Enlist(p, CleanPrio, CleanWait, CleanPrioSize, CleanWaitSize)
      BY <3>1 DEF Enlist
    <3> QED BY <1>6, <3>1, LoginQueuedCases
  <2>2. HasRoom(slot)
    BY <2>1 DEF LoginWaiting
  <2>3. slot \in 1..Len(CleanPrio \o CleanWait) /\ online' = online \cup {p}
    BY <2>1, <2>2, Admission
  <2>4. slot \in Nat /\ slot >= 1 /\ Cardinality(online) + slot <= MaxPlayers
    <3>1. CleanPrio \in Seq(Wait) /\ CleanWait \in Seq(Wait)
      BY Cleaned
    <3>2. slot \in Nat
      BY <3>1, SlotFacts
    <3> HIDE DEF slot
    <3> QED BY <3>2, <2>2, <2>3 DEF HasRoom
  <2>5. ASSUME NEW q \in Players, Slot(q, priorityWaitList', waitList') # 0,
               Slot(q, priorityWaitList, waitList) < Slot(p, priorityWaitList, waitList)
        PROVE  Cardinality(online') + Slot(q, priorityWaitList', waitList') <= MaxPlayers
    <3>1. /\ Slot(q, priorityWaitList', waitList') \in Nat
          /\ Slot(q, priorityWaitList', waitList') < slot
      BY <2>1, <2>2, <2>5, AheadOf
    <3> HIDE DEF slot
    <3> QED BY <3>1, <2>3, <2>4, <1>2, <1>4
  <2>6. Cardinality(online') <= MaxPlayers
    <3> HIDE DEF slot
    <3> QED BY <2>3, <2>4, <1>2, <1>4
  <2> QED BY <2>5, <2>6
<1> QED BY <1>3, <1>5, <1>6

\* Whoever is let in leaves room for those who stood before it.
THEOREM RoomForThoseAheadHolds == WaitSpec => RoomForThoseAhead
<1>1. WaitInit => WaitInv
  BY WaitInvInit
<1>2. WaitInv /\ [WaitNext]_waitVars => WaitInv'
  BY WaitInvStep
<1>3. WaitInv /\ [WaitNext]_waitVars => [RoomKept]_waitVars
  BY RoomKeptStep
<1> QED BY <1>1, <1>2, <1>3, PTL DEF WaitSpec, RoomForThoseAhead
=============================================================================
