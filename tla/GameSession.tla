----------------------------- MODULE GameSession -----------------------------
(***************************************************************************)
(* The life of one character: the ProtocolGame objects of the clients that *)
(* log it in, and the Player objects those logins create                   *)
(* (server/network/protocol/protocolgame.cpp, creatures/players/player.cpp,*)
(* game/game.cpp).  The dispatcher runs tasks in FIFO order and scheduler  *)
(* events between any two of them; the network thread posts tasks, closes  *)
(* connections and reads Player fields in parsePacket() under the lock of  *)
(* the connection.  A login creates at most one Player, so a Player object *)
(* carries the name of the protocol that created it.                       *)
(*                                                                         *)
(* Handlers are operators from a state of the game to a state of the game. *)
(***************************************************************************)
EXTENDS Integers, Sequences, FiniteSets

CONSTANTS Protocols, \* the clients' ProtocolGame objects
          None,
          MaxTasks,  \* bound on queued tasks for those who post freely
          MaxBodies  \* bound on how often a Player is counted on the map

ASSUME GameSessionAssumption ==
    None \notin Protocols /\ MaxTasks \in Nat /\ MaxBodies \in Nat

Players == Protocols

VARIABLES game, \* what the dispatcher works on
          net   \* the packet the network thread is parsing: its protocol and
                \* the Player pointer it has read

vars == <<game, net>>

Task == [op : {"login", "release", "spawn", "despawn", "packet", "logout"},
         p  : Protocols]

Client ==  \* ProtocolGame
    [conn         : {"new", "open", "closed", "expired"},
     player       : Players \cup {None},
     acceptPackets: BOOLEAN,
     eventConnect : BOOLEAN,   \* connect() is scheduled
     late         : BOOLEAN]   \* connect() met a closed connection

Character ==  \* Player
    [stage     : {"loading", "placed", "removed"},
     client    : Protocols \cup {None},
     refs      : 0..4,         \* referenceCounter
     dead      : BOOLEAN,
     connecting: BOOLEAN,      \* isConnecting
     bodies    : 0..MaxBodies, \* entries on the tiles of the map
     check     : BOOLEAN,      \* creatureCheck
     inVector  : BOOLEAN,      \* inCheckCreaturesVector
     toRelease : 0..2]         \* entries in ToReleaseCreatures

TypeOK ==
    /\ game \in [proto    : [Protocols -> Client],
                 player   : [Players -> Character],
                 mapped   : Players \cup {None},  \* mappedPlayerNames and players
                 tasks    : Seq(Task),
                 autosend : SUBSET Protocols,     \* bufferedProtocols
                 sendAlls : Nat]                  \* scheduled sendAll()s
    /\ net \in [p : Protocols, o : Players] \cup {None}

Init ==
    /\ game = [proto    |-> [p \in Protocols |->
                  [conn |-> "new", player |-> None, acceptPackets |-> FALSE,
                   eventConnect |-> FALSE, late |-> FALSE]],
               player   |-> [o \in Players |->
                  [stage |-> "loading", client |-> None, refs |-> 0,
                   dead |-> FALSE, connecting |-> FALSE, bodies |-> 0,
                   check |-> FALSE, inVector |-> FALSE, toRelease |-> 0]],
               mapped   |-> None,
               tasks    |-> <<>>,
               autosend |-> {},
               sendAlls |-> 0]
    /\ net = None

-----------------------------------------------------------------------------
(* Helpers on a state g. *)

Posted(g, op, p) == [g EXCEPT !.tasks = Append(@, [op |-> op, p |-> p])]

Pending(g, op, p) == \E i \in DOMAIN g.tasks : g.tasks[i] = [op |-> op, p |-> p]

\* Connection::close() posts Protocol::release() on every call.
Close(g, p) == Posted([g EXCEPT !.proto[p].conn = "closed"], "release", p)

\* Protocol::disconnect(): nothing happens once the Connection object is gone.
Disconnect(g, p) == IF g.proto[p].conn = "expired" THEN g ELSE Close(g, p)

\* Fault: a further reference for a creature that is already in the list.
FirstCheckAlways(g, o) == TRUE

FirstCheck(g, o) == ~g.player[o].inVector

AddCreatureCheck(g, o) ==
    [g EXCEPT !.player[o].check = TRUE,
              !.player[o].inVector = TRUE,
              !.player[o].refs = IF FirstCheck(g, o) THEN @ + 1 ELSE @]

RemoveCreatureCheck(g, o) ==
    [g EXCEPT !.player[o].check = @ /\ ~g.player[o].inVector]

\* Map::placeCreature()
Placed(g, o) ==
    [g EXCEPT !.player[o].bodies = IF @ < MaxBodies THEN @ + 1 ELSE @]

\* Tile::removeCreature(): one entry, if there is one.  A Player whom despawn()
\* has taken off the map is not in the leaf's list either; what
\* QTreeLeafNode::removeCreature() does to that list then is undefined
\* (map.cpp:1218) and left out.
Unplaced(g, o) == [g EXCEPT !.player[o].bodies = IF @ > 0 THEN @ - 1 ELSE @]

AddPlayer(g, o) == [g EXCEPT !.mapped = o]

\* Erased by name: whichever object it refers to.  So is the entry of
\* players: the id is made from the guid (player.h:84), so all objects of one
\* character have the same, and both maps always hold the same object.
Erased(g, o) == None

RemovePlayer(g, o) == [g EXCEPT !.mapped = Erased(g, o)]

\* Game::ReleaseCreature(): the reference is given up by the next cleanup().
Released(g, o) == [g EXCEPT !.player[o].toRelease = @ + 1]

RemoveCreature(g, o) ==
    IF g.player[o].stage = "removed" THEN g
    ELSE RemoveCreatureCheck(
             Released([RemovePlayer(Unplaced(g, o), o)
                          EXCEPT !.player[o].stage = "removed"], o), o)

Cleanup(g) ==
    [g EXCEPT !.player = [o \in Players |->
        [g.player[o] EXCEPT !.refs = @ - g.player[o].toRelease, !.toRelease = 0]]]

\* OutputMessagePool::addProtocolToAutosend() schedules for an empty list.
NeedsSendAll(g) == g.autosend = {}

AddToAutosend(g, p) ==
    [g EXCEPT !.sendAlls = IF NeedsSendAll(g) THEN @ + 1 ELSE @,
              !.autosend = @ \cup {p}]

\* Fault: a connection is closed without its lock.
LockedNever(p) == FALSE

\* The network thread holds connectionLock while it parses a packet.
Locked(p) == net # None /\ net.p = p

\* close() waits for that lock.
Become(g) ==
    /\ \A p \in Protocols :
           game.proto[p].conn = "open" /\ g.proto[p].conn = "closed" => ~Locked(p)
    /\ game' = g

-----------------------------------------------------------------------------
(* ProtocolGame, on the dispatcher.  g is the state without the task. *)

IsOwnClient(g, p) ==
    LET o == g.proto[p].player IN o # None /\ g.player[o].client = p

Release(g, p) ==
    LET o == g.proto[p].player
        h == [g EXCEPT !.autosend = @ \ {p}]
    IN  IF IsOwnClient(g, p)
        THEN [h EXCEPT !.player[o].client = None,
                       !.player[o].refs = @ - 1,
                       !.proto[p].player = None]
        ELSE h

\* new Player(getThis())
NewPlayer(g, p) ==
    [g EXCEPT !.player[p].client = p, !.player[p].refs = @ + 1,
              !.proto[p].player = p]

\* Game::internalPlaceCreature(), then the rest of login().
EnterGame(g, p) ==
    LET placed == [AddPlayer(Placed(g, p), p)
                      EXCEPT !.player[p].refs = @ + 1, !.player[p].stage = "placed"]
    IN  [AddCreatureCheck(placed, p) EXCEPT !.proto[p].acceptPackets = TRUE]

\* Fault: connect() takes a Player that another client has taken meanwhile.
TakenNever(g, o) == o = None

\* foundPlayer is gone, or has a client.
Taken(g, o) == o = None \/ g.player[o].client # None

\* Fault: connect() does not look at the connection.
ExpiredNever(g, p) == FALSE

Expired(g, p) == g.proto[p].conn = "expired"

Connect(g0, p) ==
    LET g == [g0 EXCEPT !.proto[p].eventConnect = FALSE]
        o == g.mapped
    IN  IF Taken(g, o) THEN Disconnect(g, p)
        ELSE IF Expired(g, p) THEN g
        ELSE [g EXCEPT !.proto[p].player = o,
                       !.proto[p].acceptPackets = TRUE,
                       !.proto[p].late = g.proto[p].conn = "closed",
                       !.player[o].client = p,
                       !.player[o].connecting = FALSE,
                       !.player[o].refs = @ + 1]

\* The character is not in the game: refused (banned, server closed, waiting
\* list, ...), failed without a disconnect (prey data), or placed.
LoginNew(g, p) ==
    { Disconnect(NewPlayer(g, p), p),
      NewPlayer(g, p),
      AddToAutosend(EnterGame(NewPlayer(g, p), p), p) }

\* The character is in the game: REPLACE_KICK_ON_LOGIN decides.
LoginFound(g, p) ==
    LET o == g.mapped
        q == g.player[o].client
    IN  { Disconnect(g, p),
          IF q = None THEN AddToAutosend(Connect(g, p), p)
          ELSE AddToAutosend([Disconnect(g, q)
                                 EXCEPT !.player[o].connecting = TRUE,
                                        !.proto[p].eventConnect = TRUE], p) }

Login(g, p) == IF g.mapped = None THEN LoginNew(g, p) ELSE LoginFound(g, p)

\* Player::spawn(): on the map, checked and listed again, or no tile was free.
Spawn(g, p) ==
    LET o == g.proto[p].player
        h == [g EXCEPT !.player[o].dead = FALSE]
    IN  IF o = None THEN {g}
        ELSE { AddPlayer(AddCreatureCheck(Placed(h, o), o), o),
               RemoveCreature(Disconnect(h, p), o) }

Despawn(g, p) ==
    LET o == g.proto[p].player
    IN  IF o = None THEN {g} ELSE {RemoveCreature(Disconnect(g, p), o)}

\* ProtocolGame::logout(true, false): a removed Player is only disconnected;
\* otherwise the tile, a fight or a script may refuse.
Logout(g, p) ==
    LET o == g.proto[p].player
    IN  IF o = None THEN {g}
        ELSE {RemoveCreature(Disconnect(g, p), o)}
             \cup (IF g.player[o].stage = "removed" THEN {} ELSE {g})

\* parsePacketFromDispatcher() with the logout packet.
Packet(g, p) ==
    LET o == g.proto[p].player
    IN  IF o = None \/ g.player[o].stage = "removed" THEN {g}
        ELSE {Posted(g, "logout", p)}

-----------------------------------------------------------------------------
(* The dispatcher thread. *)

Effects(g, t) ==
    CASE t.op = "login"   -> Login(g, t.p)
      [] t.op = "release" -> {Release(g, t.p)}
      [] t.op = "spawn"   -> Spawn(g, t.p)
      [] t.op = "despawn" -> Despawn(g, t.p)
      [] t.op = "logout"  -> Logout(g, t.p)
      [] t.op = "packet"  -> Packet(g, t.p)

RunTask ==
    /\ game.tasks # <<>>
    /\ \E g \in Effects([game EXCEPT !.tasks = Tail(@)], Head(game.tasks)) : Become(g)
    /\ UNCHANGED net

\* The event login() scheduled is due.
ConnectEvent(p) ==
    /\ game.proto[p].eventConnect
    /\ Become(Connect(game, p))
    /\ UNCHANGED net

\* client->logout(_, true), or removeCreature() for a Player without client.
Leave(g, o) ==
    LET p == g.player[o].client
    IN  RemoveCreature(IF p = None THEN g ELSE Disconnect(g, p), o)

\* Player::sendPing(), from onThink(): no answer for a minute.
PingTimeout(o) ==
    /\ game.player[o].check /\ ~game.player[o].connecting
    /\ Len(game.tasks) < MaxTasks
    /\ Become(Leave(game, o))
    /\ UNCHANGED net

\* Player::kickPlayer(): idle, or by Game::setGameState().
Kick(o) ==
    /\ game.player[o].check \/ game.mapped = o
    /\ Len(game.tasks) < MaxTasks
    /\ Become(Leave(game, o))
    /\ UNCHANGED net

\* Player::death() ends with Player::despawn(): off the map and off the lists,
\* but neither removed nor released.
Death(o) ==
    /\ game.player[o].check
    /\ LET g == RemovePlayer(Unplaced(RemoveCreatureCheck(game, o), o), o)
       IN  game' = [g EXCEPT !.player[o].dead = TRUE]
    /\ UNCHANGED net

\* One of the lists is swept; then whatever is due to be released is.
CheckCreatures ==
    /\ \E list \in SUBSET {o \in Players : game.player[o].inVector} :
          LET leaving == {o \in list : ~game.player[o].check}
              swept   == [o \in Players |->
                            IF o \in leaving
                            THEN Released([game EXCEPT !.player[o].inVector = FALSE], o).player[o]
                            ELSE game.player[o]]
          IN  game' = Cleanup([game EXCEPT !.player = swept])
    /\ UNCHANGED net

\* Fault: the chain of events ends after one round.
SendAgainNever(g) == FALSE

SendAgain(g) == g.autosend # {}

SendAll ==
    /\ game.sendAlls > 0
    /\ game' = [game EXCEPT !.sendAlls = IF SendAgain(game) THEN @ ELSE @ - 1]
    /\ UNCHANGED net

-----------------------------------------------------------------------------
(* The network thread. *)

\* A client connects and is authenticated in onRecvFirstMessage().
FirstMessage(p) ==
    /\ net = None
    /\ game.proto[p].conn = "new"
    /\ Len(game.tasks) < MaxTasks
    /\ game' = Posted([game EXCEPT !.proto[p].conn = "open"], "login", p)
    /\ UNCHANGED net

\* parsePacket() reads its player pointer and finds one.
ParsePacket(p) ==
    /\ net = None
    /\ game.proto[p].conn = "open" /\ game.proto[p].acceptPackets
    /\ game.proto[p].player # None
    /\ net' = [p |-> p, o |-> game.proto[p].player]
    /\ UNCHANGED game

\* ... and looks at the Player: a removed one is left by closing, a dead one
\* is respawned or given up; any other packet goes to the dispatcher.
ParsePacketEnd ==
    /\ net # None
    /\ LET p == net.p
           o == game.player[net.o]
       IN  \/ UNCHANGED game
           \/ Len(game.tasks) < MaxTasks /\
              \/ o.stage = "removed" /\ game' = Close(game, p)
              \/ /\ o.stage # "removed" /\ o.dead
                 /\ \E op \in {"spawn", "despawn"} : game' = Posted(game, op, p)
              \/ /\ o.stage # "removed" /\ ~o.dead
                 /\ game' = Posted(game, "packet", p)
    /\ net' = None

\* The client closes, a read fails or times out; an aborted read or write of a
\* closed connection closes it once more.
NetworkCloses(p) ==
    /\ net = None
    /\ game.proto[p].conn \in {"open", "closed"}
    /\ Len(game.tasks) < MaxTasks
    /\ game' = Close(game, p)
    /\ UNCHANGED net

\* The last handler has ended: the Connection object is destroyed.
ConnectionGone(p) ==
    /\ net = None
    /\ game.proto[p].conn = "closed"
    /\ game' = [game EXCEPT !.proto[p].conn = "expired"]
    /\ UNCHANGED net

Next ==
    \/ RunTask \/ CheckCreatures \/ SendAll \/ ParsePacketEnd
    \/ \E p \in Protocols : \/ ConnectEvent(p) \/ FirstMessage(p) \/ ParsePacket(p)
                            \/ NetworkCloses(p) \/ ConnectionGone(p)
    \/ \E o \in Players : PingTimeout(o) \/ Kick(o) \/ Death(o)

Spec == Init /\ [][Next]_vars

-----------------------------------------------------------------------------
(* Properties. *)

\* A protocol has a Player exactly when the Player has that protocol as its
\* client: no two clients ever share a Player, through kicks by a second login,
\* connect() events and repeated release()s.
ClientAgreed ==
    \A p \in Protocols, o \in Players :
        game.proto[p].player = o <=> game.player[o].client = p

Count(b) == IF b THEN 1 ELSE 0

\* referenceCounter counts the holders of a Player: its client, its place in the
\* game, the check list, and releases cleanup() still owes.  It never reaches
\* zero early and no reference is counted twice, whatever the order of logout,
\* death, respawn, sweep and release().
RefsExact ==
    /\ TypeOK
    /\ \A o \in Players :
          LET c == game.player[o]
          IN  c.refs = Count(c.client # None) + Count(c.stage = "placed")
                       + Count(c.inVector) + c.toRelease

Alive(o) == game.player[o].refs > 0

\* No Player is deleted while it can be reached: by its name or id, from the
\* check lists, or by the network thread, which reads isRemoved() and isDead()
\* through a pointer that only the lock of the connection protects.
ReachableIsAlive ==
    /\ game.mapped # None => Alive(game.mapped)
    /\ \A o \in Players : game.player[o].check => Alive(o)
    /\ net # None => Alive(net.o)

\* While a protocol is buffered a sendAll() is scheduled, and a buffered
\* protocol whose connection is closed has a release() coming: output is never
\* stuck and no closed client stays in bufferedProtocols.
AutosendRuns ==
    /\ game.autosend # {} => game.sendAlls > 0
    /\ \A p \in game.autosend :
           game.proto[p].conn \in {"closed", "expired"} => Pending(game, "release", p)

\* A Player keeps a client whose connection is closed only until the release()
\* already posted, unless connect() attached it to a connection that had been
\* closed but not yet destroyed.
ClosedIsReleased ==
    \A p \in Protocols :
        /\ game.proto[p].player # None
        /\ game.proto[p].conn \in {"closed", "expired"}
        /\ ~game.proto[p].late
        => Pending(game, "release", p)

\* allowClones is false: a character stands on the map with one Player object.
NoClones ==
    Cardinality({o \in Players : game.player[o].bodies > 0}) <= 1
=============================================================================
