--------------------------- MODULE GameSessionProofs -------------------------
(***************************************************************************)
(* Theorems about the life of a character, for any number of clients and   *)
(* any bound on the queue.  Handlers are operators on the state of the     *)
(* game: what each does to a sound state is a lemma of its own.            *)
(***************************************************************************)
EXTENDS GameSession, TLAPS

-----------------------------------------------------------------------------
(* The inductive invariant, as predicates on a state g. *)

Games ==
    [proto : [Protocols -> Client], player : [Players -> Character],
     mapped : Players \cup {None}, tasks : Seq(Task),
     autosend : SUBSET Protocols, sendAlls : Nat]

\* A Player by itself: the count is exact, a release is owed once and only for
\* a removed Player, and only one that was placed is ever checked.
Exact(c) ==
    /\ c.refs = Count(c.client # None) + Count(c.stage = "placed")
                  + Count(c.inVector) + c.toRelease
    /\ c.toRelease \in {0, 1}
    /\ c.toRelease = 1 => c.stage = "removed"
    /\ c.check => c.inVector
    /\ c.inVector => c.stage # "loading"

\* Nothing has happened to the client p yet but, perhaps, a connection.
Blank(g, p) ==
    /\ g.proto[p].player = None /\ ~g.proto[p].eventConnect /\ ~g.proto[p].acceptPackets
    /\ g.player[p].client = None /\ g.player[p].stage = "loading"
    /\ p \notin g.autosend

Requests == {"spawn", "despawn", "packet", "logout"}

\* A login is the first task of its client but for requests, and is there once.
LoginFirst(tasks) ==
    \A i, j \in DOMAIN tasks :
        /\ tasks[i].op = "login" /\ tasks[j].p = tasks[i].p
        /\ tasks[j].op \in {"login", "release"}
        => i <= j

\* What a client has reached, and which of its tasks may be queued.
Orderly(g, p) ==
    /\ g.proto[p].acceptPackets /\ g.proto[p].player # None =>
          g.player[g.proto[p].player].stage # "loading"
    /\ g.proto[p].eventConnect => g.proto[p].player = None
    /\ g.proto[p].conn = "new" => Blank(g, p) /\ ~Pending(g, "login", p)
    /\ Pending(g, "login", p) => Blank(g, p)
    /\ Pending(g, "release", p) => g.proto[p].conn \in {"closed", "expired"}
    /\ \A op \in Requests : Pending(g, op, p) => g.proto[p].acceptPackets

\* Holds also in the middle of a handler.
Core(g) ==
    /\ g \in Games
    /\ \A p \in Protocols, o \in Players : g.proto[p].player = o <=> g.player[o].client = p
    /\ \A o \in Players : Exact(g.player[o])
    /\ g.mapped # None => g.player[g.mapped].check
    /\ g.autosend # {} => g.sendAlls > 0
    /\ LoginFirst(g.tasks)
    /\ \A p \in Protocols : Orderly(g, p)

\* Whoever holds on to a closed connection has a release() coming.
Closing(g, p) ==
    /\ g.proto[p].conn \in {"closed", "expired"}
    /\ \/ p \in g.autosend
       \/ g.proto[p].player # None /\ ~g.proto[p].late
       \/ Pending(g, "login", p)
    => Pending(g, "release", p)

\* The network thread looks at the Player of an open connection.
Parsing ==
    net # None => /\ game.proto[net.p].conn = "open" /\ game.proto[net.p].player = net.o
                  /\ game.proto[net.p].acceptPackets

IInv == TypeOK /\ Core(game) /\ (\A p \in Protocols : Closing(game, p)) /\ Parsing

-----------------------------------------------------------------------------
(* Changes of one Player. *)

SetPlayer(g, o, c) == [g EXCEPT !.player = [@ EXCEPT ![o] = c]]

\* All but the Player o and the name map is as before.
OnlyPlayer(g, h, o) ==
    /\ h \in Games
    /\ h.proto = g.proto /\ h.tasks = g.tasks
    /\ h.autosend = g.autosend /\ h.sendAlls = g.sendAlls
    /\ \A r \in Players : r # o => h.player[r] = g.player[r]

LEMMA SetPlayerDoes ==
    ASSUME NEW g \in Games, NEW o \in Players, NEW c \in Character
    PROVE  LET h == SetPlayer(g, o, c)
           IN  OnlyPlayer(g, h, o) /\ h.player[o] = c /\ h.mapped = g.mapped
<1> DEFINE f == [g.player EXCEPT ![o] = c]
<1>1. f \in [Players -> Character] /\ f[o] = c /\ \A r \in Players : r # o => f[r] = g.player[r]
  BY DEF Games
<1>2. SetPlayer(g, o, c) = [g EXCEPT !.player = f]
  BY DEF SetPlayer
<1> HIDE DEF f
<1>3. QED
  BY <1>1, <1>2 DEF OnlyPlayer, Games

LEMMA AddCreatureCheckIs ==
    ASSUME NEW g \in Games, NEW o \in Players
    PROVE  AddCreatureCheck(g, o) =
           SetPlayer(g, o, [g.player[o] EXCEPT !.check = TRUE, !.inVector = TRUE,
                                !.refs = IF ~g.player[o].inVector THEN @ + 1 ELSE @])
BY DEF AddCreatureCheck, SetPlayer, FirstCheck, Games, Character

LEMMA RemoveCreatureCheckIs ==
    ASSUME NEW g \in Games, NEW o \in Players
    PROVE  RemoveCreatureCheck(g, o) =
           SetPlayer(g, o, [g.player[o] EXCEPT !.check = @ /\ ~g.player[o].inVector])
BY DEF RemoveCreatureCheck, SetPlayer

\* A step of a Player that is in the game or has been: its client stays.
Moved(g, h, o) ==
    /\ OnlyPlayer(g, h, o)
    /\ g.player[o].stage # "loading" /\ h.player[o].stage # "loading"
    /\ h.player[o].client = g.player[o].client
    /\ Exact(h.player[o])
    /\ h.mapped # None => h.player[h.mapped].check

\* What all handlers but release() respect: a client keeps its Player, and an
\* open connection is at most closed.
Stays(g, h) ==
    \A p \in Protocols :
        /\ g.proto[p].player # None => h.proto[p].player = g.proto[p].player
        /\ g.proto[p].acceptPackets => h.proto[p].acceptPackets
        /\ g.proto[p].conn = "open" => h.proto[p].conn \in {"open", "closed"}
        /\ g.proto[p].conn = "closed" => h.proto[p].conn = "closed"

\* What is proved of each handler.
Preserves(g, h) ==
    Core(h) /\ Stays(g, h) /\ \A p \in Protocols : Closing(g, p) => Closing(h, p)

LEMMA PreservesTransitive ==
    ASSUME NEW g, NEW h, NEW k, Preserves(g, h), Preserves(h, k)
    PROVE  Preserves(g, k)
BY DEF Preserves, Stays

LEMMA PreservesNothing ==
    ASSUME NEW g, Core(g)
    PROVE  Preserves(g, g)
BY DEF Preserves, Stays

\* A step of any number of Players: clients stay, and none leaves "loading".
Rearranged(g, h) ==
    /\ h \in Games
    /\ h.proto = g.proto /\ h.tasks = g.tasks
    /\ h.autosend = g.autosend /\ h.sendAlls = g.sendAlls
    /\ h.mapped # None => h.player[h.mapped].check
    /\ \A r \in Players :
          /\ h.player[r].client = g.player[r].client /\ Exact(h.player[r])
          /\ h.player[r].stage = "loading" <=> g.player[r].stage = "loading"

LEMMA RearrangedPreserves ==
    ASSUME NEW g, Core(g), NEW h, Rearranged(g, h)
    PROVE  Preserves(g, h)
<1> USE DEF Rearranged
<1>1. /\ g \in Games /\ h \in Games /\ h.proto = g.proto /\ h.tasks = g.tasks
      /\ h.autosend = g.autosend /\ h.sendAlls = g.sendAlls
  BY DEF Core
<1>2. \A op, p : Pending(h, op, p) <=> Pending(g, op, p)
  BY <1>1 DEF Pending
<1>5. \A p \in Protocols : Blank(g, p) => Blank(h, p)
  BY <1>1 DEF Blank, Players
<1>6. \A p \in Protocols, r \in Players : h.proto[p].player = r <=> h.player[r].client = p
  BY <1>1 DEF Core
<1>7. ASSUME NEW p \in Protocols
      PROVE  Orderly(h, p)
  <2>1. g.proto[p].player # None => g.proto[p].player \in Players
    BY <1>1 DEF Games, Client
  <2>2. Orderly(g, p)
    BY DEF Core
  <2>3. QED
    BY <1>1, <1>2, <1>5, <2>1, <2>2 DEF Orderly
<1>8. Core(h)
  BY <1>1, <1>6, <1>7 DEF Core
<1>9. Stays(g, h)
  BY <1>1 DEF Stays
<1>10. \A p \in Protocols : Closing(g, p) => Closing(h, p)
  BY <1>1, <1>2 DEF Closing
<1>11. QED
  BY <1>8, <1>9, <1>10 DEF Preserves

LEMMA MovedPreserves ==
    ASSUME NEW g, Core(g), NEW o \in Players, NEW h, Moved(g, h, o)
    PROVE  Preserves(g, h)
<1>1. Rearranged(g, h)
  BY DEF Moved, OnlyPlayer, Rearranged, Core
<1>2. QED
  BY <1>1, RearrangedPreserves

SetMapped(g, m) == [g EXCEPT !.mapped = m]

LEMMA SetMappedDoes ==
    ASSUME NEW g \in Games, NEW m \in Players \cup {None}
    PROVE  LET h == SetMapped(g, m)
           IN  /\ h \in Games /\ h.mapped = m /\ h.player = g.player /\ h.proto = g.proto
               /\ h.tasks = g.tasks /\ h.autosend = g.autosend /\ h.sendAlls = g.sendAlls
BY DEF SetMapped, Games

LEMMA PlacedIs ==
    ASSUME NEW g \in Games, NEW o \in Players
    PROVE  /\ Placed(g, o) =
              SetPlayer(g, o, [g.player[o] EXCEPT !.bodies = IF @ < MaxBodies THEN @ + 1 ELSE @])
           /\ Unplaced(g, o) =
              SetPlayer(g, o, [g.player[o] EXCEPT !.bodies = IF @ > 0 THEN @ - 1 ELSE @])
BY DEF Placed, Unplaced, SetPlayer

LEMMA PlacedDoes ==
    ASSUME NEW g \in Games, NEW o \in Players, NEW h, h = Placed(g, o) \/ h = Unplaced(g, o)
    PROVE  /\ OnlyPlayer(g, h, o) /\ h.mapped = g.mapped
           /\ h.player[o].stage = g.player[o].stage /\ h.player[o].client = g.player[o].client
           /\ h.player[o].refs = g.player[o].refs /\ h.player[o].check = g.player[o].check
           /\ h.player[o].inVector = g.player[o].inVector
           /\ h.player[o].toRelease = g.player[o].toRelease
<1> DEFINE c == [g.player[o] EXCEPT !.bodies = IF @ < MaxBodies THEN @ + 1 ELSE @]
           d == [g.player[o] EXCEPT !.bodies = IF @ > 0 THEN @ - 1 ELSE @]
<1>1. g.player[o] \in Character /\ g.player[o].bodies \in 0..MaxBodies
  BY DEF Games, Character
<1>2. MaxBodies \in Nat
  BY GameSessionAssumption
<1>3. /\ (IF g.player[o].bodies < MaxBodies THEN g.player[o].bodies + 1 ELSE g.player[o].bodies)
            \in 0..MaxBodies
      /\ (IF g.player[o].bodies > 0 THEN g.player[o].bodies - 1 ELSE g.player[o].bodies)
            \in 0..MaxBodies
  BY <1>1, <1>2
<1>4. c \in Character /\ d \in Character
  BY <1>1, <1>3 DEF Character
<1>5. ASSUME NEW e, e = c \/ e = d
      PROVE  /\ e.stage = g.player[o].stage /\ e.client = g.player[o].client
             /\ e.refs = g.player[o].refs /\ e.check = g.player[o].check
             /\ e.inVector = g.player[o].inVector /\ e.toRelease = g.player[o].toRelease
  BY <1>1, <1>5 DEF Character
<1>6. h = SetPlayer(g, o, c) \/ h = SetPlayer(g, o, d)
  BY PlacedIs
<1> HIDE DEF c, d
<1>7. OnlyPlayer(g, h, o) /\ (h.player[o] = c \/ h.player[o] = d) /\ h.mapped = g.mapped
  BY <1>4, <1>6, SetPlayerDoes
<1>8. QED
  BY <1>5, <1>7

LEMMA RemoveCreaturePreserves ==
    ASSUME NEW g, Core(g), NEW o \in Players, g.player[o].stage # "loading"
    PROVE  Preserves(g, RemoveCreature(g, o))
<1>1. CASE g.player[o].stage = "removed"
  BY <1>1, PreservesNothing DEF RemoveCreature
<1>2. CASE g.player[o].stage # "removed"
  <2>0. /\ g \in Games /\ g.player[o] \in Character /\ Exact(g.player[o])
        /\ g.player[o].stage = "placed"
    BY <1>2 DEF Core, Games, Character
  <2>1. PICK u : u = Unplaced(g, o)
    OBVIOUS
  <2>2. /\ OnlyPlayer(g, u, o)
        /\ u.player[o].stage = g.player[o].stage /\ u.player[o].client = g.player[o].client
        /\ u.player[o].refs = g.player[o].refs /\ u.player[o].check = g.player[o].check
        /\ u.player[o].inVector = g.player[o].inVector
        /\ u.player[o].toRelease = g.player[o].toRelease
    BY <2>0, <2>1, PlacedDoes
  <2>3. PICK v : v = SetMapped(u, None)
    OBVIOUS
  <2>4. OnlyPlayer(g, v, o) /\ v.mapped = None /\ v.player[o] = u.player[o]
    BY <2>2, <2>3, SetMappedDoes DEF OnlyPlayer
  <2>5. v.player[o] \in Character /\ v \in Games
    BY <2>4 DEF OnlyPlayer, Games
  <2>6. /\ v.player[o].toRelease + 1 = 1
        /\ (v.player[o].check /\ ~v.player[o].inVector) = FALSE
    BY <2>0, <2>2, <2>4 DEF Exact
  <2> DEFINE c1 == [v.player[o] EXCEPT !.stage = "removed"]
             w == SetPlayer(v, o, c1)
             c2 == [c1 EXCEPT !.toRelease = @ + 1]
             x == SetPlayer(w, o, c2)
             c3 == [c2 EXCEPT !.check = @ /\ ~c2.inVector]
             h == SetPlayer(x, o, c3)
  <2>7. /\ c1 \in Character /\ c1.stage = "removed" /\ c1.toRelease = v.player[o].toRelease
        /\ c1.client = v.player[o].client /\ c1.refs = v.player[o].refs
        /\ c1.inVector = v.player[o].inVector /\ c1.check = v.player[o].check
    BY <2>5 DEF Character
  <2> HIDE DEF c1
  <2>8. /\ c2 \in Character /\ c2.stage = "removed" /\ c2.toRelease = 1
        /\ c2.client = c1.client /\ c2.refs = c1.refs
        /\ c2.inVector = c1.inVector /\ c2.check = c1.check
    BY <2>6, <2>7 DEF Character
  <2> HIDE DEF c2
  <2>9. (c2.check /\ ~c2.inVector) = FALSE
    BY <2>6, <2>7, <2>8
  <2>10. /\ c3 \in Character /\ c3.stage = "removed" /\ c3.toRelease = 1 /\ c3.check = FALSE
         /\ c3.client = c2.client /\ c3.refs = c2.refs /\ c3.inVector = c2.inVector
    BY <2>8, <2>9 DEF Character
  <2> HIDE DEF c3
  <2>11. OnlyPlayer(v, w, o) /\ w.player[o] = c1 /\ w.mapped = None
    BY <2>4, <2>5, <2>7, SetPlayerDoes
  <2>12. OnlyPlayer(w, x, o) /\ x.player[o] = c2 /\ x.mapped = None
    BY <2>8, <2>11, SetPlayerDoes DEF OnlyPlayer
  <2>13. OnlyPlayer(x, h, o) /\ h.player[o] = c3 /\ h.mapped = None
    BY <2>10, <2>12, SetPlayerDoes DEF OnlyPlayer
  <2>14. RemoveCreature(g, o) = h
    <3>1. w = [RemovePlayer(u, o) EXCEPT !.player[o].stage = "removed"]
      BY <2>3 DEF RemovePlayer, Erased, SetMapped, SetPlayer, c1
    <3>2. x = Released(w, o)
      BY <2>11 DEF Released, SetPlayer, c2
    <3>3. h = RemoveCreatureCheck(x, o)
      BY <2>12 DEF RemoveCreatureCheck, SetPlayer, c3
    <3> HIDE DEF w, x, h
    <3>4. QED
      BY <1>2, <2>1, <3>1, <3>2, <3>3 DEF RemoveCreature
  <2> HIDE DEF w, x, h
  <2>15. OnlyPlayer(g, h, o)
    BY <2>4, <2>11, <2>12, <2>13 DEF OnlyPlayer
  <2>16. Exact(c3)
    <3>1. /\ c3.client = g.player[o].client /\ c3.refs = g.player[o].refs
          /\ c3.inVector = g.player[o].inVector
      BY <2>2, <2>4, <2>7, <2>8, <2>10
    <3>2. /\ g.player[o].refs = Count(g.player[o].client # None) + Count(TRUE)
                                  + Count(g.player[o].inVector) + 0
      BY <2>0 DEF Exact
    <3>3. c3.refs = Count(c3.client # None) + Count(FALSE) + Count(c3.inVector) + 1
      BY <3>1, <3>2 DEF Count
    <3>4. QED
      BY <2>0, <2>10, <3>1, <3>3 DEF Exact
  <2>17. Moved(g, h, o)
    BY <2>0, <2>2, <2>4, <2>7, <2>8, <2>10, <2>13, <2>15, <2>16 DEF Moved
  <2>18. QED
    BY <2>14, <2>17, MovedPreserves
<1>3. QED
  BY <1>1, <1>2

LEMMA AddCreatureCheckDoes ==
    ASSUME NEW g \in Games, NEW o \in Players, Exact(g.player[o]),
           g.player[o].stage # "loading"
    PROVE  LET h == AddCreatureCheck(g, o)
           IN  /\ OnlyPlayer(g, h, o) /\ h.mapped = g.mapped
               /\ Exact(h.player[o]) /\ h.player[o].check
               /\ h.player[o].stage = g.player[o].stage
               /\ h.player[o].client = g.player[o].client
<1> DEFINE b == g.player[o]
           c == [b EXCEPT !.check = TRUE, !.inVector = TRUE,
                          !.refs = IF ~b.inVector THEN @ + 1 ELSE @]
           h == AddCreatureCheck(g, o)
<1>1. b \in Character /\ b.inVector \in BOOLEAN
  BY DEF Games, Character
<1>2. /\ b.refs \in Nat /\ b.toRelease \in {0, 1}
      /\ b.refs = Count(b.client # None) + Count(b.stage = "placed") + Count(b.inVector)
                    + b.toRelease
      /\ b.toRelease = 1 => b.stage = "removed"
  BY <1>1 DEF Exact, Character
<1>3. (IF ~b.inVector THEN b.refs + 1 ELSE b.refs)
        = Count(b.client # None) + Count(b.stage = "placed") + 1 + b.toRelease
  <2>1. CASE b.inVector
    BY <1>2, <2>1 DEF Count
  <2>2. CASE ~b.inVector
    BY <1>2, <2>2 DEF Count
  <2>3. QED
    BY <2>1, <2>2
<1>4. (IF ~b.inVector THEN b.refs + 1 ELSE b.refs) \in 0..4
  BY <1>2, <1>3 DEF Count
<1>5. c \in Character
  BY <1>1, <1>4 DEF Character
<1>6. /\ c.check = TRUE /\ c.inVector = TRUE /\ c.stage = b.stage /\ c.client = b.client
      /\ c.toRelease = b.toRelease
      /\ c.refs = IF ~b.inVector THEN b.refs + 1 ELSE b.refs
  BY <1>1 DEF Character
<1>7. h = SetPlayer(g, o, c)
  BY AddCreatureCheckIs
<1> HIDE DEF b, c, h
<1>8. Exact(c)
  <2>1. c.refs = Count(c.client # None) + Count(c.stage = "placed") + 1 + c.toRelease
    BY <1>3, <1>6
  <2>2. Count(c.inVector) = 1
    BY <1>6 DEF Count
  <2>3. c.refs = Count(c.client # None) + Count(c.stage = "placed") + Count(c.inVector) + c.toRelease
    BY <2>1, <2>2
  <2>4. c.stage # "loading"
    BY <1>6 DEF b
  <2>5. QED
    BY <1>2, <1>6, <2>3, <2>4 DEF Exact
<1>9. OnlyPlayer(g, h, o) /\ h.player[o] = c /\ h.mapped = g.mapped
  BY <1>5, <1>7, SetPlayerDoes
<1>10. QED
  BY <1>6, <1>8, <1>9 DEF b, h

LEMMA DeadDoes ==
    ASSUME NEW g, Core(g), NEW o \in Players, g.player[o].stage # "loading",
           NEW dead \in BOOLEAN
    PROVE  LET h == [g EXCEPT !.player[o].dead = dead]
           IN  /\ Preserves(g, h) /\ h.mapped = g.mapped /\ OnlyPlayer(g, h, o)
               /\ h.player[o].stage = g.player[o].stage
<1> DEFINE c == [g.player[o] EXCEPT !.dead = dead]
           h == [g EXCEPT !.player[o].dead = dead]
<1>0. g \in Games
  BY DEF Core
<1>1. g.player[o] \in Character
  BY <1>0 DEF Games
<1>2. c \in Character
  BY <1>1 DEF Character
<1>3. /\ c.check = g.player[o].check /\ c.inVector = g.player[o].inVector
      /\ c.stage = g.player[o].stage /\ c.client = g.player[o].client
      /\ c.toRelease = g.player[o].toRelease /\ c.refs = g.player[o].refs
  BY <1>1 DEF Character
<1>4. h = SetPlayer(g, o, c)
  BY DEF SetPlayer
<1> HIDE DEF c, h
<1>5. OnlyPlayer(g, h, o) /\ h.player[o] = c /\ h.mapped = g.mapped
  BY <1>0, <1>2, <1>4, SetPlayerDoes
<1>6. Exact(c)
  BY <1>3 DEF Core, Exact
<1>7. h.mapped # None => h.player[h.mapped].check
  BY <1>3, <1>5 DEF Core, OnlyPlayer, Games
<1>8. Moved(g, h, o)
  BY <1>3, <1>5, <1>6, <1>7 DEF Moved
<1>9. QED
  BY <1>3, <1>5, <1>8, MovedPreserves DEF h

LEMMA RespawnPreserves ==
    ASSUME NEW g, Core(g), NEW o \in Players, g.player[o].stage # "loading"
    PROVE  Preserves(g, AddPlayer(AddCreatureCheck(Placed(g, o), o), o))
<1>0. g \in Games /\ Exact(g.player[o])
  BY DEF Core
<1>1. PICK u : u = Placed(g, o)
  OBVIOUS
<1>2. /\ OnlyPlayer(g, u, o) /\ u.mapped = g.mapped
      /\ u.player[o].stage = g.player[o].stage /\ u.player[o].client = g.player[o].client
      /\ u.player[o].refs = g.player[o].refs /\ u.player[o].check = g.player[o].check
      /\ u.player[o].inVector = g.player[o].inVector
      /\ u.player[o].toRelease = g.player[o].toRelease
  BY <1>0, <1>1, PlacedDoes
<1>3. u \in Games /\ Exact(u.player[o]) /\ u.player[o].stage # "loading"
  BY <1>0, <1>2 DEF Exact, OnlyPlayer
<1>4. PICK v : v = AddCreatureCheck(u, o)
  OBVIOUS
<1>5. /\ OnlyPlayer(u, v, o) /\ Exact(v.player[o]) /\ v.player[o].check
      /\ v.player[o].stage = u.player[o].stage /\ v.player[o].client = u.player[o].client
  BY <1>3, <1>4, AddCreatureCheckDoes
<1>6. PICK h : h = SetMapped(v, o)
  OBVIOUS
<1>7. /\ h \in Games /\ h.mapped = o /\ h.player = v.player /\ h.proto = v.proto
      /\ h.tasks = v.tasks /\ h.autosend = v.autosend /\ h.sendAlls = v.sendAlls
  BY <1>5, <1>6, SetMappedDoes DEF OnlyPlayer
<1>8. h = AddPlayer(AddCreatureCheck(Placed(g, o), o), o)
  BY <1>1, <1>4, <1>6 DEF AddPlayer, SetMapped
<1>9. Moved(g, h, o)
  BY <1>2, <1>3, <1>5, <1>7 DEF Moved, OnlyPlayer
<1>10. QED
  BY <1>8, <1>9, MovedPreserves

LEMMA DespawnPreserves ==
    ASSUME NEW g, Core(g), NEW o \in Players, g.player[o].check
    PROVE  LET h == RemovePlayer(Unplaced(RemoveCreatureCheck(g, o), o), o)
           IN  Preserves(g, h) /\ OnlyPlayer(g, h, o) /\ h.player[o].stage # "loading"
<1>0. g \in Games /\ Exact(g.player[o]) /\ g.player[o] \in Character
  BY DEF Core, Games
<1> DEFINE c == [g.player[o] EXCEPT !.check = @ /\ ~g.player[o].inVector]
           u == SetPlayer(g, o, c)
<1>1. (g.player[o].check /\ ~g.player[o].inVector) = FALSE /\ g.player[o].stage # "loading"
  BY <1>0 DEF Exact
<1>2. /\ c \in Character /\ c.check = FALSE /\ c.inVector = g.player[o].inVector
      /\ c.stage = g.player[o].stage /\ c.client = g.player[o].client
      /\ c.toRelease = g.player[o].toRelease /\ c.refs = g.player[o].refs
  BY <1>0, <1>1 DEF Character
<1> HIDE DEF c
<1>3. OnlyPlayer(g, u, o) /\ u.player[o] = c
  BY <1>0, <1>2, SetPlayerDoes
<1>4. u = RemoveCreatureCheck(g, o)
  BY DEF RemoveCreatureCheck, SetPlayer, c
<1> HIDE DEF u
<1>5. PICK v : v = Unplaced(u, o)
  OBVIOUS
<1>6. /\ OnlyPlayer(u, v, o)
      /\ v.player[o].stage = u.player[o].stage /\ v.player[o].client = u.player[o].client
      /\ v.player[o].refs = u.player[o].refs /\ v.player[o].check = u.player[o].check
      /\ v.player[o].inVector = u.player[o].inVector
      /\ v.player[o].toRelease = u.player[o].toRelease
  BY <1>3, <1>5, PlacedDoes DEF OnlyPlayer
<1>7. PICK h : h = SetMapped(v, None)
  OBVIOUS
<1>8. /\ h \in Games /\ h.mapped = None /\ h.player = v.player /\ h.proto = v.proto
      /\ h.tasks = v.tasks /\ h.autosend = v.autosend /\ h.sendAlls = v.sendAlls
  BY <1>6, <1>7, SetMappedDoes DEF OnlyPlayer
<1>9. h = RemovePlayer(Unplaced(RemoveCreatureCheck(g, o), o), o)
  BY <1>4, <1>5, <1>7 DEF RemovePlayer, Erased, SetMapped
<1>10. Exact(h.player[o])
  BY <1>0, <1>2, <1>3, <1>6, <1>8 DEF Exact
<1>11. Moved(g, h, o)
  BY <1>1, <1>2, <1>3, <1>6, <1>8, <1>10 DEF Moved, OnlyPlayer
<1>12. QED
  BY <1>9, <1>11, MovedPreserves DEF Moved

-----------------------------------------------------------------------------
(* Tasks and connections. *)

In(tasks, op, p) == \E i \in DOMAIN tasks : tasks[i] = [op |-> op, p |-> p]

LEMMA Appended ==
    ASSUME NEW s \in Seq(Task), NEW t \in Task, NEW u, u = Append(s, t)
    PROVE  /\ u \in Seq(Task) /\ DOMAIN s = 1..Len(s) /\ DOMAIN u = 1..(Len(s) + 1)
           /\ Len(s) \in Nat /\ u[Len(s) + 1] = t /\ \A i \in 1..Len(s) : u[i] = s[i]
OBVIOUS

LEMMA InAppended ==
    ASSUME NEW s \in Seq(Task), NEW t \in Task, NEW u, u = Append(s, t)
    PROVE  \A op, p : In(u, op, p) <=> In(s, op, p) \/ t = [op |-> op, p |-> p]
<1>1. /\ DOMAIN s = 1..Len(s) /\ DOMAIN u = 1..(Len(s) + 1)
      /\ Len(s) \in Nat /\ u[Len(s) + 1] = t /\ \A i \in 1..Len(s) : u[i] = s[i]
  BY Appended
<1>2. 1..(Len(s) + 1) = (1..Len(s)) \cup {Len(s) + 1}
  BY <1>1
<1>3. QED
  BY <1>1, <1>2 DEF In

LEMMA FirstAppended ==
    ASSUME NEW s \in Seq(Task), NEW t \in Task, NEW u, u = Append(s, t), LoginFirst(s),
           t.op # "login" \/ (~In(s, "login", t.p) /\ ~In(s, "release", t.p))
    PROVE  LoginFirst(u)
<1>1. /\ DOMAIN s = 1..Len(s) /\ DOMAIN u = 1..(Len(s) + 1)
      /\ Len(s) \in Nat /\ u[Len(s) + 1] = t /\ \A i \in 1..Len(s) : u[i] = s[i]
  BY Appended
<1>2. SUFFICES ASSUME NEW i \in DOMAIN u, NEW j \in DOMAIN u,
                      u[i].op = "login", u[j].p = u[i].p, u[j].op \in {"login", "release"}
               PROVE  i <= j
  BY DEF LoginFirst
<1>3. CASE j = Len(s) + 1
  BY <1>1, <1>3
<1>4. CASE j # Len(s) + 1 /\ i # Len(s) + 1
  <2>1. i \in DOMAIN s /\ j \in DOMAIN s
    BY <1>1, <1>4
  <2>2. QED
    BY <1>1, <1>2, <2>1 DEF LoginFirst
<1>5. CASE j # Len(s) + 1 /\ i = Len(s) + 1
  <2>1. j \in DOMAIN s /\ s[j] = u[j] /\ s[j] \in Task
    BY <1>1, <1>5
  <2>2. t.op = "login" /\ t.p = s[j].p
    BY <1>1, <1>2, <1>5, <2>1
  <2>3. s[j] = [op |-> s[j].op, p |-> s[j].p]
    BY <2>1 DEF Task
  <2>4. In(s, "login", t.p) \/ In(s, "release", t.p)
    BY <1>2, <2>1, <2>2, <2>3 DEF In
  <2>5. QED
    BY <2>2, <2>4
<1>6. QED
  BY <1>3, <1>4, <1>5

Ops == {"login", "release", "spawn", "despawn", "packet", "logout"}

LEMMA PostedDoes ==
    ASSUME NEW g \in Games, NEW p \in Protocols, NEW op \in Ops
    PROVE  LET h == Posted(g, op, p)
           IN  /\ h \in Games /\ h.proto = g.proto /\ h.player = g.player /\ h.mapped = g.mapped
               /\ h.autosend = g.autosend /\ h.sendAlls = g.sendAlls
               /\ \A x, q : Pending(h, x, q) <=> Pending(g, x, q) \/ (x = op /\ q = p)
               /\ LoginFirst(g.tasks) /\ (op = "login" => ~Pending(g, "login", p) /\ ~Pending(g, "release", p))
                     => LoginFirst(h.tasks)
<1> DEFINE t == [op |-> op, p |-> p]
           u == Append(g.tasks, t)
           h == Posted(g, op, p)
<1>1. t \in Task /\ g.tasks \in Seq(Task) /\ t.op = op /\ t.p = p
  BY DEF Task, Games, Ops
<1>2. u \in Seq(Task)
  BY <1>1
<1>3. h = [g EXCEPT !.tasks = u]
  BY DEF Posted
<1>4. \A x, q : t = [op |-> x, p |-> q] <=> (x = op /\ q = p)
  OBVIOUS
<1>5. \A x, q : In(u, x, q) <=> In(g.tasks, x, q) \/ (x = op /\ q = p)
  <2>1. u = Append(g.tasks, t)
    OBVIOUS
  <2> HIDE DEF t, u
  <2>2. \A x, q : In(u, x, q) <=> In(g.tasks, x, q) \/ t = [op |-> x, p |-> q]
    <3>1. PICK s \in Seq(Task) : s = g.tasks
      BY <1>1
    <3>2. PICK v : v = u
      OBVIOUS
    <3>3. PICK y \in Task : y = t
      BY <1>1
    <3>4. v = Append(s, y)
      BY <2>1, <3>1, <3>2, <3>3
    <3>5. \A x, q : In(v, x, q) <=> In(s, x, q) \/ y = [op |-> x, p |-> q]
      BY <3>4, InAppended
    <3>6. QED
      BY <3>1, <3>2, <3>3, <3>5
  <2>3. QED
    BY <1>4, <2>2
<1>6. LoginFirst(g.tasks) /\ (t.op # "login" \/ (~In(g.tasks, "login", t.p) /\ ~In(g.tasks, "release", t.p)))
        => LoginFirst(u)
  <2> HIDE DEF t
  <2>1. QED
    BY <1>1, FirstAppended
<1> HIDE DEF t, u, h
<1>7. /\ h \in Games /\ h.proto = g.proto /\ h.player = g.player /\ h.mapped = g.mapped
      /\ h.autosend = g.autosend /\ h.sendAlls = g.sendAlls /\ h.tasks = u
  BY <1>2, <1>3 DEF Games
<1>8. \A x, q : Pending(h, x, q) <=> Pending(g, x, q) \/ (x = op /\ q = p)
  BY <1>5, <1>7 DEF Pending, In
<1>9. LoginFirst(g.tasks) /\ (op = "login" => ~Pending(g, "login", p) /\ ~Pending(g, "release", p))
        => LoginFirst(h.tasks)
  BY <1>1, <1>6, <1>7 DEF Pending, In
<1>10. QED
  BY <1>7, <1>8, <1>9 DEF h

LEMMA PostedPreserves ==
    ASSUME NEW g, Core(g), NEW p \in Protocols, NEW op \in Requests, g.proto[p].acceptPackets
    PROVE  Preserves(g, Posted(g, op, p))
<1>1. PICK h : h = Posted(g, op, p)
  OBVIOUS
<1>2. /\ g \in Games /\ LoginFirst(g.tasks) /\ op # "login" /\ op # "release"
      /\ op \in Ops
  BY DEF Core, Requests, Ops
<1>3. /\ h \in Games /\ h.proto = g.proto /\ h.player = g.player /\ h.mapped = g.mapped
      /\ h.autosend = g.autosend /\ h.sendAlls = g.sendAlls
      /\ \A x, q : Pending(h, x, q) <=> Pending(g, x, q) \/ (x = op /\ q = p)
      /\ LoginFirst(h.tasks)
  <2>1. /\ h \in Games /\ h.proto = g.proto /\ h.player = g.player /\ h.mapped = g.mapped
        /\ h.autosend = g.autosend /\ h.sendAlls = g.sendAlls
        /\ \A x, q : Pending(h, x, q) <=> Pending(g, x, q) \/ (x = op /\ q = p)
        /\ LoginFirst(g.tasks) /\ (op = "login" => ~Pending(g, "login", p) /\ ~Pending(g, "release", p))
              => LoginFirst(h.tasks)
    BY <1>1, <1>2, PostedDoes
  <2>2. QED
    BY <1>2, <2>1
<1>4. \A q \in Protocols : Blank(g, q) => Blank(h, q)
  BY <1>3 DEF Blank
<1>5. ASSUME NEW q \in Protocols
      PROVE  Orderly(h, q)
  <2>1. Orderly(g, q)
    BY DEF Core
  <2>2. QED
    BY <1>2, <1>3, <1>4, <2>1 DEF Orderly
<1>6. Core(h)
  BY <1>3, <1>5 DEF Core
<1>7. Stays(g, h) /\ \A q \in Protocols : Closing(g, q) => Closing(h, q)
  BY <1>2, <1>3 DEF Stays, Closing
<1>8. QED
  BY <1>1, <1>6, <1>7 DEF Preserves

SetClient(g, p, c) == [g EXCEPT !.proto = [@ EXCEPT ![p] = c]]

LEMMA SetClientDoes ==
    ASSUME NEW g \in Games, NEW p \in Protocols, NEW c \in Client
    PROVE  LET h == SetClient(g, p, c)
           IN  /\ h \in Games /\ h.player = g.player /\ h.mapped = g.mapped
               /\ h.tasks = g.tasks /\ h.autosend = g.autosend /\ h.sendAlls = g.sendAlls
               /\ h.proto[p] = c /\ \A q \in Protocols : q # p => h.proto[q] = g.proto[q]
<1> DEFINE f == [g.proto EXCEPT ![p] = c]
<1>1. f \in [Protocols -> Client] /\ f[p] = c /\ \A q \in Protocols : q # p => f[q] = g.proto[q]
  BY DEF Games
<1>2. SetClient(g, p, c) = [g EXCEPT !.proto = f]
  BY DEF SetClient
<1> HIDE DEF f
<1>3. QED
  BY <1>1, <1>2 DEF Games

\* Only connections and the queue have changed, and no login was queued.
OnlyClosed(g, h) ==
    /\ h.player = g.player /\ h.mapped = g.mapped
    /\ h.autosend = g.autosend /\ h.sendAlls = g.sendAlls
    /\ \A q \in Protocols :
          /\ h.proto[q].player = g.proto[q].player /\ h.proto[q].late = g.proto[q].late
          /\ h.proto[q].acceptPackets = g.proto[q].acceptPackets
          /\ h.proto[q].eventConnect = g.proto[q].eventConnect
          /\ h.proto[q].conn = "new" <=> g.proto[q].conn = "new"
          /\ Pending(h, "login", q) <=> Pending(g, "login", q)
          /\ Pending(g, "release", q) => Pending(h, "release", q)
          /\ h.proto[q].conn = g.proto[q].conn \/ Pending(h, "release", q)

LEMMA ClosePreserves ==
    ASSUME NEW g, Core(g), NEW p \in Protocols, g.proto[p].conn \in {"open", "closed"}
    PROVE  Preserves(g, Close(g, p)) /\ OnlyClosed(g, Close(g, p))
<1> DEFINE c == [g.proto[p] EXCEPT !.conn = "closed"]
<1>0. g \in Games /\ g.proto[p] \in Client
  BY DEF Core, Games
<1>1. /\ c \in Client /\ c.conn = "closed" /\ c.player = g.proto[p].player
      /\ c.late = g.proto[p].late /\ c.acceptPackets = g.proto[p].acceptPackets
      /\ c.eventConnect = g.proto[p].eventConnect
  BY <1>0 DEF Client
<1>2. SetClient(g, p, c) = [g EXCEPT !.proto[p].conn = "closed"]
  BY DEF SetClient
<1> HIDE DEF c
<1>3. PICK u : u = SetClient(g, p, c)
  OBVIOUS
<1>4. /\ u \in Games /\ u.player = g.player /\ u.mapped = g.mapped
      /\ u.tasks = g.tasks /\ u.autosend = g.autosend /\ u.sendAlls = g.sendAlls
      /\ u.proto[p] = c /\ \A q \in Protocols : q # p => u.proto[q] = g.proto[q]
  BY <1>0, <1>1, <1>3, SetClientDoes
<1>5. PICK h : h = Posted(u, "release", p)
  OBVIOUS
<1>6. h = Close(g, p)
  BY <1>2, <1>3, <1>5 DEF Close
<1>7. /\ h \in Games /\ h.proto = u.proto /\ h.player = u.player /\ h.mapped = u.mapped
      /\ h.autosend = u.autosend /\ h.sendAlls = u.sendAlls
      /\ \A x, q : Pending(h, x, q) <=> Pending(u, x, q) \/ (x = "release" /\ q = p)
      /\ LoginFirst(u.tasks) => LoginFirst(h.tasks)
  <2>1. "release" \in Ops
    BY DEF Ops
  <2>2. QED
    BY <1>4, <1>5, <2>1, PostedDoes
<1>8. \A x, q : Pending(h, x, q) <=> Pending(g, x, q) \/ (x = "release" /\ q = p)
  BY <1>4, <1>7 DEF Pending
<1>9. LoginFirst(h.tasks)
  BY <1>4, <1>7 DEF Core
<1>10. OnlyClosed(g, h)
  BY <1>1, <1>4, <1>7, <1>8 DEF OnlyClosed
<1>11. \A q \in Protocols : Blank(g, q) => Blank(h, q)
  BY <1>1, <1>4, <1>7 DEF Blank
<1>12. ASSUME NEW q \in Protocols
       PROVE  Orderly(h, q)
  <2>1. Orderly(g, q)
    BY DEF Core
  <2>2. /\ \A op \in Requests : Pending(h, op, q) <=> Pending(g, op, q)
        /\ Pending(h, "login", q) <=> Pending(g, "login", q)
        /\ Pending(h, "release", q) => Pending(g, "release", q) \/ q = p
    BY <1>8 DEF Requests
  <2>3. CASE q = p
    BY <1>1, <1>4, <1>7, <1>11, <2>1, <2>2, <2>3 DEF Orderly
  <2>4. CASE q # p
    BY <1>1, <1>4, <1>7, <1>11, <2>1, <2>2, <2>4 DEF Orderly
  <2>5. QED
    BY <2>3, <2>4
<1>13. \A q \in Protocols, o \in Players : h.proto[q].player = o <=> h.player[o].client = q
  BY <1>10 DEF Core, OnlyClosed
<1>14. Core(h)
  BY <1>4, <1>7, <1>9, <1>12, <1>13 DEF Core
<1>15. Stays(g, h)
  BY <1>1, <1>4, <1>7 DEF Stays
<1>16. ASSUME NEW q \in Protocols, Closing(g, q)
       PROVE  Closing(h, q)
  BY <1>10, <1>16 DEF OnlyClosed, Closing
<1>17. QED
  BY <1>6, <1>10, <1>14, <1>15, <1>16 DEF Preserves

LEMMA DisconnectPreserves ==
    ASSUME NEW g, Core(g), NEW p \in Protocols, g.proto[p].conn # "new"
    PROVE  Preserves(g, Disconnect(g, p)) /\ OnlyClosed(g, Disconnect(g, p))
<1>1. CASE g.proto[p].conn = "expired"
  BY <1>1, PreservesNothing DEF Disconnect, OnlyClosed
<1>2. CASE g.proto[p].conn # "expired"
  <2>1. g.proto[p].conn \in {"open", "closed"}
    BY <1>2 DEF Core, Games, Client
  <2>2. QED
    BY <1>2, <2>1, ClosePreserves DEF Disconnect
<1>3. QED
  BY <1>1, <1>2

\* A client with a Player has a connection, or had one.
LEMMA WithPlayer ==
    ASSUME NEW g, Core(g), NEW p \in Protocols, g.proto[p].player # None
    PROVE  g.proto[p].conn # "new"
BY DEF Core, Orderly, Blank

LEMMA LeavePreserves ==
    ASSUME NEW g, Core(g), NEW o \in Players, g.player[o].stage # "loading"
    PROVE  Preserves(g, Leave(g, o))
<1>1. CASE g.player[o].client = None
  BY <1>1, RemoveCreaturePreserves DEF Leave
<1>2. CASE g.player[o].client # None
  <2>1. PICK p \in Protocols : p = g.player[o].client
    BY <1>2 DEF Core, Games, Character
  <2>2. g.proto[p].player = o /\ o # None
    BY <2>1, GameSessionAssumption DEF Core, Players
  <2>3. PICK h : h = Disconnect(g, p)
    OBVIOUS
  <2>4. Preserves(g, h) /\ OnlyClosed(g, h)
    BY <2>2, <2>3, WithPlayer, DisconnectPreserves
  <2>5. Preserves(h, RemoveCreature(h, o))
    BY <2>4, RemoveCreaturePreserves DEF OnlyClosed, Preserves
  <2>6. Leave(g, o) = RemoveCreature(h, o)
    BY <1>2, <2>1, <2>3 DEF Leave
  <2>7. QED
    BY <2>4, <2>5, <2>6, PreservesTransitive
<1>3. QED
  BY <1>1, <1>2

-----------------------------------------------------------------------------
(* Logging in. *)

\* A client whose login task has been run.
Ready(g, p) ==
    /\ g.proto[p].conn # "new" /\ ~Pending(g, "login", p)
    /\ g.proto[p].conn \in {"closed", "expired"} => Pending(g, "release", p)

LEMMA DisconnectReady ==
    ASSUME NEW g, NEW h, OnlyClosed(g, h), NEW p \in Protocols, Ready(g, p)
    PROVE  Ready(h, p)
BY DEF OnlyClosed, Ready

LEMMA AddToAutosendPreserves ==
    ASSUME NEW g, Core(g), NEW p \in Protocols, Ready(g, p)
    PROVE  Preserves(g, AddToAutosend(g, p))
<1> DEFINE n == IF NeedsSendAll(g) THEN g.sendAlls + 1 ELSE g.sendAlls
           h == AddToAutosend(g, p)
<1>1. g \in Games /\ g.sendAlls \in Nat /\ (g.autosend # {} => g.sendAlls > 0)
  BY DEF Core, Games
<1>2. n \in Nat /\ n > 0
  BY <1>1 DEF NeedsSendAll
<1>3. h = [g EXCEPT !.sendAlls = n, !.autosend = g.autosend \cup {p}]
  BY DEF AddToAutosend
<1> HIDE DEF n, h
<1>4. /\ h \in Games /\ h.proto = g.proto /\ h.player = g.player /\ h.mapped = g.mapped
      /\ h.tasks = g.tasks /\ h.sendAlls = n /\ h.autosend = g.autosend \cup {p}
  BY <1>1, <1>2, <1>3 DEF Games
<1>5. \A x, q : Pending(h, x, q) <=> Pending(g, x, q)
  BY <1>4 DEF Pending
<1>6. \A q \in Protocols : q # p /\ Blank(g, q) => Blank(h, q)
  BY <1>4 DEF Blank
<1>7. ASSUME NEW q \in Protocols
      PROVE  Orderly(h, q)
  <2>1. Orderly(g, q)
    BY DEF Core
  <2>2. CASE q # p
    BY <1>4, <1>5, <1>6, <2>1, <2>2 DEF Orderly
  <2>3. CASE q = p
    BY <1>4, <1>5, <2>1, <2>3 DEF Orderly, Ready
  <2>4. QED
    BY <2>2, <2>3
<1>8. Core(h)
  BY <1>2, <1>4, <1>7 DEF Core
<1>9. Stays(g, h)
  BY <1>4 DEF Stays
<1>10. \A q \in Protocols : Closing(g, q) => Closing(h, q)
  BY <1>4, <1>5 DEF Closing, Ready
<1>11. QED
  BY <1>8, <1>9, <1>10 DEF Preserves, h

\* A client with a Player of its own making, not in the game yet.
Fresh(g, p) ==
    /\ g.proto[p].player = p /\ g.player[p].client = p /\ g.player[p].stage = "loading"
    /\ Ready(g, p)

LEMMA NewPlayerPreserves ==
    ASSUME NEW g, Core(g), NEW p \in Protocols, Blank(g, p), Ready(g, p)
    PROVE  Preserves(g, NewPlayer(g, p)) /\ Fresh(NewPlayer(g, p), p)
<1> DEFINE c == [g.player[p] EXCEPT !.client = p, !.refs = @ + 1]
           d == [g.proto[p] EXCEPT !.player = p]
<1>0. /\ g \in Games /\ g.player[p] \in Character /\ Exact(g.player[p])
      /\ g.proto[p] \in Client /\ p \in Players /\ p # None
  BY GameSessionAssumption DEF Core, Games, Players
<1>1. g.player[p].refs = 0 /\ ~g.player[p].inVector /\ g.player[p].toRelease = 0
  BY <1>0 DEF Blank, Exact, Count
<1>2. /\ c \in Character /\ c.client = p /\ c.refs = 1 /\ c.stage = "loading"
      /\ c.inVector = g.player[p].inVector /\ c.toRelease = 0 /\ c.check = g.player[p].check
  <2>1. g.player[p].refs + 1 = 1 /\ g.player[p].stage = "loading" /\ 1 \in 0..4
    BY <1>1 DEF Blank
  <2>2. QED
    BY <1>0, <1>1, <2>1 DEF Character, Players
<1>3. /\ d \in Client /\ d.player = p /\ d.conn = g.proto[p].conn /\ d.late = g.proto[p].late
      /\ d.acceptPackets = g.proto[p].acceptPackets
      /\ d.eventConnect = g.proto[p].eventConnect
  BY <1>0 DEF Client
<1>4. SetClient(SetPlayer(g, p, c), p, d) = NewPlayer(g, p)
  BY <1>0 DEF SetClient, SetPlayer, NewPlayer, Games
<1> HIDE DEF c, d
<1>5. PICK u : u = SetPlayer(g, p, c)
  OBVIOUS
<1>6. OnlyPlayer(g, u, p) /\ u.player[p] = c /\ u.mapped = g.mapped
  BY <1>0, <1>2, <1>5, SetPlayerDoes
<1>7. PICK h : h = SetClient(u, p, d)
  OBVIOUS
<1>8. /\ h \in Games /\ h.player = u.player /\ h.mapped = u.mapped
      /\ h.tasks = u.tasks /\ h.autosend = u.autosend /\ h.sendAlls = u.sendAlls
      /\ h.proto[p] = d /\ \A q \in Protocols : q # p => h.proto[q] = u.proto[q]
  BY <1>3, <1>6, <1>7, SetClientDoes DEF OnlyPlayer
<1>9. /\ h.tasks = g.tasks /\ h.autosend = g.autosend /\ h.sendAlls = g.sendAlls
      /\ h.mapped = g.mapped /\ h.proto[p] = d /\ h.player[p] = c
      /\ \A q \in Protocols : q # p => h.proto[q] = g.proto[q] /\ h.player[q] = g.player[q]
  BY <1>6, <1>8 DEF OnlyPlayer, Players
<1> USE <1>9
<1>10. \A x, q : Pending(h, x, q) <=> Pending(g, x, q)
  BY DEF Pending
<1>11. \A q \in Protocols, o \in Players : h.proto[q].player = o <=> h.player[o].client = q
  <2> SUFFICES ASSUME NEW q \in Protocols, NEW o \in Players
               PROVE  h.proto[q].player = o <=> h.player[o].client = q
    OBVIOUS
  <2>1. g.proto[q].player = o <=> g.player[o].client = q
    BY DEF Core
  <2>2. g.proto[p].player = None /\ g.player[p].client = None /\ q # None /\ o # None
    BY GameSessionAssumption DEF Blank, Players
  <2>3. QED
    BY <1>2, <1>3, <2>1, <2>2 DEF Players
<1>12. Exact(c)
  BY <1>0, <1>1, <1>2 DEF Exact, Count
<1>13. \A o \in Players : Exact(h.player[o])
  BY <1>12 DEF Core, Players
<1>14. h.mapped # None => h.player[h.mapped].check
  BY <1>0, <1>2 DEF Core, Games, Players
<1>15. \A q \in Protocols : q # p /\ Blank(g, q) => Blank(h, q)
  BY DEF Blank
<1>16. ASSUME NEW q \in Protocols
       PROVE  Orderly(h, q)
  <2>1. Orderly(g, q)
    BY DEF Core
  <2>2. CASE q # p
    <3>1. \A o \in Players : h.player[o].stage = g.player[o].stage
      BY <1>2 DEF Players, Blank
    <3>2. g.proto[q].player # None => g.proto[q].player \in Players
      BY <1>0 DEF Games, Client
    <3>3. QED
      BY <1>10, <1>15, <2>1, <2>2, <3>1, <3>2 DEF Orderly
  <2>3. CASE q = p
    BY <1>3, <1>10, <2>1, <2>3 DEF Orderly, Ready, Blank
  <2>4. QED
    BY <2>2, <2>3
<1>17. Core(h)
  BY <1>8, <1>11, <1>13, <1>14, <1>16 DEF Core
<1>18. Stays(g, h)
  BY <1>3 DEF Stays, Blank
<1>19. \A q \in Protocols : Closing(g, q) => Closing(h, q)
  BY <1>3, <1>10 DEF Closing, Ready
<1>20. Fresh(h, p)
  BY <1>2, <1>3, <1>10 DEF Fresh, Ready
<1>21. QED
  BY <1>4, <1>5, <1>7, <1>17, <1>18, <1>19, <1>20 DEF Preserves

LEMMA EnterGamePreserves ==
    ASSUME NEW g, Core(g), NEW p \in Protocols, Fresh(g, p)
    PROVE  Preserves(g, EnterGame(g, p)) /\ Ready(EnterGame(g, p), p)
<1>0. /\ g \in Games /\ g.player[p] \in Character /\ Exact(g.player[p])
      /\ g.proto[p] \in Client /\ p \in Players /\ p # None
      /\ g.player[p].stage = "loading" /\ g.player[p].client = p
  BY GameSessionAssumption DEF Core, Games, Players, Fresh
<1>1. g.player[p].refs = 1 /\ ~g.player[p].inVector /\ g.player[p].toRelease = 0
  BY <1>0 DEF Exact, Count
<1>2. PICK u : u = Placed(g, p)
  OBVIOUS
<1>3. /\ OnlyPlayer(g, u, p)
      /\ u.player[p].stage = g.player[p].stage /\ u.player[p].client = g.player[p].client
      /\ u.player[p].refs = g.player[p].refs /\ u.player[p].check = g.player[p].check
      /\ u.player[p].inVector = g.player[p].inVector
      /\ u.player[p].toRelease = g.player[p].toRelease
  BY <1>0, <1>2, PlacedDoes
<1>4. PICK v : v = SetMapped(u, p)
  OBVIOUS
<1>5. OnlyPlayer(g, v, p) /\ v.mapped = p /\ v.player[p] = u.player[p]
  BY <1>0, <1>3, <1>4, SetMappedDoes DEF OnlyPlayer
<1>6. v = AddPlayer(Placed(g, p), p) /\ v \in Games /\ v.player[p] \in Character
  BY <1>0, <1>2, <1>4, <1>5 DEF AddPlayer, SetMapped, OnlyPlayer, Games
<1> DEFINE c == [v.player[p] EXCEPT !.refs = @ + 1, !.stage = "placed"]
           w == SetPlayer(v, p, c)
<1>7. v.player[p].refs + 1 = 2 /\ 2 \in 0..4
  BY <1>1, <1>3, <1>5
<1>8. /\ c \in Character /\ c.refs = 2 /\ c.stage = "placed" /\ c.client = p
      /\ c.inVector = v.player[p].inVector /\ c.toRelease = v.player[p].toRelease
      /\ c.check = v.player[p].check
  BY <1>0, <1>3, <1>5, <1>6, <1>7 DEF Character
<1>9. w = [AddPlayer(Placed(g, p), p)
             EXCEPT !.player[p].refs = @ + 1, !.player[p].stage = "placed"]
  BY <1>0, <1>6 DEF SetPlayer, Games, OnlyPlayer
<1> HIDE DEF c
<1>10. OnlyPlayer(v, w, p) /\ w.player[p] = c /\ w.mapped = p
  BY <1>0, <1>5, <1>6, <1>8, SetPlayerDoes
<1> HIDE DEF w
<1>11. Exact(c)
  <2>1. c.client # None /\ ~c.inVector /\ c.toRelease = 0 /\ ~c.check
    BY <1>0, <1>1, <1>3, <1>5, <1>8 DEF Exact
  <2>2. QED
    BY <1>8, <2>1 DEF Exact, Count
<1>12. PICK x : x = AddCreatureCheck(w, p)
  OBVIOUS
<1>13. /\ OnlyPlayer(w, x, p) /\ x.mapped = p /\ Exact(x.player[p]) /\ x.player[p].check
       /\ x.player[p].stage = "placed" /\ x.player[p].client = p
  BY <1>0, <1>8, <1>10, <1>11, <1>12, AddCreatureCheckDoes DEF OnlyPlayer
<1>14. OnlyPlayer(g, x, p)
  BY <1>5, <1>10, <1>13 DEF OnlyPlayer
<1> DEFINE d == [x.proto[p] EXCEPT !.acceptPackets = TRUE]
<1>15. x \in Games /\ x.proto[p] \in Client /\ x.proto = g.proto
  BY <1>14 DEF OnlyPlayer, Games
<1>16. /\ d \in Client /\ d.player = p /\ d.conn = g.proto[p].conn /\ d.late = g.proto[p].late
       /\ d.acceptPackets = TRUE /\ d.eventConnect = g.proto[p].eventConnect
  BY <1>15 DEF Client, Fresh
<1>17. SetClient(x, p, d) = EnterGame(g, p)
  BY <1>9, <1>12 DEF SetClient, EnterGame
<1> HIDE DEF d
<1>18. PICK h : h = SetClient(x, p, d)
  OBVIOUS
<1>19. /\ h \in Games /\ h.player = x.player /\ h.mapped = x.mapped
       /\ h.tasks = x.tasks /\ h.autosend = x.autosend /\ h.sendAlls = x.sendAlls
       /\ h.proto[p] = d /\ \A q \in Protocols : q # p => h.proto[q] = x.proto[q]
  BY <1>15, <1>16, <1>18, SetClientDoes
<1>20. /\ h.tasks = g.tasks /\ h.autosend = g.autosend /\ h.sendAlls = g.sendAlls
       /\ h.mapped = p /\ h.proto[p] = d /\ h.player[p] = x.player[p]
       /\ \A q \in Protocols : q # p => h.proto[q] = g.proto[q] /\ h.player[q] = g.player[q]
  BY <1>13, <1>14, <1>15, <1>19 DEF OnlyPlayer, Players
<1> USE <1>20
<1>21. \A y, q : Pending(h, y, q) <=> Pending(g, y, q)
  BY DEF Pending
<1>22. \A q \in Protocols, o \in Players : h.proto[q].player = o <=> h.player[o].client = q
  <2> SUFFICES ASSUME NEW q \in Protocols, NEW o \in Players
               PROVE  h.proto[q].player = o <=> h.player[o].client = q
    OBVIOUS
  <2>1. g.proto[q].player = o <=> g.player[o].client = q
    BY DEF Core
  <2>2. g.proto[p].player = p /\ g.player[p].client = p
    BY DEF Fresh
  <2>3. QED
    BY <1>13, <1>16, <2>1, <2>2 DEF Players
<1>23. \A o \in Players : Exact(h.player[o])
  BY <1>13 DEF Core, Players
<1>24. h.mapped # None => h.player[h.mapped].check
  BY <1>13
<1>25. \A q \in Protocols : q # p /\ Blank(g, q) => Blank(h, q)
  BY DEF Blank
<1>26. ASSUME NEW q \in Protocols
       PROVE  Orderly(h, q)
  <2>1. Orderly(g, q)
    BY DEF Core
  <2>2. CASE q # p
    <3>1. \A o \in Players : g.player[o].stage # "loading" => h.player[o].stage # "loading"
      BY <1>13 DEF Players
    <3>2. g.proto[q].player # None => g.proto[q].player \in Players
      BY <1>0 DEF Games, Client
    <3>3. QED
      BY <1>21, <1>25, <2>1, <2>2, <3>1, <3>2 DEF Orderly
  <2>3. CASE q = p
    <3>1. d.conn # "new" /\ ~Pending(h, "login", q) /\ d.player = p /\ d.eventConnect = FALSE
      BY <1>0, <1>16, <1>21, <2>1, <2>3 DEF Fresh, Ready, Orderly, Client
    <3>2. QED
      BY <1>13, <1>16, <1>21, <2>1, <2>3, <3>1 DEF Orderly
  <2>4. QED
    BY <2>2, <2>3
<1>27. Core(h)
  BY <1>19, <1>22, <1>23, <1>24, <1>26 DEF Core
<1>28. Stays(g, h)
  BY <1>16 DEF Stays, Fresh
<1>29. \A q \in Protocols : Closing(g, q) => Closing(h, q)
  BY <1>16, <1>21 DEF Closing, Fresh, Ready
<1>30. Ready(h, p)
  BY <1>16, <1>21 DEF Fresh, Ready
<1>31. QED
  BY <1>17, <1>18, <1>27, <1>28, <1>29, <1>30 DEF Preserves

LEMMA LoginNewPreserves ==
    ASSUME NEW g, Core(g), NEW p \in Protocols, Blank(g, p), Ready(g, p), NEW h \in LoginNew(g, p)
    PROVE  Preserves(g, h)
<1>1. PICK u : u = NewPlayer(g, p)
  OBVIOUS
<1>2. Preserves(g, u) /\ Core(u) /\ Fresh(u, p)
  BY <1>1, NewPlayerPreserves DEF Preserves
<1>3. h = Disconnect(u, p) \/ h = u \/ h = AddToAutosend(EnterGame(u, p), p)
  BY <1>1 DEF LoginNew
<1>4. CASE h = Disconnect(u, p)
  BY <1>2, <1>4, DisconnectPreserves, PreservesTransitive DEF Fresh, Ready
<1>5. CASE h = AddToAutosend(EnterGame(u, p), p)
  <2>1. PICK v : v = EnterGame(u, p)
    OBVIOUS
  <2>2. Preserves(u, v) /\ Ready(v, p)
    BY <1>2, <2>1, EnterGamePreserves
  <2>3. Preserves(v, h)
    BY <1>5, <2>1, <2>2, AddToAutosendPreserves DEF Preserves
  <2>4. QED
    BY <1>2, <2>2, <2>3, PreservesTransitive
<1>6. QED
  BY <1>2, <1>3, <1>4, <1>5

\* connect() is scheduled, or no longer is.
LEMMA EventPreserves ==
    ASSUME NEW g, Core(g), NEW p \in Protocols, NEW c \in Client,
           c.conn = g.proto[p].conn, c.player = g.proto[p].player, c.late = g.proto[p].late,
           c.acceptPackets = g.proto[p].acceptPackets,
           g.proto[p].player = None, g.proto[p].conn # "new", ~Pending(g, "login", p)
    PROVE  LET h == SetClient(g, p, c)
           IN  /\ Preserves(g, h)
               /\ h.player = g.player /\ h.mapped = g.mapped /\ h.tasks = g.tasks
               /\ h.proto[p] = c
<1>0. g \in Games
  BY DEF Core
<1>3. PICK h : h = SetClient(g, p, c)
  OBVIOUS
<1>4. /\ h \in Games /\ h.player = g.player /\ h.mapped = g.mapped
      /\ h.tasks = g.tasks /\ h.autosend = g.autosend /\ h.sendAlls = g.sendAlls
      /\ h.proto[p] = c /\ \A q \in Protocols : q # p => h.proto[q] = g.proto[q]
  BY <1>0, <1>3, SetClientDoes
<1>5. \A y, q : Pending(h, y, q) <=> Pending(g, y, q)
  BY <1>4 DEF Pending
<1>6. \A q \in Protocols : q # p /\ Blank(g, q) => Blank(h, q)
  BY <1>4 DEF Blank
<1>7. ASSUME NEW q \in Protocols
      PROVE  Orderly(h, q)
  <2>1. Orderly(g, q)
    BY DEF Core
  <2>2. CASE q # p
    BY <1>4, <1>5, <1>6, <2>1, <2>2 DEF Orderly
  <2>3. CASE q = p
    BY <1>4, <1>5, <2>1, <2>3 DEF Orderly
  <2>4. QED
    BY <2>2, <2>3
<1>8. \A q \in Protocols : h.proto[q].player = g.proto[q].player
  BY <1>4
<1>9. Core(h)
  BY <1>4, <1>7, <1>8 DEF Core
<1>10. Stays(g, h)
  BY <1>4 DEF Stays
<1>11. \A q \in Protocols : Closing(g, q) => Closing(h, q)
  BY <1>4, <1>5 DEF Closing
<1>12. QED
  BY <1>3, <1>4, <1>9, <1>10, <1>11 DEF Preserves

LEMMA ConnectingPreserves ==
    ASSUME NEW g, Core(g), NEW o \in Players, g.player[o].stage # "loading"
    PROVE  LET h == [g EXCEPT !.player[o].connecting = TRUE]
           IN  Preserves(g, h) /\ OnlyPlayer(g, h, o)
<1> DEFINE c == [g.player[o] EXCEPT !.connecting = TRUE]
           h == [g EXCEPT !.player[o].connecting = TRUE]
<1>0. g \in Games
  BY DEF Core
<1>1. g.player[o] \in Character
  BY <1>0 DEF Games
<1>2. c \in Character
  BY <1>1 DEF Character
<1>3. /\ c.check = g.player[o].check /\ c.inVector = g.player[o].inVector
      /\ c.stage = g.player[o].stage /\ c.client = g.player[o].client
      /\ c.toRelease = g.player[o].toRelease /\ c.refs = g.player[o].refs
  BY <1>1 DEF Character
<1>4. h = SetPlayer(g, o, c)
  BY DEF SetPlayer
<1> HIDE DEF c, h
<1>5. OnlyPlayer(g, h, o) /\ h.player[o] = c /\ h.mapped = g.mapped
  BY <1>0, <1>2, <1>4, SetPlayerDoes
<1>6. Exact(c)
  BY <1>3 DEF Core, Exact
<1>7. h.mapped # None => h.player[h.mapped].check
  BY <1>3, <1>5 DEF Core, OnlyPlayer, Games
<1>8. Moved(g, h, o)
  BY <1>3, <1>5, <1>6, <1>7 DEF Moved
<1>9. QED
  BY <1>5, <1>8, MovedPreserves DEF h

\* connect() gives the Player o to the client p.
Attached(g, p, o) ==
    [g EXCEPT !.proto[p].player = o,
              !.proto[p].acceptPackets = TRUE,
              !.proto[p].late = g.proto[p].conn = "closed",
              !.player[o].client = p,
              !.player[o].connecting = FALSE,
              !.player[o].refs = @ + 1]

LEMMA AttachedPreserves ==
    ASSUME NEW g, Core(g), NEW p \in Protocols, NEW o \in Players,
           g.player[o].check, g.player[o].client = None, g.proto[p].player = None,
           g.proto[p].eventConnect = FALSE, g.proto[p].conn \in {"open", "closed"},
           ~Pending(g, "login", p)
    PROVE  LET h == Attached(g, p, o)
           IN  /\ Preserves(g, h) /\ h.tasks = g.tasks
               /\ h.proto[p].conn = g.proto[p].conn
<1> DEFINE b == g.player[o]
           c == [b EXCEPT !.client = p, !.connecting = FALSE, !.refs = @ + 1]
           e == g.proto[p]
           d == [e EXCEPT !.player = o, !.acceptPackets = TRUE, !.late = e.conn = "closed"]
<1>0. /\ g \in Games /\ b \in Character /\ Exact(b) /\ e \in Client /\ o # None /\ p # None
      /\ b.stage # "loading" /\ b.inVector /\ b.client = None
  BY GameSessionAssumption DEF Core, Games, Players, Exact
<1>1. /\ b.refs \in Nat /\ b.toRelease \in {0, 1} /\ (b.toRelease = 1 => b.stage = "removed")
      /\ b.refs = Count(b.stage = "placed") + 1 + b.toRelease
  BY <1>0 DEF Exact, Count, Character
<1>2. b.refs + 1 \in 0..4
  BY <1>1 DEF Count
<1>3. /\ c \in Character /\ c.client = p /\ c.stage = b.stage /\ c.check = b.check
      /\ c.inVector = b.inVector /\ c.toRelease = b.toRelease /\ c.refs = b.refs + 1
  BY <1>0, <1>2 DEF Character
<1>4. PICK l \in BOOLEAN : l = (e.conn = "closed")
  OBVIOUS
<1>5. d = [e EXCEPT !.player = o, !.acceptPackets = TRUE, !.late = l]
  BY <1>4
<1>6. /\ d \in Client /\ d.player = o /\ d.conn = e.conn /\ d.late = l
      /\ d.acceptPackets = TRUE /\ d.eventConnect = e.eventConnect
  BY <1>0, <1>5 DEF Client
<1>7. SetPlayer(SetClient(g, p, d), o, c) = Attached(g, p, o)
  <2> DEFINE z == [e EXCEPT !.player = o, !.acceptPackets = TRUE, !.late = l]
             k == [g EXCEPT !.proto[p].player = o, !.proto[p].acceptPackets = TRUE,
                            !.proto[p].late = l]
  <2>1. Attached(g, p, o) =
          [k EXCEPT !.player[o].client = p, !.player[o].connecting = FALSE,
                    !.player[o].refs = @ + 1]
    BY <1>4 DEF Attached
  <2>2. k = SetClient(g, p, z)
    BY <1>0 DEF SetClient, Games
  <2>3. k \in Games /\ k.player = g.player
    <3>1. z \in Client
      BY <1>5, <1>6
    <3> HIDE DEF z, k
    <3>2. QED
      BY <1>0, <2>2, <3>1, SetClientDoes
  <2> HIDE DEF k
  <2>4. [k EXCEPT !.player[o].client = p, !.player[o].connecting = FALSE,
                  !.player[o].refs = @ + 1] = SetPlayer(k, o, c)
    BY <2>3 DEF SetPlayer, Games
  <2>5. QED
    BY <1>5, <2>1, <2>2, <2>4
<1> HIDE DEF b, c, d, e
<1>8. PICK u : u = SetClient(g, p, d)
  OBVIOUS
<1>9. /\ u \in Games /\ u.player = g.player /\ u.mapped = g.mapped
      /\ u.tasks = g.tasks /\ u.autosend = g.autosend /\ u.sendAlls = g.sendAlls
      /\ u.proto[p] = d /\ \A q \in Protocols : q # p => u.proto[q] = g.proto[q]
  BY <1>0, <1>6, <1>8, SetClientDoes
<1>10. PICK h : h = SetPlayer(u, o, c)
  OBVIOUS
<1>11. OnlyPlayer(u, h, o) /\ h.player[o] = c /\ h.mapped = u.mapped /\ h \in Games
  BY <1>3, <1>9, <1>10, SetPlayerDoes DEF OnlyPlayer
<1>12. /\ h.tasks = g.tasks /\ h.autosend = g.autosend /\ h.sendAlls = g.sendAlls
       /\ h.mapped = g.mapped /\ h.proto[p] = d /\ h.player[o] = c
       /\ \A q \in Protocols : q # p => h.proto[q] = g.proto[q]
       /\ \A r \in Players : r # o => h.player[r] = g.player[r]
       /\ g.player[o] = b /\ g.proto[p] = e
  BY <1>9, <1>11 DEF OnlyPlayer, b, e
<1> USE <1>12
<1>13. \A y, q : Pending(h, y, q) <=> Pending(g, y, q)
  BY DEF Pending
<1>14. \A q \in Protocols, r \in Players : h.proto[q].player = r <=> h.player[r].client = q
  <2> SUFFICES ASSUME NEW q \in Protocols, NEW r \in Players
               PROVE  h.proto[q].player = r <=> h.player[r].client = q
    OBVIOUS
  <2>1. g.proto[q].player = r <=> g.player[r].client = q
    BY DEF Core
  <2>2. g.proto[p].player = None /\ g.player[o].client = None /\ q # None /\ r # None
    BY GameSessionAssumption DEF Players
  <2>3. QED
    BY <1>3, <1>6, <2>1, <2>2
<1>15. Exact(c)
  <2>1. c.client # None /\ c.inVector
    BY <1>0, <1>3
  <2>2. c.refs = Count(c.client # None) + Count(c.stage = "placed") + Count(c.inVector) + c.toRelease
    BY <1>1, <1>3, <2>1 DEF Count
  <2>3. QED
    BY <1>0, <1>1, <1>3, <2>1, <2>2 DEF Exact
<1>16. \A r \in Players : Exact(h.player[r])
  BY <1>15 DEF Core
<1>17. h.mapped # None => h.player[h.mapped].check
  BY <1>0, <1>3 DEF Core, Games
<1>18. \A q \in Protocols : q # p /\ Blank(g, q) => Blank(h, q)
  <2> SUFFICES ASSUME NEW q \in Protocols, q # p, Blank(g, q)
               PROVE  Blank(h, q)
    OBVIOUS
  <2>1. q # o
    BY <1>0 DEF Blank
  <2>2. QED
    BY <2>1 DEF Blank, Players
<1>19. ASSUME NEW q \in Protocols
       PROVE  Orderly(h, q)
  <2>1. Orderly(g, q)
    BY DEF Core
  <2>2. CASE q # p
    <3>1. \A r \in Players : g.player[r].stage = h.player[r].stage
      BY <1>3
    <3>2. g.proto[q].player # None => g.proto[q].player \in Players
      BY <1>0 DEF Games, Client
    <3>3. QED
      BY <1>13, <1>18, <2>1, <2>2, <3>1, <3>2 DEF Orderly
  <2>3. CASE q = p
    <3>1. d.conn # "new" /\ ~Pending(h, "login", q) /\ d.player = o /\ d.eventConnect = FALSE
      BY <1>6, <1>13, <2>3
    <3>2. QED
      BY <1>0, <1>3, <1>6, <1>13, <2>1, <2>3, <3>1 DEF Orderly
  <2>4. QED
    BY <2>2, <2>3
<1>20. Core(h)
  BY <1>11, <1>14, <1>16, <1>17, <1>19 DEF Core
<1>21. Stays(g, h)
  BY <1>6 DEF Stays
<1>22. \A q \in Protocols : Closing(g, q) => Closing(h, q)
  BY <1>4, <1>6, <1>13 DEF Closing
<1>23. QED
  BY <1>6, <1>7, <1>8, <1>10, <1>20, <1>21, <1>22 DEF Preserves

LEMMA ConnectPreserves ==
    ASSUME NEW g, Core(g), NEW p \in Protocols,
           g.proto[p].player = None, g.proto[p].conn # "new", ~Pending(g, "login", p)
    PROVE  Preserves(g, Connect(g, p)) /\ (Ready(g, p) => Ready(Connect(g, p), p))
<1> DEFINE c == [g.proto[p] EXCEPT !.eventConnect = FALSE]
<1>0. g.proto[p] \in Client
  BY DEF Core, Games
<1>1. PICK u : u = [g EXCEPT !.proto[p].eventConnect = FALSE]
  OBVIOUS
<1>2. /\ Preserves(g, u) /\ Core(u)
      /\ u.player = g.player /\ u.mapped = g.mapped /\ u.tasks = g.tasks
      /\ u.proto[p].player = None /\ u.proto[p].conn = g.proto[p].conn
      /\ u.proto[p].eventConnect = FALSE
  <2>1. /\ c \in Client /\ c.conn = g.proto[p].conn /\ c.player = g.proto[p].player
        /\ c.late = g.proto[p].late /\ c.acceptPackets = g.proto[p].acceptPackets
        /\ c.eventConnect = FALSE
    BY <1>0 DEF Client
  <2>2. u = SetClient(g, p, c)
    BY <1>1 DEF SetClient
  <2> HIDE DEF c
  <2>3. /\ Preserves(g, u)
        /\ u.player = g.player /\ u.mapped = g.mapped /\ u.tasks = g.tasks
        /\ u.proto[p] = c
    BY <2>1, <2>2, EventPreserves
  <2>4. QED
    BY <2>1, <2>3 DEF Preserves
<1>3. ~Pending(u, "login", p) /\ (Ready(g, p) => Ready(u, p))
  BY <1>2 DEF Pending, Ready
<1>4. PICK h : h = Connect(g, p)
  OBVIOUS
<1>5. CASE Taken(u, u.mapped)
  <2>1. h = Disconnect(u, p)
    BY <1>1, <1>4, <1>5 DEF Connect
  <2>2. Preserves(u, h) /\ OnlyClosed(u, h)
    BY <1>2, <2>1, DisconnectPreserves
  <2>3. QED
    BY <1>2, <1>3, <1>4, <2>2, DisconnectReady, PreservesTransitive
<1>6. CASE ~Taken(u, u.mapped) /\ Expired(u, p)
  <2>1. h = u
    BY <1>1, <1>4, <1>6 DEF Connect
  <2>2. QED
    BY <1>2, <1>3, <1>4, <2>1
<1>7. CASE ~Taken(u, u.mapped) /\ ~Expired(u, p)
  <2>1. PICK o \in Players : o = u.mapped /\ u.player[o].client = None
    BY <1>2, <1>7 DEF Taken, Core, Games
  <2>2. h = Attached(u, p, o)
    BY <1>1, <1>4, <1>7, <2>1 DEF Connect, Attached
  <2>3. u.proto[p].conn \in {"open", "closed"}
    BY <1>2, <1>7 DEF Expired, Core, Games, Client
  <2>4. u.player[o].check
    BY <1>2, <2>1, GameSessionAssumption DEF Core, Players
  <2>5. Preserves(u, h) /\ h.tasks = u.tasks /\ h.proto[p].conn = u.proto[p].conn
    BY <1>2, <1>3, <2>1, <2>2, <2>3, <2>4, AttachedPreserves
  <2>6. Ready(u, p) => Ready(h, p)
    BY <2>5 DEF Ready, Pending
  <2>7. QED
    BY <1>2, <1>3, <1>4, <2>5, <2>6, PreservesTransitive
<1>8. QED
  BY <1>5, <1>6, <1>7

LEMMA KickedPreserves ==
    ASSUME NEW g, Core(g), NEW p \in Protocols, Blank(g, p), Ready(g, p), NEW o \in Players,
           g.player[o].stage # "loading", NEW q \in Protocols, g.player[o].client = q
    PROVE  Preserves(g, AddToAutosend([Disconnect(g, q)
                                         EXCEPT !.player[o].connecting = TRUE,
                                                !.proto[p].eventConnect = TRUE], p))
<1>1. PICK u : u = Disconnect(g, q)
  OBVIOUS
<1>2. g.proto[q].player = o /\ o # None
  BY GameSessionAssumption DEF Core, Players
<1>3. Preserves(g, u) /\ OnlyClosed(g, u) /\ Core(u)
  BY <1>1, <1>2, WithPlayer, DisconnectPreserves DEF Preserves
<1>4. Ready(u, p) /\ u.proto[p].player = None /\ u.player[o].stage # "loading"
  BY <1>3, DisconnectReady DEF OnlyClosed, Blank
<1>5. PICK v : v = [u EXCEPT !.player[o].connecting = TRUE]
  OBVIOUS
<1>6. Preserves(u, v) /\ OnlyPlayer(u, v, o) /\ Core(v)
  BY <1>3, <1>4, <1>5, ConnectingPreserves DEF Preserves
<1>7. Ready(v, p) /\ v.proto[p].player = None /\ v.proto[p] \in Client
  BY <1>4, <1>6 DEF Ready, Pending, OnlyPlayer, Games
<1> DEFINE c == [v.proto[p] EXCEPT !.eventConnect = TRUE]
<1>8. /\ c \in Client /\ c.conn = v.proto[p].conn /\ c.player = v.proto[p].player
      /\ c.late = v.proto[p].late /\ c.acceptPackets = v.proto[p].acceptPackets
  BY <1>7 DEF Client
<1>9. PICK w : w = SetClient(v, p, c)
  OBVIOUS
<1>10. w = [Disconnect(g, q) EXCEPT !.player[o].connecting = TRUE,
                                    !.proto[p].eventConnect = TRUE]
  BY <1>1, <1>5, <1>9 DEF SetClient
<1> HIDE DEF c
<1>11. Preserves(v, w) /\ w.tasks = v.tasks /\ w.proto[p] = c
  BY <1>6, <1>7, <1>8, <1>9, EventPreserves DEF Ready
<1>12. Ready(w, p) /\ Core(w)
  BY <1>7, <1>8, <1>11 DEF Ready, Pending, Preserves
<1>13. Preserves(w, AddToAutosend(w, p))
  BY <1>12, AddToAutosendPreserves
<1>14. Preserves(g, w)
  BY <1>3, <1>6, <1>11, PreservesTransitive
<1>15. QED
  BY <1>10, <1>13, <1>14, PreservesTransitive

LEMMA LoginFoundPreserves ==
    ASSUME NEW g, Core(g), NEW p \in Protocols, Blank(g, p), Ready(g, p), g.mapped # None,
           NEW h \in LoginFound(g, p)
    PROVE  Preserves(g, h)
<1>1. PICK o \in Players : o = g.mapped
  BY DEF Core, Games
<1>2. g.player[o].check /\ g.player[o].stage # "loading"
  BY <1>1 DEF Core, Exact
<1>3. CASE h = Disconnect(g, p)
  BY <1>3, DisconnectPreserves DEF Ready
<1>4. CASE g.player[o].client = None /\ h = AddToAutosend(Connect(g, p), p)
  <2>1. PICK u : u = Connect(g, p)
    OBVIOUS
  <2>2. Preserves(g, u) /\ Ready(u, p)
    BY <2>1, ConnectPreserves DEF Blank, Ready
  <2>3. Preserves(u, h)
    BY <1>4, <2>1, <2>2, AddToAutosendPreserves DEF Preserves
  <2>4. QED
    BY <2>2, <2>3, PreservesTransitive
<1>5. CASE /\ g.player[o].client # None
           /\ h = AddToAutosend([Disconnect(g, g.player[o].client)
                                   EXCEPT !.player[o].connecting = TRUE,
                                          !.proto[p].eventConnect = TRUE], p)
  <2>1. PICK q \in Protocols : q = g.player[o].client
    BY <1>5 DEF Core, Games, Character
  <2>2. QED
    BY <1>2, <1>5, <2>1, KickedPreserves
<1>6. h = Disconnect(g, p) \/
      h = IF g.player[o].client = None THEN AddToAutosend(Connect(g, p), p)
          ELSE AddToAutosend([Disconnect(g, g.player[o].client)
                                EXCEPT !.player[o].connecting = TRUE,
                                       !.proto[p].eventConnect = TRUE], p)
  BY <1>1 DEF LoginFound
<1>7. QED
  BY <1>3, <1>4, <1>5, <1>6

LEMMA LoginPreserves ==
    ASSUME NEW g, Core(g), NEW p \in Protocols, Blank(g, p), Ready(g, p), NEW h \in Login(g, p)
    PROVE  Preserves(g, h)
BY LoginNewPreserves, LoginFoundPreserves DEF Login

-----------------------------------------------------------------------------
(* The other handlers of a client. *)

LEMMA RequestPreserves ==
    ASSUME NEW g, Core(g), NEW p \in Protocols, g.proto[p].acceptPackets,
           NEW h \in Spawn(g, p) \cup Despawn(g, p) \cup Logout(g, p) \cup Packet(g, p)
    PROVE  Preserves(g, h)
<1>1. CASE g.proto[p].player = None
  <2>1. h = g
    BY <1>1 DEF Spawn, Despawn, Logout, Packet
  <2>2. QED
    BY <2>1, PreservesNothing
<1>2. CASE g.proto[p].player # None
  <2>1. PICK o \in Players : o = g.proto[p].player
    BY <1>2 DEF Core, Games, Client
  <2>2. g.player[o].stage # "loading" /\ g.proto[p].conn # "new"
    BY <1>2, <2>1, WithPlayer DEF Core, Orderly
  <2>3. ASSUME NEW u, Preserves(g, u), OnlyClosed(g, u) \/ OnlyPlayer(g, u, o),
               u.player[o].stage = g.player[o].stage
        PROVE  Preserves(g, RemoveCreature(Disconnect(u, p), o))
    <3>1. Core(u) /\ u.proto[p].conn # "new"
      BY <2>2, <2>3 DEF Preserves, OnlyClosed, OnlyPlayer
    <3>2. PICK v : v = Disconnect(u, p)
      OBVIOUS
    <3>3. Preserves(u, v) /\ OnlyClosed(u, v)
      BY <3>1, <3>2, DisconnectPreserves
    <3>4. Preserves(v, RemoveCreature(v, o))
      BY <2>2, <2>3, <3>3, RemoveCreaturePreserves DEF Preserves, OnlyClosed
    <3>5. QED
      BY <2>3, <3>2, <3>3, <3>4, PreservesTransitive
  <2>4. Preserves(g, RemoveCreature(Disconnect(g, p), o))
    <3>1. OnlyClosed(g, g)
      BY DEF OnlyClosed
    <3>2. QED
      BY <2>3, <3>1, PreservesNothing
  <2>5. PICK u : u = [g EXCEPT !.player[o].dead = FALSE]
    OBVIOUS
  <2>6. Preserves(g, u) /\ OnlyPlayer(g, u, o) /\ u.player[o].stage = g.player[o].stage
    <3>1. FALSE \in BOOLEAN
      OBVIOUS
    <3>2. QED
      BY <2>2, <2>5, <3>1, DeadDoes
  <2>7. Preserves(g, RemoveCreature(Disconnect(u, p), o))
    BY <2>3, <2>6
  <2>8. Preserves(g, AddPlayer(AddCreatureCheck(Placed(u, o), o), o))
    BY <2>2, <2>6, RespawnPreserves, PreservesTransitive DEF Preserves
  <2>9. Preserves(g, Posted(g, "logout", p))
    BY PostedPreserves DEF Requests
  <2>10. CASE h \in Spawn(g, p)
    BY <1>2, <2>1, <2>5, <2>7, <2>8, <2>10 DEF Spawn
  <2>11. CASE h \in Despawn(g, p)
    BY <1>2, <2>1, <2>4, <2>11 DEF Despawn
  <2>12. CASE h \in Logout(g, p)
    <3>1. h = RemoveCreature(Disconnect(g, p), o) \/ h = g
      BY <1>2, <2>1, <2>12 DEF Logout
    <3>2. QED
      BY <2>4, <3>1, PreservesNothing
  <2>13. CASE h \in Packet(g, p)
    <3>1. h = Posted(g, "logout", p) \/ h = g
      BY <1>2, <2>1, <2>13 DEF Packet
    <3>2. QED
      BY <2>9, <3>1, PreservesNothing
  <2>14. QED
    BY <2>10, <2>11, <2>12, <2>13
<1>3. QED
  BY <1>1, <1>2

\* All but the client p keep what they have.
Leaves(g, h, p) ==
    /\ Core(h) /\ Closing(h, p)
    /\ \A q \in Protocols : q # p => h.proto[q] = g.proto[q] /\ (Closing(g, q) => Closing(h, q))

LEMMA ReleaseLeaves ==
    ASSUME NEW g, Core(g), NEW p \in Protocols, g.proto[p].conn \in {"closed", "expired"},
           ~Pending(g, "login", p)
    PROVE  Leaves(g, Release(g, p), p)
<1>1. PICK u : u = [g EXCEPT !.autosend = @ \ {p}]
  OBVIOUS
<1>2. /\ u \in Games /\ u.proto = g.proto /\ u.player = g.player /\ u.mapped = g.mapped
      /\ u.tasks = g.tasks /\ u.sendAlls = g.sendAlls /\ u.autosend = g.autosend \ {p}
  BY <1>1 DEF Core, Games
<1>3. \A y, q : Pending(u, y, q) <=> Pending(g, y, q)
  BY <1>2 DEF Pending
<1>4. Core(u)
  <2>1. \A q \in Protocols : Blank(g, q) => Blank(u, q)
    BY <1>2 DEF Blank
  <2>2. \A q \in Protocols : Orderly(u, q)
    BY <1>2, <1>3, <2>1 DEF Core, Orderly
  <2>3. u.autosend # {} => u.sendAlls > 0
    BY <1>2 DEF Core
  <2>4. QED
    BY <1>2, <2>2, <2>3 DEF Core
<1>5. \A q \in Protocols : q # p => (Closing(g, q) => Closing(u, q))
  BY <1>2, <1>3 DEF Closing
<1>6. CASE ~IsOwnClient(g, p)
  <2>1. g.proto[p].player = None
    BY <1>6 DEF IsOwnClient, Core, Games, Client
  <2>2. Closing(u, p)
    BY <1>2, <1>3, <2>1 DEF Closing
  <2>3. Release(g, p) = u
    BY <1>1, <1>6 DEF Release
  <2>4. QED
    BY <1>2, <1>4, <1>5, <2>2, <2>3 DEF Leaves
<1>7. CASE IsOwnClient(g, p)
  <2>1. PICK o \in Players : o = g.proto[p].player /\ g.player[o].client = p
    BY <1>7 DEF IsOwnClient, Core, Games, Client
  <2> DEFINE b == u.player[o]
             c == [b EXCEPT !.client = None, !.refs = @ - 1]
             e == u.proto[p]
             d == [e EXCEPT !.player = None]
  <2>2. /\ b \in Character /\ Exact(b) /\ e \in Client /\ b.client = p /\ p # None /\ o # None
        /\ e.player = o /\ e.conn \in {"closed", "expired"}
    BY <1>2, <1>4, <2>1, GameSessionAssumption DEF Core, Games, Players
  <2>3. /\ b.refs \in Nat /\ b.toRelease \in {0, 1}
        /\ b.refs = 1 + Count(b.stage = "placed") + Count(b.inVector) + b.toRelease
    BY <2>2 DEF Exact, Count, Character
  <2>4. b.refs - 1 \in 0..4 /\ b.refs \in 0..4
    BY <2>2, <2>3 DEF Count, Character
  <2>5. /\ c \in Character /\ c.client = None /\ c.stage = b.stage /\ c.check = b.check
        /\ c.inVector = b.inVector /\ c.toRelease = b.toRelease /\ c.refs = b.refs - 1
    BY <2>2, <2>4 DEF Character
  <2>6. /\ d \in Client /\ d.player = None /\ d.conn = e.conn /\ d.late = e.late
        /\ d.acceptPackets = e.acceptPackets /\ d.eventConnect = e.eventConnect
    BY <2>2 DEF Client
  <2>7. SetClient(SetPlayer(u, o, c), p, d) = Release(g, p)
    <3>1. Release(g, p) = [u EXCEPT !.player[o].client = None, !.player[o].refs = @ - 1,
                                    !.proto[p].player = None]
      BY <1>1, <1>7, <2>1 DEF Release
    <3>2. QED
      BY <1>2, <3>1 DEF SetClient, SetPlayer, Games
  <2> HIDE DEF b, c, d, e
  <2>8. PICK v : v = SetPlayer(u, o, c)
    OBVIOUS
  <2>9. OnlyPlayer(u, v, o) /\ v.player[o] = c /\ v.mapped = u.mapped
    BY <1>2, <2>5, <2>8, SetPlayerDoes
  <2>10. PICK h : h = SetClient(v, p, d)
    OBVIOUS
  <2>11. /\ h \in Games /\ h.player = v.player /\ h.mapped = v.mapped
         /\ h.tasks = v.tasks /\ h.autosend = v.autosend /\ h.sendAlls = v.sendAlls
         /\ h.proto[p] = d /\ \A q \in Protocols : q # p => h.proto[q] = v.proto[q]
    BY <2>6, <2>9, <2>10, SetClientDoes DEF OnlyPlayer
  <2>12. /\ h.tasks = u.tasks /\ h.autosend = u.autosend /\ h.sendAlls = u.sendAlls
         /\ h.mapped = u.mapped /\ h.proto[p] = d /\ h.player[o] = c
         /\ \A q \in Protocols : q # p => h.proto[q] = u.proto[q]
         /\ \A r \in Players : r # o => h.player[r] = u.player[r]
         /\ u.player[o] = b /\ u.proto[p] = e
    BY <2>9, <2>11 DEF OnlyPlayer, b, e
  <2> USE <2>12
  <2>13. \A y, q : Pending(h, y, q) <=> Pending(u, y, q)
    BY DEF Pending
  <2>14. \A q \in Protocols, r \in Players : h.proto[q].player = r <=> h.player[r].client = q
    <3> SUFFICES ASSUME NEW q \in Protocols, NEW r \in Players
                 PROVE  h.proto[q].player = r <=> h.player[r].client = q
      OBVIOUS
    <3>1. u.proto[q].player = r <=> u.player[r].client = q
      BY <1>4 DEF Core
    <3>2. q # None /\ r # None
      BY GameSessionAssumption DEF Players
    <3>3. QED
      BY <2>2, <2>5, <2>6, <3>1, <3>2
  <2>15. Exact(c)
    <3>1. c.refs = Count(c.client # None) + Count(c.stage = "placed") + Count(c.inVector) + c.toRelease
      BY <2>3, <2>5 DEF Count
    <3>2. QED
      BY <2>2, <2>5, <3>1 DEF Exact
  <2>16. \A r \in Players : Exact(h.player[r])
    BY <1>4, <2>15 DEF Core
  <2>17. h.mapped # None => h.player[h.mapped].check
    BY <1>2, <1>4, <2>5 DEF Core, Games
  <2>18. \A q \in Protocols : q # p /\ Blank(u, q) => Blank(h, q)
    <3> SUFFICES ASSUME NEW q \in Protocols, q # p, Blank(u, q)
                 PROVE  Blank(h, q)
      OBVIOUS
    <3>1. q # o
      BY <2>2 DEF Blank
    <3>2. QED
      BY <3>1 DEF Blank, Players
  <2>19. ASSUME NEW q \in Protocols
         PROVE  Orderly(h, q)
    <3>1. Orderly(u, q)
      BY <1>4 DEF Core
    <3>2. CASE q # p
      <4>1. \A r \in Players : u.player[r].stage = h.player[r].stage
        BY <2>5
      <4>2. u.proto[q].player # None => u.proto[q].player \in Players
        BY <1>2 DEF Games, Client
      <4>3. QED
        BY <2>13, <2>18, <3>1, <3>2, <4>1, <4>2 DEF Orderly
    <3>3. CASE q = p
      BY <1>3, <2>2, <2>6, <2>13, <3>1, <3>3 DEF Orderly
    <3>4. QED
      BY <3>2, <3>3
  <2>20. Core(h)
    BY <1>4, <2>11, <2>14, <2>16, <2>17, <2>19 DEF Core
  <2>21. Closing(h, p)
    BY <1>2, <1>3, <2>6, <2>13 DEF Closing
  <2>22. \A q \in Protocols : q # p => (Closing(u, q) => Closing(h, q))
    BY <2>13 DEF Closing
  <2>23. QED
    BY <1>2, <1>5, <2>7, <2>8, <2>10, <2>20, <2>21, <2>22 DEF Leaves
<1>8. QED
  BY <1>6, <1>7

-----------------------------------------------------------------------------
(* The dispatcher takes the first task. *)

LEMMA Tailed ==
    ASSUME NEW s \in Seq(Task), s # <<>>, NEW u, u = Tail(s)
    PROVE  /\ u \in Seq(Task) /\ DOMAIN s = 1..Len(s) /\ DOMAIN u = 1..(Len(s) - 1)
           /\ Len(s) \in Nat \ {0} /\ s[1] \in Task /\ Head(s) = s[1]
           /\ \A i \in 1..(Len(s) - 1) : u[i] = s[i + 1]
OBVIOUS

LEMMA InTailed ==
    ASSUME NEW s \in Seq(Task), s # <<>>, NEW u, u = Tail(s)
    PROVE  /\ \A op, p : In(u, op, p) => In(s, op, p)
           /\ \A op, p : In(s, op, p) => In(u, op, p) \/ Head(s) = [op |-> op, p |-> p]
           /\ LoginFirst(s) => LoginFirst(u)
           /\ LoginFirst(s) /\ Head(s).op \in {"login", "release"} => ~In(u, "login", Head(s).p)
<1>1. /\ u \in Seq(Task) /\ DOMAIN s = 1..Len(s) /\ DOMAIN u = 1..(Len(s) - 1)
      /\ Len(s) \in Nat \ {0} /\ s[1] \in Task /\ Head(s) = s[1]
      /\ \A i \in 1..(Len(s) - 1) : u[i] = s[i + 1]
  BY Tailed
<1>2. \A op, p : In(u, op, p) => In(s, op, p)
  <2> SUFFICES ASSUME NEW op, NEW p, NEW i \in DOMAIN u, u[i] = [op |-> op, p |-> p]
               PROVE  In(s, op, p)
    BY DEF In
  <2>1. i + 1 \in DOMAIN s /\ s[i + 1] = u[i]
    BY <1>1
  <2>2. QED
    BY <2>1 DEF In
<1>3. \A op, p : In(s, op, p) => In(u, op, p) \/ Head(s) = [op |-> op, p |-> p]
  <2> SUFFICES ASSUME NEW op, NEW p, NEW i \in DOMAIN s, s[i] = [op |-> op, p |-> p], i # 1
               PROVE  In(u, op, p)
    BY <1>1 DEF In
  <2>1. i - 1 \in DOMAIN u /\ u[i - 1] = s[i]
    BY <1>1
  <2>2. QED
    BY <2>1 DEF In
<1>4. ASSUME LoginFirst(s)
      PROVE  LoginFirst(u)
  <2> SUFFICES ASSUME NEW i \in DOMAIN u, NEW j \in DOMAIN u,
                      u[i].op = "login", u[j].p = u[i].p, u[j].op \in {"login", "release"}
               PROVE  i <= j
    BY DEF LoginFirst
  <2>1. i + 1 \in DOMAIN s /\ s[i + 1] = u[i] /\ j + 1 \in DOMAIN s /\ s[j + 1] = u[j]
    BY <1>1
  <2>2. i + 1 <= j + 1
    BY <1>4, <2>1 DEF LoginFirst
  <2>3. i \in Int /\ j \in Int
    BY <1>1
  <2>4. QED
    BY <2>2, <2>3
<1>5. ASSUME LoginFirst(s), Head(s).op \in {"login", "release"}, In(u, "login", Head(s).p)
      PROVE  FALSE
  <2>1. PICK i \in DOMAIN u : u[i] = [op |-> "login", p |-> Head(s).p]
    BY <1>5 DEF In
  <2>2. i + 1 \in DOMAIN s /\ s[i + 1] = u[i] /\ 1 \in DOMAIN s /\ i \in 1..(Len(s) - 1)
    BY <1>1
  <2>3. s[i + 1].op = "login" /\ s[1].p = s[i + 1].p /\ s[1].op \in {"login", "release"}
    BY <1>1, <1>5, <2>1, <2>2
  <2>4. i + 1 <= 1
    BY <1>5, <2>2, <2>3 DEF LoginFirst
  <2>5. QED
    BY <1>1, <2>2, <2>4
<1>6. QED
  BY <1>2, <1>3, <1>4, <1>5

LEMMA DequeuedDoes ==
    ASSUME NEW k, Core(k), k.tasks # <<>>
    PROVE  LET g == [k EXCEPT !.tasks = Tail(@)]
               t == Head(k.tasks)
           IN  /\ Core(g) /\ g.proto = k.proto
               /\ t \in Task /\ Pending(k, t.op, t.p)
               /\ \A p \in Protocols : Closing(k, p) /\ t # [op |-> "release", p |-> p] => Closing(g, p)
               /\ \A op, p : Pending(k, op, p) /\ t # [op |-> op, p |-> p] => Pending(g, op, p)
               /\ t.op \in {"login", "release"} => ~Pending(g, "login", t.p)
<1>1. PICK s \in Seq(Task) : s = k.tasks
  BY DEF Core, Games
<1>2. PICK u : u = Tail(s)
  OBVIOUS
<1>3. s # <<>> /\ LoginFirst(s)
  BY <1>1 DEF Core
<1>4. PICK t : t = Head(s)
  OBVIOUS
<1>5. PICK g : g = [k EXCEPT !.tasks = u]
  OBVIOUS
<1>6. u \in Seq(Task) /\ t \in Task /\ 1 \in DOMAIN s /\ s[1] = t
  BY <1>2, <1>3, <1>4, Tailed
<1>7. /\ \A op, p : In(u, op, p) => In(s, op, p)
      /\ \A op, p : In(s, op, p) => In(u, op, p) \/ t = [op |-> op, p |-> p]
      /\ LoginFirst(u)
      /\ t.op \in {"login", "release"} => ~In(u, "login", t.p)
  BY <1>2, <1>3, <1>4, InTailed
<1>8. /\ g \in Games /\ g.proto = k.proto /\ g.player = k.player /\ g.mapped = k.mapped
      /\ g.autosend = k.autosend /\ g.sendAlls = k.sendAlls /\ g.tasks = u
  BY <1>5, <1>6 DEF Core, Games
<1>9. /\ \A op, p : Pending(g, op, p) <=> In(u, op, p)
      /\ \A op, p : Pending(k, op, p) <=> In(s, op, p)
  BY <1>1, <1>8 DEF Pending, In
<1>10. \A p \in Protocols : Blank(k, p) => Blank(g, p)
  BY <1>8 DEF Blank
<1>11. \A p \in Protocols : Orderly(g, p)
  <2> SUFFICES ASSUME NEW p \in Protocols
               PROVE  Orderly(g, p)
    OBVIOUS
  <2>1. Orderly(k, p)
    BY DEF Core
  <2>2. \A op : Pending(g, op, p) => Pending(k, op, p)
    BY <1>7, <1>9
  <2>3. QED
    BY <1>8, <1>10, <2>1, <2>2 DEF Orderly
<1>12. Core(g)
  BY <1>7, <1>8, <1>11 DEF Core
<1>13. t = [op |-> t.op, p |-> t.p]
  BY <1>6 DEF Task
<1>14. Pending(k, t.op, t.p)
  BY <1>6, <1>9, <1>13 DEF In
<1>15. \A p \in Protocols : Closing(k, p) /\ t # [op |-> "release", p |-> p] => Closing(g, p)
  BY <1>7, <1>8, <1>9 DEF Closing
<1>16. QED
  BY <1>1, <1>2, <1>4, <1>5, <1>6, <1>7, <1>8, <1>9, <1>12, <1>14, <1>15

LEMMA EffectsPreserve ==
    ASSUME NEW k, Core(k), k.tasks # <<>>, \A p \in Protocols : Closing(k, p),
           NEW h \in Effects([k EXCEPT !.tasks = Tail(@)], Head(k.tasks))
    PROVE  /\ Core(h) /\ \A p \in Protocols : Closing(h, p)
           /\ \A p \in Protocols :
                 k.proto[p].conn = "open" /\ k.proto[p].player # None =>
                    /\ h.proto[p].conn \in {"open", "closed"}
                    /\ h.proto[p].player = k.proto[p].player
                    /\ k.proto[p].acceptPackets => h.proto[p].acceptPackets
<1>1. PICK g : g = [k EXCEPT !.tasks = Tail(@)]
  OBVIOUS
<1>2. PICK t : t = Head(k.tasks)
  OBVIOUS
<1>3. /\ Core(g) /\ g.proto = k.proto
      /\ t \in Task /\ Pending(k, t.op, t.p)
      /\ \A p \in Protocols : Closing(k, p) /\ t # [op |-> "release", p |-> p] => Closing(g, p)
      /\ \A op, p : Pending(k, op, p) /\ t # [op |-> op, p |-> p] => Pending(g, op, p)
      /\ t.op \in {"login", "release"} => ~Pending(g, "login", t.p)
  BY <1>1, <1>2, DequeuedDoes
<1>4. h \in Effects(g, t)
  BY <1>1, <1>2
<1>5. PICK p \in Protocols : p = t.p
  BY <1>3 DEF Task
<1>6. t = [op |-> t.op, p |-> p] /\ t.op \in {"login", "release"} \cup Requests
  BY <1>3, <1>5 DEF Task, Requests
<1>7. Orderly(k, p) /\ Pending(k, t.op, p)
  BY <1>3, <1>5 DEF Core
<1>8. CASE t.op = "release"
  <2>1. h = Release(g, p)
    BY <1>4, <1>5, <1>8 DEF Effects
  <2>2. g.proto[p].conn \in {"closed", "expired"}
    BY <1>3, <1>7, <1>8 DEF Orderly
  <2>3. Leaves(g, h, p)
    BY <1>3, <1>5, <1>8, <2>1, <2>2, ReleaseLeaves
  <2>4. \A q \in Protocols : q # p => Closing(g, q)
    BY <1>3, <1>5
  <2>5. QED
    BY <1>3, <2>2, <2>3, <2>4 DEF Leaves
<1>9. CASE t.op # "release"
  <2>1. \A q \in Protocols : Closing(g, q)
    BY <1>3, <1>9
  <2>2. Preserves(g, h)
    <3>1. CASE t.op = "login"
      <4>1. Blank(k, p) /\ k.proto[p].conn # "new"
        BY <1>7, <3>1 DEF Orderly
      <4>2. g.proto[p].conn \in {"closed", "expired"} => Pending(g, "release", p)
        <5>1. k.proto[p].conn \in {"closed", "expired"} => Pending(k, "release", p)
          BY <1>7, <3>1 DEF Closing
        <5>2. QED
          BY <1>3, <1>9, <5>1
      <4>3. Blank(g, p)
        BY <1>1, <4>1 DEF Blank, Core, Games
      <4>4. Ready(g, p)
        BY <1>3, <1>5, <3>1, <4>1, <4>2 DEF Ready
      <4>5. h \in Login(g, p)
        BY <1>4, <1>5, <3>1 DEF Effects
      <4>6. QED
        BY <1>3, <4>3, <4>4, <4>5, LoginPreserves
    <3>2. CASE t.op \in Requests
      <4>1. g.proto[p].acceptPackets
        BY <1>3, <1>7, <3>2 DEF Orderly
      <4>2. h \in Spawn(g, p) \cup Despawn(g, p) \cup Logout(g, p) \cup Packet(g, p)
        BY <1>4, <1>5, <3>2 DEF Effects, Requests
      <4>3. QED
        BY <1>3, <4>1, <4>2, RequestPreserves
    <3>3. QED
      BY <1>6, <1>9, <3>1, <3>2
  <2>3. QED
    BY <1>3, <2>1, <2>2 DEF Preserves, Stays
<1>10. QED
  BY <1>8, <1>9

-----------------------------------------------------------------------------
(* The events and the network thread. *)

\* What checkCreatures() and cleanup() leave of a Player.
Swept(c, leaves) ==
    IF leaves THEN [c EXCEPT !.inVector = FALSE, !.refs = @ - (c.toRelease + 1), !.toRelease = 0]
    ELSE [c EXCEPT !.refs = @ - c.toRelease, !.toRelease = 0]

LEMMA SweptDoes ==
    ASSUME NEW c \in Character, Exact(c), NEW d,
           \/ d = Swept(c, FALSE)
           \/ d = Swept(c, TRUE) /\ c.inVector /\ ~c.check
    PROVE  /\ d \in Character /\ Exact(d)
           /\ d.client = c.client /\ d.stage = c.stage /\ d.check = c.check
<1>1. /\ c.refs \in Nat /\ c.toRelease \in {0, 1} /\ (c.toRelease = 1 => c.stage = "removed")
      /\ c.refs = Count(c.client # None) + Count(c.stage = "placed") + Count(c.inVector)
                    + c.toRelease
      /\ c.check => c.inVector
      /\ c.inVector => c.stage # "loading"
  BY DEF Exact, Character
<1>2. CASE d = Swept(c, FALSE)
  <2>1. c.refs - c.toRelease
          = Count(c.client # None) + Count(c.stage = "placed") + Count(c.inVector) + 0
    BY <1>1 DEF Count
  <2>2. c.refs - c.toRelease \in 0..4
    BY <2>1 DEF Count
  <2>3. d = [c EXCEPT !.refs = c.refs - c.toRelease, !.toRelease = 0]
    BY <1>2 DEF Swept
  <2>4. /\ d \in Character /\ d.client = c.client /\ d.stage = c.stage /\ d.check = c.check
        /\ d.inVector = c.inVector /\ d.toRelease = 0 /\ d.refs = c.refs - c.toRelease
    <3>1. PICK n \in 0..4 : n = c.refs - c.toRelease
      BY <2>2
    <3>2. d = [c EXCEPT !.refs = n, !.toRelease = 0]
      BY <2>3, <3>1
    <3>3. [c EXCEPT !.refs = n, !.toRelease = 0] \in Character
      <4>1. PICK m \in 0..2 : m = 0
        OBVIOUS
      <4>2. [c EXCEPT !.refs = n, !.toRelease = m] \in Character
        BY DEF Character
      <4>3. QED
        BY <4>1, <4>2
    <3>4. /\ d.client = c.client /\ d.stage = c.stage /\ d.check = c.check
          /\ d.inVector = c.inVector /\ d.toRelease = 0 /\ d.refs = n
      BY <3>2 DEF Character
    <3>5. QED
      BY <3>1, <3>2, <3>3, <3>4
  <2>5. Exact(d)
    BY <1>1, <2>1, <2>4 DEF Exact
  <2>6. QED
    BY <2>4, <2>5
<1>3. CASE d = Swept(c, TRUE) /\ c.inVector /\ ~c.check
  <2>1. c.refs - (c.toRelease + 1)
          = Count(c.client # None) + Count(c.stage = "placed") + Count(FALSE) + 0
    BY <1>1, <1>3 DEF Count
  <2>2. c.refs - (c.toRelease + 1) \in 0..4
    BY <2>1 DEF Count
  <2>3. d = [c EXCEPT !.inVector = FALSE, !.refs = c.refs - (c.toRelease + 1), !.toRelease = 0]
    BY <1>3 DEF Swept
  <2>4. /\ d \in Character /\ d.client = c.client /\ d.stage = c.stage /\ d.check = c.check
        /\ d.inVector = FALSE /\ d.toRelease = 0 /\ d.refs = c.refs - (c.toRelease + 1)
    <3>1. PICK n \in 0..4 : n = c.refs - (c.toRelease + 1)
      BY <2>2
    <3>2. d = [c EXCEPT !.inVector = FALSE, !.refs = n, !.toRelease = 0]
      BY <2>3, <3>1
    <3>3. [c EXCEPT !.inVector = FALSE, !.refs = n, !.toRelease = 0] \in Character
      <4>1. PICK m \in 0..2 : m = 0
        OBVIOUS
      <4>2. [c EXCEPT !.inVector = FALSE, !.refs = n, !.toRelease = m] \in Character
        BY DEF Character
      <4>3. QED
        BY <4>1, <4>2
    <3>4. /\ d.client = c.client /\ d.stage = c.stage /\ d.check = c.check
          /\ d.inVector = FALSE /\ d.toRelease = 0 /\ d.refs = n
      BY <3>2 DEF Character
    <3>5. QED
      BY <3>1, <3>2, <3>3, <3>4
  <2>5. Exact(d)
    BY <1>1, <1>3, <2>1, <2>4 DEF Exact
  <2>6. QED
    BY <2>4, <2>5
<1>4. QED
  BY <1>2, <1>3

LEMMA CheckCreaturesPreserves ==
    ASSUME Core(game), CheckCreatures
    PROVE  Preserves(game, game') /\ game'.proto = game.proto
<1>1. game \in Games /\ game.player \in [Players -> Character]
  BY DEF Core, Games
<1>2. PICK list \in SUBSET {o \in Players : game.player[o].inVector} :
          LET leaving == {o \in list : ~game.player[o].check}
              swept   == [o \in Players |->
                            IF o \in leaving
                            THEN Released([game EXCEPT !.player[o].inVector = FALSE], o).player[o]
                            ELSE game.player[o]]
          IN  game' = Cleanup([game EXCEPT !.player = swept])
  BY DEF CheckCreatures
<1> DEFINE leaving == {o \in list : ~game.player[o].check}
           swept == [o \in Players |->
                       IF o \in leaving
                       THEN Released([game EXCEPT !.player[o].inVector = FALSE], o).player[o]
                       ELSE game.player[o]]
           u == [game EXCEPT !.player = swept]
           f == [o \in Players |->
                   [u.player[o] EXCEPT !.refs = @ - u.player[o].toRelease, !.toRelease = 0]]
<1>3. game' = [u EXCEPT !.player = f]
  BY <1>2 DEF Cleanup
<1>4. u.player = swept
  BY <1>1 DEF Games
<1>5. ASSUME NEW o \in Players
      PROVE  /\ f[o] \in Character /\ Exact(f[o])
             /\ f[o].client = game.player[o].client /\ f[o].stage = game.player[o].stage
             /\ f[o].check = game.player[o].check
  <2>1. PICK c \in Character : c = game.player[o]
    BY <1>1
  <2>2. Exact(c)
    BY <2>1 DEF Core
  <2>3. CASE o \in leaving
    <3>1. swept[o] = [c EXCEPT !.inVector = FALSE, !.toRelease = @ + 1]
      BY <1>1, <2>1, <2>3 DEF Released, Games
    <3>2. f[o] = [swept[o] EXCEPT !.refs = @ - swept[o].toRelease, !.toRelease = 0]
      BY <1>4
    <3>3. f[o] = Swept(c, TRUE)
      <4> HIDE DEF f, swept
      <4>1. QED
        BY <2>1, <3>1, <3>2 DEF Swept, Character
    <3>4. c.inVector /\ ~c.check
      BY <2>1, <2>3
    <3> HIDE DEF f, leaving
    <3>5. QED
      BY <2>1, <2>2, <3>3, <3>4, SweptDoes
  <2>4. CASE o \notin leaving
    <3>1. swept[o] = c
      BY <2>1, <2>4
    <3>2. f[o] = [swept[o] EXCEPT !.refs = @ - swept[o].toRelease, !.toRelease = 0]
      BY <1>4
    <3>3. f[o] = Swept(c, FALSE)
      <4> HIDE DEF f, swept
      <4>1. QED
        BY <2>1, <3>1, <3>2 DEF Swept, Character
    <3> HIDE DEF f, leaving
    <3>4. QED
      BY <2>1, <2>2, <3>3, SweptDoes
  <2>5. QED
    BY <2>3, <2>4
<1>6. game' = [game EXCEPT !.player = f]
  BY <1>1, <1>3 DEF Games
<1>7. f \in [Players -> Character]
  BY <1>5
<1> HIDE DEF f
<1>8. /\ game' \in Games /\ game'.player = f /\ game'.mapped = game.mapped
      /\ game'.proto = game.proto /\ game'.tasks = game.tasks
      /\ game'.autosend = game.autosend /\ game'.sendAlls = game.sendAlls
  BY <1>1, <1>6, <1>7 DEF Games
<1>9. game'.mapped # None => game'.player[game'.mapped].check
  BY <1>1, <1>5, <1>8 DEF Core, Games
<1>10. Rearranged(game, game')
  BY <1>5, <1>8, <1>9 DEF Rearranged
<1>11. QED
  BY <1>8, <1>10, RearrangedPreserves

LEMMA SendAllPreserves ==
    ASSUME Core(game), SendAll
    PROVE  Preserves(game, game') /\ game'.proto = game.proto
<1> DEFINE n == IF SendAgain(game) THEN game.sendAlls ELSE game.sendAlls - 1
<1>1. game \in Games /\ game.sendAlls \in Nat /\ game.sendAlls > 0
  BY DEF Core, Games, SendAll
<1>2. n \in Nat /\ (game.autosend # {} => n > 0)
  BY <1>1 DEF SendAgain
<1>3. game' = [game EXCEPT !.sendAlls = n]
  BY DEF SendAll
<1> HIDE DEF n
<1>4. /\ game' \in Games /\ game'.player = game.player /\ game'.mapped = game.mapped
      /\ game'.proto = game.proto /\ game'.tasks = game.tasks
      /\ game'.autosend = game.autosend /\ game'.sendAlls = n
  BY <1>1, <1>2, <1>3 DEF Games
<1> PICK h : h = game'
  OBVIOUS
<1>5. \A x, q : Pending(h, x, q) <=> Pending(game, x, q)
  BY <1>4 DEF Pending
<1>6. \A q \in Protocols : Blank(game, q) => Blank(h, q)
  BY <1>4 DEF Blank
<1>7. \A q \in Protocols : Orderly(h, q)
  BY <1>4, <1>5, <1>6 DEF Core, Orderly
<1>8. Core(h)
  BY <1>2, <1>4, <1>7 DEF Core
<1>9. Stays(game, h)
  BY <1>4 DEF Stays
<1>10. \A q \in Protocols : Closing(game, q) => Closing(h, q)
  BY <1>4, <1>5 DEF Closing
<1>11. QED
  BY <1>4, <1>8, <1>9, <1>10 DEF Preserves

LEMMA FirstMessageSound ==
    ASSUME NEW g, Core(g), NEW p \in Protocols, g.proto[p].conn = "new"
    PROVE  LET h == Posted([g EXCEPT !.proto[p].conn = "open"], "login", p)
           IN  Core(h) /\ \A q \in Protocols : Closing(g, q) => Closing(h, q)
<1> DEFINE c == [g.proto[p] EXCEPT !.conn = "open"]
<1>0. g \in Games /\ g.proto[p] \in Client
  BY DEF Core, Games
<1>1. /\ c \in Client /\ c.conn = "open" /\ c.player = g.proto[p].player
      /\ c.late = g.proto[p].late /\ c.acceptPackets = g.proto[p].acceptPackets
      /\ c.eventConnect = g.proto[p].eventConnect
  BY <1>0 DEF Client
<1>2. SetClient(g, p, c) = [g EXCEPT !.proto[p].conn = "open"]
  BY DEF SetClient
<1> HIDE DEF c
<1>3. PICK u : u = SetClient(g, p, c)
  OBVIOUS
<1>4. /\ u \in Games /\ u.player = g.player /\ u.mapped = g.mapped
      /\ u.tasks = g.tasks /\ u.autosend = g.autosend /\ u.sendAlls = g.sendAlls
      /\ u.proto[p] = c /\ \A q \in Protocols : q # p => u.proto[q] = g.proto[q]
  BY <1>0, <1>1, <1>3, SetClientDoes
<1>5. PICK h : h = Posted(u, "login", p)
  OBVIOUS
<1>6. /\ h \in Games /\ h.proto = u.proto /\ h.player = u.player /\ h.mapped = u.mapped
      /\ h.autosend = u.autosend /\ h.sendAlls = u.sendAlls
      /\ \A x, q : Pending(h, x, q) <=> Pending(u, x, q) \/ (x = "login" /\ q = p)
      /\ LoginFirst(u.tasks) /\ ~Pending(u, "login", p) /\ ~Pending(u, "release", p)
            => LoginFirst(h.tasks)
  <2>1. "login" \in Ops
    BY DEF Ops
  <2>2. QED
    BY <1>4, <1>5, <2>1, PostedDoes
<1>7. \A x, q : Pending(u, x, q) <=> Pending(g, x, q)
  BY <1>4 DEF Pending
<1>8. Orderly(g, p) /\ Blank(g, p) /\ ~Pending(g, "login", p) /\ ~Pending(g, "release", p)
  BY DEF Core, Orderly
<1>9. LoginFirst(h.tasks)
  BY <1>4, <1>6, <1>7, <1>8 DEF Core
<1>10. \A q \in Protocols : Blank(g, q) => Blank(h, q)
  BY <1>1, <1>4, <1>6 DEF Blank
<1>11. ASSUME NEW q \in Protocols
       PROVE  Orderly(h, q)
  <2>1. Orderly(g, q)
    BY DEF Core
  <2>2. /\ \A op \in Requests : Pending(h, op, q) <=> Pending(g, op, q)
        /\ Pending(h, "release", q) <=> Pending(g, "release", q)
        /\ Pending(h, "login", q) <=> Pending(g, "login", q) \/ q = p
    BY <1>6, <1>7 DEF Requests
  <2>3. CASE q = p
    BY <1>1, <1>4, <1>6, <1>8, <1>10, <2>1, <2>2, <2>3 DEF Orderly
  <2>4. CASE q # p
    BY <1>4, <1>6, <1>10, <2>1, <2>2, <2>4 DEF Orderly
  <2>5. QED
    BY <2>3, <2>4
<1>12. \A q \in Protocols : h.proto[q].player = g.proto[q].player
  BY <1>1, <1>4, <1>6
<1>13. Core(h)
  BY <1>4, <1>6, <1>9, <1>11, <1>12 DEF Core
<1>14. \A q \in Protocols : Closing(g, q) => Closing(h, q)
  BY <1>1, <1>4, <1>6, <1>7 DEF Closing
<1>15. QED
  BY <1>2, <1>3, <1>5, <1>13, <1>14

LEMMA ConnectionGoneSound ==
    ASSUME NEW g, Core(g), NEW p \in Protocols, g.proto[p].conn = "closed"
    PROVE  LET h == [g EXCEPT !.proto[p].conn = "expired"]
           IN  Core(h) /\ \A q \in Protocols : Closing(g, q) => Closing(h, q)
<1> DEFINE c == [g.proto[p] EXCEPT !.conn = "expired"]
<1>0. g \in Games /\ g.proto[p] \in Client
  BY DEF Core, Games
<1>1. /\ c \in Client /\ c.conn = "expired" /\ c.player = g.proto[p].player
      /\ c.late = g.proto[p].late /\ c.acceptPackets = g.proto[p].acceptPackets
      /\ c.eventConnect = g.proto[p].eventConnect
  BY <1>0 DEF Client
<1>2. SetClient(g, p, c) = [g EXCEPT !.proto[p].conn = "expired"]
  BY DEF SetClient
<1> HIDE DEF c
<1>3. PICK h : h = SetClient(g, p, c)
  OBVIOUS
<1>4. /\ h \in Games /\ h.player = g.player /\ h.mapped = g.mapped
      /\ h.tasks = g.tasks /\ h.autosend = g.autosend /\ h.sendAlls = g.sendAlls
      /\ h.proto[p] = c /\ \A q \in Protocols : q # p => h.proto[q] = g.proto[q]
  BY <1>0, <1>1, <1>3, SetClientDoes
<1>5. \A x, q : Pending(h, x, q) <=> Pending(g, x, q)
  BY <1>4 DEF Pending
<1>6. \A q \in Protocols : Blank(g, q) => Blank(h, q)
  BY <1>1, <1>4 DEF Blank
<1>7. ASSUME NEW q \in Protocols
      PROVE  Orderly(h, q)
  <2>1. Orderly(g, q)
    BY DEF Core
  <2>2. CASE q = p
    BY <1>1, <1>4, <1>5, <1>6, <2>1, <2>2 DEF Orderly
  <2>3. CASE q # p
    BY <1>4, <1>5, <1>6, <2>1, <2>3 DEF Orderly
  <2>4. QED
    BY <2>2, <2>3
<1>8. \A q \in Protocols : h.proto[q].player = g.proto[q].player
  BY <1>1, <1>4
<1>9. Core(h)
  BY <1>4, <1>7, <1>8 DEF Core
<1>10. \A q \in Protocols : Closing(g, q) => Closing(h, q)
  BY <1>1, <1>4, <1>5 DEF Closing
<1>11. QED
  BY <1>2, <1>3, <1>9, <1>10

-----------------------------------------------------------------------------
(* The invariant is inductive. *)

LEMMA InitIInv == Init => IInv
<1> SUFFICES ASSUME Init PROVE IInv
  OBVIOUS
<1>1. net = None
  BY DEF Init
<1>2. MaxBodies \in Nat /\ 0 \in 0..MaxBodies /\ 0 \in 0..4 /\ 0 \in 0..2
  BY GameSessionAssumption
<1> DEFINE c == [conn |-> "new", player |-> None, acceptPackets |-> FALSE,
                 eventConnect |-> FALSE, late |-> FALSE]
           d == [stage |-> "loading", client |-> None, refs |-> 0,
                 dead |-> FALSE, connecting |-> FALSE, bodies |-> 0,
                 check |-> FALSE, inVector |-> FALSE, toRelease |-> 0]
<1>3. c \in Client
  BY DEF Client
<1>4. d \in Character
  BY <1>2 DEF Character
<1>5. game = [proto |-> [p \in Protocols |-> c], player |-> [o \in Players |-> d],
              mapped |-> None, tasks |-> <<>>, autosend |-> {}, sendAlls |-> 0]
  BY DEF Init
<1>6. /\ c.conn = "new" /\ c.player = None /\ ~c.acceptPackets /\ ~c.eventConnect
      /\ d.client = None /\ d.stage = "loading" /\ ~d.check
  OBVIOUS
<1>7. Exact(d)
  BY DEF Exact, Count
<1> HIDE DEF c, d
<1>8. /\ game.proto = [p \in Protocols |-> c] /\ game.player = [o \in Players |-> d]
      /\ game.mapped = None /\ game.tasks = <<>> /\ game.autosend = {} /\ game.sendAlls = 0
  BY <1>5
<1>9. game \in Games
  <2>1. <<>> \in Seq(Task) /\ game.proto \in [Protocols -> Client]
        /\ game.player \in [Players -> Character] /\ 0 \in Nat
    BY <1>3, <1>4, <1>8
  <2>2. QED
    BY <1>5, <1>8, <2>1 DEF Games
<1>10. \A op, p : ~Pending(game, op, p)
  BY <1>8 DEF Pending
<1>11. \A p \in Protocols : Blank(game, p)
  BY <1>6, <1>8 DEF Blank, Players
<1>12. \A p \in Protocols : Orderly(game, p)
  BY <1>6, <1>8, <1>10, <1>11 DEF Orderly
<1>13. LoginFirst(game.tasks)
  BY <1>8 DEF LoginFirst
<1>14. \A p \in Protocols, o \in Players : game.proto[p].player = o <=> game.player[o].client = p
  BY <1>6, <1>8, GameSessionAssumption DEF Players
<1>15. Core(game)
  BY <1>7, <1>8, <1>9, <1>12, <1>13, <1>14 DEF Core
<1>16. \A p \in Protocols : Closing(game, p)
  BY <1>6, <1>8 DEF Closing
<1>17. QED
  BY <1>1, <1>9, <1>15, <1>16 DEF IInv, TypeOK, Games, Parsing

LEMMA NextIInv == IInv /\ [Next]_vars => IInv'
<1> SUFFICES ASSUME IInv, [Next]_vars PROVE IInv'
  OBVIOUS
<1>0. /\ Core(game) /\ \A p \in Protocols : Closing(game, p)
      /\ Parsing /\ net \in [p : Protocols, o : Players] \cup {None}
  BY DEF IInv, TypeOK
<1>1. ASSUME Core(game'), \A p \in Protocols : Closing(game', p), net' = None
      PROVE  IInv'
  BY <1>1 DEF IInv, TypeOK, Core, Games, Parsing
<1>2. ASSUME Core(game'), \A p \in Protocols : Closing(game', p), net' = net,
             net # None => /\ game'.proto[net.p].conn = "open"
                           /\ game'.proto[net.p].player = net.o
                           /\ game'.proto[net.p].acceptPackets
      PROVE  IInv'
  BY <1>0, <1>2 DEF IInv, TypeOK, Core, Games, Parsing
<1>3. ASSUME Preserves(game, game'), game'.proto = game.proto, net' = net
      PROVE  IInv'
  BY <1>0, <1>2, <1>3 DEF Preserves, Parsing
<1>4. ASSUME NEW h, Core(h), \A p \in Protocols : Closing(h, p), Become(h), net' = net,
             \A p \in Protocols :
                 game.proto[p].conn = "open" /\ game.proto[p].player # None =>
                    /\ h.proto[p].conn \in {"open", "closed"}
                    /\ h.proto[p].player = game.proto[p].player
                    /\ game.proto[p].acceptPackets => h.proto[p].acceptPackets
      PROVE  IInv'
  <2>1. game' = h /\ \A p \in Protocols :
            game.proto[p].conn = "open" /\ h.proto[p].conn = "closed" => ~Locked(p)
    BY <1>4 DEF Become
  <2>2. net # None => net.p \in Protocols /\ net.o \in Players /\ net.o # None
    BY <1>0, GameSessionAssumption DEF Players
  <2>3. net # None => /\ game'.proto[net.p].conn = "open"
                      /\ game'.proto[net.p].player = net.o
                      /\ game'.proto[net.p].acceptPackets
    BY <1>0, <1>4, <2>1, <2>2 DEF Parsing, Locked
  <2>4. QED
    BY <1>2, <1>4, <2>1, <2>3
<1>5. ASSUME NEW h, Preserves(game, h), Become(h), net' = net
      PROVE  IInv'
  BY <1>0, <1>4, <1>5 DEF Preserves, Stays
<1>6. CASE RunTask
  <2>1. game.tasks # <<>> /\ net' = net
    BY <1>6 DEF RunTask
  <2>2. PICK h \in Effects([game EXCEPT !.tasks = Tail(@)], Head(game.tasks)) : Become(h)
    BY <1>6 DEF RunTask
  <2>3. /\ Core(h) /\ \A p \in Protocols : Closing(h, p)
        /\ \A p \in Protocols :
              game.proto[p].conn = "open" /\ game.proto[p].player # None =>
                 /\ h.proto[p].conn \in {"open", "closed"}
                 /\ h.proto[p].player = game.proto[p].player
                 /\ game.proto[p].acceptPackets => h.proto[p].acceptPackets
    BY <1>0, <2>1, <2>2, EffectsPreserve
  <2>4. QED
    BY <1>4, <2>1, <2>2, <2>3
<1>7. CASE CheckCreatures
  BY <1>0, <1>3, <1>7, CheckCreaturesPreserves DEF CheckCreatures
<1>8. CASE SendAll
  BY <1>0, <1>3, <1>8, SendAllPreserves DEF SendAll
<1>9. CASE ParsePacketEnd
  <2>1. /\ net # None /\ net' = None /\ net.p \in Protocols
        /\ game.proto[net.p].conn = "open" /\ game.proto[net.p].acceptPackets
    BY <1>0, <1>9 DEF ParsePacketEnd, Parsing
  <2>2. Preserves(game, game')
    <3>1. \/ game' = game \/ game' = Close(game, net.p)
          \/ \E op \in Requests : game' = Posted(game, op, net.p)
      BY <1>9 DEF ParsePacketEnd, Requests
    <3>2. QED
      BY <1>0, <2>1, <3>1, PreservesNothing, ClosePreserves, PostedPreserves
  <2>3. QED
    BY <1>0, <1>1, <2>1, <2>2 DEF Preserves
<1>10. ASSUME NEW p \in Protocols, ConnectEvent(p)
       PROVE  IInv'
  <2>1. game.proto[p].eventConnect /\ Become(Connect(game, p)) /\ net' = net
    BY <1>10 DEF ConnectEvent
  <2>2. /\ game.proto[p].player = None /\ game.proto[p].conn # "new"
        /\ ~Pending(game, "login", p)
    BY <1>0, <2>1 DEF Core, Orderly, Blank
  <2>3. Preserves(game, Connect(game, p))
    BY <1>0, <2>2, ConnectPreserves
  <2>4. QED
    BY <1>5, <2>1, <2>3
<1>11. ASSUME NEW p \in Protocols, FirstMessage(p)
       PROVE  IInv'
  <2>1. /\ game.proto[p].conn = "new" /\ net' = None
        /\ game' = Posted([game EXCEPT !.proto[p].conn = "open"], "login", p)
    BY <1>11 DEF FirstMessage
  <2>2. QED
    BY <1>0, <1>1, <2>1, FirstMessageSound
<1>12. ASSUME NEW p \in Protocols, ParsePacket(p)
       PROVE  IInv'
  <2>1. /\ game' = game /\ net' = [p |-> p, o |-> game.proto[p].player]
        /\ game.proto[p].conn = "open" /\ game.proto[p].acceptPackets
        /\ game.proto[p].player # None
    BY <1>12 DEF ParsePacket
  <2>2. game.proto[p].player \in Players
    BY <1>0, <2>1 DEF Core, Games, Client
  <2>3. TypeOK'
    BY <2>1, <2>2 DEF IInv, TypeOK
  <2>4. Parsing'
    BY <2>1 DEF Parsing
  <2>5. Core(game') /\ \A q \in Protocols : Closing(game', q)
    BY <1>0, <2>1
  <2>6. QED
    BY <2>3, <2>4, <2>5 DEF IInv
<1>13. ASSUME NEW p \in Protocols, NetworkCloses(p)
       PROVE  IInv'
  <2>1. /\ game.proto[p].conn \in {"open", "closed"} /\ net' = None
        /\ game' = Close(game, p)
    BY <1>13 DEF NetworkCloses
  <2>2. Preserves(game, game')
    BY <1>0, <2>1, ClosePreserves
  <2>3. QED
    BY <1>0, <1>1, <2>1, <2>2 DEF Preserves
<1>14. ASSUME NEW p \in Protocols, ConnectionGone(p)
       PROVE  IInv'
  <2>1. /\ game.proto[p].conn = "closed" /\ net' = None
        /\ game' = [game EXCEPT !.proto[p].conn = "expired"]
    BY <1>14 DEF ConnectionGone
  <2>2. QED
    BY <1>0, <1>1, <2>1, ConnectionGoneSound
<1>15. ASSUME NEW o \in Players, PingTimeout(o) \/ Kick(o)
       PROVE  IInv'
  <2>1. Become(Leave(game, o)) /\ net' = net /\ (game.player[o].check \/ game.mapped = o)
    BY <1>15 DEF PingTimeout, Kick
  <2>2. game.player[o].stage # "loading"
    <3>1. game.player[o].check
      BY <1>0, <2>1, GameSessionAssumption DEF Core, Players
    <3>2. QED
      BY <1>0, <3>1 DEF Core, Exact
  <2>3. Preserves(game, Leave(game, o))
    BY <1>0, <2>2, LeavePreserves
  <2>4. QED
    BY <1>5, <2>1, <2>3
<1>16. ASSUME NEW o \in Players, Death(o)
       PROVE  IInv'
  <2>1. PICK g : g = RemovePlayer(Unplaced(RemoveCreatureCheck(game, o), o), o)
    OBVIOUS
  <2>2. game.player[o].check /\ game' = [g EXCEPT !.player[o].dead = TRUE] /\ net' = net
    BY <1>16, <2>1 DEF Death
  <2>3. Preserves(game, g) /\ OnlyPlayer(game, g, o) /\ g.player[o].stage # "loading"
    BY <1>0, <2>1, <2>2, DespawnPreserves
  <2>4. Preserves(g, game') /\ OnlyPlayer(g, game', o)
    <3>1. TRUE \in BOOLEAN
      OBVIOUS
    <3>2. QED
      BY <2>2, <2>3, <3>1, DeadDoes DEF Preserves
  <2>5. Preserves(game, game') /\ game'.proto = game.proto
    BY <2>3, <2>4, PreservesTransitive DEF OnlyPlayer
  <2>6. QED
    BY <1>3, <2>2, <2>5
<1>17. CASE UNCHANGED vars
  BY <1>0, <1>17 DEF vars, IInv, TypeOK, Parsing
<1>18. QED
  BY <1>6, <1>7, <1>8, <1>9, <1>10, <1>11, <1>12, <1>13, <1>14, <1>15, <1>16, <1>17 DEF Next

LEMMA Invariance == Spec => []IInv
BY InitIInv, NextIInv, PTL DEF Spec

\* A protocol has a Player exactly when that Player has it as its client: a
\* kick by a second login, a late connect() and repeated release()s never leave
\* two clients with one Player.
THEOREM ClientsAgree == Spec => []ClientAgreed
<1>1. IInv => ClientAgreed
  BY DEF IInv, Core, ClientAgreed
<1>2. QED
  BY <1>1, Invariance, PTL

\* referenceCounter is the number of holders of the Player at every moment,
\* and stays between 0 and 4.
THEOREM ReferencesCounted == Spec => []RefsExact
<1>1. IInv => RefsExact
  BY DEF IInv, Core, Exact, RefsExact
<1>2. QED
  BY <1>1, Invariance, PTL

\* A Player that the name map, the check lists or the network thread can reach
\* has not been deleted.
THEOREM ReachableNotDeleted == Spec => []ReachableIsAlive
<1>1. IInv => ReachableIsAlive
  <2> SUFFICES ASSUME IInv PROVE ReachableIsAlive
    OBVIOUS
  <2>1. Core(game) /\ Parsing /\ net \in [p : Protocols, o : Players] \cup {None}
    BY DEF IInv, TypeOK
  <2>2. ASSUME NEW o \in Players, game.player[o].check \/ game.player[o].client # None
        PROVE  Alive(o)
    <3>1. PICK c : c = game.player[o]
      OBVIOUS
    <3>2. /\ c.refs = Count(c.client # None) + Count(c.stage = "placed")
                        + Count(c.inVector) + c.toRelease
          /\ c.toRelease \in {0, 1} /\ (c.inVector \/ c.client # None)
      BY <2>1, <2>2, <3>1 DEF Core, Exact
    <3>3. c.refs > 0
      BY <3>2 DEF Count
    <3>4. QED
      BY <3>1, <3>3 DEF Alive
  <2>3. game.mapped # None => game.mapped \in Players /\ game.player[game.mapped].check
    BY <2>1 DEF Core, Games
  <2>4. net # None => net.o \in Players /\ game.player[net.o].client # None
    BY <2>1, GameSessionAssumption DEF Core, Parsing
  <2>5. QED
    BY <2>2, <2>3, <2>4 DEF ReachableIsAlive
<1>2. QED
  BY <1>1, Invariance, PTL

\* While a protocol is buffered a sendAll() is scheduled, and a buffered
\* protocol with a closed connection has a release() queued.
THEOREM BufferedAreSent == Spec => []AutosendRuns
<1>1. IInv => AutosendRuns
  <2> SUFFICES ASSUME IInv PROVE AutosendRuns
    OBVIOUS
  <2>1. game.autosend \in SUBSET Protocols /\ (game.autosend # {} => game.sendAlls > 0)
    BY DEF IInv, Core, Games
  <2>2. \A p \in Protocols : Closing(game, p)
    BY DEF IInv
  <2>3. QED
    BY <2>1, <2>2 DEF AutosendRuns, Closing
<1>2. QED
  BY <1>1, Invariance, PTL

\* A client with a Player whose connection is closed has a release() queued,
\* but for one that connect() attached to a connection already closed.
THEOREM ClosedAreReleased == Spec => []ClosedIsReleased
<1>1. IInv => ClosedIsReleased
  BY DEF IInv, Closing, ClosedIsReleased
<1>2. QED
  BY <1>1, Invariance, PTL
=============================================================================
