# Moonlight server: TLA+ models, checks and proofs

Moonlight is a Tibia game server (a fork of OpenTibiaBR/Canary) in C++.  This
directory holds TLA+ modules for the parts of the server whose correctness is a
matter of order, timing and shared pointers: the worker threads, the connections
and ports, the database session, the login queue, the life of a logged-in
character, and the parts of the game in which several players or scheduled events
meet (trade, market, party, chat and guilds, houses and beds, decay, walking, spawns,
monsters, raids, the movement of items, conditions and imbuements).  Every module is translated from the source;
`PROJECT.json` gives the lines for each definition.

Paths below are relative to the server's source directory.

## 1. The system

### Threads

| thread | code | what it does |
|---|---|---|
| main / network | `otserv.cpp`, boost::asio `io_service` | accepts connections, runs the read, write and timer handlers, authenticates first messages |
| dispatcher | `game/scheduling/tasks.cpp` | runs all game logic, one task at a time |
| scheduler | `game/scheduling/scheduler.cpp` | sleeps until the next timed event and hands it to the dispatcher |
| database | `database/databasetasks.cpp` | executes queries nobody waits for; callbacks go back to the dispatcher |

The dispatcher is the serialisation point: game state has no locks because only
the dispatcher touches it.  What makes the server hard to get right lies at the
edges of that rule: the hand-over between threads (mutex plus condition variable
in three variants), state looked at in one task and used in a later one, objects
kept alive by hand-counted references, one database session shared by all threads,
and the shutdown that has to unwind everything in the right order.

### Inventory

| component | state | operations | interacts with | hard behaviour | what makes it correct |
|---|---|---|---|---|---|
| Dispatcher | task list, thread state | `addTask` (back or front), `threadMain`, expiry, `stop`, `shutdown` | every thread calls `addTask` | signal after unlock, front insertion, shutdown racing producers | no lost wake-up, no task lost or doubled, FIFO among ordinary tasks, drained before the end |
| Scheduler | event heap, set of live ids, last id | `addEvent`, `stopEvent`, `threadMain`, `stop`, `shutdown` | hands events to the front of the dispatcher's list | timed wait that finds another event on top, id reuse, stop racing hand-over | never early, never after a successful stop, every other event runs, the thread ends |
| Database tasks | query queue, flush flag | `addTask`, `flush`, `runTask`, `stop`, `shutdown` | callbacks to the dispatcher; `flush` called by saves | `flush` without predicate, shutdown while the queue is busy | order kept, `flush` covers what it found, calls return |
| Database session | one MySQL session, recursive lock, transaction state | `executeQuery`, `storeQuery`, `beginTransaction`, `commit`, `rollback`, `DBTransaction` | dispatcher saves; database and network threads query | reconnect in a transaction, early returns, BEGIN before the lock | lock balanced, saves atomic, reported statements durable |
| Connection | protocol state, read and write chains, timers, message queue, socket | `accept`, `parseHeader`, `parsePacket`, `send`, `onWriteOperation`, `handleTimeout`, `close` | protocols on the dispatcher; ConnectionManager | handlers in any order, failed or late; graceful and forced close | one write per non-empty queue, order, delivery on graceful close, no leak |
| Login waiting list | two lists, element counts, time-outs | `clientLogin`, `findClient`, `cleanupList` | `ProtocolGame::login` | unsigned time arithmetic, erase through the wrong list | limit kept, one place each, nobody pushed out by those behind |
| Game session | `ProtocolGame`, `Player` with its reference counter, name map, check lists, autosend list | `login`, `connect`, `release`, `spawn`, `despawn`, `logout`, `kickPlayer`, `sendPing`, `death`, `removeCreature`, `checkCreatures`, `cleanup` | connections, dispatcher, scheduler, waiting list | second login, death, reconnection event, repeated `release`, reads on the network thread | client and Player agree, counter exact, nothing reachable is deleted, closed clients released, one Player per character |
| Service port | acceptor, pending flags | `open`, `accept`, `onAccept`, `openAcceptor`, `onStopServer` | scheduler re-opens it | accept or bind failing in turn, re-opening twice | exactly one thing keeps a port alive |
| Market | offers in the database, balances, inboxes | create, cancel, accept, asynchronous expiry | database tasks, bank, depot, stash | rows read by an asynchronous query and used later; 32-bit products | money and items conserved |
| Trade | two players' trade states, `tradeItems` | request, accept, close, cancel hooks | inventory, logout, movement | accept before an offer, item moved or destroyed meanwhile | symmetric partners, all or nothing |
| Decay | map from time to items, one scheduled event | `startDecay`, `stopDecay`, `checkDecay` | scheduler, items | start and stop during a sweep | an event is pending while items decay, nothing early or leaked |
| Party | leader, members, invitations, shared experience | invite, join, leave, pass leadership, disband | `Player` life cycle | raw pointers, a party that deletes itself | players and parties agree, the cached sharing is current |
| Chat and guilds | channels, users, invitations; members online | open, close, invite, exclude, guild changes, reload | login, logout, death, parties | raw pointers to players and guilds, objects deleted by the last to leave | nothing in the game points to what is gone |
| Walking | walk event, path, waiting action | `addEventWalk`, `stopEventWalk`, `onWalk`, `setNextWalkActionTask` | scheduler | an event handed over but not run; speed 0 | one chain of events, never stuck |
| Spawns | spawned monsters, one check event | start-up, `checkSpawnMonster`, delayed spawn, death | scheduler, monsters | the only event is re-armed by itself | an empty block has an event pending |
| Monsters | target and friend lists, pursuit, idle state, check lists | appear, move, remove, think, hit, death, conditions | spectators' callbacks | sight 10 against reach 11; references and raw pointers | what a monster knows is what is there |
| Raids | list, running raid, last event, check event | `checkRaids`, events, script start, `reload` | scheduler | reload with tasks already handed over | a running raid has a task that ends it |
| Items and cylinders | slots, containers, tile, counts, cached weights | `internalMoveItem`, `internalAddItem`, `internalRemoveItem`, `internalPlayerAddItem` | trade, decay, market | queries and effects apart, recursion for the rest of a stack | nothing duplicated or lost, pointers and caches agree |
| Houses and beds | owner, lists, sale, rent, rows; guests, sleepers | `setOwner`, sale, edit lists, `payHouses`, save and start; enter, kick, sleep, wake | saves, log-out, teleports | rows written at different times, dialogs answered late | lists are the present owner's, nobody inside uninvited, no bed without its sleeper |
| Conditions and equipment | list of conditions, speed, skill, outfit, magic shield, mount | add, renew, end, dispel, equip, mount, death, login | spells, scripts, movement of items | each undoes what it did to a field others also write | what is left is what is in force |
| Imbuements | time left in items, bonus in players, count in `Game` | apply, clear, equip, `checkImbuements`, login | equipment, scheduler | three copies of one fact; loop that erases its own entry | bonus, time and count agree |
| others | | | | | see `components` in `PROJECT.json`, with the reason each is left out |

### Hazards

`PROJECT.json` lists the hazards, each at its line and with the properties that
cover it.  Most are of four kinds: a signal or an event that is the only one
(dispatcher, scheduler, port, spawn, raid, walk, decay), a pointer that must not
outlive its object (session, party, chat, monsters), state read in one task and used
in a later one (login, market, trade, decay), and one step of several that fails
(saves, items, connections).

## 2. Modules

| module | models | notes |
|---|---|---|
| `WorkQueue` | abstract specification | what a worker thread with a queue promises: no locks, no signals |
| `Dispatcher` | `tasks.cpp`, `tasks.h`, `thread_holder_base.h` | refines `WorkQueue` |
| `SchedulerProofs`, `DatabaseTasksProofs`, `DatabaseProofs`, `ConnectionProofs`, `GameSessionProofs` | | theorems about the module each is named after, `ConnectionProofs` about `WaitingList` too |
| `WorldProofs` | | theorems about `Dispatcher`, `ServicePort`, `Walk`, `Spawn`, `Raids`, `Party`, `Chat` and `Decay` |
| `FoldTheorems` | | lemmas about sums and loops, used by `TownProofs` and `WorldProofs` |
| `TownProofs` | | theorems about `House`, `Bed`, `Market`, `Trade`, `Imbue` and `Conditions` |
| `Scheduler` | `scheduler.cpp`, `scheduler.h` | composes the scheduler with the part of the dispatcher that runs and deletes events |
| `DatabaseTasks` | `databasetasks.cpp` | refines `WorkQueue` |
| `Database` | `database.cpp`, `DBTransaction`, the shape of the saves | the MySQL server is external |
| `Connection` | `connection.cpp`, `Protocol::send`/`disconnect` | boost::asio is represented by its completion handlers |
| `WaitingList` | `waitlist.cpp` and its use in `login` | |
| `GameSession` | `protocolgame.cpp` (session part), `player.cpp`, `game.cpp`, `outputmessage.cpp` | composes protocols, Player objects, dispatcher queue and the network thread |
| `Trade` | `game.cpp` (trade), the hooks of `player.cpp` and `container.cpp` | goods with places; weights decide what can be moved, and `Refusable` what a move may refuse though the test allowed it |
| `Market` | `game.cpp` (market), `iomarket.cpp` | one ware; purse, bank, depot, stash, inbox; expiry rows read earlier |
| `Decay` | `decay.cpp`, its callers in `item.cpp`, `game.cpp` | decayMap, events, references, attributes changed by scripts |
| `Party` | `party.cpp`, its uses in `player.cpp` and `game.cpp` | objects with addresses, so that a deleted party is seen |
| `Walk` | `creature.cpp`, `player.cpp` (walking) | one player; events pending, handed over, stopped; speed 0 and the two ways back |
| `Spawn` | `spawn_monster.cpp` | one spawn with several blocks |
| `Monster` | `monster.cpp`, `creature.cpp`, `checkCreatures` | several monsters and players on a line of places |
| `ServicePort` | `server.cpp` | one port on the network thread |
| `Raids` | `raids.cpp` | raids with events, stopped and handed-over tasks |
| `Items` | `game.cpp` (items), `container.cpp`, `player.cpp`, `tile.cpp` (cylinders) | queries, merging, splitting, cached totals and weights |
| `Chat` | `chat.cpp`, `guild.cpp`, their callers | all four kinds of channel, guilds, parties as far as channels see them |
| `House` | `house.cpp`, `iomapserialize.cpp`, the Lua bindings of sales and lists | one house and its rows in the database; residents and staff; crash and restart |
| `Bed` | `bed.cpp`, `housetile.cpp`, kicks of `house.cpp` | extends `House`'s access lists by guests, who is where, who sleeps and who has died |
| `Conditions` | `condition.cpp`, `creature.cpp` (conditions), `movement.cpp` (equipment), `decay.cpp` (skills), `player.cpp` (mount, death, levels) | one player; conditions and worn items that change a field and change it back |
| `Imbue` | `player.cpp`, `game.cpp` (imbuements) | several players and items, deaths, the count of active imbuements modulo a byte |
| `MC*` | | constants for TLC |
| `MCWorld`, `MCRealm`, `MCTown` | | unions of parts that share no state |

How code becomes steps:

* A critical section is one step.  What the code does outside the lock (the loop
  test, `notify_one()` after unlocking, reading `task->getEventId()` after
  unlocking) is a step of its own.
* `wait` may return spuriously; a notified waiter has to get the lock again.
* In `Connection`, `GameSession` and the modules of the game a handler is an operator
  from a state to the state or states it may leave, so that a handler that calls another (for example
  `connect` → `disconnectClient` → `close` → post `release`) is the composition the
  code has, in one step.
* In `GameSession` the dispatcher's queue is a sequence of tasks; scheduler events
  may run between any two tasks, because the scheduler pushes them to the front.
  A Player object carries the name of the protocol whose login created it.  The
  network thread's `parsePacket` is two steps, reading `player` and using it;
  closing the connection needs the lock it holds in between.
* The parts of the game in `MCWorld`, `MCRealm` and `MCTown` all run on the dispatcher (the port
  on the network thread), one task at a time, and share no state in the models.  A
  behaviour of these modules is a behaviour of one part, chosen in the initial state
  (`part`, `realm`); the others stand still.  So each part is explored by itself and
  completely, and no product of their states is built.
* Variables marked "for the property only" record that a behaviour has met one of the
  situations a property names; no guard reads them.
* Decisions taken from data, configuration or scripts (bans, full server, prey
  data that does not load, tiles on which nobody may log out, `onLogout`) are
  choices.
* Operators introduced by a comment `Fault:` are plausible faults of the operator
  that follows them; no specification uses them.  Each property is shown to be able
  to fail by putting one of them in place (`mutants` in `PROJECT.json`).

## 3. Runs

| run | instance | properties |
|---|---|---|
| `dispatcher` | 3 calling threads, one of them the dispatcher itself; 4 tasks, one urgent, one with an expiration time | `NoLostWakeup`, `DrainedAtExit`, `ShutdownEndsThread`, `ImplementsWorkQueue` |
| `scheduler` | 2 threads, 2 events, ids 1 and 2 with the last id anywhere, clock 0..2 | `NeverEarly`, `StopIsFinal`, `IdReadIsSafe`, `EventsFire` |
| `scheduler_thread_ends` | same | `ThreadEnds`, **violated** |
| `database_tasks` | dispatcher and a network thread, 3 queries, one with a callback | `FlushCovers`, `CallsReturn`, `ImplementsWorkQueue` |
| `database` | 2 saves of 3 statements (one unchecked), 2 other threads with one statement each, 1 lost connection | `LockDiscipline`, `SaveAtomicConnected`, `ReportedIsDurable`, `CallsReturn` |
| `database_loss` | 1 save of 2 statements, 1 lost connection | `SaveAtomic`, **violated** |
| `connection` | 3 messages, a server name of 3 characters | `OneReadOneWrite`, `InOrder`, `GracefulDelivers`, `ClosedMeansGone` |
| `realm` | *queue*: 5 characters (2 premium, 1 game master), 2 places, clock to 35 s, 3 log-outs.  *raids*: 3 raids (repeatable, not repeatable, without events), 1 reload, at most 5 tasks.  *items*, *hoard*: a backpack with 2 places, a paged gold pouch, an axe, 3 stacks of at most 3 coins, a tile; one with little in it, one with full containers and two stacks that lack a coin each.  *chat*: 2 characters, 2 guilds (one without ranks), a party, a public and 2 private channels | `WaitListSound`, `RoomForThoseAhead`, `RaidsSound`, `ItemsSound`, `ChatSound` |
| `waiting_list_lapsed` | the queue of `realm`, 2 log-outs | `LapsedEntriesRemoved`, **violated** |
| `game_session` | *session*: 2 clients of one character, up to 3 tasks queued freely.  *house*, *rent*: 2 players, one of the staff, 2 lists, texts {} and {ann}, 1 warning, 2 changes of owner.  *bed*, *rise*: 2 players, 1 tenant, 2 beds or 1 with deaths.  *wild*: 2 monsters, one of a faction that fights the other's, 1 player, 3 places.  *hero*: 1 player, 3 items, 2 levels, a mount, six choices of spells.  *smith*: 2 players, 2 items, imbuements that last 2 rounds, counts modulo 3 | `ClientAgreed`, `RefsExact`, `ReachableIsAlive`, `AutosendRuns`, `ClosedIsReleased`, `HouseSound`, `MonstersSound`, `GearSound` |
| `game_session_clones` | 2 clients, 2 tasks | `NoClones`, **violated** |
| `world` | *trade*: 3 players, 4 items, 2 of them containers.  *decay*: 3 items, 2 at a time, 2 events, clock to 3, durations 0 and 1 set by scripts.  *market*: 2 merchants, 2 offers, prices 1 and 3, words modulo 5.  *party*: 3 players, 2 party objects, levels 3 and 6.  *walk*: paths of 2 steps, 2 events.  *spawn*: 3 blocks.  *port*: 2 re-openings | `TradeSound`, `DecaySound`, `MarketConserved`, `PartyConsistent`, `WalkNotStuck`, `SpawnNotForgotten`, `PortServed` |

The type invariant of a module is a conjunct of one of its properties (that of the
dispatcher, which is proved, is listed by itself).

### Why the bounds are enough

* *Threads and tasks.*  A wake-up can be lost only between one caller that has
  released the lock, one that arrives meanwhile, and the worker: two producers
  besides the worker, with enough tasks to find the list empty, non-empty and empty
  again.  The proofs remove this bound.
* *Events.*  Two events suffice for "another one is on top now"; the last id starts
  anywhere, so the wrap-around happens at once.  With as many ids as events no id is
  reused while it is live: in the code that takes 2^32 events during one delay.
* *Saves.*  Three statements give a first, a middle (unchecked) and a last one; two
  saves show what a bad first one leaves behind; one lost connection can fall anywhere.
* *Connection.*  Three messages: one being written, one behind it, one sent after the
  close.
* *Waiting list.*  Two places and five characters put both lists to work;
  `Modulus` stands for 2^64 and is larger than every time and size that occurs, so
  the unsigned arithmetic wraps exactly where the code's does.  The jumps of the
  clock include one that skips the exact instant of a time-out.
* *Game session.*  Two clients give replacement, contention for one Player and
  clones.  `MaxTasks` limits only those who post freely (packets, network closes,
  kicks); tasks posted by tasks always find room.  With three clients and
  `MaxTasks = 2` (2.2 million states) the same properties hold.  `bodies` saturates
  at `MaxBodies`; no guard reads it and only `NoClones` is about it, so `game_session`
  takes 1 and `game_session_clones` 2.  With 2 (700,000 states) the properties hold too.

* *Trade.*  Three players: two that trade and one who asks for the same item.  A bag in
  a backpack with a coin in it gives an offered item with contents and a holder; the
  weights make one exchange too heavy, and one item is `Refusable`.
* *Decay.*  Two items in one entry of `decayMap` are enough for one to change the entry
  while the other is processed; a third kind is worn and another one scripted.
* *Market.*  3 * 2 does not fit into a word of 5, which stands for 2^32; 2 offers and 2
  checks let an acceptance fall between the expiry query and its use.
* *Party, walk, spawn, port.*  Two party objects and three players give every
  combination of leader, member and invited; two events give "one handed over, one
  pending"; the blocks of a spawn are independent but for their one event; two
  failures in a row are all a port can tell apart.
* *Monsters.*  In sight, within reach and out of reach are three places on a line with
  `View` 0 and `Reach` 1.  `Haunts` bounds who goes where, `Frail` which monsters die,
  and `MaxOnScreen` how often a player who is still counted is counted again: 2, so that
  it happens.
* *Raids.*  One reload meets a raid in every state.  With two (420,000 states) the
  same holds.
* *Items.*  Stacks of 3, a container of 2 and one of 1 place: merging, splitting, a full
  stack, a rest and a full container all occur.  An addition is spread over two stacks
  with room for one coin each and a rest, which takes two calls of `internalAddItem()`
  from inside the first (*hoard*; there only coins leave the player).  `MaxDue` and `Few`
  bound what scripts add.  The stacks are symmetric: they are interchangeable, and the
  run's only temporal property is about the queue.
* *Chat.*  `Fashions` bounds the channels in use in one behaviour; two private channels
  give a player who owns one and would make another.

* *Houses.*  Two players are the owner before and the one after; two changes of owner
  give a sale that is overtaken by another; a save, a crash and a restart may fall
  anywhere.  A list is nothing or names the resident who is not of the staff.  `MaxWindows`
  bounds the dialogs open at once.  Two explorations: the lists, with the rent paid
  (*house*), and the rent, while the staff leave an ownerless house alone (*rent*).
* *Beds.*  Two players and two beds: both want one, or one takes two (*bed*, without
  deaths); with deaths one bed is enough (*rise*).
* *Conditions.*  An adventure bounds the spells, slots and outfits of one behaviour; what
  writes to the same field is in one adventure.  Two levels give an item's percentage two
  values; `MaxStray` stops speeds and skills that are already wrong.  `Forever` is larger
  than all times that occur.
* *Imbuements.*  Three stands for 256: two items, of which a player wears at most two
  (`SlotCount`), can be counted, and the count wraps both ways.  `Hands` and `Busy` bound what the second player does.  `MaxDrift` stops bonuses that are already wrong.

`CHECK_DEADLOCK FALSE` stands where a server that has shut down, a connection that
is destroyed or a bounded supply of tasks and time ends the behaviour.  The parts of
`MCTown` never stop (that of the monsters stutters when all are gone).

### Fairness

Weak fairness is assumed of a thread's own steps when nothing blocks it: the worker
loops, the second half of a call already begun (`Notify`, `ReturnId`), the clock, the
completion of timers and of handlers asio has to call after a close.  Nothing is
assumed of clients (they may never read or send), of callers (they may never call),
of the success of a statement, or of spurious wake-ups.  The operating system's
scheduler and asio's guarantee that every handler is called eventually justify this.
`game_session`, `world` and `realm` have no liveness property and no fairness: where
something must eventually happen there, the invariants say that an event that makes
it happen is pending, and the scheduler's liveness (`EventsFire`) does the rest.

## 4. What the runs show

* The dispatcher's signalling, after unlock and only for an empty list, is sound; a
  shutdown after `stop()` leaves no task behind; callers see a FIFO queue with urgent
  tasks in front.  The database thread implements the same abstract queue.
* The scheduler never fires early and a successful `stopEvent` is final, though the
  event stays in the heap.  **But** `Scheduler::shutdown` sets the state without the
  lock and notifies once; a worker between its loop test and the lock sleeps for ever
  and `join()` hangs (`scheduler_thread_ends`).
* `flush()` covers what it found queued.  It returns as long as the thread is running;
  a shutdown that finds the queue non-empty hangs in it, which takes a `flush()` cut
  short or a query of another thread in between (excluded in `CallsReturn` by name).
* Saves are atomic while the connection holds.  **But** the retry loop of
  `executeQuery` reconnects in the middle of a transaction and goes on without one
  (`database_loss`).  A statement of another thread may fall between BEGIN and the
  lock and then shares the fate of the save.
* A connection keeps one write outstanding per non-empty queue and one read until it
  is disconnected, delivers in order, drains on a graceful close, and is destroyed
  even if the client is silent.
* The waiting list keeps the limit and everyone's place; its element counts are
  individually wrong and jointly exact.  **But** entries whose client has gone stay,
  because the remaining time is unsigned (`waiting_list_lapsed`).
* A Player and its client always agree, the reference counter is exact on every path,
  nothing reachable is deleted, and the network thread's unlocked reads of the Player
  are protected by the connection lock.  `connect()` can attach a Player to a
  connection that is closed and released but not yet destroyed (named in
  `ClosedIsReleased`).  **But** a dead character can be logged in a second time and
  then respawned by the first client: two Player objects of one character in the game
  (`game_session_clones`).

* A trade stays symmetric under all its hooks, and what was shown is what is given.  An
  exchange moves both items or none, whatever weighs what, although the result of the
  second move is ignored.  Named exception: the test before lets an item join a stack,
  the move does not (`FLAG_IGNOREAUTOSTACK`) and asks whether the item may be moved; where
  the second move is refused, who accepted last gives for nothing, and never the other.
* Decaying items always have an entry and an event and are never early, unless a script
  sets their duration to 0; references are given up once.  Excepted are behaviours in which `checkDecay()` went on with an
  iterator whose entry was erased, which is undefined.
* The market neither makes nor loses money or wares outside five situations that
  `MarketConserved` names: a product beyond 32 bits, an amount already reduced by what
  the stash holds, an expired offer that was accepted in part after its row was
  read, a last statement that fails with its result ignored, and an expired offer whose
  seller cannot be loaded when its row is already gone.
* Parties, invitations and players agree and no pointer to a deleted party stays; the
  cached `sharedExpEnabled` is what it would be if computed now.  Named exceptions:
  members who have logged out stay in the party (leaving is commented out), and
  losing a level by death does not update the sharing.
* A walk goes on or ends, and there is one chain of walk events.  Named exceptions: the
  action waiting for the end of a walk is stranded when the player is rooted,
  teleported or stopped; steps are left behind when a level gained at speed 0 raises the
  base speed, because `setSpeed()` then finds a speed that was above 0 already; and a
  second chain starts when a stopped event had already been handed over.
* A block of a spawn that is empty has an event pending.  Named exceptions: monsters
  that could not be placed at start-up, and a second monster from two delayed spawns.
* A port always has exactly one thing that keeps it alive: a pending accept or one
  scheduled re-opening.
* What monsters know is what is there: references are exact, pursued creatures are in
  the game and in sight, every player in sight is a target of a monster that is awake.
  Named exceptions: `onThink()` sends a stray monster home and then makes it idle, so
  that players who stand there are not noticed until they or it move; a creature that
  appears at 11 squares, out of sight, enters the lists and may stay there after it
  is gone; a monster that a script removes between its last hit and `onDeath()` keeps
  its lists (and two such monsters each other); `Player::spawn()` tells players only, so
  that a monster does not notice a player who respawns in its sight until one of them
  moves.  `totalPlayersOnScreen` is never too
  low but may stay too high, which keeps a monster of a faction awake.
* A running raid has exactly one task that ends it and there is one chain of checks.
  Named exceptions: a reload that meets a task already handed over or a raid already
  taken off the list, and a raid without events, which runs for ever.
* Items: parents, positions, counts, totals and weights agree, and counts are conserved
  outside named cases: an index beyond the capacity in a paged or overfilled container
  drops the object, a full stack in a requested slot is overwritten, the rest that
  `queryMaxCount()` refuses is destroyed when the stack is in a slot, and what the second
  recursive call cannot place is forgotten, because the overload it goes through discards
  the remainder (`queryMaxCount()` has counted a container that the search leaves out).  A container gets
  one item too many when the one offered for trade is in it, and the weight carried
  is too low after a partial addition.
* Chat and guilds: no channel, invitation or guild of the game points to a player who is
  gone, and no player to a guild that is deleted.  Named exceptions: leaving a party
  leaves the player in its channel; a script that changes the guild leaves the player
  in the old guild's channel, and in its list if the new guild has no first rank;
  a respawned player is not enlisted again, so that his guild may be deleted under him.

* Houses: lists, warnings and the sale are those of the present owner through any order
  of sales, gifts, edits, saves and restarts.  Named exceptions: the owner's row is
  written at once and the rest by the next save, so that after a crash a new owner
  inherits lists and warnings; the lists of a deleted owner wait for the next one, and
  so do those the staff write for a house that nobody owns.  A document of sale that was handed out stays valid when the owner changes otherwise,
  because `executeTransfer()` does not ask again.  Warnings count from one start of
  the server and are not reset by a payment.
* Beds: whoever sleeps is out of the game, and nobody is inside uninvited.  Named
  exceptions: a dialog answered after its player was put out lets him sleep, and one
  who takes a second bed before he is logged out leaves the first occupied for ever; one
  who dies and respawns within the 50 ms plays on while his bed is taken.
* Conditions: speed and skill are exactly the sums of what is in force, whatever order
  conditions, mount and equipment come and go in, and others see what a player looks
  like.  Named exceptions: the end of one of two outfits, magic shields or bans on
  defence resets the field for both; a renewed condition does not repeat its start;
  a haste that is over but not removed, or has a sub-id, stays beside a paralysis; a
  dispel gives new time to what was over; after a refused outfit the player has
  dismounted but is still seen mounted; two items that suppress the same
  condition share one bit; an item that decays has its skills taken back twice (or, if
  it was only carried, once without having been given), and one that gives a percentage
  takes another amount back after a change of level; an outfit set by a script takes or
  gives the mount without its speed, and hides that of a condition.  A used-up magic shield takes the condition of a ring that
  is still worn with it.  Logging in again fills a magic shield and lifts the ban on
  defence, which is not saved.
* Imbuements: bonus, time left and count agree.  Named exceptions: an imbuement put into
  a worn item is not counted (if it is the only one it does not run down until the
  item is taken off and on) and clearing one does not lower the count; a player who
  comes back within one round is counted twice; one who lies dead during a round loses
  his count, and what he wears no longer runs down after the respawn; an item in a slot where it is not
  enabled, or cleared by another player, leaves its bonus wrong until the next login,
  and so does one that runs out while its player is loaded.

The exceptions are part of the properties: anything else would violate them.

## 5. Proofs

The theorems hold for every value of the constants that the named assumptions of the
module allow: any numbers of threads, tasks, events, queries, messages, clients,
players, beds, guilds and channels.  All are invariants of the specifications the
runs check, or implications between specifications; bounds such as `MaxTasks` or
`MaxReopens` are parameters, not numbers.  Besides "this special value is not one of
the others" the assumptions say: a behaviour of `Scheduler` has finitely many events,
no more than there are ids (`IdLimit`, 2^32 - 1 in the code; with more the code may give
a live id twice, which it does not exclude); in `Database` a statement of another thread is
not one of a save; in `Bed` the beds are numbered in the order of their tiles; in
`Chat` the kinds of channel are distinct, as the two ranges of ids and the two maps of
the code are; in `WaitingList` there are fewer players than the unsigned type of the
sizes has values (`Modulus`); in `Market`, `Trade` and `Imbue` players, offers and things
are finitely many; in `Imbue` a player has fewer imbuement slots than a byte has values,
or the count of active ones would wrap to 0 while some last; in `Decay` the items are
finitely many and at first a container is on the map; in `Conditions`
(`ConditionsAssumption`) an item's condition has the id of its slot, 1..10, and a
spell's has none above 0, a transformation has no sub-id, only a condition on attributes
forbids defence (`condition.cpp`), and items suppress drunkenness and damage over time
only (`item_parse.cpp:594-611`).

Each proof has one step (or lemma) per action and combines them in a last temporal
step.  Where a handler of the code is an operator on states (`Connection`,
`GameSession`, `Walk`, `Chat`, `Decay`) there is a lemma per handler, of the form "in a sound
state it leaves a sound state and keeps this and that", and the action's proof follows
the calls of the code.

Two kinds of facts are about data of any size and are proved once, in `FoldTheorems`, by
contradiction with a least counterexample (`LeastOf`, from the library's theorem that
`<` on the naturals is well-founded), since the library's induction theorems cannot be
used:
* `SumFacts`, `SumChange`, `SumAdd`, `SumNat`, `SumMonotone`: what `SumFunction` gives for
  a function on a finite set, how it changes with one value, whatever order the terms are
  added in.
* `FoldExists`, `FoldReaches`: a fold over a finite set, in any order of choice, is
  defined by its equation, and ends in `G[S]` if it begins in `G[{}]` and each step
  leads from `G` of what was taken to `G` of one more.  So a loop of the code
  over a list is proved like a loop, with an invariant `G`; `LoopExists` and
  `LoopReaches` say the same of `FoldLeft` over a list without duplicates.

### Worker threads

The dispatcher, in `WorldProofs`
* `TypeCorrect`: inductive by itself.
* `WakeupSafe` (`NoLostWakeup`): whoever makes the list non-empty enters
  `notifying` in the same step and leaves it only by waking the worker; the worker goes
  to sleep only on an empty list.
* `NothingLeftBehind` (`DrainedAtExit`): not inductive, as nothing in it says where
  the terminating task stands.  `EndOrder` says that after `stop()` and `shutdown()` the
  terminator is in the list at most once and last, that nothing is accepted behind it,
  and that the worker leaves its loop only when it has run it.
* `RefinesWorkQueue`: the initial states map to initial states of `WorkQueue`, and
  each step to one of its steps or to none.  This is the safety part of
  `ImplementsWorkQueue`; its fairness part stays with TLC.

`DatabaseTasksProofs`
* `FlushWaitsForAll` (`FlushCovers`): the property says nothing while `flush()`
  sleeps; `FlushInv` adds that until then what it found is queued, in the worker's hand
  or executed.
* `ExecutedInOrder`: what was accepted is what was executed, what is in hand and what
  is queued, in that order.
* `RefinesWorkQueue`: as for the dispatcher, with a second worker loop, two condition
  variables and a shutdown that flushes first.

`SchedulerProofs`, from one invariant
* `EventsNeverEarly` (`NeverEarly`): `wait_until()` reports a timeout for the event that was
  on top when the wait began.  `Deadline` says why that is harmless: while the worker
  waits for a time, some event in the heap is due by then (an earlier one notifies it,
  a stopped one stays in the heap), so the top is due when the time has come.
* `StopHolds` (`StopIsFinal`): needs `IdsFresh`, that the ids in use are the last ones
  given out on the circle 1..`IdLimit` and none is used twice, so that erasing an id
  cannot be undone by a new event.
* `OwnIdReadSafe` (`IdReadIsSafe`): `OwnCall` says that while the dispatcher's own
  thread is in `addEvent()` nobody runs its task.

### Database session

`DatabaseProofs`, from one invariant
* `LockBalanced` (`LockDiscipline`): `LockState` gives owner and depth for every place
  of every thread.
* `SavesAtomic` (`SaveAtomicConnected`): `Connected` relates what the server holds in its
  open transaction to what the save was told, statement by statement, and says of
  every earlier save that it is there as a whole or not at all.
* `ReportedDurable` (`ReportedIsDurable`): counts how often a statement is durable;
  at most once more per lost connection.

### Connections, the login queue, ports, walks, spawns, raids, parties, chat and decay

`ConnectionProofs`
* `ChainsUnbroken` (`OneReadOneWrite`): between handlers a read is outstanding and
  timed until the connection is disconnected; `Sound` holds within handlers too.
* `WireInOrder` (`InOrder`) and `GracefulCloseDelivers` (`GracefulDelivers`): `Log`
  says that what is written, followed by what is queued, is what was accepted, and
  what of it stays true once the socket is closed.
* `WaitListSoundHolds` (`WaitListSound`), `RoomForThoseAheadHolds` (`RoomForThoseAhead`):
  nobody waits twice or while in the game, and whoever is let in leaves room for those
  who wait before him.  `WaitListSound` is nearly inductive: it says that the two counts,
  each of them wrong because `erase()` may go through the other list, have the right sum
  modulo `Modulus`.  What it lacks is that nobody who always may log in waits: he would
  be let in without leaving the list.

`WorldProofs`
* `PortStaysServed` (`PortServed`): needs that until the server stops nothing but
  `open()` itself closes the acceptor.
* `WalkersNeverStuck` (`WalkNotStuck`): a dying player may wait for an event that does
  not come, which the property allows; the invariant adds that its death is queued, and
  that steps left behind by a level gained at speed 0 are known (`halted`).

* `SpawnsComeBack` (`SpawnNotForgotten`): the check compares two sizes, which says
  something about a single block only by counting: with at most one monster each,
  fewer monsters than blocks means that one is missing.  `SpawnIInv` adds that a
  blockable block is never in `scheduled`.
* `RaidsStaySound` (`RaidsSound`): `RaidIInv` adds which load has made a raid of the list
  and a deleted one, that no raid stands behind its last event (else it would start without
  a task), and that, as long as no reload has left a task behind, no timer has lost its
  id; so a reload stops them all.

* `PartyConsistentHolds` (`PartyConsistent`): parties, invitations and players point to each
  other, and nobody to a deleted party.  It is inductive; the work is in the handlers that
  are loops with calls (`leaveParty`, `passPartyLeadership`), which have a lemma
  each about the party they leave behind, and in `updateSharedExperience()`, which has to
  be the last word of each of them (`Current`).
* `ChatStaysSound` (`ChatSound`).  `ChatOK` says who may be in a channel, on an
  invitation list, the owner of a private channel and a member of a guild.  It adds to
  the property that a player who is out of the game was not `reborn`: otherwise the
  exception for respawned players would outlive the Player.
* `DecaySoundHolds` (`DecaySound`: the invariant `DecayConsistent` and the action property
  `DecayNeverEarly`).  `DecayInv` adds to the property that who is in `decayMap` can decay
  (`Able`), that a container is not inside another one and only what is nowhere is
  deleted (`Rooted`), and that the time an item is owed is the one its attributes give it
  (`Owing`), from which it follows that no decay is early.  Inside of `checkDecay()` this
  holds with three allowances, the parameters of `Kept` and `Timely`: the references that
  the copied list holds, the items of that list that are still to come, and the time for
  which an event is still to be added.  `DecayOneKeeps` takes one item off each, whatever
  the handlers it calls start, stop and remove, and `BatchKeeps` is the loop.  The
  theorem bounds neither the times nor the number of items; `MaxNow`, `MaxReleases` and
  `EventSlots` stay parameters.

### Sessions

`GameSessionProofs`, from one invariant `IInv`: `Core` holds in the middle of handlers
too; `Closing` (whoever holds on to a closed connection has a `release()` queued) and
`Parsing` (the Player the network thread has read is the one of its open connection)
between them.
* `ClientsAgree` (`ClientAgreed`), `ReferencesCounted` (`RefsExact`),
  `ReachableNotDeleted` (`ReachableIsAlive`), `BufferedAreSent` (`AutosendRuns`),
  `ClosedAreReleased` (`ClosedIsReleased`).
* The strengthening that is not in the properties is `Orderly`: a `login` task is queued
  once and before all else of its client, and requests are queued only by a client
  that accepts packets.  Without it a second login of the same client could create
  its Player twice.

### Houses, beds, market, trade, equipment

`TownProofs`
* `HouseStaysSound` (`HouseSound`).  The house part is inductive once the rows are in it
  (`HouseIInv`): rows and house are of the same tenure, and what was saved in that tenure
  is as clean as what is in memory, because a restart after a crash brings it back.
  The bed part needs `RowOnce`, the same for the map of sleepers, which a restart
  makes from the rows of the beds; where two beds name one sleeper the last wins, and
  that there is a last one follows from the numbering of finitely many beds (a
  well-foundedness theorem of the library, no induction).
* `MarketConservedHolds` (`MarketConserved`): money and goods, summed over purses, banks,
  depots, stashes, inboxes and offers, only change by what the model names.  The
  invariant adds that ids still to come have no row and that what the expiry has read is
  finite; the exceptions of the property (`excused`) stay exceptions; each step moves an
  amount from one term of a sum to another, or sets an exception (`WrittenKeeps`).
* `TradeSoundHolds` (`TradeSound`, an invariant and an action property): both sides of a
  trade agree, an exchange moves both items or none unless the second is `Refusable`, and a
  standing offer stays as it is.
  `TradeConsistent` is inductive.  Containers may be nested to any depth: `Inside` is a least
  fixed point, and the proof uses it through `InsideRule` and `InsideLeast` (what is put into
  it is in it, and every set closed under that contains it).  That the second move, whose
  result the code ignores, cannot fail for weight where both were allowed before the first
  (`CanAddKept`) takes that neither item lies in the other and that less weighs no more
  (`SumMonotone`).
* `ImbueSoundHolds`, `ConditionsSoundHolds` and both at once, `GearSoundHolds`
  (`GearSound`).  `Imbue`: the count that wraps at a byte is the number of imbuements that
  last in what a player wears, because there are fewer slots than values.
  `Conditions`: `CondInv` says that the state of the player is `Coherent`: `Owed(b, R, o)`
  states speed, skill, look, defence and magic shield for a player whose conditions `R`
  have left the list and are not ended yet (`R` is empty between tasks), except for what
  `o`, the history, excepts.  It adds to the property that who is mounted is under no
  transformation that is in force, that a player who has not two conditions of a class is
  not excepted, and, at login, that the magic shield is loaded before the condition it
  belongs to.  `RemoveAll`, `EquipAll`, `LoseAll` and the loading of conditions are folds,
  each with its invariant (`EndAll`, `TakeAll`, `DropAll`, `LoadAll`).

### Left to TLC

* Liveness under fairness: `ShutdownEndsThread`, `EventsFire`, `CallsReturn`,
  `ClosedMeansGone`, and the fairness part of `ImplementsWorkQueue`.
* `MonstersSound`: the handlers give sets of states and are told to all spectators by a
  fold of sets of states with an operator parameter; deleting a monster may delete others,
  which is a recursion over passes.
* `ItemsSound`: totals and weights of nested containers are sums over a tree that every
  handler rebuilds.
* The four violations are counterexamples and need no proof.

## 6. Not modelled

* Packet contents, encryption, compression, the text sent to clients.
* `dispatcherCycle`, a counter; the packets-per-second limit (a choice in
  `Connection`).
* The clock going backwards: `Scheduler` and `Task` use the system clock; the model
  takes it to be monotonic.
* The failure path of `main()` during start-up.
* Which columns a save writes, SQL escaping, result sets.
* What lies in a house (`transferToDepot`), what sleep restores, guild ranks on lists,
  teleports that fail, `houseOwnedByAccount`.
* Damage over time, regeneration, light and cool-downs, which leave nothing to undo;
  damage formulas and spells (arithmetic on values from data files); prices and
  materials of imbuements, items with several imbuements, `bonusCapacity`.
* What `QTreeLeafNode::removeCreature()` does when a Player who has died is removed a second
  time (`map.cpp:1218`): it takes an entry from a list that does not hold him, which is
  undefined.  `Monster` leaves out the log-out of a dead player for this reason.
* NPCs, `transformItem()` between types of different kinds, items that decay in stacks,
  global events, configuration, accounts and bans, loaders; Lua and XML data.  Where scripts
  decide, the model has a choice.
* Summons and the scripts of a monster type in `Monster`; path finding and the map in
  `Walk` and `Monster`.
* More than one character in `GameSession`: sessions of different characters share
  only the autosend list, the task queue and `ToReleaseCreatures`.

The map covers a small share of the server's 105,000 lines.  Most of the rest has no
state of its own that a model could get wrong: about a third is bindings that pass
values between Lua and the classes modelled here, another large part writes and
reads packets field by field, and the loaders, the attribute arithmetic of combat
and bestiary, and the tables of items and monsters are sequential code on
data that comes from files.  A model of those would repeat the code line by line.

## 7. Plan

Done: the modules and the proofs above; all invariants of the runs but those of
`Monster` and `Items` are theorems.  Next, in this order:

* `Monster`: `CountersExact` and `GoneHoldNothing`, which do not depend on the order in
  which spectators are told.
* `Items`: the tree of cylinders with `Trade`'s facts about nesting, then totals and weights.

Models still worth adding: summons in `Monster`, several channels of one reload in
`Chat`, what lies in a house when it changes hands.
