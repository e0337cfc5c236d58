----------------------------- MODULE WaitingList -----------------------------
(***************************************************************************)
(* The login queue (creatures/players/management/waitlist.cpp) as          *)
(* ProtocolGame::login() uses it: a client that finds the server full is   *)
(* put on a list and told when to try again; an entry is meant to lapse    *)
(* when its client does not come back in time.  All of it runs on the      *)
(* dispatcher thread, one login attempt at a time; what interleaves are    *)
(* the attempts of different clients, log-outs and the clock.              *)
(***************************************************************************)
EXTENDS Integers, Sequences, FiniteSets, SequencesExt

CONSTANTS Players,     \* the characters, by GUID
          Premium,     \* those with a premium account
          AlwaysLogin, \* those that pass the queue (flag or game masters)
          MaxPlayers,  \* configuration value, not 0
          Jumps,       \* by how many seconds the clock may advance at once
          MaxTime,     \* bound on the clock
          MaxLogouts,  \* bound on the number of log-outs
          Modulus      \* 2^64: width of size_t, larger than any time here

ASSUME WaitingListAssumption ==
    /\ Premium \subseteq Players /\ AlwaysLogin \subseteq Players
    /\ IsFiniteSet(Players) /\ Cardinality(Players) < Modulus  \* GUIDs have 32 bits
    /\ MaxPlayers \in Nat \ {0}
    /\ Jumps \subseteq Nat \ {0} /\ MaxTime \in Nat /\ MaxLogouts \in Nat
    /\ Modulus \in Nat /\ Modulus > MaxTime + 200

VARIABLES priorityWaitList, waitList,  \* sequences of [guid, timeout]
          prioritySize, waitSize,      \* the lists' own element counts
          online,                      \* the players in the game
          logouts,                     \* how many have logged out so far
          now

waitVars == <<priorityWaitList, waitList, prioritySize, waitSize, online, logouts, now>>

Wait == [guid : Players, timeout : 0..Modulus - 1]
Guids(list) == {list[i].guid : i \in DOMAIN list}

WaitTypeOK ==
    /\ priorityWaitList \in Seq(Wait) /\ waitList \in Seq(Wait)
    /\ prioritySize \in 0..Modulus - 1 /\ waitSize \in 0..Modulus - 1
    /\ online \subseteq Players
    /\ logouts \in 0..MaxLogouts
    /\ now \in 0..MaxTime

WaitInit ==
    /\ priorityWaitList = <<>> /\ waitList = <<>>
    /\ prioritySize = 0 /\ waitSize = 0
    /\ online = {}
    /\ logouts = 0
    /\ now = 0

\* Seconds until the client at this place should try again.
getTime(slot) ==
    CASE slot < 5  -> 5
      [] slot < 10 -> 10
      [] slot < 20 -> 20
      [] slot < 50 -> 60
      [] OTHER     -> 120

getTimeout(slot) == getTime(slot) + 15

\* Arithmetic on size_t.
Plus(a, b) == (a + b) % Modulus

\* Fault: counts that stay at 0.
MinusSaturating(a, b) == IF a < b THEN 0 ELSE a - b

Minus(a, b) == (a + Modulus - b) % Modulus

\* "(it->timeout - time) <= 0" with unsigned operands: only 0 satisfies it.
Lapsed(w) == Minus(w.timeout, now) = 0

\* The k-th smallest of a set of positions.
Kth(places, k) == CHOOSE i \in places : Cardinality({j \in places : j <= i}) = k

\* The entries that have not lapsed, in their order.
cleanupList(list) ==
    LET kept == {i \in DOMAIN list : ~Lapsed(list[i])}
    IN  [k \in 1..Cardinality(kept) |-> list[Kth(kept, k)]]

\* findClient(): the place of a client, counted through both lists, 0 if none.
Slot(p, prio, wait) ==
    LET all == prio \o wait
        at  == {i \in DOMAIN all : all[i].guid = p}
    IN  IF at = {} THEN 0 ELSE CHOOSE i \in at : \A j \in at : i <= j

\* The player enters the game (the rest of ProtocolGame::login()).  A login
\* that fails there is one followed at once by a log-out: clientLogin() has
\* taken him off the list either way.
Enters(p) == online' = online \cup {p}

\* Neither list is looked at.
LoginDirect(p) ==
    /\ \/ p \in AlwaysLogin
       \/ priorityWaitList = <<>> /\ waitList = <<>> /\ Cardinality(online) < MaxPlayers
    /\ Enters(p)
    /\ UNCHANGED <<priorityWaitList, waitList, prioritySize, waitSize, logouts, now>>

\* "let them wait a bit longer"
Renewed(list, i, slot) == [list EXCEPT ![i].timeout = now + getTimeout(slot)]

\* Fault: room for one is enough, wherever the client stands.
HasRoomForOne(slot) == Cardinality(online) + 1 <= MaxPlayers

HasRoom(slot) == Cardinality(online) + slot <= MaxPlayers

\* The client is on a list.  waitList.erase(it) is called even if the element
\* belongs to priorityWaitList: it is unlinked from the list it is in, but the
\* count that goes down is that of waitList.
LoginWaiting(p, prio, wait, prioSize, wSize) ==
    LET slot  == Slot(p, prio, wait)
        inPrio == slot <= Len(prio)
        i      == IF inPrio THEN slot ELSE slot - Len(prio)
    IN  /\ slot # 0
        /\ prioritySize' = prioSize
        /\ \/ /\ HasRoom(slot)
              /\ priorityWaitList' = IF inPrio THEN RemoveAt(prio, i) ELSE prio
              /\ waitList' = IF inPrio THEN wait ELSE RemoveAt(wait, i)
              /\ waitSize' = Minus(wSize, 1)
              /\ Enters(p)
           \/ /\ ~HasRoom(slot)
              /\ priorityWaitList' = IF inPrio THEN Renewed(prio, i, slot) ELSE prio
              /\ waitList' = IF inPrio THEN wait ELSE Renewed(wait, i, slot)
              /\ waitSize' = wSize
              /\ UNCHANGED online

\* The client is not on a list: it is put at the end of one.
Enlist(p, prio, wait, prioSize, wSize) ==
    LET slot == IF p \in Premium THEN prioSize ELSE Plus(prioSize, wSize)
        entry == [guid |-> p, timeout |-> now + getTimeout(Plus(slot, 1))]
    IN  /\ Slot(p, prio, wait) = 0
        /\ \/ /\ p \in Premium
              /\ priorityWaitList' = Append(prio, entry)
              /\ prioritySize' = Plus(prioSize, 1)
              /\ waitList' = wait /\ waitSize' = wSize
           \/ /\ p \notin Premium
              /\ waitList' = Append(wait, entry)
              /\ waitSize' = Plus(wSize, 1)
              /\ priorityWaitList' = prio /\ prioritySize' = prioSize
        /\ UNCHANGED online

\* clientLogin() after its first two early returns.
LoginQueued(p) ==
    LET prio == cleanupList(priorityWaitList)
        wait == cleanupList(waitList)
        prioSize == Minus(prioritySize, Len(priorityWaitList) - Len(prio))
        wSize == Minus(waitSize, Len(waitList) - Len(wait))
    IN  /\ p \notin AlwaysLogin
        /\ \/ priorityWaitList # <<>> \/ waitList # <<>>
           \/ Cardinality(online) >= MaxPlayers
        /\ \/ LoginWaiting(p, prio, wait, prioSize, wSize)
           \/ Enlist(p, prio, wait, prioSize, wSize)
        /\ UNCHANGED <<logouts, now>>

\* A login attempt of a character that is not in the game.
Login(p) == p \notin online /\ (LoginDirect(p) \/ LoginQueued(p))

Logout(p) ==
    /\ p \in online
    /\ logouts < MaxLogouts
    /\ online' = online \ {p}
    /\ logouts' = logouts + 1
    /\ UNCHANGED <<priorityWaitList, waitList, prioritySize, waitSize, now>>

TimePasses(d) ==
    /\ now + d <= MaxTime
    /\ now' = now + d
    /\ UNCHANGED <<priorityWaitList, waitList, prioritySize, waitSize, online, logouts>>

WaitNext ==
    \/ \E p \in Players : Login(p) \/ Logout(p)
    \/ \E d \in Jumps : TimePasses(d)

WaitSpec == WaitInit /\ [][WaitNext]_waitVars

-----------------------------------------------------------------------------
(* Properties. *)

\* A character waits at most once, and not while it is in the game; and
\* although erase() goes through the wrong list for premium players, so that
\* each list's count is wrong, their sum, from which the place of the next
\* ordinary client is computed, is exact.
WaitListSound ==
    LET all == priorityWaitList \o waitList
    IN  /\ WaitTypeOK
        /\ Plus(prioritySize, waitSize) = Len(all)
        /\ \A i, j \in DOMAIN all : i # j => all[i].guid # all[j].guid
        /\ Guids(all) \cap online = {}

\* Part of RoomForThoseAhead: what a step may do that lets someone in.
RoomKept ==
    \A p \in (online' \ online) \ AlwaysLogin :
        /\ Cardinality(online') <= MaxPlayers
        /\ \A q \in Players :
              /\ Slot(p, priorityWaitList, waitList) # 0
              /\ Slot(q, priorityWaitList', waitList') # 0
              /\ Slot(q, priorityWaitList, waitList) < Slot(p, priorityWaitList, waitList)
              => Cardinality(online') + Slot(q, priorityWaitList', waitList') <= MaxPlayers

\* Nobody but those who always may log in takes the server over its limit, and
\* whoever gets in from the list leaves room for everyone who stood before it.
RoomForThoseAhead == [][RoomKept]_waitVars

\* What the timeout is for: an attempt that works on the lists leaves no entry
\* behind whose client has stayed away beyond its timeout.
LapsedEntriesRemoved ==
    [][\A p \in Players :
          LoginQueued(p) =>
             \A i \in DOMAIN (priorityWaitList' \o waitList') :
                (priorityWaitList' \o waitList')[i].timeout > now]_waitVars
=============================================================================
