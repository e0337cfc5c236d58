-------------------------------- MODULE House --------------------------------
(***************************************************************************)
(* A house: who owns it, its access lists, the rent and the document that  *)
(* sells it (house.cpp, house_functions.cpp), with the rows of the         *)
(* database it is kept in (iomapserialize.cpp).  setOwner() writes the     *)
(* owner to its row at once; everything else waits for Map::save(), so a   *)
(* restart may find an owner beside lists and warnings of another's time.  *)
(* Where the players stand, and the beds, are in module Bed; what lies in  *)
(* the house and goes to the inbox of who loses it is not kept.            *)
(***************************************************************************)
EXTENDS Integers, FiniteSets

CONSTANTS Residents,    \* the players, by their GUIDs
          NoResident,   \* GUID 0
          Staff,        \* players whose group has PlayerFlag_CanEditHouses
          ListIds,      \* "guest", "subowner" and the doors of the house
          Texts,        \* what is written on a list: sets of players
          NoDeal, NoList,
          LastWarning,  \* the warnings a debtor gets: 7
          MaxTenures,   \* bound on the changes of owner
          MaxWindows    \* bound on the windows open at a time

ASSUME HouseAssumption ==
    /\ NoResident \notin Residents \cup Staff /\ Texts \subseteq SUBSET Residents
    /\ {"guest", "subowner"} \subseteq ListIds /\ NoList \notin ListIds
    /\ LastWarning \in Nat /\ MaxTenures \in Nat /\ MaxWindows \in Nat

VARIABLES house,     \* the House
          editing,   \* editHouse of a player: the list whose window is open
          row,       \* its rows in the database: the owner, and all as last saved
          letters    \* warnings sent to the present owner, up to LastWarning (history)

houseVars == <<house, editing, row, letters>>

Blanks == [l \in ListIds |-> {}]
Unwritten == [l \in ListIds |-> 0]

\* tenure counts the owners; written tells in which tenure a list was written,
\* seeded which lists the staff wrote, or let others write, while nobody owned
\* the house, torn that a restart has put together what was saved in two tenures.
HouseInit ==
    /\ house = [owner |-> NoResident, lists |-> Blanks, warnings |-> 0, paid |-> FALSE,
                deal |-> NoDeal, tenure |-> 0, written |-> Unwritten, seeded |-> {}, torn |-> FALSE]
    /\ editing = [p \in Residents |-> NoList]
    /\ row = [owner |-> NoResident, tenure |-> 0, saved |-> house]
    /\ letters = 0

-----------------------------------------------------------------------------
(* Owners.                                                                 *)

\* Fault: the lists are cleared only when the house is given up.
setOwnerKeepsLists(h, guid, found) ==
    IF h.owner = guid THEN h
    ELSE [h EXCEPT !.owner = IF found THEN guid ELSE NoResident,
                   !.lists = IF guid = NoResident THEN Blanks ELSE @,
                   !.written = IF guid = NoResident THEN Unwritten ELSE @,
                   !.seeded = IF guid = NoResident THEN {} ELSE @,
                   !.paid = @ \/ h.owner = NoResident,
                   !.torn = @ /\ h.owner = NoResident,
                   !.warnings = 0, !.tenure = @ + 1]

\* House::setOwner() of a house that is loaded.  found: the name of the new
\* owner was found in the database; otherwise nobody owns the house.
setOwner(h, guid, found) ==
    IF h.owner = guid THEN h
    ELSE [h EXCEPT !.owner = IF found THEN guid ELSE NoResident,
                   !.lists = IF h.owner # NoResident THEN Blanks ELSE @,
                   !.written = IF h.owner # NoResident THEN Unwritten ELSE @,
                   !.seeded = IF h.owner # NoResident THEN {} ELSE @,
                   !.paid = @ \/ h.owner = NoResident,
                   !.torn = @ /\ h.owner = NoResident,
                   !.warnings = 0, !.tenure = @ + 1]

\* What setOwner(guid, true) leaves of the row: owner and nothing else.
OwnerWritten(r, h, guid) ==
    IF h.owner = guid THEN r ELSE [r EXCEPT !.owner = guid, !.tenure = h.tenure + 1]

\* setOwner() but for the House itself.
GiveTo(guid) ==
    /\ house.owner # guid => house.tenure < MaxTenures
    /\ row' = OwnerWritten(row, house, guid)
    /\ letters' = IF house.owner = guid THEN letters ELSE 0

\* luaHouseSetOwnerGuid(): !buyhouse of a house without owner, !leavehouse of
\* one's own, and /owner of a game master, who may name anybody or nobody.
SetOwnerGuid(guid, found) ==
    /\ GiveTo(guid)
    /\ house' = setOwner(house, guid, found)
    /\ UNCHANGED editing

-----------------------------------------------------------------------------
(* Selling.                                                                *)

\* luaHouseStartTrade(): there is one document.  The trade may be refused, as
\* when q owns another house, which leaves things as they were.
StartTrade(p, q) ==
    /\ p # q
    /\ house.owner = p
    /\ house.deal = NoDeal
    /\ house' = [house EXCEPT !.deal = [seller |-> p, buyer |-> q]]
    /\ UNCHANGED <<editing, row, letters>>

\* ON_TRADE_CANCEL: resetTransferItem()
CancelTrade ==
    /\ house.deal # NoDeal
    /\ house' = [house EXCEPT !.deal = NoDeal]
    /\ UNCHANGED <<editing, row, letters>>

\* ON_TRADE_TRANSFER: executeTransfer().  Whether the seller still owns the
\* house, and the buyer none, is not asked again.
executeTransfer(found) ==
    /\ house.deal # NoDeal
    /\ GiveTo(house.deal.buyer)
    /\ house' = [setOwner(house, house.deal.buyer, found) EXCEPT !.deal = NoDeal]
    /\ UNCHANGED editing

-----------------------------------------------------------------------------
(* Access lists.                                                           *)

\* Fault: whoever has opened the window may send it in.
CanStillEdit(l, p) == TRUE

\* By getHouseAccessLevel() the staff are owners of every house, also of one
\* that nobody owns.
canEditAccessList(l, p) ==
    \/ p \in Staff \/ p = house.owner
    \/ p \in house.lists["subowner"] /\ l = "guest"

\* House::setAccessList(), with what is remembered of who wrote when.
setAccessList(h, l, text, p) ==
    LET unowned == h.owner = NoResident /\ (p \in Staff \/ "subowner" \in h.seeded)
    IN  [h EXCEPT !.lists[l] = text,
                  !.written[l] = IF text = {} THEN 0 ELSE h.tenure,
                  !.seeded = IF unowned THEN @ \cup {l} ELSE @ \ {l}]

\* The spells that open a list: canEditAccessList(), setEditHouse().
OpenList(p, l) ==
    /\ canEditAccessList(l, p)
    /\ Cardinality({q \in Residents \ {p} : editing[q] # NoList}) < MaxWindows
    /\ editing' = [editing EXCEPT ![p] = l]
    /\ UNCHANGED <<house, row, letters>>

\* Game::playerUpdateHouseWindow(): asked again, for the house may have a new
\* owner; the list is the one that was opened.
UpdateHouseWindow(p, text) ==
    LET l == editing[p]
    IN  /\ l # NoList
        /\ house' = IF canEditAccessList(l, p) THEN setAccessList(house, l, text, p) ELSE house
        /\ editing' = [editing EXCEPT ![p] = NoList]
        /\ UNCHANGED <<row, letters>>

-----------------------------------------------------------------------------
(* Rent, saves and restarts.                                               *)

\* The time that is paid for is over.
PeriodEnds ==
    /\ house.paid
    /\ house' = [house EXCEPT !.paid = FALSE]
    /\ UNCHANGED <<editing, row, letters>>

\* IOMapSerialize::saveHouseInfo(), one transaction.
SaveHouseInfo ==
    /\ row' = [owner |-> house.owner, tenure |-> house.tenure,
               saved |-> [house EXCEPT !.deal = NoDeal]]
    /\ UNCHANGED <<house, editing, letters>>

\* IOMapSerialize::loadHouseInfo(): setOwner() of a house without owner, who
\* may be gone by now, then what the rows say.
loadHouseInfo(found) ==
    [row.saved EXCEPT !.owner = IF found THEN row.owner ELSE NoResident,
                      !.tenure = row.tenure,
                      !.torn = @ \/ ~found \/ row.tenure # row.saved.tenure]

\* Fault: the debtor is not given the last warning.
OverdueByOne(h) == h.warnings >= LastWarning - 1

\* payHouses(): the debtor has had all warnings.
Overdue(h) == h.warnings >= LastWarning

Due(h) == h.owner # NoResident /\ ~h.paid

\* Houses::payHouses() at start-up, for an owner who can pay, cannot, or does
\* not exist.  Letters and payments are saved at once with the player, the
\* count of the warnings and paidUntil are not.
PayHouses(h, payer) ==
    \/ /\ ~Due(h)
       /\ house' = h
       /\ UNCHANGED <<row, letters>>
    \/ /\ Due(h)
       /\ payer = "rich"
       /\ house' = [h EXCEPT !.paid = TRUE]
       /\ UNCHANGED <<row, letters>>
    \/ /\ Due(h)
       /\ payer = "poor" /\ ~Overdue(h)
       /\ house' = [h EXCEPT !.warnings = @ + 1]
       /\ letters' = IF letters < LastWarning THEN letters + 1 ELSE letters
       /\ UNCHANGED row
    \/ /\ Due(h)
       /\ payer = "gone" \/ (payer = "poor" /\ Overdue(h))
       /\ h.tenure < MaxTenures
       /\ house' = setOwner(h, NoResident, TRUE)
       /\ row' = OwnerWritten(row, h, NoResident)
       /\ letters' = 0

\* The server stops, orderly or not, and starts again.
RestartHouse(found, payer) ==
    /\ PayHouses(loadHouseInfo(found), payer)
    /\ editing' = [p \in Residents |-> NoList]

HouseNext ==
    \/ \E guid \in Residents \cup {NoResident}, found \in BOOLEAN : SetOwnerGuid(guid, found)
    \/ \E p, q \in Residents : StartTrade(p, q)
    \/ \E found \in BOOLEAN : executeTransfer(found)
    \/ CancelTrade \/ PeriodEnds \/ SaveHouseInfo
    \/ \E p \in Residents, l \in ListIds : OpenList(p, l)
    \/ \E p \in Residents, text \in Texts : UpdateHouseWindow(p, text)
    \/ \E found \in BOOLEAN, payer \in {"rich", "poor", "gone"} : RestartHouse(found, payer)

HouseSpec == HouseInit /\ [][HouseNext]_houseVars

-----------------------------------------------------------------------------
(* Properties.                                                             *)

\* A new owner starts afresh: nobody is on a list but by the will of the
\* present owner (or the sub-owners, or the staff), nobody owns the warnings of
\* another, and after a restart the house still belongs to who had it last
\* (setOwner() writes the row at once).  Two exceptions.  Torn rows: an owner
\* changed after the last save, or a character deleted while the server was
\* down, leaves the lists and warnings of before to whoever comes next.  And
\* lists that the staff seeded while nobody owned the house: setOwner() clears
\* the lists of the last owner, not those of a house without one.
HouseBooks ==
    /\ ~house.torn =>
          /\ \A l \in ListIds \ house.seeded : house.lists[l] # {} =>
                house.owner # NoResident /\ house.written[l] = house.tenure
          /\ house.warnings <= letters
    /\ row.owner = house.owner \/ house.owner = NoResident
=============================================================================
