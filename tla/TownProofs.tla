------------------------------ MODULE TownProofs -----------------------------
(***************************************************************************)
(* Theorems about a house: what it and its rows say about its owner, and   *)
(* who is in it and in its beds, for any players, lists and beds; about    *)
(* the market: money and goods are conserved for any players, offers and   *)
(* prices; about the trade between two players, for any items, weights and *)
(* nesting; about the imbuements of any items; and about the conditions,   *)
(* the equipment, the mount and the outfit of a player, for any spells and *)
(* items.                                                                  *)
(***************************************************************************)
EXTENDS Bed, Market, Trade, Imbue, FiniteSetsExt, Functions, FoldTheorems, FiniteSetTheorems,
        WellFoundedInduction, TLAPS

-----------------------------------------------------------------------------
(* The house and its rows. *)

Owners == Residents \cup {NoResident}

\* A House: the fields, and those that are kept in a row.
Houses ==
    [owner : Owners, lists : [ListIds -> SUBSET Residents], warnings : Nat, paid : BOOLEAN,
     deal : [seller : Residents, buyer : Residents] \cup {NoDeal},
     tenure : Nat, written : [ListIds -> Nat], seeded : SUBSET ListIds, torn : BOOLEAN]

HouseTypeOK ==
    /\ house \in Houses /\ letters \in Nat
    /\ editing \in [Residents -> ListIds \cup {NoList}]
    /\ row \in [owner : Owners, tenure : Nat, saved : Houses]

\* What a House h of this owner and this tenure may hold once n letters are out.
Clean(h, owner, tenure, n) ==
    /\ \A l \in ListIds \ h.seeded : h.lists[l] # {} => owner # NoResident /\ h.written[l] = tenure
    /\ h.warnings <= n

\* The rows and the House are of the same tenure, and what was saved in it is
\* as clean as what is in memory: a restart may bring it back.
HouseIInv ==
    /\ HouseTypeOK
    /\ row.tenure = house.tenure /\ row.saved.tenure <= row.tenure
    /\ row.owner = house.owner \/ house.owner = NoResident
    /\ ~house.torn => Clean(house, house.owner, house.tenure, letters)
    /\ ~row.saved.torn /\ row.saved.tenure = row.tenure =>
          Clean(row.saved, row.owner, row.tenure, letters)

LEMMA HouseBooksFollow == HouseIInv => HouseBooks
BY DEF HouseIInv, HouseBooks, Clean

LEMMA InitHouse == HouseInit => HouseIInv
<1> SUFFICES ASSUME HouseInit PROVE HouseIInv
  OBVIOUS
<1>1. house \in Houses
  BY HouseAssumption DEF HouseInit, Houses, Owners, Blanks, Unwritten
<1>2. HouseTypeOK
  BY <1>1 DEF HouseInit, HouseTypeOK, Owners
<1>3. QED
  BY <1>2 DEF HouseIInv, HouseInit, Clean, Blanks

\* setOwner() makes a House that is clean for its new owner, whatever the count.
LEMMA SetOwnerClean ==
    ASSUME NEW h \in Houses, NEW guid \in Owners, NEW found \in BOOLEAN, h.owner # guid,
           NEW n \in Nat,
           ~h.torn => Clean(h, h.owner, h.tenure, n)
    PROVE  LET k == setOwner(h, guid, found)
           IN  /\ k \in Houses
               /\ k.tenure = h.tenure + 1 /\ k.deal = h.deal
               /\ k.owner = guid \/ k.owner = NoResident
               /\ ~k.torn => Clean(k, k.owner, k.tenure, 0)
<1> DEFINE k == setOwner(h, guid, found)
<1>1. /\ k.owner \in {guid, NoResident} /\ k.tenure = h.tenure + 1 /\ k.deal = h.deal
      /\ k.warnings = 0
      /\ k.lists = IF h.owner # NoResident THEN Blanks ELSE h.lists
      /\ k.seeded = IF h.owner # NoResident THEN {} ELSE h.seeded
      /\ k.torn = (h.torn /\ h.owner = NoResident)
  BY DEF setOwner, Houses
<1>2. k \in Houses
  <2> DEFINE o == IF found THEN guid ELSE NoResident
             L == IF h.owner # NoResident THEN Blanks ELSE h.lists
             W == IF h.owner # NoResident THEN Unwritten ELSE h.written
             Z == IF h.owner # NoResident THEN {} ELSE h.seeded
             P == h.paid \/ h.owner = NoResident
             T == h.torn /\ h.owner = NoResident
  <2>1. k = [h EXCEPT !.owner = o, !.lists = L, !.written = W, !.seeded = Z, !.paid = P, !.torn = T,
                      !.warnings = 0, !.tenure = h.tenure + 1]
    BY DEF setOwner
  <2>2. /\ o \in Owners /\ L \in [ListIds -> SUBSET Residents] /\ W \in [ListIds -> Nat]
        /\ Z \in SUBSET ListIds
    BY DEF Houses, Owners, Blanks, Unwritten
  <2>3. P \in BOOLEAN /\ T \in BOOLEAN
    OBVIOUS
  <2> HIDE DEF o, L, W, Z, P, T, k
  <2>4. k = [owner |-> o, lists |-> L, warnings |-> 0, paid |-> P, deal |-> h.deal,
             tenure |-> h.tenure + 1, written |-> W, seeded |-> Z, torn |-> T]
    BY <2>1 DEF Houses
  <2>5. h.tenure + 1 \in Nat /\ h.deal \in [seller : Residents, buyer : Residents] \cup {NoDeal}
    BY DEF Houses
  <2>6. QED
    BY <2>2, <2>3, <2>4, <2>5 DEF Houses
<1>3. ASSUME ~k.torn, NEW l \in ListIds \ k.seeded PROVE k.lists[l] = {}
  <2>1. CASE h.owner # NoResident
    BY <1>1, <2>1 DEF Blanks
  <2>2. CASE h.owner = NoResident
    BY <1>1, <1>3, <2>2 DEF Clean
  <2>3. QED
    BY <2>1, <2>2
<1>4. QED
  BY <1>1, <1>2, <1>3 DEF Clean

\* setOwner(guid, true) with its row: what GiveTo() and payHouses() do.
LEMMA GivenAway ==
    ASSUME HouseTypeOK, NEW h \in Houses, NEW guid \in Owners, NEW found \in BOOLEAN,
           row.tenure = h.tenure, row.saved.tenure <= row.tenure,
           h.owner # guid,
           ~h.torn => Clean(h, h.owner, h.tenure, letters),
           NEW k \in Houses, k = [setOwner(h, guid, found) EXCEPT !.deal = k.deal],
           house' = k, row' = OwnerWritten(row, h, guid), letters' = 0,
           editing' \in [Residents -> ListIds \cup {NoList}]
    PROVE  HouseIInv'
<1> DEFINE s == setOwner(h, guid, found)
<1>1. /\ s \in Houses /\ s.tenure = h.tenure + 1 /\ (s.owner = guid \/ s.owner = NoResident)
      /\ ~s.torn => Clean(s, s.owner, s.tenure, 0)
  BY SetOwnerClean DEF HouseTypeOK
<1> HIDE DEF s
<1>2. /\ k.tenure = s.tenure /\ k.owner = s.owner /\ k.torn = s.torn
      /\ k.lists = s.lists /\ k.written = s.written /\ k.seeded = s.seeded /\ k.warnings = s.warnings
  BY <1>1 DEF s, Houses
<1>3. row' = [row EXCEPT !.owner = guid, !.tenure = h.tenure + 1]
  BY DEF OwnerWritten
<1>4. /\ row' \in [owner : Owners, tenure : Nat, saved : Houses]
      /\ row'.owner = guid /\ row'.tenure = h.tenure + 1 /\ row'.saved = row.saved
  <2>1. h.tenure + 1 \in Nat /\ row \in [owner : Owners, tenure : Nat, saved : Houses]
    BY DEF HouseTypeOK, Houses
  <2>2. QED
    BY <1>3, <2>1
<1>5. HouseTypeOK'
  BY <1>4 DEF HouseTypeOK
<1>6. row.saved.tenure \in Nat /\ row.tenure \in Nat /\ h.tenure \in Nat
  BY DEF HouseTypeOK, Houses
<1>7. row'.tenure = house'.tenure /\ row'.saved.tenure < row'.tenure
  BY <1>1, <1>2, <1>4, <1>6
<1>8. ~k.torn => Clean(k, k.owner, k.tenure, 0)
  BY <1>1, <1>2 DEF Clean
<1>9. QED
  BY <1>1, <1>2, <1>4, <1>5, <1>6, <1>7, <1>8 DEF HouseIInv, Clean

LEMMA NextHouse == HouseIInv /\ [HouseNext]_houseVars => HouseIInv'
<1> SUFFICES ASSUME HouseIInv, [HouseNext]_houseVars PROVE HouseIInv'
  OBVIOUS
<1>0. /\ HouseTypeOK /\ NoResident \notin Residents /\ NoList \notin ListIds
      /\ "subowner" \in ListIds /\ Texts \subseteq SUBSET Residents /\ LastWarning \in Nat
      /\ house.tenure \in Nat /\ house.owner \in Owners
  BY HouseAssumption DEF HouseIInv, HouseTypeOK, Houses

\* The steps that leave the owner alone and say nothing new about the lists.
<1>1. ASSUME NEW k \in Houses, house' = k, UNCHANGED <<row, letters>>, HouseTypeOK',
             /\ k.owner = house.owner /\ k.tenure = house.tenure /\ k.torn = house.torn
             /\ k.lists = house.lists /\ k.written = house.written /\ k.warnings = house.warnings
             /\ k.seeded = house.seeded
      PROVE  HouseIInv'
  BY <1>1 DEF HouseIInv, Clean
<1>2. ASSUME NEW guid \in Owners, NEW found \in BOOLEAN, SetOwnerGuid(guid, found) PROVE HouseIInv'
  <2>1. CASE house.owner = guid
    BY <1>2, <2>1 DEF SetOwnerGuid, GiveTo, setOwner, OwnerWritten, HouseIInv, HouseTypeOK, Clean
  <2>2. CASE house.owner # guid
    <3> DEFINE k == setOwner(house, guid, found)
    <3>1. k \in Houses /\ k.deal = house.deal
      BY <2>2, SetOwnerClean DEF HouseIInv, HouseTypeOK
    <3> HIDE DEF k
    <3>2. k = [k EXCEPT !.deal = k.deal]
      BY <3>1 DEF Houses
    <3>3. house' = k /\ row' = OwnerWritten(row, house, guid) /\ letters' = 0 /\ editing' = editing
      BY <1>2, <2>2 DEF SetOwnerGuid, GiveTo, k
    <3>4. QED
      BY <1>0, <2>2, <3>1, <3>2, <3>3, GivenAway DEF HouseIInv, HouseTypeOK, k
  <2>3. QED
    BY <2>1, <2>2
<1>3. ASSUME NEW p \in Residents, NEW q \in Residents, StartTrade(p, q) PROVE HouseIInv'
  <2>1. house' \in Houses
    BY <1>0, <1>3 DEF StartTrade, HouseTypeOK, Houses
  <2>2. HouseTypeOK'
    BY <1>0, <1>3, <2>1 DEF StartTrade, HouseTypeOK
  <2>3. QED
    BY <1>0, <1>1, <1>3, <2>1, <2>2 DEF StartTrade, HouseTypeOK, Houses
<1>4. CASE CancelTrade \/ PeriodEnds
  <2>1. house' \in Houses
    <3>1. CASE CancelTrade
      BY <1>0, <3>1 DEF CancelTrade, HouseTypeOK, Houses
    <3>2. CASE PeriodEnds
      BY <1>0, <3>2 DEF PeriodEnds, HouseTypeOK, Houses
    <3>3. QED
      BY <1>4, <3>1, <3>2
  <2>2. HouseTypeOK'
    BY <1>0, <1>4, <2>1 DEF CancelTrade, PeriodEnds, HouseTypeOK
  <2>3. QED
    BY <1>0, <1>1, <1>4, <2>1, <2>2 DEF CancelTrade, PeriodEnds, HouseTypeOK, Houses
<1>5. ASSUME NEW found \in BOOLEAN, executeTransfer(found) PROVE HouseIInv'
  <2> DEFINE guid == house.deal.buyer
             s == setOwner(house, guid, found)
             k == [s EXCEPT !.deal = NoDeal]
  <2>0. guid \in Owners
    BY <1>0, <1>5 DEF executeTransfer, HouseTypeOK, Houses, Owners
  <2>1. CASE house.owner = guid
    <3>1. s = house
      BY <2>1 DEF setOwner
    <3>2. house' = [house EXCEPT !.deal = NoDeal] /\ UNCHANGED <<row, letters, editing>>
      BY <1>5, <2>1, <3>1 DEF executeTransfer, GiveTo, OwnerWritten
    <3>3. house' \in Houses
      BY <1>0, <3>2 DEF HouseTypeOK, Houses
    <3>4. HouseTypeOK'
      BY <1>0, <3>2, <3>3 DEF HouseTypeOK
    <3>5. QED
      BY <1>0, <1>1, <3>2, <3>3, <3>4 DEF HouseTypeOK, Houses
  <2>2. CASE house.owner # guid
    <3>1. s \in Houses
      BY <2>0, <2>2, SetOwnerClean DEF HouseIInv, HouseTypeOK
    <3>2. house' = k /\ row' = OwnerWritten(row, house, guid) /\ letters' = 0 /\ editing' = editing
      BY <1>5, <2>2 DEF executeTransfer, GiveTo
    <3> HIDE DEF s
    <3>3. k \in Houses /\ k.deal = NoDeal
      BY <3>1 DEF Houses
    <3>4. k = [s EXCEPT !.deal = k.deal]
      BY <3>3
    <3> HIDE DEF k, guid
    <3>5. QED
      BY <1>0, <2>0, <2>2, <3>2, <3>3, <3>4, GivenAway DEF HouseIInv, HouseTypeOK, s
  <2>3. QED
    BY <2>1, <2>2
<1>6. ASSUME NEW p \in Residents, NEW l \in ListIds, OpenList(p, l) PROVE HouseIInv'
  BY <1>6 DEF OpenList, HouseIInv, HouseTypeOK, Clean
<1>7. ASSUME NEW p \in Residents, NEW text \in Texts, UpdateHouseWindow(p, text) PROVE HouseIInv'
  <2> DEFINE l == editing[p]
             w == IF text = {} THEN 0 ELSE house.tenure
             unowned == house.owner = NoResident /\ (p \in Staff \/ "subowner" \in house.seeded)
             z == IF unowned THEN house.seeded \cup {l} ELSE house.seeded \ {l}
  <2>0. l \in ListIds /\ w \in Nat /\ text \in SUBSET Residents
    BY <1>0, <1>7 DEF UpdateHouseWindow, HouseTypeOK
  <2>1. editing' \in [Residents -> ListIds \cup {NoList}] /\ UNCHANGED <<row, letters>>
    BY <1>0, <1>7 DEF UpdateHouseWindow, HouseTypeOK
  <2>2. CASE ~canEditAccessList(l, p)
    BY <1>7, <2>1, <2>2 DEF UpdateHouseWindow, HouseIInv, HouseTypeOK, Clean
  <2>3. CASE canEditAccessList(l, p)
    <3>0. z \in SUBSET ListIds
      BY <1>0, <2>0 DEF HouseTypeOK, Houses
    <3>1. house' = [house EXCEPT !.lists[l] = text, !.written[l] = w, !.seeded = z]
      BY <1>7, <2>3 DEF UpdateHouseWindow, setAccessList
    \* Who edits lists that nobody owns is of the staff or on a list they seeded.
    <3>5. ~house.torn => house.owner # NoResident \/ l \in z
      <4>1. SUFFICES ASSUME ~house.torn, house.owner = NoResident
                     PROVE  p \in Staff \/ "subowner" \in house.seeded
        OBVIOUS
      <4>2. CASE p \in house.lists["subowner"]
        BY <1>0, <4>1, <4>2 DEF HouseIInv, Clean
      <4>3. QED
        BY <1>0, <2>3, <4>1, <4>2 DEF canEditAccessList
    <3>8. \A m \in ListIds : m # l => (m \in z <=> m \in house.seeded)
      OBVIOUS
    <3> HIDE DEF w, z
    <3>2. /\ house'.lists = [house.lists EXCEPT ![l] = text]
          /\ house'.written = [house.written EXCEPT ![l] = w]
          /\ house'.owner = house.owner /\ house'.tenure = house.tenure
          /\ house'.torn = house.torn /\ house'.warnings = house.warnings
          /\ house'.seeded = z
      BY <1>0, <2>0, <3>1 DEF HouseTypeOK, Houses
    <3>3. house' \in Houses
      BY <1>0, <2>0, <3>0, <3>1 DEF HouseTypeOK, Houses
    <3>4. HouseTypeOK'
      BY <1>0, <2>1, <3>3 DEF HouseTypeOK
    <3>6. ~house'.torn => Clean(house', house'.owner, house'.tenure, letters')
      <4>0. ~house'.torn => house'.warnings <= letters'
        BY <2>1, <3>2 DEF HouseIInv, Clean
      <4>1. SUFFICES ASSUME ~house'.torn, NEW m \in ListIds \ house'.seeded, house'.lists[m] # {}
                     PROVE  house'.owner # NoResident /\ house'.written[m] = house'.tenure
        BY <4>0 DEF Clean
      <4>2. CASE m = l
        BY <1>0, <2>0, <3>2, <3>5, <4>1, <4>2 DEF w, HouseTypeOK, Houses
      <4>3. CASE m # l
        BY <1>0, <2>0, <3>2, <3>8, <4>1, <4>3 DEF HouseIInv, Clean, HouseTypeOK, Houses
      <4>4. QED
        BY <4>2, <4>3
    <3>7. QED
      BY <2>1, <3>2, <3>4, <3>6 DEF HouseIInv
  <2>4. QED
    BY <2>2, <2>3
<1>8. CASE SaveHouseInfo
  <2> DEFINE s == [house EXCEPT !.deal = NoDeal]
  <2>1. s \in Houses
    BY <1>0 DEF HouseTypeOK, Houses
  <2>2. /\ s.tenure = house.tenure /\ s.torn = house.torn
        /\ s.lists = house.lists /\ s.written = house.written /\ s.warnings = house.warnings
        /\ s.seeded = house.seeded
    BY <1>0 DEF HouseTypeOK, Houses
  <2>3. row' = [owner |-> house.owner, tenure |-> house.tenure, saved |-> s] /\ UNCHANGED <<house, editing, letters>>
    BY <1>8 DEF SaveHouseInfo
  <2> HIDE DEF s
  <2>4. HouseTypeOK'
    BY <1>0, <2>1, <2>3 DEF HouseTypeOK
  <2>5. QED
    BY <1>0, <2>2, <2>3, <2>4 DEF HouseIInv, Clean
<1>9. ASSUME NEW found \in BOOLEAN, NEW payer \in {"rich", "poor", "gone"}, RestartHouse(found, payer)
      PROVE  HouseIInv'
  <2> DEFINE h == loadHouseInfo(found)
             o == IF found THEN row.owner ELSE NoResident
             t == row.saved.torn \/ ~found \/ row.tenure # row.saved.tenure
  <2>1. h = [row.saved EXCEPT !.owner = o, !.tenure = row.tenure, !.torn = t]
    BY DEF loadHouseInfo
  <2>2. o \in Owners /\ t \in BOOLEAN
    BY <1>0 DEF HouseTypeOK, Owners
  <2>3. PayHouses(h, payer) /\ editing' \in [Residents -> ListIds \cup {NoList}]
    BY <1>9 DEF RestartHouse
  <2>4. o = row.owner \/ o = NoResident
    OBVIOUS
  <2>5. ~t => found /\ row.tenure = row.saved.tenure /\ ~row.saved.torn
    OBVIOUS
  <2>6. ~t => o = row.owner
    OBVIOUS
  <2> HIDE DEF o, t, h
  <2>7. /\ h \in Houses /\ h.owner = o /\ h.tenure = row.tenure /\ h.torn = t
        /\ h.lists = row.saved.lists /\ h.written = row.saved.written /\ h.warnings = row.saved.warnings
        /\ h.seeded = row.saved.seeded
    BY <1>0, <2>1, <2>2 DEF HouseTypeOK, Houses
  <2>8. ~h.torn => Clean(h, h.owner, h.tenure, letters)
    BY <2>5, <2>6, <2>7 DEF HouseIInv, Clean
  <2>9. CASE UNCHANGED <<row, letters>> /\ house' \in {h, [h EXCEPT !.paid = TRUE]}
    <3>1. house' \in Houses
      BY <2>7, <2>9 DEF Houses
    <3>2. /\ house'.owner = o /\ house'.tenure = row.tenure /\ house'.torn = h.torn
          /\ house'.lists = h.lists /\ house'.written = h.written /\ house'.warnings = h.warnings
          /\ house'.seeded = h.seeded
      BY <2>7, <2>9 DEF Houses
    <3>3. QED
      BY <1>0, <2>3, <2>4, <2>7, <2>8, <2>9, <3>1, <3>2 DEF HouseIInv, HouseTypeOK, Clean
  <2>10. CASE /\ ~Overdue(h) /\ house' = [h EXCEPT !.warnings = @ + 1] /\ UNCHANGED row
              /\ letters' = IF letters < LastWarning THEN letters + 1 ELSE letters
    <3>1. h.warnings \in Nat /\ letters \in Nat /\ h.warnings < LastWarning
      BY <1>0, <2>7, <2>10 DEF Houses, HouseTypeOK, Overdue
    <3>2. /\ house' \in Houses /\ house'.warnings = h.warnings + 1
          /\ house'.owner = o /\ house'.tenure = row.tenure /\ house'.torn = h.torn
          /\ house'.lists = h.lists /\ house'.written = h.written /\ house'.seeded = h.seeded
      BY <2>7, <2>10, <3>1 DEF Houses
    <3>3. /\ letters' \in Nat /\ letters <= letters'
          /\ h.warnings <= letters => h.warnings + 1 <= letters'
      BY <1>0, <2>10, <3>1
    <3>4. HouseTypeOK'
      BY <1>0, <2>3, <2>10, <3>2, <3>3 DEF HouseTypeOK
    <3>5. row.saved.warnings \in Nat
      BY <1>0 DEF HouseTypeOK, Houses
    <3>6. QED
      BY <2>4, <2>7, <2>8, <2>10, <3>1, <3>2, <3>3, <3>4, <3>5 DEF HouseIInv, Clean
  <2>11. CASE /\ Due(h) /\ house' = setOwner(h, NoResident, TRUE)
              /\ row' = OwnerWritten(row, h, NoResident) /\ letters' = 0
    <3> DEFINE k == setOwner(h, NoResident, TRUE)
    <3>0. h.owner # NoResident /\ NoResident \in Owners
      BY <2>11 DEF Due, Owners
    <3>1. k \in Houses /\ k.deal = h.deal
      BY <1>0, <2>7, <2>8, <3>0, SetOwnerClean DEF HouseTypeOK
    <3> HIDE DEF k
    <3>2. k = [k EXCEPT !.deal = k.deal]
      BY <3>1 DEF Houses
    <3>3. QED
      BY <1>0, <2>3, <2>7, <2>8, <2>11, <3>0, <3>1, <3>2, GivenAway DEF HouseIInv, k
  <2>12. QED
    BY <2>3, <2>9, <2>10, <2>11 DEF PayHouses
<1>10. CASE UNCHANGED houseVars
  BY <1>10 DEF houseVars, HouseIInv, HouseTypeOK, Clean
<1>11. QED
  BY <1>2, <1>3, <1>4, <1>5, <1>6, <1>7, <1>8, <1>9, <1>10 DEF HouseNext, Owners

-----------------------------------------------------------------------------
(* The beds. *)

BedTypeOK ==
    /\ online \subseteq Guests /\ inside \subseteq online /\ kicks \subseteq Guests
    /\ dead \subseteq Guests \ online
    /\ sleeperGUID \in [Beds -> Guests \cup {NoResident}]
    /\ bedSleepersMap \in [Guests -> Beds \cup {NoBed}]
    /\ bedItem \in [Guests -> Beds \cup {NoBed}]
    /\ bedRow \in [Beds -> Guests \cup {NoResident}]

\* The rows, too, have nobody in two beds but those who went to bed twice:
\* a restart makes the map of the sleepers from them.
RowOnce ==
    \A b, c \in Beds : b # c /\ bedRow[b] = bedRow[c] /\ bedRow[b] # NoResident => bedRow[b] \in twice

BedIInv == BedTypeOK /\ BedsSound /\ RowOnce

\* Beds are numbered, so that some bed of several is the last.
LEMMA LastBed ==
    ASSUME NEW T \in SUBSET Beds, T # {}
    PROVE  \E b \in T : \A c \in T : c <= b
<1> DEFINE n == Cardinality(Beds)
           U == {n - b : b \in T}
<1>1. n \in Nat /\ Beds = 1..n
  BY BedAssumption, FS_CardinalityType
<1> HIDE DEF n
<1>2. U \subseteq Nat /\ U # {}
  <2>1. \A b \in T : b \in Nat /\ n - b \in Nat
    BY <1>1
  <2>2. QED
    BY <2>1
<1>3. PICK x \in U : \A y \in U : ~(<<y, x>> \in OpToRel(<, Nat))
  BY <1>2, NatLessThanWellFounded, WFMin
<1>4. \A y \in U : ~(y < x)
  BY <1>2, <1>3 DEF OpToRel
<1>5. PICK b \in T : x = n - b
  OBVIOUS
<1>6. ASSUME NEW c \in T PROVE c <= b
  <2>1. c \in Nat /\ b \in Nat
    BY <1>1
  <2>2. ~(n - c < n - b)
    BY <1>4, <1>5
  <2>3. QED
    BY <1>1, <2>1, <2>2
<1>7. QED
  BY <1>6

LEMMA InitBeds == BedInit => BedIInv
BY BedAssumption DEF BedInit, BedIInv, BedTypeOK, BedsSound, RowOnce

\* wakeUp() of some beds keeps the map and the beds in agreement, and who is
\* woken is on the map no more.
LEMMA WakingUp ==
    ASSUME BedIInv, NEW beds \in SUBSET Beds, wakeUp(beds), UNCHANGED <<twice, bedRow>>
    PROVE  /\ sleeperGUID' \in [Beds -> Guests \cup {NoResident}]
           /\ bedSleepersMap' \in [Guests -> Beds \cup {NoBed}]
           /\ \A p \in Guests : bedSleepersMap'[p] # NoBed =>
                 /\ sleeperGUID'[bedSleepersMap'[p]] = p
                 /\ bedSleepersMap'[p] = bedSleepersMap[p] /\ bedSleepersMap[p] \notin beds
           /\ \A b \in Beds : LET p == sleeperGUID'[b]
                              IN  p # NoResident => bedSleepersMap'[p] = b \/ p \in twice'
           /\ RowOnce'
<1> DEFINE woken == {sleeperGUID[b] : b \in beds}
<1>0. NoResident \notin Guests /\ NoBed \notin Beds
  BY BedAssumption
<1>1. /\ sleeperGUID' = [b \in Beds |-> IF b \in beds THEN NoResident ELSE sleeperGUID[b]]
      /\ bedSleepersMap' = [p \in Guests |-> IF p \in woken THEN NoBed ELSE bedSleepersMap[p]]
  BY DEF wakeUp
<1>2. /\ sleeperGUID' \in [Beds -> Guests \cup {NoResident}]
      /\ bedSleepersMap' \in [Guests -> Beds \cup {NoBed}]
  BY <1>1 DEF BedIInv, BedTypeOK
<1>3. ASSUME NEW p \in Guests, bedSleepersMap'[p] # NoBed
      PROVE  /\ sleeperGUID'[bedSleepersMap'[p]] = p
             /\ bedSleepersMap'[p] = bedSleepersMap[p] /\ bedSleepersMap[p] \notin beds
  <2>1. p \notin woken /\ bedSleepersMap'[p] = bedSleepersMap[p] /\ bedSleepersMap[p] \in Beds
    BY <1>1, <1>3 DEF BedIInv, BedTypeOK
  <2>2. sleeperGUID[bedSleepersMap[p]] = p
    BY <1>3, <2>1 DEF BedIInv, BedsSound
  <2>3. bedSleepersMap[p] \notin beds
    BY <2>1, <2>2
  <2>4. QED
    BY <1>1, <2>1, <2>2, <2>3
<1>4. ASSUME NEW b \in Beds, sleeperGUID'[b] # NoResident
      PROVE  bedSleepersMap'[sleeperGUID'[b]] = b \/ sleeperGUID'[b] \in twice'
  <2>1. b \notin beds /\ sleeperGUID'[b] = sleeperGUID[b]
    BY <1>1, <1>4
  <2> DEFINE p == sleeperGUID[b]
  <2>2. p \in Guests /\ (bedSleepersMap[p] = b \/ p \in twice)
    BY <1>4, <2>1 DEF BedIInv, BedTypeOK, BedsSound
  <2>3. CASE p \notin woken
    BY <1>1, <2>1, <2>2, <2>3
  <2>4. CASE p \in woken /\ bedSleepersMap[p] = b
    <3>1. PICK c \in beds : sleeperGUID[c] = p
      BY <2>4
    <3>2. bedSleepersMap[p] = c \/ p \in twice
      BY <1>4, <2>1, <3>1 DEF BedIInv, BedsSound
    <3>3. QED
      BY <2>1, <2>4, <3>1, <3>2
  <2>5. QED
    BY <2>1, <2>2, <2>3, <2>4
<1>5. RowOnce'
  BY DEF BedIInv, RowOnce
<1>6. QED
  BY <1>2, <1>3, <1>4, <1>5

LEMMA NextBeds == BedIInv /\ [BedNext]_bedVars => BedIInv'
<1> SUFFICES ASSUME BedIInv, [BedNext]_bedVars PROVE BedIInv'
  OBVIOUS
<1>0. NoResident \notin Guests /\ NoBed \notin Beds /\ Tenants \subseteq Guests
  BY BedAssumption
<1>1. ASSUME NEW p \in Guests, LogOut(p) PROVE BedIInv'
  <2>1. BedTypeOK'
    BY <1>1 DEF LogOut, BedIInv, BedTypeOK
  <2>2. QED
    BY <1>1, <2>1 DEF LogOut, BedIInv, BedsSound, RowOnce, isInvited, isOwner
<1>2. ASSUME NEW p \in Guests, WalkOut(p) \/ WalkIn(p) PROVE BedIInv'
  BY <1>2 DEF WalkOut, WalkIn, BedIInv, BedTypeOK, BedsSound, RowOnce, isInvited, isOwner
<1>3. ASSUME NEW p \in Guests, NEW in \in BOOLEAN, LogIn(p, in) PROVE BedIInv'
  <2> DEFINE beds == {bedSleepersMap[p]} \ {NoBed}
  <2>1. beds \in SUBSET Beds /\ wakeUp(beds) /\ UNCHANGED <<twice, bedRow>>
    BY <1>3 DEF LogIn, BedIInv, BedTypeOK
  <2>2. /\ sleeperGUID' \in [Beds -> Guests \cup {NoResident}]
        /\ bedSleepersMap' \in [Guests -> Beds \cup {NoBed}]
        /\ \A q \in Guests : bedSleepersMap'[q] # NoBed =>
              /\ sleeperGUID'[bedSleepersMap'[q]] = q
              /\ bedSleepersMap'[q] = bedSleepersMap[q] /\ bedSleepersMap[q] \notin beds
        /\ \A b \in Beds : LET q == sleeperGUID'[b]
                           IN  q # NoResident => bedSleepersMap'[q] = b \/ q \in twice'
        /\ RowOnce'
    BY <2>1, WakingUp
  <2>3. BedTypeOK'
    BY <1>3, <2>2 DEF LogIn, BedIInv, BedTypeOK
  <2>4. \A q \in inside' : isInvited(q)' \/ q \in kicks'
    BY <1>3 DEF LogIn, MayAppearInside, isInvited, isOwner, BedIInv, BedsSound
  <2>5. \A q \in online' : bedSleepersMap'[q] # NoBed => q \in kicks' \cup risen'
    <3>1. bedSleepersMap'[p] = NoBed
      BY <2>2
    <3>2. QED
      BY <1>3, <2>2, <3>1 DEF LogIn, BedIInv, BedTypeOK, BedsSound
  <2>6. QED
    BY <2>2, <2>3, <2>4, <2>5 DEF BedIInv, BedsSound
<1>4. ASSUME NEW beds \in SUBSET Beds, wakeUp(beds), UNCHANGED <<online, kicks, dead, twice, risen, bedRow, bedItem>>,
             inside' \subseteq online, \A q \in inside' : isInvited(q)' \/ q \in kicks'
      PROVE  BedIInv'
  <2>1. /\ sleeperGUID' \in [Beds -> Guests \cup {NoResident}]
        /\ bedSleepersMap' \in [Guests -> Beds \cup {NoBed}]
        /\ \A q \in Guests : bedSleepersMap'[q] # NoBed =>
              /\ sleeperGUID'[bedSleepersMap'[q]] = q
              /\ bedSleepersMap'[q] = bedSleepersMap[q] /\ bedSleepersMap[q] \notin beds
        /\ \A b \in Beds : LET q == sleeperGUID'[b]
                           IN  q # NoResident => bedSleepersMap'[q] = b \/ q \in twice'
        /\ RowOnce'
    BY <1>4, WakingUp
  <2>2. BedTypeOK'
    BY <1>4, <2>1 DEF BedIInv, BedTypeOK
  <2>3. \A q \in online' : bedSleepersMap'[q] # NoBed => q \in kicks' \cup risen'
    BY <1>4, <2>1 DEF BedIInv, BedTypeOK, BedsSound
  <2>4. QED
    BY <1>4, <2>1, <2>2, <2>3 DEF BedIInv, BedsSound
<1>5. ASSUME NEW p \in Guests, NEW b \in Beds, UseBed(p, b) PROVE BedIInv'
  <2>1. CASE trySleepTaken(p, b)
    <3>1. wakeUp({b}) /\ UNCHANGED <<online, inside, tenant, invited, kicks, dead, twice, risen, bedRow>>
      BY <1>5, <2>1 DEF UseBed, trySleepTaken
    <3>2. UNCHANGED bedItem
      BY <1>5, <2>1 DEF UseBed, trySleepTaken
    <3>3. QED
      BY <1>4, <3>1, <3>2 DEF BedIInv, BedTypeOK, BedsSound, isInvited, isOwner
  <2>2. CASE ~trySleepTaken(p, b)
    <3>1. /\ bedItem' = [bedItem EXCEPT ![p] = b]
          /\ UNCHANGED <<online, inside, tenant, invited, kicks, dead, twice, risen, bedRow, sleeperGUID, bedSleepersMap>>
      BY <1>5, <2>2 DEF UseBed
    <3>2. QED
      BY <3>1 DEF BedIInv, BedTypeOK, BedsSound, RowOnce, isInvited, isOwner
  <2>3. QED
    BY <2>1, <2>2
<1>6. ASSUME NEW p \in Guests, NEW yes \in BOOLEAN, AnswerDialog(p, yes) PROVE BedIInv'
  <2> DEFINE b == bedItem[p]
  <2>1. CASE bedItem' = [bedItem EXCEPT ![p] = NoBed] /\ UNCHANGED <<sleeperGUID, bedSleepersMap, inside, kicks, twice>>
    BY <1>6, <2>1 DEF AnswerDialog, BedIInv, BedTypeOK, BedsSound, RowOnce, isInvited, isOwner
  <2>2. CASE sleep(p, b) /\ UNCHANGED bedItem
    <3>0. b \in Beds /\ sleeperGUID[b] = NoResident
      BY <2>2 DEF sleep, StillFree, BedIInv, BedTypeOK
    <3>1. /\ p \in online /\ sleeperGUID' = [sleeperGUID EXCEPT ![b] = p]
          /\ bedSleepersMap' = [bedSleepersMap EXCEPT ![p] = b]
          /\ inside' = inside \cup {p} /\ kicks' = kicks \cup {p}
          /\ twice' = IF bedSleepersMap[p] = NoBed THEN twice ELSE twice \cup {p}
          /\ UNCHANGED <<online, tenant, invited, dead, risen, bedRow, bedItem>>
      BY <1>6, <2>2 DEF AnswerDialog, sleep
    <3>2. /\ sleeperGUID \in [Beds -> Guests \cup {NoResident}]
          /\ bedSleepersMap \in [Guests -> Beds \cup {NoBed}]
      BY DEF BedIInv, BedTypeOK
    <3>3. BedTypeOK' /\ RowOnce'
      BY <3>0, <3>1 DEF BedIInv, BedTypeOK, RowOnce
    <3>4. \A q \in inside' : isInvited(q)' \/ q \in kicks'
      BY <3>1 DEF BedIInv, BedsSound, isInvited, isOwner
    <3>5. ASSUME NEW q \in Guests, bedSleepersMap'[q] # NoBed PROVE sleeperGUID'[bedSleepersMap'[q]] = q
      <4>1. CASE q = p
        BY <3>0, <3>1, <3>2, <4>1
      <4>2. CASE q # p
        <5>1. bedSleepersMap'[q] = bedSleepersMap[q] /\ sleeperGUID[bedSleepersMap[q]] = q
          BY <3>1, <3>2, <3>5, <4>2 DEF BedIInv, BedsSound
        <5>2. bedSleepersMap[q] # b
          BY <1>0, <3>0, <5>1
        <5>3. QED
          BY <3>1, <3>2, <3>5, <5>1, <5>2
      <4>3. QED
        BY <4>1, <4>2
    <3>6. \A q \in online' : bedSleepersMap'[q] # NoBed => q \in kicks' \cup risen'
      BY <3>1, <3>2 DEF BedIInv, BedsSound, BedTypeOK
    <3>7. ASSUME NEW c \in Beds, sleeperGUID'[c] # NoResident
          PROVE  bedSleepersMap'[sleeperGUID'[c]] = c \/ sleeperGUID'[c] \in twice'
      <4>1. CASE c = b
        BY <3>0, <3>1, <3>2, <4>1
      <4>2. CASE c # b
        <5>1. sleeperGUID'[c] = sleeperGUID[c] /\ sleeperGUID[c] \in Guests
          BY <3>1, <3>2, <3>7, <4>2
        <5>2. bedSleepersMap[sleeperGUID[c]] = c \/ sleeperGUID[c] \in twice
          BY <3>7, <5>1 DEF BedIInv, BedsSound
        <5>3. QED
          BY <1>0, <3>1, <3>2, <5>1, <5>2
      <4>3. QED
        BY <4>1, <4>2
    <3>8. QED
      BY <3>3, <3>4, <3>5, <3>6, <3>7 DEF BedIInv, BedsSound
  <2>3. QED
    BY <1>6, <2>1, <2>2 DEF AnswerDialog
<1>7. ASSUME NEW S \in Texts, SetGuests(S) PROVE BedIInv'
  BY <1>7 DEF SetGuests, BedIInv, BedTypeOK, BedsSound, RowOnce, isInvited, isOwner
<1>8. ASSUME NEW p \in Tenants \cup {NoResident}, NewTenant(p) PROVE BedIInv'
  <2>1. CASE tenant # NoResident
    <3> DEFINE beds == {b \in Beds : sleeperGUID[b] # NoResident}
    <3>1. /\ wakeUp(beds) /\ beds \in SUBSET Beds /\ inside' = inside \cap Staff
          /\ UNCHANGED <<online, kicks, dead, twice, risen, bedRow, bedItem>>
      BY <1>8, <2>1 DEF NewTenant
    <3>2. inside' \subseteq online /\ \A q \in inside' : isInvited(q)'
      BY <3>1 DEF isInvited, isOwner, BedIInv, BedTypeOK
    <3>3. QED
      BY <1>4, <3>1, <3>2
  <2>2. CASE tenant = NoResident
    <3>1. UNCHANGED <<online, inside, invited, sleeperGUID, bedSleepersMap, bedItem, kicks, dead, bedRow, twice, risen>>
      BY <1>8, <2>2 DEF NewTenant
    <3>2. \A q \in inside : q \in Staff \/ q \in invited \/ q \in kicks
      BY <1>0, <2>2 DEF BedIInv, BedTypeOK, BedsSound, isInvited, isOwner
    <3>3. QED
      BY <3>1, <3>2 DEF BedIInv, BedTypeOK, BedsSound, RowOnce, isInvited, isOwner
  <2>3. QED
    BY <2>1, <2>2
<1>9. CASE SaveBeds
  <2>1. ASSUME NEW b \in Beds, NEW c \in Beds, b # c, sleeperGUID[b] = sleeperGUID[c], sleeperGUID[b] # NoResident
        PROVE  sleeperGUID[b] \in twice
    BY <2>1 DEF BedIInv, BedsSound
  <2>2. QED
    BY <1>9, <2>1 DEF SaveBeds, peopleVars, BedIInv, BedTypeOK, BedsSound, RowOnce, isInvited, isOwner
<1>10. ASSUME NEW S \in Texts, RestartBeds(S) PROVE BedIInv'
  <2> DEFINE In(p) == {b \in Beds : bedRow[b] = p}
  <2>1. /\ online' = {} /\ inside' = {} /\ kicks' = {} /\ dead' = {}
        /\ bedItem' = [p \in Guests |-> NoBed] /\ sleeperGUID' = bedRow
        /\ bedSleepersMap' = [p \in Guests |->
              IF In(p) = {} THEN NoBed ELSE CHOOSE b \in In(p) : \A c \in In(p) : c <= b]
        /\ UNCHANGED <<bedRow, twice>>
    BY <1>10 DEF RestartBeds
  <2>2. ASSUME NEW p \in Guests
        PROVE  \/ In(p) = {} /\ bedSleepersMap'[p] = NoBed
               \/ bedSleepersMap'[p] \in In(p)
    <3>1. CASE In(p) = {}
      BY <2>1, <3>1
    <3>2. CASE In(p) # {}
      <4>1. \E b \in In(p) : \A c \in In(p) : c <= b
        BY <3>2, LastBed
      <4>2. QED
        BY <2>1, <3>2, <4>1
    <3>3. QED
      BY <3>1, <3>2
  <2>3. BedTypeOK' /\ RowOnce'
    <3>1. bedSleepersMap' \in [Guests -> Beds \cup {NoBed}]
      <4>1. \A p \in Guests : bedSleepersMap'[p] \in Beds \cup {NoBed}
        BY <2>2
      <4>2. QED
        BY <2>1, <4>1
    <3>2. QED
      BY <2>1, <3>1 DEF BedIInv, BedTypeOK, RowOnce
  <2>4. \A p \in Guests : bedSleepersMap'[p] # NoBed => sleeperGUID'[bedSleepersMap'[p]] = p
    BY <2>1, <2>2
  <2>5. ASSUME NEW b \in Beds, sleeperGUID'[b] # NoResident
        PROVE  bedSleepersMap'[sleeperGUID'[b]] = b \/ sleeperGUID'[b] \in twice'
    <3>1. bedRow[b] \in Guests /\ bedRow[b] # NoResident
      BY <2>1, <2>5 DEF BedIInv, BedTypeOK
    <3>2. bedSleepersMap'[bedRow[b]] \in In(bedRow[b])
      BY <2>2, <3>1
    <3>3. QED
      BY <2>1, <3>1, <3>2 DEF BedIInv, RowOnce
  <2>6. QED
    BY <2>1, <2>3, <2>4, <2>5 DEF BedIInv, BedsSound
<1>11. CASE UNCHANGED bedVars
  BY <1>11 DEF bedVars, peopleVars, BedIInv, BedTypeOK, BedsSound, RowOnce, isInvited, isOwner
<1>12. ASSUME NEW p \in Guests, Die(p) \/ Rise(p) PROVE BedIInv'
  <2>1. BedTypeOK' /\ RowOnce'
    BY <1>12 DEF Die, Rise, BedIInv, BedTypeOK, RowOnce
  <2>2. QED
    BY <1>12, <2>1 DEF Die, Rise, BedIInv, BedsSound, isInvited, isOwner
<1>13. ASSUME NEW p \in Guests, KickSleeper(p) PROVE BedIInv'
  <2>1. CASE LogOut(p)
    BY <1>1, <2>1
  <2>2. CASE ~LogOut(p)
    <3>1. /\ p \in dead /\ kicks' = kicks \ {p}
          /\ UNCHANGED <<online, inside, tenant, invited, sleeperGUID, bedSleepersMap, bedItem, dead,
                         bedRow, twice, risen>>
      BY <1>13, <2>2 DEF KickSleeper
    <3>2. p \notin online /\ p \notin inside
      BY <3>1 DEF BedIInv, BedTypeOK
    <3>3. BedTypeOK' /\ RowOnce'
      BY <3>1 DEF BedIInv, BedTypeOK, RowOnce
    <3>4. QED
      BY <3>1, <3>2, <3>3 DEF BedIInv, BedsSound, isInvited, isOwner
  <2>3. QED
    BY <2>1, <2>2
<1>14. QED
  BY <1>1, <1>2, <1>3, <1>5, <1>6, <1>7, <1>8, <1>9, <1>10, <1>11, <1>12, <1>13
     DEF BedNext, KickGuest

\* What a house remembers of its people belongs to its present owner and to
\* those who are really there, for any players, lists, beds and warnings: a
\* new owner starts with empty lists and no warnings unless a restart has put
\* rows of two tenures together or the staff wrote them before, nobody is inside
\* uninvited but a sleeper, and the map of sleepers and the beds agree.
THEOREM HouseStaysSound == HouseSpec /\ BedSpec => []HouseSound
<1>1. HouseSpec => []HouseBooks
  BY InitHouse, NextHouse, HouseBooksFollow, PTL DEF HouseSpec
<1>2. BedIInv => BedsSound
  BY DEF BedIInv
<1>3. BedSpec => []BedsSound
  BY <1>2, InitBeds, NextBeds, PTL DEF BedSpec
<1>4. HouseBooks /\ BedsSound => HouseSound
  BY DEF HouseSound
<1>5. QED
  BY <1>1, <1>3, <1>4, PTL

-----------------------------------------------------------------------------
(* The market: rows. *)

DepositOf(offer) == IF offer = NoRow \/ offer.sale THEN 0 ELSE offer.price * offer.amount
PledgeOf(offer) == IF offer = NoRow \/ ~offer.sale THEN 0 ELSE offer.amount

Tables == [OfferIds -> Row \cup {NoRow}]

Deposits(o) == [id \in OfferIds |-> DepositOf(o[id])]
Pledges(o) == [id \in OfferIds |-> PledgeOf(o[id])]

LEMMA TimesNat == ASSUME NEW a \in Nat, NEW b \in Nat PROVE a * b \in Nat
OBVIOUS

LEMMA TimesMinus ==
    ASSUME NEW a \in Nat, NEW b \in Nat, NEW c \in Nat
    PROVE  a * (b - c) = a * b - a * c
OBVIOUS

LEMMA RowFacts ==
    ASSUME NEW offer \in Row
    PROVE  /\ offer # NoRow /\ offer.player \in Merchants /\ offer.sale \in BOOLEAN
           /\ offer.amount \in Nat /\ offer.price \in Nat /\ offer.price \in Prices
<1>1. DOMAIN offer = {"player", "sale", "amount", "price"} /\ DOMAIN NoRow = {"player"}
  BY DEF Row, NoRow
<1>2. offer # NoRow
  BY <1>1
<1> QED BY <1>2, MarketAssumption DEF Row

LEMMA ValueFacts ==
    ASSUME NEW offer \in Row \cup {NoRow}
    PROVE  DepositOf(offer) \in Nat /\ PledgeOf(offer) \in Nat
<1>1. CASE offer = NoRow
  BY <1>1 DEF DepositOf, PledgeOf
<1>2. CASE offer \in Row
  <2>1. offer.sale \in BOOLEAN /\ offer.amount \in Nat /\ offer.price \in Nat
    BY <1>2, RowFacts
  <2>2. offer.price * offer.amount \in Nat
    BY <2>1, TimesNat
  <2> QED BY <2>1, <2>2 DEF DepositOf, PledgeOf
<1> QED BY <1>1, <1>2

LEMMA DeliveredIs == ASSUME NEW n \in Nat PROVE Delivered(n) = n
BY MarketAssumption DEF Delivered

\* One row of the table changes.
LEMMA OneRow ==
    ASSUME NEW o \in Tables, NEW u \in Tables, NEW id \in OfferIds,
           \A j \in OfferIds : j # id => u[j] = o[j]
    PROVE  /\ SumFunction(Deposits(u)) =
                 SumFunction(Deposits(o)) - DepositOf(o[id]) + DepositOf(u[id])
           /\ SumFunction(Pledges(u)) =
                 SumFunction(Pledges(o)) - PledgeOf(o[id]) + PledgeOf(u[id])
<1>1. IsFiniteSet(OfferIds)
  BY MarketAssumption
<1>2. \A j \in OfferIds : o[j] \in Row \cup {NoRow} /\ u[j] \in Row \cup {NoRow}
  BY DEF Tables
<1>3. \A j \in OfferIds : /\ DepositOf(o[j]) \in Int /\ DepositOf(u[j]) \in Int
                          /\ PledgeOf(o[j]) \in Int /\ PledgeOf(u[j]) \in Int
  BY <1>2, ValueFacts
<1>4. /\ Deposits(o) \in [OfferIds -> Int] /\ Deposits(u) \in [OfferIds -> Int]
      /\ Pledges(o) \in [OfferIds -> Int] /\ Pledges(u) \in [OfferIds -> Int]
  BY <1>3 DEF Deposits, Pledges
<1>5. \A j \in OfferIds : /\ Deposits(o)[j] = DepositOf(o[j]) /\ Deposits(u)[j] = DepositOf(u[j])
                          /\ Pledges(o)[j] = PledgeOf(o[j]) /\ Pledges(u)[j] = PledgeOf(u[j])
  BY DEF Deposits, Pledges
<1>6. SumFunction(Deposits(u)) = SumFunction(Deposits(o)) - Deposits(o)[id] + Deposits(u)[id]
  BY <1>1, <1>4, <1>5, SumChange
<1>7. SumFunction(Pledges(u)) = SumFunction(Pledges(o)) - Pledges(o)[id] + Pledges(u)[id]
  BY <1>1, <1>4, <1>5, SumChange
<1> QED BY <1>5, <1>6, <1>7

LEMMA SumsTyped ==
    /\ \A o \in Tables : SumFunction(Deposits(o)) \in Int /\ SumFunction(Pledges(o)) \in Int
    /\ \A f \in [Merchants -> Nat] : SumFunction(f) \in Int
<1>1. IsFiniteSet(OfferIds) /\ IsFiniteSet(Merchants)
  BY MarketAssumption
<1>2. ASSUME NEW o \in Tables
      PROVE  SumFunction(Deposits(o)) \in Int /\ SumFunction(Pledges(o)) \in Int
  <2>1. \A j \in OfferIds : DepositOf(o[j]) \in Int /\ PledgeOf(o[j]) \in Int
    BY ValueFacts DEF Tables
  <2>2. Deposits(o) \in [OfferIds -> Int] /\ Pledges(o) \in [OfferIds -> Int]
    BY <2>1 DEF Deposits, Pledges
  <2> QED BY <2>2, <1>1, SumFacts
<1>3. ASSUME NEW f \in [Merchants -> Nat] PROVE SumFunction(f) \in Int
  <2>1. f \in [Merchants -> Int]
    OBVIOUS
  <2> QED BY <2>1, <1>1, SumFacts
<1> QED BY <1>2, <1>3

\* One player's share changes.
LEMMA OneShare ==
    ASSUME NEW f \in [Merchants -> Nat], NEW g \in [Merchants -> Nat], NEW p \in Merchants,
           \A q \in Merchants : q # p => g[q] = f[q]
    PROVE  SumFunction(g) = SumFunction(f) - f[p] + g[p]
<1>1. IsFiniteSet(Merchants) /\ f \in [Merchants -> Int] /\ g \in [Merchants -> Int]
  BY MarketAssumption
<1> QED BY <1>1, SumChange

-----------------------------------------------------------------------------
(* The inductive invariant: ids that are still to come have no row, and    *)
(* what is expected of the expiry is finite.                               *)

Shares == [Merchants -> Nat]

MoneyOf(pu, ba, fe, o) == SumFunction(pu) + SumFunction(ba) + fe + SumFunction(Deposits(o))
PiecesOf(st, sh, o) == SumFunction(st) + SumFunction(sh) + SumFunction(Pledges(o))

Inexact == {"wrapped", "stash", "stale", "unwritten", "lost"}

Answers == \A c \in DOMAIN checks : "rows" \in DOMAIN checks[c] => IsFiniteSet(checks[c].rows)

Typed ==
    /\ purse \in Shares /\ bank \in Shares /\ stock \in Shares /\ stash \in Shares
    /\ offers \in Tables /\ nextId \in Nat /\ fees \in Nat
    /\ checks \in Seq(Check) /\ Len(checks) <= MaxChecks
    /\ excused \subseteq Inexact
    /\ \A id \in OfferIds : id >= nextId => offers[id] = NoRow
    /\ Answers

Kept ==
    /\ MoneyOf(purse, bank, fees, offers) = SumFunction(StartPurse) + SumFunction(StartBank)
    /\ PiecesOf(stock, stash, offers) = SumFunction(StartStock) + SumFunction(StartStash)

MarketInv == Typed /\ (excused = {} => Kept)

LEMMA MarketInvConserved == MarketInv => MarketConserved
<1> SUFFICES ASSUME MarketInv PROVE MarketConserved
  OBVIOUS
<1>1. Typed /\ (excused = {} => Kept)
  BY DEF MarketInv
<1>2. MarketTypeOK
  BY <1>1 DEF Typed, MarketTypeOK, Shares, Tables, Inexact
<1>3. /\ [id \in OfferIds |-> Deposit(id)] = Deposits(offers)
      /\ [id \in OfferIds |-> Pledge(id)] = Pledges(offers)
  BY DEF Deposits, DepositOf, Deposit, Pledges, PledgeOf, Pledge
<1>4. /\ Money = MoneyOf(purse, bank, fees, offers)
      /\ Pieces = PiecesOf(stock, stash, offers)
  BY <1>3 DEF Money, MoneyOf, Pieces, PiecesOf
<1> QED BY <1>1, <1>2, <1>4 DEF MarketConserved, Kept

\* removeMoney() takes all it is asked for, of the two together.
LEMMA MoneyRemoved ==
    ASSUME NEW p \in Merchants, NEW money \in Nat, money <= bank[p] + purse[p],
           purse \in Shares, bank \in Shares, removeMoney(p, money)
    PROVE  /\ purse' \in Shares /\ bank' \in Shares
           /\ SumFunction(purse') + SumFunction(bank') =
                 SumFunction(purse) + SumFunction(bank) - money
<1> DEFINE a == Smaller(purse[p], money)
<1>1. purse[p] \in Nat /\ bank[p] \in Nat
  BY DEF Shares
<1>2. a \in Nat /\ a <= money /\ a <= purse[p] /\ money - a <= bank[p]
  BY <1>1 DEF Smaller
<1>3. /\ purse' = [purse EXCEPT ![p] = purse[p] - a]
      /\ bank' = [bank EXCEPT ![p] = bank[p] - (money - a)]
  BY DEF removeMoney
<1> HIDE DEF a
<1>4. /\ purse' \in Shares /\ purse'[p] = purse[p] - a
      /\ \A q \in Merchants : q # p => purse'[q] = purse[q]
  BY <1>1, <1>2, <1>3 DEF Shares
<1>5. /\ bank' \in Shares /\ bank'[p] = bank[p] - (money - a)
      /\ \A q \in Merchants : q # p => bank'[q] = bank[q]
  BY <1>1, <1>2, <1>3 DEF Shares
<1>6. SumFunction(purse') = SumFunction(purse) - purse[p] + purse'[p]
  BY <1>4, OneShare DEF Shares
<1>7. SumFunction(bank') = SumFunction(bank) - bank[p] + bank'[p]
  BY <1>5, OneShare DEF Shares
<1>8. SumFunction(purse) \in Int /\ SumFunction(bank) \in Int
  BY SumsTyped DEF Shares
<1> QED BY <1>1, <1>2, <1>4, <1>5, <1>6, <1>7, <1>8

\* A new row.
LEMMA RowInserted ==
    ASSUME Typed, NEW offer \in Row, nextId \in OfferIds, nextId' = nextId + 1,
           NEW o, o = [offers EXCEPT ![nextId] = offer]
    PROVE  /\ o \in Tables /\ nextId' \in Nat
           /\ \A id \in OfferIds : id >= nextId' => o[id] = NoRow
           /\ SumFunction(Deposits(o)) = SumFunction(Deposits(offers)) + DepositOf(offer)
           /\ SumFunction(Pledges(o)) = SumFunction(Pledges(offers)) + PledgeOf(offer)
<1>1. /\ nextId \in OfferIds /\ nextId' = nextId + 1 /\ o = [offers EXCEPT ![nextId] = offer]
      /\ nextId \in Nat /\ offers \in Tables
      /\ \A id \in OfferIds : id >= nextId => offers[id] = NoRow
      /\ OfferIds \subseteq Nat
  BY MarketAssumption DEF Typed
<1>2. /\ o \in Tables /\ o[nextId] = offer
      /\ \A id \in OfferIds : id # nextId => o[id] = offers[id]
  BY <1>1 DEF Tables
<1>3. \A id \in OfferIds : id >= nextId + 1 => id >= nextId /\ id # nextId
  BY <1>1
<1>4. nextId' \in Nat /\ \A id \in OfferIds : id >= nextId' => o[id] = NoRow
  BY <1>1, <1>2, <1>3
<1>5. offers[nextId] = NoRow
  BY <1>1
<1>6. DepositOf(offers[nextId]) = 0 /\ PledgeOf(offers[nextId]) = 0
  BY <1>5 DEF DepositOf, PledgeOf
<1>7. /\ SumFunction(Deposits(o)) =
             SumFunction(Deposits(offers)) - DepositOf(offers[nextId]) + DepositOf(o[nextId])
      /\ SumFunction(Pledges(o)) =
             SumFunction(Pledges(offers)) - PledgeOf(offers[nextId]) + PledgeOf(o[nextId])
  BY <1>1, <1>2, OneRow
<1>8. /\ SumFunction(Deposits(offers)) \in Int /\ SumFunction(Pledges(offers)) \in Int
      /\ DepositOf(offer) \in Nat /\ PledgeOf(offer) \in Nat
  BY <1>1, SumsTyped, ValueFacts
<1> QED BY <1>2, <1>4, <1>6, <1>7, <1>8

LEMMA FeeNat == ASSUME NEW price \in Nat, NEW amount \in Nat PROVE Fee(price, amount) \in Nat
<1>1. price * amount \in Nat
  BY TimesNat
<1>2. (price * amount) \div 100 \in Nat
  BY <1>1
<1> DEFINE n == (price * amount) \div 100
<1> HIDE DEF n
<1>3. n % Word \in Nat
  BY <1>2, MarketAssumption DEF n
<1>4. Fee(price, amount) = Larger(MinFee, Smaller(MaxFee, n % Word))
  BY DEF Fee, n
<1> QED BY <1>3, <1>4, MarketAssumption DEF Larger, Smaller

LEMMA ProductFacts ==
    ASSUME NEW price \in Nat, NEW amount \in Nat
    PROVE  /\ Product(price, amount) \in Nat
           /\ Wrapped(price, amount) = {} => Product(price, amount) = price * amount
           /\ Wrapped(price, amount) \subseteq {"wrapped"}
<1>1. price * amount \in Nat
  BY TimesNat
<1>2. Product(price, amount) \in Nat
  BY <1>1, MarketAssumption DEF Product
<1> QED BY <1>2 DEF Wrapped

\* The share of the depot, and what goes of the stash.
LEMMA PiecesTaken ==
    ASSUME NEW p \in Merchants, NEW amount \in Nat, stock \in Shares, stash \in Shares,
           TakePieces(p, amount)
    PROVE  LET left == FromDepot(p, amount)
           IN  /\ left \in Nat /\ left <= amount /\ left <= stock[p] /\ stash' \in Shares
               /\ StashLost(p, amount) = {} => stash' = stash
               /\ amount # 0 /\ StashPaid(p, amount) = {} => stash' = stash /\ left = amount
               /\ StashLost(p, amount) \subseteq {"stash"} /\ StashPaid(p, amount) \subseteq {"stash"}
<1> DEFINE left == FromDepot(p, amount)
           a == Smaller(left, stash[p])
<1>1. stock[p] \in Nat /\ stash[p] \in Nat
  BY DEF Shares
<1>2. left \in Nat /\ left <= amount /\ (left = amount /\ amount # 0 => stash[p] = 0)
  BY <1>1 DEF FromDepot, Smaller
<1>3. left <= stock[p] /\ stash' = [stash EXCEPT ![p] = stash[p] - a]
  BY <1>1, <1>2 DEF TakePieces
<1> HIDE DEF left
<1>4. a \in Nat /\ a <= stash[p]
  BY <1>1, <1>2 DEF Smaller
<1>5. /\ StashLost(p, amount) = {} => a = 0
      /\ StashPaid(p, amount) = {} => left = amount
      /\ StashLost(p, amount) \subseteq {"stash"} /\ StashPaid(p, amount) \subseteq {"stash"}
  BY <1>4 DEF StashLost, StashPaid, left
<1>6. stash[p] = 0 => a = 0
  BY <1>4
<1> HIDE DEF a
<1>7. stash' \in Shares /\ (a = 0 => stash' = stash)
  BY <1>1, <1>3, <1>4 DEF Shares
<1> QED BY <1>2, <1>3, <1>5, <1>6, <1>7 DEF left

-----------------------------------------------------------------------------
(* The steps. *)

\* What a step has to keep.
LEMMA MarketStep ==
    ASSUME Typed, Kept, Typed',
           excused' = {} =>
              /\ MoneyOf(purse', bank', fees', offers') = MoneyOf(purse, bank, fees, offers)
              /\ PiecesOf(stock', stash', offers') = PiecesOf(stock, stash, offers)
    PROVE  MarketInv'
BY DEF MarketInv, Kept

\* A request that ends with a statement on table market_offers.
LEMMA WrittenKeeps ==
    ASSUME Typed, Kept, excused = {}, NEW o \in Tables, NEW e \in SUBSET {"wrapped", "stash"}, Written(o, e),
           purse' \in Shares, bank' \in Shares, stock' \in Shares, stash' \in Shares, fees' \in Nat,
           nextId' \in Nat, nextId' >= nextId, checks' = checks,
           \A j \in OfferIds : j >= nextId' => o[j] = NoRow,
           e = {} => /\ MoneyOf(purse', bank', fees', o) = MoneyOf(purse, bank, fees, offers)
                     /\ PiecesOf(stock', stash', o) = PiecesOf(stock, stash, offers)
    PROVE  MarketInv'
<1>1. nextId \in Nat /\ offers \in Tables /\ OfferIds \subseteq Nat
      /\ \A j \in OfferIds : j >= nextId => offers[j] = NoRow
  BY MarketAssumption DEF Typed
<1>2. \A j \in OfferIds : j >= nextId' => j >= nextId
  BY <1>1
<1>3. checks' \in Seq(Check) /\ Len(checks') <= MaxChecks /\ Answers'
  BY DEF Typed, Answers
<1>4. CASE offers' = o /\ excused' = e
  <2>1. Typed'
    BY <1>3, <1>4 DEF Typed, Inexact
  <2> QED BY <1>4, <2>1, MarketStep
<1>5. CASE offers' = offers /\ excused' = e \cup {"unwritten"}
  <2>1. \A j \in OfferIds : j >= nextId' => offers'[j] = NoRow
    BY <1>1, <1>2, <1>5
  <2>2. Typed'
    BY <1>1, <1>3, <1>5, <2>1 DEF Typed, Inexact
  <2> QED BY <1>5, <2>2, MarketStep
<1> QED BY <1>4, <1>5 DEF Written

LEMMA CreateSellKeeps ==
    ASSUME Typed, Kept, NEW p \in Merchants, NEW price \in Prices, NEW amount \in Amounts,
           excused = {}, CreateSell(p, price, amount)
    PROVE  MarketInv'
<1> DEFINE left == FromDepot(p, amount)
           fee == Fee(price, amount)
           offer == [player |-> p, sale |-> TRUE, amount |-> left, price |-> price]
<1>1. price \in Nat /\ amount \in Nat
  BY MarketAssumption
<1>a. PICK o : o = [offers EXCEPT ![nextId] = offer]
  OBVIOUS
<1>2. /\ fee <= bank[p] + purse[p] /\ TakePieces(p, amount)
      /\ stock' = [stock EXCEPT ![p] = stock[p] - left]
      /\ removeMoney(p, fee) /\ fees' = fees + fee
      /\ nextId \in OfferIds /\ nextId' = nextId + 1 /\ o = [offers EXCEPT ![nextId] = offer]
      /\ Written(o, StashLost(p, amount)) /\ checks' = checks
  BY <1>a DEF CreateSell, InsertRow
<1>3. /\ purse \in Shares /\ bank \in Shares /\ stock \in Shares /\ stash \in Shares /\ fees \in Nat
      /\ offers \in Tables
  BY DEF Typed
<1>4. fee \in Nat
  BY <1>1, FeeNat
<1> HIDE DEF fee
<1>5. /\ left \in Nat /\ left <= stock[p] /\ stash' \in Shares
      /\ StashLost(p, amount) = {} => stash' = stash
      /\ StashLost(p, amount) \subseteq {"stash"}
  BY <1>1, <1>2, <1>3, PiecesTaken
<1> HIDE DEF left
<1>6. offer \in Row /\ offer.sale = TRUE /\ offer.amount = left
  BY <1>5 DEF Row
<1> HIDE DEF offer
<1>7. DepositOf(offer) = 0 /\ PledgeOf(offer) = left
  BY <1>6, RowFacts DEF DepositOf, PledgeOf
<1>8. /\ purse' \in Shares /\ bank' \in Shares
      /\ SumFunction(purse') + SumFunction(bank') = SumFunction(purse) + SumFunction(bank) - fee
  BY <1>2, <1>3, <1>4, MoneyRemoved
<1>9. /\ o \in Tables /\ nextId' \in Nat
      /\ \A id \in OfferIds : id >= nextId' => o[id] = NoRow
      /\ SumFunction(Deposits(o)) = SumFunction(Deposits(offers)) + DepositOf(offer)
      /\ SumFunction(Pledges(o)) = SumFunction(Pledges(offers)) + PledgeOf(offer)
  BY <1>2, <1>6, RowInserted
<1>10. /\ stock' \in Shares /\ stock[p] \in Nat /\ stock'[p] = stock[p] - left
       /\ \A q \in Merchants : q # p => stock'[q] = stock[q]
  BY <1>2, <1>3, <1>5 DEF Shares
<1>11. SumFunction(stock') = SumFunction(stock) - stock[p] + stock'[p]
  BY <1>3, <1>10, OneShare DEF Shares
<1>12. fees' \in Nat /\ nextId \in Nat /\ nextId' >= nextId
  BY <1>2, <1>3, <1>4 DEF Typed
<1>13. /\ SumFunction(purse) \in Int /\ SumFunction(bank) \in Int /\ SumFunction(stock) \in Int
       /\ SumFunction(stash) \in Int /\ SumFunction(purse') \in Int /\ SumFunction(bank') \in Int
       /\ SumFunction(Deposits(offers)) \in Int /\ SumFunction(Pledges(offers)) \in Int
  BY <1>3, <1>8, SumsTyped DEF Shares
<1>14. MoneyOf(purse', bank', fees', o) = MoneyOf(purse, bank, fees, offers)
  BY <1>2, <1>3, <1>4, <1>7, <1>8, <1>9, <1>13 DEF MoneyOf
<1>15. ASSUME StashLost(p, amount) = {} PROVE PiecesOf(stock', stash', o) = PiecesOf(stock, stash, offers)
  <2>1. stash' = stash
    BY <1>2, <1>5, <1>15
  <2> QED BY <2>1, <1>5, <1>7, <1>9, <1>10, <1>11, <1>13 DEF PiecesOf
<1> QED BY <1>2, <1>5, <1>8, <1>9, <1>10, <1>12, <1>14, <1>15, WrittenKeeps

LEMMA CreateBuyKeeps ==
    ASSUME Typed, Kept, NEW p \in Merchants, NEW price \in Prices, NEW amount \in Amounts,
           excused = {}, CreateBuy(p, price, amount)
    PROVE  MarketInv'
<1> DEFINE fee == Fee(price, amount)
           prod == Product(price, amount)
           offer == [player |-> p, sale |-> FALSE, amount |-> amount, price |-> price]
<1>1. price \in Nat /\ amount \in Nat
  BY MarketAssumption
<1>a. PICK o : o = [offers EXCEPT ![nextId] = offer]
  OBVIOUS
<1>2. /\ prod + fee <= bank[p] + purse[p]
      /\ removeMoney(p, prod + fee) /\ fees' = fees + fee
      /\ nextId \in OfferIds /\ nextId' = nextId + 1 /\ o = [offers EXCEPT ![nextId] = offer]
      /\ Written(o, Wrapped(price, amount)) /\ checks' = checks /\ stock' = stock /\ stash' = stash
  BY <1>a DEF CreateBuy, InsertRow
<1>3. /\ purse \in Shares /\ bank \in Shares /\ stock \in Shares /\ stash \in Shares /\ fees \in Nat
      /\ offers \in Tables
  BY DEF Typed
<1>4. fee \in Nat
  BY <1>1, FeeNat
<1>5. /\ prod \in Nat /\ Wrapped(price, amount) \subseteq {"wrapped"}
      /\ Wrapped(price, amount) = {} => prod = price * amount
  BY <1>1, ProductFacts
<1> HIDE DEF fee, prod
<1>6. offer \in Row /\ offer.sale = FALSE /\ offer.amount = amount /\ offer.price = price
  BY <1>1 DEF Row
<1> HIDE DEF offer
<1>7. DepositOf(offer) = price * amount /\ PledgeOf(offer) = 0 /\ price * amount \in Nat
  BY <1>1, <1>6, RowFacts, TimesNat DEF DepositOf, PledgeOf
<1>8. /\ purse' \in Shares /\ bank' \in Shares
      /\ SumFunction(purse') + SumFunction(bank') = SumFunction(purse) + SumFunction(bank) - (prod + fee)
  BY <1>2, <1>3, <1>4, <1>5, MoneyRemoved
<1>9. /\ o \in Tables /\ nextId' \in Nat
      /\ \A id \in OfferIds : id >= nextId' => o[id] = NoRow
      /\ SumFunction(Deposits(o)) = SumFunction(Deposits(offers)) + DepositOf(offer)
      /\ SumFunction(Pledges(o)) = SumFunction(Pledges(offers)) + PledgeOf(offer)
  BY <1>2, <1>6, RowInserted
<1>10. fees' \in Nat /\ nextId \in Nat /\ nextId' >= nextId
  BY <1>2, <1>3, <1>4 DEF Typed
<1>11. /\ SumFunction(purse) \in Int /\ SumFunction(bank) \in Int /\ SumFunction(stock) \in Int
       /\ SumFunction(stash) \in Int /\ SumFunction(purse') \in Int /\ SumFunction(bank') \in Int
       /\ SumFunction(Deposits(offers)) \in Int /\ SumFunction(Pledges(offers)) \in Int
  BY <1>3, <1>8, SumsTyped DEF Shares
<1>12. ASSUME Wrapped(price, amount) = {} PROVE MoneyOf(purse', bank', fees', o) = MoneyOf(purse, bank, fees, offers)
  <2>1. prod = price * amount
    BY <1>2, <1>5, <1>12
  <2> DEFINE pa == price * amount
  <2> HIDE DEF pa
  <2>2. prod = pa /\ DepositOf(offer) = pa /\ pa \in Nat
    BY <2>1, <1>7 DEF pa
  <2> QED BY <2>2, <1>2, <1>3, <1>4, <1>8, <1>9, <1>11 DEF MoneyOf
<1>13. PiecesOf(stock', stash', o) = PiecesOf(stock, stash, offers)
  BY <1>2, <1>7, <1>9, <1>11 DEF PiecesOf
<1> QED BY <1>2, <1>3, <1>5, <1>8, <1>9, <1>10, <1>12, <1>13, WrittenKeeps

\* An offer that is cancelled gives back what waits in it.
LEMMA CancelKeeps ==
    ASSUME Typed, Kept, NEW p \in Merchants, NEW id \in OfferIds, excused = {}, Cancel(p, id)
    PROVE  MarketInv'
<1> DEFINE offer == offers[id]
<1>1. /\ purse \in Shares /\ bank \in Shares /\ stock \in Shares /\ stash \in Shares /\ fees \in Nat
      /\ offers \in Tables /\ nextId \in Nat
      /\ \A j \in OfferIds : j >= nextId => offers[j] = NoRow
  BY DEF Typed
<1>a. PICK o : o = [offers EXCEPT ![id] = NoRow]
  OBVIOUS
<1>2. /\ offer # NoRow /\ offer.player = p
      /\ bank' = (IF offer.sale THEN bank ELSE [bank EXCEPT ![p] = bank[p] + offer.price * offer.amount])
      /\ stock' = (IF offer.sale THEN [stock EXCEPT ![p] = stock[p] + Delivered(offer.amount)] ELSE stock)
      /\ o = [offers EXCEPT ![id] = NoRow] /\ Written(o, {})
      /\ UNCHANGED <<purse, stash, nextId, checks, fees>>
  BY <1>a DEF Cancel, WithoutRow
<1>3. offer \in Row
  BY <1>1, <1>2 DEF Tables
<1>4. /\ o \in Tables /\ o[id] = NoRow /\ \A j \in OfferIds : j # id => o[j] = offers[j]
  BY <1>1, <1>2 DEF Tables
<1>5. \A j \in OfferIds : j >= nextId => o[j] = NoRow
  BY <1>1, <1>4
<1>6. DepositOf(NoRow) = 0 /\ PledgeOf(NoRow) = 0
  BY DEF DepositOf, PledgeOf
<1>7. /\ SumFunction(Deposits(o)) = SumFunction(Deposits(offers)) - DepositOf(offer) + 0
      /\ SumFunction(Pledges(o)) = SumFunction(Pledges(offers)) - PledgeOf(offer) + 0
  <2>1. /\ SumFunction(Deposits(o)) =
              SumFunction(Deposits(offers)) - DepositOf(offers[id]) + DepositOf(o[id])
        /\ SumFunction(Pledges(o)) =
              SumFunction(Pledges(offers)) - PledgeOf(offers[id]) + PledgeOf(o[id])
    BY <1>1, <1>4, OneRow
  <2> QED BY <2>1, <1>4, <1>6
<1> HIDE DEF offer
<1>8. /\ offer.sale \in BOOLEAN /\ offer.amount \in Nat /\ offer.price \in Nat
      /\ Delivered(offer.amount) = offer.amount
  BY <1>3, RowFacts, DeliveredIs
<1>9. /\ DepositOf(offer) \in Nat /\ PledgeOf(offer) \in Nat
      /\ DepositOf(offer) = (IF offer.sale THEN 0 ELSE offer.price * offer.amount)
      /\ PledgeOf(offer) = (IF offer.sale THEN offer.amount ELSE 0)
  <2>1. DepositOf(offer) \in Nat /\ PledgeOf(offer) \in Nat
    BY <1>3, ValueFacts
  <2> QED BY <2>1, <1>2, <1>8 DEF DepositOf, PledgeOf
<1>10. bank[p] \in Nat /\ stock[p] \in Nat
  BY <1>1 DEF Shares
<1>11. /\ bank' \in Shares /\ bank'[p] = bank[p] + DepositOf(offer)
       /\ \A q \in Merchants : q # p => bank'[q] = bank[q]
  <2>1. CASE offer.sale
    BY <2>1, <1>1, <1>2, <1>9, <1>10
  <2>2. CASE ~offer.sale
    <3> DEFINE d == offer.price * offer.amount
    <3>1. d \in Nat /\ bank' = [bank EXCEPT ![p] = bank[p] + d] /\ DepositOf(offer) = d
      BY <2>2, <1>2, <1>9
    <3> HIDE DEF d
    <3> QED BY <3>1, <1>1, <1>10 DEF Shares
  <2> QED BY <2>1, <2>2
<1>12. /\ stock' \in Shares /\ stock'[p] = stock[p] + PledgeOf(offer)
       /\ \A q \in Merchants : q # p => stock'[q] = stock[q]
  <2>1. CASE ~offer.sale
    BY <2>1, <1>1, <1>2, <1>9, <1>10
  <2>2. CASE offer.sale
    <3>1. stock' = [stock EXCEPT ![p] = stock[p] + offer.amount] /\ PledgeOf(offer) = offer.amount
      BY <2>2, <1>2, <1>8, <1>9
    <3> QED BY <3>1, <1>1, <1>8, <1>10 DEF Shares
  <2> QED BY <2>1, <2>2
<1>13. /\ SumFunction(bank') = SumFunction(bank) - bank[p] + bank'[p]
       /\ SumFunction(stock') = SumFunction(stock) - stock[p] + stock'[p]
  BY <1>1, <1>11, <1>12, OneShare DEF Shares
<1>15. /\ SumFunction(purse) \in Int /\ SumFunction(bank) \in Int /\ SumFunction(stock) \in Int
       /\ SumFunction(stash) \in Int
       /\ SumFunction(Deposits(offers)) \in Int /\ SumFunction(Pledges(offers)) \in Int
  BY <1>1, SumsTyped DEF Shares
<1>16. MoneyOf(purse', bank', fees', o) = MoneyOf(purse, bank, fees, offers)
  BY <1>1, <1>2, <1>7, <1>9, <1>10, <1>11, <1>13, <1>15 DEF MoneyOf
<1>17. PiecesOf(stock', stash', o) = PiecesOf(stock, stash, offers)
  BY <1>2, <1>7, <1>9, <1>10, <1>12, <1>13, <1>15 DEF PiecesOf
<1>18. nextId' \in Nat /\ nextId' >= nextId /\ \A j \in OfferIds : j >= nextId' => o[j] = NoRow
  BY <1>1, <1>2, <1>5
<1> QED BY <1>1, <1>2, <1>4, <1>11, <1>12, <1>16, <1>17, <1>18, WrittenKeeps

\* An offer is accepted in part or as a whole.
LEMMA RowReduced ==
    ASSUME NEW id \in OfferIds, offers \in Tables, offers[id] # NoRow, NEW n \in Nat,
           n <= offers[id].amount, NEW o, o = Reduced(id, n)
    PROVE  LET offer == offers[id]
           IN  /\ o \in Tables /\ \A j \in OfferIds : offers[j] = NoRow => o[j] = NoRow
               /\ SumFunction(Deposits(o)) =
                     SumFunction(Deposits(offers)) - (IF offer.sale THEN 0 ELSE offer.price * n)
               /\ SumFunction(Pledges(o)) =
                     SumFunction(Pledges(offers)) - (IF offer.sale THEN n ELSE 0)
<1> DEFINE offer == offers[id]
           new == IF offer.amount = n THEN NoRow ELSE [offer EXCEPT !.amount = offer.amount - n]
<1>1. offer \in Row
  BY DEF Tables
<1>2. o = [offers EXCEPT ![id] = new]
  BY DEF Reduced, WithoutRow
<1>3. offer # NoRow /\ offer.sale \in BOOLEAN /\ offer.amount \in Nat /\ offer.price \in Nat
  BY <1>1, RowFacts
<1> DEFINE d == offer.price * n
           e == offer.price * offer.amount
           less == [offer EXCEPT !.amount = offer.amount - n]
<1>4. d \in Nat /\ e \in Nat
  BY <1>3, TimesNat
<1>5. offer.price * (offer.amount - n) = e - d
  BY <1>3, TimesMinus
<1>6. /\ new \in Row \cup {NoRow}
      /\ DepositOf(new) = DepositOf(offer) - (IF offer.sale THEN 0 ELSE d)
      /\ PledgeOf(new) = PledgeOf(offer) - (IF offer.sale THEN n ELSE 0)
  <2>0. DepositOf(offer) = (IF offer.sale THEN 0 ELSE e) /\ PledgeOf(offer) = (IF offer.sale THEN offer.amount ELSE 0)
    BY <1>3 DEF DepositOf, PledgeOf
  <2>1. CASE offer.amount = n
    <3>1. new = NoRow /\ d = e /\ DepositOf(NoRow) = 0 /\ PledgeOf(NoRow) = 0
      BY <2>1 DEF DepositOf, PledgeOf
    <3> HIDE DEF new, d, e
    <3> QED BY <2>0, <2>1, <3>1, <1>3, <1>4
  <2>2. CASE offer.amount # n
    <3>1. new = less
      BY <2>2
    <3>2. less \in Row /\ less.sale = offer.sale /\ less.amount = offer.amount - n /\ less.price = offer.price
      <4> HIDE DEF offer
      <4> QED BY <1>1, <1>3 DEF Row, offer
    <3> HIDE DEF new, less
    <3>3. less # NoRow
      BY <3>2, RowFacts
    <3>4. DepositOf(less) = (IF offer.sale THEN 0 ELSE offer.price * (offer.amount - n))
      BY <3>2, <3>3 DEF DepositOf
    <3>5. PledgeOf(less) = (IF offer.sale THEN offer.amount - n ELSE 0)
      BY <3>2, <3>3, <1>3 DEF PledgeOf
    <3> HIDE DEF d, e
    <3> QED BY <2>0, <3>1, <3>2, <3>4, <3>5, <1>3, <1>4, <1>5
  <2> QED BY <2>1, <2>2
<1> HIDE DEF new, d, e
<1>7. /\ o \in Tables /\ o[id] = new /\ \A j \in OfferIds : j # id => o[j] = offers[j]
  BY <1>2, <1>6 DEF Tables
<1>8. \A j \in OfferIds : offers[j] = NoRow => o[j] = NoRow
  BY <1>7
<1>9. /\ SumFunction(Deposits(o)) =
            SumFunction(Deposits(offers)) - DepositOf(offers[id]) + DepositOf(o[id])
      /\ SumFunction(Pledges(o)) =
            SumFunction(Pledges(offers)) - PledgeOf(offers[id]) + PledgeOf(o[id])
  BY <1>7, OneRow
<1>10. /\ SumFunction(Deposits(offers)) \in Int /\ SumFunction(Pledges(offers)) \in Int
       /\ DepositOf(offer) \in Nat /\ PledgeOf(offer) \in Nat
  BY <1>1, SumsTyped, ValueFacts
<1>11. /\ SumFunction(Deposits(o)) = SumFunction(Deposits(offers)) - (IF offer.sale THEN 0 ELSE d)
       /\ SumFunction(Pledges(o)) = SumFunction(Pledges(offers)) - (IF offer.sale THEN n ELSE 0)
  BY <1>3, <1>4, <1>6, <1>7, <1>9, <1>10
<1> QED BY <1>7, <1>8, <1>11 DEF d

\* What one player has more, another one has less.
LEMMA TwoShares ==
    ASSUME NEW f \in Shares, NEW g \in Shares, NEW p \in Merchants, NEW q \in Merchants, p # q,
           \A r \in Merchants : r # p /\ r # q => g[r] = f[r]
    PROVE  SumFunction(g) = SumFunction(f) - f[p] + g[p] - f[q] + g[q]
<1> DEFINE h == [f EXCEPT ![p] = g[p]]
<1>1. f[p] \in Nat /\ f[q] \in Nat /\ g[p] \in Nat /\ g[q] \in Nat
  BY DEF Shares
<1>2. h \in [Merchants -> Nat] /\ h[p] = g[p] /\ h[q] = f[q] /\ \A r \in Merchants : r # p => h[r] = f[r]
  BY <1>1 DEF Shares
<1>3. f \in [Merchants -> Nat] /\ g \in [Merchants -> Nat]
  BY DEF Shares
<1> HIDE DEF h
<1>4. \A r \in Merchants : r # q => g[r] = h[r]
  BY <1>2
<1>5. SumFunction(h) = SumFunction(f) - f[p] + h[p]
  BY <1>2, <1>3, OneShare
<1>6. SumFunction(g) = SumFunction(h) - h[q] + g[q]
  BY <1>2, <1>3, <1>4, OneShare
<1>7. SumFunction(f) \in Int
  BY <1>3, SumsTyped
<1> QED BY <1>1, <1>2, <1>5, <1>6, <1>7

\* Selling to a buy offer: the deposit pays, the pieces change hands.
LEMMA AcceptBuyKeeps ==
    ASSUME Typed, Kept, NEW p \in Merchants, NEW id \in OfferIds, NEW amount \in Amounts,
           excused = {}, AcceptBuy(p, id, amount)
    PROVE  MarketInv'
<1> DEFINE offer == offers[id]
           left == FromDepot(p, amount)
           prod == Product(offer.price, amount)
           d == offer.price * left
<1>0. amount \in Nat /\ amount # 0
  BY MarketAssumption
<1>1. /\ purse \in Shares /\ bank \in Shares /\ stock \in Shares /\ stash \in Shares /\ fees \in Nat
      /\ offers \in Tables /\ nextId \in Nat
      /\ \A j \in OfferIds : j >= nextId => offers[j] = NoRow
  BY DEF Typed
<1>a. PICK o : o = Reduced(id, left)
  OBVIOUS
<1>2. /\ offer # NoRow /\ ~offer.sale /\ offer.player # p /\ amount <= offer.amount
      /\ TakePieces(p, amount)
      /\ stock' = [stock EXCEPT ![p] = stock[p] - left, ![offer.player] = @ + Delivered(left)]
      /\ bank' = [bank EXCEPT ![p] = bank[p] + prod]
      /\ o = Reduced(id, left) /\ Written(o, Wrapped(offer.price, amount) \cup StashPaid(p, amount))
      /\ UNCHANGED <<purse, nextId, checks, fees>>
  BY <1>a DEF AcceptBuy
<1>3. offer \in Row
  BY <1>1, <1>2 DEF Tables
<1>4. /\ offer.sale \in BOOLEAN /\ offer.amount \in Nat /\ offer.price \in Nat /\ offer.player \in Merchants
  BY <1>3, RowFacts
<1>5. /\ left \in Nat /\ left <= amount /\ left <= stock[p] /\ stash' \in Shares
      /\ StashPaid(p, amount) = {} => stash' = stash /\ left = amount
      /\ StashPaid(p, amount) \subseteq {"stash"}
  BY <1>0, <1>1, <1>2, PiecesTaken
<1>6. /\ prod \in Nat /\ Wrapped(offer.price, amount) \subseteq {"wrapped"}
      /\ Wrapped(offer.price, amount) = {} => prod = offer.price * amount
  BY <1>0, <1>4, ProductFacts
<1> HIDE DEF left, prod
<1>7. /\ o \in Tables /\ \A j \in OfferIds : offers[j] = NoRow => o[j] = NoRow
      /\ SumFunction(Deposits(o)) = SumFunction(Deposits(offers)) - d
      /\ SumFunction(Pledges(o)) = SumFunction(Pledges(offers)) - 0
  <2>1. left <= offer.amount
    BY <1>0, <1>2, <1>4, <1>5
  <2>2. /\ o \in Tables /\ \A j \in OfferIds : offers[j] = NoRow => o[j] = NoRow
        /\ SumFunction(Deposits(o)) =
              SumFunction(Deposits(offers)) - (IF offers[id].sale THEN 0 ELSE offers[id].price * left)
        /\ SumFunction(Pledges(o)) =
              SumFunction(Pledges(offers)) - (IF offers[id].sale THEN left ELSE 0)
    BY <2>1, <1>1, <1>2, <1>5, RowReduced
  <2> QED BY <2>2, <1>2
<1> HIDE DEF offer, d
<1>8. Delivered(left) = left
  BY <1>5, DeliveredIs
<1>9. stock' \in Shares /\ SumFunction(stock') = SumFunction(stock) - left + left
  <2>1. stock' = [stock EXCEPT ![p] = stock[p] - left, ![offer.player] = stock[offer.player] + left]
    BY <1>1, <1>2, <1>4, <1>8 DEF Shares
  <2>2. stock[p] \in Nat /\ stock[offer.player] \in Nat
    BY <1>1, <1>4 DEF Shares
  <2>3. /\ stock' \in Shares /\ stock'[p] = stock[p] - left
        /\ stock'[offer.player] = stock[offer.player] + left
        /\ \A r \in Merchants : r # p /\ r # offer.player => stock'[r] = stock[r]
    BY <2>1, <2>2, <1>1, <1>2, <1>4, <1>5 DEF Shares
  <2>4. SumFunction(stock') =
           SumFunction(stock) - stock[p] + stock'[p] - stock[offer.player] + stock'[offer.player]
    <3>1. stock \in Shares /\ offer.player \in Merchants /\ p # offer.player
      BY <1>1, <1>2, <1>4
    <3> QED BY <3>1, <2>3, TwoShares
  <2>5. SumFunction(stock) \in Int
    BY <1>1, SumsTyped DEF Shares
  <2> QED BY <2>2, <2>3, <2>4, <2>5, <1>5
<1>10. /\ bank' \in Shares /\ bank[p] \in Nat /\ bank'[p] = bank[p] + prod
       /\ \A q \in Merchants : q # p => bank'[q] = bank[q]
  BY <1>1, <1>2, <1>6 DEF Shares
<1>11. SumFunction(bank') = SumFunction(bank) - bank[p] + bank'[p]
  BY <1>1, <1>10, OneShare DEF Shares
<1>12. nextId' \in Nat /\ nextId' >= nextId /\ \A j \in OfferIds : j >= nextId' => o[j] = NoRow
  BY <1>1, <1>2, <1>7
<1>13. /\ SumFunction(purse) \in Int /\ SumFunction(bank) \in Int /\ SumFunction(stock) \in Int
       /\ SumFunction(stash) \in Int
       /\ SumFunction(Deposits(offers)) \in Int /\ SumFunction(Pledges(offers)) \in Int
  BY <1>1, SumsTyped DEF Shares
<1>14. ASSUME Wrapped(offer.price, amount) \cup StashPaid(p, amount) = {}
       PROVE  /\ MoneyOf(purse', bank', fees', o) = MoneyOf(purse, bank, fees, offers)
              /\ PiecesOf(stock', stash', o) = PiecesOf(stock, stash, offers)
  <2>1. stash' = stash /\ left = amount /\ prod = offer.price * amount
    BY <1>5, <1>6, <1>14
  <2>2. prod = d
    BY <2>1 DEF d
  <2>3. MoneyOf(purse', bank', fees', o) = MoneyOf(purse, bank, fees, offers)
    BY <2>2, <1>1, <1>2, <1>6, <1>7, <1>10, <1>11, <1>13 DEF MoneyOf
  <2>4. PiecesOf(stock', stash', o) = PiecesOf(stock, stash, offers)
    BY <2>1, <1>0, <1>7, <1>9, <1>13 DEF PiecesOf
  <2> QED BY <2>3, <2>4
<1>15. Wrapped(offer.price, amount) \cup StashPaid(p, amount) \in SUBSET {"wrapped", "stash"}
  BY <1>5, <1>6
<1> QED BY <1>1, <1>2, <1>5, <1>7, <1>9, <1>10, <1>12, <1>14, <1>15, WrittenKeeps

\* Buying from a sell offer: the money changes hands, the pledge is handed over.
LEMMA AcceptSellKeeps ==
    ASSUME Typed, Kept, NEW p \in Merchants, NEW id \in OfferIds, NEW amount \in Amounts,
           excused = {}, AcceptSell(p, id, amount)
    PROVE  MarketInv'
<1> DEFINE offer == offers[id]
           total == Product(offer.price, amount)
           a == Smaller(bank[p], total)
<1>0. amount \in Nat
  BY MarketAssumption
<1>1. /\ purse \in Shares /\ bank \in Shares /\ stock \in Shares /\ stash \in Shares /\ fees \in Nat
      /\ offers \in Tables /\ nextId \in Nat
      /\ \A j \in OfferIds : j >= nextId => offers[j] = NoRow
  BY DEF Typed
<1>a. PICK o : o = Reduced(id, amount)
  OBVIOUS
<1>2. /\ offer # NoRow /\ offer.sale /\ offer.player # p /\ amount <= offer.amount
      /\ total <= bank[p] + purse[p]
      /\ bank' = [bank EXCEPT ![p] = bank[p] - a, ![offer.player] = @ + total]
      /\ purse' = [purse EXCEPT ![p] = purse[p] - (total - a)]
      /\ stock' = [stock EXCEPT ![p] = stock[p] + Delivered(amount)]
      /\ o = Reduced(id, amount) /\ Written(o, {})
      /\ UNCHANGED <<stash, nextId, checks, fees>>
  BY <1>a DEF AcceptSell
<1>3. offer \in Row
  BY <1>1, <1>2 DEF Tables
<1>4. /\ offer.sale \in BOOLEAN /\ offer.amount \in Nat /\ offer.price \in Nat /\ offer.player \in Merchants
  BY <1>3, RowFacts
<1>5. total \in Nat
  BY <1>0, <1>4, ProductFacts
<1> HIDE DEF total
<1>6. bank[p] \in Nat /\ purse[p] \in Nat /\ stock[p] \in Nat
  BY <1>1 DEF Shares
<1>7. a \in Nat /\ a <= bank[p] /\ a <= total /\ total - a <= purse[p]
  BY <1>2, <1>5, <1>6 DEF Smaller
<1> HIDE DEF a
<1>8. /\ o \in Tables /\ \A j \in OfferIds : offers[j] = NoRow => o[j] = NoRow
      /\ SumFunction(Deposits(o)) = SumFunction(Deposits(offers)) - 0
      /\ SumFunction(Pledges(o)) = SumFunction(Pledges(offers)) - amount
  <2>1. /\ o \in Tables /\ \A j \in OfferIds : offers[j] = NoRow => o[j] = NoRow
        /\ SumFunction(Deposits(o)) =
              SumFunction(Deposits(offers)) - (IF offers[id].sale THEN 0 ELSE offers[id].price * amount)
        /\ SumFunction(Pledges(o)) =
              SumFunction(Pledges(offers)) - (IF offers[id].sale THEN amount ELSE 0)
    BY <1>0, <1>1, <1>2, RowReduced
  <2> QED BY <2>1, <1>2
<1> HIDE DEF offer
<1>9. bank' \in Shares /\ SumFunction(bank') = SumFunction(bank) - a + total
  <2>1. bank' = [bank EXCEPT ![p] = bank[p] - a, ![offer.player] = bank[offer.player] + total]
    BY <1>1, <1>2, <1>4 DEF Shares
  <2>2. bank[p] \in Nat /\ bank[offer.player] \in Nat
    BY <1>1, <1>4 DEF Shares
  <2>3. /\ bank' \in Shares /\ bank'[p] = bank[p] - a
        /\ bank'[offer.player] = bank[offer.player] + total
        /\ \A r \in Merchants : r # p /\ r # offer.player => bank'[r] = bank[r]
    BY <2>1, <2>2, <1>1, <1>2, <1>4, <1>5, <1>7 DEF Shares
  <2>4. SumFunction(bank') =
           SumFunction(bank) - bank[p] + bank'[p] - bank[offer.player] + bank'[offer.player]
    <3>1. bank \in Shares /\ offer.player \in Merchants /\ p # offer.player
      BY <1>1, <1>2, <1>4
    <3> QED BY <3>1, <2>3, TwoShares
  <2>5. SumFunction(bank) \in Int
    BY <1>1, SumsTyped DEF Shares
  <2> QED BY <2>2, <2>3, <2>4, <2>5, <1>5, <1>7
<1>10. /\ purse' \in Shares /\ purse'[p] = purse[p] - (total - a)
       /\ \A q \in Merchants : q # p => purse'[q] = purse[q]
  BY <1>1, <1>2, <1>5, <1>6, <1>7 DEF Shares
<1>11. /\ stock' \in Shares /\ stock'[p] = stock[p] + amount
       /\ \A q \in Merchants : q # p => stock'[q] = stock[q]
  <2>1. Delivered(amount) = amount
    BY <1>0, DeliveredIs
  <2> QED BY <2>1, <1>0, <1>1, <1>2, <1>6 DEF Shares
<1>12. /\ SumFunction(purse') = SumFunction(purse) - purse[p] + purse'[p]
       /\ SumFunction(stock') = SumFunction(stock) - stock[p] + stock'[p]
  BY <1>1, <1>10, <1>11, OneShare DEF Shares
<1>13. nextId' \in Nat /\ nextId' >= nextId /\ \A j \in OfferIds : j >= nextId' => o[j] = NoRow
  BY <1>1, <1>2, <1>8
<1>14. /\ SumFunction(purse) \in Int /\ SumFunction(bank) \in Int /\ SumFunction(stock) \in Int
       /\ SumFunction(stash) \in Int
       /\ SumFunction(Deposits(offers)) \in Int /\ SumFunction(Pledges(offers)) \in Int
  BY <1>1, SumsTyped DEF Shares
<1>15. MoneyOf(purse', bank', fees', o) = MoneyOf(purse, bank, fees, offers)
  BY <1>1, <1>2, <1>5, <1>6, <1>7, <1>8, <1>9, <1>10, <1>12, <1>14 DEF MoneyOf
<1>16. PiecesOf(stock', stash', o) = PiecesOf(stock, stash, offers)
  BY <1>0, <1>2, <1>6, <1>8, <1>11, <1>12, <1>14 DEF PiecesOf
<1> QED BY <1>1, <1>2, <1>8, <1>9, <1>10, <1>11, <1>13, <1>15, <1>16, WrittenKeeps

-----------------------------------------------------------------------------
(* Expiry: rows H of table o, for or not for sale, are given back to those *)
(* who made the offers, who have f; a row is worth v.                      *)

BackOf(H, p, sale) == {r \in H : r[2].player = p /\ r[2].sale = sale}
WorthOf(v, B) == [r \in B |-> v[r[2]]]
GivenBack(f, v, sale, H) == [p \in Merchants |-> f[p] + SumFunction(WorthOf(v, BackOf(H, p, sale)))]
RestOf(o, v, sale, H) ==
    [id \in OfferIds |-> IF (\E r \in H : r[1] = id) \/ o[id] = NoRow \/ o[id].sale # sale THEN 0
                         ELSE v[o[id]]]

LEMMA BackTyped ==
    ASSUME NEW H \in SUBSET (OfferIds \X Row), IsFiniteSet(H), NEW sale \in BOOLEAN,
           NEW v \in [Row -> Nat], NEW f \in Shares, NEW o \in Tables
    PROVE  /\ GivenBack(f, v, sale, H) \in Shares
           /\ RestOf(o, v, sale, H) \in [OfferIds -> Nat]
           /\ \A p \in Merchants : /\ IsFiniteSet(BackOf(H, p, sale))
                                   /\ WorthOf(v, BackOf(H, p, sale)) \in [BackOf(H, p, sale) -> Nat]
                                   /\ SumFunction(WorthOf(v, BackOf(H, p, sale))) \in Nat
<1>1. ASSUME NEW p \in Merchants
      PROVE  /\ IsFiniteSet(BackOf(H, p, sale))
             /\ WorthOf(v, BackOf(H, p, sale)) \in [BackOf(H, p, sale) -> Nat]
             /\ SumFunction(WorthOf(v, BackOf(H, p, sale))) \in Nat
  <2> DEFINE B == BackOf(H, p, sale)
  <2>1. B \subseteq H /\ \A r \in B : r[2] \in Row
    BY DEF BackOf
  <2> HIDE DEF B
  <2>2. IsFiniteSet(B)
    BY <2>1, FS_Subset
  <2>3. WorthOf(v, B) \in [B -> Nat]
    BY <2>1 DEF WorthOf
  <2>4. SumFunction(WorthOf(v, B)) \in Nat
    BY <2>2, <2>3, SumNat
  <2> QED BY <2>2, <2>3, <2>4 DEF B
<1>2. GivenBack(f, v, sale, H) \in Shares
  <2>1. \A p \in Merchants : f[p] + SumFunction(WorthOf(v, BackOf(H, p, sale))) \in Nat
    BY <1>1 DEF Shares
  <2> QED BY <2>1 DEF GivenBack, Shares
<1>3. RestOf(o, v, sale, H) \in [OfferIds -> Nat]
  <2>1. \A id \in OfferIds : o[id] # NoRow => v[o[id]] \in Nat
    BY DEF Tables
  <2> QED BY <2>1 DEF RestOf
<1> QED BY <1>1, <1>2, <1>3

\* One row more.
LEMMA GiveOne ==
    ASSUME NEW H \in SUBSET (OfferIds \X Row), IsFiniteSet(H), NEW sale \in BOOLEAN,
           NEW v \in [Row -> Nat], NEW f \in Shares, NEW o \in Tables,
           NEW a \in OfferIds \X Row, a \notin H, \A r \in H \cup {a} : o[r[1]] = r[2]
    PROVE  SumFunction(GivenBack(f, v, sale, H \cup {a})) + SumFunction(RestOf(o, v, sale, H \cup {a}))
             = SumFunction(GivenBack(f, v, sale, H)) + SumFunction(RestOf(o, v, sale, H))
<1> DEFINE K == H \cup {a}
           id == a[1]
           offer == a[2]
           p == offer.player
           F == GivenBack(f, v, sale, H)
           G == GivenBack(f, v, sale, K)
           R == RestOf(o, v, sale, H)
           Q == RestOf(o, v, sale, K)
<1>1. K \in SUBSET (OfferIds \X Row) /\ IsFiniteSet(K)
  BY FS_AddElement
<1>2. id \in OfferIds /\ offer \in Row /\ o[id] = offer /\ offer # NoRow /\ p \in Merchants /\ v[offer] \in Nat
  <2>1. id \in OfferIds /\ offer \in Row /\ o[id] = offer
    OBVIOUS
  <2> QED BY <2>1, RowFacts
<1>3. \A r \in H : r[1] # id
  <2> SUFFICES ASSUME NEW r \in H, r[1] = id PROVE FALSE
    OBVIOUS
  <2>1. r[2] = offer
    BY <1>2
  <2>2. r = a
    BY <2>1
  <2> QED BY <2>2
<1>4. F \in Shares /\ G \in Shares /\ R \in [OfferIds -> Nat] /\ Q \in [OfferIds -> Nat]
  BY <1>1, BackTyped
<1>5. \A j \in OfferIds : j # id => Q[j] = R[j]
  <2> SUFFICES ASSUME NEW j \in OfferIds, j # id PROVE Q[j] = R[j]
    OBVIOUS
  <2>1. (\E r \in K : r[1] = j) <=> (\E r \in H : r[1] = j)
    OBVIOUS
  <2> QED BY <2>1 DEF RestOf
<1>6. Q[id] = 0 /\ R[id] = (IF offer.sale # sale THEN 0 ELSE v[offer])
  <2>1. (\E r \in K : r[1] = id) /\ ~(\E r \in H : r[1] = id)
    BY <1>3
  <2> QED BY <2>1, <1>2 DEF RestOf
<1>7. \A q \in Merchants : q # p \/ offer.sale # sale => G[q] = F[q]
  <2> SUFFICES ASSUME NEW q \in Merchants, q # p \/ offer.sale # sale PROVE G[q] = F[q]
    OBVIOUS
  <2>1. BackOf(K, q, sale) = BackOf(H, q, sale)
    BY DEF BackOf
  <2> QED BY <2>1 DEF GivenBack
<1>8. offer.sale = sale => G[p] = F[p] + v[offer]
  <2> SUFFICES ASSUME offer.sale = sale PROVE G[p] = F[p] + v[offer]
    OBVIOUS
  <2> DEFINE B == BackOf(H, p, sale)
             w == WorthOf(v, B)
             u == WorthOf(v, B \cup {a})
  <2>1. BackOf(K, p, sale) = B \cup {a} /\ a \notin B
    BY DEF BackOf
  <2>2. G[p] = f[p] + SumFunction(u) /\ F[p] = f[p] + SumFunction(w)
    BY <2>1, <1>2 DEF GivenBack
  <2>3. IsFiniteSet(B) /\ u \in [B \cup {a} -> Nat]
    <3>1. /\ IsFiniteSet(B)
          /\ WorthOf(v, BackOf(K, p, sale)) \in [BackOf(K, p, sale) -> Nat]
      BY <1>1, <1>2, BackTyped
    <3> QED BY <3>1, <2>1
  <2>4. SumFunction(w) \in Nat
    BY <1>2, BackTyped
  <2>5. u[a] = v[offer] /\ w = [y \in B |-> u[y]]
    BY DEF WorthOf
  <2> HIDE DEF B, u, w
  <2>6. SumFunction(u) = SumFunction(w) + u[a]
    <3>1. u \in [B \cup {a} -> Int]
      BY <2>3
    <3> QED BY <3>1, <2>1, <2>3, <2>5, SumAdd
  <2>7. f[p] \in Nat
    BY <1>2 DEF Shares
  <2> QED BY <2>2, <2>4, <2>5, <2>6, <2>7, <1>2
<1> HIDE DEF F, G, R, Q, K
<1>9. SumFunction(G) = SumFunction(F) - F[p] + G[p]
  BY <1>2, <1>4, <1>7, OneShare DEF Shares
<1>10. SumFunction(Q) = SumFunction(R) - R[id] + Q[id]
  <2>1. IsFiniteSet(OfferIds) /\ R \in [OfferIds -> Int] /\ Q \in [OfferIds -> Int]
    BY <1>4, MarketAssumption
  <2> QED BY <2>1, <1>2, <1>5, SumChange
<1>11. /\ SumFunction(F) \in Int /\ SumFunction(R) \in Int /\ F[p] \in Nat /\ R[id] \in Nat
  <2>1. SumFunction(F) \in Int /\ F[p] \in Nat
    BY <1>2, <1>4, SumsTyped DEF Shares
  <2>2. SumFunction(R) \in Int
    <3>1. IsFiniteSet(OfferIds) /\ R \in [OfferIds -> Int]
      BY <1>4, MarketAssumption
    <3> QED BY <3>1, SumFacts
  <2> QED BY <2>1, <2>2, <1>2, <1>4
<1>12. CASE offer.sale = sale
  <2> HIDE DEF offer, id, p
  <2> QED BY <1>2, <1>6, <1>8, <1>9, <1>10, <1>11, <1>12 DEF F, G, R, Q, K
<1>13. CASE offer.sale # sale
  <2>1. G[p] = F[p]
    BY <1>2, <1>7, <1>13
  <2> HIDE DEF offer, id, p
  <2> QED BY <2>1, <1>6, <1>9, <1>10, <1>11, <1>13 DEF F, G, R, Q, K
<1> QED BY <1>12, <1>13

\* All of them.
LEMMA GiveAll ==
    ASSUME NEW H \in SUBSET (OfferIds \X Row), IsFiniteSet(H), NEW sale \in BOOLEAN,
           NEW v \in [Row -> Nat], NEW f \in Shares, NEW o \in Tables,
           \A r \in H : o[r[1]] = r[2]
    PROVE  SumFunction(GivenBack(f, v, sale, H)) + SumFunction(RestOf(o, v, sale, H))
             = SumFunction(f) + SumFunction(RestOf(o, v, sale, {}))
<1> DEFINE Sum(T) == SumFunction(GivenBack(f, v, sale, T)) + SumFunction(RestOf(o, v, sale, T))
           all == SumFunction(f) + SumFunction(RestOf(o, v, sale, {}))
           Bad == {n \in Nat : \E T \in SUBSET H : Cardinality(T) = n /\ Sum(T) # all}
<1>1. SUFFICES ASSUME Bad # {} PROVE FALSE
  <2>1. Cardinality(H) \in Nat
    BY FS_CardinalityType
  <2> HIDE DEF Sum, all
  <2>2. Sum(H) = all
    BY <2>1
  <2> QED BY <2>2 DEF Sum, all
<1>2. PICK n \in Bad : \A m \in Bad : n <= m
  BY <1>1, LeastOf
<1>3. PICK T \in SUBSET H : Cardinality(T) = n /\ Sum(T) # all
  BY <1>2
<1>4. T # {}
  <2> SUFFICES Sum({}) = all
    BY <1>3
  <2>1. ASSUME NEW p \in Merchants PROVE f[p] + SumFunction(WorthOf(v, BackOf({}, p, sale))) = f[p]
    <3>1. BackOf({}, p, sale) = {} /\ WorthOf(v, {}) \in [{} -> Int] /\ f[p] \in Nat
      BY DEF BackOf, WorthOf, Shares
    <3>2. SumFunction(WorthOf(v, {})) = 0
      BY <3>1, FS_EmptySet, SumFacts
    <3>3. SumFunction(WorthOf(v, BackOf({}, p, sale))) = 0
      BY <3>1, <3>2, Zenon
    <3> QED BY <3>1, <3>3
  <2>2. GivenBack(f, v, sale, {}) = f
    BY <2>1 DEF GivenBack, Shares
  <2> QED BY <2>2
<1>5. PICK a \in T : TRUE
  BY <1>4
<1> DEFINE R == T \ {a}
<1>6. IsFiniteSet(T) /\ Cardinality(R) = n - 1 /\ n \in Nat /\ Cardinality(R) \in Nat /\ IsFiniteSet(R)
  <2>1. IsFiniteSet(T) /\ IsFiniteSet(R)
    BY FS_Subset
  <2>2. Cardinality(R) = Cardinality(T) - 1
    BY <2>1, FS_RemoveElement
  <2> QED BY <2>1, <2>2, <1>2, <1>3, FS_CardinalityType
<1>7. Sum(R) = all
  <2> HIDE DEF Sum, all
  <2>1. n - 1 \notin Bad
    <3> HIDE DEF Bad
    <3> QED BY <1>2, <1>6
  <2> QED BY <2>1, <1>6
<1>8. Sum(T) = Sum(R)
  <2>1. /\ R \in SUBSET (OfferIds \X Row) /\ a \in OfferIds \X Row /\ a \notin R
        /\ \A r \in R \cup {a} : o[r[1]] = r[2]
    OBVIOUS
  <2>2. R \cup {a} = T
    OBVIOUS
  <2> HIDE DEF R
  <2>3. Sum(R \cup {a}) = Sum(R)
    BY <2>1, <1>6, GiveOne
  <2> QED BY <2>2, <2>3
<1> QED BY <1>3, <1>7, <1>8

\* The kinds of check tell themselves apart.
LEMMA CheckFacts ==
    /\ \A id \in OfferIds : [newest |-> id] \in Check /\ "rows" \notin DOMAIN [newest |-> id]
    /\ \A R \in SUBSET (OfferIds \X Row) : [rows |-> R] \in Check /\ [rows |-> R].rows = R
    /\ \A c \in Check : "rows" \in DOMAIN c => c.rows \in SUBSET (OfferIds \X Row)
<1>1. ASSUME NEW c \in Check, "rows" \in DOMAIN c PROVE c.rows \in SUBSET (OfferIds \X Row)
  <2>1. CASE c \in [newest : OfferIds]
    <3>1. DOMAIN c = {"newest"}
      BY <2>1
    <3> QED BY <3>1, <1>1
  <2>2. CASE c \in [rows : SUBSET (OfferIds \X Row)]
    BY <2>2
  <2> QED BY <2>1, <2>2 DEF Check
<1> QED BY <1>1 DEF Check

\* A step that only moves the checks on.
LEMMA OnlyChecks ==
    ASSUME Typed, Kept, UNCHANGED <<purse, bank, stock, stash, offers, nextId, fees, excused>>,
           checks' \in Seq(Check), Len(checks') <= MaxChecks, Answers'
    PROVE  MarketInv'
<1>1. Typed'
  BY DEF Typed
<1> QED BY <1>1, MarketStep

LEMMA AskExpiredKeeps ==
    ASSUME Typed, Kept, NEW id \in OfferIds, AskExpired(id)
    PROVE  MarketInv'
<1> DEFINE c == [newest |-> id]
<1>1. checks \in Seq(Check) /\ Answers /\ MaxChecks \in Nat
  BY MarketAssumption DEF Typed
<1>2. /\ Len(checks) < MaxChecks /\ checks' = Append(checks, c)
      /\ UNCHANGED <<purse, bank, stock, stash, offers, nextId, fees, excused>>
  BY DEF AskExpired
<1>3. c \in Check /\ "rows" \notin DOMAIN c
  BY CheckFacts
<1> HIDE DEF c
<1>4. /\ checks' \in Seq(Check) /\ Len(checks') = Len(checks) + 1 /\ Len(checks) \in Nat
      /\ DOMAIN checks' = 1..Len(checks) + 1 /\ checks'[Len(checks) + 1] = c
      /\ \A d \in 1..Len(checks) : checks'[d] = checks[d]
  BY <1>1, <1>2, <1>3
<1>5. \A d \in DOMAIN checks' : d = Len(checks) + 1 \/ (d \in DOMAIN checks /\ checks'[d] = checks[d])
  <2>1. DOMAIN checks = 1..Len(checks)
    BY <1>1
  <2>2. \A d \in 1..Len(checks) + 1 : d = Len(checks) + 1 \/ d \in 1..Len(checks)
    BY <1>4
  <2>3. \A d \in 1..Len(checks) + 1 : d = Len(checks) + 1 \/ (d \in DOMAIN checks /\ checks'[d] = checks[d])
    BY <2>1, <2>2, <1>4
  <2>4. DOMAIN checks' = 1..Len(checks) + 1
    BY <1>4
  <2> QED BY <2>3, <2>4
<1>6. Answers'
  BY <1>1, <1>3, <1>4, <1>5 DEF Answers
<1>7. Len(checks') <= MaxChecks
  BY <1>1, <1>2, <1>4
<1> QED BY <1>2, <1>4, <1>6, <1>7, OnlyChecks

LEMMA RunSelectKeeps ==
    ASSUME Typed, Kept, NEW c, RunSelect(c)
    PROVE  MarketInv'
<1> DEFINE old == {id \in OfferIds : id <= checks[c].newest /\ offers[id] # NoRow}
           R == {<<id, offers[id]>> : id \in old}
           a == [rows |-> R]
<1>1. /\ checks \in Seq(Check) /\ Answers /\ offers \in Tables /\ Len(checks) <= MaxChecks
  BY DEF Typed
<1>2. /\ c \in DOMAIN checks /\ checks' = [checks EXCEPT ![c] = a]
      /\ UNCHANGED <<purse, bank, stock, stash, offers, nextId, fees, excused>>
  BY DEF RunSelect
<1>3. old \subseteq OfferIds /\ \A id \in old : offers[id] \in Row
  BY <1>1 DEF Tables
<1> HIDE DEF old
<1>4. IsFiniteSet(R)
  <2> DEFINE f == [id \in old |-> <<id, offers[id]>>]
  <2>1. IsFiniteSet(old)
    BY <1>3, FS_Subset, MarketAssumption
  <2>2. f \in Surjection(old, R)
    BY DEF Surjection
  <2> QED BY <2>1, <2>2, FS_Surjection DEF ExistsSurjection
<1>5. R \in SUBSET (OfferIds \X Row)
  BY <1>3
<1> HIDE DEF R
<1>6. a \in Check /\ a.rows = R
  BY <1>5, CheckFacts
<1> HIDE DEF a
<1>7. /\ checks' \in Seq(Check) /\ Len(checks') = Len(checks) /\ DOMAIN checks' = DOMAIN checks
      /\ checks'[c] = a /\ \A d \in DOMAIN checks : d # c => checks'[d] = checks[d]
  BY <1>1, <1>2, <1>6
<1>8. Answers'
  BY <1>1, <1>4, <1>6, <1>7 DEF Answers
<1>9. Len(checks') <= MaxChecks
  BY <1>1, <1>7
<1> QED BY <1>2, <1>7, <1>8, <1>9, OnlyChecks

\* processExpiredOffers(), unless a row has changed since.
LEMMA ProcessExpiredKeeps ==
    ASSUME Typed, Kept, excused = {}, NEW lost \in SUBSET Merchants, ProcessExpired(lost)
    PROVE  MarketInv'
<1> DEFINE gone == StillThere(checks[1].rows)
           Back(p, sale) == {r \in gone : r[2].player = p /\ r[2].sale = sale /\ (sale => p \notin lost)}
           got == {r \in gone : r[2].sale => r[2].player \notin lost}
           vm == [offer \in Row |-> offer.price * offer.amount]
           vp == [offer \in Row |-> offer.amount]
           stale == \E r \in gone : offers[r[1]] # NoRow /\ offers[r[1]] # r[2]
<1>1. /\ checks # <<>> /\ "rows" \in DOMAIN checks[1]
      /\ offers' = [id \in OfferIds |-> IF \E r \in gone : r[1] = id THEN NoRow ELSE offers[id]]
      /\ bank' = [p \in Merchants |-> bank[p] +
                    SumFunction([r \in Back(p, FALSE) |-> r[2].price * r[2].amount])]
      /\ stock' = [p \in Merchants |-> stock[p] +
                    SumFunction([r \in Back(p, TRUE) |-> Delivered(r[2].amount)])]
      /\ excused' = (IF stale THEN {"stale"} ELSE {}) \cup {"lost" : p \in lost}
      /\ checks' = Tail(checks)
      /\ UNCHANGED <<purse, stash, nextId, fees>>
  BY DEF ProcessExpired
<1>2. /\ purse \in Shares /\ bank \in Shares /\ stock \in Shares /\ stash \in Shares /\ fees \in Nat
      /\ offers \in Tables /\ nextId \in Nat
      /\ \A j \in OfferIds : j >= nextId => offers[j] = NoRow
      /\ checks \in Seq(Check) /\ Answers /\ Len(checks) <= MaxChecks
  BY DEF Typed
<1>3. gone \in SUBSET (OfferIds \X Row) /\ IsFiniteSet(gone) /\ \A r \in gone : offers[r[1]] # NoRow
  <2>1. 1 \in DOMAIN checks /\ checks[1] \in Check
    BY <1>1, <1>2
  <2>2. checks[1].rows \in SUBSET (OfferIds \X Row) /\ IsFiniteSet(checks[1].rows)
    BY <2>1, <1>1, <1>2, CheckFacts DEF Answers
  <2>3. gone \subseteq checks[1].rows /\ \A r \in gone : offers[r[1]] # NoRow
    BY DEF StillThere
  <2> HIDE DEF gone
  <2> QED BY <2>2, <2>3, FS_Subset
<1> HIDE DEF gone
<1>g. got \in SUBSET (OfferIds \X Row) /\ IsFiniteSet(got) /\ got \subseteq gone
  BY <1>3, FS_Subset
<1>4. \A offer \in Row : offer.amount \in Nat /\ offer.price \in Nat /\ offer.price * offer.amount \in Nat
                       /\ Delivered(offer.amount) = offer.amount /\ offer.sale \in BOOLEAN /\ offer # NoRow
  BY RowFacts, TimesNat, DeliveredIs
<1>5. vm \in [Row -> Nat] /\ vp \in [Row -> Nat]
  BY <1>4
<1>6. bank' = GivenBack(bank, vm, FALSE, got)
  <2>1. \A p \in Merchants : Back(p, FALSE) = BackOf(got, p, FALSE)
    BY DEF BackOf
  <2>2. \A p \in Merchants : [r \in Back(p, FALSE) |-> r[2].price * r[2].amount]
                               = WorthOf(vm, BackOf(got, p, FALSE))
    <3> SUFFICES ASSUME NEW p \in Merchants
                 PROVE  [r \in Back(p, FALSE) |-> r[2].price * r[2].amount]
                           = [r \in Back(p, FALSE) |-> vm[r[2]]]
      BY <2>1 DEF WorthOf
    <3>1. \A r \in Back(p, FALSE) : r[2] \in Row
      BY <1>3
    <3> QED BY <3>1
  <2> QED BY <2>2, <1>1 DEF GivenBack
<1>7. stock' = GivenBack(stock, vp, TRUE, got)
  <2>1. \A p \in Merchants : Back(p, TRUE) = BackOf(got, p, TRUE)
    BY DEF BackOf
  <2>2. \A p \in Merchants : [r \in Back(p, TRUE) |-> Delivered(r[2].amount)]
                               = WorthOf(vp, BackOf(got, p, TRUE))
    <3> SUFFICES ASSUME NEW p \in Merchants
                 PROVE  [r \in Back(p, TRUE) |-> Delivered(r[2].amount)]
                           = [r \in Back(p, TRUE) |-> vp[r[2]]]
      BY <2>1 DEF WorthOf
    <3>1. \A r \in Back(p, TRUE) : r[2] \in Row
      BY <1>3
    <3> QED BY <3>1, <1>4
  <2> QED BY <2>2, <1>1 DEF GivenBack
<1> HIDE DEF vm, vp, got
<1>8. bank' \in Shares /\ stock' \in Shares
  BY <1>2, <1>5, <1>6, <1>7, <1>g, BackTyped
<1>9. offers' \in Tables /\ \A j \in OfferIds : offers[j] = NoRow => offers'[j] = NoRow
  BY <1>1, <1>2 DEF Tables
<1>10. checks' \in Seq(Check) /\ Len(checks') <= MaxChecks /\ Answers'
  <2>1. /\ checks' \in Seq(Check) /\ Len(checks') = Len(checks) - 1 /\ Len(checks) \in Nat
        /\ DOMAIN checks' = 1..Len(checks) - 1
        /\ \A d \in 1..Len(checks) - 1 : checks'[d] = checks[d + 1] /\ d + 1 \in DOMAIN checks
    BY <1>1, <1>2
  <2>2. Answers'
    BY <2>1, <1>2 DEF Answers
  <2> QED BY <2>1, <2>2, <1>2, MarketAssumption
<1>11. Typed'
  <2>1. excused' \subseteq Inexact /\ nextId' = nextId
    BY <1>1 DEF Inexact
  <2>2. \A j \in OfferIds : j >= nextId' => offers'[j] = NoRow
    BY <2>1, <1>2, <1>9
  <2> QED BY <2>1, <2>2, <1>1, <1>2, <1>8, <1>9, <1>10 DEF Typed
<1>12. ASSUME excused' = {}
       PROVE  /\ MoneyOf(purse', bank', fees', offers') = MoneyOf(purse, bank, fees, offers)
              /\ PiecesOf(stock', stash', offers') = PiecesOf(stock, stash, offers)
  <2>1. \A r \in gone : offers[r[1]] = r[2]
    BY <1>1, <1>3, <1>12
  <2>0. got = gone
    <3>1. lost = {}
      BY <1>1, <1>12
    <3> QED BY <3>1 DEF got
  <2>2. /\ SumFunction(bank') + SumFunction(RestOf(offers, vm, FALSE, gone))
              = SumFunction(bank) + SumFunction(RestOf(offers, vm, FALSE, {}))
    BY <2>0, <2>1, <1>2, <1>3, <1>5, <1>6, GiveAll
  <2>3. /\ SumFunction(stock') + SumFunction(RestOf(offers, vp, TRUE, gone))
              = SumFunction(stock) + SumFunction(RestOf(offers, vp, TRUE, {}))
    BY <2>0, <2>1, <1>2, <1>3, <1>5, <1>7, GiveAll
  <2>4. \A id \in OfferIds : offers[id] # NoRow =>
           /\ offers[id] \in Row /\ offers[id].sale \in BOOLEAN
           /\ vm[offers[id]] = offers[id].price * offers[id].amount
           /\ vp[offers[id]] = offers[id].amount
    BY <1>2, <1>4 DEF Tables, vm, vp
  <2>5. RestOf(offers, vm, FALSE, {}) = Deposits(offers) /\ RestOf(offers, vp, TRUE, {}) = Pledges(offers)
    BY <2>4 DEF RestOf, Deposits, DepositOf, Pledges, PledgeOf
  <2>6. \A id \in OfferIds : offers'[id] = IF \E r \in gone : r[1] = id THEN NoRow ELSE offers[id]
    BY <1>1
  <2>7. RestOf(offers, vm, FALSE, gone) = Deposits(offers') /\ RestOf(offers, vp, TRUE, gone) = Pledges(offers')
    <3>1. \A id \in OfferIds :
             /\ RestOf(offers, vm, FALSE, gone)[id] = DepositOf(offers'[id])
             /\ RestOf(offers, vp, TRUE, gone)[id] = PledgeOf(offers'[id])
      <4> SUFFICES ASSUME NEW id \in OfferIds
                   PROVE  /\ RestOf(offers, vm, FALSE, gone)[id] = DepositOf(offers'[id])
                          /\ RestOf(offers, vp, TRUE, gone)[id] = PledgeOf(offers'[id])
        OBVIOUS
      <4>1. CASE \E r \in gone : r[1] = id
        BY <4>1, <2>6 DEF RestOf, DepositOf, PledgeOf
      <4>2. CASE ~(\E r \in gone : r[1] = id)
        <5>1. offers'[id] = offers[id]
          BY <4>2, <2>6
        <5> QED BY <4>2, <5>1, <2>4 DEF RestOf, DepositOf, PledgeOf
      <4> QED BY <4>1, <4>2
    <3>2. /\ RestOf(offers, vm, FALSE, gone) = [id \in OfferIds |-> RestOf(offers, vm, FALSE, gone)[id]]
          /\ RestOf(offers, vp, TRUE, gone) = [id \in OfferIds |-> RestOf(offers, vp, TRUE, gone)[id]]
      BY DEF RestOf
    <3> QED BY <3>1, <3>2 DEF Deposits, Pledges
  <2>8. /\ SumFunction(purse) \in Int /\ SumFunction(bank) \in Int /\ SumFunction(stock) \in Int
        /\ SumFunction(stash) \in Int /\ SumFunction(bank') \in Int /\ SumFunction(stock') \in Int
        /\ SumFunction(Deposits(offers)) \in Int /\ SumFunction(Pledges(offers)) \in Int
        /\ SumFunction(Deposits(offers')) \in Int /\ SumFunction(Pledges(offers')) \in Int
    BY <1>2, <1>8, <1>9, SumsTyped DEF Shares
  <2>9. /\ SumFunction(bank') + SumFunction(Deposits(offers'))
              = SumFunction(bank) + SumFunction(Deposits(offers))
        /\ SumFunction(stock') + SumFunction(Pledges(offers'))
              = SumFunction(stock) + SumFunction(Pledges(offers))
    BY <2>2, <2>3, <2>5, <2>7
  <2>10. purse' = purse /\ fees' = fees /\ stash' = stash
    BY <1>1
  <2>11. MoneyOf(purse', bank', fees', offers') = MoneyOf(purse, bank, fees, offers)
    <3>1. fees \in Int
      BY <1>2
    <3> HIDE DEF gone
    <3> QED BY <3>1, <2>8, <2>9, <2>10 DEF MoneyOf
  <2>12. PiecesOf(stock', stash', offers') = PiecesOf(stock, stash, offers)
    BY <2>8, <2>9, <2>10 DEF PiecesOf
  <2> QED BY <2>11, <2>12
<1> QED BY <1>11, <1>12, MarketStep

LEMMA MarketInvNext == MarketInv /\ [MarketNext]_marketVars => MarketInv'
<1> SUFFICES ASSUME MarketInv, [MarketNext]_marketVars PROVE MarketInv'
  OBVIOUS
<1>1. CASE UNCHANGED marketVars
  BY <1>1 DEF marketVars, MarketInv, Typed, Kept, Answers
<1>2. CASE MarketNext
  <2>1. excused = {} /\ Typed /\ Kept
    BY <1>2 DEF MarketNext, MarketInv
  <2>2. ASSUME NEW p \in Merchants, NEW price \in Prices, NEW amount \in Amounts,
               CreateSell(p, price, amount) \/ CreateBuy(p, price, amount)
        PROVE  MarketInv'
    BY <2>1, <2>2, CreateSellKeeps, CreateBuyKeeps
  <2>3. ASSUME NEW p \in Merchants, NEW id \in OfferIds, Cancel(p, id) PROVE MarketInv'
    BY <2>1, <2>3, CancelKeeps
  <2>4. ASSUME NEW p \in Merchants, NEW id \in OfferIds, NEW amount \in Amounts,
               AcceptBuy(p, id, amount) \/ AcceptSell(p, id, amount)
        PROVE  MarketInv'
    BY <2>1, <2>4, AcceptBuyKeeps, AcceptSellKeeps
  <2>5. ASSUME NEW id \in OfferIds, AskExpired(id) PROVE MarketInv'
    BY <2>1, <2>5, AskExpiredKeeps
  <2>6. ASSUME NEW c \in 1..MaxChecks, RunSelect(c) PROVE MarketInv'
    BY <2>1, <2>6, RunSelectKeeps
  <2>7. ASSUME NEW lost \in SUBSET Merchants, ProcessExpired(lost) PROVE MarketInv'
    BY <2>1, <2>7, ProcessExpiredKeeps
  <2> QED BY <1>2, <2>2, <2>3, <2>4, <2>5, <2>6, <2>7 DEF MarketNext
<1> QED BY <1>1, <1>2

LEMMA MarketInvInit == MarketInit => MarketInv
<1> SUFFICES ASSUME MarketInit PROVE MarketInv
  OBVIOUS
<1>1. /\ purse = StartPurse /\ bank = StartBank /\ stock = StartStock /\ stash = StartStash
      /\ offers = [id \in OfferIds |-> NoRow] /\ nextId = 1 /\ checks = <<>> /\ fees = 0 /\ excused = {}
  BY DEF MarketInit
<1>2. purse \in Shares /\ bank \in Shares /\ stock \in Shares /\ stash \in Shares
  BY <1>1, MarketAssumption DEF Shares
<1>3. offers \in Tables /\ \A id \in OfferIds : offers[id] = NoRow
  BY <1>1 DEF Tables
<1>4. checks \in Seq(Check) /\ Len(checks) <= MaxChecks /\ Answers
  BY <1>1, MarketAssumption DEF Answers
<1>5. Typed
  BY <1>1, <1>2, <1>3, <1>4 DEF Typed
<1>6. SumFunction(Deposits(offers)) = 0 /\ SumFunction(Pledges(offers)) = 0
  <2> DEFINE z == [id \in OfferIds |-> 0]
  <2>1. Deposits(offers) = z /\ Pledges(offers) = z
    BY <1>3 DEF Deposits, DepositOf, Pledges, PledgeOf
  <2> DEFINE s == [T \in SUBSET OfferIds |-> 0]
  <2>2. Sums(s, z, OfferIds)
    BY DEF Sums
  <2>3. DOMAIN z = OfferIds /\ s[OfferIds] = 0
    OBVIOUS
  <2> HIDE DEF z, s
  <2>4. SumFunction(z) = 0
    BY <2>2, <2>3, SumsUnique, MarketAssumption DEF SumFunction
  <2> QED BY <2>1, <2>4
<1>7. /\ SumFunction(purse) \in Int /\ SumFunction(bank) \in Int /\ SumFunction(stock) \in Int
      /\ SumFunction(stash) \in Int
  BY <1>2, SumsTyped DEF Shares
<1>8. Kept
  BY <1>1, <1>6, <1>7 DEF Kept, MoneyOf, PiecesOf
<1> QED BY <1>5, <1>8 DEF MarketInv

\* Money and goods are conserved by the market, however offers are made,
\* cancelled, accepted in parts and found expired, but for the steps the
\* property names: MarketConserved holds of Market for any players, offers,
\* prices and amounts and any width of the product.
THEOREM MarketConservedHolds == MarketSpec => []MarketConserved
BY MarketInvInit, MarketInvNext, MarketInvConserved, PTL DEF MarketSpec

-----------------------------------------------------------------------------
(* Trade: where things are. *)

Spots == Traders \cup Bags \cup {Ground, Nowhere}
Spread == [Goods -> Spots]

LEMMA SpotFacts ==
    /\ \A x \in Spots : x \in Goods => x \in Bags
    /\ Bags \subseteq Goods /\ Bags \subseteq Spots /\ IsFiniteSet(Goods)
    /\ \A p \in Traders : p \in Spots /\ p \notin Goods /\ p # Ground /\ p # NoOne
    /\ Ground \in Spots /\ Nowhere \in Spots /\ Ground \notin Goods /\ Nowhere \notin Goods
    /\ NoItem \notin Goods /\ NoOne \notin Traders
BY TradeAssumption DEF Spots

LEMMA InsideRule ==
    ASSUME NEW pl \in Spread, NEW x, NEW j \in Goods, pl[j] = x \/ pl[j] \in Inside(pl, x)
    PROVE  j \in Inside(pl, x)
<1> DEFINE Closed == {K \in SUBSET Bags : \A b \in Bags : pl[b] \in K \cup {x} => b \in K}
<1>1. \A i : i \in Inside(pl, x) <=> i \in Goods /\ (pl[i] = x \/ (pl[i] \in Bags /\ \A K \in Closed : pl[i] \in K))
  BY DEF Inside
<1>2. CASE pl[j] = x
  BY <1>1, <1>2
<1>3. CASE pl[j] \in Inside(pl, x)
  <2>1. pl[j] \in Bags
    BY <1>1, <1>3, SpotFacts DEF Spread
  <2>2. ASSUME NEW K \in Closed PROVE pl[j] \in K
    BY <1>1, <1>3, <2>1, <2>2
  <2> QED BY <1>1, <2>1, <2>2
<1> QED BY <1>2, <1>3

LEMMA InsideLeast ==
    ASSUME NEW pl \in Spread, NEW x, NEW S \in SUBSET Goods,
           \A j \in Goods : (pl[j] = x \/ pl[j] \in S) => j \in S
    PROVE  Inside(pl, x) \subseteq S
<1> DEFINE Closed == {K \in SUBSET Bags : \A b \in Bags : pl[b] \in K \cup {x} => b \in K}
<1>1. \A i : i \in Inside(pl, x) <=> i \in Goods /\ (pl[i] = x \/ (pl[i] \in Bags /\ \A K \in Closed : pl[i] \in K))
  BY DEF Inside
<1>2. S \cap Bags \in Closed
  BY SpotFacts
<1> QED BY <1>1, <1>2

LEMMA InsideFrom ==
    ASSUME NEW pl \in Spread, NEW x, NEW j \in Inside(pl, x)
    PROVE  j \in Goods /\ (pl[j] = x \/ pl[j] \in Inside(pl, x))
<1> DEFINE S == {k \in Goods : pl[k] = x \/ pl[k] \in Inside(pl, x)}
<1>1. \A k \in Goods : (pl[k] = x \/ pl[k] \in S) => k \in S
  BY InsideRule
<1>2. Inside(pl, x) \subseteq S
  <2> HIDE DEF S
  <2>1. S \in SUBSET Goods
    BY DEF S
  <2> QED BY <1>1, <2>1, InsideLeast
<1> QED BY <1>2

LEMMA InsideGoods == ASSUME NEW pl, NEW x PROVE Inside(pl, x) \in SUBSET Goods
BY DEF Inside

\* i is put into to.
Put(pl, i, to) == [pl EXCEPT ![i] = to]

\* i is put elsewhere: to is not x and does not lie in x, and neither does i.
LEMMA ContentsKept ==
    ASSUME NEW pl \in Spread, NEW i \in Goods, NEW to \in Spots, NEW x,
           i \notin Inside(pl, x), to # x, to \notin Inside(pl, x)
    PROVE  Inside(Put(pl, i, to), x) = Inside(pl, x)
<1> DEFINE new == Put(pl, i, to)
<1>1. new \in Spread /\ new[i] = to /\ \A j \in Goods : j # i => new[j] = pl[j]
  BY DEF Spread, Put
<1> HIDE DEF new
<1>2. Inside(new, x) \subseteq Inside(pl, x)
  <2>1. \A j \in Goods : (new[j] = x \/ new[j] \in Inside(pl, x)) => j \in Inside(pl, x)
    BY <1>1, InsideRule
  <2> QED BY <1>1, <2>1, InsideLeast, InsideGoods
<1>3. Inside(pl, x) \subseteq Inside(new, x)
  <2> DEFINE S == Inside(new, x) \cup (Goods \ Inside(pl, x))
  <2>1. ASSUME NEW j \in Goods, pl[j] = x \/ pl[j] \in S PROVE j \in S
    <3>1. CASE j \notin Inside(pl, x)
      BY <3>1
    <3>2. CASE j \in Inside(pl, x)
      <4>1. j # i /\ new[j] = pl[j]
        BY <3>2, <1>1
      <4>2. pl[j] = x \/ pl[j] \in Inside(pl, x)
        BY <3>2, InsideFrom
      <4>3. new[j] = x \/ new[j] \in Inside(new, x)
        BY <2>1, <4>1, <4>2
      <4> QED BY <4>3, <1>1, InsideRule
    <3> QED BY <3>1, <3>2
  <2>2. S \in SUBSET Goods
    BY InsideGoods
  <2>3. Inside(pl, x) \subseteq S
    <3> HIDE DEF S
    <3> QED BY <2>1, <2>2, InsideLeast
  <2> QED BY <2>3
<1> QED BY <1>2, <1>3 DEF new

\* What is not i and does not lie in it stays where it is.
LEMMA OthersStay ==
    ASSUME NEW pl \in Spread, NEW i \in Goods, NEW to \in Spots, NEW x,
           NEW t, t # i, t \notin Inside(pl, i)
    PROVE  t \in Inside(Put(pl, i, to), x) <=> t \in Inside(pl, x)
<1> DEFINE D == Inside(pl, i) \cup {i}
           new == Put(pl, i, to)
<1>1. new \in Spread /\ new[i] = to /\ \A j \in Goods : j # i => new[j] = pl[j]
  BY DEF Spread, Put
<1> HIDE DEF new
<1>2. \A j \in Goods : pl[j] \in D => j \in D
  BY InsideRule
<1>3. D \in SUBSET Goods /\ i \in D /\ t \notin D
  BY InsideGoods
<1> HIDE DEF D
<1>4. ASSUME t \in Inside(new, x) PROVE t \in Inside(pl, x)
  <2> DEFINE S == Inside(pl, x) \cup D
  <2>1. \A j \in Goods : (new[j] = x \/ new[j] \in S) => j \in S
    BY <1>1, <1>2, <1>3, InsideRule
  <2>2. S \in SUBSET Goods
    BY <1>3, InsideGoods
  <2>3. Inside(new, x) \subseteq S
    <3> HIDE DEF S
    <3> QED BY <1>1, <2>1, <2>2, InsideLeast
  <2> QED BY <1>3, <1>4, <2>3
<1>5. ASSUME t \in Inside(pl, x) PROVE t \in Inside(new, x)
  <2> DEFINE S == Inside(new, x) \cup D
  <2>1. \A j \in Goods : (pl[j] = x \/ pl[j] \in S) => j \in S
    BY <1>1, <1>2, <1>3, InsideRule
  <2>2. S \in SUBSET Goods
    BY <1>3, InsideGoods
  <2>3. Inside(pl, x) \subseteq S
    <3> HIDE DEF S
    <3> QED BY <1>1, <2>1, <2>2, InsideLeast
  <2> QED BY <1>3, <1>5, <2>3
<1> QED BY <1>4, <1>5 DEF new

\* Only a container holds something.
LEMMA OnlyBagsHold ==
    ASSUME NEW pl \in Spread, NEW c \in Goods, NEW i \in Inside(pl, c) PROVE c \in Bags
<1>1. SUFFICES ASSUME c \notin Bags PROVE FALSE
  OBVIOUS
<1>2. \A j \in Goods : ~(pl[j] = c)
  BY <1>1, SpotFacts DEF Spread
<1>3. Inside(pl, c) \subseteq {}
  <2>1. {} \in SUBSET Goods /\ \A j \in Goods : (pl[j] = c \/ pl[j] \in {}) => j \in {}
    BY <1>2
  <2> QED BY <2>1, InsideLeast
<1> QED BY <1>3

\* What p may be given p may still be given when i has gone to somebody else.
LEMMA CanAddKept ==
    ASSUME NEW pl \in Spread, NEW p \in Traders, NEW q \in Traders, p # q,
           NEW i \in Goods, NEW j \in Goods, i # j, i \notin Inside(pl, j), j \notin Inside(pl, i),
           CanAdd(pl, p, j)
    PROVE  CanAdd(Put(pl, i, q), p, j)
<1> DEFINE new == Put(pl, i, q)
<1>1. new \in Spread /\ new[i] = q /\ \A k \in Goods : k # i => new[k] = pl[k]
  BY SpotFacts DEF Spread, Put
<1>2. q \in Spots /\ q \notin Goods /\ q # j
  BY SpotFacts
<1> HIDE DEF new
<1>3. CASE j \in Inside(pl, p)
  <2>1. j \in Inside(new, p)
    BY <1>2, <1>3, OthersStay DEF new
  <2> QED BY <2>1 DEF CanAdd, new
<1>4. CASE SumFunctionOnSet(Weight, Inside(pl, p)) + WeightIn(pl, j) <= Capacity[p]
  <2>1. Inside(new, p) \in SUBSET Inside(pl, p)
    <3>1. \A k \in Goods : (new[k] = p \/ new[k] \in Inside(pl, p)) => k \in Inside(pl, p)
      <4> SUFFICES ASSUME NEW k \in Goods, new[k] = p \/ new[k] \in Inside(pl, p)
                   PROVE  k \in Inside(pl, p)
        OBVIOUS
      <4>1. k # i
        BY <1>1, <1>2, InsideGoods
      <4> QED BY <1>1, <4>1, InsideRule
    <3> QED BY <1>1, <3>1, InsideLeast, InsideGoods
  <2>2. Inside(new, j) = Inside(pl, j)
    <3>1. q \notin Inside(pl, j)
      BY <1>2, InsideGoods
    <3> QED BY <1>2, <3>1, ContentsKept DEF new
  <2>3. WeightIn(new, j) = WeightIn(pl, j)
    BY <2>2 DEF WeightIn
  <2>4. IsFiniteSet(Goods) /\ Weight \in [Goods -> Nat] /\ Capacity[p] \in Int
    BY TradeAssumption
  <2>5. Inside(pl, p) \in SUBSET Goods /\ {j} \cup Inside(pl, j) \in SUBSET Goods
    BY InsideGoods
  <2>6. WeightIn(pl, j) \in Int
    BY <2>4, <2>5, SumMonotone DEF WeightIn
  <2>7. /\ SumFunctionOnSet(Weight, Inside(new, p)) \in Int /\ SumFunctionOnSet(Weight, Inside(pl, p)) \in Int
        /\ SumFunctionOnSet(Weight, Inside(new, p)) <= SumFunctionOnSet(Weight, Inside(pl, p))
    BY <2>1, <2>4, <2>5, SumMonotone
  <2>8. SumFunctionOnSet(Weight, Inside(new, p)) + WeightIn(new, j) <= Capacity[p]
    BY <1>4, <2>3, <2>4, <2>6, <2>7
  <2> QED BY <2>8 DEF CanAdd, new
<1> QED BY <1>3, <1>4 DEF CanAdd

-----------------------------------------------------------------------------
(* Trade: who trades with whom. *)

\* What the three fields of the players and tradeItems say of each other.
Agree == \A i \in Goods, p \in Traders : tradeItems[i] = p <=> tradeItem[p] = i

OffersApart ==
    \A p, q \in Traders :
        p # q /\ tradeItem[p] # NoItem /\ tradeItem[q] # NoItem
        => tradeItem[p] # tradeItem[q] /\ tradeItem[q] \notin Inside(place, tradeItem[p])

OffersInReach == \A p \in Traders : tradeItem[p] # NoItem => tradeItem[p] \in Reach(place, p)

LEMMA ConsistentParts ==
    TradeConsistent <=> TradePaired /\ TradeTypeOK /\ Agree /\ OffersApart /\ OffersInReach
<1>1. ASSUME TradeTypeOK, NEW p \in Traders, NEW q \in Traders,
             tradeItem[p] # NoItem, tradeItem[q] # NoItem
      PROVE  isHoldingItem(tradeItem[p], tradeItem[q]) <=> tradeItem[q] \in Inside(place, tradeItem[p])
  <2>1. tradeItem[p] \in Goods /\ place \in Spread
    BY <1>1 DEF TradeTypeOK, Spread, Spots
  <2> QED BY <2>1, OnlyBagsHold DEF isHoldingItem
<1> QED BY <1>1 DEF TradeConsistent, TradeItemsExact, Agree, OffersApart, OffersInReach

\* What internalCloseTrade() leaves.
LEMMA CloseFacts ==
    ASSUME TradePaired, TradeTypeOK, Agree, NEW S \in SUBSET Traders, Close(S)
    PROVE  /\ TradePaired'
           /\ tradeState' \in [Traders -> TradeStates]
           /\ tradePartner' \in [Traders -> Traders \cup {NoOne}]
           /\ tradeItem' \in [Traders -> Goods \cup {NoItem}]
           /\ tradeItems' \in [Goods -> Traders \cup {NoOne}]
           /\ Agree'
           /\ \A r \in Traders : tradeItem'[r] # NoItem =>
                 tradeItem'[r] = tradeItem[r] /\ r \notin S /\ tradePartner[r] \notin S
<1> DEFINE all == BothSides(S)
           off == {tradeItem[p] : p \in all}
<1>1. /\ tradeState \in [Traders -> TradeStates]
      /\ tradePartner \in [Traders -> Traders \cup {NoOne}]
      /\ tradeItem \in [Traders -> Goods \cup {NoItem}]
      /\ tradeItems \in [Goods -> Traders \cup {NoOne}]
  BY DEF TradeTypeOK
<1>2. /\ tradeState' = [p \in Traders |-> IF p \in all THEN "none" ELSE tradeState[p]]
      /\ tradePartner' = [p \in Traders |-> IF p \in all THEN NoOne ELSE tradePartner[p]]
      /\ tradeItem' = [p \in Traders |-> IF p \in all THEN NoItem ELSE tradeItem[p]]
      /\ tradeItems' = [i \in Goods |-> IF i \in off THEN NoOne ELSE tradeItems[i]]
  BY DEF Close
<1>3. \A p \in Traders : tradePartner[p] # NoOne => tradePartner[p] \in Traders /\ tradePartner[tradePartner[p]] = p
  BY <1>1 DEF TradePaired
<1>4. /\ S \subseteq all /\ all \subseteq Traders
      /\ \A p \in Traders : tradePartner[p] # NoOne => (p \in all <=> tradePartner[p] \in all)
  <2>1. \A p : p \in all <=> p \in S \/ (p # NoOne /\ \E r \in S : p = tradePartner[r])
    BY SpotFacts DEF BothSides
  <2>2. all \subseteq Traders /\ S \subseteq all
    BY <2>1, <1>1
  <2>3. ASSUME NEW p \in Traders, tradePartner[p] # NoOne, p \in all PROVE tradePartner[p] \in all
    BY <2>1, <2>3, <1>3
  <2>4. ASSUME NEW p \in Traders, tradePartner[p] # NoOne, tradePartner[p] \in all PROVE p \in all
    BY <2>3, <2>4, <1>3, SpotFacts
  <2> QED BY <2>2, <2>3, <2>4
<1>5. \A i : i \in off <=> \E p \in all : tradeItem[p] = i
  OBVIOUS
<1> HIDE DEF all, off
<1>6. /\ tradeState' \in [Traders -> TradeStates]
      /\ tradePartner' \in [Traders -> Traders \cup {NoOne}]
      /\ tradeItem' \in [Traders -> Goods \cup {NoItem}]
      /\ tradeItems' \in [Goods -> Traders \cup {NoOne}]
  BY <1>1, <1>2 DEF TradeStates
<1>7. /\ \A p \in all : tradeState'[p] = "none" /\ tradePartner'[p] = NoOne /\ tradeItem'[p] = NoItem
      /\ \A p \in Traders \ all : /\ tradeState'[p] = tradeState[p] /\ tradePartner'[p] = tradePartner[p]
                                  /\ tradeItem'[p] = tradeItem[p]
  BY <1>2, <1>4
<1>8. TradePaired'
  <2> SUFFICES ASSUME NEW p \in Traders
               PROVE  IF tradePartner'[p] = NoOne
                      THEN tradeState'[p] = "none" /\ tradeItem'[p] = NoItem
                      ELSE LET q == tradePartner'[p]
                           IN  /\ q # p /\ tradePartner'[q] = p
                               /\ tradeState'[p] # "none"
                               /\ tradeState'[p] = "initiated" => tradeItem'[p] # NoItem
                               /\ tradeState'[p] = "acknowledge" => tradeItem'[p] = NoItem
                               /\ tradeItem'[p] # NoItem \/ tradeItem'[q] # NoItem
                               /\ ~(tradeState'[p] = "accept" /\ tradeState'[q] = "accept")
    BY DEF TradePaired
  <2>1. CASE p \in all
    BY <2>1, <1>7
  <2>2. CASE p \notin all
    <3> DEFINE q == tradePartner[p]
    <3>1. q # NoOne => q \in Traders \ all
      BY <2>2, <1>3, <1>4
    <3> QED BY <2>2, <3>1, <1>7 DEF TradePaired
  <2> QED BY <2>1, <2>2
<1>9. Agree'
  <2> SUFFICES ASSUME NEW i \in Goods, NEW p \in Traders
               PROVE  tradeItems'[i] = p <=> tradeItem'[p] = i
    BY DEF Agree
  <2>1. i # NoItem /\ p # NoOne
    BY SpotFacts
  <2>2. \A r \in Traders : tradeItems[i] = r <=> tradeItem[r] = i
    BY DEF Agree
  <2>3. tradeItems'[i] = IF i \in off THEN NoOne ELSE tradeItems[i]
    BY <1>2
  <2>4. CASE i \in off
    BY <2>1, <2>2, <2>3, <2>4, <1>4, <1>5, <1>7
  <2>5. CASE i \notin off
    BY <2>1, <2>2, <2>3, <2>5, <1>4, <1>5, <1>7
  <2> QED BY <2>4, <2>5
<1>10. \A r \in Traders : tradeItem'[r] # NoItem =>
          tradeItem'[r] = tradeItem[r] /\ r \notin S /\ tradePartner[r] \notin S
  BY <1>1, <1>4, <1>7, SpotFacts
<1> QED BY <1>6, <1>8, <1>9, <1>10

\* Offers stand that nobody has touched.
LEMMA UntouchedOffers ==
    ASSUME TradePaired, TradeTypeOK, Agree, OffersApart, OffersInReach,
           NEW S \in SUBSET Traders, Close(S), place' \in Spread,
           \A r \in Traders : tradeItem[r] # NoItem /\ tradeItem'[r] = tradeItem[r] =>
              /\ place'[tradeItem[r]] = place[tradeItem[r]]
              /\ Inside(place', tradeItem[r]) = Inside(place, tradeItem[r])
              /\ tradeItem[r] \in Reach(place', r)
    PROVE  TradeConsistent'
<1>1. /\ TradePaired'
      /\ tradeState' \in [Traders -> TradeStates]
      /\ tradePartner' \in [Traders -> Traders \cup {NoOne}]
      /\ tradeItem' \in [Traders -> Goods \cup {NoItem}]
      /\ tradeItems' \in [Goods -> Traders \cup {NoOne}]
      /\ Agree'
      /\ \A r \in Traders : tradeItem'[r] # NoItem => tradeItem'[r] = tradeItem[r]
  BY CloseFacts
<1>2. TradeTypeOK'
  BY <1>1 DEF TradeTypeOK, Spread, Spots
<1>3. OffersInReach'
  BY <1>1 DEF OffersInReach
<1>4. OffersApart'
  BY <1>1 DEF OffersApart
<1> QED BY <1>1, <1>2, <1>3, <1>4, ConsistentParts, PTL

\* An offer that stands is as it was.
OffersFrozen ==
    \A p \in Traders :
        LET i == tradeItem[p]
        IN  place' # place /\ i # NoItem /\ tradeItem'[p] = i =>
              /\ place'[i] = place[i]
              /\ Inside(place', i) = Inside(place, i)

\* i moves from where it is; whose offer it concerns is closed.
LEMMA MovedItem ==
    ASSUME TradePaired, TradeTypeOK, Agree, OffersApart, OffersInReach,
           NEW S \in SUBSET Traders, Close(S), NEW i \in Goods, NEW to \in Spots,
           place' = [place EXCEPT ![i] = to],
           \A r \in Traders : TakenOut(r, i) => r \in S,
           to \in Bags => \A r \in Traders : PutInto(r, i, to) => r \in S
    PROVE  TradeConsistent' /\ OffersFrozen
<1>1. place \in Spread /\ place' \in Spread /\ tradeItem \in [Traders -> Goods \cup {NoItem}]
  BY DEF TradeTypeOK, Spread, Spots
<1>2. place' = Put(place, i, to)
  BY DEF Put
<1>3. ASSUME NEW r \in Traders, tradeItem[r] # NoItem, tradeItem'[r] = tradeItem[r]
      PROVE  /\ place'[tradeItem[r]] = place[tradeItem[r]]
             /\ Inside(place', tradeItem[r]) = Inside(place, tradeItem[r])
             /\ tradeItem[r] \in Reach(place', r)
  <2> DEFINE t == tradeItem[r]
  <2>1. t \in Goods /\ t \in Reach(place, r)
    BY <1>1, <1>3 DEF OffersInReach
  <2>2. r \notin S
    BY <1>3, CloseFacts
  <2>3. t # i /\ ~isHoldingItem(t, i) /\ ~isHoldingItem(i, t)
    BY <1>3, <2>2 DEF TakenOut
  <2> HIDE DEF t
  <2>4. i \notin Inside(place, t) /\ t \notin Inside(place, i)
    BY <1>1, <2>1, <2>3, OnlyBagsHold DEF isHoldingItem
  <2>5. to # t /\ to \notin Inside(place, t)
    <3>1. CASE to \in Bags
      <4>1. to # t /\ ~isHoldingItem(t, to)
        BY <1>3, <2>2, <3>1 DEF PutInto, t
      <4> QED BY <1>1, <2>1, <4>1, OnlyBagsHold DEF isHoldingItem
    <3>2. CASE to \notin Bags
      BY <2>1, <3>2, SpotFacts, InsideGoods
    <3> QED BY <3>1, <3>2
  <2>6. place'[t] = place[t]
    BY <1>1, <2>1, <2>3 DEF Spread
  <2>7. Inside(place', t) = Inside(place, t)
    <3>1. Inside(Put(place, i, to), t) = Inside(place, t)
      BY <1>1, <2>4, <2>5, ContentsKept
    <3> QED BY <3>1, <1>2
  <2>8. t \in Inside(place', r) <=> t \in Inside(place, r)
    BY <1>1, <1>2, <2>3, <2>4, SpotFacts, OthersStay
  <2>9. t \in Inside(place', Ground) <=> t \in Inside(place, Ground)
    BY <1>1, <1>2, <2>3, <2>4, SpotFacts, OthersStay
  <2>10. t \in Reach(place', r)
    BY <2>1, <2>8, <2>9 DEF Reach
  <2> QED BY <2>6, <2>7, <2>10 DEF t
<1>4. TradeConsistent'
  BY <1>1, <1>3, UntouchedOffers
<1> QED BY <1>3, <1>4 DEF OffersFrozen

\* Both have accepted: what is exchanged are two offers that lie apart from
\* each other and from all others, and what could be added to one player's
\* things before the other item has left still can be.
LEMMA TransferKeeps ==
    ASSUME TradePaired, TradeTypeOK, Agree, OffersApart, OffersInReach,
           NEW p \in Traders, tradePartner[p] # NoOne, Transfer(p, tradePartner[p])
    PROVE  /\ TradeConsistent' /\ OffersFrozen
           /\ place' # place =>
                /\ tradeItem[p] # NoItem /\ tradeItem[tradePartner[p]] # NoItem
                /\ BothMoved(p, tradePartner[p]) \/ Cheated(p, tradePartner[p])
<1> DEFINE q == tradePartner[p]
           i == tradeItem[p]
           j == tradeItem[q]
<1>1. /\ place \in Spread /\ tradeItem \in [Traders -> Goods \cup {NoItem}]
      /\ q \in Traders /\ q # p /\ tradePartner[q] = p
  BY DEF TradeTypeOK, TradePaired, Spread, Spots
<1>2. /\ \/ /\ Exchangeable(p, q, i, j)
            /\ \E room \in BOOLEAN : (j \notin Refusable => room) /\ place' = Exchanged(p, q, i, j, room)
         \/ place' = place
      /\ Close({p})
  BY DEF Transfer
<1>3. \A r \in Traders : tradeItem[r] # NoItem /\ tradeItem'[r] = tradeItem[r] => r # p /\ r # q
  <2>1. \A r \in Traders : tradeItem'[r] # NoItem => r \notin {p} /\ tradePartner[r] \notin {p}
    BY <1>2, CloseFacts
  <2> QED BY <1>1, <2>1
<1> HIDE DEF q
<1>4. CASE place' = place
  <2>1. TradeConsistent'
    BY <1>1, <1>2, <1>4, UntouchedOffers DEF OffersInReach
  <2> QED BY <1>4, <2>1 DEF OffersFrozen
<1>5. CASE Exchangeable(p, q, i, j) /\ place' = Exchanged(p, q, i, j, TRUE)
  <2>1. i \in Goods /\ j \in Goods /\ i # NoItem /\ j # NoItem /\ CanAdd(place, p, j)
    BY <1>1, <1>5, SpotFacts DEF Exchangeable
  <2>2. i # j /\ j \notin Inside(place, i) /\ i \notin Inside(place, j)
    BY <1>1, <2>1 DEF OffersApart
  <2> DEFINE first == Put(place, i, q)
  <2>3. CanAdd(first, p, j)
    BY <1>1, <2>1, <2>2, CanAddKept
  <2>4. place' = Put(first, j, p)
    BY <1>5, <2>3 DEF Exchanged, Put
  <2>5. /\ first \in Spread /\ place' \in Spread /\ p \in Spots /\ q \in Spots
        /\ p \notin Goods /\ q \notin Goods
        /\ \A k \in Goods \ {i, j} : first[k] = place[k] /\ place'[k] = place[k]
    BY <1>1, <2>1, <2>4, SpotFacts DEF Spread, Put
  <2>6. place' = [place EXCEPT ![i] = q, ![j] = p]
    BY <2>4 DEF Put
  <2> HIDE DEF i, j
  <2>7. Inside(first, j) = Inside(place, j)
    <3>1. q # j /\ q \notin Inside(place, j)
      BY <2>1, <2>5, InsideGoods
    <3> QED BY <1>1, <2>1, <2>2, <2>5, <3>1, ContentsKept
  <2>8. ASSUME NEW r \in Traders, tradeItem[r] # NoItem, tradeItem'[r] = tradeItem[r]
        PROVE  /\ place'[tradeItem[r]] = place[tradeItem[r]]
               /\ Inside(place', tradeItem[r]) = Inside(place, tradeItem[r])
               /\ tradeItem[r] \in Reach(place', r)
    <3> DEFINE t == tradeItem[r]
    <3>1. t \in Goods /\ t \in Reach(place, r)
      BY <1>1, <2>8 DEF OffersInReach
    <3>2. r # p /\ r # q
      BY <1>3, <2>8
    <3>3. /\ t # i /\ t \notin Inside(place, i) /\ i \notin Inside(place, t)
          /\ t # j /\ t \notin Inside(place, j) /\ j \notin Inside(place, t)
      BY <1>1, <2>1, <2>8, <3>2 DEF OffersApart, i, j
    <3>4. /\ q # t /\ q \notin Inside(place, t) /\ p # t /\ p \notin Inside(place, t)
      BY <2>5, <3>1, InsideGoods
    <3> HIDE DEF t, first
    <3>5. Inside(first, t) = Inside(place, t)
      BY <1>1, <2>1, <2>5, <3>3, <3>4, ContentsKept DEF first
    <3>6. Inside(place', t) = Inside(first, t)
      <4>1. j \notin Inside(first, t) /\ p \notin Inside(first, t)
        BY <3>3, <3>4, <3>5
      <4>2. Inside(Put(first, j, p), t) = Inside(first, t)
        BY <2>1, <2>5, <3>4, <4>1, ContentsKept
      <4> QED BY <2>4, <4>2
    <3>7. ASSUME NEW x PROVE t \in Inside(place', x) <=> t \in Inside(place, x)
      <4>1. t \in Inside(first, x) <=> t \in Inside(place, x)
        BY <1>1, <2>1, <2>5, <3>3, OthersStay DEF first
      <4>2. t \notin Inside(first, j)
        BY <2>7, <3>3
      <4>3. t \in Inside(Put(first, j, p), x) <=> t \in Inside(first, x)
        BY <2>1, <2>5, <3>3, <4>2, OthersStay
      <4> QED BY <2>4, <4>1, <4>3
    <3>8. t \in Reach(place', r)
      BY <3>1, <3>7 DEF Reach
    <3>9. place'[t] = place[t]
      BY <2>5, <3>1, <3>3
    <3> QED BY <3>5, <3>6, <3>8, <3>9 DEF t
  <2>9. TradeConsistent'
    BY <1>2, <2>5, <2>8, UntouchedOffers
  <2> QED BY <2>1, <2>6, <2>8, <2>9 DEF OffersFrozen, BothMoved, i, j, q
<1>6. CASE Exchangeable(p, q, i, j) /\ place' = Exchanged(p, q, i, j, FALSE) /\ j \in Refusable
  <2>1. i \in Goods /\ j \in Goods /\ i # NoItem /\ j # NoItem
    BY <1>1, <1>6, SpotFacts DEF Exchangeable
  <2>2. place' = Put(place, i, q)
    BY <1>6 DEF Exchanged, Put
  <2>3. /\ place' \in Spread /\ q \in Spots /\ q \notin Goods
        /\ \A k \in Goods \ {i} : place'[k] = place[k]
    BY <1>1, <2>1, <2>2, SpotFacts DEF Spread, Put
  <2>4. place' = [place EXCEPT ![i] = q] /\ j \in Refusable
    BY <1>6, <2>2 DEF Put
  <2> HIDE DEF i, j
  <2>5. ASSUME NEW r \in Traders, tradeItem[r] # NoItem, tradeItem'[r] = tradeItem[r]
        PROVE  /\ place'[tradeItem[r]] = place[tradeItem[r]]
               /\ Inside(place', tradeItem[r]) = Inside(place, tradeItem[r])
               /\ tradeItem[r] \in Reach(place', r)
    <3> DEFINE t == tradeItem[r]
    <3>1. t \in Goods /\ t \in Reach(place, r)
      BY <1>1, <2>5 DEF OffersInReach
    <3>2. r # p
      BY <1>3, <2>5
    <3>3. t # i /\ t \notin Inside(place, i) /\ i \notin Inside(place, t)
      BY <1>1, <2>1, <2>5, <3>2 DEF OffersApart, i
    <3>4. q # t /\ q \notin Inside(place, t)
      BY <2>3, <3>1, InsideGoods
    <3> HIDE DEF t
    <3>5. Inside(place', t) = Inside(place, t)
      <4>1. Inside(Put(place, i, q), t) = Inside(place, t)
        BY <1>1, <2>1, <2>3, <3>3, <3>4, ContentsKept
      <4> QED BY <2>2, <4>1
    <3>6. ASSUME NEW x PROVE t \in Inside(place', x) <=> t \in Inside(place, x)
      <4>1. t \in Inside(Put(place, i, q), x) <=> t \in Inside(place, x)
        BY <1>1, <2>1, <2>3, <3>3, OthersStay
      <4> QED BY <2>2, <4>1
    <3>7. t \in Reach(place', r)
      BY <3>1, <3>6 DEF Reach
    <3>8. place'[t] = place[t]
      BY <2>3, <3>1, <3>3
    <3> QED BY <3>5, <3>7, <3>8 DEF t
  <2>6. TradeConsistent'
    BY <1>2, <2>3, <2>5, UntouchedOffers
  <2> QED BY <2>1, <2>4, <2>5, <2>6 DEF OffersFrozen, Cheated, i, j, q
<1> QED BY <1>2, <1>4, <1>5, <1>6

\* The offers are closed of some players and nothing is moved.
LEMMA ClosedOnly ==
    ASSUME TradePaired, TradeTypeOK, Agree, OffersApart, OffersInReach,
           NEW S \in SUBSET Traders, Close(S), UNCHANGED place
    PROVE  TradeConsistent' /\ OffersFrozen
<1>1. place' \in Spread
  BY DEF TradeTypeOK, Spread, Spots
<1>2. TradeConsistent'
  BY <1>1, UntouchedOffers DEF OffersInReach
<1> QED BY <1>2 DEF OffersFrozen

LEMMA RequestKeeps ==
    ASSUME TradePaired, TradeTypeOK, Agree, OffersApart, OffersInReach,
           NEW p \in Traders, NEW q \in Traders, NEW i \in Goods, RequestTrade(p, q, i)
    PROVE  TradeConsistent' /\ OffersFrozen
<1>1. /\ tradeState \in [Traders -> TradeStates]
      /\ tradePartner \in [Traders -> Traders \cup {NoOne}]
      /\ tradeItem \in [Traders -> Goods \cup {NoItem}]
      /\ tradeItems \in [Goods -> Traders \cup {NoOne}]
      /\ place \in Spread
  BY DEF TradeTypeOK, Spread, Spots
<1>2. /\ p # q /\ i \in Reach(place, p) /\ ~AlreadyTraded(i) /\ MayStart(p, q)
      /\ tradeState' = [tradeState EXCEPT ![p] = "initiated",
                           ![q] = IF @ = "none" THEN "acknowledge" ELSE @]
      /\ tradePartner' = [tradePartner EXCEPT ![p] = q, ![q] = p]
      /\ tradeItem' = [tradeItem EXCEPT ![p] = i]
      /\ tradeItems' = [tradeItems EXCEPT ![i] = p]
      /\ place' = place
  BY DEF RequestTrade
<1>3. /\ tradeItem[p] = NoItem
      /\ \/ tradePartner[p] = NoOne /\ tradePartner[q] = NoOne /\ tradeState[q] = "none"
            /\ tradeItem[q] = NoItem
         \/ tradePartner[p] = q /\ tradePartner[q] = p
  <2>1. CASE tradeState[p] = "none"
    <3>1. tradePartner[p] = NoOne /\ tradeItem[p] = NoItem
      BY <2>1 DEF TradePaired
    <3>2. tradePartner[q] # p
      BY <1>1, <3>1, SpotFacts DEF TradePaired
    <3>3. tradeState[q] = "none"
      BY <1>2, <3>2 DEF MayStart
    <3> QED BY <3>1, <3>3 DEF TradePaired
  <2>2. CASE tradeState[p] = "acknowledge" /\ tradePartner[p] = q
    BY <2>2, SpotFacts DEF TradePaired
  <2> QED BY <1>2, <2>1, <2>2 DEF MayStart
<1>4. /\ tradeState'[p] = "initiated" /\ tradePartner'[p] = q /\ tradeItem'[p] = i
      /\ tradeState'[q] = (IF tradeState[q] = "none" THEN "acknowledge" ELSE tradeState[q])
      /\ tradePartner'[q] = p /\ tradeItem'[q] = tradeItem[q]
      /\ \A r \in Traders \ {p, q} :
            /\ tradeState'[r] = tradeState[r] /\ tradePartner'[r] = tradePartner[r]
            /\ tradeItem'[r] = tradeItem[r]
      /\ tradeItems'[i] = p /\ \A j \in Goods \ {i} : tradeItems'[j] = tradeItems[j]
  BY <1>1, <1>2
<1>5. i # NoItem /\ p # NoOne /\ q # NoOne
  BY SpotFacts
<1>6. TradeTypeOK'
  BY <1>1, <1>2 DEF TradeTypeOK, TradeStates, Spread, Spots
<1>7. TradePaired'
  <2> SUFFICES ASSUME NEW r \in Traders
               PROVE  IF tradePartner'[r] = NoOne
                      THEN tradeState'[r] = "none" /\ tradeItem'[r] = NoItem
                      ELSE LET s == tradePartner'[r]
                           IN  /\ s # r /\ tradePartner'[s] = r
                               /\ tradeState'[r] # "none"
                               /\ tradeState'[r] = "initiated" => tradeItem'[r] # NoItem
                               /\ tradeState'[r] = "acknowledge" => tradeItem'[r] = NoItem
                               /\ tradeItem'[r] # NoItem \/ tradeItem'[s] # NoItem
                               /\ ~(tradeState'[r] = "accept" /\ tradeState'[s] = "accept")
    BY DEF TradePaired
  <2>1. CASE r = p
    BY <2>1, <1>2, <1>4, <1>5
  <2>2. CASE r = q
    <3>1. /\ tradeState'[q] # "none"
          /\ tradeState'[q] = "initiated" => tradeItem[q] # NoItem
          /\ tradeState'[q] = "acknowledge" => tradeItem[q] = NoItem
      <4>1. CASE tradePartner[q] = NoOne
        BY <4>1, <1>3, <1>4, <1>5
      <4>2. CASE tradePartner[q] = p
        <5>1. /\ tradeState[q] # "none"
              /\ tradeState[q] = "initiated" => tradeItem[q] # NoItem
              /\ tradeState[q] = "acknowledge" => tradeItem[q] = NoItem
          BY <4>2, <1>5 DEF TradePaired
        <5> QED BY <5>1, <1>4
      <4> QED BY <4>1, <4>2, <1>3
    <3> QED BY <2>2, <3>1, <1>2, <1>4, <1>5
  <2>3. CASE r \in Traders \ {p, q}
    <3>1. tradePartner[r] # NoOne => tradePartner[r] \in Traders \ {p, q}
      BY <2>3, <1>1, <1>3, SpotFacts DEF TradePaired
    <3> QED BY <2>3, <3>1, <1>4 DEF TradePaired
  <2> QED BY <2>1, <2>2, <2>3
<1>8. \A j \in Goods : tradeItems[j] # NoOne =>
         i # j /\ j \notin Inside(place, i) /\ i \notin Inside(place, j)
  BY <1>1, <1>2, OnlyBagsHold DEF AlreadyTraded, isHoldingItem
<1>9. \A r \in Traders : tradeItem[r] # NoItem =>
         /\ tradeItem[r] \in Goods /\ i # tradeItem[r] /\ r # p
         /\ tradeItem[r] \notin Inside(place, i) /\ i \notin Inside(place, tradeItem[r])
  BY <1>1, <1>3, <1>8, SpotFacts DEF Agree
<1>10. Agree'
  <2> SUFFICES ASSUME NEW j \in Goods, NEW r \in Traders
               PROVE  tradeItems'[j] = r <=> tradeItem'[r] = j
    BY DEF Agree
  <2>1. tradeItems[j] = r <=> tradeItem[r] = j
    BY DEF Agree
  <2>2. tradeItem'[r] = IF r = p THEN i ELSE tradeItem[r]
    BY <1>1, <1>2
  <2>3. CASE j = i
    BY <2>1, <2>2, <2>3, <1>4, <1>5, <1>9
  <2>4. CASE j # i
    BY <2>1, <2>2, <2>4, <1>3, <1>4, SpotFacts
  <2> QED BY <2>3, <2>4
<1>11. \A r \in Traders : tradeItem'[r] = IF r = p THEN i ELSE tradeItem[r]
  BY <1>1, <1>2
<1>12. OffersApart'
  <2> SUFFICES ASSUME NEW r \in Traders, NEW s \in Traders,
                      r # s, tradeItem'[r] # NoItem, tradeItem'[s] # NoItem
               PROVE  tradeItem'[r] # tradeItem'[s] /\ tradeItem'[s] \notin Inside(place, tradeItem'[r])
    BY <1>2 DEF OffersApart
  <2>1. CASE r = p
    BY <2>1, <1>9, <1>11
  <2>2. CASE s = p
    BY <2>2, <1>9, <1>11
  <2>3. CASE r # p /\ s # p
    BY <2>3, <1>11 DEF OffersApart
  <2> QED BY <2>1, <2>2, <2>3
<1>13. OffersInReach'
  BY <1>2, <1>11 DEF OffersInReach
<1>14. OffersFrozen
  BY <1>2 DEF OffersFrozen
<1> QED BY <1>6, <1>7, <1>10, <1>12, <1>13, <1>14, ConsistentParts, PTL

\* What an exchange is: both items or none, but for the named exception.
WholeExchange ==
    \A p \in Traders :
        place' # place /\ AcceptTrade(p) =>
           LET q == tradePartner[p]
           IN  /\ tradeItem[p] # NoItem /\ tradeItem[q] # NoItem
               /\ BothMoved(p, q) \/ Cheated(p, q)

LEMMA AcceptKeeps ==
    ASSUME TradePaired, TradeTypeOK, Agree, OffersApart, OffersInReach,
           NEW p \in Traders, AcceptTrade(p)
    PROVE  TradeConsistent' /\ OffersFrozen
<1>1. CASE Transfer(p, tradePartner[p]) /\ tradePartner[p] # NoOne
  BY <1>1, TransferKeeps
<1>2. CASE /\ tradeState[tradePartner[p]] # "accept"
           /\ tradeState' = [tradeState EXCEPT ![p] = "accept"]
           /\ UNCHANGED <<tradePartner, tradeItem, tradeItems, place>>
  <2>1. /\ tradeState \in [Traders -> TradeStates]
        /\ tradePartner \in [Traders -> Traders \cup {NoOne}]
    BY DEF TradeTypeOK
  <2>2. tradePartner[p] # NoOne /\ tradeState[p] \in {"acknowledge", "initiated"}
    BY DEF AcceptTrade
  <2>3. \A r \in Traders : tradeState'[r] = IF r = p THEN "accept" ELSE tradeState[r]
    BY <1>2, <2>1
  <2>4. TradePaired'
    <3> SUFFICES ASSUME NEW r \in Traders
                 PROVE  IF tradePartner[r] = NoOne
                        THEN tradeState'[r] = "none" /\ tradeItem[r] = NoItem
                        ELSE LET s == tradePartner[r]
                             IN  /\ s # r /\ tradePartner[s] = r
                                 /\ tradeState'[r] # "none"
                                 /\ tradeState'[r] = "initiated" => tradeItem[r] # NoItem
                                 /\ tradeState'[r] = "acknowledge" => tradeItem[r] = NoItem
                                 /\ tradeItem[r] # NoItem \/ tradeItem[s] # NoItem
                                 /\ ~(tradeState'[r] = "accept" /\ tradeState'[s] = "accept")
      BY <1>2 DEF TradePaired
    <3>1. CASE r = p
      BY <3>1, <1>2, <2>1, <2>2, <2>3 DEF TradePaired
    <3>2. CASE r # p
      BY <3>2, <1>2, <2>1, <2>2, <2>3 DEF TradePaired
    <3> QED BY <3>1, <3>2
  <2>5. TradeTypeOK' /\ Agree' /\ OffersApart' /\ OffersInReach'
    BY <1>2, <2>1 DEF TradeTypeOK, TradeStates, Agree, OffersApart, OffersInReach
  <2>6. OffersFrozen
    BY <1>2 DEF OffersFrozen
  <2> QED BY <2>4, <2>5, <2>6, ConsistentParts, PTL
<1> QED BY <1>1, <1>2 DEF AcceptTrade

LEMMA TradeStep ==
    TradeConsistent /\ [TradeNext]_tradeVars => TradeConsistent' /\ OffersFrozen /\ WholeExchange
<1> SUFFICES ASSUME TradeConsistent, [TradeNext]_tradeVars
             PROVE  TradeConsistent' /\ OffersFrozen /\ WholeExchange
  OBVIOUS
<1>1. TradePaired /\ TradeTypeOK /\ Agree /\ OffersApart /\ OffersInReach
  BY ConsistentParts
<1>2. WholeExchange
  <2> SUFFICES ASSUME NEW p \in Traders, AcceptTrade(p), place' # place
               PROVE  LET q == tradePartner[p]
                      IN  /\ tradeItem[p] # NoItem /\ tradeItem[q] # NoItem
                          /\ BothMoved(p, q) \/ Cheated(p, q)
    BY DEF WholeExchange
  <2>1. tradePartner[p] # NoOne /\ Transfer(p, tradePartner[p])
    BY DEF AcceptTrade
  <2> QED BY <1>1, <2>1, TransferKeeps
<1>3. ASSUME NEW p \in Traders, CloseTrade(p) \/ WalkAway(p) PROVE TradeConsistent' /\ OffersFrozen
  <2>1. Close({p}) /\ UNCHANGED place
    BY <1>3 DEF CloseTrade, WalkAway
  <2> QED BY <1>1, <2>1, ClosedOnly
<1>4. ASSUME NEW p \in Traders, AcceptTrade(p) PROVE TradeConsistent' /\ OffersFrozen
  BY <1>1, <1>4, AcceptKeeps
<1>5. ASSUME NEW p \in Traders, NEW q \in Traders, NEW i \in Goods, RequestTrade(p, q, i)
      PROVE  TradeConsistent' /\ OffersFrozen
  BY <1>1, <1>5, RequestKeeps
<1>6. ASSUME NEW p \in Traders, NEW i \in Goods, NEW to \in Traders \cup Bags \cup {Ground},
             MoveItem(p, i, to)
      PROVE  TradeConsistent' /\ OffersFrozen
  <2> DEFINE S == {r \in Traders : TakenOut(r, i) \/ PutInto(r, i, to)}
  <2>1. to \in Spots /\ place' = [place EXCEPT ![i] = to] /\ Close(S)
    BY <1>6 DEF MoveItem, Spots
  <2>2. /\ S \in SUBSET Traders
        /\ \A r \in Traders : TakenOut(r, i) => r \in S
        /\ to \in Bags => \A r \in Traders : PutInto(r, i, to) => r \in S
    OBVIOUS
  <2> HIDE DEF S
  <2> QED BY <1>1, <2>1, <2>2, MovedItem
<1>7. ASSUME NEW i \in Goods, DestroyItem(i) PROVE TradeConsistent' /\ OffersFrozen
  <2> DEFINE S == {r \in Traders : TakenOut(r, i)}
  <2>1. Nowhere \in Spots /\ Nowhere \notin Bags /\ place' = [place EXCEPT ![i] = Nowhere] /\ Close(S)
    BY <1>7, SpotFacts DEF DestroyItem
  <2>2. S \in SUBSET Traders /\ \A r \in Traders : TakenOut(r, i) => r \in S
    OBVIOUS
  <2> HIDE DEF S
  <2> QED BY <1>1, <2>1, <2>2, MovedItem
<1>8. CASE UNCHANGED tradeVars
  <2>1. TradePaired' /\ TradeTypeOK' /\ Agree' /\ OffersApart' /\ OffersInReach'
    BY <1>1, <1>8 DEF tradeVars, TradePaired, TradeTypeOK, Agree, OffersApart, OffersInReach
  <2>2. OffersFrozen
    BY <1>8 DEF tradeVars, OffersFrozen
  <2> QED BY <1>2, <2>1, <2>2, ConsistentParts, PTL
<1> QED BY <1>2, <1>3, <1>4, <1>5, <1>6, <1>7, <1>8 DEF TradeNext

LEMMA TradeStarts == TradeInit => TradeConsistent
<1> SUFFICES ASSUME TradeInit PROVE TradeConsistent
  OBVIOUS
<1>1. TradeTypeOK
  BY TradeAssumption DEF TradeInit, TradeTypeOK, TradeStates
<1>2. TradePaired /\ Agree /\ OffersApart /\ OffersInReach
  BY SpotFacts DEF TradeInit, TradePaired, Agree, OffersApart, OffersInReach
<1> QED BY <1>1, <1>2, ConsistentParts

\* The two sides of a trade agree, an exchange is whole - but for an item that
\* the move refuses although the test let it pass - and an offer that stands
\* is not changed, for any players, items, weights and capacities and
\* however deep containers lie in each other.
THEOREM TradeSoundHolds == TradeSpec => TradeSound
<1>1. TradeConsistent /\ [TradeNext]_tradeVars => [WholeExchange]_tradeVars /\ [OffersFrozen]_tradeVars
  BY TradeStep
<1>2. TradeSpec => []TradeConsistent
  BY TradeStarts, TradeStep, PTL DEF TradeSpec
<1>3. TradeSpec => [][WholeExchange]_tradeVars /\ [][OffersFrozen]_tradeVars
  BY <1>1, <1>2, PTL DEF TradeSpec
<1> QED BY <1>2, <1>3, PTL DEF TradeSound, TradeAllOrNothing, TradeOfferFrozen, WholeExchange, OffersFrozen

-----------------------------------------------------------------------------
(* Imbuements. *)

Gears ==
    [owner : [Wares -> Wearers \cup {NoWearer}], worn : SUBSET Wares, enabled : SUBSET Wares,
     left : [Wares -> 0..Lasting], bonus : [Wearers -> [Wares -> Int]],
     active : [Wearers -> 0..(Byte - 1)], imbuingItem : [Wearers -> Wares \cup {NoWare}],
     online : SUBSET Wearers, dead : SUBSET Wearers]

\* What is worn is somebody's, what is enabled is worn by a player who is in
\* the game, and nobody wears more than there are slots.
Tidy(g) ==
    /\ g \in Gears
    /\ g.enabled \subseteq g.worn
    /\ \A i \in g.worn : g.owner[i] # NoWearer
    /\ \A i \in g.enabled : g.owner[i] \in g.online
    /\ \A p \in Wearers : Cardinality(WornBy(g, p)) <= SlotCount

Bonuses(g, d) ==
    \A p \in g.online : \A i \in Wares \ d : g.bonus[p][i] = IF i \in Giving(g, p) THEN 1 ELSE 0

Counts(g, d) == \A p \in g.online : p \in d \/ g.active[p] = Cardinality(Giving(g, p))

ImbueInv == Tidy(imbue) /\ Bonuses(imbue, drifted) /\ Counts(imbue, drifted)

LEMMA ImbueSoundFollows == ImbueInv => ImbueSound
BY DEF ImbueInv, Tidy, Bonuses, Counts, ImbueSound, ImbueTypeOK, Gears

LEMMA GivingIs ==
    ASSUME NEW g, NEW p, NEW i
    PROVE  i \in Giving(g, p) <=> i \in g.worn /\ i \in g.enabled /\ g.owner[i] = p /\ g.left[i] > 0
BY DEF Giving, Lasts, WornBy

LEMMA WornSize ==
    ASSUME NEW g, Tidy(g), NEW p \in Wearers
    PROVE  /\ IsFiniteSet(WornBy(g, p)) /\ Cardinality(WornBy(g, p)) \in Nat
           /\ IsFiniteSet(Giving(g, p)) /\ Cardinality(Giving(g, p)) \in Nat
           /\ Cardinality(Giving(g, p)) <= Cardinality(WornBy(g, p))
<1>1. WornBy(g, p) \subseteq Wares /\ Giving(g, p) \subseteq WornBy(g, p)
  BY DEF Tidy, Gears, WornBy, Giving, Lasts
<1>2. IsFiniteSet(Wares)
  BY ImbueAssumption
<1> QED BY <1>1, <1>2, FS_Subset, FS_CardinalityType

\* The history: who is not in S and had not drifted must be right, and all
\* others are excepted or right.
LEMMA DriftsFacts ==
    ASSUME NEW S, Drifts(S)
    PROVE  /\ \A i \in Wares \ drifted' : i \notin drifted /\ i \notin S
           /\ \A p \in Wearers : (p \in drifted \/ p \in S) =>
                 p \in drifted' \/ imbue'.active[p] = Cardinality(Giving(imbue', p))
<1>1. drifted' = {x \in drifted \cup S :
                    x \in Wearers => imbue'.active[x] # Cardinality(Giving(imbue', x))}
  BY DEF Drifts
<1>2. \A i \in Wares : i \notin Wearers
  BY ImbueAssumption
<1> QED BY <1>1, <1>2

\* A step that keeps things tidy keeps the invariant if what it does not
\* except is right.
LEMMA DriftStep ==
    ASSUME NEW S, Drifts(S), Tidy(imbue'),
           \A p \in imbue'.online : \A i \in Wares : i \notin drifted /\ i \notin S =>
              imbue'.bonus[p][i] = IF i \in Giving(imbue', p) THEN 1 ELSE 0,
           \A p \in imbue'.online : p \notin drifted /\ p \notin S =>
              imbue'.active[p] = Cardinality(Giving(imbue', p))
    PROVE  ImbueInv'
<1>1. imbue'.online \subseteq Wearers
  BY DEF Tidy, Gears
<1>2. Bonuses(imbue', drifted')
  BY DriftsFacts DEF Bonuses
<1>3. Counts(imbue', drifted')
  BY <1>1, DriftsFacts DEF Counts
<1> QED BY <1>2, <1>3 DEF ImbueInv

\* Steps that change neither what is worn nor what is given.
SameGear(g, h) ==
    /\ h.worn = g.worn /\ h.enabled = g.enabled /\ h.left = g.left
    /\ h.bonus = g.bonus /\ h.active = g.active /\ h.online = g.online
    /\ \A i \in g.worn : h.owner[i] = g.owner[i]

LEMMA SameGearKeeps ==
    ASSUME ImbueInv, imbue' \in Gears, SameGear(imbue, imbue'), UNCHANGED drifted
    PROVE  ImbueInv'
<1>1. \A p : WornBy(imbue', p) = WornBy(imbue, p)
  BY DEF SameGear, WornBy
<1>2. \A p : Giving(imbue', p) = Giving(imbue, p)
  BY <1>1 DEF SameGear, Giving, Lasts
<1>3. Tidy(imbue')
  BY <1>1 DEF ImbueInv, Tidy, SameGear, Gears
<1>4. Bonuses(imbue', drifted') /\ Counts(imbue', drifted')
  BY <1>2 DEF ImbueInv, Bonuses, Counts, SameGear
<1> QED BY <1>3, <1>4 DEF ImbueInv

LEMMA HandlingKeeps ==
    ASSUME ImbueInv, NEW p \in Wearers, NEW i \in Wares,
           \/ PickUp(p, i) \/ PutDown(p, i) \/ openImbuementWindow(p, i)
           \/ playerCloseImbuementWindow(p)
    PROVE  ImbueInv'
<1>0. imbue \in Gears /\ NoWearer \notin Wearers
  BY ImbueAssumption DEF ImbueInv, Tidy
<1>1. CASE PickUp(p, i)
  <2>1. i \notin imbue.worn
    BY <1>1 DEF PickUp, ImbueInv, Tidy
  <2>2. imbue' \in Gears /\ SameGear(imbue, imbue') /\ UNCHANGED drifted
    BY <1>0, <1>1, <2>1 DEF PickUp, SameGear, Gears
  <2> QED BY <2>2, SameGearKeeps
<1>2. CASE PutDown(p, i)
  <2>1. imbue' \in Gears /\ SameGear(imbue, imbue') /\ UNCHANGED drifted
    BY <1>0, <1>2 DEF PutDown, SameGear, Gears
  <2> QED BY <2>1, SameGearKeeps
<1>3. CASE openImbuementWindow(p, i)
  <2>1. imbue' \in Gears /\ SameGear(imbue, imbue') /\ UNCHANGED drifted
    BY <1>0, <1>3 DEF openImbuementWindow, SameGear, Gears
  <2> QED BY <2>1, SameGearKeeps
<1>4. CASE playerCloseImbuementWindow(p)
  <2>1. imbue' \in Gears /\ SameGear(imbue, imbue') /\ UNCHANGED drifted
    BY <1>0, <1>4 DEF playerCloseImbuementWindow, SameGear, Gears
  <2> QED BY <2>1, SameGearKeeps
<1> QED BY <1>1, <1>2, <1>3, <1>4

LEMMA DeathKeeps ==
    ASSUME ImbueInv, NEW p \in Wearers, Perish(p) \/ Revive(p)
    PROVE  ImbueInv'
<1>0. imbue \in Gears
  BY DEF ImbueInv, Tidy
<1>1. CASE Perish(p)
  <2>1. imbue' \in Gears /\ SameGear(imbue, imbue') /\ UNCHANGED drifted
    BY <1>0, <1>1 DEF Perish, SameGear, Gears
  <2> QED BY <2>1, SameGearKeeps
<1>2. CASE Revive(p)
  <2>1. imbue' \in Gears /\ SameGear(imbue, imbue') /\ UNCHANGED drifted
    BY <1>0, <1>2 DEF Revive, SameGear, Gears
  <2> QED BY <2>1, SameGearKeeps
<1> QED BY <1>1, <1>2

LEMMA AddStats ==
    ASSUME NEW g \in Gears, NEW p \in Wearers, NEW S
    PROVE  LET a == addItemImbuementStats(g, p, S)
           IN  /\ a \in Gears /\ a.enabled = g.enabled /\ a.owner = g.owner /\ a.worn = g.worn
               /\ a.left = g.left /\ a.online = g.online /\ a.imbuingItem = g.imbuingItem
               /\ a.bonus[p] = [j \in Wares |-> IF j \in S THEN g.bonus[p][j] + 1 ELSE g.bonus[p][j]]
               /\ \A q \in Wearers : q # p => a.bonus[q] = g.bonus[q]
               /\ a.active = g.active
<1> DEFINE a == addItemImbuementStats(g, p, S)
           gain == [j \in Wares |-> IF j \in S THEN g.bonus[p][j] + 1 ELSE g.bonus[p][j]]
<1>1. gain \in [Wares -> Int]
  BY DEF Gears
<1>2. a = [g EXCEPT !.bonus = [g.bonus EXCEPT ![p] = gain]]
  BY DEF Gears, addItemImbuementStats
<1> HIDE DEF gain, a
<1>3. [g.bonus EXCEPT ![p] = gain] \in [Wearers -> [Wares -> Int]]
  BY <1>1 DEF Gears
<1>4. a.bonus[p] = gain /\ \A q \in Wearers : q # p => a.bonus[q] = g.bonus[q]
  BY <1>2 DEF Gears
<1>5. /\ a \in Gears /\ a.enabled = g.enabled /\ a.owner = g.owner /\ a.worn = g.worn
      /\ a.left = g.left /\ a.online = g.online /\ a.imbuingItem = g.imbuingItem
      /\ a.active = g.active
  BY <1>2, <1>3 DEF Gears
<1> QED BY <1>4, <1>5 DEF gain, a

LEMMA RemoveStats ==
    ASSUME NEW g \in Gears, NEW p \in Wearers, NEW S
    PROVE  LET a == removeItemImbuementStats(g, p, S)
           IN  /\ a \in Gears /\ a.enabled = g.enabled /\ a.owner = g.owner /\ a.worn = g.worn
               /\ a.left = g.left /\ a.online = g.online /\ a.imbuingItem = g.imbuingItem
               /\ a.bonus[p] = [j \in Wares |-> IF j \in S THEN g.bonus[p][j] - 1 ELSE g.bonus[p][j]]
               /\ \A q \in Wearers : q # p => a.bonus[q] = g.bonus[q]
               /\ a.active = g.active
<1> DEFINE a == removeItemImbuementStats(g, p, S)
           gain == [j \in Wares |-> IF j \in S THEN g.bonus[p][j] - 1 ELSE g.bonus[p][j]]
<1>1. gain \in [Wares -> Int]
  BY DEF Gears
<1>2. a = [g EXCEPT !.bonus = [g.bonus EXCEPT ![p] = gain]]
  BY DEF Gears, removeItemImbuementStats
<1> HIDE DEF gain, a
<1>3. [g.bonus EXCEPT ![p] = gain] \in [Wearers -> [Wares -> Int]]
  BY <1>1 DEF Gears
<1>4. a.bonus[p] = gain /\ \A q \in Wearers : q # p => a.bonus[q] = g.bonus[q]
  BY <1>2 DEF Gears
<1>5. /\ a \in Gears /\ a.enabled = g.enabled /\ a.owner = g.owner /\ a.worn = g.worn
      /\ a.left = g.left /\ a.online = g.online /\ a.imbuingItem = g.imbuingItem
      /\ a.active = g.active
  BY <1>2, <1>3 DEF Gears
<1> QED BY <1>4, <1>5 DEF gain, a

\* What EquipItem() does, field by field.
LEMMA EquipFields ==
    ASSUME NEW g \in Gears, NEW p \in Wearers, NEW S \in SUBSET Wares
    PROVE  LET h == EquipImbued(g, p, S)
               gives == Lasts(g, S \ g.enabled)
           IN  /\ h \in Gears /\ h.owner = g.owner /\ h.worn = g.worn /\ h.left = g.left
               /\ h.online = g.online /\ h.imbuingItem = g.imbuingItem
               /\ h.enabled = g.enabled \cup S
               /\ h.bonus[p] = [i \in Wares |-> IF i \in gives THEN g.bonus[p][i] + 1 ELSE g.bonus[p][i]]
               /\ h.active[p] = (g.active[p] + Cardinality(gives)) % Byte
               /\ \A q \in Wearers : q # p => h.bonus[q] = g.bonus[q] /\ h.active[q] = g.active[q]
<1> DEFINE gives == Lasts(g, S \ g.enabled)
           n == Cardinality(gives)
           e == [g EXCEPT !.enabled = @ \cup S]
           a == addItemImbuementStats(e, p, gives)
           h == increasePlayerActiveImbuements(a, p, n)
<1>1. n \in Nat /\ Byte \in Nat \ {0}
  <2>1. gives \in SUBSET Wares /\ IsFiniteSet(Wares)
    BY ImbueAssumption DEF Lasts
  <2> QED BY <2>1, ImbueAssumption, FS_Subset, FS_CardinalityType
<1>2. EquipImbued(g, p, S) = h
  BY DEF EquipImbued
<1> HIDE DEF n, gives
<1>3. /\ e \in Gears /\ e.enabled = g.enabled \cup S /\ e.owner = g.owner /\ e.worn = g.worn
      /\ e.left = g.left /\ e.online = g.online /\ e.imbuingItem = g.imbuingItem
      /\ e.bonus = g.bonus /\ e.active = g.active
  BY DEF Gears
<1> HIDE DEF e
<1>4. /\ a \in Gears /\ a.enabled = e.enabled /\ a.owner = e.owner /\ a.worn = e.worn
      /\ a.left = e.left /\ a.online = e.online /\ a.imbuingItem = e.imbuingItem
      /\ a.bonus[p] = [i \in Wares |-> IF i \in gives THEN e.bonus[p][i] + 1 ELSE e.bonus[p][i]]
      /\ \A q \in Wearers : q # p => a.bonus[q] = e.bonus[q]
      /\ a.active = e.active
  BY <1>3, AddStats
<1> HIDE DEF a
<1>5. (a.active[p] + n) % Byte \in 0..(Byte - 1)
  <2>1. a.active[p] \in Nat
    BY <1>1, <1>4 DEF Gears
  <2> QED BY <1>1, <2>1
<1>6. /\ h \in Gears /\ h.enabled = a.enabled /\ h.owner = a.owner /\ h.worn = a.worn
      /\ h.left = a.left /\ h.online = a.online /\ h.imbuingItem = a.imbuingItem
      /\ h.bonus = a.bonus /\ h.active[p] = (a.active[p] + n) % Byte
      /\ \A q \in Wearers : q # p => h.active[q] = a.active[q]
  BY <1>4, <1>5 DEF Gears, increasePlayerActiveImbuements
<1> HIDE DEF h
<1> QED BY <1>2, <1>3, <1>4, <1>6 DEF gives, n

\* What DeEquipItem() does.
LEMMA DeEquipFields ==
    ASSUME NEW g \in Gears, NEW p \in Wearers, NEW i \in Wares
    PROVE  LET h == DeEquipImbued(g, p, i)
               gave == Lasts(g, {i} \cap g.enabled)
           IN  /\ h \in Gears /\ h.owner = g.owner /\ h.worn = g.worn /\ h.left = g.left
               /\ h.online = g.online /\ h.imbuingItem = g.imbuingItem
               /\ h.enabled = g.enabled \ {i}
               /\ h.bonus[p] = [j \in Wares |-> IF j \in gave THEN g.bonus[p][j] - 1 ELSE g.bonus[p][j]]
               /\ h.active[p] = (g.active[p] - Cardinality(gave)) % Byte
               /\ \A q \in Wearers : q # p => h.bonus[q] = g.bonus[q] /\ h.active[q] = g.active[q]
<1> DEFINE gave == Lasts(g, {i} \cap g.enabled)
           n == Cardinality(gave)
           e == [g EXCEPT !.enabled = @ \ {i}]
           a == removeItemImbuementStats(e, p, gave)
           h == decreasePlayerActiveImbuements(a, p, n)
<1>1. n \in Nat /\ Byte \in Nat \ {0}
  <2>1. gave \in SUBSET Wares /\ IsFiniteSet(Wares)
    BY ImbueAssumption DEF Lasts
  <2> QED BY <2>1, ImbueAssumption, FS_Subset, FS_CardinalityType
<1>2. DeEquipImbued(g, p, i) = h
  BY DEF DeEquipImbued
<1> HIDE DEF n, gave
<1>3. /\ e \in Gears /\ e.enabled = g.enabled \ {i} /\ e.owner = g.owner /\ e.worn = g.worn
      /\ e.left = g.left /\ e.online = g.online /\ e.imbuingItem = g.imbuingItem
      /\ e.bonus = g.bonus /\ e.active = g.active
  BY DEF Gears
<1> HIDE DEF e
<1>4. /\ a \in Gears /\ a.enabled = e.enabled /\ a.owner = e.owner /\ a.worn = e.worn
      /\ a.left = e.left /\ a.online = e.online /\ a.imbuingItem = e.imbuingItem
      /\ a.bonus[p] = [j \in Wares |-> IF j \in gave THEN e.bonus[p][j] - 1 ELSE e.bonus[p][j]]
      /\ \A q \in Wearers : q # p => a.bonus[q] = e.bonus[q]
      /\ a.active = e.active
  BY <1>3, RemoveStats
<1> HIDE DEF a
<1>5. (a.active[p] - n) % Byte \in 0..(Byte - 1)
  <2>1. a.active[p] \in Nat
    BY <1>1, <1>4 DEF Gears
  <2> QED BY <1>1, <2>1
<1>6. /\ h \in Gears /\ h.enabled = a.enabled /\ h.owner = a.owner /\ h.worn = a.worn
      /\ h.left = a.left /\ h.online = a.online /\ h.imbuingItem = a.imbuingItem
      /\ h.bonus = a.bonus /\ h.active[p] = (a.active[p] - n) % Byte
      /\ \A q \in Wearers : q # p => h.active[q] = a.active[q]
  BY <1>4, <1>5 DEF Gears, decreasePlayerActiveImbuements
<1> HIDE DEF h
<1> QED BY <1>2, <1>3, <1>4, <1>6 DEF gave, n

LEMMA ModKeeps == ASSUME NEW n \in Nat, NEW b \in Nat \ {0}, n < b PROVE n % b = n
OBVIOUS

LEMMA JoinSize ==
    ASSUME NEW S, NEW T, IsFiniteSet(S), IsFiniteSet(T), S \cap T = {}
    PROVE  Cardinality(S \cup T) = Cardinality(S) + Cardinality(T)
<1>1. Cardinality(S) \in Nat /\ Cardinality(T) \in Nat /\ Cardinality(S \cap T) = 0
  BY FS_CardinalityType, FS_EmptySet
<1>2. Cardinality(S \cup T) = Cardinality(S) + Cardinality(T) - Cardinality(S \cap T)
  BY FS_Union
<1> QED BY <1>1, <1>2

\* An item comes into a slot.
LEMMA WornMore ==
    ASSUME NEW g, Tidy(g), NEW p \in Wearers, NEW i \in Wares, g.owner[i] = p, i \notin g.worn,
           Cardinality(WornBy(g, p)) < SlotCount, NEW h \in Gears,
           h.worn = g.worn \cup {i}, h.owner = g.owner
    PROVE  \A q \in Wearers : Cardinality(WornBy(h, q)) <= SlotCount
<1> TAKE q \in Wearers
<1>1. CASE q = p
  <2>1. WornBy(h, p) = WornBy(g, p) \cup {i} /\ i \notin WornBy(g, p)
    BY DEF WornBy
  <2>2. Cardinality(WornBy(h, p)) = Cardinality(WornBy(g, p)) + 1
    BY <2>1, WornSize, FS_AddElement
  <2> QED BY <1>1, <2>2, WornSize, ImbueAssumption
<1>2. CASE q # p
  <2>1. WornBy(h, q) = WornBy(g, q)
    BY <1>2 DEF WornBy
  <2> QED BY <2>1 DEF Tidy
<1> QED BY <1>1, <1>2

LEMMA WearKeeps ==
    ASSUME ImbueInv, NEW p \in Wearers, NEW i \in Wares, NEW meets \in BOOLEAN, Wear(p, i, meets)
    PROVE  ImbueInv'
<1> DEFINE g == [imbue EXCEPT !.worn = @ \cup {i}]
<1>0. /\ Tidy(imbue) /\ imbue \in Gears /\ p \in imbue.online /\ imbue.owner[i] = p
      /\ i \notin imbue.worn /\ i \notin imbue.enabled /\ Drifts({})
      /\ Cardinality(WornBy(imbue, p)) < SlotCount /\ p # NoWearer
  BY ImbueAssumption DEF ImbueInv, Tidy, Wear, Found
<1>1. /\ g \in Gears /\ g.worn = imbue.worn \cup {i} /\ g.owner = imbue.owner /\ g.left = imbue.left
      /\ g.enabled = imbue.enabled /\ g.online = imbue.online /\ g.bonus = imbue.bonus
      /\ g.active = imbue.active
  BY <1>0 DEF Gears
<1>2. imbue' = IF meets THEN EquipImbued(g, p, {i}) ELSE g
  BY DEF Wear
<1> HIDE DEF g
<1> DEFINE gives == Lasts(g, {i} \ g.enabled)
<1>3. CASE ~meets
  <2>1. imbue' = g
    BY <1>2, <1>3
  <2>2. \A q \in Wearers : Giving(imbue', q) = Giving(imbue, q)
    BY <1>0, <1>1, <2>1 DEF Giving, Lasts, WornBy
  <2>3. Tidy(imbue')
    <3>1. \A q \in Wearers : Cardinality(WornBy(g, q)) <= SlotCount
      BY <1>0, <1>1, WornMore
    <3> QED BY <1>0, <1>1, <2>1, <3>1 DEF Tidy
  <2>4. imbue'.online \subseteq Wearers
    BY <1>1, <2>1 DEF Gears
  <2> QED BY <1>0, <1>1, <2>1, <2>2, <2>3, <2>4, DriftStep DEF ImbueInv, Bonuses, Counts
<1>4. CASE meets
  <2>1. imbue' = EquipImbued(g, p, {i}) /\ {i} \in SUBSET Wares
    BY <1>2, <1>4
  <2>2. /\ imbue' \in Gears /\ imbue'.owner = imbue.owner /\ imbue'.worn = imbue.worn \cup {i}
        /\ imbue'.left = imbue.left /\ imbue'.online = imbue.online
        /\ imbue'.enabled = imbue.enabled \cup {i}
        /\ imbue'.bonus[p] = [j \in Wares |-> IF j \in gives THEN imbue.bonus[p][j] + 1 ELSE imbue.bonus[p][j]]
        /\ imbue'.active[p] = (imbue.active[p] + Cardinality(gives)) % Byte
        /\ \A q \in Wearers : q # p => imbue'.bonus[q] = imbue.bonus[q] /\ imbue'.active[q] = imbue.active[q]
    BY <1>1, <2>1, EquipFields
  <2>3. Tidy(imbue')
    <3>1. \A q \in Wearers : Cardinality(WornBy(imbue', q)) <= SlotCount
      BY <1>0, <2>2, WornMore
    <3> QED BY <1>0, <2>2, <3>1 DEF Tidy
  <2>4. /\ Giving(imbue', p) = Giving(imbue, p) \cup gives /\ Giving(imbue, p) \cap gives = {}
        /\ gives \subseteq {i}
    BY <1>0, <1>1, <2>2 DEF Giving, Lasts, WornBy
  <2>5. \A q \in Wearers : q # p => Giving(imbue', q) = Giving(imbue, q)
    BY <1>0, <1>1, <2>2 DEF Giving, Lasts, WornBy
  <2> HIDE DEF gives
  <2>6. imbue'.online \subseteq Wearers
    BY <2>2 DEF Gears
  <2>7. p \notin drifted => imbue'.active[p] = Cardinality(Giving(imbue', p))
    <3> HAVE p \notin drifted
    <3>1. imbue.active[p] = Cardinality(Giving(imbue, p))
      BY <1>0 DEF ImbueInv, Counts
    <3>2. IsFiniteSet(gives)
      BY <2>4, FS_Singleton, FS_Subset
    <3>3. Cardinality(Giving(imbue', p)) = Cardinality(Giving(imbue, p)) + Cardinality(gives)
      BY <1>0, <2>4, <3>2, WornSize, JoinSize
    <3>4. Cardinality(Giving(imbue', p)) \in Nat /\ Cardinality(Giving(imbue', p)) < Byte
      <4>1. Cardinality(WornBy(imbue', p)) <= SlotCount /\ SlotCount < Byte /\ SlotCount \in Nat /\ Byte \in Nat
        BY <2>3, ImbueAssumption DEF Tidy
      <4> QED BY <2>3, <4>1, WornSize
    <3> QED BY <2>2, <3>1, <3>3, <3>4, ModKeeps, ImbueAssumption
  <2>8. \A q \in imbue'.online : q \notin drifted => imbue'.active[q] = Cardinality(Giving(imbue', q))
    BY <2>2, <2>5, <2>6, <2>7 DEF ImbueInv, Counts
  <2>9. \A q \in imbue'.online : \A j \in Wares : j \notin drifted =>
           imbue'.bonus[q][j] = IF j \in Giving(imbue', q) THEN 1 ELSE 0
    <3>1. \A q \in imbue.online : \A j \in Wares : j \notin drifted =>
             imbue.bonus[q][j] = IF j \in Giving(imbue, q) THEN 1 ELSE 0
      BY DEF ImbueInv, Bonuses
    <3>2. \A j \in Wares : j \notin drifted =>
             imbue'.bonus[p][j] = IF j \in Giving(imbue', p) THEN 1 ELSE 0
      BY <1>0, <2>2, <2>4, <3>1
    <3> QED BY <2>2, <2>5, <2>6, <3>1, <3>2
  <2> QED BY <1>0, <2>3, <2>8, <2>9, DriftStep
<1> QED BY <1>3, <1>4

LEMMA UnwearKeeps ==
    ASSUME ImbueInv, NEW p \in Wearers, NEW i \in Wares, Unwear(p, i)
    PROVE  ImbueInv'
<1> DEFINE g == [imbue EXCEPT !.worn = @ \ {i}]
<1>0. /\ Tidy(imbue) /\ imbue \in Gears /\ p \in imbue.online /\ imbue.owner[i] = p
      /\ i \in imbue.worn /\ Drifts({})
  BY DEF ImbueInv, Tidy, Unwear, WornBy, Found
<1>1. /\ g \in Gears /\ g.worn = imbue.worn \ {i} /\ g.owner = imbue.owner /\ g.left = imbue.left
      /\ g.enabled = imbue.enabled /\ g.online = imbue.online /\ g.bonus = imbue.bonus
      /\ g.active = imbue.active
  BY <1>0 DEF Gears
<1>2. imbue' = DeEquipImbued(g, p, i)
  BY DEF Unwear
<1> HIDE DEF g
<1> DEFINE gave == Lasts(g, {i} \cap g.enabled)
<1>3. /\ imbue' \in Gears /\ imbue'.owner = imbue.owner /\ imbue'.worn = imbue.worn \ {i}
      /\ imbue'.left = imbue.left /\ imbue'.online = imbue.online
      /\ imbue'.enabled = imbue.enabled \ {i}
      /\ imbue'.bonus[p] = [j \in Wares |-> IF j \in gave THEN imbue.bonus[p][j] - 1 ELSE imbue.bonus[p][j]]
      /\ imbue'.active[p] = (imbue.active[p] - Cardinality(gave)) % Byte
      /\ \A q \in Wearers : q # p => imbue'.bonus[q] = imbue.bonus[q] /\ imbue'.active[q] = imbue.active[q]
  BY <1>1, <1>2, DeEquipFields
<1>4. Tidy(imbue')
  <2>1. \A q \in Wearers : Cardinality(WornBy(imbue', q)) <= SlotCount
    <3> TAKE q \in Wearers
    <3>1. WornBy(imbue', q) \subseteq WornBy(imbue, q)
      BY <1>3 DEF WornBy
    <3>2. Cardinality(WornBy(imbue', q)) <= Cardinality(WornBy(imbue, q)) /\ Cardinality(WornBy(imbue', q)) \in Nat
      BY <1>0, <3>1, WornSize, FS_Subset, FS_CardinalityType
    <3> QED BY <1>0, <3>2, WornSize, ImbueAssumption DEF Tidy
  <2> QED BY <1>0, <1>3, <2>1 DEF Tidy
<1>5. Giving(imbue, p) = Giving(imbue', p) \cup gave /\ Giving(imbue', p) \cap gave = {}
  BY <1>0, <1>1, <1>3 DEF Giving, Lasts, WornBy
<1>6. \A q \in Wearers : q # p => Giving(imbue', q) = Giving(imbue, q)
  BY <1>0, <1>1, <1>3 DEF Giving, Lasts, WornBy
<1> HIDE DEF gave
<1>7. imbue'.online \subseteq Wearers
  BY <1>3 DEF Gears
<1>8. p \notin drifted => imbue'.active[p] = Cardinality(Giving(imbue', p))
  <2> HAVE p \notin drifted
  <2>1. imbue.active[p] = Cardinality(Giving(imbue, p)) /\ imbue.active[p] \in 0..(Byte - 1)
    BY <1>0 DEF ImbueInv, Counts, Gears
  <2>2. IsFiniteSet(gave) /\ Cardinality(gave) \in Nat
    BY <1>0, <1>5, WornSize, FS_Subset, FS_CardinalityType
  <2>3. Cardinality(Giving(imbue, p)) = Cardinality(Giving(imbue', p)) + Cardinality(gave)
    BY <1>4, <1>5, <2>2, WornSize, JoinSize
  <2>4. Cardinality(Giving(imbue', p)) \in Nat /\ Byte \in Nat \ {0}
    BY <1>4, WornSize, ImbueAssumption
  <2>5. Cardinality(Giving(imbue', p)) < Byte
    BY <2>1, <2>2, <2>3, <2>4
  <2>6. imbue.active[p] - Cardinality(gave) = Cardinality(Giving(imbue', p))
    BY <2>1, <2>2, <2>3, <2>4
  <2> QED BY <1>3, <2>4, <2>5, <2>6, ModKeeps
<1>9. \A q \in imbue'.online : q \notin drifted => imbue'.active[q] = Cardinality(Giving(imbue', q))
  BY <1>3, <1>6, <1>7, <1>8 DEF ImbueInv, Counts
<1>10. \A q \in imbue'.online : \A j \in Wares : j \notin drifted =>
         imbue'.bonus[q][j] = IF j \in Giving(imbue', q) THEN 1 ELSE 0
  <2>1. \A q \in imbue.online : \A j \in Wares : j \notin drifted =>
           imbue.bonus[q][j] = IF j \in Giving(imbue, q) THEN 1 ELSE 0
    BY DEF ImbueInv, Bonuses
  <2>2. \A j \in Wares : j \notin drifted =>
           imbue'.bonus[p][j] = IF j \in Giving(imbue', p) THEN 1 ELSE 0
    BY <1>0, <1>3, <1>5, <2>1
  <2> QED BY <1>3, <1>6, <1>7, <2>1, <2>2
<1> QED BY <1>0, <1>4, <1>9, <1>10, DriftStep

LEMMA ApplyKeeps ==
    ASSUME ImbueInv, NEW p \in Wearers, playerApplyImbuement(p)
    PROVE  ImbueInv'
<1> DEFINE i == imbue.imbuingItem[p]
           g == [imbue EXCEPT !.left[i] = Lasting]
           S == (IF i \in imbue.worn THEN {p} ELSE {})
                  \cup (IF i \in imbue.worn \ imbue.enabled THEN {i} ELSE {})
<1>0. /\ Tidy(imbue) /\ imbue \in Gears /\ p \in imbue.online /\ i \in Wares
      /\ imbue.owner[i] = p /\ imbue.left[i] = 0 /\ Drifts(S)
  BY DEF ImbueInv, Tidy, Gears, playerApplyImbuement, Found
<1>1. imbue' = IF i \in imbue.worn THEN addItemImbuementStats(g, p, {i}) ELSE g
  BY DEF playerApplyImbuement
<1> HIDE DEF i, S
<1>2. /\ g \in Gears /\ g.worn = imbue.worn /\ g.owner = imbue.owner /\ g.enabled = imbue.enabled
      /\ g.online = imbue.online /\ g.bonus = imbue.bonus /\ g.active = imbue.active
      /\ g.left[i] > 0 /\ \A j \in Wares : j # i => g.left[j] = imbue.left[j]
  <2> DEFINE left == [imbue.left EXCEPT ![i] = Lasting]
  <2>1. left \in [Wares -> 0..Lasting] /\ left[i] > 0 /\ \A j \in Wares : j # i => left[j] = imbue.left[j]
    BY <1>0, ImbueAssumption DEF Gears
  <2>2. g = [imbue EXCEPT !.left = left]
    BY <1>0 DEF Gears
  <2> HIDE DEF left, g
  <2> QED BY <1>0, <2>1, <2>2 DEF Gears
<1> HIDE DEF g
<1>3. /\ imbue' \in Gears /\ imbue'.worn = imbue.worn /\ imbue'.owner = imbue.owner
      /\ imbue'.enabled = imbue.enabled /\ imbue'.online = imbue.online /\ imbue'.active = imbue.active
      /\ imbue'.left[i] > 0 /\ \A j \in Wares : j # i => imbue'.left[j] = imbue.left[j]
      /\ \A q \in Wearers : q # p => imbue'.bonus[q] = imbue.bonus[q]
      /\ \A j \in Wares : imbue'.bonus[p][j] =
            IF j = i /\ i \in imbue.worn THEN imbue.bonus[p][j] + 1 ELSE imbue.bonus[p][j]
  <2>1. CASE i \in imbue.worn
    <3>1. imbue' = addItemImbuementStats(g, p, {i})
      BY <1>1, <2>1
    <3>2. /\ imbue' \in Gears /\ imbue'.worn = g.worn /\ imbue'.owner = g.owner /\ imbue'.left = g.left
          /\ imbue'.enabled = g.enabled /\ imbue'.online = g.online /\ imbue'.active = g.active
          /\ imbue'.bonus[p] = [j \in Wares |-> IF j \in {i} THEN g.bonus[p][j] + 1 ELSE g.bonus[p][j]]
          /\ \A q \in Wearers : q # p => imbue'.bonus[q] = g.bonus[q]
      BY <1>2, <3>1, AddStats
    <3> QED BY <1>2, <2>1, <3>2
  <2>2. CASE i \notin imbue.worn
    BY <1>1, <1>2, <2>2
  <2> QED BY <2>1, <2>2
<1>4. Tidy(imbue')
  <2>1. \A q \in Wearers : WornBy(imbue', q) = WornBy(imbue, q)
    BY <1>3 DEF WornBy
  <2> QED BY <1>0, <1>3, <2>1 DEF Tidy
<1>5. /\ imbue.online \subseteq Wearers /\ imbue.worn \subseteq Wares
      /\ \A q \in imbue.online : imbue.bonus[q] \in [Wares -> Int]
  BY <1>0 DEF Gears
<1>6. \A q \in Wearers : \A j \in Wares :
        j \in Giving(imbue', q) <=> j \in Giving(imbue, q) \/ (j = i /\ q = p /\ i \in imbue.worn /\ i \in imbue.enabled)
  BY <1>0, <1>3, GivingIs
<1>7. i \notin Giving(imbue, p)
  BY <1>0, GivingIs
<1>8. \A q : Giving(imbue', q) \subseteq Wares /\ Giving(imbue, q) \subseteq Wares
  BY <1>3, <1>5 DEF Giving, Lasts, WornBy
<1>9. \A q \in imbue'.online : q \notin drifted /\ q \notin S => imbue'.active[q] = Cardinality(Giving(imbue', q))
  <2> SUFFICES ASSUME NEW q \in imbue.online, q \notin drifted, q \notin S
               PROVE  Giving(imbue', q) = Giving(imbue, q)
    BY <1>3 DEF ImbueInv, Counts
  <2>1. q # p \/ i \notin imbue.worn
    BY DEF S
  <2> QED BY <1>5, <1>6, <1>8, <2>1
<1>10. \A q \in imbue'.online : \A j \in Wares : j \notin drifted /\ j \notin S =>
         imbue'.bonus[q][j] = IF j \in Giving(imbue', q) THEN 1 ELSE 0
  <2> SUFFICES ASSUME NEW q \in imbue.online, NEW j \in Wares, j \notin drifted, j \notin S
               PROVE  imbue'.bonus[q][j] = IF j \in Giving(imbue', q) THEN 1 ELSE 0
    BY <1>3
  <2>1. imbue.bonus[q][j] = IF j \in Giving(imbue, q) THEN 1 ELSE 0
    BY DEF ImbueInv, Bonuses
  <2>2. j = i => i \notin imbue.worn \/ i \in imbue.enabled
    BY DEF S
  <2>3. q \in Wearers
    BY <1>5
  <2>4. CASE q # p \/ j # i \/ i \notin imbue.worn
    BY <1>3, <1>6, <2>1, <2>3, <2>4
  <2>5. CASE q = p /\ j = i /\ i \in imbue.worn
    BY <1>3, <1>6, <1>7, <2>1, <2>2, <2>3, <2>5
  <2> QED BY <2>4, <2>5
<1> QED BY <1>0, <1>4, <1>9, <1>10, DriftStep

LEMMA ClearKeeps ==
    ASSUME ImbueInv, NEW p \in Wearers, playerClearImbuement(p)
    PROVE  ImbueInv'
<1> DEFINE i == imbue.imbuingItem[p]
           g == [imbue EXCEPT !.left[i] = 0]
           S == ({imbue.owner[i]} \cap Wearers)
                  \cup (IF i \in imbue.worn /\ (imbue.owner[i] # p \/ i \notin imbue.enabled)
                        THEN {i} ELSE {})
<1>0. /\ Tidy(imbue) /\ imbue \in Gears /\ p \in imbue.online /\ i \in Wares
      /\ imbue.left[i] > 0 /\ Drifts(S)
  BY DEF ImbueInv, Tidy, Gears, playerClearImbuement, Found
<1>1. imbue' = IF i \in WornBy(imbue, p) THEN removeItemImbuementStats(g, p, {i}) ELSE g
  BY DEF playerClearImbuement
<1> HIDE DEF i, S
<1>2. /\ g \in Gears /\ g.worn = imbue.worn /\ g.owner = imbue.owner /\ g.enabled = imbue.enabled
      /\ g.online = imbue.online /\ g.bonus = imbue.bonus /\ g.active = imbue.active
      /\ g.left[i] = 0 /\ \A j \in Wares : j # i => g.left[j] = imbue.left[j]
  <2> DEFINE left == [imbue.left EXCEPT ![i] = 0]
  <2>1. left \in [Wares -> 0..Lasting] /\ left[i] = 0 /\ \A j \in Wares : j # i => left[j] = imbue.left[j]
    BY <1>0, ImbueAssumption DEF Gears
  <2>2. g = [imbue EXCEPT !.left = left]
    BY <1>0 DEF Gears
  <2> HIDE DEF left, g
  <2> QED BY <1>0, <2>1, <2>2 DEF Gears
<1> HIDE DEF g
<1>3. /\ imbue' \in Gears /\ imbue'.worn = imbue.worn /\ imbue'.owner = imbue.owner
      /\ imbue'.enabled = imbue.enabled /\ imbue'.online = imbue.online /\ imbue'.active = imbue.active
      /\ imbue'.left[i] = 0 /\ \A j \in Wares : j # i => imbue'.left[j] = imbue.left[j]
      /\ \A q \in Wearers : q # p => imbue'.bonus[q] = imbue.bonus[q]
      /\ \A j \in Wares : imbue'.bonus[p][j] =
            IF j = i /\ i \in WornBy(imbue, p) THEN imbue.bonus[p][j] - 1 ELSE imbue.bonus[p][j]
  <2>1. CASE i \in WornBy(imbue, p)
    <3>1. imbue' = removeItemImbuementStats(g, p, {i})
      BY <1>1, <2>1
    <3>2. /\ imbue' \in Gears /\ imbue'.worn = g.worn /\ imbue'.owner = g.owner /\ imbue'.left = g.left
          /\ imbue'.enabled = g.enabled /\ imbue'.online = g.online /\ imbue'.active = g.active
          /\ imbue'.bonus[p] = [j \in Wares |-> IF j \in {i} THEN g.bonus[p][j] - 1 ELSE g.bonus[p][j]]
          /\ \A q \in Wearers : q # p => imbue'.bonus[q] = g.bonus[q]
      BY <1>2, <3>1, RemoveStats
    <3> QED BY <1>2, <2>1, <3>2
  <2>2. CASE i \notin WornBy(imbue, p)
    BY <1>1, <1>2, <2>2
  <2> QED BY <2>1, <2>2
<1>4. Tidy(imbue')
  <2>1. \A q \in Wearers : WornBy(imbue', q) = WornBy(imbue, q)
    BY <1>3 DEF WornBy
  <2> QED BY <1>0, <1>3, <2>1 DEF Tidy
<1>5. /\ imbue.online \subseteq Wearers /\ imbue.worn \subseteq Wares
      /\ \A q \in imbue.online : imbue.bonus[q] \in [Wares -> Int]
      /\ i \in WornBy(imbue, p) <=> i \in imbue.worn /\ imbue.owner[i] = p
  BY <1>0 DEF Gears, WornBy
<1>6. \A q \in Wearers : \A j \in Wares :
        j \in Giving(imbue', q) <=> j \in Giving(imbue, q) /\ j # i
  BY <1>0, <1>3, GivingIs
<1>7. \A q \in Wearers : i \in Giving(imbue, q) <=> i \in imbue.worn /\ i \in imbue.enabled /\ imbue.owner[i] = q
  BY <1>0, GivingIs
<1>8. \A q : Giving(imbue', q) \subseteq Wares /\ Giving(imbue, q) \subseteq Wares
  BY <1>3, <1>5 DEF Giving, Lasts, WornBy
<1>9. \A q \in imbue'.online : q \notin drifted /\ q \notin S => imbue'.active[q] = Cardinality(Giving(imbue', q))
  <2> SUFFICES ASSUME NEW q \in imbue.online, q \notin drifted, q \notin S
               PROVE  Giving(imbue', q) = Giving(imbue, q)
    BY <1>3 DEF ImbueInv, Counts
  <2>1. q \in Wearers /\ imbue.owner[i] # q
    BY <1>5 DEF S
  <2> QED BY <1>6, <1>7, <1>8, <2>1
<1>10. \A q \in imbue'.online : \A j \in Wares : j \notin drifted /\ j \notin S =>
         imbue'.bonus[q][j] = IF j \in Giving(imbue', q) THEN 1 ELSE 0
  <2> SUFFICES ASSUME NEW q \in imbue.online, NEW j \in Wares, j \notin drifted, j \notin S
               PROVE  imbue'.bonus[q][j] = IF j \in Giving(imbue', q) THEN 1 ELSE 0
    BY <1>3
  <2>1. imbue.bonus[q][j] = IF j \in Giving(imbue, q) THEN 1 ELSE 0
    BY DEF ImbueInv, Bonuses
  <2>2. j = i => i \notin imbue.worn \/ (i \in imbue.enabled /\ imbue.owner[i] = p)
    BY DEF S
  <2>3. q \in Wearers
    BY <1>5
  <2>4. CASE j # i
    BY <1>3, <1>6, <2>1, <2>3, <2>4
  <2>5. CASE j = i
    BY <1>3, <1>5, <1>6, <1>7, <2>1, <2>2, <2>3, <2>5
  <2> QED BY <2>4, <2>5
<1> QED BY <1>0, <1>4, <1>9, <1>10, DriftStep

LEMMA LogOffKeeps ==
    ASSUME ImbueInv, NEW p \in Wearers, LogOff(p)
    PROVE  ImbueInv'
<1>0. Tidy(imbue) /\ imbue \in Gears /\ Drifts({p})
  BY DEF ImbueInv, Tidy, LogOff
<1>1. /\ imbue'.online = imbue.online \ {p} /\ imbue'.enabled = imbue.enabled \ WornBy(imbue, p)
      /\ imbue'.owner = imbue.owner /\ imbue'.worn = imbue.worn /\ imbue'.left = imbue.left
      /\ imbue'.active = imbue.active /\ imbue' \in Gears
      /\ \A q \in Wearers : q # p => imbue'.bonus[q] = imbue.bonus[q]
  <2> DEFINE win == [q \in Wearers |-> IF q = p \/ (imbue.imbuingItem[q] \in Wares /\ imbue.owner[imbue.imbuingItem[q]] = p)
                                       THEN NoWare ELSE imbue.imbuingItem[q]]
             zero == [i \in Wares |-> 0]
             bon == [imbue.bonus EXCEPT ![p] = zero]
  <2>1. zero \in [Wares -> Int] /\ win \in [Wearers -> Wares \cup {NoWare}]
    BY <1>0 DEF Gears
  <2>2. imbue' = [imbue EXCEPT !.online = @ \ {p}, !.dead = @ \ {p}, !.enabled = @ \ WornBy(imbue, p), !.bonus = bon, !.imbuingItem = win]
    BY <1>0 DEF LogOff, Gears
  <2> HIDE DEF zero, win
  <2>3. bon \in [Wearers -> [Wares -> Int]] /\ \A q \in Wearers : q # p => bon[q] = imbue.bonus[q]
    BY <1>0, <2>1 DEF Gears
  <2> HIDE DEF bon
  <2> QED BY <1>0, <2>1, <2>2, <2>3 DEF Gears
<1>2. \A q : WornBy(imbue', q) = WornBy(imbue, q)
  BY <1>1 DEF WornBy
<1>3. \A q : q # p => Giving(imbue', q) = Giving(imbue, q)
  BY <1>1, <1>2 DEF Giving, Lasts, WornBy
<1>4. Tidy(imbue')
  <2>1. \A i \in imbue'.enabled : imbue'.owner[i] \in imbue'.online
    BY <1>0, <1>1 DEF Tidy, WornBy
  <2> QED BY <1>0, <1>1, <1>2, <2>1 DEF Tidy
<1>5. imbue'.online \subseteq Wearers
  BY <1>1 DEF Gears
<1> QED BY <1>0, <1>1, <1>3, <1>4, <1>5, DriftStep DEF ImbueInv, Bonuses, Counts

\* What is loaded: nothing but the time left in what p wears, and his bonuses.
LEMMA LoadingFields ==
    ASSUME NEW g \in Gears, NEW p \in Wearers
    PROVE  LET h == Loading(g, p)
           IN  /\ h \in Gears /\ h.owner = g.owner /\ h.worn = g.worn /\ h.enabled = g.enabled
               /\ h.online = g.online /\ h.active = g.active /\ h.imbuingItem = g.imbuingItem
               /\ \A j \in Wares : j \notin WornBy(g, p) => h.left[j] = g.left[j]
               /\ \A q \in Wearers : q # p => h.bonus[q] = g.bonus[q]
<1> DEFINE S == Lasts(g, WornBy(g, p) \ Aggressive)
           left == [j \in Wares |-> IF j \in S THEN g.left[j] - 1 ELSE g.left[j]]
           gain == [j \in Wares |-> IF j \in S /\ g.left[j] = 1 THEN -1 ELSE 0]
           bonus == [g.bonus EXCEPT ![p] = gain]
           h == Loading(g, p)
<1>1. S \subseteq WornBy(g, p) /\ \A j \in S : g.left[j] > 0
  BY DEF Lasts
<1>2. h = [g EXCEPT !.left = left, !.bonus = bonus]
  BY DEF Loading, Gears
<1> HIDE DEF S
<1>3. left \in [Wares -> 0..Lasting] /\ \A j \in Wares : j \notin WornBy(g, p) => left[j] = g.left[j]
  <2>1. \A j \in Wares : g.left[j] \in 0..Lasting /\ Lasting \in Nat
    BY ImbueAssumption DEF Gears
  <2>2. \A j \in Wares : left[j] \in 0..Lasting
    BY <1>1, <2>1
  <2> QED BY <1>1, <2>2
<1>4. gain \in [Wares -> Int]
  OBVIOUS
<1> HIDE DEF left, gain
<1>5. bonus \in [Wearers -> [Wares -> Int]] /\ \A q \in Wearers : q # p => bonus[q] = g.bonus[q]
  BY <1>4 DEF Gears
<1> HIDE DEF bonus, h
<1>6. /\ h \in Gears /\ h.owner = g.owner /\ h.worn = g.worn /\ h.enabled = g.enabled
      /\ h.online = g.online /\ h.active = g.active /\ h.imbuingItem = g.imbuingItem
      /\ h.left = left /\ h.bonus = bonus
  BY <1>2, <1>3, <1>5 DEF Gears
<1> QED BY <1>3, <1>5, <1>6 DEF h

LEMMA LoadAndSaveKeeps ==
    ASSUME ImbueInv, NEW p \in Wearers, LoadAndSave(p)
    PROVE  ImbueInv'
<1>0. Tidy(imbue) /\ imbue \in Gears /\ Drifts({}) /\ p \notin imbue.online
  BY DEF ImbueInv, Tidy, LoadAndSave
<1>1. /\ Loading(imbue, p) \in Gears
      /\ \A j \in Wares : j \notin WornBy(imbue, p) => Loading(imbue, p).left[j] = imbue.left[j]
  BY <1>0, LoadingFields
<1>2. /\ imbue' \in Gears /\ imbue'.owner = imbue.owner /\ imbue'.worn = imbue.worn
      /\ imbue'.enabled = imbue.enabled /\ imbue'.online = imbue.online /\ imbue'.active = imbue.active
      /\ imbue'.bonus = imbue.bonus /\ imbue'.left = Loading(imbue, p).left
  <2> DEFINE left == Loading(imbue, p).left
  <2>1. left \in [Wares -> 0..Lasting] /\ imbue' = [imbue EXCEPT !.left = left]
    BY <1>1 DEF Gears, LoadAndSave
  <2> HIDE DEF left
  <2>2. /\ imbue' \in Gears /\ imbue'.owner = imbue.owner /\ imbue'.worn = imbue.worn
        /\ imbue'.enabled = imbue.enabled /\ imbue'.online = imbue.online /\ imbue'.active = imbue.active
        /\ imbue'.bonus = imbue.bonus /\ imbue'.left = left
    BY <1>0, <2>1 DEF Gears
  <2> QED BY <2>2 DEF left
<1>3. \A q : WornBy(imbue', q) = WornBy(imbue, q)
  BY <1>2 DEF WornBy
<1>4. \A q \in imbue.online : Giving(imbue', q) = Giving(imbue, q)
  <2>1. imbue.worn \subseteq Wares
    BY <1>0 DEF Gears
  <2>2. \A q \in imbue.online : \A j \in WornBy(imbue, q) : imbue'.left[j] = imbue.left[j]
    BY <1>0, <1>1, <1>2, <2>1 DEF WornBy
  <2> QED BY <1>2, <1>3, <2>2 DEF Giving, Lasts
<1>5. Tidy(imbue')
  BY <1>0, <1>2, <1>3 DEF Tidy
<1> QED BY <1>0, <1>2, <1>4, <1>5, DriftStep DEF ImbueInv, Bonuses, Counts

LEMMA ReturnKeeps ==
    ASSUME ImbueInv, NEW p \in Wearers, NEW met, ReturnToGame(p, met)
    PROVE  ImbueInv'
<1> DEFINE g == Loading(imbue, p)
           e == EquipImbued(g, p, met)
           S == {i \in Wares : g.bonus[p][i] # 0} \cup {p}
<1>0. /\ Tidy(imbue) /\ imbue \in Gears /\ Drifts(S) /\ p \notin imbue.online
      /\ met \subseteq WornBy(imbue, p) /\ imbue' = [e EXCEPT !.online = @ \cup {p}]
  BY DEF ImbueInv, Tidy, ReturnToGame
<1>1. /\ g \in Gears /\ g.owner = imbue.owner /\ g.worn = imbue.worn /\ g.enabled = imbue.enabled
      /\ g.online = imbue.online /\ g.active = imbue.active
      /\ \A j \in Wares : j \notin WornBy(imbue, p) => g.left[j] = imbue.left[j]
      /\ \A q \in Wearers : q # p => g.bonus[q] = imbue.bonus[q]
  BY <1>0, LoadingFields
<1> HIDE DEF g
<1> DEFINE gives == Lasts(g, met \ g.enabled)
<1>2. met \in SUBSET Wares /\ imbue.worn \subseteq Wares
  BY <1>0 DEF WornBy, Gears
<1>3. /\ e \in Gears /\ e.owner = imbue.owner /\ e.worn = imbue.worn /\ e.left = g.left
      /\ e.online = imbue.online /\ e.enabled = imbue.enabled \cup met
      /\ e.bonus[p] = [j \in Wares |-> IF j \in gives THEN g.bonus[p][j] + 1 ELSE g.bonus[p][j]]
      /\ \A q \in Wearers : q # p => e.bonus[q] = imbue.bonus[q] /\ e.active[q] = imbue.active[q]
  BY <1>1, <1>2, EquipFields
<1> HIDE DEF e
<1>4. /\ imbue' \in Gears /\ imbue'.owner = imbue.owner /\ imbue'.worn = imbue.worn /\ imbue'.left = g.left
      /\ imbue'.online = imbue.online \cup {p} /\ imbue'.enabled = imbue.enabled \cup met
      /\ imbue'.bonus = e.bonus /\ imbue'.active = e.active
  BY <1>0, <1>3 DEF Gears
<1>5. \A q : WornBy(imbue', q) = WornBy(imbue, q)
  BY <1>4 DEF WornBy
<1>6. \A i \in WornBy(imbue, p) : i \notin imbue.enabled
  BY <1>0 DEF Tidy, WornBy
<1>7. Giving(imbue', p) = gives
  BY <1>0, <1>1, <1>4, <1>6 DEF Giving, Lasts, WornBy
<1>8. \A q \in Wearers : q # p => Giving(imbue', q) = Giving(imbue, q)
  <2> TAKE q \in Wearers
  <2> HAVE q # p
  <2>1. \A j \in WornBy(imbue, q) : j \notin met /\ imbue'.left[j] = imbue.left[j]
    BY <1>0, <1>1, <1>2, <1>4 DEF WornBy
  <2> QED BY <1>4, <1>5, <2>1 DEF Giving, Lasts
<1>9. Tidy(imbue')
  <2>1. imbue'.enabled \subseteq imbue'.worn /\ \A i \in imbue'.enabled : imbue'.owner[i] \in imbue'.online
    BY <1>0, <1>4 DEF Tidy, WornBy
  <2> QED BY <1>0, <1>4, <1>5, <2>1 DEF Tidy
<1>10. imbue'.online \subseteq Wearers
  BY <1>4 DEF Gears
<1>11. \A q \in imbue'.online : q \notin drifted /\ q \notin S => imbue'.active[q] = Cardinality(Giving(imbue', q))
  <2>1. p \in S
    OBVIOUS
  <2> QED BY <1>3, <1>4, <1>8, <1>10, <2>1 DEF ImbueInv, Counts
<1>12. \A j \in Wares : j \notin S => imbue'.bonus[p][j] = IF j \in Giving(imbue', p) THEN 1 ELSE 0
  <2> SUFFICES ASSUME NEW j \in Wares, j \notin S
               PROVE  e.bonus[p][j] = IF j \in gives THEN 1 ELSE 0
    BY <1>4, <1>7
  <2>1. g.bonus[p][j] = 0
    OBVIOUS
  <2> QED BY <1>3, <2>1
<1>13. \A q \in imbue'.online : \A j \in Wares : j \notin drifted /\ j \notin S =>
         imbue'.bonus[q][j] = IF j \in Giving(imbue', q) THEN 1 ELSE 0
  BY <1>3, <1>4, <1>8, <1>10, <1>12 DEF ImbueInv, Bonuses
<1> QED BY <1>0, <1>9, <1>11, <1>13, DriftStep

\* Those of S that are over after this round, of one player.
Over(g, S, p) == {i \in S : g.left[i] = 1 /\ g.owner[i] = p}

LEMMA RunDownFields ==
    ASSUME NEW g \in Gears, NEW S \in SUBSET Wares, \A i \in S : g.left[i] > 0
    PROVE  LET h == RunDown(g, S)
           IN  /\ h \in Gears /\ h.owner = g.owner /\ h.worn = g.worn /\ h.enabled = g.enabled
               /\ h.online = g.online /\ h.imbuingItem = g.imbuingItem
               /\ \A i \in Wares : h.left[i] = IF i \in S THEN g.left[i] - 1 ELSE g.left[i]
               /\ \A p \in Wearers : \A i \in Wares :
                     h.bonus[p][i] = IF i \in Over(g, S, p) THEN g.bonus[p][i] - 1 ELSE g.bonus[p][i]
               /\ \A p \in Wearers : h.active[p] = (g.active[p] - Cardinality(Over(g, S, p))) % Byte
<1> DEFINE left == [i \in Wares |-> IF i \in S THEN g.left[i] - 1 ELSE g.left[i]]
           Gain(p) == [i \in Wares |-> IF i \in Over(g, S, p) THEN g.bonus[p][i] - 1 ELSE g.bonus[p][i]]
           bonus == [p \in Wearers |-> Gain(p)]
           active == [p \in Wearers |-> (g.active[p] - Cardinality(Over(g, S, p))) % Byte]
           h == RunDown(g, S)
<1>1. h = [g EXCEPT !.left = left, !.bonus = bonus, !.active = active]
  BY DEF RunDown, Gears, Over
<1>2. left \in [Wares -> 0..Lasting]
  <2>1. \A i \in Wares : g.left[i] \in 0..Lasting /\ Lasting \in Nat
    BY ImbueAssumption DEF Gears
  <2>2. \A i \in Wares : left[i] \in 0..Lasting
    BY <2>1
  <2> QED BY <2>2
<1>3. bonus \in [Wearers -> [Wares -> Int]]
  <2>1. \A p \in Wearers : Gain(p) \in [Wares -> Int]
    BY DEF Gears
  <2> HIDE DEF Gain
  <2> QED BY <2>1
<1>4. active \in [Wearers -> 0..(Byte - 1)]
  <2>1. \A p \in Wearers : g.active[p] \in Nat /\ Byte \in Nat \ {0}
    BY ImbueAssumption DEF Gears
  <2>2. \A p \in Wearers : Cardinality(Over(g, S, p)) \in Nat
    <3> TAKE p \in Wearers
    <3>1. Over(g, S, p) \subseteq Wares
      BY DEF Over
    <3> QED BY <3>1, ImbueAssumption, FS_Subset, FS_CardinalityType
  <2>3. \A n \in Nat, c \in Nat : (n - c) % Byte \in 0..(Byte - 1)
    BY ImbueAssumption
  <2>4. \A p \in Wearers : active[p] \in 0..(Byte - 1)
    BY <2>1, <2>2, <2>3
  <2> QED BY <2>4
<1> HIDE DEF left, bonus, active, h
<1>5. /\ h \in Gears /\ h.owner = g.owner /\ h.worn = g.worn /\ h.enabled = g.enabled
      /\ h.online = g.online /\ h.imbuingItem = g.imbuingItem
      /\ h.left = left /\ h.bonus = bonus /\ h.active = active
  BY <1>1, <1>2, <1>3, <1>4 DEF Gears
<1>6. \A p \in Wearers : \A i \in Wares :
         bonus[p][i] = IF i \in Over(g, S, p) THEN g.bonus[p][i] - 1 ELSE g.bonus[p][i]
  BY DEF bonus
<1> QED BY <1>5, <1>6 DEF left, active, h

LEMMA CheckKeeps ==
    ASSUME ImbueInv, NEW visited, NEW calm, checkImbuements(visited, calm)
    PROVE  ImbueInv'
<1> DEFINE Visit(p) == updateInventoryImbuement(imbue, p, p \in calm)
           R == UNION {Visit(p) : p \in visited}
           g == RunDown(imbue, R)
           h == [g EXCEPT !.active = [p \in Wearers |-> IF p \in Found(imbue) THEN @[p] ELSE 0]]
           idle == {i \in imbue.worn \ imbue.enabled : imbue.left[i] = 1 /\ imbue.owner[i] \in visited}
           S == idle \cup {imbue.owner[i] : i \in idle} \cup imbue.dead
<1>0. /\ Tidy(imbue) /\ imbue \in Gears /\ visited \subseteq imbue.online /\ Drifts(S)
      /\ imbue' = h \/ imbue' = g
  BY DEF ImbueInv, Tidy, checkImbuements, Found
<1>1. /\ imbue.online \subseteq Wearers /\ imbue.worn \subseteq Wares
      /\ \A q \in imbue.online : imbue.bonus[q] \in [Wares -> Int]
      /\ \A i \in Wares : imbue.left[i] \in Nat
  BY <1>0, ImbueAssumption DEF Gears
<1>2. \A i \in R : i \in imbue.worn /\ imbue.owner[i] \in visited /\ imbue.left[i] > 0
  BY DEF updateInventoryImbuement, Lasts, WornBy
<1> HIDE DEF R
<1>3. /\ g \in Gears /\ g.owner = imbue.owner /\ g.worn = imbue.worn /\ g.enabled = imbue.enabled
      /\ g.online = imbue.online
      /\ \A i \in Wares : g.left[i] = IF i \in R THEN imbue.left[i] - 1 ELSE imbue.left[i]
      /\ \A p \in Wearers : \A i \in Wares :
            g.bonus[p][i] = IF i \in Over(imbue, R, p) THEN imbue.bonus[p][i] - 1 ELSE imbue.bonus[p][i]
      /\ \A p \in Wearers : g.active[p] = (imbue.active[p] - Cardinality(Over(imbue, R, p))) % Byte
  <2>1. R \in SUBSET Wares /\ \A i \in R : imbue.left[i] > 0
    BY <1>1, <1>2
  <2> QED BY <1>0, <2>1, RunDownFields
<1> HIDE DEF g
<1>4. /\ imbue' \in Gears /\ imbue'.owner = g.owner /\ imbue'.worn = g.worn /\ imbue'.enabled = g.enabled
      /\ imbue'.online = g.online /\ imbue'.left = g.left /\ imbue'.bonus = g.bonus
      /\ \A p \in Found(imbue) : imbue'.active[p] = g.active[p]
  <2> DEFINE active == [p \in Wearers |-> IF p \in Found(imbue) THEN g.active[p] ELSE 0]
  <2>1. active \in [Wearers -> 0..(Byte - 1)] /\ \A p \in Found(imbue) : active[p] = g.active[p]
    BY <1>1, <1>3, ImbueAssumption DEF Gears, Found
  <2>2. h = [g EXCEPT !.active = active]
    BY <1>3 DEF Gears
  <2> HIDE DEF active, h
  <2>3. CASE imbue' = h
    BY <1>3, <2>1, <2>2, <2>3 DEF Gears
  <2>4. CASE imbue' = g
    BY <1>3, <2>4
  <2> QED BY <1>0, <2>3, <2>4
<1> HIDE DEF h
<1>5. \A q : WornBy(imbue', q) = WornBy(imbue, q)
  BY <1>3, <1>4 DEF WornBy
<1>6. Tidy(imbue')
  BY <1>0, <1>3, <1>4, <1>5 DEF Tidy
<1>7. \A q : Giving(imbue', q) = Giving(imbue, q) \ Over(imbue, R, q)
  <2> SUFFICES ASSUME NEW q, NEW i
               PROVE  i \in Giving(imbue', q) <=> i \in Giving(imbue, q) /\ i \notin Over(imbue, R, q)
    OBVIOUS
  <2>1. i \in Giving(imbue, q) \/ i \in Giving(imbue', q) => i \in Wares /\ imbue.owner[i] = q
    BY <1>1, <1>3, <1>4, GivingIs
  <2>2. CASE i \in Wares /\ imbue.owner[i] = q
    <3>1. imbue'.left[i] > 0 <=> imbue.left[i] > 0 /\ ~(i \in R /\ imbue.left[i] = 1)
      BY <1>1, <1>2, <1>3, <1>4, <2>2
    <3>2. i \in Over(imbue, R, q) <=> i \in R /\ imbue.left[i] = 1
      BY <2>2 DEF Over
    <3> QED BY <1>3, <1>4, <3>1, <3>2, GivingIs
  <2> QED BY <2>1, <2>2
<1>8. \A q \in Wearers : \A i \in Over(imbue, R, q) : i \in Giving(imbue, q) \/ (i \in S /\ q \in S)
  <2> TAKE q \in Wearers
  <2> TAKE i \in Over(imbue, R, q)
  <2>1. i \in R /\ imbue.left[i] = 1 /\ imbue.owner[i] = q
    BY DEF Over
  <2>2. i \notin imbue.enabled => i \in idle
    BY <1>2, <2>1
  <2>3. i \in imbue.enabled => i \in Giving(imbue, q)
    BY <1>2, <2>1, GivingIs
  <2> QED BY <2>1, <2>2, <2>3
<1> HIDE DEF S
<1>9. \A q \in imbue'.online : q \notin drifted /\ q \notin S => imbue'.active[q] = Cardinality(Giving(imbue', q))
  <2> SUFFICES ASSUME NEW q \in imbue.online, q \notin drifted, q \notin S
               PROVE  imbue'.active[q] = Cardinality(Giving(imbue', q))
    BY <1>3, <1>4
  <2>0. q \in Found(imbue)
    BY DEF Found, S
  <2> DEFINE O == Over(imbue, R, q)
  <2>1. q \in Wearers /\ O \subseteq Giving(imbue, q)
    BY <1>1, <1>8
  <2>2. imbue'.active[q] = (imbue.active[q] - Cardinality(O)) % Byte
    BY <1>3, <1>4, <2>0, <2>1
  <2>3. Giving(imbue, q) = Giving(imbue', q) \cup O /\ Giving(imbue', q) \cap O = {}
    BY <1>7, <2>1
  <2> HIDE DEF O
  <2>4. imbue.active[q] = Cardinality(Giving(imbue, q)) /\ imbue.active[q] \in 0..(Byte - 1)
    BY <1>0, <2>1 DEF ImbueInv, Counts, Gears
  <2>5. IsFiniteSet(O) /\ Cardinality(O) \in Nat
    BY <1>0, <2>1, WornSize, FS_Subset, FS_CardinalityType
  <2>6. Cardinality(Giving(imbue, q)) = Cardinality(Giving(imbue', q)) + Cardinality(O)
    BY <1>6, <2>1, <2>3, <2>5, WornSize, JoinSize
  <2>7. Cardinality(Giving(imbue', q)) \in Nat /\ Byte \in Nat \ {0}
    BY <1>6, <2>1, WornSize, ImbueAssumption
  <2>8. imbue.active[q] - Cardinality(O) = Cardinality(Giving(imbue', q))
    BY <2>4, <2>5, <2>6, <2>7
  <2>9. Cardinality(Giving(imbue', q)) < Byte
    BY <2>4, <2>5, <2>6, <2>7
  <2> QED BY <2>2, <2>7, <2>8, <2>9, ModKeeps
<1>10. \A q \in imbue'.online : \A j \in Wares : j \notin drifted /\ j \notin S =>
         imbue'.bonus[q][j] = IF j \in Giving(imbue', q) THEN 1 ELSE 0
  <2> SUFFICES ASSUME NEW q \in imbue.online, NEW j \in Wares, j \notin drifted, j \notin S
               PROVE  imbue'.bonus[q][j] = IF j \in Giving(imbue', q) THEN 1 ELSE 0
    BY <1>3, <1>4
  <2>1. imbue.bonus[q][j] = IF j \in Giving(imbue, q) THEN 1 ELSE 0
    BY DEF ImbueInv, Bonuses
  <2>2. j \in Over(imbue, R, q) => j \in Giving(imbue, q)
    BY <1>1, <1>8
  <2> QED BY <1>1, <1>3, <1>4, <1>7, <2>1, <2>2
<1> QED BY <1>0, <1>6, <1>9, <1>10, DriftStep

LEMMA ImbueStart == ImbueInit => ImbueInv
<1> SUFFICES ASSUME ImbueInit PROVE ImbueInv
  OBVIOUS
<1> DEFINE zero == [i \in Wares |-> 0]
           zeros == [p \in Wearers |-> zero]
<1>1. zero \in [Wares -> Int] /\ zero \in [Wares -> 0..Lasting]
  BY ImbueAssumption
<1>2. imbue = [owner |-> [i \in Wares |-> NoWearer], worn |-> {}, enabled |-> {},
               left |-> zero, bonus |-> zeros, active |-> [p \in Wearers |-> 0],
               imbuingItem |-> [p \in Wearers |-> NoWare], online |-> Wearers, dead |-> {}] /\ drifted = {}
  BY DEF ImbueInit
<1>3. \A p \in Wearers : \A i \in Wares : zeros[p][i] = 0
  OBVIOUS
<1> HIDE DEF zero
<1>4. zeros \in [Wearers -> [Wares -> Int]]
  BY <1>1
<1> HIDE DEF zeros
<1>5. imbue \in Gears
  BY <1>1, <1>2, <1>4, ImbueAssumption DEF Gears
<1>6. /\ imbue.worn = {} /\ imbue.enabled = {} /\ imbue.bonus = zeros /\ imbue.online = Wearers
      /\ \A p \in Wearers : imbue.active[p] = 0
  BY <1>2
<1>7. \A p : WornBy(imbue, p) = {} /\ Giving(imbue, p) = {}
  BY <1>6 DEF WornBy, Giving, Lasts
<1>8. Cardinality({}) = 0
  BY FS_EmptySet
<1>9. Tidy(imbue)
  BY <1>5, <1>6, <1>7, <1>8, ImbueAssumption DEF Tidy
<1>10. Bonuses(imbue, drifted) /\ Counts(imbue, drifted)
  BY <1>3, <1>6, <1>7, <1>8 DEF Bonuses, Counts
<1> QED BY <1>9, <1>10 DEF ImbueInv

LEMMA ImbueStep == ImbueInv /\ [ImbueNext]_imbueVars => ImbueInv'
<1> SUFFICES ASSUME ImbueInv, [ImbueNext]_imbueVars PROVE ImbueInv'
  OBVIOUS
<1>1. CASE UNCHANGED imbueVars
  <2>1. imbue' = imbue /\ drifted' = drifted
    BY <1>1 DEF imbueVars
  <2> QED BY <2>1 DEF ImbueInv
<1>2. CASE \E p \in Wearers, i \in Wares : \E meets \in BOOLEAN : Wear(p, i, meets)
  BY <1>2, WearKeeps
<1>3. CASE \E p \in Wearers, i \in Wares : Unwear(p, i)
  BY <1>3, UnwearKeeps
<1>4. CASE \E p \in Wearers, i \in Wares : PickUp(p, i) \/ PutDown(p, i) \/ openImbuementWindow(p, i)
  BY <1>4, HandlingKeeps
<1>5. CASE \E p \in Wearers : playerCloseImbuementWindow(p)
  <2>1. PICK p \in Wearers : playerCloseImbuementWindow(p)
    BY <1>5
  <2>2. imbue.imbuingItem[p] \in Wares
    BY <2>1 DEF playerCloseImbuementWindow, ImbueInv, Tidy, Gears
  <2> QED BY <2>1, <2>2, HandlingKeeps
<1>6. CASE \E p \in Wearers : playerApplyImbuement(p)
  BY <1>6, ApplyKeeps
<1>7. CASE \E p \in Wearers : playerClearImbuement(p)
  BY <1>7, ClearKeeps
<1>8. CASE \E p \in Wearers : LogOff(p)
  BY <1>8, LogOffKeeps
<1>9. CASE \E p \in Wearers : LoadAndSave(p)
  BY <1>9, LoadAndSaveKeeps
<1>10. CASE \E p \in Wearers : \E met \in SUBSET WornBy(imbue, p) : ReturnToGame(p, met)
  BY <1>10, ReturnKeeps
<1>11. CASE \E visited \in SUBSET Wearers : \E calm \in SUBSET visited : checkImbuements(visited, calm)
  BY <1>11, CheckKeeps
<1>12. CASE \E p \in Wearers : Perish(p) \/ Revive(p)
  BY <1>12, DeathKeeps
<1> QED BY <1>1, <1>2, <1>3, <1>4, <1>5, <1>6, <1>7, <1>8, <1>9, <1>10, <1>11, <1>12 DEF ImbueNext, ImbueSteps

\* A player has the bonus of exactly the imbuements that last in what he
\* wears, and Game::playersActiveImbuements counts them, but for what the
\* history variable excepts: for any number of players and items.  (Player::
\* addItemImbuementStats, updateInventoryImbuement, Game::checkImbuements.)
THEOREM ImbueSoundHolds == ImbueSpec => []ImbueSound
<1>1. ImbueInit => ImbueInv
  BY ImbueStart
<1>2. ImbueInv /\ [ImbueNext]_imbueVars => ImbueInv'
  BY ImbueStep
<1>3. ImbueInv => ImbueSound
  BY ImbueSoundFollows
<1> QED BY <1>1, <1>2, <1>3, PTL DEF ImbueSpec

-----------------------------------------------------------------------------
(* A player and his conditions: what the invariant says, with conditions   *)
(* that have left the list and are still to be ended.                      *)

Vals == {0} \cup UNION {{c.val : c \in v.spells} : v \in Adventures}
Looks == {NoLook} \cup Vals \cup UNION {v.looks : v \in Adventures}
Outfits == [type : Looks, mount : BOOLEAN]
Suppressible == UNION {Gear[s].suppress : s \in DOMAIN Gear}

\* Conditions as they are on a player.
Numeric == SpeedKinds \cup {"attributes"}
Afflictions ==
    {c \in [kind : Kinds, id : Int, sub : Int, left : Int, val : Vals, off : BOOLEAN] :
        /\ c.kind \in Numeric => c.val \in Int
        /\ c.kind = "manashield" => c.val \in Nat
        /\ c.kind = "outfit" => c.sub = 0
        /\ c.off => c.kind = "attributes"
        /\ c.id > 0 => c = ItemCondition(c.kind, c.id)}

Shapes ==
    [conds : SUBSET Afflictions, varSpeed : Int, varSkill : Int, manaShield : Int,
     canUseDefense : BOOLEAN, default : Outfits, look : Outfits, shown : Outfits,
     wasMounted : BOOLEAN, pz : BOOLEAN, alive : BOOLEAN,
     slots : SUBSET DOMAIN Gear, enabled : SUBSET DOMAIN Gear, suppressed : SUBSET Suppressible,
     level : Levels]
Bodies == {b \in Shapes : IsFiniteSet(b.conds)}

Of(A, K) == {c \in A : c.kind \in K}

\* The state b of a player is sound, except that the conditions R, which have
\* left his list, have not been ended yet; o is what the property excepts.
Whole(b, R) ==
    /\ b \in Bodies /\ R \in SUBSET Afflictions /\ IsFiniteSet(R) /\ b.conds \cap R = {}
    /\ \A c, d \in b.conds \cup R : SameKey(c, d) => c = d

Paid(b, R) ==
    b.varSpeed = SumVal(Of(b.conds \cup R, SpeedKinds))
                   + (IF b.default.mount THEN MountSpeed ELSE 0) + GearSpeed(b.enabled)

Gain(b) == GearSkill(b.enabled, b.level)
Skilled(b, R) == b.varSkill = SumVal(Of(b.conds \cup R, {"attributes"})) + Gain(b)

Seen(b, R) ==
    /\ isInvisible(b) => b.shown = Unmounted(NoLook)
    /\ ~isInvisible(b) /\ Of(R, {"invisible"}) = {} => b.shown = b.look

Alone(A, kind) == \A c, d \in Of(A, {kind}) : c = d

Dressed(b, R, o) ==
    "outfit" \notin o =>
        /\ b.default.mount => \A c \in Of(b.conds, {"outfit"}) : c.left < 0
        /\ Alone(b.conds \cup R, "outfit")
        /\ Of(R, {"outfit"}) = {} =>
              /\ Of(b.conds, {"outfit"}) = {} => b.look = b.default
              /\ \A c \in Of(b.conds, {"outfit"}) : c.left >= 0 => b.look = Unmounted(c.val)

Paced(b, o) ==
    "speed" \in o \/ ~\E c, d \in b.conds : c.kind = "haste" /\ d.kind = "paralyze" /\ c.left >= 0 /\ d.left >= 0

Defended(b, R, o) ==
    "attributes" \notin o =>
        /\ \A c, d \in Of(b.conds \cup R, {"attributes"}) : c.off => c = d
        /\ b.canUseDefense <=> ~\E c \in b.conds \cup R : c.off

\* "unloaded": conditions that go with the magic shield may be still to come.
Shielded(b, R, o) ==
    "manashield" \notin o =>
        /\ Alone(b.conds \cup R, "manashield")
        /\ \/ Of(R, {"manashield"}) # {}
           \/ "unloaded" \in o /\ Of(b.conds, {"manashield"}) = {}
           \/ b.manaShield > 0 <=> \E c \in Of(b.conds, {"manashield"}) : c.val > 0

Owed(b, R, o) ==
    /\ Whole(b, R) /\ Seen(b, R) /\ Dressed(b, R, o)
    /\ "mount" \in o \/ Paid(b, R)
    /\ "skill" \in o \/ Skilled(b, R)
    /\ Paced(b, o) /\ Defended(b, R, o) /\ Shielded(b, R, o)

\* What is not touched when conditions start and end.
SameRest(b, h) ==
    /\ h.enabled = b.enabled /\ h.slots = b.slots /\ h.suppressed = b.suppressed
    /\ h.wasMounted = b.wasMounted /\ h.pz = b.pz /\ h.alive = b.alive /\ h.level = b.level

-----------------------------------------------------------------------------
LEMMA ValSum ==
    ASSUME NEW X, IsFiniteSet(X), \A x \in X : x.val \in Int
    PROVE  /\ SumVal(X) \in Int
           /\ \A c \in X : SumVal(X) = SumVal(X \ {c}) + c.val
<1> DEFINE f == [x \in X |-> x.val]
<1>1. f \in [X -> Int]
  OBVIOUS
<1>2. SumFunction(f) \in Int /\ \A c \in X : SumFunction(f) = f[c] + SumFunction(Without(f, X, c))
  <2> HIDE DEF f
  <2> QED BY <1>1, SumFacts
<1>3. ASSUME NEW c \in X PROVE SumVal(X) = SumVal(X \ {c}) + c.val
  <2> DEFINE g == [x \in X \ {c} |-> x.val]
  <2>1. Without(f, X, c) = g /\ f[c] = c.val /\ f[c] \in Int
    BY DEF Without
  <2>2. SumFunction(g) \in Int
    <3>1. IsFiniteSet(X \ {c}) /\ g \in [X \ {c} -> Int]
      BY FS_Subset
    <3> HIDE DEF g
    <3> QED BY <3>1, SumFacts
  <2>3. SumVal(X) = SumFunction(f) /\ SumVal(X \ {c}) = SumFunction(g)
    BY DEF SumVal
  <2> HIDE DEF f, g
  <2> QED BY <1>2, <2>1, <2>2, <2>3
<1> QED BY <1>2, <1>3 DEF SumVal

LEMMA ValAdd ==
    ASSUME NEW X, IsFiniteSet(X), \A x \in X : x.val \in Int, NEW c, c \notin X, c.val \in Int
    PROVE  SumVal(X \cup {c}) = SumVal(X) + c.val
<1>1. IsFiniteSet(X \cup {c}) /\ (X \cup {c}) \ {c} = X
  BY FS_AddElement
<1> QED BY <1>1, ValSum

LEMMA GearSum ==
    ASSUME NEW X \in SUBSET DOMAIN Gear
    PROVE  /\ GearSpeed(X) \in Int
           /\ \A s \in X : GearSpeed(X) = GearSpeed(X \ {s}) + Gear[s].speed
<1> DEFINE f == [x \in X |-> Gear[x].speed]
<1>0. IsFiniteSet(X)
  <2>1. X \subseteq 1..10
    BY ConditionsAssumption
  <2>2. IsFiniteSet(1..10)
    BY FS_Interval, 1 \in Int, 10 \in Int
  <2> QED BY <2>1, <2>2, FS_Subset
<1>1. f \in [X -> Int]
  BY ConditionsAssumption
<1>2. SumFunction(f) \in Int /\ \A c \in X : SumFunction(f) = f[c] + SumFunction(Without(f, X, c))
  <2> HIDE DEF f
  <2> QED BY <1>0, <1>1, SumFacts
<1>3. ASSUME NEW c \in X PROVE GearSpeed(X) = GearSpeed(X \ {c}) + Gear[c].speed
  <2> DEFINE g == [x \in X \ {c} |-> Gear[x].speed]
  <2>1. Without(f, X, c) = g /\ f[c] = Gear[c].speed /\ f[c] \in Int
    BY <1>1 DEF Without
  <2>2. SumFunction(g) \in Int
    <3>1. IsFiniteSet(X \ {c}) /\ g \in [X \ {c} -> Int]
      BY <1>0, FS_Subset, ConditionsAssumption
    <3> HIDE DEF g
    <3> QED BY <3>1, SumFacts
  <2>3. GearSpeed(X) = SumFunction(f) /\ GearSpeed(X \ {c}) = SumFunction(g)
    BY DEF GearSpeed
  <2> HIDE DEF f, g
  <2> QED BY <1>2, <2>1, <2>2, <2>3
<1> QED BY <1>2, <1>3 DEF GearSpeed

LEMMA GainSum ==
    ASSUME NEW X \in SUBSET DOMAIN Gear, NEW l \in Levels
    PROVE  /\ GearSkill(X, l) \in Int
           /\ \A s \in X : GearSkill(X, l) = GearSkill(X \ {s}, l) + Gear[s].skill[l]
<1> DEFINE f == [x \in X |-> Gear[x].skill[l]]
<1>0. IsFiniteSet(X)
  <2>1. X \subseteq 1..10
    BY ConditionsAssumption
  <2>2. IsFiniteSet(1..10)
    BY FS_Interval, 1 \in Int, 10 \in Int
  <2> QED BY <2>1, <2>2, FS_Subset
<1>1. f \in [X -> Int]
  BY ConditionsAssumption
<1>2. SumFunction(f) \in Int /\ \A c \in X : SumFunction(f) = f[c] + SumFunction(Without(f, X, c))
  <2> HIDE DEF f
  <2> QED BY <1>0, <1>1, SumFacts
<1>3. ASSUME NEW c \in X PROVE GearSkill(X, l) = GearSkill(X \ {c}, l) + Gear[c].skill[l]
  <2> DEFINE g == [x \in X \ {c} |-> Gear[x].skill[l]]
  <2>1. Without(f, X, c) = g /\ f[c] = Gear[c].skill[l] /\ f[c] \in Int
    BY <1>1 DEF Without
  <2>2. SumFunction(g) \in Int
    <3>1. IsFiniteSet(X \ {c}) /\ g \in [X \ {c} -> Int]
      BY <1>0, FS_Subset, ConditionsAssumption
    <3> HIDE DEF g
    <3> QED BY <3>1, SumFacts
  <2>3. GearSkill(X, l) = SumFunction(f) /\ GearSkill(X \ {c}, l) = SumFunction(g)
    BY DEF GearSkill
  <2> HIDE DEF f, g
  <2> QED BY <1>2, <2>1, <2>2, <2>3
<1> QED BY <1>2, <1>3 DEF GearSkill

LEMMA GainType == ASSUME NEW b \in Bodies PROVE Gain(b) \in Int
BY GainSum DEF Gain, Bodies, Shapes

LEMMA GainSame == ASSUME NEW b, NEW h, SameRest(b, h) PROVE Gain(h) = Gain(b)
BY DEF Gain, SameRest

\* The conditions of a class that has numbers.
LEMMA OfSum ==
    ASSUME NEW A \in SUBSET Afflictions, IsFiniteSet(A), NEW K \in SUBSET Numeric
    PROVE  /\ SumVal(Of(A, K)) \in Int
           /\ \A c \in A : c.kind \in K => SumVal(Of(A, K)) = SumVal(Of(A \ {c}, K)) + c.val /\ c.val \in Int
           /\ \A c \in A : c.kind \notin K => SumVal(Of(A, K)) = SumVal(Of(A \ {c}, K))
<1>1. IsFiniteSet(Of(A, K)) /\ \A x \in Of(A, K) : x.val \in Int
  <2>1. Of(A, K) \subseteq A
    BY DEF Of
  <2>2. IsFiniteSet(Of(A, K))
    BY <2>1, FS_Subset
  <2> QED BY <2>2 DEF Of, Afflictions
<1>2. \A c \in A : c.kind \in K => c \in Of(A, K) /\ Of(A \ {c}, K) = Of(A, K) \ {c}
  BY DEF Of
<1>3. \A c \in A : c.kind \notin K => Of(A \ {c}, K) = Of(A, K)
  BY DEF Of
<1> QED BY <1>1, <1>2, <1>3, ValSum

\* A condition c that has left the list is ended.
LEMMA EndFields ==
    ASSUME NEW b \in Bodies, NEW c \in Afflictions
    PROVE  LET h == endCondition(b, c)
           IN  /\ h \in Bodies /\ h.conds = b.conds /\ h.default = b.default /\ SameRest(b, h)
               /\ h.varSpeed = IF c.kind \in SpeedKinds THEN b.varSpeed - c.val ELSE b.varSpeed
               /\ h.varSkill = IF c.kind = "attributes" THEN b.varSkill - c.val ELSE b.varSkill
               /\ c.kind = "attributes" => (h.canUseDefense <=> b.canUseDefense \/ c.off)
               /\ c.kind # "attributes" => h.canUseDefense = b.canUseDefense
               /\ h.manaShield = IF c.kind = "manashield" THEN 0 ELSE b.manaShield
               /\ h.look = IF c.kind = "outfit" THEN b.default ELSE b.look
               /\ h.shown = IF isInvisible(b) \/ c.kind \notin {"outfit", "invisible"} THEN b.shown
                            ELSE IF c.kind = "outfit" THEN b.default ELSE b.look
<1> DEFINE h == endCondition(b, c)
<1>0. c.kind \in Kinds /\ (c.kind \in Numeric => c.val \in Int)
  BY DEF Afflictions
<1>1. CASE c.kind \in SpeedKinds
  <2>2. c.kind \notin {"outfit", "invisible", "manashield", "attributes"}
    BY <1>1 DEF SpeedKinds
  <2>1. h = [b EXCEPT !.varSpeed = @ + (-c.val)] /\ c.val \in Int
    BY <1>0, <1>1, <2>2 DEF endCondition, endSpeed, changeSpeed, Numeric
  <2> HIDE DEF h
  <2> QED BY <1>1, <2>1, <2>2 DEF Bodies, Shapes, SameRest, h
<1>2. CASE c.kind = "invisible"
  <2>1. h = IF isInvisible(b) THEN b ELSE [b EXCEPT !.shown = b.look]
    BY <1>2 DEF endCondition, endInvisible, internalCreatureChangeVisible, SpeedKinds
  <2>2. c.kind \notin SpeedKinds
    BY <1>2 DEF SpeedKinds
  <2> HIDE DEF h
  <2> QED BY <1>2, <2>1, <2>2 DEF Bodies, Shapes, SameRest, h
<1>3. CASE c.kind = "outfit"
  <2>1. h = [b EXCEPT !.look = b.default, !.shown = IF isInvisible(b) THEN b.shown ELSE b.default]
    BY <1>3 DEF endCondition, endOutfit, internalCreatureChangeOutfit, SpeedKinds
  <2>2. c.kind \notin SpeedKinds
    BY <1>3 DEF SpeedKinds
  <2> HIDE DEF h
  <2> QED BY <1>3, <2>1, <2>2 DEF Bodies, Shapes, SameRest, h
<1>4. CASE c.kind = "manashield"
  <2>1. h = [b EXCEPT !.manaShield = 0]
    BY <1>4 DEF endCondition, endManaShield, SpeedKinds
  <2>2. c.kind \notin SpeedKinds
    BY <1>4 DEF SpeedKinds
  <2> HIDE DEF h
  <2> QED BY <1>4, <2>1, <2>2 DEF Bodies, Shapes, SameRest, h
<1>5. CASE c.kind = "attributes"
  <2>1. h = [b EXCEPT !.varSkill = @ - c.val, !.canUseDefense = @ \/ c.off]
    BY <1>5 DEF endCondition, endAttributes, SpeedKinds
  <2>2. c.kind \notin SpeedKinds /\ c.val \in Int /\ c.off \in BOOLEAN
    BY <1>0, <1>5 DEF SpeedKinds, Numeric, Afflictions
  <2> HIDE DEF h
  <2>3. h.canUseDefense <=> b.canUseDefense \/ c.off
    BY <2>1 DEF Bodies, Shapes
  <2>4. /\ h \in Bodies /\ h.conds = b.conds /\ h.default = b.default /\ SameRest(b, h)
        /\ h.varSpeed = b.varSpeed /\ h.varSkill = b.varSkill - c.val /\ h.manaShield = b.manaShield
        /\ h.look = b.look /\ h.shown = b.shown
    <3> DEFINE d == (b.canUseDefense \/ c.off)
               k == b.varSkill - c.val
    <3>1. d \in BOOLEAN /\ k \in Int
      BY <2>2 DEF Bodies, Shapes
    <3>2. h = [b EXCEPT !.varSkill = k, !.canUseDefense = d]
      BY <2>1
    <3>3. k = b.varSkill - c.val
      OBVIOUS
    <3> HIDE DEF d, k
    <3> QED BY <3>1, <3>2, <3>3 DEF Bodies, Shapes, SameRest
  <2> QED BY <1>5, <2>2, <2>3, <2>4 DEF h
<1> HIDE DEF h
<1> QED BY <1>0, <1>1, <1>2, <1>3, <1>4, <1>5 DEF Kinds, h

LEMMA EndStep ==
    ASSUME NEW b, NEW R, NEW o, Owed(b, R, o), NEW c \in R
    PROVE  LET h == endCondition(b, c)
           IN  Owed(h, R \ {c}, o) /\ SameRest(b, h) /\ h.conds = b.conds /\ h.default = b.default
<1> DEFINE h == endCondition(b, c)
           Q == R \ {c}
           A == b.conds \cup R
<1>1. b \in Bodies /\ c \in Afflictions /\ c \notin b.conds /\ A \in SUBSET Afflictions /\ IsFiniteSet(A)
  BY FS_Union DEF Owed, Whole, Bodies, Shapes
<1>2. /\ h \in Bodies /\ h.conds = b.conds /\ h.default = b.default /\ SameRest(b, h)
      /\ h.varSpeed = IF c.kind \in SpeedKinds THEN b.varSpeed - c.val ELSE b.varSpeed
      /\ h.varSkill = IF c.kind = "attributes" THEN b.varSkill - c.val ELSE b.varSkill
      /\ c.kind = "attributes" => (h.canUseDefense <=> b.canUseDefense \/ c.off)
      /\ c.kind # "attributes" => h.canUseDefense = b.canUseDefense
      /\ h.manaShield = IF c.kind = "manashield" THEN 0 ELSE b.manaShield
      /\ h.look = IF c.kind = "outfit" THEN b.default ELSE b.look
      /\ h.shown = IF isInvisible(b) \/ c.kind \notin {"outfit", "invisible"} THEN b.shown
                   ELSE IF c.kind = "outfit" THEN b.default ELSE b.look
  BY <1>1, EndFields
<1> HIDE DEF h
<1>3. h.conds \cup Q = A \ {c} /\ b.conds \cup R = A
  BY <1>1, <1>2
<1>4. Whole(h, Q)
  BY <1>2, FS_Subset DEF Owed, Whole
<1>5. ASSUME "mount" \notin o PROVE Paid(h, Q)
  <2>1. /\ SumVal(Of(A, SpeedKinds)) \in Int
        /\ c.kind \in SpeedKinds => SumVal(Of(A, SpeedKinds)) = SumVal(Of(A \ {c}, SpeedKinds)) + c.val /\ c.val \in Int
        /\ c.kind \notin SpeedKinds => SumVal(Of(A, SpeedKinds)) = SumVal(Of(A \ {c}, SpeedKinds))
    <3> HIDE DEF A
    <3>1. c \in A
      BY DEF A
    <3> QED BY <1>1, <3>1, OfSum, SpeedKinds \subseteq Numeric DEF Numeric
  <2>2. SumVal(Of(A \ {c}, SpeedKinds)) \in Int
    <3>1. A \ {c} \in SUBSET Afflictions /\ IsFiniteSet(A \ {c})
      BY <1>1, FS_Subset
    <3> HIDE DEF A
    <3> QED BY <3>1, OfSum, SpeedKinds \subseteq Numeric DEF Numeric
  <2>3. GearSpeed(b.enabled) \in Int /\ h.enabled = b.enabled
    BY <1>1, <1>2, GearSum DEF Bodies, Shapes, SameRest
  <2>4. b.varSpeed = SumVal(Of(A, SpeedKinds)) + (IF b.default.mount THEN MountSpeed ELSE 0) + GearSpeed(b.enabled)
    BY <1>5 DEF Owed, Paid
  <2> DEFINE p == SumVal(Of(A, SpeedKinds))
             q == SumVal(Of(A \ {c}, SpeedKinds))
             m == IF b.default.mount THEN MountSpeed ELSE 0
             g == GearSpeed(b.enabled)
  <2>5. m \in Int
    BY ConditionsAssumption
  <2>6. h.varSpeed = q + m + g
    <3>1. CASE c.kind \in SpeedKinds
      <4>1. h.varSpeed = b.varSpeed - c.val /\ p = q + c.val /\ c.val \in Int /\ p \in Int /\ q \in Int /\ g \in Int /\ b.varSpeed = p + m + g
        BY <1>2, <2>1, <2>2, <2>3, <2>4, <3>1
      <4> HIDE DEF p, q, m, g
      <4> QED BY <2>5, <4>1
    <3>2. CASE c.kind \notin SpeedKinds
      BY <1>2, <2>1, <2>4, <3>2
    <3> QED BY <3>1, <3>2
  <2>7. SumVal(Of(h.conds \cup Q, SpeedKinds)) = q /\ GearSpeed(h.enabled) = g /\ h.default.mount = b.default.mount
    BY <1>2, <1>3, <2>3
  <2> HIDE DEF A, Q, q, g
  <2> QED BY <2>6, <2>7 DEF Paid
<1>6. ASSUME "skill" \notin o PROVE Skilled(h, Q)
  <2>1. /\ SumVal(Of(A, {"attributes"})) \in Int
        /\ c.kind = "attributes" => SumVal(Of(A, {"attributes"})) = SumVal(Of(A \ {c}, {"attributes"})) + c.val /\ c.val \in Int
        /\ c.kind # "attributes" => SumVal(Of(A, {"attributes"})) = SumVal(Of(A \ {c}, {"attributes"}))
    <3> HIDE DEF A
    <3>1. c \in A
      BY DEF A
    <3> QED BY <1>1, <3>1, OfSum, {"attributes"} \subseteq Numeric DEF Numeric
  <2>2. SumVal(Of(A \ {c}, {"attributes"})) \in Int
    <3>1. A \ {c} \in SUBSET Afflictions /\ IsFiniteSet(A \ {c})
      BY <1>1, FS_Subset
    <3> HIDE DEF A
    <3> QED BY <3>1, OfSum, {"attributes"} \subseteq Numeric DEF Numeric
  <2>3. b.varSkill = SumVal(Of(A, {"attributes"})) + Gain(b)
    BY <1>6 DEF Owed, Skilled
  <2>0. Gain(b) \in Int /\ Gain(h) = Gain(b)
    BY <1>1, <1>2, GainType, GainSame
  <2> DEFINE q == SumVal(Of(A \ {c}, {"attributes"}))
  <2>4. h.varSkill = q + Gain(h)
    <3> HIDE DEF A
    <3> QED BY <1>2, <2>0, <2>1, <2>2, <2>3
  <2>5. SumVal(Of(h.conds \cup Q, {"attributes"})) = q
    BY <1>3
  <2> HIDE DEF A, Q, q
  <2> QED BY <2>4, <2>5 DEF Skilled
<1>7. Seen(h, Q)
  <2>1. isInvisible(h) <=> isInvisible(b)
    BY <1>2 DEF isInvisible
  <2>2. c.kind # "invisible" => Of(Q, {"invisible"}) = Of(R, {"invisible"})
    BY DEF Of
  <2> HIDE DEF Q
  <2> QED BY <1>2, <2>1, <2>2 DEF Owed, Seen
<1>8. Dressed(h, Q, o)
  <2> SUFFICES ASSUME "outfit" \notin o PROVE Dressed(h, Q, o)
    BY DEF Dressed
  <2>1. Alone(A, "outfit") /\ (h.default.mount => \A d \in Of(h.conds, {"outfit"}) : d.left < 0)
    BY <1>2 DEF Owed, Dressed
  <2>2. Alone(h.conds \cup Q, "outfit")
    BY <1>3, <2>1 DEF Alone, Of
  <2>3. CASE c.kind = "outfit"
    <3>1. Of(h.conds, {"outfit"}) = {}
      BY <1>1, <1>2, <2>1, <2>3 DEF Alone, Of
    <3> QED BY <1>2, <2>1, <2>2, <2>3, <3>1 DEF Dressed
  <2>4. CASE c.kind # "outfit"
    <3>1. Of(Q, {"outfit"}) = Of(R, {"outfit"})
      BY <2>4 DEF Of
    <3> QED BY <1>2, <2>1, <2>2, <2>4, <3>1 DEF Owed, Dressed
  <2> QED BY <2>3, <2>4
<1>9. Paced(h, o)
  BY <1>2 DEF Owed, Paced
<1>10. Defended(h, Q, o)
  <2> SUFFICES ASSUME "attributes" \notin o PROVE Defended(h, Q, o)
    BY DEF Defended
  <2>1. /\ \A d, e \in Of(A, {"attributes"}) : d.off => d = e
        /\ b.canUseDefense <=> ~\E d \in A : d.off
    BY DEF Owed, Defended
  <2>2. \A d, e \in Of(h.conds \cup Q, {"attributes"}) : d.off => d = e
    BY <1>3, <2>1 DEF Of
  <2>3. \A d \in A : d.off => d.kind = "attributes"
    BY <1>1 DEF Afflictions
  <2>4. h.canUseDefense <=> ~\E d \in A \ {c} : d.off
    <3>1. CASE c.kind = "attributes"
      <4>1. c \in Of(A, {"attributes"})
        BY <3>1 DEF Of
      <4>2. c.off => ~\E d \in A \ {c} : d.off
        BY <2>1, <2>3, <4>1 DEF Of
      <4>3. ~c.off => ((\E d \in A \ {c} : d.off) <=> \E d \in A : d.off)
        OBVIOUS
      <4> HIDE DEF A
      <4> QED BY <1>2, <2>1, <3>1, <4>2, <4>3
    <3>2. CASE c.kind # "attributes"
      <4>1. (\E d \in A \ {c} : d.off) <=> \E d \in A : d.off
        BY <2>3, <3>2
      <4> HIDE DEF A
      <4> QED BY <1>2, <2>1, <3>2, <4>1
    <3> QED BY <3>1, <3>2
  <2> HIDE DEF A, Q
  <2> QED BY <1>3, <2>2, <2>4 DEF Defended
<1>11. Shielded(h, Q, o)
  <2> SUFFICES ASSUME "manashield" \notin o PROVE Shielded(h, Q, o)
    BY DEF Shielded
  <2>1. Alone(A, "manashield")
    BY DEF Owed, Shielded
  <2>2. Alone(h.conds \cup Q, "manashield")
    BY <1>3, <2>1 DEF Alone, Of
  <2>3. CASE c.kind = "manashield"
    <3>1. Of(h.conds, {"manashield"}) = {}
      BY <1>1, <1>2, <2>1, <2>3 DEF Alone, Of
    <3> QED BY <1>2, <2>2, <2>3, <3>1 DEF Shielded
  <2>4. CASE c.kind # "manashield"
    <3>1. Of(Q, {"manashield"}) = Of(R, {"manashield"})
      BY <2>4 DEF Of
    <3> QED BY <1>2, <2>2, <2>4, <3>1 DEF Owed, Shielded
  <2> QED BY <2>3, <2>4
<1> HIDE DEF Q
<1>12. Owed(h, Q, o)
  BY <1>4, <1>5, <1>6, <1>7, <1>8, <1>9, <1>10, <1>11 DEF Owed
<1> QED BY <1>2, <1>12 DEF h, Q

Pick(s) == CHOOSE x \in s : TRUE

Ending(h, base, S) == h = [s \in SUBSET S |-> IF s = {} THEN base ELSE endCondition(h[s \ {Pick(s)}], Pick(s))]
Ended(base, S) == (CHOOSE h : Ending(h, base, S))[S]

LEMMA EndedIs == ASSUME NEW b, NEW S PROVE RemoveAll(b, S) = Ended([b EXCEPT !.conds = @ \ S], S)
BY DEF RemoveAll, FoldSet, MapThenFoldSet, Ended, Ending, Pick

LEMMA PickIn == ASSUME NEW s, s # {} PROVE Pick(s) \in s
BY DEF Pick

\* What conditions that end lead to.
LEMMA EndAll ==
    ASSUME NEW S \in SUBSET Afflictions, IsFiniteSet(S), NEW base \in Bodies,
           NEW G, \A s \in SUBSET S : G[s] \subseteq Bodies, base \in G[{}],
           \A s \in SUBSET S : \A c \in s : \A y \in G[s \ {c}] : endCondition(y, c) \in G[s]
    PROVE  Ended(base, S) \in G[S]
<1> DEFINE F == [p \in S \X Bodies |-> endCondition(p[2], p[1])]
           C == [s \in SUBSET S |-> Pick(s)]
<1>1. \A c \in S, y \in Bodies : endCondition(y, c) \in Bodies
  BY EndFields
<1>2. F \in [S \X Bodies -> Bodies] /\ \A c \in S, y \in Bodies : F[<<c, y>>] = endCondition(y, c)
  BY <1>1
<1>3. Chooses(C, S) /\ \A s \in SUBSET S : C[s] = Pick(s)
  BY PickIn DEF Chooses
<1> HIDE DEF F, C
<1>4. PICK h \in [SUBSET S -> Bodies] : Folds(h, F, C, base, S, Bodies)
  BY <1>2, <1>3, FoldExists
<1>5. Ending(h, base, S)
  <2>1. \A s \in SUBSET S : s # {} => Pick(s) \in s /\ h[s \ {Pick(s)}] \in Bodies
    BY <1>4, PickIn
  <2>2. \A s \in SUBSET S : h[s] = IF s = {} THEN base ELSE endCondition(h[s \ {Pick(s)}], Pick(s))
    BY <1>2, <1>3, <1>4, <2>1 DEF Folds
  <2> QED BY <1>4, <2>2 DEF Ending
<1> DEFINE k == CHOOSE g : Ending(g, base, S)
<1>6. Ending(k, base, S)
  BY <1>5
<1> HIDE DEF k
<1>7. Folds(k, F, C, base, S, Bodies)
  <2>1. \A s \in SUBSET S : k[s] = IF s = {} THEN base ELSE endCondition(k[s \ {Pick(s)}], Pick(s))
    BY <1>6 DEF Ending
  <2>2. k[{}] = base
    BY <2>1
  <2>3. \A s \in SUBSET S : s # {} => Pick(s) \in S
    BY PickIn
  <2> QED BY <1>2, <1>3, <2>1, <2>2, <2>3 DEF Folds
<1>8. \A s \in SUBSET S : s # {} => \A y \in G[s \ {C[s]}] : F[<<C[s], y>>] \in G[s]
  <2> SUFFICES ASSUME NEW s \in SUBSET S, s # {}, NEW y \in G[s \ {C[s]}] PROVE F[<<C[s], y>>] \in G[s]
    OBVIOUS
  <2>1. C[s] \in s /\ C[s] \in S
    BY <1>3, PickIn
  <2>2. y \in Bodies
    OBVIOUS
  <2>3. endCondition(y, C[s]) \in G[s]
    BY <2>1
  <2> QED BY <1>2, <2>1, <2>2, <2>3
<1>9. k[S] \in G[S]
  <2>1. (\A s \in SUBSET S : G[s] \subseteq Bodies) /\ base \in G[{}] /\ IsFiniteSet(S)
    OBVIOUS
  <2>2. Reaching(k, F, C, base, S, Bodies, G)
    BY <1>3, <1>7, <1>8, <2>1 DEF Reaching
  <2> QED BY <2>2, FoldReaches
<1> QED BY <1>9 DEF Ended, k

LEMMA RemoveAllType ==
    ASSUME NEW b \in Bodies, NEW S \in SUBSET b.conds
    PROVE  LET h == RemoveAll(b, S)
           IN  h \in Bodies /\ SameRest(b, h) /\ h.conds = b.conds \ S /\ h.default = b.default
<1> DEFINE base == [b EXCEPT !.conds = @ \ S]
           Good == {y \in Bodies : SameRest(b, y) /\ y.conds = b.conds \ S /\ y.default = b.default}
           G == [s \in SUBSET S |-> Good]
<1>1. S \in SUBSET Afflictions /\ IsFiniteSet(S) /\ IsFiniteSet(b.conds \ S)
  BY FS_Subset DEF Bodies, Shapes
<1>2. base \in Bodies /\ base \in Good
  BY <1>1 DEF Bodies, Shapes, SameRest
<1>3. \A c \in S, y \in Good : endCondition(y, c) \in Good
  <2> SUFFICES ASSUME NEW c \in S, NEW y \in Good PROVE endCondition(y, c) \in Good
    OBVIOUS
  <2> DEFINE h == endCondition(y, c)
  <2>1. h \in Bodies /\ h.conds = y.conds /\ h.default = y.default /\ SameRest(y, h)
    BY <1>1, EndFields
  <2> HIDE DEF h
  <2>2. SameRest(b, h)
    BY <2>1 DEF SameRest
  <2> QED BY <2>1, <2>2 DEF h
<1>4. /\ \A s \in SUBSET S : G[s] \subseteq Bodies
      /\ base \in G[{}] /\ G[S] = Good
      /\ \A s \in SUBSET S : \A c \in s : \A y \in G[s \ {c}] : endCondition(y, c) \in G[s]
  <2> HIDE DEF base
  <2> SUFFICES ASSUME NEW s \in SUBSET S, NEW c \in s, NEW y \in G[s \ {c}] PROVE endCondition(y, c) \in G[s]
    BY <1>2
  <2>1. s \ {c} \in SUBSET S /\ c \in S
    OBVIOUS
  <2>2. G[s] = Good /\ y \in Good
    BY <2>1
  <2> HIDE DEF G, Good
  <2> QED BY <1>3, <2>1, <2>2
<1> HIDE DEF base, G
<1>5. Ended(base, S) \in G[S]
  BY <1>1, <1>2, <1>4, EndAll
<1>6. RemoveAll(b, S) \in Good
  BY <1>4, <1>5, EndedIs DEF base
<1> QED BY <1>6

\* The conditions S are removed.
LEMMA Removed ==
    ASSUME NEW b, NEW o, Owed(b, {}, o), NEW S \in SUBSET b.conds
    PROVE  LET h == RemoveAll(b, S)
           IN  Owed(h, {}, o) /\ SameRest(b, h) /\ h.conds = b.conds \ S /\ h.default = b.default
<1> DEFINE base == [b EXCEPT !.conds = @ \ S]
           Good(s) == {y \in Bodies : Owed(y, S \ s, o) /\ SameRest(b, y) /\ y.conds = b.conds \ S /\ y.default = b.default}
           G == [s \in SUBSET S |-> Good(s)]
<1>0. b \in Bodies
  BY DEF Owed, Whole
<1>1. S \in SUBSET Afflictions /\ IsFiniteSet(S) /\ IsFiniteSet(b.conds \ S)
  BY <1>0, FS_Subset DEF Bodies, Shapes
<1>2. base \in Bodies /\ base.conds = b.conds \ S /\ base.default = b.default /\ SameRest(b, base)
  BY <1>0, <1>1 DEF Bodies, Shapes, SameRest
<1>3. Owed(base, S, o)
  <2>1. base.conds \cup S = b.conds \cup {} /\ base.conds \cap S = {}
    BY <1>2
  <2>2. /\ base.varSpeed = b.varSpeed /\ base.varSkill = b.varSkill /\ base.manaShield = b.manaShield
        /\ base.canUseDefense = b.canUseDefense /\ base.look = b.look /\ base.shown = b.shown
        /\ base.enabled = b.enabled
    BY <1>0 DEF Bodies, Shapes
  <2> HIDE DEF base
  <2>3. Whole(base, S)
    BY <1>1, <1>2, <2>1 DEF Owed, Whole
  <2>4. ("mount" \in o \/ Paid(base, S)) /\ ("skill" \in o \/ Skilled(base, S))
    <3>1. Gain(base) = Gain(b)
      BY <1>2, GainSame
    <3> QED BY <1>2, <2>1, <2>2, <3>1 DEF Owed, Paid, Skilled
  <2>5. Seen(base, S)
    <3>1. isInvisible(base) => isInvisible(b)
      BY <1>2 DEF isInvisible
    <3>2. ~isInvisible(base) /\ Of(S, {"invisible"}) = {} => ~isInvisible(b)
      BY <1>2 DEF isInvisible, Of
    <3> QED BY <2>2, <3>1, <3>2 DEF Owed, Seen, Of
  <2>6. Dressed(base, S, o)
    <3> SUFFICES ASSUME "outfit" \notin o PROVE Dressed(base, S, o)
      BY DEF Dressed
    <3>1. /\ Alone(b.conds \cup {}, "outfit")
          /\ b.default.mount => \A c \in Of(b.conds, {"outfit"}) : c.left < 0
          /\ Of(b.conds, {"outfit"}) = {} => b.look = b.default
          /\ \A c \in Of(b.conds, {"outfit"}) : c.left >= 0 => b.look = Unmounted(c.val)
      BY DEF Owed, Dressed, Of
    <3>2. Alone(base.conds \cup S, "outfit")
      BY <2>1, <3>1
    <3>3. Of(base.conds, {"outfit"}) \subseteq Of(b.conds, {"outfit"})
      BY <1>2 DEF Of
    <3>4. Of(S, {"outfit"}) = {} => Of(base.conds, {"outfit"}) = Of(b.conds, {"outfit"})
      BY <1>2 DEF Of
    <3> QED BY <1>2, <2>2, <3>1, <3>2, <3>3, <3>4 DEF Dressed
  <2>7. Paced(base, o)
    BY <1>2 DEF Owed, Paced
  <2>8. Defended(base, S, o)
    BY <2>1, <2>2 DEF Owed, Defended
  <2>9. Shielded(base, S, o)
    <3> SUFFICES ASSUME "manashield" \notin o, Of(S, {"manashield"}) = {} PROVE Shielded(base, S, o)
      BY <2>1 DEF Owed, Shielded
    <3>1. Of(base.conds, {"manashield"}) = Of(b.conds, {"manashield"}) /\ Of({}, {"manashield"}) = {}
      BY <1>2 DEF Of
    <3> QED BY <2>1, <2>2, <3>1 DEF Owed, Shielded
  <2> QED BY <2>3, <2>4, <2>5, <2>6, <2>7, <2>8, <2>9 DEF Owed
<1> HIDE DEF base
<1>4. ASSUME NEW s \in SUBSET S, NEW c \in s, NEW y \in G[s \ {c}] PROVE endCondition(y, c) \in G[s]
  <2>1. y \in Bodies /\ Owed(y, S \ (s \ {c}), o) /\ SameRest(b, y) /\ y.conds = b.conds \ S /\ y.default = b.default
    <3>1. s \ {c} \in SUBSET S
      OBVIOUS
    <3> QED BY <3>1
  <2>2. c \in S \ (s \ {c}) /\ (S \ (s \ {c})) \ {c} = S \ s
    OBVIOUS
  <2> DEFINE h == endCondition(y, c)
  <2>3. Owed(h, S \ s, o) /\ SameRest(y, h) /\ h.conds = y.conds /\ h.default = y.default
    <3>1. Owed(h, (S \ (s \ {c})) \ {c}, o) /\ SameRest(y, h) /\ h.conds = y.conds /\ h.default = y.default
      BY <2>1, <2>2, EndStep
    <3> QED BY <2>2, <3>1
  <2> HIDE DEF h
  <2>4. h \in Bodies /\ SameRest(b, h)
    BY <2>1, <2>3 DEF Owed, Whole, SameRest
  <2> QED BY <2>1, <2>3, <2>4 DEF h
<1>5. \A s \in SUBSET S : G[s] \subseteq Bodies
  OBVIOUS
<1>6. base \in G[{}]
  <2>1. S \ {} = S
    OBVIOUS
  <2> QED BY <1>2, <1>3, <2>1
<1>7. G[S] = Good(S) /\ S \ S = {}
  OBVIOUS
<1> HIDE DEF G
<1>8. Ended(base, S) \in G[S]
  BY <1>1, <1>2, <1>4, <1>5, <1>6, EndAll
<1>9. RemoveAll(b, S) = Ended(base, S)
  BY EndedIs DEF base
<1> QED BY <1>7, <1>8, <1>9

LEMMA LookTypes ==
    /\ \A x \in Looks : Unmounted(x) \in Outfits
    /\ \A x \in Vals : Unmounted(x) \in Outfits
    /\ Unmounted(NoLook) \in Outfits
<1>1. \A x \in Looks : [type |-> x, mount |-> FALSE] \in [type : Looks, mount : BOOLEAN]
  OBVIOUS
<1>2. NoLook \in Looks /\ Vals \subseteq Looks
  BY DEF Looks
<1> QED BY <1>1, <1>2, Zenon DEF Unmounted, Outfits

Started(b, c) == [startCondition(b, c) EXCEPT !.conds = @ \cup {c}]

LEMMA StartFields ==
    ASSUME NEW b \in Bodies, NEW c \in Afflictions
    PROVE  LET h == Started(b, c)
           IN  /\ h \in Bodies /\ h.conds = b.conds \cup {c} /\ h.default = b.default /\ SameRest(b, h)
               /\ h.varSpeed = IF c.kind \in SpeedKinds THEN b.varSpeed + c.val ELSE b.varSpeed
               /\ h.varSkill = IF c.kind = "attributes" THEN b.varSkill + c.val ELSE b.varSkill
               /\ c.kind = "attributes" => (h.canUseDefense <=> ~c.off)
               /\ c.kind # "attributes" => h.canUseDefense = b.canUseDefense
               /\ h.manaShield = IF c.kind = "manashield" THEN c.val ELSE b.manaShield
               /\ h.look = IF c.kind = "outfit" THEN Unmounted(c.val) ELSE b.look
               /\ h.shown = IF c.kind = "invisible" THEN Unmounted(NoLook)
                            ELSE IF c.kind = "outfit" /\ ~isInvisible(b) THEN Unmounted(c.val) ELSE b.shown
<1> DEFINE h == Started(b, c)
           A == b.conds \cup {c}
<1>0. /\ c.kind \in Kinds /\ (c.kind \in Numeric => c.val \in Int) /\ (c.kind = "manashield" => c.val \in Int)
      /\ c.off \in BOOLEAN /\ c.val \in Vals
  BY DEF Afflictions
<1>a. A \in SUBSET Afflictions /\ IsFiniteSet(A)
  BY FS_AddElement DEF Bodies, Shapes
<1> HIDE DEF A
<1>1. CASE c.kind \in SpeedKinds
  <2>2. c.kind \notin {"outfit", "invisible", "manashield", "attributes"}
    BY <1>1 DEF SpeedKinds
  <2>1. startCondition(b, c) = [b EXCEPT !.varSpeed = @ + c.val] /\ c.val \in Int
    BY <1>0, <1>1, <2>2 DEF startCondition, startSpeed, changeSpeed, Numeric
  <2> DEFINE k == b.varSpeed + c.val
  <2>3. k \in Int /\ h = [b EXCEPT !.varSpeed = k, !.conds = A] /\ k = b.varSpeed + c.val
    BY <2>1 DEF Bodies, Shapes, Started, A
  <2> HIDE DEF h, k
  <2>4. h \in Bodies
    BY <1>a, <2>3 DEF Bodies, Shapes
  <2> QED BY <1>1, <2>2, <2>3, <2>4 DEF Bodies, Shapes, SameRest, h, A
<1>2. CASE c.kind = "invisible"
  <2>2. c.kind \notin SpeedKinds
    BY <1>2 DEF SpeedKinds
  <2>1. startCondition(b, c) = [b EXCEPT !.shown = Unmounted(NoLook)]
    BY <1>2, <2>2 DEF startCondition, startInvisible, internalCreatureChangeVisible
  <2>3. h = [b EXCEPT !.shown = Unmounted(NoLook), !.conds = A]
    BY <2>1 DEF Bodies, Shapes, Started, A
  <2> HIDE DEF h
  <2>4. h \in Bodies
    BY <1>a, <2>3, LookTypes DEF Bodies, Shapes
  <2> QED BY <1>2, <2>2, <2>3, <2>4 DEF Bodies, Shapes, SameRest, h, A
<1>3. CASE c.kind = "outfit"
  <2>2. c.kind \notin SpeedKinds
    BY <1>3 DEF SpeedKinds
  <2> DEFINE u == Unmounted(c.val)
             k == IF isInvisible(b) THEN b.shown ELSE u
  <2>1. startCondition(b, c) = [b EXCEPT !.look = u, !.shown = k]
    BY <1>3, <2>2 DEF startCondition, startOutfit, internalCreatureChangeOutfit
  <2>3. h = [b EXCEPT !.look = u, !.shown = k, !.conds = A]
    BY <2>1 DEF Bodies, Shapes, Started, A
  <2>5. u \in Outfits /\ k \in Outfits
    BY <1>0, LookTypes DEF Bodies, Shapes
  <2>6. k = IF isInvisible(b) THEN b.shown ELSE u
    OBVIOUS
  <2> HIDE DEF h, k, u
  <2>4. h \in Bodies
    BY <1>a, <2>3, <2>5 DEF Bodies, Shapes
  <2> QED BY <1>3, <2>2, <2>3, <2>4, <2>6 DEF Bodies, Shapes, SameRest, h, A, u
<1>4. CASE c.kind = "manashield"
  <2>2. c.kind \notin SpeedKinds
    BY <1>4 DEF SpeedKinds
  <2>1. startCondition(b, c) = [b EXCEPT !.manaShield = c.val]
    BY <1>4, <2>2 DEF startCondition, startManaShield
  <2>3. h = [b EXCEPT !.manaShield = c.val, !.conds = A]
    BY <2>1 DEF Bodies, Shapes, Started, A
  <2> HIDE DEF h
  <2>4. h \in Bodies
    BY <1>0, <1>4, <1>a, <2>3 DEF Bodies, Shapes
  <2> QED BY <1>4, <2>2, <2>3, <2>4 DEF Bodies, Shapes, SameRest, h, A
<1>5. CASE c.kind = "attributes"
  <2>2. c.kind \notin SpeedKinds /\ c.val \in Int /\ c.off \in BOOLEAN
    BY <1>0, <1>5 DEF SpeedKinds, Numeric
  <2> DEFINE d == ~c.off
             k == b.varSkill + c.val
  <2>1. startCondition(b, c) = [b EXCEPT !.canUseDefense = d, !.varSkill = k]
    BY <1>5, <2>2 DEF startCondition, startAttributes
  <2>3. h = [b EXCEPT !.canUseDefense = d, !.varSkill = k, !.conds = A]
    BY <2>1 DEF Bodies, Shapes, Started, A
  <2>5. d \in BOOLEAN /\ k \in Int /\ (d <=> ~c.off) /\ k = b.varSkill + c.val
    BY <2>2 DEF Bodies, Shapes
  <2> HIDE DEF h, k, d
  <2>4. h \in Bodies
    BY <1>a, <2>3, <2>5 DEF Bodies, Shapes
  <2>6. h.canUseDefense = d /\ h.varSkill = k /\ h.conds = A
    BY <2>3 DEF Bodies, Shapes
  <2>7. /\ h.varSpeed = b.varSpeed /\ h.manaShield = b.manaShield /\ h.look = b.look /\ h.shown = b.shown
        /\ h.default = b.default /\ SameRest(b, h)
    BY <2>3 DEF Bodies, Shapes, SameRest
  <2> QED BY <1>5, <2>2, <2>4, <2>5, <2>6, <2>7 DEF h, A
<1> HIDE DEF h
<1> QED BY <1>0, <1>1, <1>2, <1>3, <1>4, <1>5 DEF Kinds, h

\* The fields of b after c has taken the place of d.
Swapped(b, d, c, h) ==
    /\ h \in Bodies /\ h.conds = (b.conds \ {d}) \cup {c} /\ h.default = b.default /\ SameRest(b, h)
    /\ h.varSpeed = IF c.kind \in SpeedKinds THEN b.varSpeed + (c.val - d.val) ELSE b.varSpeed
    /\ h.varSkill = IF c.kind = "attributes" THEN (b.varSkill - d.val) + c.val ELSE b.varSkill
    /\ c.kind = "attributes" => (h.canUseDefense <=> b.canUseDefense \/ d.off)
    /\ c.kind # "attributes" => h.canUseDefense = b.canUseDefense
    /\ h.manaShield = IF c.kind = "manashield" THEN c.val ELSE b.manaShield
    /\ h.look = IF c.kind = "outfit" THEN Unmounted(c.val) ELSE b.look
    /\ h.shown = IF c.kind = "outfit" /\ ~isInvisible(b) THEN Unmounted(c.val) ELSE b.shown

LEMMA SwapFields ==
    ASSUME NEW b \in Bodies, NEW c \in Afflictions, NEW d \in b.conds, SameKey(c, d)
    PROVE  renew(b, d, c) = b \/ Swapped(b, d, c, renew(b, d, c))
<1> DEFINE h == renew(b, d, c)
           A == (b.conds \ {d}) \cup {c}
           r == [b EXCEPT !.conds = A]
<1>0. /\ c.kind \in Kinds /\ (c.kind \in Numeric => c.val \in Int) /\ (c.kind = "manashield" => c.val \in Int)
      /\ c.off \in BOOLEAN /\ c.val \in Vals
  BY DEF Afflictions
<1>b. d.kind = c.kind /\ (c.kind \in Numeric => d.val \in Int) /\ d.off \in BOOLEAN
  BY DEF Afflictions, SameKey, Bodies, Shapes
<1>a. A \in SUBSET Afflictions /\ IsFiniteSet(A)
  <2>1. IsFiniteSet(b.conds \ {d}) /\ b.conds \ {d} \in SUBSET Afflictions
    BY FS_Subset DEF Bodies, Shapes
  <2> QED BY <2>1, FS_AddElement
<1> HIDE DEF A
<1>c. r = [b EXCEPT !.conds = (@ \ {d}) \cup {c}]
  BY DEF A
<1>1. CASE c.kind \in SpeedKinds
  <2>2. c.kind \notin {"outfit", "invisible", "manashield", "attributes"}
    BY <1>1 DEF SpeedKinds
  <2> DEFINE k == b.varSpeed + (c.val - d.val)
  <2>1. h = b \/ h = [r EXCEPT !.varSpeed = @ + (c.val - d.val)]
    BY <1>1, <1>b, <1>c, <2>2 DEF renew, addSpeed, changeSpeed
  <2>3. k \in Int /\ (h = b \/ h = [b EXCEPT !.varSpeed = k, !.conds = A]) /\ k = b.varSpeed + (c.val - d.val)
    <3>1. c.val \in Int /\ d.val \in Int /\ b.varSpeed \in Int
      BY <1>0, <1>1, <1>b DEF Numeric, Bodies, Shapes
    <3>2. [r EXCEPT !.varSpeed = @ + (c.val - d.val)] = [b EXCEPT !.varSpeed = k, !.conds = A]
      BY DEF Bodies, Shapes
    <3>3. k \in Int
      BY <3>1
    <3> HIDE DEF h, r
    <3> QED BY <2>1, <3>2, <3>3
  <2> HIDE DEF h, k, r
  <2>4. h = b \/ h \in Bodies
    BY <1>a, <2>3 DEF Bodies, Shapes
  <2>5. h # b => /\ h.conds = A /\ h.default = b.default /\ SameRest(b, h) /\ h.varSpeed = k
                 /\ h.varSkill = b.varSkill /\ h.canUseDefense = b.canUseDefense /\ h.manaShield = b.manaShield
                 /\ h.look = b.look /\ h.shown = b.shown
    BY <2>3 DEF Bodies, Shapes, SameRest
  <2> QED BY <1>1, <2>2, <2>3, <2>4, <2>5 DEF Swapped, h, A
<1>2. CASE c.kind = "invisible"
  <2>2. c.kind \notin SpeedKinds /\ d.kind \notin SpeedKinds
    BY <1>2, <1>b DEF SpeedKinds
  <2>1. h = b \/ h = r
    BY <1>2, <1>b, <1>c, <2>2 DEF renew, addInvisible
  <2> HIDE DEF h
  <2>4. h = b \/ h \in Bodies
    BY <1>a, <2>1 DEF Bodies, Shapes
  <2> QED BY <1>2, <2>1, <2>2, <2>4 DEF Swapped, Bodies, Shapes, SameRest, h, A
<1>3. CASE c.kind = "outfit"
  <2>2. c.kind \notin SpeedKinds /\ d.kind \notin SpeedKinds
    BY <1>3, <1>b DEF SpeedKinds
  <2>0. isInvisible(r) <=> isInvisible(b)
    BY <1>3, <1>b DEF isInvisible, Bodies, Shapes, A
  <2> DEFINE u == Unmounted(c.val)
             k == IF isInvisible(b) THEN b.shown ELSE u
  <2>1. h = b \/ h = startOutfit(r, c)
    BY <1>3, <1>b, <1>c, <2>2 DEF renew, addOutfit
  <2>7. startOutfit(r, c) = [r EXCEPT !.look = u, !.shown = k]
    BY <2>0 DEF startOutfit, internalCreatureChangeOutfit, Bodies, Shapes
  <2>3. h = b \/ h = [b EXCEPT !.look = u, !.shown = k, !.conds = A]
    BY <2>1, <2>7 DEF Bodies, Shapes
  <2>5. u \in Outfits /\ k \in Outfits
    BY <1>0, LookTypes DEF Bodies, Shapes
  <2>6. k = IF isInvisible(b) THEN b.shown ELSE u
    OBVIOUS
  <2> HIDE DEF h, k, u, r
  <2>4. h = b \/ h \in Bodies
    BY <1>a, <2>3, <2>5 DEF Bodies, Shapes
  <2> QED BY <1>3, <2>2, <2>3, <2>4, <2>6 DEF Swapped, Bodies, Shapes, SameRest, h, A, u
<1>4. CASE c.kind = "manashield"
  <2>2. c.kind \notin SpeedKinds /\ d.kind \notin SpeedKinds
    BY <1>4, <1>b DEF SpeedKinds
  <2>1. h = [r EXCEPT !.manaShield = c.val]
    BY <1>4, <1>b, <1>c, <2>2 DEF renew, addManaShield, startManaShield
  <2>3. h = [b EXCEPT !.manaShield = c.val, !.conds = A]
    BY <2>1 DEF Bodies, Shapes
  <2> HIDE DEF h, r
  <2>4. h \in Bodies
    BY <1>0, <1>4, <1>a, <2>3 DEF Bodies, Shapes
  <2> QED BY <1>4, <2>2, <2>3, <2>4 DEF Swapped, Bodies, Shapes, SameRest, h, A
<1>5. CASE c.kind = "attributes"
  <2>2. c.kind \notin SpeedKinds /\ d.kind \notin SpeedKinds /\ c.val \in Int /\ d.val \in Int
    BY <1>0, <1>5, <1>b DEF SpeedKinds, Numeric
  <2> DEFINE e == (b.canUseDefense \/ d.off)
             k == (b.varSkill - d.val) + c.val
  <2>1. h = b \/ h = [endAttributes(r, d) EXCEPT !.varSkill = @ + c.val]
    BY <1>5, <1>b, <1>c, <2>2 DEF renew, addAttributes
  <2>8. [endAttributes(r, d) EXCEPT !.varSkill = @ + c.val] = [b EXCEPT !.canUseDefense = e, !.varSkill = k, !.conds = A]
    BY DEF endAttributes, Bodies, Shapes
  <2>3. h = b \/ h = [b EXCEPT !.canUseDefense = e, !.varSkill = k, !.conds = A]
    BY <2>1, <2>8
  <2>5. e \in BOOLEAN /\ k \in Int /\ (e <=> b.canUseDefense \/ d.off) /\ k = (b.varSkill - d.val) + c.val
    BY <2>2 DEF Bodies, Shapes
  <2> HIDE DEF h, k, e, r
  <2>4. h = b \/ h \in Bodies
    BY <1>a, <2>3, <2>5 DEF Bodies, Shapes
  <2>6. h # b => h.canUseDefense = e /\ h.varSkill = k /\ h.conds = A
    BY <2>3 DEF Bodies, Shapes
  <2>7. h # b => /\ h.varSpeed = b.varSpeed /\ h.manaShield = b.manaShield /\ h.look = b.look /\ h.shown = b.shown
                 /\ h.default = b.default /\ SameRest(b, h)
    BY <2>3 DEF Bodies, Shapes, SameRest
  <2> QED BY <1>5, <2>2, <2>4, <2>5, <2>6, <2>7 DEF Swapped, h, A
<1> HIDE DEF h
<1> QED BY <1>0, <1>1, <1>2, <1>3, <1>4, <1>5 DEF Kinds, h

\* No two conditions write the same field, except what p excepts.
Clear(b, p) ==
    /\ "outfit" \notin p => Alone(b.conds, "outfit")
    /\ "manashield" \notin p => Alone(b.conds, "manashield")
    /\ "attributes" \notin p => \A c, d \in Of(b.conds, {"attributes"}) : c.off => c = d

LEMMA OfAdd ==
    ASSUME NEW A \in SUBSET Afflictions, IsFiniteSet(A), NEW K \in SUBSET Numeric, NEW c \in Afflictions, c \notin A
    PROVE  /\ SumVal(Of(A, K)) \in Int
           /\ c.kind \in K => SumVal(Of(A \cup {c}, K)) = SumVal(Of(A, K)) + c.val /\ c.val \in Int
           /\ c.kind \notin K => SumVal(Of(A \cup {c}, K)) = SumVal(Of(A, K))
<1> DEFINE B == A \cup {c}
<1>1. B \in SUBSET Afflictions /\ IsFiniteSet(B) /\ B \ {c} = A /\ c \in B
  BY FS_AddElement
<1> HIDE DEF B
<1>2. /\ c.kind \in K => SumVal(Of(B, K)) = SumVal(Of(A, K)) + c.val /\ c.val \in Int
      /\ c.kind \notin K => SumVal(Of(B, K)) = SumVal(Of(A, K))
  BY <1>1, OfSum
<1>3. SumVal(Of(A, K)) \in Int
  BY OfSum
<1> QED BY <1>2, <1>3 DEF B

LEMMA NumericKinds == SpeedKinds \in SUBSET Numeric /\ {"attributes"} \in SUBSET Numeric
BY DEF Numeric

\* What a condition that is alone with its key adds.
LEMMA StartOwed ==
    ASSUME NEW b, NEW o, Owed(b, {}, o), NEW c \in Afflictions, \A d \in b.conds : ~SameKey(c, d),
           NEW p, o \subseteq p, Clear(Started(b, c), p),
           c.kind = "outfit" => "outfit" \in p, c.kind \in SpeedKinds => "speed" \in p
    PROVE  Owed(Started(b, c), {}, p)
<1> DEFINE h == Started(b, c)
<1>1. b \in Bodies /\ c.kind \in Kinds
  BY DEF Owed, Whole, Afflictions
<1>2. /\ h \in Bodies /\ h.conds = b.conds \cup {c} /\ h.default = b.default /\ SameRest(b, h)
      /\ h.varSpeed = IF c.kind \in SpeedKinds THEN b.varSpeed + c.val ELSE b.varSpeed
      /\ h.varSkill = IF c.kind = "attributes" THEN b.varSkill + c.val ELSE b.varSkill
      /\ c.kind = "attributes" => (h.canUseDefense <=> ~c.off)
      /\ c.kind # "attributes" => h.canUseDefense = b.canUseDefense
      /\ h.manaShield = IF c.kind = "manashield" THEN c.val ELSE b.manaShield
      /\ h.look = IF c.kind = "outfit" THEN Unmounted(c.val) ELSE b.look
      /\ h.shown = IF c.kind = "invisible" THEN Unmounted(NoLook)
                   ELSE IF c.kind = "outfit" /\ ~isInvisible(b) THEN Unmounted(c.val) ELSE b.shown
  BY <1>1, StartFields
<1>0. Clear(h, p)
  OBVIOUS
<1> HIDE DEF h
<1>3. /\ c \notin b.conds /\ b.conds \in SUBSET Afflictions /\ IsFiniteSet(b.conds)
      /\ h.conds \cup {} = b.conds \cup {c} /\ b.conds \cup {} = b.conds
  BY <1>1, <1>2 DEF SameKey, Bodies, Shapes
<1>4. Whole(h, {})
  <2>1. \A d, e \in h.conds : SameKey(d, e) => d = e
    <3>1. \A d, e \in b.conds : SameKey(d, e) => d = e
      BY DEF Owed, Whole
    <3>2. \A d, e : SameKey(d, e) => SameKey(e, d)
      BY DEF SameKey
    <3> QED BY <1>2, <3>1, <3>2
  <2> QED BY <1>2, <2>1, FS_EmptySet DEF Whole
<1>5. ASSUME "mount" \notin p PROVE Paid(h, {})
  <2> DEFINE q == SumVal(Of(b.conds, SpeedKinds))
             t == SumVal(Of(b.conds \cup {c}, SpeedKinds))
             m == IF b.default.mount THEN MountSpeed ELSE 0
             g == GearSpeed(b.enabled)
  <2>1. /\ q \in Int
        /\ c.kind \in SpeedKinds => t = q + c.val /\ c.val \in Int
        /\ c.kind \notin SpeedKinds => t = q
    BY <1>3, OfAdd, NumericKinds
  <2>2. g \in Int /\ m \in Int
    BY <1>1, GearSum, ConditionsAssumption DEF Bodies, Shapes
  <2>3. b.varSpeed = q + m + g
    BY <1>3, <1>5 DEF Owed, Paid
  <2>4. h.varSpeed = t + m + g
    <3> HIDE DEF q, t, m, g
    <3> QED BY <1>2, <2>1, <2>2, <2>3
  <2>5. SumVal(Of(h.conds \cup {}, SpeedKinds)) = t /\ GearSpeed(h.enabled) = g /\ h.default.mount = b.default.mount
    BY <1>2, <1>3 DEF SameRest
  <2> HIDE DEF t, g
  <2> QED BY <2>4, <2>5 DEF Paid
<1>6. ASSUME "skill" \notin p PROVE Skilled(h, {})
  <2> DEFINE q == SumVal(Of(b.conds, {"attributes"}))
             t == SumVal(Of(b.conds \cup {c}, {"attributes"}))
  <2>1. /\ q \in Int
        /\ c.kind = "attributes" => t = q + c.val /\ c.val \in Int
        /\ c.kind # "attributes" => t = q
    BY <1>3, OfAdd, NumericKinds
  <2>3. b.varSkill = q + Gain(b)
    BY <1>3, <1>6 DEF Owed, Skilled
  <2>2. Gain(b) \in Int /\ Gain(h) = Gain(b)
    BY <1>1, <1>2, GainType, GainSame
  <2>4. h.varSkill = t + Gain(h)
    <3> HIDE DEF q, t
    <3> QED BY <1>2, <2>1, <2>2, <2>3
  <2>5. SumVal(Of(h.conds \cup {}, {"attributes"})) = t
    BY <1>3
  <2> HIDE DEF t
  <2> QED BY <2>4, <2>5 DEF Skilled
<1>7. Seen(h, {})
  <2>1. isInvisible(h) <=> isInvisible(b) \/ c.kind = "invisible"
    BY <1>2 DEF isInvisible
  <2>2. Of({}, {"invisible"}) = {}
    BY DEF Of
  <2> QED BY <1>2, <2>1, <2>2 DEF Owed, Seen
<1>8. Dressed(h, {}, p)
  <2> SUFFICES ASSUME "outfit" \notin p PROVE Dressed(h, {}, p)
    BY DEF Dressed
  <2>1. Of(h.conds, {"outfit"}) = Of(b.conds, {"outfit"}) /\ c.kind # "outfit"
    BY <1>2 DEF Of
  <2>2. Alone(h.conds \cup {}, "outfit")
    BY <1>0, <1>2, <1>3 DEF Clear
  <2> QED BY <1>2, <2>1, <2>2 DEF Owed, Dressed
<1>9. Paced(h, p)
  BY <1>2 DEF Owed, Paced, SpeedKinds
<1>10. Defended(h, {}, p)
  <2> SUFFICES ASSUME "attributes" \notin p PROVE Defended(h, {}, p)
    BY DEF Defended
  <2>1. h.conds \cup {} = h.conds /\ \A d, e \in Of(h.conds, {"attributes"}) : d.off => d = e
    BY <1>0 DEF Clear
  <2>2. \A d \in h.conds : d.off => d.kind = "attributes"
    BY <1>2 DEF Bodies, Shapes, Afflictions
  <2>3. b.canUseDefense <=> ~\E d \in b.conds : d.off
    BY <1>3 DEF Owed, Defended
  <2>4. h.canUseDefense <=> ~\E d \in h.conds : d.off
    <3>1. CASE c.kind = "attributes"
      <4>1. c \in h.conds /\ \A d \in h.conds : d.off => d = c
        BY <1>2, <2>1, <2>2, <3>1 DEF Of
      <4> QED BY <1>2, <3>1, <4>1
    <3>2. CASE c.kind # "attributes"
      <4>1. (\E d \in h.conds : d.off) <=> \E d \in b.conds : d.off
        BY <1>2, <2>2, <3>2
      <4> QED BY <1>2, <2>3, <3>2, <4>1
    <3> QED BY <3>1, <3>2
  <2> QED BY <2>1, <2>4 DEF Defended
<1>11. Shielded(h, {}, p)
  <2> SUFFICES ASSUME "manashield" \notin p PROVE Shielded(h, {}, p)
    BY DEF Shielded
  <2>1. h.conds \cup {} = h.conds /\ Alone(h.conds, "manashield") /\ Of({}, {"manashield"}) = {}
    BY <1>0 DEF Clear, Of
  <2>2. CASE c.kind = "manashield"
    <3>1. Of(h.conds, {"manashield"}) = {c}
      BY <1>2, <2>1, <2>2 DEF Of, Alone
    <3> QED BY <1>2, <2>1, <2>2, <3>1 DEF Shielded
  <2>3. CASE c.kind # "manashield"
    <3>1. Of(h.conds, {"manashield"}) = Of(b.conds, {"manashield"})
      BY <1>2, <2>3 DEF Of
    <3> QED BY <1>2, <2>1, <2>3, <3>1 DEF Owed, Shielded
  <2> QED BY <2>2, <2>3
<1>12. Owed(h, {}, p)
  BY <1>4, <1>5, <1>6, <1>7, <1>8, <1>9, <1>10, <1>11 DEF Owed
<1> QED BY <1>12 DEF h

LEMMA SwapOwed ==
    ASSUME NEW b, NEW o, Owed(b, {}, o), NEW c \in Afflictions, NEW d \in b.conds, SameKey(c, d),
           NEW h, Swapped(b, d, c, h), NEW p, o \subseteq p, Clear(h, p),
           Unopposed(b, c) \subseteq p, Renewed(b, c) \subseteq p
    PROVE  Owed(h, {}, p)
<1> DEFINE A == b.conds \ {d}
<1>1. b \in Bodies /\ c.kind \in Kinds /\ d \in Afflictions /\ d.kind = c.kind
  BY DEF Owed, Whole, Afflictions, Bodies, Shapes, SameKey
<1>u. \A e, f \in b.conds : SameKey(e, f) => e = f
  BY DEF Owed, Whole
<1>3. /\ A \in SUBSET Afflictions /\ IsFiniteSet(A) /\ c \notin A /\ d \notin A
      /\ b.conds = A \cup {d} /\ h.conds = A \cup {c} /\ h.conds \cup {} = h.conds /\ b.conds \cup {} = b.conds
  <2>1. c \in A => c = d
    BY <1>u
  <2> QED BY <1>1, <2>1, FS_Subset DEF Bodies, Shapes, Swapped
<1> HIDE DEF A
<1>4. Whole(h, {})
  <2>1. \A e \in A : ~SameKey(c, e) /\ ~SameKey(e, c)
    BY <1>3, <1>u DEF SameKey
  <2>2. \A e, f \in h.conds : SameKey(e, f) => e = f
    BY <1>3, <1>u, <2>1
  <2> QED BY <1>3, <2>2, FS_EmptySet DEF Whole, Swapped
<1>5. ASSUME "mount" \notin p PROVE Paid(h, {})
  <2> DEFINE q == SumVal(Of(A, SpeedKinds))
             s == SumVal(Of(A \cup {d}, SpeedKinds))
             t == SumVal(Of(A \cup {c}, SpeedKinds))
             m == IF b.default.mount THEN MountSpeed ELSE 0
             g == GearSpeed(b.enabled)
  <2>1. /\ q \in Int
        /\ c.kind \in SpeedKinds => t = q + c.val /\ c.val \in Int
        /\ c.kind \notin SpeedKinds => t = q
    BY <1>3, OfAdd, NumericKinds
  <2>0. /\ c.kind \in SpeedKinds => s = q + d.val /\ d.val \in Int
        /\ c.kind \notin SpeedKinds => s = q
    BY <1>1, <1>3, OfAdd, NumericKinds
  <2>2. g \in Int /\ m \in Int
    BY <1>1, GearSum, ConditionsAssumption DEF Bodies, Shapes
  <2>3. b.varSpeed = s + m + g
    BY <1>3, <1>5 DEF Owed, Paid
  <2>6. h.varSpeed = IF c.kind \in SpeedKinds THEN b.varSpeed + (c.val - d.val) ELSE b.varSpeed
    BY DEF Swapped
  <2>4. h.varSpeed = t + m + g
    <3> HIDE DEF q, s, t, m, g
    <3> QED BY <2>0, <2>1, <2>2, <2>3, <2>6
  <2>5. SumVal(Of(h.conds \cup {}, SpeedKinds)) = t /\ GearSpeed(h.enabled) = g /\ h.default.mount = b.default.mount
    BY <1>3 DEF SameRest, Swapped
  <2> HIDE DEF t, g
  <2> QED BY <2>4, <2>5 DEF Paid
<1>6. ASSUME "skill" \notin p PROVE Skilled(h, {})
  <2> DEFINE q == SumVal(Of(A, {"attributes"}))
             s == SumVal(Of(A \cup {d}, {"attributes"}))
             t == SumVal(Of(A \cup {c}, {"attributes"}))
  <2>1. /\ q \in Int
        /\ c.kind = "attributes" => t = q + c.val /\ c.val \in Int
        /\ c.kind # "attributes" => t = q
    BY <1>3, OfAdd, NumericKinds
  <2>0. /\ c.kind = "attributes" => s = q + d.val /\ d.val \in Int
        /\ c.kind # "attributes" => s = q
    BY <1>1, <1>3, OfAdd, NumericKinds
  <2>3. b.varSkill = s + Gain(b)
    BY <1>3, <1>6 DEF Owed, Skilled
  <2>2. Gain(b) \in Int /\ Gain(h) = Gain(b)
    BY <1>1, GainType, GainSame DEF Swapped
  <2>6. h.varSkill = IF c.kind = "attributes" THEN (b.varSkill - d.val) + c.val ELSE b.varSkill
    BY DEF Swapped
  <2>4. h.varSkill = t + Gain(h)
    <3> HIDE DEF q, s, t
    <3> QED BY <2>0, <2>1, <2>2, <2>3, <2>6
  <2>5. SumVal(Of(h.conds \cup {}, {"attributes"})) = t
    BY <1>3
  <2> HIDE DEF t
  <2> QED BY <2>4, <2>5 DEF Skilled
<1>7. Seen(h, {})
  <2>1. isInvisible(h) <=> isInvisible(b)
    BY <1>1, <1>3 DEF isInvisible
  <2>2. Of({}, {"invisible"}) = {}
    BY DEF Of
  <2> QED BY <2>1, <2>2 DEF Owed, Seen, Swapped
<1>8. Dressed(h, {}, p)
  <2> SUFFICES ASSUME "outfit" \notin p PROVE Dressed(h, {}, p)
    BY DEF Dressed
  <2>0. "outfit" \notin o
    OBVIOUS
  <2>2. Alone(h.conds, "outfit") /\ h.conds \cup {} = h.conds
    BY DEF Clear
  <2>3. CASE c.kind # "outfit"
    <3>1. Of(h.conds, {"outfit"}) = Of(b.conds, {"outfit"})
      BY <1>1, <1>3, <2>3 DEF Of
    <3>2. h.look = b.look /\ h.default = b.default
      BY <2>3 DEF Swapped
    <3> QED BY <2>0, <2>2, <3>1, <3>2 DEF Owed, Dressed
  <2>4. CASE c.kind = "outfit"
    <3>1. Of(h.conds, {"outfit"}) = {c}
      BY <1>3, <2>2, <2>4 DEF Of, Alone
    <3>2. h.look = Unmounted(c.val) /\ h.default = b.default
      BY <2>4 DEF Swapped
    <3>3. ~b.default.mount
      BY <2>4 DEF Renewed, isMounted
    <3> QED BY <2>2, <3>1, <3>2, <3>3 DEF Dressed
  <2> QED BY <2>3, <2>4
<1>9. Paced(h, p)
  <2> SUFFICES ASSUME "speed" \notin p PROVE Paced(h, p)
    BY DEF Paced
  <2>0. ~\E e, f \in b.conds : e.kind = "haste" /\ f.kind = "paralyze" /\ e.left >= 0 /\ f.left >= 0
    BY DEF Owed, Paced
  <2>1. CASE c.kind \notin SpeedKinds
    BY <1>3, <2>0, <2>1 DEF Paced, SpeedKinds
  <2>2. CASE c.kind \in SpeedKinds
    <3>1. \A e \in b.conds : {c.kind, e.kind} # SpeedKinds
      BY DEF Unopposed
    <3>2. \A e \in A : ~(c.kind = "haste" /\ e.kind = "paralyze") /\ ~(e.kind = "haste" /\ c.kind = "paralyze")
      BY <1>3, <3>1 DEF SpeedKinds
    <3> QED BY <1>3, <2>0, <3>2 DEF Paced
  <2> QED BY <2>1, <2>2
<1>10. Defended(h, {}, p)
  <2> SUFFICES ASSUME "attributes" \notin p PROVE Defended(h, {}, p)
    BY DEF Defended
  <2>1. \A e, f \in Of(h.conds, {"attributes"}) : e.off => e = f
    BY DEF Clear
  <2>2. \A e \in b.conds : e.off => e.kind = "attributes"
    BY <1>1 DEF Bodies, Shapes, Afflictions
  <2>3. (b.canUseDefense <=> ~\E e \in b.conds : e.off) /\ \A e, f \in Of(b.conds, {"attributes"}) : e.off => e = f
    BY <1>3 DEF Owed, Defended
  <2>5. ~c.off
    <3>1. c.off => c.kind = "attributes"
      BY DEF Afflictions
    <3> QED BY <3>1 DEF Renewed
  <2>4. h.canUseDefense <=> ~\E e \in h.conds : e.off
    <3>0. (\E e \in h.conds : e.off) <=> \E e \in A : e.off
      BY <1>3, <2>5
    <3>1. CASE c.kind = "attributes"
      <4>1. h.canUseDefense <=> b.canUseDefense \/ d.off
        BY <3>1 DEF Swapped
      <4>2. d.off => ~\E e \in A : e.off
        BY <1>1, <1>3, <2>2, <2>3, <3>1 DEF Of
      <4>3. ~d.off => ((\E e \in b.conds : e.off) <=> \E e \in A : e.off)
        BY <1>3
      <4> QED BY <2>3, <3>0, <4>1, <4>2, <4>3
    <3>2. CASE c.kind # "attributes"
      <4>1. (\E e \in A : e.off) <=> \E e \in b.conds : e.off
        BY <1>1, <1>3, <2>2, <3>2
      <4>2. h.canUseDefense = b.canUseDefense
        BY <3>2 DEF Swapped
      <4> QED BY <2>3, <3>0, <4>1, <4>2
    <3> QED BY <3>1, <3>2
  <2> QED BY <1>3, <2>1, <2>4 DEF Defended
<1>11. Shielded(h, {}, p)
  <2> SUFFICES ASSUME "manashield" \notin p PROVE Shielded(h, {}, p)
    BY DEF Shielded
  <2>1. h.conds \cup {} = h.conds /\ Alone(h.conds, "manashield") /\ Of({}, {"manashield"}) = {}
    BY DEF Clear, Of
  <2>2. CASE c.kind = "manashield"
    <3>1. Of(h.conds, {"manashield"}) = {c}
      BY <1>3, <2>1, <2>2 DEF Of, Alone
    <3>2. h.manaShield = c.val
      BY <2>2 DEF Swapped
    <3> QED BY <2>1, <3>1, <3>2 DEF Shielded
  <2>3. CASE c.kind # "manashield"
    <3>1. Of(h.conds, {"manashield"}) = Of(b.conds, {"manashield"})
      BY <1>1, <1>3, <2>3 DEF Of
    <3>2. h.manaShield = b.manaShield
      BY <2>3 DEF Swapped
    <3> QED BY <2>1, <3>1, <3>2 DEF Owed, Shielded
  <2> QED BY <2>2, <2>3
<1> QED BY <1>4, <1>5, <1>6, <1>7, <1>8, <1>9, <1>10, <1>11 DEF Owed

LEMMA OwedMore ==
    ASSUME NEW b, NEW o, Owed(b, {}, o), NEW p, o \subseteq p
    PROVE  Owed(b, {}, p)
<1>1. Dressed(b, {}, p)
  BY DEF Owed, Dressed
<1>2. Paced(b, p)
  BY DEF Owed, Paced
<1>3. Defended(b, {}, p)
  BY DEF Owed, Defended
<1>4. Shielded(b, {}, p)
  BY DEF Owed, Shielded
<1>5. ("mount" \in p \/ Paid(b, {})) /\ ("skill" \in p \/ Skilled(b, {}))
  BY DEF Owed
<1> QED BY <1>1, <1>2, <1>3, <1>4, <1>5 DEF Owed

\* An exception that is not needed.
LEMMA OwedLess ==
    ASSUME NEW b, NEW p, NEW x \in {"outfit", "speed"}, Owed(b, {}, p \cup {x}),
           x = "outfit" => Dressed(b, {}, p), x = "speed" => Paced(b, p)
    PROVE  Owed(b, {}, p)
<1>1. Dressed(b, {}, p)
  BY DEF Owed, Dressed
<1>2. Paced(b, p)
  BY DEF Owed, Paced
<1>3. Defended(b, {}, p)
  BY DEF Owed, Defended
<1>4. Shielded(b, {}, p)
  BY DEF Owed, Shielded
<1>5. ("mount" \in p \/ Paid(b, {})) /\ ("skill" \in p \/ Skilled(b, {}))
  BY DEF Owed
<1> QED BY <1>1, <1>2, <1>3, <1>4, <1>5 DEF Owed

\* The fields of b but its speed and its looks.
SameBut(b, h) == /\ h.conds = b.conds /\ h.varSkill = b.varSkill /\ h.manaShield = b.manaShield
                 /\ h.canUseDefense = b.canUseDefense /\ h.level = b.level
\* The same, and his skill.
SameSpells(b, h) == /\ h.conds = b.conds /\ h.manaShield = b.manaShield
                    /\ h.canUseDefense = b.canUseDefense /\ h.level = b.level

LEMMA DismountFields ==
    ASSUME NEW b \in Bodies
    PROVE  LET h == dismount(b)
           IN  /\ h \in Bodies /\ SameBut(b, h) /\ SameRest(b, h)
               /\ h.look = b.look /\ h.shown = b.shown
               /\ h.varSpeed = b.varSpeed - MountSpeed
               /\ h.default = Unmounted(b.default.type)
<1> DEFINE u == Unmounted(b.default.type)
           k == b.varSpeed + (-MountSpeed)
           h == dismount(b)
<1>1. u \in Outfits /\ [b.default EXCEPT !.mount = FALSE] = u
  <2>1. b.default = [type |-> b.default.type, mount |-> b.default.mount] /\ b.default.type \in Looks
    BY DEF Bodies, Shapes, Outfits
  <2>2. [b.default EXCEPT !.mount = FALSE] = [type |-> b.default.type, mount |-> FALSE]
    <3>1. b.default \in [type : Looks, mount : BOOLEAN]
      BY DEF Bodies, Shapes, Outfits
    <3> DEFINE f == FALSE
               M == BOOLEAN
               x == b.default
    <3>2. f \in M /\ x \in [type : Looks, mount : M]
      BY <3>1
    <3> HIDE DEF f, M, x
    <3>3. [x EXCEPT !.mount = f] = [type |-> x.type, mount |-> f]
      BY <3>2
    <3> QED BY <3>3 DEF f, x
  <2> QED BY <2>1, <2>2, LookTypes DEF Unmounted
<1>2. k \in Int /\ k = b.varSpeed - MountSpeed
  BY ConditionsAssumption DEF Bodies, Shapes
<1>3. h = [b EXCEPT !.varSpeed = k, !.default = u]
  <2>1. h = [b EXCEPT !.varSpeed = k, !.default = [b.default EXCEPT !.mount = FALSE]]
    BY DEF dismount, changeSpeed, Bodies, Shapes
  <2> QED BY <1>1, <2>1
<1> HIDE DEF u, k, h
<1>4. h \in Bodies
  BY <1>1, <1>2, <1>3 DEF Bodies, Shapes
<1> QED BY <1>2, <1>3, <1>4 DEF SameBut, SameRest, Bodies, Shapes, u, h

LEMMA DismountOwed ==
    ASSUME NEW b, NEW p, Owed(b, {}, p), "outfit" \in p, b.default.mount
    PROVE  Owed(dismount(b), {}, p)
<1> DEFINE h == dismount(b)
<1>0. b \in Bodies
  BY DEF Owed, Whole
<1>1. /\ h \in Bodies /\ SameBut(b, h) /\ SameRest(b, h)
      /\ h.look = b.look /\ h.shown = b.shown
      /\ h.varSpeed = b.varSpeed - MountSpeed
      /\ h.default = Unmounted(b.default.type)
  BY <1>0, DismountFields
<1> HIDE DEF h
<1>2. Whole(h, {}) /\ Seen(h, {}) /\ Paced(h, p)
  BY <1>1 DEF Owed, Whole, Seen, Paced, SameBut, isInvisible
<1>s. "skill" \in p \/ Skilled(h, {})
  <2>1. Gain(h) = Gain(b)
    BY <1>1, GainSame
  <2> QED BY <1>1, <2>1 DEF Owed, Skilled, SameBut
<1>3. Dressed(h, {}, p)
  BY DEF Dressed
<1>4. Defended(h, {}, p) /\ Shielded(h, {}, p)
  BY <1>1 DEF Owed, Defended, Shielded, SameBut
<1>5. ASSUME "mount" \notin p PROVE Paid(h, {})
  <2> DEFINE s == SumVal(Of(b.conds \cup {}, SpeedKinds))
             g == GearSpeed(b.enabled)
  <2>1. s \in Int /\ g \in Int /\ MountSpeed \in Int
    <3>1. b.conds \cup {} = b.conds /\ b.conds \in SUBSET Afflictions /\ IsFiniteSet(b.conds) /\ b.enabled \in SUBSET DOMAIN Gear
      BY <1>0 DEF Bodies, Shapes
    <3> QED BY <3>1, OfSum, NumericKinds, GearSum, ConditionsAssumption
  <2>2. b.varSpeed = s + MountSpeed + g
    BY <1>5 DEF Owed, Paid
  <2>3. SumVal(Of(h.conds \cup {}, SpeedKinds)) = s /\ GearSpeed(h.enabled) = g /\ ~h.default.mount
    BY <1>1 DEF SameBut, SameRest, Unmounted
  <2>4. h.varSpeed = s + 0 + g
    <3> HIDE DEF s, g
    <3> QED BY <1>1, <2>1, <2>2
  <2> HIDE DEF s, g
  <2> QED BY <2>3, <2>4 DEF Paid
<1> HIDE DEF h
<1>6. Owed(h, {}, p)
  BY <1>2, <1>3, <1>4, <1>5, <1>s DEF Owed
<1> QED BY <1>6 DEF h

Prevs(b, c) == {d \in b.conds : SameKey(c, d)}

LEMMA AddCases ==
    ASSUME NEW b, NEW c
    PROVE  /\ Prevs(b, c) # {} => \E d \in Prevs(b, c) : addCondition(b, c) = renew(b, d, c)
           /\ Prevs(b, c) = {} => addCondition(b, c) = playerOnAddCondition(Started(b, c), c.kind)
BY DEF addCondition, Prevs, Started

Against(kind) == IF kind = "haste" THEN "paralyze" ELSE "haste"

\* What onAddCondition() may do: end the opposite speed, dismount, or nothing.
LEMMA OnAddCases ==
    ASSUME NEW w, NEW kind \in Kinds
    PROVE  LET h == playerOnAddCondition(w, kind)
               x == Against(kind)
           IN  \/ kind \in SpeedKinds /\ hasCondition(w, x) /\ h = RemoveAll(w, OfKind(w, x))
               \/ kind \in SpeedKinds /\ ~hasCondition(w, x) /\ h = w
               \/ kind = "outfit" /\ w.default.mount /\ h = dismount(w)
               \/ kind = "outfit" /\ ~w.default.mount /\ h = w
               \/ kind \notin SpeedKinds \cup {"outfit"} /\ h = w
<1> DEFINE h == playerOnAddCondition(w, kind)
<1>1. CASE kind = "paralyze"
  <2>1. kind \in SpeedKinds /\ Against(kind) = "haste" /\ ~(kind = "haste") /\ ~(kind = "outfit")
    BY <1>1 DEF SpeedKinds, Against
  <2>2. CASE hasCondition(w, "haste")
    <3>1. h = RemoveAll(w, OfKind(w, "haste"))
      BY <1>1, <2>1, <2>2 DEF playerOnAddCondition
    <3> QED BY <2>1, <2>2, <3>1
  <2>3. CASE ~hasCondition(w, "haste")
    <3>1. h = w
      BY <1>1, <2>1, <2>3 DEF playerOnAddCondition
    <3> QED BY <2>1, <2>3, <3>1
  <2> QED BY <2>2, <2>3
<1>2. CASE kind = "haste"
  <2>1. kind \in SpeedKinds /\ Against(kind) = "paralyze" /\ ~(kind = "paralyze") /\ ~(kind = "outfit")
    BY <1>2 DEF SpeedKinds, Against
  <2>2. CASE hasCondition(w, "paralyze")
    <3>1. h = RemoveAll(w, OfKind(w, "paralyze"))
      BY <1>2, <2>1, <2>2 DEF playerOnAddCondition
    <3> QED BY <2>1, <2>2, <3>1
  <2>3. CASE ~hasCondition(w, "paralyze")
    <3>1. h = w
      BY <1>2, <2>1, <2>3 DEF playerOnAddCondition
    <3> QED BY <2>1, <2>3, <3>1
  <2> QED BY <2>2, <2>3
<1>3. CASE kind = "outfit"
  <2>1. ~(kind = "paralyze") /\ ~(kind = "haste")
    BY <1>3
  <2>2. CASE w.default.mount
    <3>1. h = dismount(w)
      BY <1>3, <2>1, <2>2 DEF playerOnAddCondition, isMounted
    <3> QED BY <1>3, <2>2, <3>1
  <2>3. CASE ~w.default.mount
    <3>1. h = w
      BY <1>3, <2>1, <2>3 DEF playerOnAddCondition, isMounted
    <3> QED BY <1>3, <2>3, <3>1
  <2> QED BY <2>2, <2>3
<1>4. CASE kind \notin SpeedKinds \cup {"outfit"}
  <2>1. ~(kind = "paralyze") /\ ~(kind = "haste") /\ ~(kind = "outfit")
    BY <1>4 DEF SpeedKinds
  <2>2. h = w
    BY <2>1 DEF playerOnAddCondition
  <2> QED BY <1>4, <2>2
<1> QED BY <1>1, <1>2, <1>3, <1>4 DEF SpeedKinds

\* What becomes of the list.
AddedTo(b, c, h) ==
    /\ h \in Bodies /\ SameRest(b, h) /\ h.conds \subseteq b.conds \cup {c}
    /\ \A e \in b.conds : e.kind \notin SpeedKinds => e \in h.conds \/ (SameKey(c, e) /\ c \in h.conds)
    /\ c \in h.conds \/ \E d \in b.conds : SameKey(c, d) /\ d \in h.conds
    /\ h.default.mount => b.default.mount

LEMMA AddType ==
    ASSUME NEW b \in Bodies, NEW c \in Afflictions
    PROVE  AddedTo(b, c, addCondition(b, c))
<1> DEFINE h == addCondition(b, c)
<1>0. c.kind \in Kinds /\ b.conds \in SUBSET Afflictions
  BY DEF Afflictions, Bodies, Shapes
<1>1. CASE Prevs(b, c) # {}
  <2>1. PICK d \in Prevs(b, c) : h = renew(b, d, c)
    BY <1>1, AddCases
  <2>2. d \in b.conds /\ SameKey(c, d)
    BY <2>1 DEF Prevs
  <2>3. h = b \/ Swapped(b, d, c, h)
    BY <2>1, <2>2, SwapFields
  <2>4. CASE h = b
    BY <2>2, <2>4 DEF AddedTo, SameRest
  <2>5. CASE Swapped(b, d, c, h)
    <3> HIDE DEF h
    <3> QED BY <2>2, <2>5 DEF AddedTo, Swapped, h
  <2> QED BY <2>3, <2>4, <2>5
<1>2. CASE Prevs(b, c) = {}
  <2> DEFINE w == Started(b, c)
             x == Against(c.kind)
  <2>1. w \in Bodies /\ w.conds = b.conds \cup {c} /\ w.default = b.default /\ SameRest(b, w)
    BY StartFields
  <2>2. h = playerOnAddCondition(w, c.kind)
    BY <1>2, AddCases
  <2> HIDE DEF w
  <2>3. \/ c.kind \in SpeedKinds /\ h = RemoveAll(w, OfKind(w, x))
        \/ h = w \/ h = dismount(w)
    BY <1>0, <2>2, OnAddCases
  <2> HIDE DEF h
  <2>4. CASE h = w
    BY <2>1, <2>4 DEF AddedTo, h
  <2>5. CASE h = dismount(w)
    <3>1. h \in Bodies /\ h.conds = w.conds /\ SameRest(w, h) /\ h.default = Unmounted(w.default.type)
      BY <2>1, <2>5, DismountFields DEF SameBut
    <3>2. ~h.default.mount
      BY <3>1 DEF Unmounted
    <3> QED BY <2>1, <3>1, <3>2 DEF AddedTo, SameRest, h
  <2>6. CASE c.kind \in SpeedKinds /\ h = RemoveAll(w, OfKind(w, x))
    <3>1. OfKind(w, x) \in SUBSET w.conds
      BY DEF OfKind
    <3>2. h \in Bodies /\ SameRest(w, h) /\ h.conds = w.conds \ OfKind(w, x) /\ h.default = w.default
      BY <2>1, <2>6, <3>1, RemoveAllType
    <3>3. c.kind # x /\ x \in SpeedKinds
      BY DEF Against, SpeedKinds
    <3>4. c \in h.conds /\ \A e \in b.conds : e.kind \notin SpeedKinds => e \in h.conds
      BY <2>1, <3>2, <3>3 DEF OfKind
    <3>5. h.conds \subseteq b.conds \cup {c} /\ SameRest(b, h)
      BY <2>1, <3>2 DEF SameRest
    <3> QED BY <2>1, <3>2, <3>4, <3>5 DEF AddedTo, h
  <2> QED BY <2>3, <2>4, <2>5, <2>6
<1> QED BY <1>1, <1>2

\* A condition is added.
LEMMA AddOwed ==
    ASSUME NEW b, NEW o, Owed(b, {}, o), NEW c \in Afflictions, NEW p, o \subseteq p,
           Unopposed(b, c) \subseteq p, Renewed(b, c) \subseteq p, Clear(addCondition(b, c), p)
    PROVE  Owed(addCondition(b, c), {}, p)
<1> DEFINE h == addCondition(b, c)
           w == Started(b, c)
           x == Against(c.kind)
<1>0. b \in Bodies /\ c.kind \in Kinds
  BY DEF Owed, Whole, Afflictions
<1>1. CASE Prevs(b, c) # {}
  <2>1. PICK d \in Prevs(b, c) : h = renew(b, d, c)
    BY <1>1, AddCases
  <2>2. d \in b.conds /\ SameKey(c, d)
    BY <2>1 DEF Prevs
  <2>3. h = b \/ Swapped(b, d, c, h)
    BY <1>0, <2>1, <2>2, SwapFields
  <2>4. CASE h = b
    BY <2>4, OwedMore
  <2>5. CASE Swapped(b, d, c, h)
    <3>1. Clear(h, p)
      OBVIOUS
    <3> HIDE DEF h
    <3>2. Owed(h, {}, p)
      BY <2>2, <2>5, <3>1, SwapOwed
    <3> QED BY <3>2 DEF h
  <2> QED BY <2>3, <2>4, <2>5
<1>2. CASE Prevs(b, c) = {}
  <2>0. \A d \in b.conds : ~SameKey(c, d)
    BY <1>2 DEF Prevs
  <2>1. /\ w \in Bodies /\ w.conds = b.conds \cup {c} /\ w.default = b.default /\ SameRest(b, w)
        /\ c.kind = "outfit" => w.look = Unmounted(c.val)
    BY <1>0, StartFields
  <2>2. Clear(h, p) /\ h = playerOnAddCondition(w, c.kind)
    BY <1>2, AddCases
  <2>s. ASSUME NEW q, p \subseteq q, Clear(w, q),
               c.kind = "outfit" => "outfit" \in q, c.kind \in SpeedKinds => "speed" \in q
        PROVE  Owed(w, {}, q)
    <3>1. o \subseteq q
      BY <2>s
    <3> QED BY <2>0, <2>s, <3>1, StartOwed
  <2> HIDE DEF w
  <2>3. \/ c.kind \in SpeedKinds /\ hasCondition(w, x) /\ h = RemoveAll(w, OfKind(w, x))
        \/ c.kind \in SpeedKinds /\ ~hasCondition(w, x) /\ h = w
        \/ c.kind = "outfit" /\ w.default.mount /\ h = dismount(w)
        \/ c.kind = "outfit" /\ ~w.default.mount /\ h = w
        \/ c.kind \notin SpeedKinds \cup {"outfit"} /\ h = w
    BY <1>0, <2>2, OnAddCases
  <2>4. c.kind # x /\ x \in SpeedKinds /\ (c.kind \in SpeedKinds => {c.kind, x} = SpeedKinds)
    BY DEF Against, SpeedKinds
  <2>p. ASSUME NEW y, \A e \in y.conds : c.kind \in SpeedKinds /\ e.kind # x
        PROVE  Paced(y, p)
    BY <2>p DEF Paced, Against, SpeedKinds
  <2> HIDE DEF h, x
  <2>5. CASE c.kind \in SpeedKinds /\ h = RemoveAll(w, OfKind(w, x))
    <3>1. OfKind(w, x) \in SUBSET w.conds
      BY DEF OfKind
    <3>2. h.conds = w.conds \ OfKind(w, x)
      BY <2>1, <2>5, <3>1, RemoveAllType
    <3>3. \A k \in {"outfit", "manashield", "attributes"} : Of(w.conds, {k}) = Of(h.conds, {k})
      BY <2>4, <3>2 DEF Of, OfKind, SpeedKinds
    <3>4. Clear(w, p \cup {"speed"})
      BY <2>2, <3>3 DEF Clear, Alone
    <3>5. Owed(w, {}, p \cup {"speed"})
      BY <2>5, <2>s, <3>4 DEF SpeedKinds
    <3>6. Owed(h, {}, p \cup {"speed"})
      BY <2>5, <3>1, <3>5, Removed
    <3>7. \A e \in h.conds : e.kind # x
      BY <3>2 DEF OfKind
    <3>8. Paced(h, p)
      BY <2>5, <2>p, <3>7
    <3> QED BY <3>6, <3>8, OwedLess DEF h
  <2>6. CASE c.kind \in SpeedKinds /\ ~hasCondition(w, x) /\ h = w
    <3>4. Clear(w, p \cup {"speed"})
      BY <2>2, <2>6 DEF Clear
    <3>5. Owed(w, {}, p \cup {"speed"})
      BY <2>6, <2>s, <3>4 DEF SpeedKinds
    <3>6. Paced(w, p)
      <4> SUFFICES ASSUME "speed" \notin p PROVE Paced(w, p)
        BY DEF Paced
      <4>1. ~hasCondition(b, x)
        BY <2>1, <2>6 DEF hasCondition, SameRest
      <4>2. \A e \in b.conds : e.kind # x
        <5> SUFFICES ASSUME NEW e \in b.conds, e.kind = x PROVE FALSE
          OBVIOUS
        <5>1. {c.kind, e.kind} = SpeedKinds /\ ~hasCondition(b, e.kind)
          BY <2>4, <2>6, <4>1
        <5> QED BY <5>1 DEF Unopposed
      <4>3. \A e \in w.conds : e.kind # x
        BY <2>1, <2>4, <4>2
      <4> QED BY <2>6, <2>p, <4>3
    <3> QED BY <2>6, <3>5, <3>6, OwedLess DEF h
  <2>o. ASSUME "outfit" \notin p, c.kind = "outfit", h.conds = w.conds, h.look = w.look, ~h.default.mount
        PROVE  Dressed(h, {}, p)
    <3>1. Alone(h.conds, "outfit") /\ h.conds \cup {} = h.conds
      BY <2>2, <2>o DEF Clear
    <3>2. Of(h.conds, {"outfit"}) = {c}
      BY <2>1, <2>o, <3>1 DEF Of, Alone
    <3> QED BY <2>1, <2>o, <3>1, <3>2 DEF Dressed
  <2>7. CASE c.kind = "outfit" /\ w.default.mount /\ h = dismount(w)
    <3>1. h.conds = w.conds /\ h.look = w.look /\ ~h.default.mount
      <4>1. h.conds = w.conds /\ h.look = w.look /\ h.default = Unmounted(w.default.type)
        BY <2>1, <2>7, DismountFields DEF SameBut
      <4> QED BY <4>1 DEF Unmounted
    <3>2. Clear(w, p \cup {"outfit"})
      BY <2>2, <3>1 DEF Clear
    <3>3. Owed(w, {}, p \cup {"outfit"})
      BY <2>7, <2>s, <3>2 DEF SpeedKinds
    <3>4. Owed(h, {}, p \cup {"outfit"})
      BY <2>7, <3>3, DismountOwed
    <3>5. Dressed(h, {}, p)
      BY <2>7, <2>o, <3>1 DEF Dressed
    <3> QED BY <3>4, <3>5, OwedLess DEF h
  <2>8. CASE c.kind = "outfit" /\ ~w.default.mount /\ h = w
    <3>2. Clear(w, p \cup {"outfit"})
      BY <2>2, <2>8 DEF Clear
    <3>3. Owed(w, {}, p \cup {"outfit"})
      BY <2>8, <2>s, <3>2 DEF SpeedKinds
    <3>5. Dressed(w, {}, p)
      BY <2>8, <2>o DEF Dressed
    <3> QED BY <2>8, <3>3, <3>5, OwedLess DEF h
  <2>9. CASE c.kind \notin SpeedKinds \cup {"outfit"} /\ h = w
    <3>1. Owed(w, {}, p)
      BY <2>2, <2>9, <2>s
    <3> QED BY <2>9, <3>1 DEF h
  <2> QED BY <2>3, <2>5, <2>6, <2>7, <2>8, <2>9 DEF h
<1> QED BY <1>1, <1>2

\* Worn items that act have their conditions, and suppress what they say.
Geared(b, o) ==
    \A s \in b.enabled :
        /\ Gear[s].invisible => ItemCondition("invisible", s) \in b.conds
        /\ Gear[s].manaShield => ItemCondition("manashield", s) \in b.conds \/ "manashield" \in o
Barred(b, o) == "suppress" \in o \/ b.suppressed = UNION {Gear[s].suppress : s \in b.enabled}

Coherent(b, o) == Owed(b, {}, o) /\ Geared(b, o) /\ Barred(b, o)

SameLife(b, h) == h.wasMounted = b.wasMounted /\ h.pz = b.pz /\ h.alive = b.alive /\ h.level = b.level

LEMMA SlotTypes ==
    ASSUME NEW s \in DOMAIN Gear
    PROVE  /\ s \in Int /\ s > 0 /\ Gear[s].suppress \in SUBSET Suppressible /\ Gear[s].speed \in Int
           /\ \A l \in Levels : Gear[s].skill[l] \in Int
BY ConditionsAssumption DEF Suppressible

LEMMA ItemConditionType ==
    ASSUME NEW s \in DOMAIN Gear, NEW kind \in {"invisible", "manashield"}
    PROVE  LET c == ItemCondition(kind, s)
           IN  c \in Afflictions /\ c.kind = kind /\ c.id = s /\ ~c.off /\ c.kind \notin SpeedKinds
<1> DEFINE f == FALSE
           c == [kind |-> kind, id |-> s, sub |-> 0, left |-> Forever, val |-> 0, off |-> f]
<1>1. f \in BOOLEAN /\ ~f
  OBVIOUS
<1>2. c = ItemCondition(kind, s)
  BY DEF ItemCondition
<1> HIDE DEF f
<1>3. /\ c.kind = kind /\ c.id = s /\ c.sub = 0 /\ c.val = 0 /\ ~c.off
      /\ kind \in Kinds /\ kind \notin SpeedKinds
  BY <1>1 DEF Kinds, SpeedKinds
<1>4. c \in [kind : Kinds, id : Int, sub : Int, left : Int, val : Vals, off : BOOLEAN]
  <2>1. s \in Int /\ Forever \in Int /\ 0 \in Vals
    BY SlotTypes, ConditionsAssumption DEF Vals
  <2> QED BY <1>1, <1>3, <2>1
<1> HIDE DEF c
<1>5. c \in Afflictions
  BY <1>2, <1>3, <1>4 DEF Afflictions, Numeric
<1> QED BY <1>2, <1>3, <1>5

\* The condition of an item is added; what else is on the list stays.
KeepsWith(b, c, h) ==
    /\ h \in Bodies /\ SameRest(b, h) /\ c \in h.conds /\ h.conds \subseteq b.conds \cup {c}
    /\ \A e \in b.conds : e.kind \notin SpeedKinds => e \in h.conds
    /\ h.default.mount => b.default.mount

LEMMA AddItemType ==
    ASSUME NEW b \in Bodies, NEW s \in DOMAIN Gear, NEW kind \in {"invisible", "manashield"}
    PROVE  KeepsWith(b, ItemCondition(kind, s), addCondition(b, ItemCondition(kind, s)))
<1> DEFINE c == ItemCondition(kind, s)
           h == addCondition(b, c)
<1>1. c \in Afflictions /\ c.kind = kind /\ c.id = s /\ s > 0
  BY ItemConditionType, SlotTypes
<1>2. \A e \in b.conds : SameKey(c, e) => e = c
  <2> SUFFICES ASSUME NEW e \in b.conds, SameKey(c, e) PROVE e = c
    OBVIOUS
  <2>1. e.kind = kind /\ e.id = s /\ e \in Afflictions
    BY <1>1 DEF SameKey, Bodies, Shapes
  <2>2. e = ItemCondition(e.kind, e.id)
    BY <1>1, <2>1 DEF Afflictions
  <2> QED BY <2>1, <2>2
<1> HIDE DEF c
<1>3. AddedTo(b, c, h)
  BY <1>1, AddType
<1> HIDE DEF h
<1>4. KeepsWith(b, c, h)
  BY <1>2, <1>3 DEF KeepsWith, AddedTo
<1> QED BY <1>4 DEF c, h

LEMMA AddItem ==
    ASSUME NEW b, NEW o, Owed(b, {}, o), NEW s \in DOMAIN Gear, NEW kind \in {"invisible", "manashield"},
           NEW p, o \subseteq p,
           "manashield" \notin p => Alone(addCondition(b, ItemCondition(kind, s)).conds, "manashield")
    PROVE  Owed(addCondition(b, ItemCondition(kind, s)), {}, p)
<1> DEFINE c == ItemCondition(kind, s)
           h == addCondition(b, c)
<1>1. c \in Afflictions /\ c.kind = kind /\ c.id = s /\ ~c.off /\ c.kind \notin SpeedKinds
  BY ItemConditionType
<1>2. b \in Bodies
  BY DEF Owed, Whole
<1>3. KeepsWith(b, c, h)
  BY <1>2, AddItemType
<1>4. "manashield" \notin p => Alone(h.conds, "manashield")
  OBVIOUS
<1> HIDE DEF c
<1>5. Unopposed(b, c) = {} /\ Renewed(b, c) = {}
  BY <1>1 DEF Unopposed, Renewed
<1> HIDE DEF h
<1>6. Of(h.conds, {"outfit"}) = Of(b.conds, {"outfit"}) /\ Of(h.conds, {"attributes"}) = Of(b.conds, {"attributes"})
  BY <1>1, <1>3 DEF KeepsWith, Of, SpeedKinds
<1>7. b.conds \cup {} = b.conds
  OBVIOUS
<1>8. Clear(h, p)
  <2>1. "outfit" \notin p => Alone(h.conds, "outfit")
    BY <1>6, <1>7 DEF Owed, Dressed, Alone
  <2>2. "attributes" \notin p => \A d, e \in Of(h.conds, {"attributes"}) : d.off => d = e
    BY <1>6, <1>7 DEF Owed, Defended
  <2> QED BY <1>4, <2>1, <2>2 DEF Clear
<1>9. Owed(h, {}, p)
  BY <1>1, <1>5, <1>8, AddOwed DEF h
<1> QED BY <1>9 DEF c, h

\* Another set of items acts on his speed and his skill.
Fit(b, E, Z, x, y) == [b EXCEPT !.varSpeed = @ + x, !.varSkill = @ + y, !.enabled = E, !.suppressed = Z]

LEMMA FitFields ==
    ASSUME NEW b \in Bodies, NEW E \in SUBSET DOMAIN Gear, NEW Z \in SUBSET Suppressible, NEW x \in Int, NEW y \in Int
    PROVE  LET h == Fit(b, E, Z, x, y)
           IN  /\ h \in Bodies /\ SameSpells(b, h) /\ SameLife(b, h) /\ h.slots = b.slots
               /\ h.look = b.look /\ h.shown = b.shown /\ h.default = b.default
               /\ h.varSpeed = b.varSpeed + x /\ h.varSkill = b.varSkill + y /\ h.enabled = E /\ h.suppressed = Z
<1> DEFINE k == b.varSpeed + x
           m == b.varSkill + y
           h == Fit(b, E, Z, x, y)
<1>1. /\ k \in Int /\ k = b.varSpeed + x /\ m \in Int /\ m = b.varSkill + y
      /\ h = [b EXCEPT !.varSpeed = k, !.varSkill = m, !.enabled = E, !.suppressed = Z]
  BY DEF Bodies, Shapes, Fit
<1> HIDE DEF k, m, h
<1>2. h \in Bodies
  BY <1>1 DEF Bodies, Shapes
<1> QED BY <1>1, <1>2 DEF Bodies, Shapes, SameSpells, SameLife, h

LEMMA FitOwed ==
    ASSUME NEW b, NEW o, Owed(b, {}, o), NEW E \in SUBSET DOMAIN Gear, NEW Z \in SUBSET Suppressible,
           NEW x \in Int, NEW y \in Int,
           GearSpeed(E) = GearSpeed(b.enabled) + x, GearSkill(E, b.level) = GearSkill(b.enabled, b.level) + y
    PROVE  Owed(Fit(b, E, Z, x, y), {}, o)
<1> DEFINE h == Fit(b, E, Z, x, y)
<1>0. b \in Bodies
  BY DEF Owed, Whole
<1>1. /\ h \in Bodies /\ SameSpells(b, h) /\ SameLife(b, h) /\ h.slots = b.slots
      /\ h.look = b.look /\ h.shown = b.shown /\ h.default = b.default
      /\ h.varSpeed = b.varSpeed + x /\ h.varSkill = b.varSkill + y /\ h.enabled = E /\ h.suppressed = Z
  BY <1>0, FitFields
<1> HIDE DEF h
<1>2. Whole(h, {}) /\ Seen(h, {}) /\ Paced(h, o)
  BY <1>1 DEF Owed, Whole, Seen, Paced, SameSpells, isInvisible
<1>3. Dressed(h, {}, o)
  BY <1>1 DEF Owed, Dressed, SameSpells
<1>4. Defended(h, {}, o) /\ Shielded(h, {}, o)
  BY <1>1 DEF Owed, Defended, Shielded, SameSpells
<1>c. b.conds \cup {} = b.conds /\ b.conds \in SUBSET Afflictions /\ IsFiniteSet(b.conds) /\ b.enabled \in SUBSET DOMAIN Gear
  BY <1>0 DEF Bodies, Shapes
<1>5. ASSUME "mount" \notin o PROVE Paid(h, {})
  <2> DEFINE s == SumVal(Of(b.conds \cup {}, SpeedKinds))
             g == GearSpeed(b.enabled)
             m == IF b.default.mount THEN MountSpeed ELSE 0
  <2>1. s \in Int /\ g \in Int /\ m \in Int
    BY <1>c, OfSum, NumericKinds, GearSum, ConditionsAssumption
  <2>2. b.varSpeed = s + m + g
    BY <1>5 DEF Owed, Paid
  <2>3. SumVal(Of(h.conds \cup {}, SpeedKinds)) = s /\ GearSpeed(h.enabled) = g + x /\ h.default = b.default
    BY <1>1 DEF SameSpells
  <2>4. h.varSpeed = s + m + (g + x)
    <3> HIDE DEF s, g, m
    <3> QED BY <1>1, <2>1, <2>2
  <2> HIDE DEF s, g
  <2> QED BY <2>3, <2>4 DEF Paid
<1>6. ASSUME "skill" \notin o PROVE Skilled(h, {})
  <2> DEFINE s == SumVal(Of(b.conds \cup {}, {"attributes"}))
             g == Gain(b)
  <2>1. s \in Int /\ g \in Int
    BY <1>0, <1>c, OfSum, NumericKinds, GainType
  <2>2. b.varSkill = s + g
    BY <1>6 DEF Owed, Skilled
  <2>3. SumVal(Of(h.conds \cup {}, {"attributes"})) = s /\ Gain(h) = g + y
    BY <1>1 DEF SameSpells, Gain
  <2>4. h.varSkill = s + (g + y)
    <3> HIDE DEF s, g
    <3> QED BY <1>1, <2>1, <2>2
  <2> HIDE DEF s, g
  <2> QED BY <2>3, <2>4 DEF Skilled
<1>7. Owed(h, {}, o)
  BY <1>2, <1>3, <1>4, <1>5, <1>6 DEF Owed
<1> QED BY <1>7 DEF h

Veiled(b, s) == IF Gear[s].invisible THEN addCondition(b, ItemCondition("invisible", s)) ELSE b
Guarded(b, s) == IF Gear[s].manaShield THEN addCondition(Veiled(b, s), ItemCondition("manashield", s)) ELSE Veiled(b, s)

LEMMA EquipIs ==
    ASSUME NEW b, NEW s
    PROVE  EquipItem(b, s) = IF s \in b.enabled THEN b
                             ELSE Fit(Guarded(b, s), Guarded(b, s).enabled \cup {s},
                                      Guarded(b, s).suppressed \cup Gear[s].suppress, Gear[s].speed,
                                      Gear[s].skill[b.level])
<1>1. \A g : Fit(g, g.enabled \cup {s}, g.suppressed \cup Gear[s].suppress, Gear[s].speed, Gear[s].skill[b.level])
             = [GiveSkill(changeSpeed(g, Gear[s].speed), Gear[s].skill[b.level]) EXCEPT
                   !.enabled = @ \cup {s}, !.suppressed = @ \cup Gear[s].suppress]
  BY DEF Fit, changeSpeed, GiveSkill
<1> QED BY <1>1, Zenon DEF EquipItem, Guarded, Veiled

\* What equipping leaves alone.
Keeps(b, h) ==
    /\ h \in Bodies /\ SameLife(b, h) /\ h.slots = b.slots
    /\ \A e \in b.conds : e.kind \notin SpeedKinds => e \in h.conds
    /\ \A e \in h.conds : e \in b.conds \/ e.id > 0
    /\ h.default.mount => b.default.mount

LEMMA GuardedType ==
    ASSUME NEW b \in Bodies, NEW s \in DOMAIN Gear
    PROVE  LET v == Veiled(b, s)
               g == Guarded(b, s)
           IN  /\ v \in Bodies /\ SameRest(b, v) /\ g \in Bodies /\ SameRest(b, g)
               /\ \A e \in b.conds : e.kind \notin SpeedKinds => e \in v.conds
               /\ \A e \in v.conds : e.kind \notin SpeedKinds => e \in g.conds
               /\ g.conds \subseteq b.conds \cup {ItemCondition("invisible", s), ItemCondition("manashield", s)}
               /\ Gear[s].invisible => ItemCondition("invisible", s) \in g.conds
               /\ Gear[s].manaShield => ItemCondition("manashield", s) \in g.conds
               /\ g.default.mount => b.default.mount
<1> DEFINE i == ItemCondition("invisible", s)
           m == ItemCondition("manashield", s)
           v == Veiled(b, s)
           g == Guarded(b, s)
<1>0. i.kind \notin SpeedKinds
  BY ItemConditionType
<1>1. IF Gear[s].invisible THEN KeepsWith(b, i, v) ELSE v = b
  BY AddItemType DEF Veiled
<1>2. v \in Bodies /\ SameRest(b, v)
  BY <1>1 DEF KeepsWith, SameRest
<1>3. IF Gear[s].manaShield THEN KeepsWith(v, m, g) ELSE g = v
  BY <1>2, AddItemType DEF Guarded
<1>4. g \in Bodies /\ SameRest(b, g)
  BY <1>2, <1>3 DEF KeepsWith, SameRest
<1> HIDE DEF i, m, v, g
<1>5. /\ \A e \in b.conds : e.kind \notin SpeedKinds => e \in v.conds
      /\ v.conds \subseteq b.conds \cup {i} /\ (Gear[s].invisible => i \in v.conds)
  BY <1>1 DEF KeepsWith
<1>6. /\ \A e \in v.conds : e.kind \notin SpeedKinds => e \in g.conds
      /\ g.conds \subseteq v.conds \cup {m} /\ (Gear[s].manaShield => m \in g.conds)
  BY <1>3 DEF KeepsWith
<1>7. g.conds \subseteq b.conds \cup {i, m} /\ (Gear[s].invisible => i \in g.conds)
  BY <1>0, <1>5, <1>6
<1>8. g.default.mount => b.default.mount
  BY <1>1, <1>3 DEF KeepsWith
<1> QED BY <1>2, <1>4, <1>5, <1>6, <1>7, <1>8 DEF i, m, v, g

LEMMA EquipType ==
    ASSUME NEW b \in Bodies, NEW s \in DOMAIN Gear
    PROVE  Keeps(b, EquipItem(b, s)) /\ EquipItem(b, s).enabled = b.enabled \cup {s}
<1> DEFINE h == EquipItem(b, s)
           g == Guarded(b, s)
<1>1. CASE s \in b.enabled
  <2>1. h = b /\ b.enabled = b.enabled \cup {s}
    BY <1>1, EquipIs
  <2> QED BY <2>1 DEF Keeps, SameLife
<1>2. CASE s \notin b.enabled
  <2>1. h = Fit(g, g.enabled \cup {s}, g.suppressed \cup Gear[s].suppress, Gear[s].speed, Gear[s].skill[b.level])
    BY <1>2, EquipIs
  <2>2. /\ g \in Bodies /\ SameRest(b, g) /\ (g.default.mount => b.default.mount)
        /\ \A e \in b.conds : e.kind \notin SpeedKinds => e \in g.conds
        /\ g.conds \subseteq b.conds \cup {ItemCondition("invisible", s), ItemCondition("manashield", s)}
    BY GuardedType
  <2>i. ItemCondition("invisible", s).id > 0 /\ ItemCondition("manashield", s).id > 0
    BY ItemConditionType, SlotTypes
  <2> HIDE DEF g
  <2>3. /\ g.enabled \cup {s} \in SUBSET DOMAIN Gear /\ g.suppressed \cup Gear[s].suppress \in SUBSET Suppressible
        /\ Gear[s].speed \in Int /\ Gear[s].skill[b.level] \in Int
    BY <2>2, SlotTypes DEF Bodies, Shapes
  <2>4. /\ h \in Bodies /\ SameSpells(g, h) /\ SameLife(g, h) /\ h.slots = g.slots /\ h.enabled = g.enabled \cup {s}
        /\ h.default = g.default
    BY <2>1, <2>2, <2>3, FitFields
  <2> HIDE DEF h
  <2> QED BY <2>2, <2>4, <2>i DEF Keeps, SameLife, SameSpells, SameRest, h
<1> QED BY <1>1, <1>2

LEMMA EquipStep ==
    ASSUME NEW b, NEW o, Coherent(b, o), NEW s \in DOMAIN Gear, NEW p, o \subseteq p,
           "manashield" \notin p => Alone(EquipItem(b, s).conds, "manashield")
    PROVE  Coherent(EquipItem(b, s), p)
<1> DEFINE h == EquipItem(b, s)
           v == Veiled(b, s)
           g == Guarded(b, s)
<1>0. b \in Bodies /\ Owed(b, {}, o)
  BY DEF Coherent, Owed, Whole
<1>1. CASE s \in b.enabled
  <2>1. h = b
    BY <1>1, EquipIs
  <2>2. Owed(b, {}, p)
    BY <1>0, OwedMore
  <2> QED BY <2>1, <2>2 DEF Coherent, Geared, Barred
<1>2. CASE s \notin b.enabled
  <2>1. h = Fit(g, g.enabled \cup {s}, g.suppressed \cup Gear[s].suppress, Gear[s].speed, Gear[s].skill[b.level])
    BY <1>2, EquipIs
  <2>2. /\ v \in Bodies /\ SameRest(b, v) /\ g \in Bodies /\ SameRest(b, g)
        /\ \A e \in b.conds : e.kind \notin SpeedKinds => e \in v.conds
        /\ \A e \in v.conds : e.kind \notin SpeedKinds => e \in g.conds
        /\ Gear[s].invisible => ItemCondition("invisible", s) \in g.conds
        /\ Gear[s].manaShield => ItemCondition("manashield", s) \in g.conds
    BY <1>0, GuardedType
  <2>v. /\ Gear[s].invisible => v = addCondition(b, ItemCondition("invisible", s))
        /\ ~Gear[s].invisible => v = b
        /\ Gear[s].manaShield => g = addCondition(v, ItemCondition("manashield", s))
        /\ ~Gear[s].manaShield => g = v
    BY DEF Veiled, Guarded
  <2>h. "manashield" \notin p => Alone(h.conds, "manashield")
    OBVIOUS
  <2> HIDE DEF g, v, h
  <2>3. /\ g.enabled \cup {s} \in SUBSET DOMAIN Gear /\ g.suppressed \cup Gear[s].suppress \in SUBSET Suppressible
        /\ Gear[s].speed \in Int /\ g.enabled = b.enabled /\ g.suppressed = b.suppressed
        /\ Gear[s].skill[b.level] \in Int /\ g.level = b.level /\ b.level \in Levels
    BY <1>0, <2>2, SlotTypes DEF Bodies, Shapes, SameRest
  <2>4. /\ h \in Bodies /\ h.conds = g.conds /\ h.enabled = b.enabled \cup {s}
        /\ h.suppressed = b.suppressed \cup Gear[s].suppress
    BY <2>1, <2>2, <2>3, FitFields DEF SameSpells
  <2>5. "manashield" \notin p => Alone(v.conds, "manashield") /\ Alone(g.conds, "manashield")
    BY <2>2, <2>4, <2>h DEF Alone, Of, SpeedKinds
  <2>6. Owed(v, {}, p)
    <3>1. CASE Gear[s].invisible
      BY <1>0, <2>5, <2>v, <3>1, AddItem
    <3>2. CASE ~Gear[s].invisible
      BY <1>0, <2>v, <3>2, OwedMore
    <3> QED BY <3>1, <3>2
  <2>7. Owed(g, {}, p)
    <3>1. CASE Gear[s].manaShield
      BY <2>5, <2>6, <2>v, <3>1, AddItem
    <3>2. CASE ~Gear[s].manaShield
      BY <2>6, <2>v, <3>2
    <3> QED BY <3>1, <3>2
  <2>8. /\ GearSpeed(g.enabled \cup {s}) = GearSpeed(g.enabled) + Gear[s].speed
        /\ GearSkill(g.enabled \cup {s}, g.level) = GearSkill(g.enabled, g.level) + Gear[s].skill[b.level]
    <3>1. (g.enabled \cup {s}) \ {s} = g.enabled
      BY <1>2, <2>3
    <3> DEFINE E == g.enabled \cup {s}
    <3>2. E \in SUBSET DOMAIN Gear /\ s \in E /\ E \ {s} = g.enabled
      BY <2>3, <3>1
    <3> HIDE DEF E
    <3>3. /\ GearSpeed(E) = GearSpeed(E \ {s}) + Gear[s].speed
          /\ GearSkill(E, b.level) = GearSkill(E \ {s}, b.level) + Gear[s].skill[b.level]
      BY <2>3, <3>2, GearSum, GainSum
    <3> QED BY <2>3, <3>2, <3>3 DEF E
  <2>9. Owed(h, {}, p)
    BY <2>1, <2>3, <2>7, <2>8, FitOwed
  <2>10. Geared(h, p)
    <3> SUFFICES ASSUME NEW r \in h.enabled
                 PROVE  /\ Gear[r].invisible => ItemCondition("invisible", r) \in h.conds
                        /\ Gear[r].manaShield => ItemCondition("manashield", r) \in h.conds \/ "manashield" \in p
      BY DEF Geared
    <3>1. CASE r = s
      BY <2>2, <2>4, <3>1
    <3>2. CASE r \in b.enabled
      <4>1. r \in DOMAIN Gear
        BY <1>0, <3>2 DEF Bodies, Shapes
      <4>2. ItemCondition("invisible", r).kind \notin SpeedKinds /\ ItemCondition("manashield", r).kind \notin SpeedKinds
        BY <4>1, ItemConditionType
      <4>3. /\ Gear[r].invisible => ItemCondition("invisible", r) \in b.conds
            /\ Gear[r].manaShield => ItemCondition("manashield", r) \in b.conds \/ "manashield" \in o
        BY <3>2 DEF Coherent, Geared
      <4> QED BY <2>2, <2>4, <4>2, <4>3
    <3> QED BY <2>4, <3>1, <3>2
  <2>11. Barred(h, p)
    <3> SUFFICES ASSUME "suppress" \notin p PROVE h.suppressed = UNION {Gear[r].suppress : r \in h.enabled}
      BY DEF Barred
    <3>1. b.suppressed = UNION {Gear[r].suppress : r \in b.enabled}
      BY DEF Coherent, Barred
    <3> QED BY <2>4, <3>1
  <2>12. Coherent(h, p)
    BY <2>9, <2>10, <2>11 DEF Coherent
  <2> QED BY <2>12 DEF h
<1> QED BY <1>1, <1>2

ByItem(b, s) == {c \in b.conds : c.id = s /\ c.kind \in {"invisible", "manashield"}}
Stripped(b, s) == RemoveAll(b, ByItem(b, s))

LEMMA DeEquipIs ==
    ASSUME NEW b, NEW s
    PROVE  DeEquipItem(b, s) = IF s \notin b.enabled THEN b
                               ELSE Fit(Stripped(b, s), Stripped(b, s).enabled \ {s},
                                        Stripped(b, s).suppressed \ Gear[s].suppress, -Gear[s].speed,
                                        -Gear[s].skill[b.level])
<1>1. \A g : Fit(g, g.enabled \ {s}, g.suppressed \ Gear[s].suppress, -Gear[s].speed, -Gear[s].skill[b.level])
             = [GiveSkill(changeSpeed(g, -Gear[s].speed), -Gear[s].skill[b.level]) EXCEPT
                   !.enabled = @ \ {s}, !.suppressed = @ \ Gear[s].suppress]
  BY DEF Fit, changeSpeed, GiveSkill
<1> QED BY <1>1, Zenon DEF DeEquipItem, Stripped, ByItem

\* What taking items off leaves alone.
Leaves(b, h) ==
    /\ h \in Bodies /\ SameLife(b, h) /\ h.slots = b.slots
    /\ h.conds \subseteq b.conds /\ \A e \in b.conds : e.id <= 0 => e \in h.conds

LEMMA DeEquipType ==
    ASSUME NEW b \in Bodies, NEW s \in DOMAIN Gear
    PROVE  Leaves(b, DeEquipItem(b, s)) /\ DeEquipItem(b, s).enabled = b.enabled \ {s}
<1> DEFINE h == DeEquipItem(b, s)
           g == Stripped(b, s)
<1>1. CASE s \notin b.enabled
  <2>1. h = b /\ b.enabled = b.enabled \ {s}
    BY <1>1, DeEquipIs
  <2> QED BY <2>1 DEF Leaves, SameLife
<1>2. CASE s \in b.enabled
  <2>1. h = Fit(g, g.enabled \ {s}, g.suppressed \ Gear[s].suppress, -Gear[s].speed, -Gear[s].skill[b.level])
    BY <1>2, DeEquipIs
  <2>0. ByItem(b, s) \in SUBSET b.conds
    BY DEF ByItem
  <2>2. g \in Bodies /\ SameRest(b, g) /\ g.conds = b.conds \ ByItem(b, s)
    BY <2>0, RemoveAllType DEF Stripped
  <2> HIDE DEF g
  <2>3. /\ g.enabled \ {s} \in SUBSET DOMAIN Gear /\ g.suppressed \ Gear[s].suppress \in SUBSET Suppressible
        /\ -Gear[s].speed \in Int /\ -Gear[s].skill[b.level] \in Int
    BY <2>2, SlotTypes DEF Bodies, Shapes
  <2>4. h \in Bodies /\ SameSpells(g, h) /\ SameLife(g, h) /\ h.slots = g.slots /\ h.enabled = g.enabled \ {s}
    BY <2>1, <2>2, <2>3, FitFields
  <2> HIDE DEF h
  <2>5. \A e \in b.conds : e.id <= 0 => e \notin ByItem(b, s)
    BY SlotTypes DEF ByItem
  <2> QED BY <2>2, <2>4, <2>5 DEF Leaves, SameLife, SameSpells, SameRest, h
<1> QED BY <1>1, <1>2

LEMMA DeEquipStep ==
    ASSUME NEW b, NEW o, Coherent(b, o), NEW s \in DOMAIN Gear,
           "suppress" \in o \/ \A r \in b.enabled \ {s} : s \in b.enabled => Gear[r].suppress \cap Gear[s].suppress = {}
    PROVE  Coherent(DeEquipItem(b, s), o)
<1> DEFINE h == DeEquipItem(b, s)
           g == Stripped(b, s)
<1>0. b \in Bodies /\ Owed(b, {}, o)
  BY DEF Coherent, Owed, Whole
<1>1. CASE s \notin b.enabled
  BY <1>1, DeEquipIs
<1>2. CASE s \in b.enabled
  <2>1. h = Fit(g, g.enabled \ {s}, g.suppressed \ Gear[s].suppress, -Gear[s].speed, -Gear[s].skill[b.level])
    BY <1>2, DeEquipIs
  <2>0. ByItem(b, s) \in SUBSET b.conds
    BY DEF ByItem
  <2>2. g \in Bodies /\ SameRest(b, g) /\ g.conds = b.conds \ ByItem(b, s)
    BY <1>0, <2>0, RemoveAllType DEF Stripped
  <2>7. Owed(g, {}, o)
    BY <1>0, <2>0, Removed DEF Stripped
  <2> HIDE DEF g, h
  <2>3. /\ g.enabled \ {s} \in SUBSET DOMAIN Gear /\ g.suppressed \ Gear[s].suppress \in SUBSET Suppressible
        /\ -Gear[s].speed \in Int /\ g.enabled = b.enabled /\ g.suppressed = b.suppressed
        /\ Gear[s].skill[b.level] \in Int /\ -Gear[s].skill[b.level] \in Int /\ g.level = b.level /\ b.level \in Levels
    BY <1>0, <2>2, SlotTypes DEF Bodies, Shapes, SameRest
  <2>4. /\ h \in Bodies /\ h.conds = g.conds /\ h.enabled = b.enabled \ {s}
        /\ h.suppressed = b.suppressed \ Gear[s].suppress
    BY <2>1, <2>2, <2>3, FitFields DEF SameSpells
  <2>8. /\ GearSpeed(g.enabled \ {s}) = GearSpeed(g.enabled) + (-Gear[s].speed)
        /\ GearSkill(g.enabled \ {s}, g.level) = GearSkill(g.enabled, g.level) + (-Gear[s].skill[b.level])
    <3>1. g.enabled \in SUBSET DOMAIN Gear /\ s \in g.enabled
      BY <1>2, <2>2, <2>3 DEF Bodies, Shapes
    <3>2. GearSpeed(g.enabled) = GearSpeed(g.enabled \ {s}) + Gear[s].speed /\ GearSpeed(g.enabled \ {s}) \in Int
      BY <2>3, <3>1, GearSum
    <3>3. /\ GearSkill(g.enabled, b.level) = GearSkill(g.enabled \ {s}, b.level) + Gear[s].skill[b.level]
          /\ GearSkill(g.enabled \ {s}, b.level) \in Int
      BY <2>3, <3>1, GainSum
    <3> QED BY <2>3, <3>2, <3>3, SlotTypes
  <2>9. Owed(h, {}, o)
    BY <2>1, <2>3, <2>7, <2>8, FitOwed
  <2>10. Geared(h, o)
    <3> SUFFICES ASSUME NEW r \in h.enabled
                 PROVE  /\ Gear[r].invisible => ItemCondition("invisible", r) \in h.conds
                        /\ Gear[r].manaShield => ItemCondition("manashield", r) \in h.conds \/ "manashield" \in o
      BY DEF Geared
    <3>1. r \in b.enabled /\ r # s /\ r \in DOMAIN Gear
      BY <1>0, <2>4 DEF Bodies, Shapes
    <3>2. ItemCondition("invisible", r).id = r /\ ItemCondition("manashield", r).id = r
      BY <3>1, ItemConditionType
    <3>3. ItemCondition("invisible", r) \notin ByItem(b, s) /\ ItemCondition("manashield", r) \notin ByItem(b, s)
      BY <3>1, <3>2 DEF ByItem
    <3>4. /\ Gear[r].invisible => ItemCondition("invisible", r) \in b.conds
          /\ Gear[r].manaShield => ItemCondition("manashield", r) \in b.conds \/ "manashield" \in o
      BY <3>1 DEF Coherent, Geared
    <3> QED BY <2>2, <2>4, <3>3, <3>4
  <2>11. Barred(h, o)
    <3> SUFFICES ASSUME "suppress" \notin o PROVE h.suppressed = UNION {Gear[r].suppress : r \in h.enabled}
      BY DEF Barred
    <3>1. b.suppressed = UNION {Gear[r].suppress : r \in b.enabled}
      BY DEF Coherent, Barred
    <3>2. \A r \in b.enabled \ {s} : Gear[r].suppress \cap Gear[s].suppress = {}
      BY <1>2
    <3> QED BY <2>4, <3>1, <3>2
  <2>12. Coherent(h, o)
    BY <2>9, <2>10, <2>11 DEF Coherent
  <2> QED BY <2>12 DEF h
<1> QED BY <1>1, <1>2

-----------------------------------------------------------------------------
(* Many items. *)

Taking(h, base, S) == h = [s \in SUBSET S |-> IF s = {} THEN base ELSE EquipItem(h[s \ {Pick(s)}], Pick(s))]
Taken(base, S) == (CHOOSE h : Taking(h, base, S))[S]

LEMMA TakenIs == ASSUME NEW b, NEW S PROVE EquipAll(b, S) = Taken(b, S)
BY DEF EquipAll, FoldSet, MapThenFoldSet, Taken, Taking, Pick

Dropping(h, base, S) == h = [s \in SUBSET S |-> IF s = {} THEN base ELSE DeEquipItem(h[s \ {Pick(s)}], Pick(s))]
Dropped(base, S) == (CHOOSE h : Dropping(h, base, S))[S]

LEMMA DroppedIs == ASSUME NEW b, NEW S PROVE LoseAll(b, S) = Dropped([b EXCEPT !.slots = @ \ S], S)
BY DEF LoseAll, FoldSet, MapThenFoldSet, Dropped, Dropping, Pick

LEMMA SlotsFinite == ASSUME NEW S \in SUBSET DOMAIN Gear PROVE IsFiniteSet(S)
<1>1. S \subseteq 1..10
  BY ConditionsAssumption
<1>2. IsFiniteSet(1..10)
  BY FS_Interval, 1 \in Int, 10 \in Int
<1> QED BY <1>1, <1>2, FS_Subset

LEMMA TakeAll ==
    ASSUME NEW S \in SUBSET DOMAIN Gear, NEW base \in Bodies,
           NEW G, \A s \in SUBSET S : G[s] \subseteq Bodies, base \in G[{}],
           \A s \in SUBSET S : \A c \in s : \A y \in G[s \ {c}] : EquipItem(y, c) \in G[s]
    PROVE  Taken(base, S) \in G[S]
<1> DEFINE F == [p \in S \X Bodies |-> EquipItem(p[2], p[1])]
           C == [s \in SUBSET S |-> Pick(s)]
<1>0. IsFiniteSet(S)
  BY SlotsFinite
<1>1. \A c \in S, y \in Bodies : EquipItem(y, c) \in Bodies
  BY EquipType DEF Keeps
<1>2. F \in [S \X Bodies -> Bodies] /\ \A c \in S, y \in Bodies : F[<<c, y>>] = EquipItem(y, c)
  BY <1>1
<1>3. Chooses(C, S) /\ \A s \in SUBSET S : C[s] = Pick(s)
  BY PickIn DEF Chooses
<1> HIDE DEF F, C
<1>4. PICK h \in [SUBSET S -> Bodies] : Folds(h, F, C, base, S, Bodies)
  BY <1>0, <1>2, <1>3, FoldExists
<1>5. Taking(h, base, S)
  <2>1. \A s \in SUBSET S : s # {} => Pick(s) \in s /\ h[s \ {Pick(s)}] \in Bodies
    BY <1>4, PickIn
  <2>2. \A s \in SUBSET S : h[s] = IF s = {} THEN base ELSE EquipItem(h[s \ {Pick(s)}], Pick(s))
    BY <1>2, <1>3, <1>4, <2>1 DEF Folds
  <2> QED BY <1>4, <2>2 DEF Taking
<1> DEFINE k == CHOOSE g : Taking(g, base, S)
<1>6. Taking(k, base, S)
  BY <1>5
<1> HIDE DEF k
<1>7. Folds(k, F, C, base, S, Bodies)
  <2>1. \A s \in SUBSET S : k[s] = IF s = {} THEN base ELSE EquipItem(k[s \ {Pick(s)}], Pick(s))
    BY <1>6 DEF Taking
  <2>2. k[{}] = base
    BY <2>1
  <2>3. \A s \in SUBSET S : s # {} => Pick(s) \in S
    BY PickIn
  <2> QED BY <1>2, <1>3, <2>1, <2>2, <2>3 DEF Folds
<1>8. \A s \in SUBSET S : s # {} => \A y \in G[s \ {C[s]}] : F[<<C[s], y>>] \in G[s]
  <2> SUFFICES ASSUME NEW s \in SUBSET S, s # {}, NEW y \in G[s \ {C[s]}] PROVE F[<<C[s], y>>] \in G[s]
    OBVIOUS
  <2>1. C[s] \in s /\ C[s] \in S
    BY <1>3, PickIn
  <2>2. y \in Bodies
    OBVIOUS
  <2>3. EquipItem(y, C[s]) \in G[s]
    BY <2>1
  <2> QED BY <1>2, <2>1, <2>2, <2>3
<1>9. Reaching(k, F, C, base, S, Bodies, G)
  BY <1>0, <1>3, <1>7, <1>8 DEF Reaching
<1> QED BY <1>9, FoldReaches DEF Taken, k

LEMMA DropAll ==
    ASSUME NEW S \in SUBSET DOMAIN Gear, NEW base \in Bodies,
           NEW G, \A s \in SUBSET S : G[s] \subseteq Bodies, base \in G[{}],
           \A s \in SUBSET S : \A c \in s : \A y \in G[s \ {c}] : DeEquipItem(y, c) \in G[s]
    PROVE  Dropped(base, S) \in G[S]
<1> DEFINE F == [p \in S \X Bodies |-> DeEquipItem(p[2], p[1])]
           C == [s \in SUBSET S |-> Pick(s)]
<1>0. IsFiniteSet(S)
  BY SlotsFinite
<1>1. \A c \in S, y \in Bodies : DeEquipItem(y, c) \in Bodies
  BY DeEquipType DEF Leaves
<1>2. F \in [S \X Bodies -> Bodies] /\ \A c \in S, y \in Bodies : F[<<c, y>>] = DeEquipItem(y, c)
  BY <1>1
<1>3. Chooses(C, S) /\ \A s \in SUBSET S : C[s] = Pick(s)
  BY PickIn DEF Chooses
<1> HIDE DEF F, C
<1>4. PICK h \in [SUBSET S -> Bodies] : Folds(h, F, C, base, S, Bodies)
  BY <1>0, <1>2, <1>3, FoldExists
<1>5. Dropping(h, base, S)
  <2>1. \A s \in SUBSET S : s # {} => Pick(s) \in s /\ h[s \ {Pick(s)}] \in Bodies
    BY <1>4, PickIn
  <2>2. \A s \in SUBSET S : h[s] = IF s = {} THEN base ELSE DeEquipItem(h[s \ {Pick(s)}], Pick(s))
    BY <1>2, <1>3, <1>4, <2>1 DEF Folds
  <2> QED BY <1>4, <2>2 DEF Dropping
<1> DEFINE k == CHOOSE g : Dropping(g, base, S)
<1>6. Dropping(k, base, S)
  BY <1>5
<1> HIDE DEF k
<1>7. Folds(k, F, C, base, S, Bodies)
  <2>1. \A s \in SUBSET S : k[s] = IF s = {} THEN base ELSE DeEquipItem(k[s \ {Pick(s)}], Pick(s))
    BY <1>6 DEF Dropping
  <2>2. k[{}] = base
    BY <2>1
  <2>3. \A s \in SUBSET S : s # {} => Pick(s) \in S
    BY PickIn
  <2> QED BY <1>2, <1>3, <2>1, <2>2, <2>3 DEF Folds
<1>8. \A s \in SUBSET S : s # {} => \A y \in G[s \ {C[s]}] : F[<<C[s], y>>] \in G[s]
  <2> SUFFICES ASSUME NEW s \in SUBSET S, s # {}, NEW y \in G[s \ {C[s]}] PROVE F[<<C[s], y>>] \in G[s]
    OBVIOUS
  <2>1. C[s] \in s /\ C[s] \in S
    BY <1>3, PickIn
  <2>2. y \in Bodies
    OBVIOUS
  <2>3. DeEquipItem(y, C[s]) \in G[s]
    BY <2>1
  <2> QED BY <1>2, <2>1, <2>2, <2>3
<1>9. Reaching(k, F, C, base, S, Bodies, G)
  BY <1>0, <1>3, <1>7, <1>8 DEF Reaching
<1> QED BY <1>9, FoldReaches DEF Dropped, k

\* All that the invariant is about.
SameBody(b, h) ==
    /\ SameBut(b, h) /\ h.varSpeed = b.varSpeed /\ h.look = b.look /\ h.shown = b.shown
    /\ h.default = b.default /\ h.enabled = b.enabled /\ h.suppressed = b.suppressed

LEMMA CoherentMore ==
    ASSUME NEW b, NEW o, Coherent(b, o), NEW p, o \subseteq p
    PROVE  Coherent(b, p)
<1>1. Owed(b, {}, p)
  BY OwedMore DEF Coherent
<1> QED BY <1>1 DEF Coherent, Geared, Barred

LEMMA CoherentSame ==
    ASSUME NEW b, NEW o, Coherent(b, o), NEW h \in Bodies, SameBody(b, h)
    PROVE  Coherent(h, o)
<1>1. Whole(h, {}) /\ Seen(h, {}) /\ Paced(h, o) /\ ("skill" \in o \/ Skilled(h, {}))
  BY DEF Coherent, Owed, Whole, Skilled, Gain, Seen, Paced, SameBody, SameBut, isInvisible
<1>2. Dressed(h, {}, o) /\ ("mount" \in o \/ Paid(h, {}))
  BY DEF Coherent, Owed, Dressed, Paid, SameBody, SameBut
<1>3. Defended(h, {}, o) /\ Shielded(h, {}, o)
  BY DEF Coherent, Owed, Defended, Shielded, SameBody, SameBut
<1>4. Geared(h, o) /\ Barred(h, o)
  BY DEF Coherent, Geared, Barred, SameBody, SameBut
<1> QED BY <1>1, <1>2, <1>3, <1>4 DEF Coherent, Owed

Twice(b) == IF Alone(b.conds, "manashield") THEN {} ELSE {"manashield"}

LEMMA EquippedAll ==
    ASSUME NEW b, NEW o, Coherent(b, o), NEW S \in SUBSET DOMAIN Gear
    PROVE  LET h == EquipAll(b, S)
           IN  Coherent(h, o \cup Twice(h)) /\ Keeps(b, h) /\ h.enabled = b.enabled \cup S
<1> DEFINE Good(s) == {y \in Bodies : Coherent(y, o \cup Twice(y)) /\ Keeps(b, y) /\ y.enabled = b.enabled \cup s}
           G == [s \in SUBSET S |-> Good(s)]
<1>0. b \in Bodies
  BY DEF Coherent, Owed, Whole
<1>1. \A s \in SUBSET S : G[s] \subseteq Bodies
  OBVIOUS
<1>2. b \in G[{}]
  <2>1. Coherent(b, o \cup Twice(b))
    BY CoherentMore
  <2>2. Keeps(b, b) /\ b.enabled = b.enabled \cup {}
    BY <1>0 DEF Keeps, SameLife
  <2> QED BY <1>0, <2>1, <2>2
<1>3. ASSUME NEW s \in SUBSET S, NEW c \in s, NEW y \in G[s \ {c}] PROVE EquipItem(y, c) \in G[s]
  <2>1. y \in Bodies /\ Coherent(y, o \cup Twice(y)) /\ Keeps(b, y) /\ y.enabled = b.enabled \cup (s \ {c})
    <3>1. s \ {c} \in SUBSET S
      OBVIOUS
    <3> QED BY <3>1
  <2>2. c \in DOMAIN Gear
    OBVIOUS
  <2> DEFINE h == EquipItem(y, c)
  <2>3. Keeps(y, h) /\ h.enabled = y.enabled \cup {c}
    BY <2>1, <2>2, EquipType
  <2>4. Alone(h.conds, "manashield") => Alone(y.conds, "manashield")
    BY <2>3 DEF Keeps, Alone, Of, SpeedKinds
  <2>5. o \cup Twice(y) \subseteq o \cup Twice(h) /\ ("manashield" \notin o \cup Twice(h) => Alone(h.conds, "manashield"))
    BY <2>4 DEF Twice
  <2>6. Coherent(h, o \cup Twice(h))
    BY <2>1, <2>2, <2>5, EquipStep
  <2> HIDE DEF h
  <2>7. Keeps(b, h) /\ h.enabled = b.enabled \cup s /\ h \in Bodies
    BY <2>1, <2>3 DEF Keeps, SameLife
  <2> QED BY <2>6, <2>7 DEF h
<1>4. G[S] = Good(S)
  OBVIOUS
<1> HIDE DEF G
<1>5. Taken(b, S) \in G[S]
  BY <1>0, <1>1, <1>2, <1>3, TakeAll
<1>6. EquipAll(b, S) \in Good(S)
  BY <1>4, <1>5, TakenIs
<1> QED BY <1>6

LEMMA LostAll ==
    ASSUME NEW b, NEW o, Coherent(b, o), NEW S \in SUBSET DOMAIN Gear
    PROVE  LET h == LoseAll(b, S)
           IN  /\ Coherent(h, o \cup Shared(b, S)) /\ SameLife(b, h)
               /\ h.slots = b.slots \ S /\ h.enabled = b.enabled \ S
               /\ h.conds \subseteq b.conds /\ \A e \in b.conds : e.id <= 0 => e \in h.conds
<1> DEFINE p == o \cup Shared(b, S)
           base == [b EXCEPT !.slots = @ \ S]
           Good(s) == {y \in Bodies : Coherent(y, p) /\ Leaves(base, y) /\ y.enabled = b.enabled \ s}
           G == [s \in SUBSET S |-> Good(s)]
<1>0. b \in Bodies
  BY DEF Coherent, Owed, Whole
<1>1. \A s \in SUBSET S : G[s] \subseteq Bodies
  OBVIOUS
<1>b. base \in Bodies /\ SameBody(b, base) /\ SameLife(b, base) /\ base.slots = b.slots \ S
  BY <1>0 DEF Bodies, Shapes, SameBody, SameBut, SameLife
<1>p. "suppress" \in p \/ \A s \in S \cap b.enabled : \A r \in b.enabled \ {s} : Gear[r].suppress \cap Gear[s].suppress = {}
  <2> SUFFICES ASSUME "suppress" \notin Shared(b, S), NEW s \in S \cap b.enabled, NEW r \in b.enabled \ {s},
                      Gear[r].suppress \cap Gear[s].suppress # {}
               PROVE  FALSE
    OBVIOUS
  <2> QED BY DEF Shared
<1> HIDE DEF base, p
<1>2. base \in G[{}]
  <2>1. Coherent(b, p)
    BY CoherentMore DEF p
  <2>2. Coherent(base, p)
    BY <1>b, <2>1, CoherentSame
  <2>3. Leaves(base, base) /\ base.enabled = b.enabled \ {}
    BY <1>b DEF Leaves, SameLife, SameBody
  <2> QED BY <1>b, <2>2, <2>3
<1>3. ASSUME NEW s \in SUBSET S, NEW c \in s, NEW y \in G[s \ {c}] PROVE DeEquipItem(y, c) \in G[s]
  <2>1. y \in Bodies /\ Coherent(y, p) /\ Leaves(base, y) /\ y.enabled = b.enabled \ (s \ {c})
    <3>1. s \ {c} \in SUBSET S
      OBVIOUS
    <3> QED BY <3>1
  <2>2. c \in DOMAIN Gear
    OBVIOUS
  <2> DEFINE h == DeEquipItem(y, c)
  <2>3. Leaves(y, h) /\ h.enabled = y.enabled \ {c}
    BY <2>1, <2>2, DeEquipType
  <2>4. "suppress" \in p \/ \A r \in y.enabled \ {c} : c \in y.enabled => Gear[r].suppress \cap Gear[c].suppress = {}
    BY <1>p, <2>1
  <2>5. Coherent(h, p)
    BY <2>1, <2>2, <2>4, DeEquipStep
  <2> HIDE DEF h
  <2>6. Leaves(base, h) /\ h.enabled = b.enabled \ s /\ h \in Bodies
    BY <2>1, <2>3 DEF Leaves, SameLife
  <2> QED BY <2>5, <2>6 DEF h
<1>4. G[S] = Good(S)
  OBVIOUS
<1> HIDE DEF G
<1>5. Dropped(base, S) \in G[S]
  BY <1>1, <1>2, <1>3, <1>b, DropAll
<1>6. LoseAll(b, S) \in Good(S)
  BY <1>4, <1>5, DroppedIs DEF base
<1> DEFINE h == LoseAll(b, S)
<1>7. Coherent(h, p) /\ Leaves(base, h) /\ h.enabled = b.enabled \ S
  BY <1>6
<1> HIDE DEF h
<1>8. base.conds = b.conds
  BY <1>b DEF SameBody, SameBut
<1>9. SameLife(b, h) /\ h.slots = b.slots \ S /\ h.conds \subseteq b.conds /\ \A e \in b.conds : e.id <= 0 => e \in h.conds
  BY <1>7, <1>8, <1>b DEF Leaves, SameLife
<1> QED BY <1>7, <1>9 DEF h, p

LEMMA TwoOf ==
    ASSUME NEW A, IsFiniteSet(A), NEW c \in A, NEW d \in A, c # d
    PROVE  Cardinality(A) > 1
<1>1. IsFiniteSet({c, d}) /\ Cardinality({c, d}) = 2
  <2>1. IsFiniteSet({c}) /\ Cardinality({c}) = 1
    BY FS_Singleton
  <2>2. {c, d} = {c} \cup {d} /\ d \notin {c}
    OBVIOUS
  <2>3. IsFiniteSet({c} \cup {d}) /\ Cardinality({c} \cup {d}) = Cardinality({c}) + 1
    BY <2>1, <2>2, FS_AddElement
  <2> QED BY <2>1, <2>2, <2>3
<1>2. Cardinality({c, d}) <= Cardinality(A) /\ Cardinality(A) \in Nat
  BY FS_Subset, FS_CardinalityType, {c, d} \subseteq A
<1> QED BY <1>1, <1>2

LEMMA MetClear ==
    ASSUME NEW b \in Bodies, NEW p, Met(b) \subseteq p
    PROVE  Clear(b, p) /\ Twice(b) \subseteq p
<1>1. ASSUME NEW kind \in {"outfit", "manashield"}, kind \notin p PROVE Alone(b.conds, kind)
  <2> SUFFICES ASSUME NEW c \in Of(b.conds, {kind}), NEW d \in Of(b.conds, {kind}), c # d PROVE FALSE
    BY DEF Alone
  <2>1. IsFiniteSet(OfKind(b, kind))
    <3>1. IsFiniteSet(b.conds) /\ OfKind(b, kind) \subseteq b.conds
      BY DEF Bodies, OfKind
    <3> QED BY <3>1, FS_Subset
  <2>2. c \in OfKind(b, kind) /\ d \in OfKind(b, kind)
    BY DEF Of, OfKind
  <2>3. Cardinality(OfKind(b, kind)) > 1
    BY <2>1, <2>2, TwoOf
  <2> QED BY <1>1, <2>3 DEF Met
<1>2. ASSUME "attributes" \notin p, NEW c \in Of(b.conds, {"attributes"}), NEW d \in Of(b.conds, {"attributes"}), c.off
      PROVE  c = d
  <2> SUFFICES ASSUME c # d PROVE FALSE
    OBVIOUS
  <2>1. c \in OfKind(b, "attributes") /\ OfKind(b, "attributes") # {c} /\ c.kind = "attributes"
    BY DEF Of, OfKind
  <2> QED BY <1>2, <2>1 DEF Met
<1> QED BY <1>1, <1>2 DEF Clear, Twice

LEMMA MetNot == ASSUME NEW b PROVE "unloaded" \notin Met(b)
<1>1. \A c \in OfKind(b, "attributes") : c.kind = "attributes"
  BY DEF OfKind
<1> QED BY <1>1 DEF Met

\* The same condition with other time.
LEMMA Later ==
    ASSUME NEW c \in Afflictions, NEW x \in Int, c.id > 0 => x = c.left
    PROVE  LET d == [c EXCEPT !.left = x]
           IN  /\ d \in Afflictions /\ d.left = x
               /\ d.kind = c.kind /\ d.id = c.id /\ d.sub = c.sub /\ d.val = c.val /\ d.off = c.off
<1> DEFINE d == [c EXCEPT !.left = x]
<1>1. c \in [kind : Kinds, id : Int, sub : Int, left : Int, val : Vals, off : BOOLEAN]
  BY DEF Afflictions
<1>2. c.id > 0 => d = c
  BY <1>1
<1>3. /\ d \in [kind : Kinds, id : Int, sub : Int, left : Int, val : Vals, off : BOOLEAN] /\ d.left = x
      /\ d.kind = c.kind /\ d.id = c.id /\ d.sub = c.sub /\ d.val = c.val /\ d.off = c.off
  BY <1>1
<1> HIDE DEF d
<1>4. d \in Afflictions
  BY <1>2, <1>3 DEF Afflictions
<1> QED BY <1>3, <1>4 DEF d

Img(f, A) == {f[c] : c \in A}

LEMMA SameSum ==
    ASSUME NEW A, IsFiniteSet(A), NEW f, \A c \in A : c.val \in Int /\ f[c].val = c.val,
           \A c, d \in A : f[c] = f[d] => c = d
    PROVE  IsFiniteSet(Img(f, A)) /\ SumVal(Img(f, A)) = SumVal(A)
<1> DEFINE Bad == {n \in Nat : \E T \in SUBSET A : /\ Cardinality(T) = n
                                                  /\ ~(IsFiniteSet(Img(f, T)) /\ SumVal(Img(f, T)) = SumVal(T))}
<1>1. \A T \in SUBSET A : IsFiniteSet(T) /\ Cardinality(T) \in Nat
  BY FS_Subset, FS_CardinalityType
<1>2. SUFFICES ASSUME Bad # {} PROVE FALSE
  BY <1>1
<1>3. PICK n \in Bad : \A m \in Bad : n <= m
  BY <1>2, LeastOf
<1>4. PICK T \in SUBSET A : Cardinality(T) = n /\ ~(IsFiniteSet(Img(f, T)) /\ SumVal(Img(f, T)) = SumVal(T))
  BY <1>3
<1>5. T # {}
  <2>1. Img(f, {}) = {} /\ IsFiniteSet({})
    BY FS_EmptySet DEF Img
  <2> QED BY <1>4, <2>1
<1>6. PICK c \in T : TRUE
  BY <1>5
<1> DEFINE Q == T \ {c}
<1>7. Q \in SUBSET A /\ Cardinality(Q) = n - 1 /\ n \in Nat /\ Cardinality(Q) \in Nat
  BY <1>1, <1>4, <1>6, Fewer
<1>8. IsFiniteSet(Img(f, Q)) /\ SumVal(Img(f, Q)) = SumVal(Q)
  BY <1>3, <1>7
<1>9. Img(f, T) = Img(f, Q) \cup {f[c]} /\ f[c] \notin Img(f, Q)
  BY <1>4, <1>6 DEF Img
<1>10. (\A x \in Img(f, Q) : x.val \in Int) /\ f[c].val = c.val /\ c.val \in Int
  BY <1>6, <1>7 DEF Img
<1>11. IsFiniteSet(Img(f, T)) /\ SumVal(Img(f, T)) = SumVal(Img(f, Q)) + c.val
  <2> DEFINE I == Img(f, Q)
             e == f[c]
  <2>1. IsFiniteSet(I) /\ Img(f, T) = I \cup {e} /\ e \notin I /\ (\A x \in I : x.val \in Int) /\ e.val = c.val /\ e.val \in Int
    BY <1>8, <1>9, <1>10
  <2> HIDE DEF I, e, Q, Bad
  <2>2. IsFiniteSet(I \cup {e})
    BY <2>1, FS_AddElement
  <2>3. SumVal(I \cup {e}) = SumVal(I) + e.val
    BY <2>1, ValAdd
  <2> QED BY <2>1, <2>2, <2>3 DEF I
<1>13. SumVal(T) = SumVal(Q) + c.val
  BY <1>1, <1>6, ValSum
<1> QED BY <1>4, <1>8, <1>11, <1>13

\* The time that is left to conditions changes, and nothing else.
Retimes(f, A) ==
    \A c \in A : /\ f[c] \in Afflictions
                 /\ f[c].kind = c.kind /\ f[c].id = c.id /\ f[c].sub = c.sub
                 /\ f[c].val = c.val /\ f[c].off = c.off

LEMMA RetimedSum ==
    ASSUME NEW A \in SUBSET Afflictions, IsFiniteSet(A), NEW f, Retimes(f, A), NEW K \in SUBSET Numeric,
           \A c, d \in A : SameKey(c, d) => c = d
    PROVE  SumVal(Of(Img(f, A), K)) = SumVal(Of(A, K))
<1> DEFINE B == Of(A, K)
<1>1. IsFiniteSet(B) /\ B \subseteq A
  <2>1. B \subseteq A
    BY DEF Of
  <2> QED BY <2>1, FS_Subset
<1>2. \A c \in B : c.val \in Int /\ f[c].val = c.val
  BY DEF Of, Afflictions, Retimes
<1>3. \A c, d \in B : f[c] = f[d] => c = d
  BY <1>1 DEF Retimes, SameKey
<1>4. Of(Img(f, A), K) = Img(f, B)
  BY DEF Of, Img, Retimes
<1> HIDE DEF B
<1>5. SumVal(Img(f, B)) = SumVal(B)
  BY <1>1, <1>2, <1>3, SameSum
<1> QED BY <1>4, <1>5 DEF B

LEMMA ImgFinite ==
    ASSUME NEW A, IsFiniteSet(A), NEW f
    PROVE  IsFiniteSet(Img(f, A))
<1> DEFINE g == [c \in A |-> f[c]]
<1>1. g \in Surjection(A, Img(f, A))
  BY DEF Surjection, Img
<1> QED BY <1>1, FS_Surjection

LabelOf(c) == IF c.kind \in SpeedKinds THEN "speed" ELSE c.kind

LEMMA Retimed ==
    ASSUME NEW b, NEW o, Coherent(b, o), NEW f, Retimes(f, b.conds), NEW p, o \subseteq p,
           \A c \in b.conds : f[c].left >= 0 => c.left >= 0 \/ LabelOf(c) \in p
    PROVE  Coherent([b EXCEPT !.conds = Img(f, b.conds)], p)
<1> DEFINE h == [b EXCEPT !.conds = Img(f, b.conds)]
<1>0. /\ b \in Bodies /\ Owed(b, {}, o) /\ b.conds \in SUBSET Afflictions /\ IsFiniteSet(b.conds)
      /\ b.conds \cup {} = b.conds
  BY DEF Coherent, Owed, Whole, Bodies, Shapes
<1>1. Img(f, b.conds) \in SUBSET Afflictions /\ IsFiniteSet(Img(f, b.conds))
  <2>1. Img(f, b.conds) \in SUBSET Afflictions
    BY DEF Img, Retimes
  <2> QED BY <1>0, <2>1, ImgFinite
<1>2. /\ h \in Bodies /\ h.conds = Img(f, b.conds) /\ h.conds \cup {} = h.conds
      /\ h.varSpeed = b.varSpeed /\ h.varSkill = b.varSkill /\ h.manaShield = b.manaShield
      /\ h.canUseDefense = b.canUseDefense /\ h.look = b.look /\ h.shown = b.shown
      /\ h.default = b.default /\ h.enabled = b.enabled /\ h.suppressed = b.suppressed /\ h.level = b.level
  BY <1>0, <1>1 DEF Bodies, Shapes
<1> HIDE DEF h
<1>k. \A c, d \in b.conds : SameKey(c, d) => c = d
  BY DEF Coherent, Owed, Whole
<1>e. \A e \in h.conds : \E c \in b.conds : e = f[c]
  BY <1>2 DEF Img
<1>f. \A c \in b.conds : f[c] \in h.conds
  BY <1>2 DEF Img
<1>3. Whole(h, {})
  <2>1. \A d, e \in h.conds : SameKey(d, e) => d = e
    <3> SUFFICES ASSUME NEW d \in h.conds, NEW e \in h.conds, SameKey(d, e) PROVE d = e
      OBVIOUS
    <3>1. PICK x \in b.conds : d = f[x]
      BY <1>e
    <3>2. PICK y \in b.conds : e = f[y]
      BY <1>e
    <3>3. SameKey(x, y)
      BY <3>1, <3>2 DEF SameKey, Retimes
    <3> QED BY <1>k, <3>1, <3>2, <3>3
  <2> QED BY <1>2, <2>1, FS_EmptySet DEF Whole
<1>4. "mount" \in p \/ Paid(h, {})
  <2>1. SumVal(Of(Img(f, b.conds), SpeedKinds)) = SumVal(Of(b.conds, SpeedKinds))
    BY <1>0, <1>k, RetimedSum, NumericKinds
  <2> QED BY <1>0, <1>2, <2>1 DEF Owed, Paid
<1>5. "skill" \in p \/ Skilled(h, {})
  <2>1. SumVal(Of(Img(f, b.conds), {"attributes"})) = SumVal(Of(b.conds, {"attributes"}))
    BY <1>0, <1>k, RetimedSum, NumericKinds
  <2> QED BY <1>0, <1>2, <2>1 DEF Owed, Skilled, Gain
<1>6. Seen(h, {})
  <2>1. isInvisible(h) <=> isInvisible(b)
    BY <1>e, <1>f DEF isInvisible, Retimes
  <2> QED BY <1>0, <1>2, <2>1 DEF Owed, Seen
<1>a. \A k : Alone(b.conds, k) => Alone(h.conds, k)
  <2> SUFFICES ASSUME NEW k, Alone(b.conds, k), NEW d \in Of(h.conds, {k}), NEW e \in Of(h.conds, {k}) PROVE d = e
    BY DEF Alone
  <2>1. PICK x \in b.conds : d = f[x]
    BY <1>e DEF Of
  <2>2. PICK y \in b.conds : e = f[y]
    BY <1>e DEF Of
  <2>3. x \in Of(b.conds, {k}) /\ y \in Of(b.conds, {k})
    BY <2>1, <2>2 DEF Of, Retimes
  <2> QED BY <2>1, <2>2, <2>3 DEF Alone
<1>7. Dressed(h, {}, p)
  <2> SUFFICES ASSUME "outfit" \notin p PROVE Dressed(h, {}, p)
    BY DEF Dressed
  <2>1. /\ b.default.mount => \A c \in Of(b.conds, {"outfit"}) : c.left < 0
        /\ Alone(b.conds, "outfit")
        /\ Of(b.conds, {"outfit"}) = {} => b.look = b.default
        /\ \A c \in Of(b.conds, {"outfit"}) : c.left >= 0 => b.look = Unmounted(c.val)
    BY <1>0 DEF Owed, Dressed, Of
  <2>2. \A e \in Of(h.conds, {"outfit"}) : \E c \in Of(b.conds, {"outfit"}) : e = f[c] /\ e.val = c.val /\ (e.left >= 0 => c.left >= 0)
    <3> SUFFICES ASSUME NEW e \in Of(h.conds, {"outfit"})
                 PROVE  \E c \in Of(b.conds, {"outfit"}) : e = f[c] /\ e.val = c.val /\ (e.left >= 0 => c.left >= 0)
      OBVIOUS
    <3>1. PICK c \in b.conds : e = f[c]
      BY <1>e DEF Of
    <3>2. c.kind = "outfit" /\ e.val = c.val
      BY <3>1 DEF Of, Retimes
    <3>3. LabelOf(c) = "outfit"
      BY <3>2 DEF LabelOf, SpeedKinds
    <3> QED BY <3>1, <3>2, <3>3 DEF Of
  <2>3. Of(h.conds, {"outfit"}) = {} => Of(b.conds, {"outfit"}) = {}
    BY <1>f DEF Of, Retimes
  <2>4. \A e \in h.conds : e.left \in Int
    BY <1>2 DEF Bodies, Shapes, Afflictions
  <2>5. h.default.mount => \A e \in Of(h.conds, {"outfit"}) : e.left < 0
    <3>1. \A c \in b.conds : c.left \in Int
      BY <1>0 DEF Afflictions
    <3> QED BY <1>2, <2>1, <2>2, <2>4, <3>1 DEF Of
  <2>6. \A e \in Of(h.conds, {"outfit"}) : e.left >= 0 => h.look = Unmounted(e.val)
    BY <1>2, <2>1, <2>2
  <2> QED BY <1>2, <1>a, <2>1, <2>3, <2>5, <2>6 DEF Dressed
<1>8. Paced(h, p)
  <2> SUFFICES ASSUME "speed" \notin p, NEW d \in h.conds, NEW e \in h.conds,
                      d.kind = "haste", e.kind = "paralyze", d.left >= 0, e.left >= 0
               PROVE  FALSE
    BY DEF Paced
  <2>1. PICK x \in b.conds : d = f[x]
    BY <1>e
  <2>2. PICK y \in b.conds : e = f[y]
    BY <1>e
  <2>3. x.kind = "haste" /\ y.kind = "paralyze"
    BY <2>1, <2>2 DEF Retimes
  <2>4. LabelOf(x) = "speed" /\ LabelOf(y) = "speed"
    BY <2>3 DEF LabelOf, SpeedKinds
  <2>5. x.left >= 0 /\ y.left >= 0
    BY <2>1, <2>2, <2>4
  <2> QED BY <1>0, <2>3, <2>5 DEF Owed, Paced
<1>9. Defended(h, {}, p)
  <2> SUFFICES ASSUME "attributes" \notin p PROVE Defended(h, {}, p)
    BY DEF Defended
  <2>1. (b.canUseDefense <=> ~\E c \in b.conds : c.off) /\ \A c, d \in Of(b.conds, {"attributes"}) : c.off => c = d
    BY <1>0 DEF Owed, Defended
  <2>2. (\E c \in b.conds : c.off) <=> \E c \in h.conds : c.off
    BY <1>e, <1>f DEF Retimes
  <2>3. \A d, e \in Of(h.conds, {"attributes"}) : d.off => d = e
    <3> SUFFICES ASSUME NEW d \in Of(h.conds, {"attributes"}), NEW e \in Of(h.conds, {"attributes"}), d.off PROVE d = e
      OBVIOUS
    <3>1. PICK x \in b.conds : d = f[x]
      BY <1>e DEF Of
    <3>2. PICK y \in b.conds : e = f[y]
      BY <1>e DEF Of
    <3>3. x \in Of(b.conds, {"attributes"}) /\ y \in Of(b.conds, {"attributes"}) /\ x.off
      BY <3>1, <3>2 DEF Of, Retimes
    <3> QED BY <2>1, <3>1, <3>2, <3>3
  <2> QED BY <1>2, <2>1, <2>2, <2>3 DEF Defended
<1>10. Shielded(h, {}, p)
  <2> SUFFICES ASSUME "manashield" \notin p PROVE Shielded(h, {}, p)
    BY DEF Shielded
  <2>1. Of(b.conds, {"manashield"}) = {} => Of(h.conds, {"manashield"}) = {}
    BY <1>e DEF Of, Retimes
  <2>2. (\E c \in Of(b.conds, {"manashield"}) : c.val > 0) <=> \E c \in Of(h.conds, {"manashield"}) : c.val > 0
    BY <1>e, <1>f DEF Of, Retimes
  <2>3. Of({}, {"manashield"}) = {}
    BY DEF Of
  <2> QED BY <1>0, <1>2, <1>a, <2>1, <2>2, <2>3 DEF Owed, Shielded
<1>11. Geared(h, p)
  <2>1. \A s \in b.enabled, k \in {"invisible", "manashield"} : ItemCondition(k, s) \in b.conds => ItemCondition(k, s) \in h.conds
    <3> SUFFICES ASSUME NEW s \in b.enabled, NEW k \in {"invisible", "manashield"}, ItemCondition(k, s) \in b.conds
                 PROVE  ItemCondition(k, s) \in h.conds
      OBVIOUS
    <3> DEFINE c == ItemCondition(k, s)
    <3>1. s \in DOMAIN Gear
      BY <1>0 DEF Bodies, Shapes
    <3>2. c.kind = k /\ c.id = s /\ s > 0
      BY <3>1, ItemConditionType, SlotTypes
    <3>3. c \in b.conds
      OBVIOUS
    <3> HIDE DEF c
    <3>4. f[c] \in Afflictions /\ f[c].kind = k /\ f[c].id = s
      BY <3>2, <3>3 DEF Retimes
    <3>5. f[c] = ItemCondition(k, s)
      BY <3>2, <3>4 DEF Afflictions
    <3> QED BY <1>f, <3>3, <3>5
  <2> QED BY <1>2, <2>1 DEF Coherent, Geared
<1>12. Barred(h, p)
  BY <1>2 DEF Coherent, Barred
<1>13. Coherent(h, p)
  BY <1>3, <1>4, <1>5, <1>6, <1>7, <1>8, <1>9, <1>10, <1>11, <1>12 DEF Coherent, Owed
<1> QED BY <1>13 DEF h

\* Conditions that are not those of items are removed.
LEMMA RemovedCoherent ==
    ASSUME NEW b, NEW o, Coherent(b, o), NEW S \in SUBSET b.conds, \A c \in S : c.id <= 0
    PROVE  Coherent(RemoveAll(b, S), o) /\ SameRest(b, RemoveAll(b, S))
<1> DEFINE h == RemoveAll(b, S)
<1>1. Owed(h, {}, o) /\ SameRest(b, h) /\ h.conds = b.conds \ S
  BY Removed DEF Coherent
<1> HIDE DEF h
<1>2. Geared(h, o)
  <2>1. b.enabled \in SUBSET DOMAIN Gear
    BY DEF Coherent, Owed, Whole, Bodies, Shapes
  <2>2. \A s \in b.enabled, k \in {"invisible", "manashield"} : ItemCondition(k, s) \notin S
    BY <2>1, ItemConditionType, SlotTypes
  <2> QED BY <1>1, <2>2 DEF Coherent, Geared, SameRest
<1>3. Barred(h, o)
  BY <1>1 DEF Coherent, Barred, SameRest
<1> QED BY <1>1, <1>2, <1>3 DEF Coherent, h

Carry(u) == IF u.mount THEN MountSpeed ELSE 0

\* Another outfit, or another mount, of his own.
Style(b, u) == [b EXCEPT !.varSpeed = @ + (Carry(u) - Carry(b.default)), !.default = u]

LEMMA StyleFields ==
    ASSUME NEW b \in Bodies, NEW u \in Outfits
    PROVE  LET h == Style(b, u)
           IN  /\ h \in Bodies /\ SameBut(b, h) /\ SameRest(b, h) /\ h.look = b.look /\ h.shown = b.shown
               /\ h.varSpeed = b.varSpeed + (Carry(u) - Carry(b.default)) /\ h.default = u
               /\ Carry(u) \in Int /\ Carry(b.default) \in Int
<1> DEFINE k == b.varSpeed + (Carry(u) - Carry(b.default))
           h == Style(b, u)
<1>0. Carry(u) \in Int /\ Carry(b.default) \in Int
  BY ConditionsAssumption DEF Carry
<1>1. k \in Int /\ k = b.varSpeed + (Carry(u) - Carry(b.default)) /\ h = [b EXCEPT !.varSpeed = k, !.default = u]
  BY <1>0 DEF Bodies, Shapes, Style
<1> HIDE DEF k, h
<1>2. h \in Bodies
  BY <1>1 DEF Bodies, Shapes
<1>3. SameBut(b, h) /\ SameRest(b, h) /\ h.look = b.look /\ h.shown = b.shown /\ h.varSpeed = k /\ h.default = u
  BY <1>1 DEF Bodies, Shapes, SameBut, SameRest
<1> QED BY <1>0, <1>1, <1>2, <1>3 DEF h

LEMMA StyleCoherent ==
    ASSUME NEW b, NEW p, Coherent(b, p), "outfit" \in p, NEW u \in Outfits
    PROVE  Coherent(Style(b, u), p)
<1> DEFINE h == Style(b, u)
<1>0. b \in Bodies /\ Owed(b, {}, p)
  BY DEF Coherent, Owed, Whole
<1>1. /\ h \in Bodies /\ SameBut(b, h) /\ SameRest(b, h) /\ h.look = b.look /\ h.shown = b.shown
      /\ h.varSpeed = b.varSpeed + (Carry(u) - Carry(b.default)) /\ h.default = u
      /\ Carry(u) \in Int /\ Carry(b.default) \in Int
  BY <1>0, StyleFields
<1> HIDE DEF h
<1>2. Whole(h, {}) /\ Seen(h, {}) /\ Paced(h, p)
  BY <1>0, <1>1 DEF Owed, Whole, Seen, Paced, SameBut, isInvisible
<1>s. "skill" \in p \/ Skilled(h, {})
  BY <1>0, <1>1 DEF Owed, Skilled, Gain, SameBut, SameRest
<1>3. Dressed(h, {}, p)
  BY DEF Dressed
<1>4. Defended(h, {}, p) /\ Shielded(h, {}, p)
  BY <1>0, <1>1 DEF Owed, Defended, Shielded, SameBut
<1>5. ASSUME "mount" \notin p PROVE Paid(h, {})
  <2> DEFINE s == SumVal(Of(b.conds \cup {}, SpeedKinds))
             g == GearSpeed(b.enabled)
             m == Carry(b.default)
             n == Carry(u)
  <2>1. s \in Int /\ g \in Int
    <3>1. b.conds \cup {} = b.conds /\ b.conds \in SUBSET Afflictions /\ IsFiniteSet(b.conds) /\ b.enabled \in SUBSET DOMAIN Gear
      BY <1>0 DEF Bodies, Shapes
    <3> QED BY <3>1, OfSum, NumericKinds, GearSum
  <2>2. b.varSpeed = s + m + g
    BY <1>0, <1>5 DEF Owed, Paid, Carry
  <2>3. SumVal(Of(h.conds \cup {}, SpeedKinds)) = s /\ GearSpeed(h.enabled) = g /\ Carry(h.default) = n
    BY <1>1 DEF SameBut, SameRest
  <2>4. h.varSpeed = s + n + g
    <3>1. m \in Int /\ n \in Int /\ h.varSpeed = b.varSpeed + (n - m)
      BY <1>1
    <3> HIDE DEF s, g, m, n
    <3> QED BY <2>1, <2>2, <3>1
  <2> HIDE DEF s, g, n
  <2> QED BY <2>3, <2>4 DEF Paid, Carry
<1>6. Geared(h, p) /\ Barred(h, p)
  BY <1>1 DEF Coherent, Geared, Barred, SameBut, SameRest
<1>7. Coherent(h, p)
  BY <1>2, <1>3, <1>4, <1>5, <1>6, <1>s DEF Coherent, Owed
<1> QED BY <1>7 DEF h

\* A script sets his own outfit, and his speed stays as it is.
LEMMA SetDefault ==
    ASSUME NEW b, NEW p, Coherent(b, p), "outfit" \in p, NEW u \in Outfits, "mount" \in p \/ u.mount = b.default.mount
    PROVE  LET h == [b EXCEPT !.default = u]
           IN  Coherent(h, p) /\ SameRest(b, h) /\ h.conds = b.conds /\ h.default = u
<1> DEFINE h == [b EXCEPT !.default = u]
<1>0. b \in Bodies /\ Owed(b, {}, p)
  BY DEF Coherent, Owed, Whole
<1>1. /\ h \in Bodies /\ SameBut(b, h) /\ SameRest(b, h) /\ h.look = b.look /\ h.shown = b.shown
      /\ h.varSpeed = b.varSpeed /\ h.default = u
  BY <1>0 DEF Bodies, Shapes, SameBut, SameRest
<1> HIDE DEF h
<1>2. Whole(h, {}) /\ Seen(h, {}) /\ Paced(h, p)
  BY <1>0, <1>1 DEF Owed, Whole, Seen, Paced, SameBut, isInvisible
<1>3. Dressed(h, {}, p)
  BY DEF Dressed
<1>4. Defended(h, {}, p) /\ Shielded(h, {}, p)
  BY <1>0, <1>1 DEF Owed, Defended, Shielded, SameBut
<1>5. "mount" \in p \/ Paid(h, {})
  BY <1>0, <1>1 DEF Owed, Paid, SameBut, SameRest
<1>6. "skill" \in p \/ Skilled(h, {})
  BY <1>0, <1>1 DEF Owed, Skilled, Gain, SameBut, SameRest
<1>7. Geared(h, p) /\ Barred(h, p)
  BY <1>1 DEF Coherent, Geared, Barred, SameBut, SameRest
<1>8. Coherent(h, p)
  BY <1>2, <1>3, <1>4, <1>5, <1>6, <1>7 DEF Coherent, Owed
<1> QED BY <1>1, <1>8 DEF h, SameBut

\* His skill is anything, and so is his level.
LEMMA SetSkill ==
    ASSUME NEW b, NEW p, Coherent(b, p), "skill" \in p, NEW k \in Int, NEW l \in Levels
    PROVE  Coherent([b EXCEPT !.varSkill = k, !.level = l], p)
<1> DEFINE h == [b EXCEPT !.varSkill = k, !.level = l]
<1>0. b \in Bodies /\ Owed(b, {}, p)
  BY DEF Coherent, Owed, Whole
<1>1. /\ h \in Bodies /\ h.conds = b.conds /\ h.manaShield = b.manaShield /\ h.canUseDefense = b.canUseDefense
      /\ h.look = b.look /\ h.shown = b.shown /\ h.varSpeed = b.varSpeed /\ h.default = b.default
      /\ h.enabled = b.enabled /\ h.suppressed = b.suppressed
  BY <1>0 DEF Bodies, Shapes
<1> HIDE DEF h
<1>2. Whole(h, {}) /\ Seen(h, {}) /\ Paced(h, p)
  BY <1>0, <1>1 DEF Owed, Whole, Seen, Paced, isInvisible
<1>3. Dressed(h, {}, p) /\ Defended(h, {}, p) /\ Shielded(h, {}, p)
  BY <1>0, <1>1 DEF Owed, Dressed, Defended, Shielded
<1>4. "mount" \in p \/ Paid(h, {})
  BY <1>0, <1>1 DEF Owed, Paid
<1>5. Geared(h, p) /\ Barred(h, p)
  BY <1>1 DEF Coherent, Geared, Barred
<1>6. Coherent(h, p)
  BY <1>2, <1>3, <1>4, <1>5 DEF Coherent, Owed
<1> QED BY <1>6 DEF h

LEMMA Grown ==
    ASSUME NEW b, NEW o, Coherent(b, o), NEW l \in Levels
    PROVE  LET h == [b EXCEPT !.level = l]
           IN  Coherent(h, o \cup Outgrown(b, l)) /\ h.conds = b.conds /\ h.slots = b.slots /\ h.enabled = b.enabled
<1> DEFINE h == [b EXCEPT !.level = l]
           p == o \cup Outgrown(b, l)
<1>0. b \in Bodies /\ Owed(b, {}, o)
  BY DEF Coherent, Owed, Whole
<1>1. /\ h \in Bodies /\ h.conds = b.conds /\ h.manaShield = b.manaShield /\ h.canUseDefense = b.canUseDefense
      /\ h.look = b.look /\ h.shown = b.shown /\ h.varSpeed = b.varSpeed /\ h.default = b.default
      /\ h.enabled = b.enabled /\ h.suppressed = b.suppressed /\ h.slots = b.slots
      /\ h.varSkill = b.varSkill /\ h.level = l
  BY <1>0 DEF Bodies, Shapes
<1>2. CASE Outgrown(b, l) = {}
  <2>1. \A s \in b.enabled : Gear[s].skill[b.level] = Gear[s].skill[l]
    BY <1>2 DEF Outgrown
  <2>2. [s \in b.enabled |-> Gear[s].skill[b.level]] = [s \in b.enabled |-> Gear[s].skill[l]]
    BY <2>1
  <2> HIDE DEF h
  <2>3. Gain(h) = Gain(b)
    BY <1>1, <2>2 DEF Gain, GearSkill
  <2>4. Whole(h, {}) /\ Seen(h, {}) /\ Paced(h, o)
    BY <1>0, <1>1 DEF Owed, Whole, Seen, Paced, isInvisible
  <2>5. Dressed(h, {}, o) /\ Defended(h, {}, o) /\ Shielded(h, {}, o)
    BY <1>0, <1>1 DEF Owed, Dressed, Defended, Shielded
  <2>6. ("mount" \in o \/ Paid(h, {})) /\ ("skill" \in o \/ Skilled(h, {}))
    BY <1>0, <1>1, <2>3 DEF Owed, Paid, Skilled
  <2>7. Geared(h, o) /\ Barred(h, o)
    BY <1>1 DEF Coherent, Geared, Barred
  <2>8. Coherent(h, o) /\ p = o
    BY <1>2, <2>4, <2>5, <2>6, <2>7 DEF Coherent, Owed
  <2> QED BY <1>1, <2>8 DEF h
<1>3. CASE Outgrown(b, l) # {}
  <2>1. "skill" \in p
    BY <1>3 DEF Outgrown
  <2>2. Coherent(b, p)
    BY CoherentMore
  <2>3. h = [b EXCEPT !.varSkill = b.varSkill, !.level = l] /\ b.varSkill \in Int
    BY <1>0 DEF Bodies, Shapes
  <2> HIDE DEF h, p
  <2>4. Coherent(h, p)
    BY <2>1, <2>2, <2>3, SetSkill
  <2> QED BY <1>1, <2>4 DEF h, p
<1> QED BY <1>2, <1>3

LEMMA CoherentLess ==
    ASSUME NEW b, NEW o, Coherent(b, o \cup {"outfit"}), Dressed(b, {}, o)
    PROVE  Coherent(b, o)
<1>1. Owed(b, {}, o)
  BY OwedLess DEF Coherent
<1>2. "manashield" \in o \cup {"outfit"} => "manashield" \in o
  OBVIOUS
<1>3. "suppress" \in o \cup {"outfit"} => "suppress" \in o
  OBVIOUS
<1> QED BY <1>1, <1>2, <1>3 DEF Coherent, Geared, Barred

\* He is seen in an outfit of his own, and no condition forces another one on him.
LEMMA Redressed ==
    ASSUME NEW b, NEW o, Coherent(b, o \cup {"outfit"}),
           "outfit" \notin o => Alone(b.conds, "outfit") /\ \A c \in Of(b.conds, {"outfit"}) : c.left < 0
    PROVE  LET h == internalCreatureChangeOutfit(b, b.default)
           IN  Coherent(h, o) /\ SameRest(b, h) /\ h.conds = b.conds
<1> DEFINE h == internalCreatureChangeOutfit(b, b.default)
           k == IF isInvisible(b) THEN b.shown ELSE b.default
           p == o \cup {"outfit"}
<1>0. b \in Bodies /\ Owed(b, {}, p) /\ Coherent(b, p)
  BY DEF Coherent, Owed, Whole
<1>1. h = [b EXCEPT !.look = b.default, !.shown = k] /\ k \in Outfits
  BY <1>0 DEF internalCreatureChangeOutfit, Bodies, Shapes
<1>2. k = IF isInvisible(b) THEN b.shown ELSE b.default
  OBVIOUS
<1> HIDE DEF h, k
<1>3. h \in Bodies
  BY <1>0, <1>1 DEF Bodies, Shapes
<1>4. /\ SameBut(b, h) /\ SameRest(b, h) /\ h.look = b.default /\ h.shown = k
      /\ h.varSpeed = b.varSpeed /\ h.default = b.default
  BY <1>0, <1>1 DEF Bodies, Shapes, SameBut, SameRest
<1>5. isInvisible(h) <=> isInvisible(b)
  BY <1>4 DEF isInvisible, SameBut
<1>6. Whole(h, {}) /\ Paced(h, p) /\ ("mount" \in p \/ Paid(h, {})) /\ ("skill" \in p \/ Skilled(h, {}))
  BY <1>0, <1>3, <1>4 DEF Owed, Whole, Skilled, Gain, Paced, Paid, SameBut, SameRest
<1>7. Seen(h, {})
  BY <1>0, <1>2, <1>4, <1>5 DEF Owed, Seen
<1>8. Defended(h, {}, p) /\ Shielded(h, {}, p)
  BY <1>0, <1>4 DEF Owed, Defended, Shielded, SameBut
<1>9. Dressed(h, {}, p)
  BY DEF Dressed
<1>10. Geared(h, p) /\ Barred(h, p)
  BY <1>0, <1>4 DEF Coherent, Geared, Barred, SameBut, SameRest
<1>11. Coherent(h, p)
  BY <1>6, <1>7, <1>8, <1>9, <1>10 DEF Coherent, Owed
<1>12. Dressed(h, {}, o)
  <2> SUFFICES ASSUME "outfit" \notin o PROVE Dressed(h, {}, o)
    BY DEF Dressed
  <2>1. h.conds = b.conds /\ h.conds \cup {} = h.conds
    BY <1>4 DEF SameBut
  <2>2. \A c \in b.conds : c.left \in Int
    BY <1>0 DEF Bodies, Shapes, Afflictions
  <2>3. \A c \in Of(b.conds, {"outfit"}) : ~(c.left >= 0)
    BY <2>2 DEF Of
  <2> QED BY <1>4, <2>1, <2>3 DEF Dressed
<1>13. Coherent(h, o)
  BY <1>11, <1>12, CoherentLess
<1> QED BY <1>4, <1>13 DEF h, SameBut

LEMMA NoneForces ==
    ASSUME NEW b, NEW o, Coherent(b, o), "outfit" \notin o, b.default.mount \/ ~hasCondition(b, "outfit")
    PROVE  Alone(b.conds, "outfit") /\ \A c \in Of(b.conds, {"outfit"}) : c.left < 0
<1>0. b \in Bodies /\ b.conds \cup {} = b.conds
  BY DEF Coherent, Owed, Whole
<1>1. Alone(b.conds, "outfit") /\ (b.default.mount => \A c \in Of(b.conds, {"outfit"}) : c.left < 0)
  BY <1>0 DEF Coherent, Owed, Dressed
<1>2. "outfit" \notin b.suppressed
  BY <1>0, ConditionsAssumption DEF Bodies, Shapes, Suppressible, Kinds
<1>3. \A c \in b.conds : c.left \in Int /\ (c.kind = "outfit" => c.sub = 0)
  BY <1>0 DEF Bodies, Shapes, Afflictions
<1>4. ~hasCondition(b, "outfit") => \A c \in Of(b.conds, {"outfit"}) : c.left < 0
  BY <1>2, <1>3 DEF hasCondition, Of
<1> QED BY <1>1, <1>4

LEMMA MountStyles ==
    ASSUME NEW b \in Bodies
    PROVE  LET u == [type |-> b.default.type, mount |-> TRUE]
           IN  /\ ~b.default.mount => u \in Outfits /\ [changeSpeed(b, MountSpeed) EXCEPT !.default.mount = TRUE] = Style(b, u)
               /\ Unmounted(b.default.type) \in Outfits
               /\ b.default.mount => dismount(b) = Style(b, Unmounted(b.default.type))
<1> DEFINE u == [type |-> b.default.type, mount |-> TRUE]
           n == Unmounted(b.default.type)
<1>0. b.default = [type |-> b.default.type, mount |-> b.default.mount] /\ b.default.type \in Looks /\ b.varSpeed \in Int
  BY DEF Bodies, Shapes, Outfits
<1>m. MountSpeed \in Int
  BY ConditionsAssumption
<1>1. n \in Outfits
  BY <1>0, LookTypes
<1>2. u \in Outfits /\ [b.default EXCEPT !.mount = TRUE] = u
  <2> DEFINE f == TRUE
             M == BOOLEAN
             x == b.default
  <2>1. f \in M /\ x \in [type : Looks, mount : M] /\ Outfits = [type : Looks, mount : M]
    BY DEF Bodies, Shapes, Outfits
  <2> HIDE DEF f, M, x
  <2>2. [x EXCEPT !.mount = f] = [type |-> x.type, mount |-> f] /\ [type |-> x.type, mount |-> f] \in Outfits
    BY <2>1
  <2> QED BY <2>2 DEF f, x
<1>3. [b.default EXCEPT !.mount = FALSE] = n
  <2> DEFINE f == FALSE
             M == BOOLEAN
             x == b.default
  <2>1. f \in M /\ x \in [type : Looks, mount : M]
    BY DEF Bodies, Shapes, Outfits
  <2> HIDE DEF f, M, x
  <2>2. [x EXCEPT !.mount = f] = [type |-> x.type, mount |-> f]
    BY <2>1
  <2> QED BY <2>2 DEF f, x, Unmounted
<1>4. Carry(u) = MountSpeed /\ Carry(n) = 0
  BY DEF Carry, Unmounted
<1>5. ASSUME ~b.default.mount PROVE [changeSpeed(b, MountSpeed) EXCEPT !.default.mount = TRUE] = Style(b, u)
  <2>1. [changeSpeed(b, MountSpeed) EXCEPT !.default.mount = TRUE]
        = [b EXCEPT !.varSpeed = b.varSpeed + MountSpeed, !.default = [b.default EXCEPT !.mount = TRUE]]
    BY DEF changeSpeed, Bodies, Shapes
  <2>2. b.varSpeed + (Carry(u) - Carry(b.default)) = b.varSpeed + MountSpeed
    <3>1. Carry(b.default) = 0
      BY <1>5 DEF Carry
    <3> HIDE DEF u
    <3> QED BY <1>0, <1>4, <1>m, <3>1
  <2>3. Style(b, u) = [b EXCEPT !.varSpeed = b.varSpeed + (Carry(u) - Carry(b.default)), !.default = u]
    BY DEF Style
  <2> HIDE DEF u
  <2> QED BY <1>2, <2>1, <2>2, <2>3
<1>6. ASSUME b.default.mount PROVE dismount(b) = Style(b, n)
  <2>1. dismount(b) = [b EXCEPT !.varSpeed = b.varSpeed + (-MountSpeed), !.default = [b.default EXCEPT !.mount = FALSE]]
    BY DEF dismount, changeSpeed, Bodies, Shapes
  <2>2. b.varSpeed + (Carry(n) - Carry(b.default)) = b.varSpeed + (-MountSpeed)
    <3>1. Carry(b.default) = MountSpeed
      BY <1>6 DEF Carry
    <3> HIDE DEF n
    <3> QED BY <1>0, <1>4, <1>m, <3>1
  <2>3. Style(b, n) = [b EXCEPT !.varSpeed = b.varSpeed + (Carry(n) - Carry(b.default)), !.default = n]
    BY DEF Style
  <2> HIDE DEF n
  <2> QED BY <1>3, <2>1, <2>2, <2>3
<1> QED BY <1>1, <1>2, <1>5, <1>6

LEMMA AddCoherent ==
    ASSUME NEW b, NEW o, Coherent(b, o), NEW c \in Afflictions, c.id <= 0, NEW p, o \subseteq p,
           Unopposed(b, c) \subseteq p, Renewed(b, c) \subseteq p, Clear(addCondition(b, c), p)
    PROVE  Coherent(addCondition(b, c), p) /\ AddedTo(b, c, addCondition(b, c))
<1> DEFINE h == addCondition(b, c)
<1>0. b \in Bodies /\ Owed(b, {}, o)
  BY DEF Coherent, Owed, Whole
<1>1. Owed(h, {}, p)
  BY <1>0, AddOwed
<1>2. AddedTo(b, c, h)
  BY <1>0, AddType
<1> HIDE DEF h
<1>3. Geared(h, p)
  <2>1. b.enabled \in SUBSET DOMAIN Gear
    BY <1>0 DEF Bodies, Shapes
  <2>2. \A s \in b.enabled, k \in {"invisible", "manashield"} :
           /\ ItemCondition(k, s).kind \notin SpeedKinds
           /\ ~SameKey(c, ItemCondition(k, s))
    BY <2>1, ItemConditionType, SlotTypes DEF SameKey
  <2>3. \A s \in b.enabled, k \in {"invisible", "manashield"} : ItemCondition(k, s) \in b.conds => ItemCondition(k, s) \in h.conds
    BY <1>2, <2>2 DEF AddedTo
  <2> QED BY <1>2, <2>3 DEF Coherent, Geared, AddedTo, SameRest
<1>4. Barred(h, p)
  BY <1>2 DEF Coherent, Barred, AddedTo, SameRest
<1> QED BY <1>1, <1>2, <1>3, <1>4 DEF Coherent, h

LEMMA Toggled ==
    ASSUME NEW b, NEW o, Coherent(b, o), NEW mount \in BOOLEAN
    PROVE  Coherent(toggleMount(b, mount), o) /\ SameRest(b, toggleMount(b, mount))
<1> DEFINE h == toggleMount(b, mount)
           t == b.default.type
           u == [type |-> t, mount |-> TRUE]
           on == mount /\ ~isMounted(b) /\ ~b.pz /\ ~hasCondition(b, "outfit")
           off == ~mount /\ isMounted(b)
<1>0. b \in Bodies /\ Coherent(b, o \cup {"outfit"})
  BY CoherentMore DEF Coherent, Owed, Whole
<1>1. CASE on
  <2> DEFINE m == Style(b, u)
  <2>1. u \in Outfits /\ [changeSpeed(b, MountSpeed) EXCEPT !.default.mount = TRUE] = m
    BY <1>0, <1>1, MountStyles DEF isMounted
  <2>2. h = internalCreatureChangeOutfit(m, m.default)
    BY <1>1, <2>1 DEF toggleMount
  <2>3. Coherent(m, o \cup {"outfit"})
    BY <1>0, <2>1, StyleCoherent
  <2>4. m.conds = b.conds /\ SameRest(b, m)
    BY <1>0, <2>1, StyleFields DEF SameBut
  <2>5. "outfit" \notin o => Alone(b.conds, "outfit") /\ \A c \in Of(b.conds, {"outfit"}) : c.left < 0
    BY <1>1, NoneForces
  <2> HIDE DEF m
  <2>6. Coherent(h, o) /\ SameRest(m, h)
    BY <2>2, <2>3, <2>4, <2>5, Redressed
  <2> QED BY <2>4, <2>6 DEF SameRest
<1>2. CASE off
  <2> DEFINE m == Style(b, Unmounted(t))
  <2>0. ~on
    BY <1>2
  <2>1. Unmounted(t) \in Outfits /\ dismount(b) = m
    BY <1>0, <1>2, MountStyles DEF isMounted
  <2>2. h = internalCreatureChangeOutfit(m, m.default)
    BY <1>2, <2>0, <2>1 DEF toggleMount
  <2>3. Coherent(m, o \cup {"outfit"})
    BY <1>0, <2>1, StyleCoherent
  <2>4. m.conds = b.conds /\ SameRest(b, m)
    BY <1>0, <2>1, StyleFields DEF SameBut
  <2>5. "outfit" \notin o => Alone(b.conds, "outfit") /\ \A c \in Of(b.conds, {"outfit"}) : c.left < 0
    BY <1>2, NoneForces DEF isMounted
  <2> HIDE DEF m
  <2>6. Coherent(h, o) /\ SameRest(m, h)
    BY <2>2, <2>3, <2>4, <2>5, Redressed
  <2> QED BY <2>4, <2>6 DEF SameRest
<1>3. CASE ~on /\ ~off
  <2>1. h = b
    BY <1>3 DEF toggleMount
  <2> QED BY <2>1 DEF SameRest
<1> QED BY <1>1, <1>2, <1>3

-----------------------------------------------------------------------------
(* One lemma for each action of Conditions.                                *)

CondInv ==
    /\ adventure \in Adventures /\ Coherent(me, odd)
    /\ me.enabled \subseteq me.slots /\ "unloaded" \notin odd

LEMMA SpellTypes ==
    ASSUME NEW v \in Adventures, NEW c \in v.spells
    PROVE  c \in Afflictions /\ c.id <= 0
<1>1. IsSpell(c)
  BY ConditionsAssumption
<1>2. c.val \in Vals
  BY DEF Vals
<1>3. c = [kind |-> c.kind, id |-> c.id, sub |-> c.sub, left |-> c.left, val |-> c.val, off |-> c.off]
  BY <1>1 DEF IsSpell
<1>4. /\ c.kind \in Kinds /\ c.id \in Int /\ c.id <= 0 /\ c.sub \in Int
      /\ c.left \in Int /\ c.off \in BOOLEAN
      /\ c.kind \in SpeedKinds \cup {"attributes"} => c.val \in Int
      /\ c.kind = "manashield" => c.val \in Nat
      /\ c.kind = "outfit" => c.sub = 0
      /\ c.off => c.kind = "attributes"
  BY <1>1, ConditionsAssumption DEF IsSpell
<1>5. c \in [kind : Kinds, id : Int, sub : Int, left : Int, val : Vals, off : BOOLEAN]
  BY <1>2, <1>3, <1>4
<1>6. ~(c.id > 0)
  BY <1>4
<1> QED BY <1>4, <1>5, <1>6 DEF Afflictions, Numeric

LEMMA LabelsNot ==
    /\ \A b, S : "unloaded" \notin Shared(b, S)
    /\ \A S \in SUBSET Afflictions : "unloaded" \notin Revived(S)
    /\ \A b : \A c \in Afflictions : "unloaded" \notin Unopposed(b, c) \cup Renewed(b, c)
    /\ \A b, l : "unloaded" \notin Outgrown(b, l)
BY DEF Shared, Revived, Unopposed, Renewed, Outgrown, Afflictions, Kinds, SpeedKinds

LEMMA CastStep == ASSUME CondInv, NEW c \in adventure.spells, Cast(c), UNCHANGED adventure PROVE CondInv'
<1> DEFINE h == addCondition(me, c)
           p == odd \cup (Unopposed(me, c) \cup Renewed(me, c)) \cup Met(h)
<1>1. c \in Afflictions /\ c.id <= 0
  BY SpellTypes DEF CondInv
<1>2. me' = h /\ odd' = p
  BY DEF Cast, Record
<1>3. me \in Bodies /\ Coherent(me, odd)
  BY DEF CondInv, Coherent, Owed, Whole
<1>4. h \in Bodies
  BY <1>1, <1>3, AddType DEF AddedTo
<1>5. Clear(h, p)
  BY <1>4, MetClear
<1>6. Coherent(h, p) /\ AddedTo(me, c, h)
  <2>1. odd \subseteq p /\ Unopposed(me, c) \subseteq p /\ Renewed(me, c) \subseteq p
    OBVIOUS
  <2> HIDE DEF p
  <2> QED BY <1>1, <1>3, <1>5, <2>1, AddCoherent
<1>7. "unloaded" \notin p
  BY <1>1, LabelsNot, MetNot DEF CondInv
<1> HIDE DEF h, p
<1> QED BY <1>2, <1>6, <1>7 DEF CondInv, AddedTo, SameRest

LEMMA PutOnStep ==
    ASSUME CondInv, NEW s \in adventure.slots, NEW meets \in BOOLEAN, PutOn(s, meets), UNCHANGED adventure PROVE CondInv'
<1> DEFINE b == [me EXCEPT !.slots = @ \cup {s}]
           h == IF meets THEN EquipItem(b, s) ELSE b
           p == odd \cup {} \cup Met(h)
<1>0. s \in DOMAIN Gear
  BY ConditionsAssumption DEF CondInv
<1>1. me' = h /\ odd' = p
  BY DEF PutOn, Record
<1>2. me \in Bodies /\ Coherent(me, odd)
  BY DEF CondInv, Coherent, Owed, Whole
<1>3. b \in Bodies /\ SameBody(me, b) /\ b.slots = me.slots \cup {s}
  BY <1>0, <1>2 DEF Bodies, Shapes, SameBody, SameBut
<1>4. Coherent(b, odd)
  BY <1>2, <1>3, CoherentSame
<1> HIDE DEF b
<1>5. "unloaded" \notin p
  BY MetNot DEF CondInv
<1>6. CASE meets
  <2>1. Keeps(b, h) /\ h.enabled = b.enabled \cup {s}
    BY <1>0, <1>3, <1>6, EquipType
  <2>2. Twice(h) \subseteq p
    BY <2>1, MetClear DEF Keeps
  <2>3. "manashield" \notin p => Alone(EquipItem(b, s).conds, "manashield")
    BY <1>6, <2>2 DEF Twice
  <2>4. Coherent(EquipItem(b, s), p)
    <3>1. odd \subseteq p
      OBVIOUS
    <3> HIDE DEF p
    <3> QED BY <1>0, <1>4, <2>3, <3>1, EquipStep
  <2>5. Coherent(h, p)
    BY <1>6, <2>4
  <2>6. h.enabled \subseteq h.slots
    BY <1>3, <2>1 DEF CondInv, Keeps, SameBody
  <2> HIDE DEF h, p
  <2> QED BY <1>1, <1>5, <2>5, <2>6 DEF CondInv
<1>7. CASE ~meets
  <2>1. h = b
    BY <1>7
  <2>2. Coherent(h, p)
    <3>1. odd \subseteq p
      OBVIOUS
    <3> HIDE DEF p, h
    <3> QED BY <1>4, <2>1, <3>1, CoherentMore
  <2>3. h.enabled \subseteq h.slots
    BY <1>3, <2>1 DEF CondInv, SameBody
  <2> HIDE DEF h, p
  <2> QED BY <1>1, <1>5, <2>2, <2>3 DEF CondInv
<1> QED BY <1>6, <1>7

LEMMA TakeOffStep == ASSUME CondInv, NEW s \in me.slots, TakeOff(s), UNCHANGED adventure PROVE CondInv'
<1> DEFINE h == LoseAll(me, {s})
           p == odd \cup Shared(me, {s}) \cup Met(h)
<1>1. me' = h /\ odd' = p
  BY DEF TakeOff, Record
<1>2. Coherent(me, odd) /\ {s} \in SUBSET DOMAIN Gear
  BY DEF CondInv, Coherent, Owed, Whole, Bodies, Shapes
<1>3. Coherent(h, odd \cup Shared(me, {s})) /\ h.slots = me.slots \ {s} /\ h.enabled = me.enabled \ {s}
  BY <1>2, LostAll
<1>4. Coherent(h, p)
  <2>1. odd \cup Shared(me, {s}) \subseteq p
    OBVIOUS
  <2> HIDE DEF h, p
  <2> QED BY <1>3, <2>1, CoherentMore
<1>5. "unloaded" \notin p
  BY LabelsNot, MetNot DEF CondInv
<1> HIDE DEF h, p
<1> QED BY <1>1, <1>3, <1>4, <1>5 DEF CondInv

LEMMA ItemTime == ASSUME NEW c \in Afflictions, c.id > 0 PROVE c.left = Forever
BY DEF Afflictions, ItemCondition

LEMMA ClockStep == ASSUME CondInv, Clock, UNCHANGED adventure PROVE CondInv'
<1> DEFINE Tick(x) == IF x \in 0..(Forever - 1) THEN x - 1 ELSE x
           f == [c \in me.conds |-> [c EXCEPT !.left = Tick(c.left)]]
           h == [me EXCEPT !.conds = Img(f, me.conds)]
<1>0. Coherent(me, odd) /\ me \in Bodies /\ me.conds \in SUBSET Afflictions
  BY DEF CondInv, Coherent, Owed, Whole, Bodies, Shapes
<1>1. me' = h /\ odd' = odd
  BY DEF Clock, Img
<1>2. \A c \in me.conds : Tick(c.left) \in Int /\ (c.id > 0 => Tick(c.left) = c.left) /\ (Tick(c.left) >= 0 => c.left >= 0)
  <2> SUFFICES ASSUME NEW c \in me.conds
               PROVE  Tick(c.left) \in Int /\ (c.id > 0 => Tick(c.left) = c.left) /\ (Tick(c.left) >= 0 => c.left >= 0)
    OBVIOUS
  <2>1. c.left \in Int /\ Forever \in Int /\ c \in Afflictions
    BY <1>0, ConditionsAssumption DEF Afflictions
  <2>2. c.id > 0 => c.left = Forever
    BY <2>1, ItemTime
  <2> QED BY <2>1, <2>2
<1> HIDE DEF Tick
<1>3. \A c \in me.conds : f[c] = [c EXCEPT !.left = Tick(c.left)]
  OBVIOUS
<1>4. \A c \in me.conds : /\ f[c] \in Afflictions /\ f[c].left = Tick(c.left)
                          /\ f[c].kind = c.kind /\ f[c].id = c.id /\ f[c].sub = c.sub
                          /\ f[c].val = c.val /\ f[c].off = c.off
  BY <1>0, <1>2, <1>3, Later
<1> HIDE DEF f
<1>5. Retimes(f, me.conds)
  BY <1>4 DEF Retimes
<1>6. Coherent(h, odd)
  BY <1>0, <1>2, <1>4, <1>5, Retimed
<1>7. h.enabled = me.enabled /\ h.slots = me.slots
  BY <1>0 DEF Bodies, Shapes
<1> HIDE DEF h
<1> QED BY <1>1, <1>6, <1>7 DEF CondInv

\* Conditions that are not those of items are removed from the player.
LEMMA RemoveStep ==
    ASSUME CondInv, NEW S \in SUBSET me.conds, \A c \in S : c.id <= 0,
           me' = RemoveAll(me, S), UNCHANGED <<adventure, odd>>
    PROVE  CondInv'
<1>1. Coherent(RemoveAll(me, S), odd) /\ SameRest(me, RemoveAll(me, S))
  BY RemovedCoherent DEF CondInv
<1> QED BY <1>1 DEF CondInv, SameRest

LEMMA ThinkStep == ASSUME CondInv, Think, UNCHANGED adventure PROVE CondInv'
<1> DEFINE S == {c \in me.conds : c.left < 0}
<1>0. me.conds \in SUBSET Afflictions
  BY DEF CondInv, Coherent, Owed, Whole, Bodies, Shapes
<1>1. \A c \in S : c.id <= 0
  BY <1>0, ItemTime, ConditionsAssumption DEF Afflictions
<1>2. me' = RemoveAll(me, S) /\ odd' = odd /\ S \in SUBSET me.conds
  BY DEF Think
<1> HIDE DEF S
<1> QED BY <1>1, <1>2, RemoveStep

LEMMA ScriptRemovesStep ==
    ASSUME CondInv, NEW kind, NEW id, id <= 0, ScriptRemoves(kind, id), UNCHANGED adventure PROVE CondInv'
<1> DEFINE S == {c \in me.conds : c.kind = kind /\ c.id = id}
<1>1. CASE me' = RemoveAll(me, S)
  <2>1. odd' = odd /\ S \in SUBSET me.conds /\ \A c \in S : c.id <= 0
    BY DEF ScriptRemoves
  <2> HIDE DEF S
  <2> QED BY <1>1, <2>1, RemoveStep
<1>2. CASE UNCHANGED me
  BY <1>2 DEF CondInv, ScriptRemoves
<1> QED BY <1>1, <1>2 DEF ScriptRemoves

LEMMA ForceRemoveStep == ASSUME CondInv, ForceRemove, UNCHANGED adventure PROVE CondInv'
<1> DEFINE S == {c \in OfKind(me, "paralyze") : c.id = 0}
<1>1. CASE me' = RemoveAll(me, S)
  <2>1. odd' = odd /\ S \in SUBSET me.conds /\ \A c \in S : c.id <= 0
    BY DEF ForceRemove, OfKind
  <2> HIDE DEF S
  <2> QED BY <1>1, <2>1, RemoveStep
<1>2. CASE UNCHANGED me
  BY <1>2 DEF CondInv, ForceRemove
<1> QED BY <1>1, <1>2 DEF ForceRemove

LEMMA DispelStep ==
    ASSUME CondInv, NEW kind, NEW lost \in SUBSET me.slots, NEW acts \in BOOLEAN, NEW delay \in Delays,
           Dispel(kind, lost, acts, delay), UNCHANGED adventure
    PROVE  CondInv'
<1> DEFINE own == {c \in OfKind(me, kind) : c.id <= 0}
           b == LoseAll(me, lost)
           over == acts \/ kind = "paralyze"
           h == IF over THEN RemoveAll(b, own)
                ELSE [b EXCEPT !.conds = (@ \ own) \cup {[c EXCEPT !.left = delay] : c \in own}]
           q == Shared(me, lost) \cup (IF over THEN {} ELSE Revived(own))
           p == odd \cup q \cup Met(h)
           n == odd \cup Shared(me, lost)
<1>1. me' = h /\ odd' = p
  BY DEF Dispel, Record
<1>2. Coherent(me, odd) /\ lost \in SUBSET DOMAIN Gear /\ me.conds \in SUBSET Afflictions
  BY DEF CondInv, Coherent, Owed, Whole, Bodies, Shapes
<1>3. /\ Coherent(b, n) /\ b.slots = me.slots \ lost /\ b.enabled = me.enabled \ lost
      /\ b.conds \subseteq me.conds /\ \A e \in me.conds : e.id <= 0 => e \in b.conds
  BY <1>2, LostAll
<1>4. own \in SUBSET b.conds /\ (\A c \in own : c.id <= 0) /\ own \in SUBSET Afflictions
  BY <1>2, <1>3 DEF OfKind
<1>5. "unloaded" \notin p
  BY <1>4, LabelsNot, MetNot DEF CondInv
<1>6. n \subseteq p /\ (~over => Revived(own) \subseteq p)
  OBVIOUS
<1> HIDE DEF b, own, n
<1>7. CASE over
  <2>1. h = RemoveAll(b, own)
    BY <1>7
  <2> HIDE DEF h, p
  <2>2. Coherent(h, n) /\ SameRest(b, h)
    BY <1>3, <1>4, <2>1, RemovedCoherent
  <2>3. Coherent(h, p)
    BY <1>6, <2>2, CoherentMore
  <2> QED BY <1>1, <1>3, <1>5, <2>2, <2>3 DEF CondInv, SameRest
<1>8. CASE ~over
  <2> DEFINE f == [c \in b.conds |-> IF c \in own THEN [c EXCEPT !.left = delay] ELSE c]
  <2>0. b \in Bodies /\ b.conds \in SUBSET Afflictions
    BY <1>3 DEF Coherent, Owed, Whole, Bodies, Shapes
  <2>1. (b.conds \ own) \cup {[c EXCEPT !.left = delay] : c \in own} = Img(f, b.conds)
    BY <1>4 DEF Img
  <2>2. h = [b EXCEPT !.conds = Img(f, b.conds)]
    BY <1>8, <2>1
  <2>3. \A c \in b.conds : IF c \in own THEN f[c] = [c EXCEPT !.left = delay] ELSE f[c] = c
    OBVIOUS
  <2>4. \A c \in own : LET d == [c EXCEPT !.left = delay] IN
           /\ d \in Afflictions /\ d.kind = c.kind /\ d.id = c.id /\ d.sub = c.sub /\ d.val = c.val /\ d.off = c.off
    <3>1. delay \in Int
      BY ConditionsAssumption
    <3>2. \A c \in own : c \in Afflictions /\ c.id \in Int /\ ~(c.id > 0)
      BY <1>4 DEF Afflictions
    <3> QED BY <3>1, <3>2, Later
  <2> HIDE DEF f
  <2>5. Retimes(f, b.conds)
    BY <2>0, <2>3, <2>4 DEF Retimes
  <2>6. \A c \in b.conds : f[c].left >= 0 => c.left >= 0 \/ LabelOf(c) \in p
    <3> SUFFICES ASSUME NEW c \in b.conds, f[c].left >= 0, ~(c.left >= 0) PROVE LabelOf(c) \in p
      OBVIOUS
    <3>1. c \in own
      BY <2>3
    <3>2. c.left < 0
      BY <2>0 DEF Afflictions
    <3>3. LabelOf(c) \in Revived(own)
      BY <3>1, <3>2 DEF Revived, LabelOf
    <3> QED BY <1>6, <1>8, <3>3
  <2> HIDE DEF h, p
  <2>7. Coherent(h, p)
    BY <1>3, <1>6, <2>2, <2>5, <2>6, Retimed
  <2>8. h.enabled = b.enabled /\ h.slots = b.slots
    BY <2>0, <2>2 DEF Bodies, Shapes
  <2> QED BY <1>1, <1>3, <1>5, <2>7, <2>8 DEF CondInv
<1> QED BY <1>7, <1>8

LEMMA HitShieldStep ==
    ASSUME CondInv, NEW dry \in BOOLEAN, HitShield(1, dry), UNCHANGED adventure PROVE CondInv'
<1> DEFINE S == OfKind(me, "manashield")
           spent == me.manaShield > 0 /\ (1 >= me.manaShield \/ dry)
<1>0. Coherent(me, odd) /\ me \in Bodies /\ me.conds \cup {} = me.conds /\ Owed(me, {}, odd) /\ me.manaShield \in Int
  BY DEF CondInv, Coherent, Owed, Whole, Bodies, Shapes
<1>s. "manashield" \notin odd => /\ Alone(me.conds, "manashield")
                                 /\ me.manaShield > 0 <=> \E c \in Of(me.conds, {"manashield"}) : c.val > 0
  BY <1>0 DEF Owed, Shielded, Of, CondInv
<1>1. CASE spent
  <2> DEFINE h == RemoveAll(me, S)
  <2>0. S \in SUBSET me.conds
    BY DEF OfKind
  <2>1. me' = h /\ odd' = odd
    BY <1>1 DEF HitShield
  <2>2. Owed(h, {}, odd) /\ SameRest(me, h) /\ h.conds = me.conds \ S
    BY <1>0, <2>0, Removed
  <2> HIDE DEF h
  <2>3. me.enabled \in SUBSET DOMAIN Gear
    BY <1>0 DEF Bodies, Shapes
  <2>4. "manashield" \notin odd => \A s \in me.enabled : ~Gear[s].manaShield
    <3> SUFFICES ASSUME "manashield" \notin odd, NEW s \in me.enabled, Gear[s].manaShield PROVE FALSE
      OBVIOUS
    <3> DEFINE i == ItemCondition("manashield", s)
    <3>1. i \in me.conds
      BY <1>0 DEF Coherent, Geared
    <3>2. i.kind = "manashield" /\ i.val = 0
      BY DEF ItemCondition
    <3> HIDE DEF i
    <3>3. PICK c \in Of(me.conds, {"manashield"}) : c.val > 0
      BY <1>1, <1>s
    <3>4. c = i
      BY <1>s, <3>1, <3>2 DEF Alone, Of
    <3> QED BY <3>2, <3>3, <3>4
  <2>5. \A s \in me.enabled : Gear[s].invisible => ItemCondition("invisible", s) \in h.conds
    <3>1. \A s \in me.enabled : ItemCondition("invisible", s) \notin S
      BY <2>3, ItemConditionType DEF OfKind
    <3> QED BY <1>0, <2>2, <3>1 DEF Coherent, Geared
  <2>6. Geared(h, odd) /\ Barred(h, odd)
    BY <1>0, <2>2, <2>4, <2>5 DEF Coherent, Geared, Barred, SameRest
  <2> QED BY <2>1, <2>2, <2>6 DEF CondInv, Coherent, SameRest
<1>2. CASE ~spent
  <2> DEFINE k == IF me.manaShield > 0 THEN me.manaShield - 1 ELSE me.manaShield
             h == [me EXCEPT !.manaShield = k]
  <2>1. me' = h /\ odd' = odd
    BY <1>2 DEF HitShield
  <2>2. k \in Int /\ (k > 0 <=> me.manaShield > 0)
    BY <1>0, <1>2
  <2> HIDE DEF k
  <2>3. /\ h \in Bodies /\ SameRest(me, h) /\ h.conds = me.conds /\ h.varSkill = me.varSkill /\ h.manaShield = k
        /\ h.canUseDefense = me.canUseDefense /\ h.varSpeed = me.varSpeed /\ h.look = me.look /\ h.shown = me.shown
        /\ h.default = me.default
    BY <1>0, <2>2 DEF Bodies, Shapes, SameRest
  <2> HIDE DEF h
  <2>4. /\ Whole(h, {}) /\ Seen(h, {}) /\ Paced(h, odd)
        /\ ("mount" \in odd \/ Paid(h, {})) /\ ("skill" \in odd \/ Skilled(h, {}))
    BY <1>0, <2>3 DEF Owed, Whole, Skilled, Gain, Seen, Paced, Paid, isInvisible, SameRest
  <2>5. Dressed(h, {}, odd) /\ Defended(h, {}, odd)
    BY <1>0, <2>3 DEF Owed, Dressed, Defended
  <2>6. Shielded(h, {}, odd)
    BY <1>0, <1>s, <2>2, <2>3 DEF Shielded
  <2>7. Geared(h, odd) /\ Barred(h, odd)
    BY <1>0, <2>3 DEF Coherent, Geared, Barred, SameRest
  <2> QED BY <2>1, <2>3, <2>4, <2>5, <2>6, <2>7 DEF CondInv, Coherent, Owed, SameRest
<1> QED BY <1>1, <1>2

LEMMA ToggleMountStep ==
    ASSUME CondInv, NEW mount \in BOOLEAN, ToggleMount(mount), UNCHANGED adventure PROVE CondInv'
<1>1. Coherent(toggleMount(me, mount), odd) /\ SameRest(me, toggleMount(me, mount))
  BY Toggled DEF CondInv
<1> QED BY <1>1 DEF CondInv, ToggleMount, SameRest

LEMMA ChangeOutfitStep ==
    ASSUME CondInv, NEW o \in adventure.looks, NEW mount \in BOOLEAN, NEW canWear \in BOOLEAN,
           ChangeOutfit(o, mount, canWear), UNCHANGED adventure
    PROVE  CondInv'
<1> DEFINE b == IF ~mount /\ isMounted(me) THEN dismount(me) ELSE me
           u == [type |-> o, mount |-> isMounted(b)]
           r == [b EXCEPT !.default = u]
           h == IF ~canWear THEN b
                ELSE IF hasCondition(me, "outfit") THEN r ELSE internalCreatureChangeOutfit(r, r.default)
           p == odd \cup {"outfit"}
<1>1. me' = h /\ odd' = IF ~canWear /\ b # me THEN p ELSE odd
  BY DEF ChangeOutfit
<1>2. Coherent(me, odd) /\ Coherent(me, p) /\ me \in Bodies
  BY CoherentMore DEF CondInv, Coherent, Owed, Whole
<1>3. Coherent(b, p) /\ b \in Bodies /\ SameRest(me, b) /\ b.conds = me.conds /\ b.look = me.look
  <2>1. CASE ~mount /\ isMounted(me)
    <3> DEFINE n == Unmounted(me.default.type)
    <3>1. n \in Outfits /\ dismount(me) = Style(me, n)
      BY <1>2, <2>1, MountStyles DEF isMounted
    <3>2. b = Style(me, n)
      BY <2>1, <3>1
    <3> HIDE DEF b, n
    <3>3. Coherent(b, p)
      BY <1>2, <3>1, <3>2, StyleCoherent
    <3>4. b \in Bodies /\ SameRest(me, b) /\ b.conds = me.conds /\ b.look = me.look
      BY <1>2, <3>1, <3>2, StyleFields DEF SameBut
    <3> QED BY <3>3, <3>4
  <2>2. CASE ~(~mount /\ isMounted(me))
    BY <1>2, <2>2 DEF SameRest
  <2> QED BY <2>1, <2>2
<1>m. me.default.mount => \/ ~mount /\ ~b.default.mount
                          \/ b = me
  <2>1. CASE ~mount /\ isMounted(me)
    <3>1. dismount(me).default = Unmounted(me.default.type)
      BY <1>2, DismountFields
    <3>2. b = dismount(me)
      BY <2>1
    <3>3. ~b.default.mount
      BY <3>1, <3>2 DEF Unmounted
    <3> QED BY <2>1, <3>3
  <2>2. CASE ~(~mount /\ isMounted(me))
    BY <2>2
  <2> QED BY <2>1, <2>2
<1>n. ~me.default.mount => b = me
  BY DEF isMounted
<1> HIDE DEF b
<1>4. u \in Outfits /\ u.mount = b.default.mount
  <2> DEFINE f == isMounted(b)
             M == BOOLEAN
  <2>1. f \in M /\ o \in Looks /\ f = b.default.mount
    BY <1>3 DEF isMounted, Bodies, Shapes, Outfits, Looks, CondInv
  <2>2. Outfits = [type : Looks, mount : M]
    BY DEF Outfits
  <2>3. u = [type |-> o, mount |-> f]
    OBVIOUS
  <2> HIDE DEF f, M, u
  <2> QED BY <2>1, <2>2, <2>3
<1>5. r = Style(b, u)
  <2>1. Carry(u) = Carry(b.default)
    BY <1>4 DEF Carry
  <2>2. Carry(u) \in Int /\ b.varSpeed \in Int
    BY <1>3, ConditionsAssumption DEF Carry, Bodies, Shapes
  <2> HIDE DEF u
  <2>3. b.varSpeed + (Carry(u) - Carry(b.default)) = b.varSpeed
    BY <2>1, <2>2
  <2>4. Style(b, u) = [b EXCEPT !.varSpeed = b.varSpeed, !.default = u]
    BY <2>3 DEF Style
  <2>5. [b EXCEPT !.varSpeed = b.varSpeed, !.default = u] = [b EXCEPT !.default = u]
    BY <1>3 DEF Bodies, Shapes
  <2> QED BY <2>4, <2>5
<1> HIDE DEF u
<1>6. Coherent(r, p) /\ r \in Bodies /\ SameRest(me, r) /\ r.conds = me.conds /\ r.look = me.look /\ r.default = u
  <2>1. Coherent(r, p)
    BY <1>3, <1>4, <1>5, StyleCoherent
  <2>2. r \in Bodies /\ SameRest(b, r) /\ r.conds = b.conds /\ r.look = b.look /\ r.default = u
    BY <1>3, <1>4, <1>5, StyleFields DEF SameBut
  <2> HIDE DEF r
  <2> QED BY <1>3, <2>1, <2>2 DEF SameRest
<1> HIDE DEF r
<1>7. CASE ~canWear
  <2>1. h = b
    BY <1>7
  <2>2. Coherent(h, odd') /\ "unloaded" \notin odd'
    BY <1>1, <1>2, <1>3, <1>7, <2>1 DEF CondInv
  <2> HIDE DEF h
  <2> QED BY <1>1, <1>3, <2>1, <2>2 DEF CondInv, SameRest
<1>8. CASE canWear /\ hasCondition(me, "outfit")
  <2>1. h = r /\ odd' = odd
    BY <1>1, <1>8
  <2>2. Dressed(r, {}, odd)
    <3> SUFFICES ASSUME "outfit" \notin odd PROVE Dressed(r, {}, odd)
      BY DEF Dressed
    <3>0. me.conds \cup {} = me.conds /\ r.conds \cup {} = r.conds /\ Of({}, {"outfit"}) = {}
      BY DEF Of
    <3>1. /\ me.default.mount => \A c \in Of(me.conds, {"outfit"}) : c.left < 0
          /\ Alone(me.conds, "outfit")
          /\ \A c \in Of(me.conds, {"outfit"}) : c.left >= 0 => me.look = Unmounted(c.val)
      BY <1>2, <3>0 DEF Coherent, Owed, Dressed
    <3>2. PICK c \in me.conds : c.kind = "outfit" /\ c.left >= 0
      BY <1>8 DEF hasCondition
    <3>3. c \in Of(me.conds, {"outfit"}) /\ c.left \in Int
      BY <1>2, <3>2 DEF Of, Bodies, Shapes, Afflictions
    <3>4. ~me.default.mount
      BY <3>1, <3>2, <3>3
    <3>5. ~r.default.mount
      BY <1>4, <1>6, <1>n, <3>4
    <3> QED BY <1>6, <3>0, <3>1, <3>3, <3>5 DEF Dressed
  <2>3. Coherent(r, odd)
    BY <1>6, <2>2, CoherentLess
  <2> HIDE DEF h
  <2> QED BY <1>1, <1>6, <2>1, <2>3 DEF CondInv, SameRest
<1>9. CASE canWear /\ ~hasCondition(me, "outfit")
  <2>1. h = internalCreatureChangeOutfit(r, r.default) /\ odd' = odd
    BY <1>1, <1>9
  <2>2. "outfit" \notin odd => Alone(r.conds, "outfit") /\ \A c \in Of(r.conds, {"outfit"}) : c.left < 0
    BY <1>2, <1>6, <1>9, NoneForces
  <2> HIDE DEF h
  <2>3. Coherent(h, odd) /\ SameRest(r, h)
    BY <1>6, <2>1, <2>2, Redressed
  <2> QED BY <1>1, <1>6, <2>1, <2>3 DEF CondInv, SameRest
<1> QED BY <1>7, <1>8, <1>9

LEMMA ChangeZoneStep == ASSUME CondInv, ChangeZone, UNCHANGED adventure PROVE CondInv'
<1> DEFINE b == dismount(me)
           t == toggleMount(me, FALSE)
           z == [me EXCEPT !.pz = FALSE]
           r == toggleMount(z, TRUE)
<1>0. Coherent(me, odd) /\ me \in Bodies /\ odd' = odd
  BY DEF CondInv, Coherent, Owed, Whole, ChangeZone
<1>1. CASE ~me.pz /\ isMounted(me)
  <2>1. t = internalCreatureChangeOutfit(b, b.default)
    BY <1>1 DEF toggleMount
  <2>2. Coherent(t, odd) /\ SameRest(me, t)
    BY <1>0, Toggled
  <2> DEFINE h == [t EXCEPT !.pz = TRUE, !.wasMounted = TRUE]
  <2>3. me' = h
    BY <1>1, <2>1 DEF ChangeZone
  <2> HIDE DEF t
  <2>4. h \in Bodies /\ SameBody(t, h) /\ h.slots = t.slots
    BY <2>2 DEF Coherent, Owed, Whole, Bodies, Shapes, SameBody, SameBut
  <2> HIDE DEF h
  <2>5. Coherent(h, odd)
    BY <2>2, <2>4, CoherentSame
  <2> QED BY <1>0, <2>2, <2>3, <2>4, <2>5 DEF CondInv, SameRest, SameBody
<1>2. CASE me.pz /\ me.wasMounted
  <2>1. z \in Bodies /\ SameBody(me, z) /\ z.slots = me.slots
    BY <1>0 DEF Bodies, Shapes, SameBody, SameBut
  <2> HIDE DEF z
  <2>2. Coherent(z, odd)
    BY <1>0, <2>1, CoherentSame
  <2>3. Coherent(r, odd) /\ SameRest(z, r)
    BY <2>2, Toggled
  <2> DEFINE h == [r EXCEPT !.wasMounted = FALSE]
  <2>4. me' = h
    BY <1>2 DEF ChangeZone, z
  <2> HIDE DEF r
  <2>5. h \in Bodies /\ SameBody(r, h) /\ h.slots = r.slots
    BY <2>3 DEF Coherent, Owed, Whole, Bodies, Shapes, SameBody, SameBut
  <2> HIDE DEF h
  <2>6. Coherent(h, odd)
    BY <2>3, <2>5, CoherentSame
  <2> QED BY <1>0, <2>1, <2>3, <2>4, <2>5, <2>6 DEF CondInv, SameRest, SameBody
<1>3. CASE ~(~me.pz /\ isMounted(me)) /\ ~(me.pz /\ me.wasMounted)
  <2>1. me' \in {[me EXCEPT !.pz = TRUE], [me EXCEPT !.pz = FALSE]}
    BY <1>3 DEF ChangeZone
  <2>2. me' \in Bodies /\ SameBody(me, me') /\ me'.slots = me.slots
    BY <1>0, <2>1 DEF Bodies, Shapes, SameBody, SameBut
  <2>3. Coherent(me', odd)
    BY <1>0, <2>2, CoherentSame
  <2> QED BY <1>0, <2>2, <2>3 DEF CondInv, SameBody
<1> QED BY <1>1, <1>2, <1>3

LEMMA LoseLifeStep ==
    ASSUME CondInv, NEW lost \in SUBSET me.slots, NEW l \in adventure.levels, LoseLife(lost, l), UNCHANGED adventure
    PROVE  CondInv'
<1> DEFINE b == LoseAll(me, lost)
           S == {c \in b.conds : isPersistent(c)}
           d == [b EXCEPT !.level = l]
           r == RemoveAll(d, S)
           h == [r EXCEPT !.alive = FALSE]
           k == odd \cup Shared(me, lost)
           n == k \cup Outgrown(b, l)
           p == n \cup Met(h)
<1>1. me' = h /\ odd' = p
  BY DEF LoseLife, Record
<1>2. Coherent(me, odd) /\ lost \in SUBSET DOMAIN Gear /\ l \in Levels
  BY ConditionsAssumption DEF CondInv, Coherent, Owed, Whole, Bodies, Shapes
<1>3. Coherent(b, k) /\ b.slots = me.slots \ lost /\ b.enabled = me.enabled \ lost
  BY <1>2, LostAll
<1>5. "unloaded" \notin p /\ n \subseteq p
  BY LabelsNot, MetNot DEF CondInv
<1> HIDE DEF b, k
<1>d. Coherent(d, n) /\ d.conds = b.conds /\ d.slots = b.slots /\ d.enabled = b.enabled
  BY <1>2, <1>3, Grown
<1>4. S \in SUBSET d.conds /\ \A c \in S : c.id <= 0
  BY <1>d DEF isPersistent
<1> HIDE DEF d, S, n, p
<1>6. Coherent(r, n) /\ SameRest(d, r)
  BY <1>4, <1>d, RemovedCoherent
<1> HIDE DEF r
<1>7. h \in Bodies /\ SameBody(r, h) /\ h.slots = r.slots
  BY <1>6 DEF Coherent, Owed, Whole, Bodies, Shapes, SameBody, SameBut
<1> HIDE DEF h
<1>8. Coherent(h, p)
  BY <1>5, <1>6, <1>7, CoherentSame, CoherentMore
<1> QED BY <1>1, <1>3, <1>5, <1>6, <1>7, <1>8, <1>d DEF CondInv, SameRest, SameBody

LEMMA ReappearStep == ASSUME CondInv, NEW pz \in BOOLEAN, Reappear(pz), UNCHANGED adventure PROVE CondInv'
<1> DEFINE h == [me EXCEPT !.alive = TRUE, !.pz = pz]
<1>1. me' = h /\ odd' = odd
  BY DEF Reappear
<1>2. Coherent(me, odd) /\ me \in Bodies
  BY DEF CondInv, Coherent, Owed, Whole
<1>3. h \in Bodies /\ SameBody(me, h) /\ h.slots = me.slots
  BY <1>2 DEF Bodies, Shapes, SameBody, SameBut
<1> HIDE DEF h
<1>4. Coherent(h, odd)
  BY <1>2, <1>3, CoherentSame
<1> QED BY <1>1, <1>3, <1>4 DEF CondInv, SameBody

LEMMA ChangeLevelStep ==
    ASSUME CondInv, NEW l \in adventure.levels, ChangeLevel(l), UNCHANGED adventure PROVE CondInv'
<1> DEFINE h == [me EXCEPT !.level = l]
           n == odd \cup Outgrown(me, l)
           p == n \cup Met(h)
<1>1. me' = h /\ odd' = p
  BY DEF ChangeLevel, Record
<1>2. Coherent(me, odd) /\ l \in Levels
  BY ConditionsAssumption DEF CondInv
<1>3. Coherent(h, n) /\ h.slots = me.slots /\ h.enabled = me.enabled
  BY <1>2, Grown
<1>4. "unloaded" \notin p /\ n \subseteq p
  BY LabelsNot, MetNot DEF CondInv
<1> HIDE DEF h, n, p
<1>5. Coherent(h, p)
  BY <1>3, <1>4, CoherentMore
<1> QED BY <1>1, <1>3, <1>4, <1>5 DEF CondInv

\* What a rotten item takes away.
Rotten(s, l) == {"skill" : n \in {Gear[s].skill[l]} \ {0}}

LEMMA DecaysStep == ASSUME CondInv, NEW s \in adventure.slots, Decays(s), UNCHANGED adventure PROVE CondInv'
<1> DEFINE x == Gear[s].skill[me.level]
           b == GiveSkill(me, -x)
           h == IF s \in me.slots THEN LoseAll(b, {s}) ELSE b
           k == odd \cup Rotten(s, me.level)
           n == k \cup Shared(me, {s})
           p == odd \cup (Shared(me, {s}) \cup Rotten(s, me.level)) \cup Met(h)
<1>1. me' = h /\ odd' = p
  BY DEF Decays, Record, Rotten
<1>2. Coherent(me, odd) /\ s \in DOMAIN Gear /\ me \in Bodies /\ me.level \in Levels
  BY ConditionsAssumption DEF CondInv, Coherent, Owed, Whole, Bodies, Shapes
<1>3. x \in Int /\ me.varSkill \in Int
  BY <1>2, SlotTypes DEF Bodies, Shapes
<1>4. b = [me EXCEPT !.varSkill = me.varSkill + (-x), !.level = me.level]
  BY <1>2 DEF GiveSkill, Bodies, Shapes
<1>5. b.slots = me.slots /\ b.enabled = me.enabled
  BY <1>2 DEF GiveSkill, Bodies, Shapes
<1>6. Coherent(b, k)
  <2>1. CASE x = 0
    <3>1. me.varSkill + (-x) = me.varSkill
      BY <1>3, <2>1
    <3>2. b = me
      BY <1>2, <1>4, <3>1 DEF Bodies, Shapes
    <3> QED BY <1>2, <3>2, CoherentMore
  <2>2. CASE x # 0
    <3>1. "skill" \in k
      BY <2>2 DEF Rotten
    <3>2. Coherent(me, k)
      BY <1>2, CoherentMore
    <3>3. me.varSkill + (-x) \in Int
      BY <1>3
    <3> HIDE DEF b, k, x
    <3> QED BY <1>2, <1>4, <3>1, <3>2, <3>3, SetSkill
  <2> QED BY <2>1, <2>2
<1>7. Shared(b, {s}) = Shared(me, {s})
  BY <1>5 DEF Shared
<1>8. "unloaded" \notin p /\ n \subseteq p /\ k \subseteq n
  BY LabelsNot, MetNot DEF CondInv, Rotten
<1>9. Coherent(h, n) /\ h.enabled \subseteq h.slots
  <2>1. CASE s \in me.slots
    <3>1. {s} \in SUBSET DOMAIN Gear
      BY <1>2
    <3> HIDE DEF b, k
    <3>2. /\ Coherent(LoseAll(b, {s}), k \cup Shared(b, {s}))
          /\ LoseAll(b, {s}).slots = b.slots \ {s} /\ LoseAll(b, {s}).enabled = b.enabled \ {s}
      BY <1>6, <3>1, LostAll
    <3> QED BY <1>5, <1>7, <2>1, <3>2 DEF CondInv
  <2>2. CASE s \notin me.slots
    <3>1. h = b
      BY <2>2
    <3> HIDE DEF b, h, k, n
    <3> QED BY <1>5, <1>6, <1>8, <3>1, CoherentMore DEF CondInv
  <2> QED BY <2>1, <2>2
<1> HIDE DEF h, n, p
<1>10. Coherent(h, p)
  BY <1>8, <1>9, CoherentMore
<1> QED BY <1>1, <1>8, <1>9, <1>10 DEF CondInv

LEMMA ScriptOutfitStep ==
    ASSUME CondInv, NEW o \in adventure.looks, NEW mount \in BOOLEAN, ScriptOutfit(o, mount), UNCHANGED adventure
    PROVE  CondInv'
<1> DEFINE u == [type |-> o, mount |-> mount]
           b == [me EXCEPT !.default = u]
           h == internalCreatureChangeOutfit(b, b.default)
           q == {"mount" : x \in {mount} \ {isMounted(me)}} \cup {c.kind : c \in OfKind(me, "outfit")}
           n == odd \cup q
           p == n \cup Met(h)
           w == n \cup {"outfit"}
<1>1. me' = h /\ odd' = p
  BY DEF ScriptOutfit, Record
<1>2. Coherent(me, odd) /\ me \in Bodies
  BY DEF CondInv, Coherent, Owed, Whole
<1>3. u \in Outfits /\ u.mount = mount
  <2> DEFINE M == BOOLEAN
  <2>1. mount \in M /\ o \in Looks /\ Outfits = [type : Looks, mount : M]
    BY DEF Outfits, Looks, CondInv
  <2> HIDE DEF M
  <2> QED BY <2>1
<1>4. "mount" \in w \/ u.mount = me.default.mount
  BY <1>3 DEF isMounted
<1>5. Of(me.conds, {"outfit"}) # {} => "outfit" \in n
  <2> SUFFICES ASSUME NEW c \in Of(me.conds, {"outfit"}) PROVE "outfit" \in n
    OBVIOUS
  <2>1. c \in OfKind(me, "outfit") /\ c.kind = "outfit"
    BY DEF Of, OfKind
  <2> QED BY <2>1
<1>6. "unloaded" \notin p /\ n \subseteq p
  <2>1. \A c \in OfKind(me, "outfit") : c.kind = "outfit"
    BY DEF OfKind
  <2> QED BY <2>1, MetNot DEF CondInv
<1>7. Coherent(me, w)
  BY <1>2, CoherentMore
<1>8. Coherent(b, w) /\ SameRest(me, b) /\ b.conds = me.conds
  <2> HIDE DEF u, n
  <2> QED BY <1>3, <1>4, <1>7, SetDefault
<1> HIDE DEF b, n, p
<1>9. Coherent(h, n) /\ SameRest(b, h)
  <2>1. "outfit" \notin n => Alone(b.conds, "outfit") /\ \A c \in Of(b.conds, {"outfit"}) : c.left < 0
    BY <1>5, <1>8 DEF Alone
  <2> QED BY <1>8, <2>1, Redressed
<1> HIDE DEF h
<1>10. Coherent(h, p)
  BY <1>6, <1>9, CoherentMore
<1> QED BY <1>1, <1>6, <1>8, <1>9, <1>10 DEF CondInv, SameRest

\* A condition as it comes back from the database.
Load(c) == [c EXCEPT !.left = IF @ > 0 THEN @ ELSE -1, !.off = FALSE]

LEMMA LoadType ==
    ASSUME NEW c \in Afflictions, c.id <= 0
    PROVE  Load(c) \in Afflictions /\ Load(c).id <= 0 /\ ~Load(c).off /\ Load(c).kind = c.kind
<1> DEFINE x == IF c.left > 0 THEN c.left ELSE -1
           f == FALSE
           d == [c EXCEPT !.left = x, !.off = f]
<1>1. c \in [kind : Kinds, id : Int, sub : Int, left : Int, val : Vals, off : BOOLEAN]
  BY DEF Afflictions
<1>2. x \in Int /\ f \in BOOLEAN /\ ~f
  BY <1>1
<1>3. Load(c) = d
  BY DEF Load
<1> HIDE DEF x, f
<1>4. /\ d \in [kind : Kinds, id : Int, sub : Int, left : Int, val : Vals, off : BOOLEAN]
      /\ d.kind = c.kind /\ d.id = c.id /\ d.sub = c.sub /\ d.val = c.val /\ ~d.off
  BY <1>1, <1>2
<1> HIDE DEF d
<1>5. ~(d.id > 0)
  BY <1>1, <1>4
<1>6. d \in Afflictions
  BY <1>4, <1>5 DEF Afflictions
<1> QED BY <1>3, <1>4, <1>6

LoadFold(h, base, q) ==
    h = [s \in SUBSET DOMAIN q |-> IF s = {} THEN base ELSE addCondition(h[s \ {Max(s)}], Load(q[Max(s)]))]
LoadedAll(base, q) == (CHOOSE h : LoadFold(h, base, q))[DOMAIN q]

LEMMA LoadedIs ==
    ASSUME NEW base, NEW q
    PROVE  FoldLeft(LAMBDA a, c : addCondition(a, Load(c)), base, q) = LoadedAll(base, q)
BY DEF FoldLeft, MapThenFoldSet, LoadedAll, LoadFold

\* What conditions that are loaded one after the other lead to.
LEMMA LoadAll ==
    ASSUME NEW n \in Nat, NEW q, DOMAIN q = 1..n, \A i \in 1..n : Load(q[i]) \in Afflictions, NEW base \in Bodies,
           NEW G, \A s \in SUBSET (1..n) : G[s] \subseteq Bodies, base \in G[{}],
           \A s \in SUBSET (1..n) : \A i \in s : \A y \in G[s \ {i}] : addCondition(y, Load(q[i])) \in G[s]
    PROVE  LoadedAll(base, q) \in G[1..n]
<1> DEFINE S == 1..n
           F == [p \in S \X Bodies |-> addCondition(p[2], Load(q[p[1]]))]
           C == [s \in SUBSET S |-> Max(s)]
<1>0. IsFiniteSet(S)
  BY FS_Interval, 1 \in Int, n \in Int
<1>1. \A i \in S, y \in Bodies : addCondition(y, Load(q[i])) \in Bodies
  BY AddType DEF AddedTo
<1>2. F \in [S \X Bodies -> Bodies] /\ \A i \in S, y \in Bodies : F[<<i, y>>] = addCondition(y, Load(q[i]))
  BY <1>1
<1>m. \A s \in SUBSET S : s # {} => Max(s) \in s
  BY MaxIn
<1>3. Chooses(C, S) /\ \A s \in SUBSET S : C[s] = Max(s)
  BY <1>m DEF Chooses
<1>d. DOMAIN q = S /\ base \in Bodies
  OBVIOUS
<1>g. /\ \A s \in SUBSET S : G[s] \subseteq Bodies
      /\ base \in G[{}]
      /\ \A s \in SUBSET S : \A i \in s : \A y \in G[s \ {i}] : addCondition(y, Load(q[i])) \in G[s]
  OBVIOUS
<1>s. G[1..n] = G[S]
  OBVIOUS
<1> HIDE DEF F, C, S
<1>4. PICK h \in [SUBSET S -> Bodies] : Folds(h, F, C, base, S, Bodies)
  BY <1>0, <1>2, <1>3, <1>d, FoldExists
<1>5. LoadFold(h, base, q)
  <2>1. \A s \in SUBSET S : s # {} => Max(s) \in s /\ h[s \ {Max(s)}] \in Bodies
    BY <1>4, <1>m
  <2>2. \A s \in SUBSET S : h[s] = IF s = {} THEN base ELSE addCondition(h[s \ {Max(s)}], Load(q[Max(s)]))
    BY <1>2, <1>3, <1>4, <2>1 DEF Folds
  <2> QED BY <1>4, <1>d, <2>2 DEF LoadFold
<1> DEFINE k == CHOOSE g : LoadFold(g, base, q)
<1>6. LoadFold(k, base, q)
  BY <1>5
<1> HIDE DEF k
<1>7. Folds(k, F, C, base, S, Bodies)
  <2>1. \A s \in SUBSET S : k[s] = IF s = {} THEN base ELSE addCondition(k[s \ {Max(s)}], Load(q[Max(s)]))
    BY <1>6, <1>d DEF LoadFold
  <2>2. k[{}] = base
    BY <2>1
  <2>3. \A s \in SUBSET S : s # {} => Max(s) \in S
    BY <1>m
  <2> QED BY <1>2, <1>3, <2>1, <2>2, <2>3 DEF Folds
<1>8. \A s \in SUBSET S : s # {} => \A y \in G[s \ {C[s]}] : F[<<C[s], y>>] \in G[s]
  <2> SUFFICES ASSUME NEW s \in SUBSET S, s # {}, NEW y \in G[s \ {C[s]}] PROVE F[<<C[s], y>>] \in G[s]
    OBVIOUS
  <2>1. C[s] \in s /\ C[s] \in S
    BY <1>3, <1>m
  <2>2. y \in Bodies
    BY <1>g, <2>1
  <2>3. addCondition(y, Load(q[C[s]])) \in G[s]
    BY <1>g, <2>1
  <2> QED BY <1>2, <2>1, <2>2, <2>3
<1>9. k[S] \in G[S]
  <2>2. Reaching(k, F, C, base, S, Bodies, G)
    BY <1>0, <1>3, <1>7, <1>8, <1>g DEF Reaching
  <2> QED BY <2>2, FoldReaches
<1> QED BY <1>9, <1>d, <1>s DEF LoadedAll, k

\* Classes of which there are two.
Dup(b) == {kind \in {"outfit", "manashield"} : ~Alone(b.conds, kind)}

\* A state of the player while his conditions are loaded.
Waking(b, y, o) ==
    /\ y \in Bodies /\ Coherent(y, o \cup Dup(y)) /\ y.slots = b.slots /\ y.enabled = b.enabled
    /\ ~y.default.mount /\ \A e \in y.conds : ~e.off

LEMMA WakeStep ==
    ASSUME NEW b, NEW o, "speed" \in o, NEW y, Waking(b, y, o), NEW c \in Afflictions, c.id <= 0, ~c.off
    PROVE  LET h == addCondition(y, c)
           IN  /\ Waking(b, h, o)
               /\ Of(y.conds, {"manashield"}) # {} \/ c.kind = "manashield" => Of(h.conds, {"manashield"}) # {}
<1> DEFINE h == addCondition(y, c)
           p == o \cup Dup(h)
<1>0. y \in Bodies /\ Coherent(y, o \cup Dup(y)) /\ ~y.default.mount /\ \A e \in y.conds : ~e.off
  BY DEF Waking
<1>1. AddedTo(y, c, h)
  BY <1>0, AddType
<1>2. \A e, f \in y.conds : SameKey(e, f) => e = f
  BY <1>0 DEF Coherent, Owed, Whole
<1>3. Unopposed(y, c) \subseteq {"speed"} /\ Renewed(y, c) = {}
  BY <1>0 DEF Unopposed, Renewed, isMounted
<1> HIDE DEF h
<1>4. ASSUME NEW k \in {"outfit", "manashield"}, Alone(h.conds, k) PROVE Alone(y.conds, k)
  <2> SUFFICES ASSUME NEW e \in Of(y.conds, {k}), NEW f \in Of(y.conds, {k}) PROVE e = f
    BY DEF Alone
  <2>1. e \in y.conds /\ f \in y.conds /\ e.kind = k /\ f.kind = k /\ k \notin SpeedKinds
    BY DEF Of, SpeedKinds
  <2>2. /\ e \in h.conds \/ (SameKey(c, e) /\ c \in h.conds)
        /\ f \in h.conds \/ (SameKey(c, f) /\ c \in h.conds)
    BY <1>1, <2>1 DEF AddedTo
  <2>3. CASE e \in h.conds /\ f \in h.conds
    BY <1>4, <2>1, <2>3 DEF Alone, Of
  <2>4. CASE e \in h.conds /\ SameKey(c, f) /\ c \in h.conds
    <3>1. c = e
      BY <1>4, <2>1, <2>4 DEF Alone, Of, SameKey
    <3> QED BY <1>2, <2>1, <2>4, <3>1
  <2>5. CASE f \in h.conds /\ SameKey(c, e) /\ c \in h.conds
    <3>1. c = f
      BY <1>4, <2>1, <2>5 DEF Alone, Of, SameKey
    <3> QED BY <1>2, <2>1, <2>5, <3>1
  <2>6. CASE SameKey(c, e) /\ SameKey(c, f)
    <3>1. SameKey(e, f)
      BY <2>6 DEF SameKey
    <3> QED BY <1>2, <2>1, <3>1
  <2> QED BY <2>2, <2>3, <2>4, <2>5, <2>6
<1>5. o \cup Dup(y) \subseteq p /\ Unopposed(y, c) \subseteq p /\ Renewed(y, c) \subseteq p
  BY <1>3, <1>4 DEF Dup
<1>6. \A e \in h.conds : ~e.off
  BY <1>0, <1>1 DEF AddedTo
<1>7. Clear(h, p)
  BY <1>6 DEF Clear, Dup, Of
<1>8. Coherent(h, p)
  <2> HIDE DEF p
  <2> QED BY <1>0, <1>5, <1>7, AddCoherent DEF h
<1>9. Waking(b, h, o)
  BY <1>1, <1>6, <1>8 DEF Waking, AddedTo, SameRest
<1>10. ASSUME Of(y.conds, {"manashield"}) # {} \/ c.kind = "manashield" PROVE Of(h.conds, {"manashield"}) # {}
  <2>1. CASE c.kind = "manashield"
    BY <1>1, <2>1 DEF AddedTo, Of, SameKey
  <2>2. CASE Of(y.conds, {"manashield"}) # {}
    <3>1. PICK e \in y.conds : e.kind = "manashield"
      BY <2>2 DEF Of
    <3> QED BY <1>1, <3>1 DEF AddedTo, Of, SameKey, SpeedKinds
  <2> QED BY <1>10, <2>1, <2>2
<1> QED BY <1>9, <1>10 DEF h

\* The player before his items and conditions come back to him.
Blank(b, slots, o, shield, l, pz, p) ==
    /\ slots \in SUBSET DOMAIN Gear /\ o \in Looks /\ shield \in Int /\ l \in Levels /\ pz \in BOOLEAN
    /\ b = [Fresh(slots, o, shield, l) EXCEPT !.pz = pz]
    /\ "unloaded" \in p \/ ~(shield > 0)

LEMMA FreshCoherent ==
    ASSUME NEW b, NEW slots, NEW o, NEW shield, NEW l, NEW pz, NEW p, Blank(b, slots, o, shield, l, pz, p)
    PROVE  /\ Coherent(b, p) /\ b \in Bodies /\ b.conds = {} /\ b.slots = slots /\ b.enabled = {}
           /\ ~b.default.mount
<1> DEFINE f == FALSE
           t == TRUE
           u == Unmounted(o)
           r == [conds |-> {}, varSpeed |-> 0, varSkill |-> 0, manaShield |-> shield, canUseDefense |-> t,
                 default |-> u, look |-> u, shown |-> u, wasMounted |-> f, pz |-> pz, alive |-> t,
                 slots |-> slots, enabled |-> {}, suppressed |-> {}, level |-> l]
<1>1. f \in BOOLEAN /\ t \in BOOLEAN /\ t /\ ~f
  OBVIOUS
<1>2. u \in Outfits /\ ~u.mount
  BY LookTypes DEF Unmounted, Blank
<1>3. b = r
  BY DEF Fresh, Blank
<1>0. /\ slots \in SUBSET DOMAIN Gear /\ o \in Looks /\ shield \in Int /\ l \in Levels /\ pz \in BOOLEAN
      /\ "unloaded" \in p \/ ~(shield > 0)
  BY DEF Blank
<1> HIDE DEF f, t, u
<1>4. r \in Shapes
  BY <1>0, <1>1, <1>2 DEF Shapes
<1>5. /\ r.conds = {} /\ r.varSpeed = 0 /\ r.varSkill = 0 /\ r.manaShield = shield /\ r.canUseDefense = t
      /\ r.default = u /\ r.look = u /\ r.shown = u /\ r.slots = slots /\ r.enabled = {} /\ r.suppressed = {}
      /\ r.level = l
  OBVIOUS
<1> HIDE DEF r
<1>6. b \in Bodies
  BY <1>3, <1>4, <1>5, FS_EmptySet DEF Bodies
<1>7. \A K : Of({} \cup {}, K) = {} /\ Of({}, K) = {}
  BY DEF Of
<1>8. SumVal({}) = 0 /\ GearSpeed({}) = 0 /\ GearSkill({}, l) = 0
  <2> DEFINE e == [c \in {} |-> c.val]
             g == [s \in {} |-> Gear[s].speed]
             k == [s \in {} |-> Gear[s].skill[l]]
  <2>1. e \in [{} -> Int] /\ g \in [{} -> Int] /\ k \in [{} -> Int] /\ IsFiniteSet({})
    BY FS_EmptySet
  <2>2. SumVal({}) = SumFunction(e) /\ GearSpeed({}) = SumFunction(g) /\ GearSkill({}, l) = SumFunction(k)
    BY DEF SumVal, GearSpeed, GearSkill
  <2> HIDE DEF e, g, k
  <2> QED BY <2>1, <2>2, SumFacts
<1>9. Whole(b, {}) /\ Paid(b, {}) /\ Skilled(b, {})
  <2>1. Whole(b, {})
    BY <1>3, <1>5, <1>6, FS_EmptySet DEF Whole
  <2>2. /\ SumVal(Of(b.conds \cup {}, SpeedKinds)) = 0 /\ SumVal(Of(b.conds \cup {}, {"attributes"})) = 0
        /\ GearSpeed(b.enabled) = 0 /\ Gain(b) = 0 /\ ~b.default.mount /\ b.varSpeed = 0 /\ b.varSkill = 0
    BY <1>2, <1>3, <1>5, <1>7, <1>8 DEF Gain
  <2> QED BY <2>1, <2>2 DEF Paid, Skilled
<1>10. Seen(b, {}) /\ Dressed(b, {}, p) /\ Paced(b, p)
  BY <1>2, <1>3, <1>5, <1>7 DEF Seen, Dressed, Paced, isInvisible, Alone
<1>11. Defended(b, {}, p) /\ Shielded(b, {}, p)
  BY <1>0, <1>1, <1>3, <1>5, <1>7 DEF Defended, Shielded, Alone
<1>12. Geared(b, p) /\ Barred(b, p)
  BY <1>3, <1>5 DEF Geared, Barred
<1> QED BY <1>2, <1>3, <1>5, <1>6, <1>9, <1>10, <1>11, <1>12 DEF Coherent, Owed

\* An exception that is not needed.
LEMMA CoherentLessSpeed ==
    ASSUME NEW b, NEW p, Coherent(b, p \cup {"speed"}), Paced(b, p)
    PROVE  Coherent(b, p)
<1>1. Owed(b, {}, p)
  BY OwedLess DEF Coherent
<1>2. "manashield" \in p \cup {"speed"} => "manashield" \in p
  OBVIOUS
<1>3. "suppress" \in p \cup {"speed"} => "suppress" \in p
  OBVIOUS
<1> QED BY <1>1, <1>2, <1>3 DEF Coherent, Geared, Barred

LEMMA CoherentLoaded ==
    ASSUME NEW b, NEW p, Coherent(b, p \cup {"unloaded"}), "manashield" \in p \/ Of(b.conds, {"manashield"}) # {}
    PROVE  Coherent(b, p)
<1> DEFINE o == p \cup {"unloaded"}
<1>0. \A x \in {"outfit", "speed", "attributes", "manashield", "suppress", "mount", "skill"} : x \in o <=> x \in p
  OBVIOUS
<1>1. Owed(b, {}, o) /\ Geared(b, o) /\ Barred(b, o)
  BY DEF Coherent
<1> HIDE DEF o
<1>2. Dressed(b, {}, p) /\ Paced(b, p)
  BY <1>0, <1>1 DEF Owed, Dressed, Paced
<1>3. Defended(b, {}, p)
  BY <1>0, <1>1 DEF Owed, Defended
<1>4. Shielded(b, {}, p)
  BY <1>0, <1>1 DEF Owed, Shielded
<1>5. Geared(b, p) /\ Barred(b, p)
  BY <1>0, <1>1 DEF Geared, Barred
<1>6. ("mount" \in p \/ Paid(b, {})) /\ ("skill" \in p \/ Skilled(b, {}))
  BY <1>0, <1>1 DEF Owed
<1> QED BY <1>1, <1>2, <1>3, <1>4, <1>5, <1>6 DEF Coherent, Owed

\* Items act and conditions are loaded.
Wakes(b, o, S, n, q) ==
    /\ "speed" \in o /\ Coherent(b, o) /\ b.conds = {} /\ ~b.default.mount
    /\ S \in SUBSET DOMAIN Gear /\ n \in Nat /\ DOMAIN q = 1..n
    /\ \A i \in 1..n : q[i] \in Afflictions /\ q[i].id <= 0

Woken(b, o, S, n, q, h) ==
    /\ h \in Bodies /\ Coherent(h, o \cup Dup(h)) /\ h.slots = b.slots /\ h.enabled = b.enabled \cup S
    /\ (\E i \in 1..n : q[i].kind = "manashield") => Of(h.conds, {"manashield"}) # {}

LEMMA WokenAll ==
    ASSUME NEW b, NEW o, NEW S, NEW n, NEW q, Wakes(b, o, S, n, q)
    PROVE  Woken(b, o, S, n, q, LoadedAll(EquipAll(b, S), q))
<1> DEFINE base == EquipAll(b, S)
           Full(y, s) == (\E i \in s : q[i].kind = "manashield") => Of(y.conds, {"manashield"}) # {}
           Good(s) == {y \in Bodies : Waking(base, y, o) /\ Full(y, s)}
           G == [s \in SUBSET (1..n) |-> Good(s)]
<1>0. /\ "speed" \in o /\ Coherent(b, o) /\ b.conds = {} /\ ~b.default.mount
      /\ S \in SUBSET DOMAIN Gear /\ n \in Nat /\ DOMAIN q = 1..n
      /\ \A i \in 1..n : q[i] \in Afflictions /\ q[i].id <= 0
  BY DEF Wakes
<1>1. Coherent(base, o \cup Twice(base)) /\ Keeps(b, base) /\ base.enabled = b.enabled \cup S
  BY <1>0, EquippedAll
<1>2. base \in Bodies /\ base.slots = b.slots /\ ~base.default.mount /\ \A e \in base.conds : e.id > 0
  BY <1>0, <1>1 DEF Keeps
<1> HIDE DEF base
<1>3. \A e \in base.conds : ~e.off
  <2> SUFFICES ASSUME NEW e \in base.conds PROVE ~e.off
    OBVIOUS
  <2>1. e \in Afflictions /\ e.id > 0
    BY <1>2 DEF Bodies, Shapes
  <2>2. e = ItemCondition(e.kind, e.id)
    BY <2>1 DEF Afflictions
  <2> QED BY <2>2 DEF ItemCondition
<1>4. Waking(base, base, o)
  <2>1. o \cup Twice(base) \subseteq o \cup Dup(base)
    BY DEF Twice, Dup
  <2>2. Coherent(base, o \cup Dup(base))
    BY <1>1, <2>1, CoherentMore
  <2> QED BY <1>2, <1>3, <2>2 DEF Waking
<1>5. \A s \in SUBSET (1..n) : G[s] \subseteq Bodies
  OBVIOUS
<1>6. base \in G[{}]
  BY <1>2, <1>4
<1>7. ASSUME NEW s \in SUBSET (1..n), NEW i \in s, NEW y \in G[s \ {i}] PROVE addCondition(y, Load(q[i])) \in G[s]
  <2>1. Waking(base, y, o) /\ Full(y, s \ {i})
    <3>1. s \ {i} \in SUBSET (1..n)
      OBVIOUS
    <3> QED BY <3>1
  <2> DEFINE c == Load(q[i])
             h == addCondition(y, c)
  <2>2. c \in Afflictions /\ c.id <= 0 /\ ~c.off /\ c.kind = q[i].kind
    BY <1>0, LoadType
  <2> HIDE DEF c
  <2>3. /\ Waking(base, h, o)
        /\ Of(y.conds, {"manashield"}) # {} \/ c.kind = "manashield" => Of(h.conds, {"manashield"}) # {}
    BY <1>0, <2>1, <2>2, WakeStep
  <2> HIDE DEF h
  <2>4. Full(h, s)
    BY <2>1, <2>2, <2>3
  <2>5. h \in Bodies
    BY <2>3 DEF Waking
  <2> QED BY <2>3, <2>4, <2>5 DEF h, c
<1>8. G[1..n] = Good(1..n)
  OBVIOUS
<1>9. \A i \in 1..n : Load(q[i]) \in Afflictions
  BY <1>0, LoadType
<1> HIDE DEF G
<1>10. LoadedAll(base, q) \in G[1..n]
  BY <1>2, <1>5, <1>6, <1>7, <1>9, <1>0, LoadAll
<1> DEFINE h == LoadedAll(base, q)
<1>11. Waking(base, h, o) /\ Full(h, 1..n)
  BY <1>8, <1>10
<1> HIDE DEF h
<1>12. /\ h \in Bodies /\ Coherent(h, o \cup Dup(h)) /\ h.slots = b.slots /\ h.enabled = b.enabled \cup S
       /\ (\E i \in 1..n : q[i].kind = "manashield") => Of(h.conds, {"manashield"}) # {}
  BY <1>1, <1>2, <1>11 DEF Waking
<1> QED BY <1>12 DEF Woken, h, base

LEMMA RelogStep ==
    ASSUME CondInv, NEW met \in SUBSET me.slots, NEW pz \in BOOLEAN,
           NEW q \in SetToSeqs({c \in me.conds : isPersistent(c)}), Relog(met, pz, q), UNCHANGED adventure
    PROVE  CondInv'
<1> DEFINE b == [Fresh(me.slots, me.default.type, me.manaShield, me.level) EXCEPT !.pz = pz]
           n == Cardinality({c \in me.conds : isPersistent(c)})
           X == IF me.manaShield > 0 THEN {"unloaded"} ELSE {}
           o == {"speed"} \cup X
           h == LoadedAll(EquipAll(b, met), q)
           M == {"manashield" : m \in {m \in {me.manaShield} : m > 0 /\ \A c \in Range(q) : c.kind # "manashield"}}
           p == Met(h) \cup BothSpeeds(h) \cup M
<1>1. me \in Bodies /\ Coherent(me, odd)
  BY DEF CondInv, Coherent, Owed, Whole
<1>2. n \in Nat
  <2>1. IsFiniteSet({c \in me.conds : isPersistent(c)})
    BY <1>1, FS_Subset DEF Bodies
  <2> QED BY <2>1, FS_CardinalityType
<1>3. DOMAIN q = 1..n /\ \A i \in 1..n : q[i] \in me.conds /\ isPersistent(q[i])
  BY DEF SetToSeqs
<1>4. \A i \in 1..n : q[i] \in Afflictions /\ q[i].id <= 0
  BY <1>1, <1>3 DEF isPersistent, Bodies, Shapes
<1>5. me' = h /\ odd' = p
  <2>1. me' = FoldLeft(LAMBDA a, c : addCondition(a, Load(c)), EquipAll(b, met), q)
    BY DEF Relog, Load
  <2>2. me' = h
    BY <2>1, LoadedIs
  <2>3. odd' = Met(me') \cup BothSpeeds(me') \cup M
    BY DEF Relog
  <2> QED BY <2>2, <2>3
<1>6. Coherent(b, o) /\ b.conds = {} /\ b.slots = me.slots /\ b.enabled = {} /\ ~b.default.mount
  <2>1. me.slots \in SUBSET DOMAIN Gear /\ me.default.type \in Looks /\ me.manaShield \in Int /\ me.level \in Levels
    BY <1>1 DEF Bodies, Shapes, Outfits
  <2>2. b = [Fresh(me.slots, me.default.type, me.manaShield, me.level) EXCEPT !.pz = pz]
    OBVIOUS
  <2>3. "unloaded" \in o \/ ~(me.manaShield > 0)
    OBVIOUS
  <2> DEFINE sl == me.slots
             ty == me.default.type
             sh == me.manaShield
             lv == me.level
  <2>4. /\ sl \in SUBSET DOMAIN Gear /\ ty \in Looks /\ sh \in Int /\ lv \in Levels /\ b = [Fresh(sl, ty, sh, lv) EXCEPT !.pz = pz]
        /\ "unloaded" \in o \/ ~(sh > 0)
    BY <2>1, <2>2, <2>3
  <2> HIDE DEF b, o, sl, ty, sh, lv
  <2>5. Coherent(b, o) /\ b.conds = {} /\ b.slots = sl /\ b.enabled = {} /\ ~b.default.mount
    <3>1. Blank(b, sl, ty, sh, lv, pz, o)
      BY <2>4 DEF Blank
    <3> QED BY <3>1, FreshCoherent
  <2> QED BY <2>5 DEF sl
<1>7. met \in SUBSET DOMAIN Gear
  BY <1>1 DEF Bodies, Shapes
<1> HIDE DEF b, n
<1>8. /\ h \in Bodies /\ Coherent(h, o \cup Dup(h)) /\ h.slots = b.slots /\ h.enabled = b.enabled \cup met
      /\ (\E i \in 1..n : q[i].kind = "manashield") => Of(h.conds, {"manashield"}) # {}
  <2>1. "speed" \in o
    OBVIOUS
  <2> HIDE DEF o
  <2>2. /\ "speed" \in o /\ Coherent(b, o) /\ b.conds = {} /\ ~b.default.mount /\ met \in SUBSET DOMAIN Gear
        /\ n \in Nat /\ DOMAIN q = 1..n /\ \A i \in 1..n : q[i] \in Afflictions /\ q[i].id <= 0
    BY <1>2, <1>3, <1>4, <1>6, <1>7, <2>1
  <2>3. Wakes(b, o, met, n, q)
    BY <2>2 DEF Wakes
  <2>4. Woken(b, o, met, n, q, h)
    BY <2>3, WokenAll
  <2> HIDE DEF h
  <2> QED BY <2>4 DEF Woken
<1> HIDE DEF h
<1>9. Coherent(h, (p \cup {"speed"}) \cup X)
  <2>1. Clear(h, p)
    BY <1>8, MetClear
  <2>2. Dup(h) \subseteq p
    BY <2>1 DEF Dup, Clear
  <2>3. o \cup Dup(h) \subseteq (p \cup {"speed"}) \cup X
    BY <2>2
  <2> HIDE DEF o, p, X
  <2> QED BY <1>8, <2>3, CoherentMore
<1>10. Coherent(h, p \cup {"speed"})
  <2>1. CASE me.manaShield > 0
    <3>1. "manashield" \in p \cup {"speed"} \/ Of(h.conds, {"manashield"}) # {}
      <4> SUFFICES ASSUME "manashield" \notin M PROVE Of(h.conds, {"manashield"}) # {}
        OBVIOUS
      <4>1. PICK c \in Range(q) : c.kind = "manashield"
        BY <2>1
      <4>2. \E i \in 1..n : q[i].kind = "manashield"
        BY <1>3, <4>1 DEF Range
      <4> QED BY <1>8, <4>2
    <3>2. X = {"unloaded"}
      BY <2>1
    <3> HIDE DEF p, X
    <3> QED BY <1>9, <3>1, <3>2, CoherentLoaded
  <2>2. CASE ~(me.manaShield > 0)
    <3>1. (p \cup {"speed"}) \cup X = p \cup {"speed"}
      BY <2>2
    <3> HIDE DEF p, X
    <3> QED BY <1>9, <3>1
  <2> QED BY <2>1, <2>2
<1>13. Coherent(h, p)
  <2>1. Paced(h, p)
    <3> SUFFICES ASSUME "speed" \notin p, NEW c \in h.conds, NEW d \in h.conds, c.kind = "haste", d.kind = "paralyze"
                 PROVE  FALSE
      BY DEF Paced
    <3>1. SpeedKinds \subseteq {e.kind : e \in h.conds}
      BY DEF SpeedKinds
    <3> QED BY <3>1 DEF BothSpeeds
  <2> HIDE DEF p
  <2> QED BY <1>10, <2>1, CoherentLessSpeed
<1>11. "unloaded" \notin p
  BY MetNot DEF BothSpeeds
<1>12. h.enabled \subseteq h.slots
  BY <1>6, <1>8
<1> HIDE DEF p
<1> QED BY <1>5, <1>11, <1>12, <1>13 DEF CondInv

LEMMA CondInitInv == CondInit => CondInv
<1> SUFFICES ASSUME CondInit PROVE CondInv
  OBVIOUS
<1>1. adventure \in Adventures /\ odd = {}
  BY DEF CondInit
<1>2. PICK o \in adventure.looks, l \in adventure.levels : me = Fresh({}, o, 0, l)
  BY DEF CondInit
<1> DEFINE f == FALSE
<1>3. me = [Fresh({}, o, 0, l) EXCEPT !.pz = f]
  <2> DEFINE t == TRUE
             u == Unmounted(o)
             r == [conds |-> {}, varSpeed |-> 0, varSkill |-> 0, manaShield |-> 0, canUseDefense |-> t,
                   default |-> u, look |-> u, shown |-> u, wasMounted |-> f, pz |-> f, alive |-> t,
                   slots |-> {}, enabled |-> {}, suppressed |-> {}, level |-> l]
  <2>1. Fresh({}, o, 0, l) = r
    BY DEF Fresh
  <2> HIDE DEF t, u, f
  <2>2. [r EXCEPT !.pz = f] = r
    OBVIOUS
  <2> QED BY <1>2, <2>1, <2>2
<1>4. f \in BOOLEAN /\ o \in Looks /\ l \in Levels
  BY <1>1, ConditionsAssumption DEF Looks
<1> HIDE DEF f
<1>5. Blank(me, {}, o, 0, l, f, odd)
  BY <1>3, <1>4 DEF Blank
<1>6. Coherent(me, odd) /\ me.slots = {} /\ me.enabled = {}
  BY <1>5, FreshCoherent
<1> QED BY <1>1, <1>6 DEF CondInv

LEMMA CondNextInv == CondInv /\ [CondNext]_condVars => CondInv'
<1> SUFFICES ASSUME CondInv, [CondNext]_condVars PROVE CondInv'
  OBVIOUS
<1>1. CASE UNCHANGED condVars
  BY <1>1 DEF CondInv, condVars
<1>2. CASE CondNext
  <2>0. UNCHANGED adventure
    BY <1>2 DEF CondNext
  <2>1. ASSUME NEW c \in adventure.spells, Cast(c) PROVE CondInv'
    BY <2>0, <2>1, CastStep
  <2>2. ASSUME NEW s \in adventure.slots, NEW meets \in BOOLEAN, PutOn(s, meets) PROVE CondInv'
    BY <2>0, <2>2, PutOnStep
  <2>3. ASSUME NEW s \in me.slots, TakeOff(s) PROVE CondInv'
    BY <2>0, <2>3, TakeOffStep
  <2>4. ASSUME Clock PROVE CondInv'
    BY <2>0, <2>4, ClockStep
  <2>5. ASSUME Think PROVE CondInv'
    BY <2>0, <2>5, ThinkStep
  <2>6. ASSUME ForceRemove PROVE CondInv'
    BY <2>0, <2>6, ForceRemoveStep
  <2>7. ASSUME ChangeZone PROVE CondInv'
    BY <2>0, <2>7, ChangeZoneStep
  <2>8. ASSUME NEW c \in me.conds, c.id <= 0, ScriptRemoves(c.kind, c.id) PROVE CondInv'
    BY <2>0, <2>8, ScriptRemovesStep
  <2>9. ASSUME NEW c \in me.conds, NEW lost \in SUBSET me.slots, NEW acts \in BOOLEAN, NEW delay \in Delays,
               Dispel(c.kind, lost, acts, delay)
        PROVE  CondInv'
    BY <2>0, <2>9, DispelStep
  <2>10. ASSUME NEW damage \in {1}, NEW dry \in BOOLEAN, HitShield(damage, dry) PROVE CondInv'
    BY <2>0, <2>10, HitShieldStep
  <2>11. ASSUME NEW mount \in BOOLEAN, ToggleMount(mount) PROVE CondInv'
    BY <2>0, <2>11, ToggleMountStep
  <2>12. ASSUME NEW o \in adventure.looks, NEW mount \in BOOLEAN, NEW canWear \in BOOLEAN,
                ChangeOutfit(o, mount, canWear)
         PROVE  CondInv'
    BY <2>0, <2>12, ChangeOutfitStep
  <2>13. ASSUME NEW lost \in SUBSET me.slots, NEW l \in adventure.levels, LoseLife(lost, l) PROVE CondInv'
    BY <2>0, <2>13, LoseLifeStep
  <2>14. ASSUME NEW pz \in BOOLEAN, Reappear(pz) PROVE CondInv'
    BY <2>0, <2>14, ReappearStep
  <2>15. ASSUME NEW met \in SUBSET me.slots, NEW pz \in BOOLEAN,
                NEW q \in SetToSeqs({c \in me.conds : isPersistent(c)}), Relog(met, pz, q)
         PROVE  CondInv'
    BY <2>0, <2>15, RelogStep
  <2>16. CondSteps
    BY <1>2 DEF CondNext
  <2>17. ASSUME NEW s \in adventure.slots, Decays(s) PROVE CondInv'
    BY <2>0, <2>17, DecaysStep
  <2>18. ASSUME NEW l \in adventure.levels, ChangeLevel(l) PROVE CondInv'
    BY <2>0, <2>18, ChangeLevelStep
  <2>19. ASSUME NEW o \in adventure.styles, NEW mount \in BOOLEAN, ScriptOutfit(o, mount) PROVE CondInv'
    <3>1. o \in adventure.looks
      BY <2>19, ConditionsAssumption DEF CondInv
    <3> QED BY <2>0, <2>19, <3>1, ScriptOutfitStep
  <2> QED BY <2>17, <2>18, <2>19, <2>1, <2>2, <2>3, <2>4, <2>5, <2>6, <2>7, <2>8, <2>9, <2>10, <2>11, <2>12, <2>13, <2>14, <2>15, <2>16
          DEF CondSteps
<1> QED BY <1>1, <1>2 DEF CondNext

LEMMA CondInvSound == CondInv => ConditionsSound
<1> SUFFICES ASSUME CondInv PROVE ConditionsSound
  OBVIOUS
<1> DEFINE speeds == {c \in me.conds : c.kind \in SpeedKinds}
           outfits == OfKind(me, "outfit")
           inForce == {c.kind : c \in {c \in speeds : c.left >= 0}}
<1>0. Owed(me, {}, odd) /\ Geared(me, odd) /\ Barred(me, odd) /\ me \in Bodies
  BY DEF CondInv, Coherent, Owed, Whole
<1>e. me.conds \cup {} = me.conds /\ \A K : Of({}, K) = {}
  BY DEF Of
<1>k. Of(me.conds, SpeedKinds) = speeds /\ \A k : Of(me.conds, {k}) = OfKind(me, k)
  BY DEF Of, OfKind
<1>1. \A c, d \in me.conds : SameKey(c, d) => c = d
  BY <1>0, <1>e DEF Owed, Whole
<1>2. "mount" \in odd \/ me.varSpeed = SumVal(speeds) + (IF isMounted(me) THEN MountSpeed ELSE 0) + GearSpeed(me.enabled)
  BY <1>0, <1>e, <1>k DEF Owed, Paid, isMounted
<1>3. "skill" \in odd \/ me.varSkill = SumVal(OfKind(me, "attributes")) + GearSkill(me.enabled, me.level)
  BY <1>0, <1>e, <1>k DEF Owed, Skilled, Gain
<1>4. me.shown = IF isInvisible(me) THEN Unmounted(NoLook) ELSE me.look
  BY <1>0, <1>e DEF Owed, Seen
<1>5. me.enabled \subseteq me.slots
  BY DEF CondInv
<1>6. "outfit" \notin odd => /\ outfits = {} => me.look = me.default
                             /\ \A c \in outfits : c.left >= 0 => me.look = Unmounted(c.val)
  BY <1>0, <1>e, <1>k DEF Owed, Dressed
<1>7. "speed" \in odd \/ inForce # SpeedKinds
  <2> SUFFICES ASSUME "speed" \notin odd, inForce = SpeedKinds PROVE FALSE
    OBVIOUS
  <2>1. "haste" \in inForce /\ "paralyze" \in inForce
    BY DEF SpeedKinds
  <2>2. PICK c \in me.conds : c.kind = "haste" /\ c.left >= 0
    BY <2>1
  <2>3. PICK d \in me.conds : d.kind = "paralyze" /\ d.left >= 0
    BY <2>1
  <2> QED BY <1>0, <2>2, <2>3 DEF Owed, Paced
<1>8. "attributes" \in odd \/ me.canUseDefense = ~\E c \in me.conds : c.off
  <2> DEFINE g == \E c \in me.conds : c.off
  <2>1. "attributes" \in odd \/ (me.canUseDefense <=> ~g)
    BY <1>0, <1>e DEF Owed, Defended
  <2>2. me.canUseDefense \in BOOLEAN
    BY <1>0 DEF Bodies, Shapes
  <2> HIDE DEF g
  <2>3. "attributes" \in odd \/ me.canUseDefense = ~g
    BY <2>1, <2>2
  <2> QED BY <2>3 DEF g
<1>9. "manashield" \in odd \/ (me.manaShield > 0 <=> \E c \in OfKind(me, "manashield") : c.val > 0)
  BY <1>0, <1>e, <1>k DEF Owed, Shielded, CondInv
<1>10. \A s \in me.enabled :
          /\ Gear[s].invisible => ItemCondition("invisible", s) \in me.conds
          /\ Gear[s].manaShield => ItemCondition("manashield", s) \in me.conds \/ "manashield" \in odd
  BY <1>0 DEF Geared
<1>11. "suppress" \in odd \/ me.suppressed = UNION {Gear[s].suppress : s \in me.enabled}
  BY <1>0 DEF Barred
<1> QED BY <1>1, <1>2, <1>3, <1>4, <1>5, <1>6, <1>7, <1>8, <1>9, <1>10, <1>11, Zenon DEF ConditionsSound

\* Speed, skill, look, defence, magic shield and suppressions of a player are
\* what his conditions, his mount and his worn items make them, whatever order
\* they are added, renewed, ended, dispelled, equipped, lost at death or loaded
\* in (Creature::addCondition, removeCondition, MoveEvent::EquipItem and
\* DeEquipItem, Player::toggleMount, onChangeZone, death, onCreatureAppear),
\* for any spells, items and outfits, with the exceptions ConditionsSound names.
THEOREM ConditionsSoundHolds == CondSpec => []ConditionsSound
BY CondInitInv, CondNextInv, CondInvSound, PTL DEF CondSpec

\* Both at once: the conditions and worn items of a player, and the imbuements
\* of his items, stay sound (ConditionsSoundHolds, ImbueSoundHolds).
THEOREM GearSoundHolds == CondSpec /\ ImbueSpec => []GearSound
<1>1. ConditionsSound /\ ImbueSound => GearSound
  BY DEF GearSound
<1> QED BY <1>1, ConditionsSoundHolds, ImbueSoundHolds, PTL
=============================================================================
