-------------------------------- MODULE Party --------------------------------
(***************************************************************************)
(* Parties (creatures/players/grouping/party.cpp) and what the players     *)
(* keep of them: Player::party and invitePartyList.  Every action is one   *)
(* task of the dispatcher.  The scripts of the party events agree to       *)
(* everything, as the ones shipped do; the fight that forbids leaving only *)
(* refuses requests and is left out.  Positions are two places: whoever is *)
(* at the leader's is in range.                                            *)
(***************************************************************************)
EXTENDS Integers, Sequences, FiniteSets, SequencesExt, FiniteSetsExt

CONSTANTS Fellows,     \* the players
          PartyIds,    \* bound on the parties at a time
          NoParty,     \* nullptr
          Rovers,      \* players who walk, change level and tire of fighting
          Levels,      \* levels players may have
          StartLevel   \* those they have at first

\* ticksMap: no entry, one within PZ_LOCKED, or one that is older.
TickStates == {"none", "fresh", "old"}

\* Party.  "stale": the conditions have changed without
\* updateSharedExperience() since sharedExpEnabled was computed.
PartyObject ==
    [leader : Fellows, members : Seq(Fellows), invites : SUBSET Fellows,
     active : BOOLEAN, enabled : BOOLEAN, ticks : [Fellows -> TickStates], stale : BOOLEAN]

ASSUME PartyAssumption ==
    /\ NoParty \notin PartyIds /\ NoParty \notin PartyObject /\ Rovers \subseteq Fellows
    /\ Levels \subseteq Nat /\ StartLevel \in [Fellows -> Levels]

VARIABLES online,       \* players that are in the game
          partyOf,      \* Player::party
          invitations,  \* Player::invitePartyList, as a set
          parties,      \* the Party objects, NoParty if deleted
          level,        \* Player::level
          away          \* players who are at the other place

partyVars == <<online, partyOf, invitations, parties, level, away>>

PartyTypeOK ==
    /\ online \subseteq Fellows /\ away \subseteq Fellows
    /\ partyOf \in [Fellows -> PartyIds \cup {NoParty}]
    /\ invitations \in [Fellows -> SUBSET PartyIds]
    /\ level \in [Fellows -> Levels]
    /\ parties \in [PartyIds -> PartyObject \cup {NoParty}]

PartyInit ==
    /\ online = Fellows /\ away = {}
    /\ partyOf = [p \in Fellows |-> NoParty]
    /\ invitations = [p \in Fellows |-> {}]
    /\ parties = [k \in PartyIds |-> NoParty]
    /\ level = StartLevel

\* A party nobody has been asked to yet.
NewParty(p) ==
    [leader |-> p, members |-> <<>>, invites |-> {}, active |-> FALSE, enabled |-> FALSE,
     ticks |-> [r \in Fellows |-> "none"], stale |-> FALSE]

-----------------------------------------------------------------------------
(* Party, as operators on the record q of one.                             *)

Company(q) == {q.leader} \cup ToSet(q.members)

EmptyParty(q) == q.members = <<>> /\ q.invites = {}

\* ceil(highestLevel * 2 / 3)
MinLevel(q, lv) == (Max({lv[p] : p \in Company(q)}) * 2 + 2) \div 3

canUseSharedExperience(q, p, lv, far) ==
    /\ q.members # <<>>
    /\ lv[p] >= MinLevel(q, lv)
    /\ p \in far <=> q.leader \in far
    /\ q.ticks[p] = "fresh"

canEnableSharedExperience(q, lv, far) ==
    \A p \in Company(q) : canUseSharedExperience(q, p, lv, far)

\* updateSharedExperience()
Updated(q, lv, far) ==
    IF q.active THEN [q EXCEPT !.enabled = canEnableSharedExperience(q, lv, far), !.stale = FALSE]
    ELSE [q EXCEPT !.stale = FALSE]

\* passPartyLeadership()
Passed(q, p) ==
    Updated([q EXCEPT !.leader = p, !.members = <<q.leader>> \o RemoveFirst(@, p)], level, away)

\* Fault: the new member is not looked at.
JoinedQuietly(q, p) ==
    [q EXCEPT !.members = Append(@, p), !.invites = @ \ {p}]

Joined(q, p) ==
    Updated([q EXCEPT !.members = Append(@, p), !.invites = @ \ {p}], level, away)

\* clearPlayerPoints()
PointsCleared(q, p) ==
    IF q.ticks[p] = "none" THEN q ELSE Updated([q EXCEPT !.ticks[p] = "none"], level, away)

\* The leader goes and the party ends with that.
MissingLeader(q, p) ==
    /\ q.leader = p
    /\ q.members = <<>> \/ (Len(q.members) = 1 /\ q.invites = {})

\* leaveParty(), up to the last test for disband()
Left(q, p) ==
    LET led  == IF q.leader = p /\ ~MissingLeader(q, p) THEN Passed(q, q.members[1]) ELSE q
        less == [led EXCEPT !.members = RemoveFirst(@, p)]
    IN  PointsCleared(Updated(less, level, away), p)

-----------------------------------------------------------------------------
(* What follows for the players.                                           *)

\* The Party calls its players through raw pointers; a Player who has logged
\* out is deleted soon, and nothing is said of what such a call does.
Sound(k) == parties[k] # NoParty /\ Company(parties[k]) \subseteq online

Leads(p, k) == partyOf[p] = k /\ Sound(k) /\ parties[k].leader = p

\* isInviting()
Inviting(p, r) == \E k \in PartyIds : Leads(p, k) /\ r \in parties[k].invites

\* Fault: invitations to a party that is disbanded are kept.
UninvitedNot(k, q) == invitations

\* disband() and removeInvite() keep invitePartyList in step with inviteList.
Uninvited(k, q) == [r \in Fellows |-> invitations[r] \ {k}]

\* Party k becomes q or, if "end", is disbanded.
Become(k, q, end) ==
    /\ parties' = [parties EXCEPT ![k] = IF end THEN NoParty ELSE q]
    /\ partyOf' = [r \in Fellows |->
          IF partyOf[r] = k /\ (end \/ r \notin Company(q)) THEN NoParty
          ELSE IF ~end /\ r \in Company(q) THEN k ELSE partyOf[r]]
    /\ invitations' = IF end THEN Uninvited(k, q)
                      ELSE [r \in Fellows |-> IF r \in q.invites THEN invitations[r] \cup {k}
                                              ELSE invitations[r] \ {k}]

-----------------------------------------------------------------------------
(* Requests.                                                               *)

\* playerInviteToParty(); a party comes into being with its first invitation.
Invite(p, r) ==
    /\ p # r /\ {p, r} \subseteq online
    /\ ~Inviting(r, p)
    /\ partyOf[r] = NoParty
    /\ \E k \in PartyIds :
          LET q == IF partyOf[p] = NoParty THEN NewParty(p) ELSE parties[k]
          IN  /\ IF partyOf[p] = NoParty THEN parties[k] = NoParty ELSE Leads(p, k)
              /\ Become(k, [q EXCEPT !.invites = @ \cup {r}], FALSE)
    /\ UNCHANGED <<online, level, away>>

Join(p, r) ==
    /\ {p, r} \subseteq online
    /\ Inviting(r, p)
    /\ partyOf[p] = NoParty
    /\ Become(partyOf[r], Joined(parties[partyOf[r]], p), FALSE)
    /\ UNCHANGED <<online, level, away>>

RevokeInvitation(p, r) ==
    /\ {p, r} \subseteq online
    /\ Inviting(p, r)
    /\ LET q == [parties[partyOf[p]] EXCEPT !.invites = @ \ {r}]
       IN  Become(partyOf[p], q, EmptyParty(q))
    /\ UNCHANGED <<online, level, away>>

PassLeadership(p, r) ==
    /\ {p, r} \subseteq online /\ p # r
    /\ \E k \in PartyIds :
          /\ Leads(p, k) /\ partyOf[r] = k
          /\ Become(k, Passed(parties[k], r), FALSE)
    /\ UNCHANGED <<online, level, away>>

Leave(p) ==
    /\ p \in online /\ partyOf[p] # NoParty /\ Sound(partyOf[p])
    /\ LET q == parties[partyOf[p]]
       IN  Become(partyOf[p], Left(q, p), MissingLeader(q, p) \/ EmptyParty(Left(q, p)))
    /\ UNCHANGED <<online, level, away>>

\* setSharedExperience()
EnableShared(p, on) ==
    /\ p \in online
    /\ \E k \in PartyIds :
          /\ Leads(p, k) /\ parties[k].active # on
          /\ parties' = [parties EXCEPT ![k] = Updated([@ EXCEPT !.active = on], level, away)]
    /\ UNCHANGED <<online, partyOf, invitations, level, away>>

-----------------------------------------------------------------------------
(* The world around.                                                       *)

\* onRemoveCreature(): invitations are given up; the party is not left.  The
\* place and the level of who has gone are forgotten.
Logout(p) ==
    /\ p \in online
    /\ \A k \in invitations[p] : Sound(k)
    /\ LET less(k) == [parties[k] EXCEPT !.invites = @ \ {p}]
           ended == {k \in invitations[p] : EmptyParty(less(k))}
       IN  /\ parties' = [k \in PartyIds |-> IF k \in ended THEN NoParty
                             ELSE IF k \in invitations[p] THEN less(k) ELSE parties[k]]
           /\ partyOf' = [r \in Fellows |-> IF partyOf[r] \in ended THEN NoParty ELSE partyOf[r]]
           /\ invitations' = [invitations EXCEPT ![p] = {}]
    /\ online' = online \ {p}
    /\ away' = away \ {p} /\ level' = [level EXCEPT ![p] = StartLevel[p]]

\* The party of p, if there is one, is told of new levels or positions.
TellParty(p, lv, far) ==
    parties' = IF partyOf[p] = NoParty THEN parties
               ELSE [parties EXCEPT ![partyOf[p]] = Updated(@, lv, far)]

SoundFor(p) == p \in online /\ (partyOf[p] # NoParty => Sound(partyOf[p]))

\* addExperience(), removeExperience()
ChangeLevel(p, n) ==
    /\ SoundFor(p) /\ p \in Rovers /\ n # level[p]
    /\ level' = [level EXCEPT ![p] = n]
    /\ TellParty(p, level', away)
    /\ UNCHANGED <<online, partyOf, invitations, away>>

\* onCreatureMove()
Walk(p) ==
    /\ SoundFor(p) /\ p \in Rovers
    /\ away' = IF p \in away THEN away \ {p} ELSE away \cup {p}
    /\ TellParty(p, level, away')
    /\ UNCHANGED <<online, partyOf, invitations, level>>

Spoiled(k) == [parties EXCEPT ![k].stale = parties[k].active]

\* death(): the level is lowered, the party not told.
Die(p, n) ==
    /\ SoundFor(p) /\ p \in Rovers /\ n < level[p]
    /\ level' = [level EXCEPT ![p] = n]
    /\ parties' = IF partyOf[p] = NoParty THEN parties ELSE Spoiled(partyOf[p])
    /\ UNCHANGED <<online, partyOf, invitations, away>>

\* onAttackedCreatureDrainHealth(), updatePlayerTicks()
Fight(p) ==
    /\ SoundFor(p) /\ partyOf[p] # NoParty
    /\ parties' = [parties EXCEPT ![partyOf[p]] =
                      Updated([@ EXCEPT !.ticks[p] = "fresh"], level, away)]
    /\ UNCHANGED <<online, partyOf, invitations, level, away>>

\* onIdleStatus()
Idle(p) ==
    /\ SoundFor(p) /\ partyOf[p] # NoParty
    /\ parties' = [parties EXCEPT ![partyOf[p]] = PointsCleared(@, p)]
    /\ UNCHANGED <<online, partyOf, invitations, level, away>>

\* PZ_LOCKED goes by since p fought.
TimeOut(p, k) ==
    /\ p \in Rovers /\ Sound(k) /\ parties[k].ticks[p] = "fresh"
    /\ parties' = [parties EXCEPT ![k].ticks[p] = "old", ![k].stale = parties[k].active]
    /\ UNCHANGED <<online, partyOf, invitations, level, away>>

PartyNext ==
    \/ \E p, r \in Fellows :
          Invite(p, r) \/ Join(p, r) \/ RevokeInvitation(p, r) \/ PassLeadership(p, r)
    \/ \E p \in Fellows : Leave(p) \/ Logout(p) \/ Walk(p) \/ Fight(p) \/ Idle(p)
    \/ \E p \in Fellows, on \in BOOLEAN : EnableShared(p, on)
    \/ \E p \in Fellows, n \in Levels : ChangeLevel(p, n) \/ Die(p, n)
    \/ \E p \in Fellows, k \in PartyIds : TimeOut(p, k)

PartySpec == PartyInit /\ [][PartyNext]_partyVars

-----------------------------------------------------------------------------
(* Properties.                                                             *)

\* Part of PartyConsistent: shared experience that is switched on is enabled exactly if all members
\* qualify, whoever joined, left, led, fought, idled, walked or rose last; only
\* the time that passes and a death are noticed with the next of these.
SharedExpCurrent ==
    \A k \in PartyIds :
        Sound(k) /\ parties[k].active /\ ~parties[k].stale =>
            parties[k].enabled = canEnableSharedExperience(parties[k], level, away)

\* Players and parties agree about who belongs to whom, so that no pointer to
\* a deleted Party is left (disband() deletes the object it runs on) and no
\* party is left behind empty - as long as nobody of the party has logged out
\* without leaving it.  Shared experience is enabled for those who qualify.
PartyConsistent ==
    /\ PartyTypeOK
    /\ SharedExpCurrent
    /\ \A p \in online, k \in PartyIds :
          /\ k \in invitations[p] => parties[k] # NoParty /\ p \in parties[k].invites
          /\ partyOf[p] = k => parties[k] # NoParty /\ p \in Company(parties[k])
    /\ \A k \in PartyIds : Sound(k) =>
          LET q == parties[k]
          IN  /\ \A p \in Company(q) : partyOf[p] = k /\ k \notin invitations[p]
              /\ \A p \in q.invites : p \in online /\ k \in invitations[p]
              /\ q.leader \notin ToSet(q.members) /\ IsInjective(q.members)
              /\ ~EmptyParty(q)
              /\ \A p \in Fellows : q.ticks[p] # "none" => p \in Company(q)
=============================================================================
