-------------------------------- MODULE Chat --------------------------------
(***************************************************************************)
(* Chat channels (creatures/interactions/chat.cpp) and guilds              *)
(* (creatures/players/grouping/guild.cpp) against the life of the players. *)
(* Channels and guilds keep raw pointers to Player objects, players keep   *)
(* one to their Guild, and the last member to leave the game deletes it.   *)
(* Every action is one task of the dispatcher.  What the scripts of a      *)
(* channel answer is a choice; what is said in it is left out.  There is   *)
(* one Player of a character at a time (a second one is the subject of     *)
(* GameSession), and of a party only who belongs to it is kept.            *)
(***************************************************************************)
EXTENDS Integers, FiniteSets

CONSTANTS Speakers,      \* characters
          PremiumSpeakers,
          Home,          \* the guild each belongs to in the database, or NoGuild
          Guilds, NoGuild,
          Ranked,        \* guilds that have a rank of level 1
          Bands, NoBand, \* addresses of Party objects; nullptr
          NormalIds,     \* channels of chatchannels.xml
          PrivateIds,    \* 100..9999 in the code
          Fashions       \* bound: channels in use in one behaviour

ASSUME ChatAssumption ==
    /\ Home \in [Speakers -> Guilds \cup {NoGuild}] /\ NoGuild \notin Guilds
    /\ PremiumSpeakers \subseteq Speakers /\ Ranked \subseteq Guilds
    /\ NoBand \notin Bands /\ PrivateIds \subseteq Nat

Channels == NormalIds \cup Guilds \cup Bands \cup PrivateIds

\* Chat keeps the four kinds of channels apart: two by their ids, two in maps.
ASSUME ChannelsAssumption ==
    /\ Fashions \subseteq SUBSET Channels /\ {NoGuild, NoBand} \cap Channels = {}
    /\ NormalIds \cap PrivateIds = {} /\ Guilds \cap Bands = {}
    /\ (NormalIds \cup PrivateIds) \cap (Guilds \cup Bands) = {}

VARIABLE chat

chatVars == <<chat>>

ChatTypeOK ==
    /\ chat.life \in [Speakers -> {"out", "in", "dead"}]
    /\ chat.open \subseteq Channels /\ chat.inUse \in Fashions
    /\ chat.users \in [Channels -> SUBSET Speakers]
    /\ chat.owner \in [PrivateIds -> SUBSET Speakers]
    /\ chat.invites \in [PrivateIds -> SUBSET Speakers]
    /\ chat.guild \in [Speakers -> Guilds \cup {NoGuild}]
    /\ chat.loaded \subseteq Guilds
    /\ chat.membersOnline \in [Guilds -> SUBSET Speakers]
    /\ chat.band \in [Speakers -> Bands \cup {NoBand}]
    /\ chat.dangling \cup chat.reborn \cup chat.moved \cup chat.departed \subseteq Speakers
    /\ chat.haunted \cup chat.spoiled \subseteq Guilds
    /\ chat.undefined \in BOOLEAN

\* life: in the game, dead and waiting to respawn, or without a Player object.
\* owner: one character, or none.  dangling: players whose guild points to a
\* deleted Guild; haunted: guilds whose membersOnline holds a deleted Player.
\* For the property only: players who have respawned (reborn), those who have
\* left their guild (moved) or their party (departed) while they used its
\* channel, and guilds from which a script has sent a member to one without
\* ranks (spoiled).
ChatInit ==
    \E fashion \in Fashions :
    chat = [life |-> [p \in Speakers |-> "out"],
            open |-> NormalIds, inUse |-> fashion,
            users |-> [c \in Channels |-> {}],
            owner |-> [c \in PrivateIds |-> {}],
            invites |-> [c \in PrivateIds |-> {}],
            guild |-> [p \in Speakers |-> NoGuild],
            loaded |-> {},
            membersOnline |-> [g \in Guilds |-> {}],
            band |-> [p \in Speakers |-> NoBand],
            dangling |-> {}, reborn |-> {}, haunted |-> {}, moved |-> {}, departed |-> {}, spoiled |-> {},
            undefined |-> FALSE]

-----------------------------------------------------------------------------
(* Guild and Game::guilds, as operators on the state s.                    *)

addMember(s, p) ==
    IF s.guild[p] = NoGuild THEN s ELSE [s EXCEPT !.membersOnline[s.guild[p]] = @ \cup {p}]

\* removeMember() of guild g: without members it deletes itself.
removeMember(s, g, p) ==
    IF g = NoGuild THEN s
    ELSE IF s.membersOnline[g] \subseteq {p} /\ g \notin s.haunted
    THEN [s EXCEPT !.membersOnline[g] = {}, !.loaded = @ \ {g},
                   !.dangling = @ \cup {q \in Speakers : s.life[q] # "out" /\ s.guild[q] = g}]
    ELSE [s EXCEPT !.membersOnline[g] = @ \ {p}]

\* loadPlayer(): the guild of the character is loaded if it is not there.
GuildLoaded(s, p) == [s EXCEPT !.loaded = IF Home[p] = NoGuild THEN @ ELSE @ \cup {Home[p]}]

-----------------------------------------------------------------------------
(* Chat, as operators on the state s.                                      *)

Invited(s, p, c) == p \in s.owner[c] \cup s.invites[c]

\* getChannel(): may p use channel c?  "scripted" is what canJoin() says.
getChannel(s, p, c, scripted) ==
    /\ c \in s.open
    /\ \/ c \in NormalIds /\ scripted
       \/ c = s.guild[p]
       \/ c = s.band[p]
       \/ c \in PrivateIds /\ Invited(s, p, c)

addUser(s, p, c) == [s EXCEPT !.users[c] = @ \cup {p}]

removeUser(s, p, c) == [s EXCEPT !.users[c] = @ \ {p}]

\* Private channels are closed and erased.
deleteChannels(s, cs) ==
    [s EXCEPT !.open = @ \ cs,
              !.users = [c \in Channels |-> IF c \in cs THEN {} ELSE @[c]],
              !.owner = [c \in PrivateIds |-> IF c \in cs THEN {} ELSE @[c]],
              !.invites = [c \in PrivateIds |-> IF c \in cs THEN {} ELSE @[c]]]

Owned(s, p) == {c \in PrivateIds : p \in s.owner[c]}

removeUserFromChannel(s, p, c, scripted) ==
    IF ~getChannel(s, p, c, scripted) \/ p \notin s.users[c] THEN s
    ELSE IF c \in Owned(s, p) THEN deleteChannels(s, {c})
    ELSE removeUser(s, p, c)

\* Fault: invitations are kept, with a pointer to somebody who leaves.
RemovedButInvited(s, p) ==
    deleteChannels([s EXCEPT !.users = [c \in Channels |-> @[c] \ {p}]], Owned(s, p))

removeUserFromAllChannels(s, p) ==
    deleteChannels([s EXCEPT !.users = [c \in Channels |-> @[c] \ {p}],
                             !.invites = [c \in PrivateIds |-> @[c] \ {p}],
                             !.moved = @ \ {p}, !.departed = @ \ {p}],
                   Owned(s, p))

-----------------------------------------------------------------------------
(* The life of a Player.                                                   *)

Present(p) == chat.life[p] = "in"

\* Present, and with a guild that can be asked.
Intact(p) == Present(p) /\ p \notin chat.dangling

\* onRemoveCreature() of the player itself, when it logs out or dies.
onRemoveCreature(s, p) ==
    removeMember(removeUserFromAllChannels(s, p), s.guild[p], p)

\* The Player object is deleted; a list that still has it keeps the pointer.
Deleted(s, p) ==
    [s EXCEPT !.life[p] = "out", !.guild[p] = NoGuild, !.band[p] = NoBand,
              !.dangling = @ \ {p}, !.reborn = @ \ {p},
              !.haunted = @ \cup {g \in Guilds : p \in s.membersOnline[g]},
              !.membersOnline = [g \in Guilds |-> @[g] \ {p}]]

\* login(): "placed" if the player gets into the game; g is the guild, or none
\* if the rank is not found.
EnterGame(p, placed, g) ==
    /\ chat.life[p] = "out"
    /\ LET s == GuildLoaded(chat, p)
       IN  chat' = IF placed THEN addMember([s EXCEPT !.life[p] = "in", !.guild[p] = g], p)
                   ELSE s

\* logout, kick
LeaveGame(p) ==
    /\ Intact(p)
    /\ chat' = Deleted(onRemoveCreature(chat, p), p)

\* Player::despawn() at death
Dies(p) ==
    /\ Intact(p)
    /\ chat' = [onRemoveCreature(chat, p) EXCEPT !.life[p] = "dead"]

\* Player::spawn(): onCreatureAppear() enlists with the guild only at a login.
Respawn(p) ==
    /\ chat.life[p] = "dead"
    /\ chat' = [chat EXCEPT !.life[p] = "in", !.reborn = @ \cup {p}]

\* Whatever a player with a deleted guild does with it: undefined from here on.
UseDeletedGuild(p) ==
    /\ Present(p) /\ p \in chat.dangling
    /\ chat' = [chat EXCEPT !.undefined = TRUE]

\* removeCreature() of a dead player, who is no spectator of its own removal.
DeadLeaves(p) ==
    /\ chat.life[p] = "dead"
    /\ chat' = Deleted(chat, p)

\* ProtocolGame::connect(): another client takes the player over.
Reconnect(p) ==
    /\ Present(p)
    /\ chat' = removeUserFromAllChannels(chat, p)

-----------------------------------------------------------------------------
(* Requests.                                                               *)

\* playerCreatePrivateChannel(): the first free id.
playerCreatePrivateChannel(p) ==
    /\ Present(p) /\ p \in PremiumSpeakers /\ Owned(chat, p) = {}
    /\ \E c \in (PrivateIds \cap chat.inUse) \ chat.open :
          /\ \A d \in (PrivateIds \cap chat.inUse) \ chat.open : c <= d
          /\ chat' = addUser([chat EXCEPT !.open = @ \cup {c}, !.owner[c] = {p}], p, c)

playerChannelInvite(p, q) ==
    /\ p # q /\ Present(p) /\ Present(q)
    /\ \E c \in Owned(chat, p) : chat' = [chat EXCEPT !.invites[c] = @ \cup {q}]

playerChannelExclude(p, q) ==
    /\ p # q /\ Present(p) /\ Present(q)
    /\ \E c \in Owned(chat, p) :
          /\ q \in chat.invites[c]
          /\ chat' = removeUser([chat EXCEPT !.invites[c] = @ \ {q}], q, c)

\* sendChannelsDialog(), getChannelList(): makes the channels of guild and party.
playerRequestChannels(p) ==
    /\ Intact(p)
    /\ chat' = [chat EXCEPT !.open = @ \cup ({chat.guild[p], chat.band[p]} \cap chat.inUse)]

\* addUserToChannel(); onJoin() of the script has agreed as well.
playerOpenChannel(p, c) ==
    /\ Present(p) /\ (c \in Guilds => Intact(p))
    /\ getChannel(chat, p, c, TRUE)
    /\ chat' = addUser(chat, p, c)

playerCloseChannel(p, c, scripted) ==
    /\ Present(p) /\ (c \in Guilds => Intact(p))
    /\ chat' = removeUserFromChannel(chat, p, c, scripted)

-----------------------------------------------------------------------------
(* Parties, scripts and reloads.                                           *)

\* setParty() of whoever founds a party or joins one.
EnterParty(p, k) ==
    /\ Present(p) /\ chat.band[p] = NoBand
    /\ chat' = [chat EXCEPT !.band[p] = k]

\* leaveParty(), disband(): setParty(nullptr) comes first, so that
\* sendClosePrivate() finds no channel to remove the player from.
LeaveParty(p) ==
    /\ Present(p) /\ chat.band[p] # NoBand
    /\ LET s == [chat EXCEPT !.band[p] = NoBand,
                             !.departed = @ \cup ({p} \cap chat.users[chat.band[p]])]
       IN  chat' = removeUserFromChannel(s, p, chat.band[p], TRUE)

\* A script gives p another guild, or none.
setGuild(p, g) ==
    /\ Intact(p) /\ g # chat.guild[p] /\ g \in chat.loaded \cup {NoGuild}
    /\ LET old  == chat.guild[p]
           used == UNION {chat.users[g2] : g2 \in {old} \cap Guilds}
           left == [chat EXCEPT !.guild[p] = NoGuild, !.moved = @ \cup ({p} \cap used)]
       IN  chat' = IF g \in Guilds \ Ranked
                   THEN [left EXCEPT !.spoiled = @ \cup ({old} \ {NoGuild})]
                   ELSE removeMember(addMember([left EXCEPT !.guild[p] = g], p), old, p)

\* loadPlayerById() for mail, a sale or a house: the Player is temporary.
LoadOffline(p) ==
    /\ chat.life[p] = "out"
    /\ chat' = GuildLoaded(chat, p)

\* Chat::load() again: onJoin() may refuse those who were in the channel.
ReloadChat(c, kept) ==
    /\ c \in NormalIds /\ kept \subseteq chat.users[c]
    /\ chat' = [chat EXCEPT !.users[c] = kept]

ChatNext ==
    /\ ~chat.undefined
    /\ \/ \E p \in Speakers :
             \/ \E placed \in BOOLEAN, g \in {Home[p], NoGuild} : EnterGame(p, placed, g)
             \/ LeaveGame(p) \/ Dies(p) \/ Respawn(p) \/ DeadLeaves(p) \/ Reconnect(p)
             \/ UseDeletedGuild(p)
             \/ playerCreatePrivateChannel(p) \/ playerRequestChannels(p)
             \/ \E q \in Speakers : playerChannelInvite(p, q) \/ playerChannelExclude(p, q)
             \/ \E c \in chat.inUse : playerOpenChannel(p, c)
             \/ \E c \in chat.inUse, scripted \in BOOLEAN : playerCloseChannel(p, c, scripted)
             \/ \E k \in Bands \cap chat.inUse : EnterParty(p, k)
             \/ LeaveParty(p) \/ LoadOffline(p)
             \/ \E g \in Guilds \cup {NoGuild} : setGuild(p, g)
       \/ \E c \in NormalIds, kept \in SUBSET Speakers : ReloadChat(c, kept)

ChatSpec == ChatInit /\ [][ChatNext]_chatVars

-----------------------------------------------------------------------------

\* What channels and guilds point to is in the game, however its players come
\* and go: users and invited players of every channel, the owner of a private
\* one (who also uses it, has no other, and speaks only to those invited), the
\* members of a guild and the guild of a player.  Whoever uses the channel of a
\* guild or a party belongs to it, unless a script has moved the player or he
\* has left a party: neither closes the channel.  Only a player who has died can
\* have a deleted guild or one that does not count him (he has left it and does
\* not enlist again), and only a script that named a guild without ranks leaves
\* a guild with a deleted player.
ChatSound ==
    /\ ChatTypeOK
    /\ \A c \in Channels : \A p \in chat.users[c] :
          /\ Present(p) /\ c \in chat.open
          /\ c \in Guilds => chat.guild[p] = c \/ p \in chat.moved
          /\ c \in Bands => chat.band[p] = c \/ p \in chat.departed
    /\ \A c \in PrivateIds :
          /\ \A p \in chat.invites[c] : Present(p)
          /\ c \in chat.open => Cardinality(chat.owner[c]) = 1
          /\ chat.owner[c] \subseteq chat.users[c]
          /\ chat.users[c] \subseteq chat.owner[c] \cup chat.invites[c]
    /\ \A p \in Speakers : Cardinality(Owned(chat, p)) <= 1
    /\ \A p \in Speakers, g \in Guilds :
          /\ Present(p) /\ chat.guild[p] = g =>
                \/ g \in chat.loaded /\ p \in chat.membersOnline[g] \ chat.dangling
                \/ p \in chat.reborn
          /\ p \in chat.membersOnline[g] =>
                (Present(p) /\ chat.guild[p] = g) \/ g \in chat.spoiled
          /\ g \in chat.haunted => g \in chat.spoiled
    /\ \A p \in chat.dangling : chat.life[p] = "dead" \/ p \in chat.reborn
=============================================================================
