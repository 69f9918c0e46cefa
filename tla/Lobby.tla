------------------------------- MODULE Lobby -------------------------------
(***************************************************************************)
(* The lobby of the R-Type game server: who is connected (PlayerManager),  *)
(* which room each player is in (GameManager, Room), and in which phase    *)
(* each room is.                                                           *)
(*                                                                         *)
(* One thread, the game thread, runs GameManager::run: each tick handles   *)
(* the packets received, updates every room, announces the games that have *)
(* ended and drops the players that went silent.  The HTTP thread of the   *)
(* admin API acts on the same objects in between (ForceEnd, Kick).         *)
(*                                                                         *)
(* Abstractions.  The contents of the network queue is not a variable: in  *)
(* its first phase a tick handles any finite sequence of packets from any  *)
(* endpoint.  A time stamp is reduced to what a comparison with the clock  *)
(* says of it: lastSeen to membership in silent, m_gameStartTime to the    *)
(* choice of due in UpdateGame.  Positions, enemies, scores and snapshots  *)
(* are left out; the engine is reduced to which players' ships are alive.  *)
(* A packet that is answered by a refusal and changes nothing else is a    *)
(* stuttering step.                                                        *)
(***************************************************************************)
EXTENDS Integers, FiniteSets

CONSTANTS
    Endpoints,     \* UDP source addresses (ip:port)
    RawNames,      \* nicknames, as CONNECT packets carry them
    Sanitized,     \* raw nickname |-> validateAndSanitizeNickname of it
    TooShort,      \* the sanitised nicknames of fewer than 3 characters
    Folded,        \* sanitised nickname |-> the same in lower case
    Capacities,    \* values of RoomConfig.maxPlayers in CREATE_ROOM packets
    MaxPlayerId,   \* bound: ids given out (nextId_ is a uint32_t in the code)
    MaxRooms       \* bound: rooms created (a room is never destroyed)

Names == {Sanitized[n] : n \in RawNames}

PlayerIds == 1..MaxPlayerId

\* The k-th room created has id 10 * k - 9 (m_rooms.back()->getId() + 10): the
\* model names it k.
RoomIds == 1..MaxRooms

ASSUME NameTables ==
    /\ Sanitized = [n \in RawNames |-> Sanitized[n]]
    /\ Folded = [n \in Names |-> Folded[n]]
    /\ TooShort \subseteq Names

ASSUME CapacitiesAreBytes == Capacities \subseteq 0..255

ASSUME BoundsAreNat == MaxPlayerId \in Nat /\ MaxRooms \in Nat

\* roomOf, for a player that is in no room: nullptr in m_playerToRoomMap, or no
\* entry there at all.
InLobby   == 0
Untracked == -1

NoName == "no name"
ASSUME NoNameIsNoName == NoName \notin Names

Phases == {"none", "WAITING", "STARTING", "PLAYING", "GAME_OVER", "FINISHED"}
Live   == {"STARTING", "PLAYING"}
Stages == {"lobby", "waiting", "playing", "over"}

VARIABLES
    step,      \* what the game thread's tick does next
    idOf,      \* players_: endpoint |-> id of the player there, 0 if none
    nickOf,    \* players_: endpoint |-> nickname of the player there
    nextId,    \* nextId_
    silent,    \* endpoints whose lastSeen is more than 130 s old
    roomOf,    \* m_playerToRoomMap
    nRooms,    \* number of rooms in m_rooms
    cap,       \* m_config.maxPlayers of each room
    crew,      \* m_players of each room: a set of (id, endpoint) pairs
    alive,     \* player_entity_set of each room's engine
    phase,     \* m_currentState of each room; "none" before it is created
    toldRoom,  \* the room the messages sent to an endpoint put it in, 0 if none
    told       \* the stage of the game those messages announced

registry == <<idOf, nickOf, nextId>>
rooms    == <<nRooms, cap, crew, alive, phase>>
views    == <<toldRoom, told>>
vars     == <<step, registry, silent, roomOf, rooms, views>>

Seat == [id : PlayerIds, ep : Endpoints]

TypeOK ==
    /\ step \in {"inputs", "update", "events", "cleanup"}
    /\ idOf \in [Endpoints -> PlayerIds \cup {0}]
    /\ nickOf \in [Endpoints -> Names \cup {NoName}]
    /\ nextId \in 1..(MaxPlayerId + 1)
    /\ silent \subseteq Endpoints
    /\ roomOf \in [PlayerIds -> RoomIds \cup {InLobby, Untracked}]
    /\ nRooms \in 0..MaxRooms
    /\ cap \in [RoomIds -> 0..255]
    /\ crew \in [RoomIds -> SUBSET Seat]
    /\ alive \in [RoomIds -> SUBSET PlayerIds]
    /\ phase \in [RoomIds -> Phases]
    /\ toldRoom \in [Endpoints -> RoomIds \cup {0}]
    /\ told \in [Endpoints -> Stages]

Init ==
    /\ step = "inputs"
    /\ idOf = [e \in Endpoints |-> 0]
    /\ nickOf = [e \in Endpoints |-> NoName]
    /\ nextId = 1
    /\ silent = {}
    /\ roomOf = [p \in PlayerIds |-> Untracked]
    /\ nRooms = 0
    /\ cap = [r \in RoomIds |-> 0]
    /\ crew = [r \in RoomIds |-> {}]
    /\ alive = [r \in RoomIds |-> {}]
    /\ phase = [r \in RoomIds |-> "none"]
    /\ toldRoom = [e \in Endpoints |-> 0]
    /\ told = [e \in Endpoints |-> "lobby"]

-----------------------------------------------------------------------------
(* PlayerManager *)

Connected == {e \in Endpoints : idOf[e] # 0}

IdsAt(S) == {idOf[e] : e \in S} \ {0}

\* Regression: the nickname is stored as it was received.
StoredAsReceived(raw) == raw

\* setNickname stores the sanitised nickname.
StoredNickname(raw) == Sanitized[raw]

\* Regression: the comparison is sensitive to case.
NicknameAvailableExact(n) == \A e \in Connected : nickOf[e] # n

\* Regression: the nickname of a player who has gone silent counts as free.
NicknameAvailableOfSilent(n) ==
    \A e \in Connected \ silent : Folded[nickOf[e]] # Folded[n]

\* Comparison with the nickname of every connected player, in lower case.
NicknameAvailable(n) ==
    \A e \in Connected : nickOf[e] # NoName => Folded[nickOf[e]] # Folded[n]

Forget(S) ==
    /\ idOf' = [e \in Endpoints |-> IF e \in S THEN 0 ELSE idOf[e]]
    /\ nickOf' = [e \in Endpoints |-> IF e \in S THEN NoName ELSE nickOf[e]]
    /\ silent' = silent \ S
    /\ UNCHANGED nextId

-----------------------------------------------------------------------------
(* Room *)

Aboard(C, p) == \E m \in C : m.id = p

\* Room::removePlayer for every player of P, as handlePlayerLeft calls it: on
\* the room m_playerToRoomMap has for the player.
Leaving(r, P) == {p \in P : roomOf[p] = r}

\* Regression: a kick or a timeout leaves the player's seat in the room.
CrewWithoutNobody(P) == crew

CrewWithout(P) ==
    [r \in RoomIds |-> {m \in crew[r] : m.id \notin Leaving(r, P)}]

\* Regression: the ship of a player who leaves flies on.
AliveWithoutNobody(P) == alive

AliveWithout(P) ==
    [r \in RoomIds |-> alive[r] \ {p \in Leaving(r, P) : Aboard(crew[r], p)}]

\* Regression: a room that empties keeps its state.
PhaseWithoutNoEnd(P) == phase

\* A running room ends when its last player leaves.
PhaseWithout(P) ==
    [r \in RoomIds |->
        IF /\ Leaving(r, P) # {}
           /\ CrewWithout(P)[r] = {}
           /\ phase[r] \in Live
        THEN "GAME_OVER" ELSE phase[r]]

RoomOfWithout(P, where) ==
    [p \in PlayerIds |-> IF p \in P THEN where ELSE roomOf[p]]

\* Regression: isFull lets one player too many in.
FullLate(C, r) == Cardinality(C) > cap[r]

Full(C, r) == Cardinality(C) >= cap[r]

\* The phase of a room that was in phase f, once Room::addPlayer has made its
\* players C: a waiting room is scheduled to start when it has two.
PhaseWith(f, C) ==
    IF f = "WAITING" /\ Cardinality(C) >= 2 THEN "STARTING" ELSE f

\* Regression: a player who joins a running game is not sent GAME_STARTING.
StageOnJoinSilent(f) == "waiting"

\* What a player has been told once it is in a room that was in phase f:
\* JOIN_ROOM_RESPONSE, then GAME_STARTING if the game is under way.
StageOnJoin(f) == IF f \in Live THEN "playing" ELSE "waiting"

Members(r) == {m.ep : m \in crew[r]}

\* The stage that broadcasting GAME_STARTING to the rooms S and GAME_OVER to the
\* rooms O leaves each endpoint with.
ToldAfter(S, O) ==
    [e \in Endpoints |->
        IF \E r \in O : e \in Members(r) THEN "over"
        ELSE IF \E r \in S : e \in Members(r) THEN "playing"
        ELSE told[e]]

-----------------------------------------------------------------------------
(* MessageHandler::handleMessage, case by case.  Every packet from a known   *)
(* endpoint refreshes its activity first.                                    *)

Touched(e) == silent' = silent \ {e}

Connect(e, raw) ==
    LET n == Sanitized[raw] IN
    /\ step = "inputs"
    /\ e \notin Connected
    /\ n \notin TooShort
    /\ NicknameAvailable(n)
    /\ nextId <= MaxPlayerId
    /\ idOf' = [idOf EXCEPT ![e] = nextId]
    /\ nickOf' = [nickOf EXCEPT ![e] = StoredNickname(raw)]
    /\ nextId' = nextId + 1
    /\ roomOf' = [roomOf EXCEPT ![nextId] = InLobby]
    /\ toldRoom' = [toldRoom EXCEPT ![e] = 0]
    /\ told' = [told EXCEPT ![e] = "lobby"]
    /\ UNCHANGED <<step, silent, rooms>>

\* INPUT, LIST_ROOMS_REQUEST, a repeated CONNECT, an unknown or a malformed
\* packet: none changes anything the lobby keeps but the sender's activity.
Refresh(e) ==
    /\ step = "inputs"
    /\ e \in silent
    /\ Touched(e)
    /\ UNCHANGED <<step, registry, roomOf, rooms, views>>

Disconnect(e) ==
    LET P == {idOf[e]} IN
    /\ step = "inputs"
    /\ e \in Connected
    /\ crew' = CrewWithout(P)
    /\ alive' = AliveWithout(P)
    /\ phase' = PhaseWithout(P)
    /\ roomOf' = RoomOfWithout(P, Untracked)
    /\ Forget({e})
    /\ UNCHANGED <<step, nRooms, cap, views>>

LeaveRoom(e) ==
    LET P == {idOf[e]} IN
    /\ step = "inputs"
    /\ e \in Connected
    /\ crew' = CrewWithout(P)
    /\ alive' = AliveWithout(P)
    /\ phase' = PhaseWithout(P)
    /\ roomOf' = RoomOfWithout(P, InLobby)
    /\ Touched(e)
    /\ toldRoom' = [toldRoom EXCEPT ![e] = 0]
    /\ told' = [told EXCEPT ![e] = "lobby"]
    /\ UNCHANGED <<step, registry, nRooms, cap>>

\* The creator leaves its room, then enters the new one, if that one has any
\* seat at all: the answer says success, and the map the room, either way.
CreateRoom(e, k) ==
    LET p == idOf[e]
        r == nRooms + 1
        C == IF k > 0 THEN {[id |-> p, ep |-> e]} ELSE {}
    IN
    /\ step = "inputs"
    /\ e \in Connected
    /\ nRooms < MaxRooms
    /\ nRooms' = r
    /\ cap' = [cap EXCEPT ![r] = k]
    /\ crew' = [CrewWithout({p}) EXCEPT ![r] = C]
    /\ alive' = [AliveWithout({p}) EXCEPT ![r] = {m.id : m \in C}]
    /\ phase' = [PhaseWithout({p}) EXCEPT ![r] = "WAITING"]
    /\ roomOf' = [roomOf EXCEPT ![p] = r]
    /\ Touched(e)
    /\ toldRoom' = [toldRoom EXCEPT ![e] = r]
    /\ told' = [told EXCEPT ![e] = "waiting"]
    /\ UNCHANGED <<step, registry>>

\* The player has left its own room when the target is looked at, so a player
\* alone in a running room ends that room by asking to join it again.
Joinable(p, r) ==
    /\ r \in 1..nRooms
    /\ ~Full(CrewWithout({p})[r], r)
    /\ PhaseWithout({p})[r] \in {"WAITING"} \cup Live

JoinRoom(e, r) ==
    LET p == idOf[e]
        C == CrewWithout({p})[r] \cup {[id |-> p, ep |-> e]}
        f == PhaseWithout({p})[r]
    IN
    /\ step = "inputs"
    /\ e \in Connected
    /\ Joinable(p, r)
    /\ crew' = [CrewWithout({p}) EXCEPT ![r] = C]
    /\ alive' = [AliveWithout({p}) EXCEPT ![r] = @ \cup {p}]
    /\ phase' = [PhaseWithout({p}) EXCEPT ![r] = PhaseWith(f, C)]
    /\ roomOf' = [roomOf EXCEPT ![p] = r]
    /\ Touched(e)
    /\ toldRoom' = [toldRoom EXCEPT ![e] = r]
    /\ told' = [told EXCEPT ![e] = StageOnJoin(f)]
    /\ UNCHANGED <<step, registry, nRooms, cap>>

\* A refused player has lost the room it was in.
JoinRefused(e, r) ==
    LET p == idOf[e] IN
    /\ step = "inputs"
    /\ e \in Connected
    /\ ~Joinable(p, r)
    /\ crew' = CrewWithout({p})
    /\ alive' = AliveWithout({p})
    /\ phase' = PhaseWithout({p})
    /\ roomOf' = RoomOfWithout({p}, InLobby)
    /\ Touched(e)
    /\ toldRoom' = [toldRoom EXCEPT ![e] = 0]
    /\ told' = [told EXCEPT ![e] = "lobby"]
    /\ UNCHANGED <<step, registry, nRooms, cap>>

-----------------------------------------------------------------------------
(* The rest of the tick *)

EndInputs ==
    /\ step = "inputs"
    /\ step' = "update"
    /\ UNCHANGED <<registry, silent, roomOf, rooms, views>>

Playing == {r \in RoomIds : phase[r] = "PLAYING"}

Starts(due) == {r \in due : phase[r] = "STARTING"}

\* Engine::hasLost: no player's ship is left.
Lost(killed) == {r \in Playing : alive[r] \subseteq killed}

\* Room::update of every room.  due: the starting rooms whose delay of 500 ms is
\* over; killed: the players whose ship the engine destroys in this tick.
UpdateGame(due, killed) ==
    /\ step = "update"
    /\ step' = "events"
    /\ alive' = [r \in RoomIds |-> IF r \in Playing THEN alive[r] \ killed ELSE alive[r]]
    /\ phase' = [r \in RoomIds |->
                    IF r \in Starts(due) THEN "PLAYING"
                      ELSE IF r \in Lost(killed) THEN "GAME_OVER"
                      ELSE phase[r]]
    /\ told' = ToldAfter(Starts(due), Lost(killed))
    /\ UNCHANGED <<registry, silent, roomOf, nRooms, cap, crew, toldRoom>>

PhaseAnnounced(r) == IF phase[r] = "GAME_OVER" THEN "FINISHED" ELSE phase[r]

BroadcastGameEvents ==
    /\ step = "events"
    /\ step' = "cleanup"
    /\ phase' = [r \in RoomIds |-> PhaseAnnounced(r)]
    /\ told' = ToldAfter({}, {r \in RoomIds : phase[r] = "GAME_OVER"})
    /\ UNCHANGED <<registry, silent, roomOf, nRooms, cap, crew, alive, toldRoom>>

\* Every 35 s: PlayerManager forgets the silent players, then each of them goes
\* through handlePlayerDisconnect.
CleanupPlayers ==
    LET P == IdsAt(silent) IN
    /\ step = "cleanup"
    /\ step' = "inputs"
    /\ crew' = CrewWithout(P)
    /\ alive' = AliveWithout(P)
    /\ phase' = PhaseWithout(P)
    /\ roomOf' = RoomOfWithout(P, Untracked)
    /\ Forget(silent)
    /\ UNCHANGED <<nRooms, cap, views>>

\* The last cleanup is less than 35 s ago.
SkipCleanup ==
    /\ step = "cleanup"
    /\ step' = "inputs"
    /\ UNCHANGED <<registry, silent, roomOf, rooms, views>>

-----------------------------------------------------------------------------
(* Time, and the admin thread *)

GoSilent(e) ==
    /\ e \in Connected \ silent
    /\ silent' = silent \cup {e}
    /\ UNCHANGED <<step, registry, roomOf, rooms, views>>

\* GameManager::forceEndRoom stores GAME_OVER whatever the state of the room.
ForceEnd(r) ==
    /\ r \in 1..nRooms
    /\ phase' = [phase EXCEPT ![r] = "GAME_OVER"]
    /\ UNCHANGED <<step, registry, silent, roomOf, nRooms, cap, crew, alive, views>>

\* GameManager::kickPlayer: the player leaves GameManager's maps and its room,
\* without a message to it, and stays connected in PlayerManager.
Kick(p) ==
    /\ crew' = CrewWithout({p})
    /\ alive' = AliveWithout({p})
    /\ phase' = PhaseWithout({p})
    /\ roomOf' = RoomOfWithout({p}, Untracked)
    /\ UNCHANGED <<step, registry, silent, nRooms, cap, views>>

-----------------------------------------------------------------------------

HandlePacket(e) ==
    \/ \E raw \in RawNames : Connect(e, raw)
    \/ Refresh(e)
    \/ Disconnect(e)
    \/ LeaveRoom(e)
    \/ \E k \in Capacities : CreateRoom(e, k)
    \/ \E r \in RoomIds : JoinRoom(e, r)
    \/ \E r \in RoomIds : JoinRefused(e, r)

Tick ==
    \/ EndInputs
    \/ \E due \in SUBSET RoomIds, killed \in SUBSET PlayerIds : UpdateGame(due, killed)
    \/ BroadcastGameEvents
    \/ CleanupPlayers
    \/ SkipCleanup

Admin ==
    \/ \E r \in RoomIds : ForceEnd(r)
    \/ \E p \in PlayerIds : Kick(p)

Next ==
    \/ \E e \in Endpoints : HandlePacket(e) \/ GoSilent(e)
    \/ Tick
    \/ Admin

Spec == Init /\ [][Next]_vars

-----------------------------------------------------------------------------
(* Properties *)

\* PlayerManager, m_playerToRoomMap and every room's m_players tell the same
\* story: a seat belongs to a player connected from the endpoint the room sends
\* to, and the room the map has for a player is the one whose seat it holds,
\* unless that room was created without any.
MembershipAgrees ==
    /\ \A r \in RoomIds : \A m \in crew[r] : idOf[m.ep] = m.id /\ roomOf[m.id] = r
    /\ \A p \in PlayerIds : roomOf[p] \in RoomIds =>
            Aboard(crew[roomOf[p]], p) \/ cap[roomOf[p]] = 0

\* No room exceeds its capacity, a waiting room has not yet the two players that
\* start it, no room runs without players, and only a created room has any.
RoomPopulation ==
    \A r \in RoomIds :
        /\ Cardinality(crew[r]) <= cap[r]
        /\ phase[r] = "WAITING" => Cardinality(crew[r]) <= 1
        /\ phase[r] \in Live => crew[r] # {}
        /\ phase[r] = "none" <=> r > nRooms
        /\ phase[r] = "none" => crew[r] = {}

\* Two connected players differ in id and in folded nickname, an id is never
\* given twice, and GameManager tracks connected players only.
UniqueIdentity ==
    /\ \A e, f \in Connected : e # f =>
            idOf[e] # idOf[f] /\ Folded[nickOf[e]] # Folded[nickOf[f]]
    /\ \A e \in Connected : idOf[e] < nextId /\ nickOf[e] \in Names \ TooShort
    /\ \A p \in PlayerIds : roomOf[p] # Untracked => p \in IdsAt(Endpoints)

\* The engine of a room flies ships of the room's players only, and until the
\* game runs every player of the room has one.
ShipsMatchCrew ==
    \A r \in RoomIds :
        LET ids == {m.id : m \in crew[r]} IN
        /\ alive[r] \subseteq ids
        /\ phase[r] \in {"WAITING", "STARTING"} => alive[r] = ids

\* If no datagram is lost, the messages a client was sent put it where the
\* server has it: in the lobby, or in its room and at that room's stage, however
\* it came there.  (A kick sends nothing: a kicked client is not covered; nor is
\* the end of a room for its creator, if it has no seat there.)
ClientsKnow ==
    \A e \in Connected :
        LET r == roomOf[idOf[e]] IN
        /\ r = InLobby => toldRoom[e] = 0 /\ told[e] = "lobby"
        /\ r \in RoomIds =>
            /\ toldRoom[e] = r
            /\ phase[r] = "WAITING"  => told[e] = "waiting"
            /\ phase[r] = "STARTING" => told[e] \in {"waiting", "playing"}
            /\ phase[r] = "PLAYING"  => told[e] = "playing"
            /\ phase[r] = "FINISHED" /\ cap[r] > 0 => told[e] = "over"

StageOf(r) ==
    IF phase[r] = "none" THEN "none"
    ELSE IF phase[r] = "WAITING" THEN "open"
    ELSE IF phase[r] \in Live THEN "live"
    ELSE "over"

Service == INSTANCE RoomService
    WITH Rooms   <- RoomIds,
         Players <- PlayerIds,
         stage   <- [r \in RoomIds |-> StageOf(r)],
         aboard  <- [r \in RoomIds |-> {m.id : m \in crew[r]}]

\* The lobby implements RoomService.
ImplementsService == Service!Spec

\* What the chat thread reads of the lobby: the nickname of each id in
\* PlayerManager, and the room m_playerToRoomMap has for it.
NickSeen ==
    [p \in PlayerIds |->
        IF \E e \in Endpoints : idOf[e] = p
        THEN nickOf[CHOOSE e \in Endpoints : idOf[e] = p]
        ELSE NoName]

RoomSeen == [p \in PlayerIds |-> IF roomOf[p] \in RoomIds THEN roomOf[p] ELSE InLobby]

Players == INSTANCE PlayersOnline
    WITH Nicks <- Names, Unnamed <- NoName, Rooms <- RoomIds, NoRoom <- InLobby,
         MaxId <- MaxPlayerId, nick <- NickSeen, roomOf <- RoomSeen

\* The players change in no other way than Chat reckons with: no id comes back, no
\* name is given to a second player while the first is there, and only a player
\* who is connected enters a room.
ProvidesPlayers == Players!PlayersSpec

=============================================================================
