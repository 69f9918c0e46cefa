# A TLA+ model of the R-Type server and its clients

The program under `src/rtype/` is a multiplayer R-Type: a server that keeps
players, rooms and one game engine per room, and a raylib client. This directory
holds the TLA+ modules that model it, the TLC configurations that check them, and
the theorems about them that TLAPS proves. `PROJECT.json` lists the components,
the runs, the theorems and, for each definition, the lines of code it translates.

Run TLC with `tlc -config X.cfg M` and TLAPS with `tlapm M.tla` in this
directory; both need the TLA+ community modules in their library path.

## 1. Inventory

### The server: four threads over shared objects

    UDP socket --> network thread --> ThreadSafeQueue --> game thread
                   (asio)                                 GameManager::run, 60 Hz
    admin HTTP --> httplib threads -- call GameManager directly --^
    TCP chat   --> chat thread (poll loop) -- reads GameManager's maps

| part | state it keeps | operations | what makes it correct |
|---|---|---|---|
| `PlayerManager` | `players_`: endpoint -> id, nickname, lastSeen; `nextId_` | add, remove, sweep of the silent (130 s), nickname rules, lookups | one id and one name (up to case) per connected player, ids never given twice |
| `MessageHandler` | none | one case per packet type | each request changes what it names and nothing else |
| `GameManager` | `m_rooms`, `m_idToRoomMap`, `m_playerToRoomMap` | tick; create, join, leave, disconnect; broadcasts; force_end, kick | map, rooms and registry agree; each client is told what happens to it |
| `Room` | `m_players`, atomic `m_currentState`, an `Engine` | addPlayer, removePlayer, update, setState | WAITING -> STARTING -> PLAYING -> GAME_OVER -> FINISHED, never running empty |
| `Engine`, `registry` | entities by kind, cooldowns, scores | input, movement, AI, shots, collisions, kills, scores | a score is what was shot; ids stay unique; lost means no ship |
| `ChatServer`, `ChatManager` | `_id_tables`, `_users`; fd <-> player maps, one mutex | poll loop, connect, message, hang-up, broadcast | a line reaches the room of the player who wrote it, under its name |
| `AdminAPI` | an HTTP server | GETs, force_end, kick, shutdown | what it answers is true |
| `ScoreFileWriter` | JSON files | write aside, rename | a reader never sees half a file |
| `main` | `g_running`, threads | start, signals, joins, crash and restart | the process ends when asked to, and destroys nothing that is in use |
| `MessageFactory`, `serialize()` | none | one structure per packet type, on both sides | what one side writes the other reads |

### The client: two threads over `GameClient::m_state`

The network thread decodes datagrams and calls `GameClient`'s handlers; the UI
thread reads the keyboard, sends requests and sets the state directly. States:
ENTERING_NICKNAME, CONNECTING, LOBBY, CREATING_ROOM, WAITING_IN_ROOM, PLAYING,
GAME_OVER. It keeps the entities it was sent (`networkIdToEntityMap`) and a chat
client over TCP.

### Interactions that are hard

* The HTTP threads change rooms, maps and states the game thread is using;
  `m_roomsMutex` is taken by `forceEndRoom` alone.
* A request is several changes (leave the old room, look at the new one, enter
  it, answer, notify), and the map, the room, the engine and the client must
  agree after each.
* Every datagram is sent once; neither side repeats or numbers it.
* The client's two threads both read and set `m_state`, and both touch its registry.
* `ChatManager` locks its mutex in its callbacks and again in the helper that all
  its broadcasts use.
* A file descriptor, an entity index, a nickname is given out again after use
  while tables elsewhere still hold it.
* The game can be lost by an enemy, a leave, a kick or a timeout, and ended by
  the administrator at any point of these.
* A file of scores is written in steps that fail one by one, by a process that may
  die between them, while the admin API reads; the next process finds what is left.
* `main` joins its threads in one fixed order, whichever of them has failed.
* Sizes are announced, allocated and demanded in three places for each packet, and
  each side converts the byte order of the ids it thinks the other converts.

`PROJECT.json` lists them as hazards, each at its line, with the properties that
cover it or what is planned.

## 2. Modules

| module | models | uses |
|---|---|---|
| `RoomService` | abstract: what the server promises about its rooms | |
| `PlayersOnline` | abstract: the players, their names and rooms, as the chat thread sees them change | |
| `RoomGame` | abstract: which entities a room's game has, at which indices, under which ids | |
| `Lobby` | `PlayerManager`, `MessageHandler`, `GameManager`, membership and phases of `Room`, force_end and kick | implements `RoomService` and `PlayersOnline` |
| `RoomRace` | one room, every load and store of its state, against forced ends | single steps of `Lobby`; takes the steps of `RoomService` |
| `Chat` | `runChatThread`, `ChatServer`, `ChatManager`, over changing players | extends `PlayersOnline` |
| `Wire` | the packets: what `serialize()` writes and what the factory makes of it, for every type in use | |
| `Session` | one client (UI thread, network thread) and the server's handlers of its requests, over two channels | extends `Wire`; the handlers of `Lobby`, seen by one client |
| `Engine` | `Engine::update` and the entity registry, from the first ship to the scores | implements `RoomGame` |
| `Snapshots` | the entities of a room, cut and sent over UDP, and the client's copy of them | extends `RoomGame` |
| `ScoreFiles` | `ScoreFileWriter`, the scores of games that end, GET scores | |
| `ServerProcess` | `main`, its threads, signals, stops over HTTP, crash and restart | extends `ScoreFiles`, which its game and HTTP threads run |
| `LobbyProofs`, `RoomRaceProofs`, `ChatProofs`, `EngineProofs`, `SnapshotsProofs`, `WireProofs`, `SessionProofs`, `ServerProcessProofs` | theorems | each extends its module; `SessionProofs` also `WireProofs` |
| `MCLobby`, `MCRoomRace`, `MCSession`, `MCChat` | definitions for TLC: names, lines, symmetries | |

Two pairs of components are joined by what one shows the other. `PlayersOnline` is the
players as the chat thread reads them: `Chat` is built on it and `Lobby` implements it
(`ProvidesPlayers`). `RoomGame` is a room's game as its snapshots show it: `Snapshots` is
built on it and `Engine` implements it (`ImplementsGame`). So what is shown of `Chat` and
`Snapshots`, over everything their abstract half may do, holds over the lobby and the
engine that run under them.

### Lobby

Variables, by the code they stand for: `idOf`, `nickOf`, `nextId` (`players_`,
`nextId_`); `silent` (which lastSeen is older than 130 s); `roomOf`
(`m_playerToRoomMap`: a room, `InLobby` for nullptr, `Untracked` for no entry);
`nRooms`, `cap`, `crew`, `alive`, `phase` (per room: `maxPlayers`, `m_players`,
the engine's ships, `m_currentState`); `step`, where the tick is; `toldRoom` and
`told`, the history of the messages sent to each endpoint, as the room and the
stage of the game they put a client at that loses none of them.

A tick is `inputs` (any sequence of packets, one action each), `update`, `events`,
`cleanup`. The handlers are whole: `JoinRoom` leaves the old room, looks at the
target as that leaves it, answers, seats the player, schedules the start, and sends
GAME_STARTING if the game is under way. `ForceEnd` and `Kick` may come between any
two steps; that they may also fall inside one is the subject of `RoomRace`.

`UpdateGame(due, killed)`: the 500 ms of a starting room are over or not (`due`),
and the engine destroys any set of ships (`killed`). `hasLost` is the engine's: no
ship left. Rooms are named by the order of creation (the code's ids are 1, 11,
21, ...).

`LeaveRoom` is the handler of LEAVE_ROOM_REQUEST. The client of this repository
cannot reach it, because the packet it sends is refused as malformed
(`protocol.cpp:217`, `factory.cpp:16`); the handler is modelled for clients that
send what the factory accepts.

A room may have no seat: `isFull` is true at once, so its creator is answered that it
is in the room, the map says so too, and the room has no member. The module has such
rooms (`Capacities` with 0), and the properties say what holds of them.
Seen on the way: the client's default is `maxPlayers = 0`, with the comment
"4 joueurs" (`GameClient.cpp:414`, also `protocol_data.hpp:160`), and the room list
says 4 of every room; a player who creates a room without choosing a size waits alone
in a room that nobody can enter.

The two repeated broadcasts of GAME_OVER at a natural end (`room.cpp:205`,
`GameManager.cpp:146`) are both there: they put a client at the same stage.

### RoomRace

`gpc` is the place of the game thread between the loads and stores of
`m_currentState` in `addPlayer`, `removePlayer`, `update` and
`broadcastGameEvents`. The HTTP thread's only step is the store of GAME_OVER. Kicks
are not here: two threads changing `m_players`, an unordered_map, at once is
undefined behaviour, of which nothing can be said. The liveness of rooms is checked
here, where the steps are the smallest.

`Undo` is what the race costs, and `ServesUnlessUndone` says that it costs nothing else:
every other step is one of `RoomService`, as in `Lobby`. `OverForGood` says which ends can
be undone: those forced while the game thread is between the load and the store of
`addPlayer`'s schedule or of `update`'s start.

### Chat

`players` (of `PlayersOnline`) is the game thread's and changes at any time.
`cleanupPlayers` forgets all silent players and only then empties their seats, one by
one, so that a player may be in a room and in no registry (`Go`).

The thread's table, the usernames, both maps, and `todo`: the entries that the last poll
found ready and the loop, going down from the end, has not visited. The messages pending
on a connection are counted, and a read takes any number of them as one line, any of
`Lines`: TCP keeps no boundaries, so it need not be a line that was sent. `NicknameIn`
is what the loop makes of it, up to the first " joined" (the constant `Cut`). The loop
comes to the listening socket last in every round, and whether somebody waits there is
decided then. At `pc = "getFd"` the thread waits for a mutex it holds, and has no step: on
the platforms the server builds for, locking a default mutex twice blocks.

`ChatServer` reports a new name as a line by the user "System", and the loop tells reports
from messages by that name alone. So a client that calls itself "System" has each of its
lines taken for a report (`ByTheSystem`): each maps its descriptor anew, and
`m_playerIdToFd` keeps the entries of the players it named before, even when the
descriptor is closed and given to somebody else. The two safety properties say how far
that goes. `SpeaksInTheNameItGave` excepts the connections of these clients, and
`OnlySystemLeadsAstray` says that no step but such a line makes the map of a player lead
to a connection that is not its own. And a name is cut where it holds " joined" itself: the
client of a player named "ana joined" speaks as ana, if there is one.

Seen on the way: `getNickname` never returns an empty name (`PlayerManager.cpp:162`), so
the check of `handleMessage` (`ChatManager.cpp:72`) refuses nobody: a line read between the
two halves of a cleanup is sent to the room under "Joueur" and the id.

### Session

`state` is `m_state`, `myRoom` `m_currentRoomId`; `ui` and `net` say what each of the
client's threads is about to do, so that every load, store and send is a step.
`Press` reads the state and picks a key it answers to; what follows was decided by
that read, whatever the network thread has set since. The server handles a request
in one step, with the answers `Lobby` gives; other players come, go and start
games, and the administrator ends them. Every message is a packet of `Wire`:
`Accepted` are those the receiver's factory takes, `RoomRead` is the room it reads in
them, so that LEAVE_ROOM_REQUEST is dropped here because of the sizes `Wire` has for
it, not because the module says so.

The channels keep everything in order. Over UDP they do not; but the lobby's messages
are sent once and never confirmed, so no statement about the client's screen survives
a loss, and the module asks what the threads alone can do.

Two things seen on the way that no property states: CREATE_ROOM is sent before
CONNECTING is set (`Game.cpp:597`), so an answer handled in between is overwritten and
the client stays at CONNECTING, in a room (`RoomIsKnown` speaks of the room's number only,
`ScreenIsTrue` of the screens that show a room); and `handleGameStarting` compares, then sets
(`GameClient.cpp:303`), so once LEAVE_ROOM is carried out a client that leaves just then
would show a game it is not in. With LEAVE_ROOM refused, it still is in it, and
`ScreenIsTrue` holds.

### Wire

Pure: no variables. A row of `Written` is what a type's `serialize()` announces in its
header, how large its buffer is and which ids it converts to network order; a row of
`Read` is the least size the factory demands, the size it copies and the ids it converts
back. `Serialize` and `Deserialize` are these rows on a message; an id that only one of
them converts is `Garbled`. Lists have operators of their own: `SerializeRoomList` counts
in one byte and sizes its buffer by that count, but writes every room;
`SerializeSnapshot` announces its length in two bytes, and the length counts scores
that it does not write.

Seen on the way: "Limite à 255 rooms max" (`lobby_protocol.cpp:38`) is a comment, and
the 256th room is written beyond a buffer made for none.

### ScoreFiles and ServerProcess

`file` and `tmp` are the two files of scores and their temporary files, as whose scores
they hold and how much of the text: begun (`cut`), over but short because the disk was
full, or whole. The game thread opens, fills and renames, each step may fail, and
`NextFile` goes on to the second file whatever the first one came to, because the caller
ignores the answer. `MatchFile` names the second file by the second at which the clock
was read once.

`main` is where `main()` is; `net`, `game`, `chat`, `admin` are its threads, `sleeper` what
POST /admin/shutdown detached. A signal is one step, and a second one calls `exit`;
`Killed` is a crash at any point, after which `Restart` is the next process, over the
files it finds. `Waited` is `waitForThreadWithTimeout`: it looks for five seconds at
`joinable()`, which stays true until the join, and then joins without a limit, so what
the name promises never happens; it is also why nothing is destroyed too early.
Assumed: the admin API's thread listens by the time somebody stops it.

Seen on the way: a signal before `g_io_context_ptr` is set clears the flag only, and main
waits for a network thread that nothing stops until a second signal; the thread that POST
shutdown detaches may wake after the components are gone; with the chat thread locked up
main waits in its first join.

### Engine

`entity`, `next`, `dead` are the registry (indices killed are used again from the
back), `fleet` and `shipOf` the set and the map of ships, three counters give the
network ids. `Engine::update` runs as the loops it is made of (`at`, `cursor`): shots,
bullets off the screen, deaths, pairs that collide. Positions, controls, experience
are left out: which ship fires and which pairs are close is a choice, made in the
loops' order. A packet falls between updates, a forced end anywhere.

Seen on the way: two bullets that hit an enemy's last health in one update are both
paid; enemies that leave the screen stay; the ids of orbs reach those of bullets after 50
orbs, those of bullets the enemies' after 900 shots, and those of players the orbs' after
49 connections, since the server gives no id twice. `NetworkIdsDiffer` says that nothing
else has two entities share an id; `ImplementsGame` is proved of the time before that.

### Snapshots

`world` is what `Room::getSnapshot` reads, an id and a type at each index; `flying` the
datagrams on their way; `map` and `local` the client's `networkIdToEntityMap` and
registry; `shown` the snapshot it applied last. `Broadcast` is `broadcastSnapshots`
with its cut at 40; `Deliver` and `DeliverCopy` hand a datagram, once or more often, in
any order, to `updateFromServer`. The room and its entities are those of `RoomGame`,
whose steps are one entity's each; the loops of `Engine::update` are any number of them.
The administrator may end the game at any point, in the middle of an update included. A lost
datagram needs no action: it is as if it had never been sent, since `Broadcast`
changes nothing else.

Places, velocities and levels, which each snapshot overwrites, are left out; so are the
three ranges of network ids (`Engine` has them). One assumption is the model's and
not the code's: a game's snapshots are gone when the client enters its next game. They
carry neither a number nor a room, and every game counts its ids anew. And one step is left
out: an answer to a request for a room that arrives when the game has begun
(`GameClient.cpp:236`; two requests, or datagrams out of order) takes the client to the
waiting room or the lobby without `cleanupGameEntities`, and what it has of the game is
still there in its next one. In the model it leaves by the user's keys only.

Seen on the way: the health that snapshots carry is read by the factory and then
ignored by `updateFromServer` (`GameClient.cpp:131` says they do not carry it), so the
screen shows 100 for good; a player who joins later may have its own ship beyond the
cut; the score in `entity_state` is not sent. `broadcastDeltaSnapshot`, the only source
of deltas, is called by nothing.

## 3. Runs

| run | result | shows |
|---|---|---|
| `lobby_moves` | pass, 1.3 million states | two players with five spellings of four names, two rooms of 0, 1 or 2 seats: `TypeOK`, `UniqueIdentity`, `MembershipAgrees`, `RoomPopulation`, `ShipsMatchCrew`, `ClientsKnow`, `ImplementsService`, `ProvidesPlayers` |
| `room_race` | pass, 15 000 states | two forced ends anywhere: `PlayersFollow`, `NoGameWithoutPlayers`, `OverForGood`, `ServesUnlessUndone`; with fairness `EndsAreProcessed`, `StartingEnds`, `LostGamesEnd` |
| `force_end` | violation | a forced end answered with success is overwritten |
| `chat` | pass, 1.1 million states | `SpeaksInTheNameItGave`, `OnlySystemLeadsAstray`; with fairness `QuittersAreRemoved` |
| `chat_lockup` | violation | a broadcast to a room never returns |
| `session` | pass, 3.7 million states | `ScreenIsTrue`, `RoomIsKnown` |
| `leave` | violation | the client is in its lobby, the server keeps it in the room |
| `engine` | pass, 1.2 million states | `IndexHasOneOwner`, `FleetAgrees`, `NetworkIdsDiffer`, `PointsGoToTheShooter`, `KillsInOrderArePaid`, `ImplementsGame` |
| `kill_scores` | violation | a bullet with a higher index than the enemy is paid for to nobody |
| `final_scores` | violation | a lost game's scores are written without its players |
| `snapshots` | pass, 415 000 states | `ScreenIsASnapshot`, `FoundersAreSent`; with fairness `ScreenFollows` |
| `process` | pass, 1.5 million states | `ReadsAreFinished`, `MatchesAreFiled`, `FilesMoveForward`, `DestroyedLast`; with fairness `StopsWhenAsked` |

Each violation is a finding of `PROJECT.json`, with the line of the documentation it
contradicts.

Bounds. `lobby_moves`: two endpoints and two rooms give every pair of roles a request
has: the mover and the one who stays, the room left and the room entered; ids up to 2
let an endpoint reconnect under a new id while the old one's traces could remain; the
capacities 0, 1 and 2 make a room that seats nobody, or is full, or can start; the names
differ by case, by blanks, by length. `room_race`: three players make a join to a
running room with others in it, two forced ends one that is undone followed by one that
is not. `chat`: two descriptors and two ids make the reuse of either by the other's
owner; the lines are the two names, one with a " joined" to cut and the other "System",
and the empty line; one pending message is enough, because the line it is read as may be
any of these (`chat_lockup` has two). `session`: two rooms make a move, two
requests and three replies under way make every order of an answer, an announcement and
the next request; two seats make rooms full with one other player. `engine`: two ships,
two bullets, an enemy and its orb: indices are reused by another kind, within an update
and after; a bullet comes before and after the enemy. `snapshots`: three ids of which
two fit, two datagrams under way, which is a late one and a newer one; with a second
body, which may take the place of the first, liveness is out of reach: that an entity
replaces another is in `engine`, where `ImplementsGame` has it, and in the theorems.
`process`: two games that end in one second or in two, so that a file is replaced by one
of the same name and by the next; a second process finds what the first one left. The
theorems hold without these bounds.

Fairness. `RoomRace`: the game thread keeps going (`WF`), because a tick handles only
the packets queued when it began (`popAll`) and then goes on; an update is reached
again and again (`SF`), and finds a starting room due in the end (`SF`), because its
delay is 500 ms by the clock. `Chat`: the thread runs (`WF`), no client is assumed to do
anything. `Session`: the threads run; their fairness is strong because a full channel,
which only the bounds know, must not stop them for ever. `Engine`: the loops of an
update run (`WF`). `Snapshots`: a game that goes on gets a snapshot through in the end
(`SF(Broadcast)`), the usual assumption on a lossy channel, and what is under way
arrives or is lost (`WF(Deliver)`); a lost game is ended by its next update.
`ServerProcess`: the threads run and disks answer, a detached thread wakes (`WF` of each);
nobody has to send a signal, no game has to end, no thread has to fail, and nothing
makes a locked-up chat thread go on.

`CHECK_DEADLOCK FALSE`: in `chat` and `chat_lockup` the thread really stops; in
`session` and `leave` the client's process may end; in `engine`, `kill_scores` and
`final_scores` the game does; in `process` the last process has ended.

## 4. Theorems

All hold for every value of the constants that the named assumptions of the modules
allow. The invariant that is inductive is given with each.

`LobbyProofs`, from: the tables of names are functions on the names, capacities are
bytes.

* `TypeCorrect`: `Spec => []TypeOK`. One step per action; the departures of
  players, which six actions share, are typed in `WithoutTypes`.
* `IdentitiesUnique`: `Spec => []UniqueIdentity`, inductive together with
  `TypeOK`: a new id is larger than all given, a new name was compared with every
  connected one, and an entry of the map goes when its player does. The six ways
  the registry stays or shrinks are two cases (<2>2, <2>3) that the actions cite.
* `MembersAgree`: `Spec => []MembershipAgrees`, inductive with the two above and
  `Created` (nobody is in a room that has not been created). Five actions take players
  out of rooms, all of them as `Departure` of a set of ids; creating and joining put one
  in (`MembersArrive`): what is shown of these two serves all seven.
* `PopulationKept` and `ShipsKept`: `RoomPopulation` and `ShipsMatchCrew`, by
  `Members2`, one statement per room, which adds that crews are finite, so that their
  sizes mean something.
* `ClientsAlwaysKnow`: `Spec => []ClientsKnow`, from all of these: a broadcast reaches
  the players that the map has in the room, and no others (`Reached`), so what a client
  was told last is what has become of its room.
* `LobbyImplementsService`: `Spec => ImplementsService`, where `ImplementsService` is
  `RoomService` with a room's stage and the ids of its crew for its variables. `Moves`
  says what the service sees of one room in one step; `EveryStepMoves` shows it for each
  action, and `ServiceNext` that no player is then in two rooms.
* `LobbyProvidesPlayers`: `Spec => ProvidesPlayers`, where the nickname of an id is that of
  the one endpoint that has it (`NicksSeen`, from `UniqueIdentity`). Of the chat's three
  steps, `PlayerEnrols` is CONNECT, `PlayerEnters` a creation or a join, and `PlayersGo`
  every way to go: the players of a set of endpoints are forgotten, those of a set of ids
  lose their rooms, and neither set need be the other's.

`RoomRaceProofs`, for every set of players, capacity and number of forced ends:

* `PlayersAlwaysFollow`: `Spec => []PlayersFollow`. The property speaks of the
  moments at which the game thread is back at its packets; the invariant
  `ToldSoFar` adds what holds in between, for each state the thread may have loaded
  before the administrator's store.
* `NoGameIsEmpty`: `Spec => []NoGameWithoutPlayers`, by `Peopled`: a start that is
  in hand, even one that undoes a forced end, is in a room with players.
* `EndsAreForGood`: `Spec => OverForGood`. `Settled`, over with no start in hand, is
  inductive: a start is taken up only after a load that finds the room waiting or
  starting.
* `LoadsAndStoresServe`: `Spec => ServesUnlessUndone`, with `Loaded`: between a load and the
  store of a start, the state is the one loaded, or an end has been forced since.

`ChatProofs`, for any descriptors, lines, names, and any function that cuts the lines and
leaves "" and "System" as they are:

* `NamesGiven`: `Spec => []SpeaksInTheNameItGave`, with `Mapped`, what the maps hold of
  connections without a name and of one that is being removed, and `Given`, that an id
  still to come is in no map. Of the game thread it uses only that a player's name, once
  gone, stays gone (`PlayersStep`); by `LobbyProvidesPlayers` the lobby's game thread is
  one of those.
* `OnlySystemLeads`: `Spec => OnlySystemLeadsAstray`. A line leaves an entry behind only
  where the connection was mapped before (`NameLeads`), and a connection with a username
  is mapped again only if that is "System"; a hang-up takes its own entry with it
  (`HangupLeads`).

`EngineProofs`: with `IInv == TypeOK /\ IndexHasOneOwner /\ FleetAgrees /\ IdsFresh`,
`RegistrySound`, `FleetSound`, `NetworkIdsUnique`, and from it `PointsAreEarned`, that no
step raises a score but a bullet of that player. `IdsFresh` bounds every network id by
the counter of its kind; the ranges begin one above the other (`BasesAscend`), so that two
kinds can only meet where the lower has left its own, and `NetworkIdsUnique` needs no
condition on the counters.

* `KillsInOrderPaid`: `Spec => KillsInOrderArePaid`. A last hit is possible only in a meeting
  of the two (`OnlyMeetingsHurt`: no shot, no spawn, no death of another lowers a health,
  indices that are given out again included), and the meeting in the order of the loops
  pays (`HitInOrderPays`). The run `kill_scores` shows the other order.
* `EngineImplementsGame`: `Spec /\ []CountersInRange => ImplementsGame`, one lemma per action.
  The condition is needed: beyond the ranges an id comes twice, and then no id is new.
* `IdsSuffice`: `Spec => [](EnoughIds => CountersInRange)`. It says of each moment of a game
  what must have happened for the ranges to be left: more enemies than there are ids of
  orbs, more shots than ids of bullets (`Spent`: an orb takes its id in the place of an
  enemy, so the orbs given out and the enemies left are together the enemies ever spawned),
  or a player with an id of 50 or more. It does not say that a game stays there: the code
  bounds none of the three, and a server that has seen 50 connections is outside
  `CountersInRange`, hence outside what `EngineImplementsGame` says, for the games of its
  later players.

`SnapshotsProofs`, for any number of players up to the cut, bodies, datagrams, and
whatever `RoomGame` allows, of which by `EngineImplementsGame` the engine does a part as
long as its counters of ids are in their ranges:

* `TypeCorrect`, `ScreenExact` (`Spec => []ScreenIsASnapshot`). `updateFromServer` takes
  the type of an id once. So what the client has is exact only if an id shows the same
  type wherever it can be seen: in the game, under way and on the screen (`OneType`,
  `Kinds`), which needs that the ids of all these are taken, a new one being none of
  them, and that a client outside a game has been cleaned up (`Cleaned`). `MapSound` says
  that its map and its
  registry are each other's inverse. `ApplyIsExact` is `updateFromServer`.
* `FoundersShown` (`Spec => []FoundersAreSent`). Before the game an index is free, or
  the next index is below the number of players (`RoomForShip`, by counting ships);
  so a founder's ship lies below the cut, and what is given out again later does not
  move it.

`WireProofs`, from nothing but the tables of `Wire`:

* `MessagesAreUnderstood`: for each of the fourteen other types without a list, whatever
  the ids and the text, the factory reads what `serialize()` wrote (`Agree`, type by type:
  announced is allocated is demanded is copied, and the same ids are converted).
* `LeaveIsRefused`: LEAVE_ROOM_REQUEST never passes. The run `leave` shows what comes of it.
* `RoomListsAreUnderstood`, `SnapshotsAreUnderstood`: lists of up to 255 rooms, and
  snapshots of 1 to 2259 entities, are written inside their buffers and read back; the
  256th room is not; a snapshot of nothing is refused.

`SessionProofs`, for any rooms, seats, and lengths of both channels:

* `TypeCorrect`, with `NobodyBefore`: a room that is not created has no players.
* `RoomsKnown`: `Spec => []RoomIsKnown`. `Knows` speaks of the whole mail: the last answer
  in it names the client's room, or there is none and the client has it down already. That
  an answer is read as the room it was sent for is `MessagesAreUnderstood`.
* `ScreensAreTrue`: `Spec => []ScreenIsTrue`. The property speaks of quiet moments only.
  The invariant `InTheEnd` is about all: every message but GAME_STARTING decides on the
  screen whatever that was, so the last of them in the mail, or the screen and the step of
  the network thread if there is none, says what the client will come to show, and
  that is already true of the server. The user's keys only lead to screens that show no
  room. It needs that LEAVE_ROOM_REQUEST is dropped (`LeaveIsDropped`): with a sound
  packet the screen could be wrong after `handleGameStarting`'s compare and set.

`ServerProcessProofs`, for any number of games, seconds and restarts:

* `OnlyFinishedReads`, `EachMatchFiled`, `FilesNeverGoBack` by `FilesInv`: a temporary file
  belongs to the game that is being written from the moment it is opened, what a crash
  left in it is overwritten before it can be renamed, and what is being written is the
  latest game. Every step of the process is one of `FilesNext` for the files.
* `ThreadsGoFirst` by `ThreadsInv`, which threads there may be at each place of `main`.

Only model-checked: liveness, which is `EndsAreProcessed`, `StartingEnds`,
`LostGamesEnd`, `QuittersAreRemoved`, `ScreenFollows`, `StopsWhenAsked` (the prover does no
fairness), and the violations.

## 5. Plan

What could come next, if the code changes with it:

1. `Session` under loss and reordering, once the lobby's messages are numbered or repeated;
   until then no statement about the screen survives a lost datagram.
2. Deltas, once something sends them: `Snapshots` has the client's map and registry that
   `applyDeltaSnapshot` would change.
3. Movement and the patterns of the enemies, of which `Engine` keeps the choice they lead to.

## 6. Not modelled

* Rendering, sprites, key mapping, prediction: no protocol state. `src/temp_funcs` and
  `src/animate`, which are not part of either program.
* `UdpServer` and `ThreadSafeQueue`: a receive loop that goes on after every error and a
  queue with one lock, which `popAll` swaps as a whole; the lobby takes any sequence of
  packets in a tick instead. `send` hands asio a reference to a vector of its caller's
  (`server.cpp:34`), which may be gone when the datagram is sent: undefined behaviour.
* GET handlers of the admin API, except for the scores: they only read, and what they race
  with is undefined. Data races on containers in general (the admin's kicks and the game
  thread, the client's two threads on its registry): excluded, and said where.
* Deltas: `computeDiff` and `broadcastDeltaSnapshot` (`room.cpp:382`-539), DELTA_SNAPSHOT and
  the client's `applyDeltaSnapshot` are complete, and nothing calls the first of them.
  `findAvailableRoomOrCreate`, `streamMessage` and `levelUp`'s xp are not called either.
* Positions, speeds, experience; floats on the wire, which both sides take byte by byte.
* What a machine that loses its power does to files; command-line arguments.
