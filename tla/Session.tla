------------------------------ MODULE Session ------------------------------
(***************************************************************************)
(* One client against the server: what the client's screen shows           *)
(* (GameClient::m_state) and where the server has the player.              *)
(*                                                                         *)
(* Two threads of the client share m_state: the UI thread reads it, sends  *)
(* requests and sets it; the network thread handles the server's messages  *)
(* and sets it too.  Each load, each store and each send is a step of its  *)
(* own.  The server handles a request in one step, as in Lobby; the other  *)
(* players of the rooms, and the administrator, act in between.            *)
(*                                                                         *)
(* Every message goes as a packet of Wire, which the other side may refuse *)
(* or read wrong.  The channels lose and reorder nothing: the lobby's      *)
(* messages are sent once, over UDP, and nothing of the kind stated here   *)
(* survives a loss.                                                        *)
(* Left out: LIST_ROOMS and its answer, which change no state (a client    *)
(* may ask to join any room there has been, as its list may be old);       *)
(* snapshots, inputs and notifications of other players; rooms without     *)
(* seats and kicks, which are Lobby's.                                     *)
(***************************************************************************)
EXTENDS Wire, FiniteSets

CONSTANTS
    Rooms,        \* bound: rooms that may be created
    Cap,          \* RoomConfig.maxPlayers of each of them
    MaxRequests,  \* bound: requests in flight
    MaxReplies    \* bound: messages to the client in flight

NoRoom == "no room"

ASSUME NoRoomIsNoRoom == NoRoom \notin Rooms
ASSUME SeatsForTwo == Cap \in Nat /\ Cap >= 2
ASSUME RoomToSend == MaxRequests \in Nat \ {0} /\ MaxReplies \in Nat /\ MaxReplies >= 2

States == {"ENTERING_NICKNAME", "CONNECTING", "LOBBY", "CREATING_ROOM",
           "WAITING_IN_ROOM", "PLAYING", "GAME_OVER"}

Live == {"starting", "playing"}

VARIABLES
    state,       \* m_state
    myRoom,      \* m_currentRoomId
    ui,          \* what the UI thread is about to do
    net,         \* what the network thread is about to do
    toServer,    \* requests in flight
    toClient,    \* answers and announcements in flight
    registered,  \* the server has the client in players_
    seat,        \* the room the server has the client in
    stage,       \* m_currentState of each room; "ending" is GAME_OVER, not
                 \* announced yet, "over" FINISHED
    others       \* the number of other players in each room

client == <<state, myRoom, ui, net>>
server == <<registered, seat, stage, others>>
vars   == <<client, toServer, toClient, server>>

Requests == [type : {"CONNECT", "CREATE_ROOM", "LEAVE_ROOM", "DISCONNECT"}, room : {NoRoom}]
            \cup [type : {"JOIN_ROOM"}, room : Rooms]

Replies == [type : {"ACCEPTED", "REJECTED", "NO_ROOM", "GAME_STARTING", "GAME_OVER"},
            room : {NoRoom}]
           \cup [type : {"IN_ROOM"}, room : Rooms]

Plain(t) == [type |-> t, room |-> NoRoom]

\* The message of the protocol that stands for each of them; an answer to CREATE_ROOM
\* looks like one to JOIN_ROOM.
WireType == [
    CONNECT |-> "CONNECT", DISCONNECT |-> "DISCONNECT", CREATE_ROOM |-> "CREATE_ROOM_REQUEST",
    JOIN_ROOM |-> "JOIN_ROOM_REQUEST", LEAVE_ROOM |-> "LEAVE_ROOM_REQUEST",
    ACCEPTED |-> "WELCOME", REJECTED |-> "WELCOME", IN_ROOM |-> "JOIN_ROOM_RESPONSE",
    NO_ROOM |-> "JOIN_ROOM_RESPONSE", GAME_STARTING |-> "GAME_STARTING",
    GAME_OVER |-> "PLAYER_EVENT"]

Packet(m) == Serialize([type |-> WireType[m.type], ids |-> [roomId |-> m.room], rest |-> m.type])

\* The messages the receiver's factory accepts, and the room it reads in each.
Accepted == {m \in Requests \cup Replies : Accepts(Packet(m))}

RoomRead == [m \in Accepted |-> Deserialize(Packet(m)).ids.roomId]

TypeOK ==
    /\ state \in States
    /\ myRoom \in Rooms \cup {NoRoom}
    /\ ui \in {"idle", "submit", "connect", "cancel", "create", "created", "open",
               "join", "quit", "left", "again", "closed"}
    /\ net \in {"idle", "start"}
    /\ toServer \in Seq(Requests) /\ Len(toServer) <= MaxRequests
    /\ toClient \in Seq(Replies) /\ Len(toClient) <= MaxReplies
    /\ registered \in BOOLEAN
    /\ seat \in Rooms \cup {NoRoom}
    /\ stage \in [Rooms -> {"none", "waiting", "starting", "playing", "ending", "over"}]
    /\ others \in [Rooms -> 0..Cap]

Init ==
    /\ state = "ENTERING_NICKNAME"
    /\ myRoom = NoRoom
    /\ ui = "idle"
    /\ net = "idle"
    /\ toServer = <<>>
    /\ toClient = <<>>
    /\ registered = FALSE
    /\ seat = NoRoom
    /\ stage = [r \in Rooms |-> "none"]
    /\ others = [r \in Rooms |-> 0]

-----------------------------------------------------------------------------
(* The UI thread: run() and handleInput read m_state and act on the key       *)
(* pressed; by the time they do, the network thread may have changed it.      *)

\* What a key may start on each screen.
Keys == [s \in States |->
    CASE s = "ENTERING_NICKNAME" -> {"submit"}
      [] s = "LOBBY"             -> {"open", "join"}
      [] s = "CREATING_ROOM"     -> {"cancel", "create"}
      [] s = "WAITING_IN_ROOM"   -> {"quit"}
      [] s = "GAME_OVER"         -> {"again"}
      [] OTHER                   -> {}]

\* The bound on rooms leaves one for the client to create.
RoomLeft ==
    LET asked == {i \in 1..Len(toServer) : toServer[i].type = "CREATE_ROOM"}
        inHand == IF ui = "create" THEN 1 ELSE 0
    IN Cardinality({r \in Rooms : stage[r] = "none"}) > Cardinality(asked) + inHand

\* A room can be joined if the list shows one.
Press ==
    /\ ui = "idle"
    /\ ui' \in Keys[state]
    /\ ui' = "join" => \E r \in Rooms : stage[r] # "none"
    /\ ui' = "create" => RoomLeft
    /\ UNCHANGED <<state, myRoom, net, toServer, toClient, server>>

SetState(at, s, then) ==
    /\ ui = at
    /\ state' = s
    /\ ui' = then
    /\ UNCHANGED <<myRoom, net, toServer, toClient, server>>

Request(at, m, then) ==
    /\ ui = at
    /\ Len(toServer) < MaxRequests
    /\ toServer' = Append(toServer, m)
    /\ ui' = then
    /\ UNCHANGED <<state, myRoom, net, toClient, server>>

SubmitNickname ==
    \/ SetState("submit", "CONNECTING", "connect")
    \/ Request("connect", Plain("CONNECT"), "idle")

JoinRoom ==
    \E r \in Rooms : stage[r] # "none" /\ Request("join", [type |-> "JOIN_ROOM", room |-> r], "idle")

\* The request is sent first: its answer may be handled before CONNECTING is set.
CreateRoom ==
    \/ SetState("open", "CREATING_ROOM", "idle")
    \/ SetState("cancel", "LOBBY", "idle")
    \/ Request("create", Plain("CREATE_ROOM"), "created")
    \/ SetState("created", "CONNECTING", "idle")

RequestLeaveRoom ==
    \/ Request("quit", Plain("LEAVE_ROOM"), "left")
    \/ SetState("left", "LOBBY", "idle")

BackToLobby == SetState("again", "LOBBY", "idle")

\* The window is closed: DISCONNECT is sent and the threads end.
Close == Request("idle", Plain("DISCONNECT"), "closed")

UiThread ==
    \/ SubmitNickname
    \/ JoinRoom
    \/ CreateRoom
    \/ RequestLeaveRoom
    \/ BackToLobby

-----------------------------------------------------------------------------
(* The network thread *)

\* The next message is m, and its handler leaves m_state at s.
Handled(m, s) ==
    /\ ui # "closed"
    /\ net = "idle"
    /\ toClient # <<>>
    /\ Head(toClient) = m
    /\ m \in Accepted
    /\ toClient' = Tail(toClient)
    /\ state' = s
    /\ UNCHANGED <<ui, toServer, server>>

\* An accepted nickname opens the lobby, a refused one asks for another.
HandleWelcome ==
    /\ \/ Handled(Plain("ACCEPTED"), "LOBBY")
       \/ Handled(Plain("REJECTED"), "ENTERING_NICKNAME")
    /\ UNCHANGED <<myRoom, net>>

\* Regression: a refusal leaves the screen as it is.
AfterRefusalUnmoved == state

AfterRefusal == "LOBBY"

HandleRoomResponse ==
    /\ \/ \E r \in Rooms : LET m == [type |-> "IN_ROOM", room |-> r] IN
            Handled(m, "WAITING_IN_ROOM") /\ myRoom' = RoomRead[m]
       \/ Handled(Plain("NO_ROOM"), AfterRefusal) /\ UNCHANGED myRoom
    /\ UNCHANGED net

\* The state is compared, then set: the UI thread may come in between.
HandleGameStarting ==
    /\ Handled(Plain("GAME_STARTING"), state)
    /\ net' = IF state = "WAITING_IN_ROOM" THEN "start" ELSE "idle"
    /\ UNCHANGED myRoom

StartPlaying ==
    /\ ui # "closed"
    /\ net = "start"
    /\ state' = "PLAYING"
    /\ net' = "idle"
    /\ UNCHANGED <<myRoom, ui, toServer, toClient, server>>

HandlePlayerEvent ==
    /\ Handled(Plain("GAME_OVER"), "GAME_OVER")
    /\ UNCHANGED <<myRoom, net>>

NetworkThread ==
    \/ HandleWelcome
    \/ HandleRoomResponse
    \/ HandleGameStarting
    \/ StartPlaying
    \/ HandlePlayerEvent

-----------------------------------------------------------------------------
(* The server's handling of the client's requests *)

\* The rooms' stages once the client has left its room: a live room that empties
\* is over.
StageLeft == [r \in Rooms |->
    IF r = seat /\ others[r] = 0 /\ stage[r] \in Live THEN "over" ELSE stage[r]]

Serve(type, replies) ==
    /\ toServer # <<>>
    /\ Head(toServer).type = type
    /\ Len(toClient \o replies) <= MaxReplies
    /\ toServer' = Tail(toServer)
    /\ toClient' = toClient \o replies
    /\ UNCHANGED <<client, others>>

\* The nickname is free and long enough, or it is not; a client that is
\* registered already is not answered.
ServeConnect ==
    /\ UNCHANGED <<seat, stage>>
    /\ \/ registered /\ Serve("CONNECT", <<>>) /\ UNCHANGED registered
       \/ ~registered /\ Serve("CONNECT", <<Plain("ACCEPTED")>>) /\ registered' = TRUE
       \/ ~registered /\ Serve("CONNECT", <<Plain("REJECTED")>>) /\ UNCHANGED registered

\* Nothing but CONNECT is handled for an endpoint the server does not know.
ServeStranger ==
    /\ ~registered
    /\ \E type \in {"CREATE_ROOM", "JOIN_ROOM", "LEAVE_ROOM", "DISCONNECT"} : Serve(type, <<>>)
    /\ UNCHANGED <<registered, seat, stage>>

ServeCreate(r) ==
    /\ registered
    /\ stage[r] = "none"
    /\ Serve("CREATE_ROOM", <<[type |-> "IN_ROOM", room |-> r]>>)
    /\ seat' = r
    /\ stage' = [StageLeft EXCEPT ![r] = "waiting"]
    /\ UNCHANGED registered

\* The next request is to join room r.
AskedFor(r) ==
    /\ toServer # <<>>
    /\ Head(toServer).type = "JOIN_ROOM"
    /\ RoomRead[Head(toServer)] = r

Joinable(r) == others[r] < Cap /\ StageLeft[r] \in {"waiting"} \cup Live

\* Regression: a player who joins a running game is told that it runs only.
JoinRepliesStartOnly(r) ==
    IF StageLeft[r] \in Live THEN <<Plain("GAME_STARTING")>>
    ELSE <<[type |-> "IN_ROOM", room |-> r]>>

JoinReplies(r) ==
    <<[type |-> "IN_ROOM", room |-> r]>>
    \o (IF StageLeft[r] \in Live THEN <<Plain("GAME_STARTING")>> ELSE <<>>)

ServeJoin(r) ==
    /\ registered
    /\ AskedFor(r)
    /\ Joinable(r)
    /\ Serve("JOIN_ROOM", JoinReplies(r))
    /\ seat' = r
    /\ stage' = [StageLeft EXCEPT ![r] =
                    IF @ = "waiting" /\ others[r] > 0 THEN "starting" ELSE @]
    /\ UNCHANGED registered

RefuseJoin(r) ==
    /\ registered
    /\ AskedFor(r)
    /\ ~Joinable(r)
    /\ Serve("JOIN_ROOM", <<Plain("NO_ROOM")>>)
    /\ seat' = NoRoom
    /\ stage' = StageLeft
    /\ UNCHANGED registered

\* What the factory refuses is dropped.
ServeLeave ==
    /\ registered
    /\ Serve("LEAVE_ROOM", <<>>)
    /\ IF Plain("LEAVE_ROOM") \in Accepted
       THEN seat' = NoRoom /\ stage' = StageLeft
       ELSE UNCHANGED <<seat, stage>>
    /\ UNCHANGED registered

ServeDisconnect ==
    /\ registered
    /\ Serve("DISCONNECT", <<>>)
    /\ registered' = FALSE
    /\ seat' = NoRoom
    /\ stage' = StageLeft

\* No packet for 130 s: the client shows another screen than the lobby, which
\* asks for the list of rooms every 2 s.
Expire ==
    /\ registered
    /\ state # "LOBBY"
    /\ toServer = <<>>
    /\ registered' = FALSE
    /\ seat' = NoRoom
    /\ stage' = StageLeft
    /\ UNCHANGED <<client, toServer, toClient, others>>

ServerThread ==
    \/ ServeConnect
    \/ ServeStranger
    \/ \E r \in Rooms : ServeCreate(r) \/ ServeJoin(r) \/ RefuseJoin(r)
    \/ ServeLeave
    \/ ServeDisconnect

-----------------------------------------------------------------------------
(* The rooms: their other players, the clock, the enemies, the administrator *)

\* What broadcastToRoom sends the client when it sends ms to room r.
Heard(r, ms) == IF seat = r THEN ms ELSE <<>>

Broadcast(r, ms) ==
    /\ Len(toClient \o Heard(r, ms)) <= MaxReplies
    /\ toClient' = toClient \o Heard(r, ms)

Population(r) == others[r] + (IF seat = r THEN 1 ELSE 0)

OtherEnters(r) ==
    /\ \/ stage[r] = "none" /\ RoomLeft /\ stage' = [stage EXCEPT ![r] = "waiting"]
       \/ /\ stage[r] \in {"waiting"} \cup Live
          /\ Population(r) < Cap
          /\ stage' = [stage EXCEPT ![r] =
                          IF @ = "waiting" /\ Population(r) > 0 THEN "starting" ELSE @]
    /\ others' = [others EXCEPT ![r] = @ + 1]
    /\ UNCHANGED <<client, toServer, toClient, registered, seat>>

\* Who stays in a room that is over makes no difference to anything here.
OtherLeaves(r) ==
    /\ others[r] > 0
    /\ stage[r] \in {"waiting"} \cup Live
    /\ others' = [others EXCEPT ![r] = @ - 1]
    /\ stage' = [stage EXCEPT ![r] =
                    IF Population(r) = 1 /\ @ \in Live THEN "over" ELSE @]
    /\ UNCHANGED <<client, toServer, toClient, registered, seat>>

StartGame(r) ==
    /\ stage[r] = "starting"
    /\ stage' = [stage EXCEPT ![r] = "playing"]
    /\ Broadcast(r, <<Plain("GAME_STARTING")>>)
    /\ UNCHANGED <<client, toServer, registered, seat, others>>

\* A lost game is announced by Room::update, and by broadcastGameEvents in the
\* same tick.
LoseGame(r) ==
    /\ stage[r] = "playing"
    /\ stage' = [stage EXCEPT ![r] = "over"]
    /\ Broadcast(r, <<Plain("GAME_OVER"), Plain("GAME_OVER")>>)
    /\ UNCHANGED <<client, toServer, registered, seat, others>>

\* forceEndRoom asks for no state of the room in particular.
ForceEnd(r) ==
    /\ stage[r] # "none"
    /\ stage' = [stage EXCEPT ![r] = "ending"]
    /\ UNCHANGED <<client, toServer, toClient, registered, seat, others>>

AnnounceEnd(r) ==
    /\ stage[r] = "ending"
    /\ stage' = [stage EXCEPT ![r] = "over"]
    /\ Broadcast(r, <<Plain("GAME_OVER")>>)
    /\ UNCHANGED <<client, toServer, registered, seat, others>>

RoomEvents ==
    \E r \in Rooms :
        OtherEnters(r) \/ OtherLeaves(r) \/ StartGame(r) \/ LoseGame(r) \/ ForceEnd(r)

Next ==
    \/ Press
    \/ Close
    \/ UiThread
    \/ NetworkThread
    \/ ServerThread
    \/ Expire
    \/ RoomEvents
    \/ \E r \in Rooms : AnnounceEnd(r)

Spec == Init /\ [][Next]_vars

\* The threads run, and a tick follows every forced end; strong fairness because
\* a full channel, which only the bounds know, must not hold them up for ever.
\* Nobody has to press a key, and no game has to start or end.
Fairness ==
    /\ SF_vars(UiThread)
    /\ SF_vars(NetworkThread)
    /\ SF_vars(ServerThread)
    /\ \A r \in Rooms : SF_vars(AnnounceEnd(r))

FairSpec == Spec /\ Fairness

-----------------------------------------------------------------------------
(* Properties *)

Quiet ==
    /\ registered
    /\ toServer = <<>> /\ toClient = <<>>
    /\ ui = "idle" /\ net = "idle"

\* Once nothing is under way, a client that shows a room or a game is in that
\* room on the server, and the room is where the screen says: whatever the two
\* threads, the other players and the administrator did before.  (The lobby and
\* the screens before it show nothing of the kind: see LeaveIsCarriedOut.)
ScreenIsTrue ==
    Quiet =>
        /\ state = "WAITING_IN_ROOM" =>
            seat = myRoom /\ stage[seat] \in {"waiting", "starting", "ending"}
        /\ state = "PLAYING" => seat = myRoom /\ stage[seat] \in {"starting", "playing", "ending"}
        /\ state = "GAME_OVER" => seat \in Rooms /\ stage[seat] \in {"ending", "over"}

\* Once a client has read its mail, the room it took down last is the room the
\* server has it in, if it is in any: moves, refusals and races between the two
\* threads never leave it with the number of a room it has left.
RoomIsKnown ==
    seat \in Rooms /\ (\A i \in 1..Len(toClient) : toClient[i].type # "IN_ROOM") => myRoom = seat

\* "handlePlayerLeft: called by disconnect or leave_room": a player who leaves a
\* room is taken out of it.
LeaveIsCarriedOut == ui = "quit" ~> seat = NoRoom

=============================================================================
