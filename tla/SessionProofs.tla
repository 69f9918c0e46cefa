--------------------------- MODULE SessionProofs ---------------------------
(* Theorems about Session, for any rooms, seats and lengths of the channels. *)
EXTENDS Session, WireProofs

InRoom(r) == [type |-> "IN_ROOM", room |-> r]

(***************************************************************************)
(* Types.  A room that has not been created has nobody in it, which bounds *)
(* the number of players when it is.                                       *)
(***************************************************************************)
NobodyBefore == \A r \in Rooms : stage[r] = "none" => others[r] = 0

Typed == TypeOK /\ NobodyBefore

Stages == {"none", "waiting", "starting", "playing", "ending", "over"}

\* The answer to a join says the room it was sent for.
LEMMA RoomIsRead ==
  ASSUME NEW r \in Rooms, InRoom(r) \in Accepted
  PROVE  RoomRead[InRoom(r)] = r
<1> DEFINE ids == [roomId |-> r]
           m == [type |-> "JOIN_ROOM_RESPONSE", ids |-> ids, rest |-> "IN_ROOM"]
<1>1. ids \in [{"roomId"} -> {r}]
  OBVIOUS
<1>2. "JOIN_ROOM_RESPONSE" \in Types \ {"LEAVE_ROOM_REQUEST"}
  BY TypesAre
<1>3. Understood(m)
  BY <1>1, <1>2, MessagesAreUnderstood
<1>4. Packet(InRoom(r)) = Serialize(m)
  BY DEF Packet, InRoom, WireType
<1>5. Deserialize(Packet(InRoom(r))).ids = ids
  BY <1>3, <1>4 DEF Understood
<1> QED  BY <1>5 DEF RoomRead

LEMMA RepliesAre ==
  /\ \A r \in Rooms : InRoom(r) \in Replies
  /\ \A t \in {"ACCEPTED", "REJECTED", "NO_ROOM", "GAME_STARTING", "GAME_OVER"} : Plain(t) \in Replies
  /\ \A t \in {"CONNECT", "CREATE_ROOM", "LEAVE_ROOM", "DISCONNECT"} : Plain(t) \in Requests
BY DEF InRoom, Plain, Replies, Requests

LEMMA StageLeftType ==
  ASSUME TypeOK
  PROVE  /\ StageLeft \in [Rooms -> Stages]
         /\ \A r \in Rooms : StageLeft[r] = "none" <=> stage[r] = "none"
         /\ \A r \in Rooms : r # seat => StageLeft[r] = stage[r]
BY DEF TypeOK, StageLeft, Live, Stages

\* The UI thread sets the state or sends.
LEMMA SetStateTypes ==
  ASSUME TypeOK, NEW at, NEW s \in States, NEW then \in {"idle", "connect", "left"},
         SetState(at, s, then)
  PROVE  TypeOK'
BY DEF TypeOK, SetState, server

LEMMA RequestTypes ==
  ASSUME TypeOK, NEW at, NEW m \in Requests, NEW then \in {"idle", "created", "left", "closed"},
         Request(at, m, then)
  PROVE  TypeOK'
<1>1. toServer' \in Seq(Requests) /\ Len(toServer') <= MaxRequests
  BY RoomToSend DEF TypeOK, Request
<1> QED  BY <1>1 DEF TypeOK, Request, server

LEMMA HandledTypes ==
  ASSUME TypeOK, NEW m, NEW s \in States, Handled(m, s), myRoom' \in Rooms \cup {NoRoom},
         net' \in {"idle", "start"}
  PROVE  TypeOK'
<1>1. toClient' \in Seq(Replies) /\ Len(toClient') <= MaxReplies
  BY RoomToSend DEF TypeOK, Handled
<1> QED  BY <1>1 DEF TypeOK, Handled, server

LEMMA ServeTypes ==
  ASSUME TypeOK, NEW type, NEW replies \in Seq(Replies), Serve(type, replies),
         registered' \in BOOLEAN, seat' \in Rooms \cup {NoRoom}, stage' \in [Rooms -> Stages]
  PROVE  TypeOK'
<1>1. toServer' \in Seq(Requests) /\ Len(toServer') <= MaxRequests
  BY RoomToSend DEF TypeOK, Serve
<1>2. toClient' \in Seq(Replies) /\ Len(toClient') <= MaxReplies
  BY DEF TypeOK, Serve
<1> QED  BY <1>1, <1>2 DEF TypeOK, Serve, client, Stages

LEMMA BroadcastTypes ==
  ASSUME TypeOK, NEW r \in Rooms, NEW ms \in Seq(Replies), Broadcast(r, ms),
         UNCHANGED <<client, toServer, registered, seat, others>>, stage' \in [Rooms -> Stages]
  PROVE  TypeOK'
<1>1. Heard(r, ms) \in Seq(Replies)
  BY DEF Heard
<1>2. toClient' \in Seq(Replies) /\ Len(toClient') <= MaxReplies
  BY <1>1 DEF TypeOK, Broadcast
<1> QED  BY <1>2 DEF TypeOK, client, Stages

LEMMA TypedInit == Init => Typed
<1> SUFFICES ASSUME Init PROVE Typed
  OBVIOUS
<1>1. toServer \in Seq(Requests) /\ Len(toServer) = 0 /\ toClient \in Seq(Replies) /\ Len(toClient) = 0
  BY DEF Init
<1>2. Len(toServer) <= MaxRequests /\ Len(toClient) <= MaxReplies
  BY <1>1, RoomToSend
<1>3. 0 \in 0..Cap
  BY SeatsForTwo
<1>4. others \in [Rooms -> 0..Cap] /\ stage \in [Rooms -> Stages]
  BY <1>3 DEF Init, Stages
<1>5. TypeOK
  BY <1>1, <1>2, <1>4 DEF Init, TypeOK, States, Stages
<1> QED  BY <1>5 DEF Init, Typed, NobodyBefore

LEMMA TypedUi ==
  ASSUME Typed, Press \/ Close \/ UiThread
  PROVE  Typed'
<1>1. others' = others /\ stage' = stage
  BY DEF Press, Close, UiThread, SubmitNickname, JoinRoom, CreateRoom, RequestLeaveRoom,
         BackToLobby, SetState, Request, server
<1>2. ASSUME Press PROVE TypeOK'
  <2>1. state \in States
    BY DEF Typed, TypeOK
  <2>2. ui' \in {"submit", "open", "join", "cancel", "create", "quit", "again"}
    BY <1>2, <2>1 DEF Press, Keys, States
  <2> QED  BY <1>2, <2>2 DEF Press, Typed, TypeOK, server
<1>3. ASSUME Close PROVE TypeOK'
  BY <1>3, SetStateTypes, RequestTypes, RepliesAre DEF Close, Typed
<1>4. ASSUME SubmitNickname PROVE TypeOK'
  BY <1>4, SetStateTypes, RequestTypes, RepliesAre DEF SubmitNickname, Typed, States
<1>5. ASSUME JoinRoom PROVE TypeOK'
  <2>1. PICK r \in Rooms : Request("join", [type |-> "JOIN_ROOM", room |-> r], "idle")
    BY <1>5 DEF JoinRoom
  <2>2. [type |-> "JOIN_ROOM", room |-> r] \in Requests
    BY DEF Requests
  <2> QED  BY <2>1, <2>2, SetStateTypes, RequestTypes DEF Typed
<1>6. ASSUME CreateRoom PROVE TypeOK'
  BY <1>6, SetStateTypes, RequestTypes, RepliesAre DEF CreateRoom, Typed, States
<1>7. ASSUME RequestLeaveRoom PROVE TypeOK'
  BY <1>7, SetStateTypes, RequestTypes, RepliesAre DEF RequestLeaveRoom, Typed, States
<1>8. ASSUME BackToLobby PROVE TypeOK'
  BY <1>8, SetStateTypes, RequestTypes DEF BackToLobby, Typed, States
<1>9. TypeOK'
  BY <1>2, <1>3, <1>4, <1>5, <1>6, <1>7, <1>8 DEF UiThread
<1> QED  BY <1>1, <1>9 DEF Typed, NobodyBefore

LEMMA TypedNetwork ==
  ASSUME Typed, NetworkThread
  PROVE  Typed'
<1>1. others' = others /\ stage' = stage
  BY DEF NetworkThread, HandleWelcome, HandleRoomResponse, HandleGameStarting, StartPlaying,
         HandlePlayerEvent, Handled, server
<1>2. ASSUME HandleWelcome PROVE TypeOK'
  BY <1>2, HandledTypes DEF HandleWelcome, Typed, TypeOK, States
<1>3. ASSUME HandleRoomResponse PROVE TypeOK'
  <2>1. CASE \E r \in Rooms : Handled(InRoom(r), "WAITING_IN_ROOM") /\ myRoom' = RoomRead[InRoom(r)]
    <3>1. PICK r \in Rooms : Handled(InRoom(r), "WAITING_IN_ROOM") /\ myRoom' = RoomRead[InRoom(r)]
      BY <2>1
    <3>2. myRoom' = r
      BY <3>1, RoomIsRead DEF Handled
    <3> QED  BY <1>3, <3>1, <3>2, HandledTypes DEF HandleRoomResponse, Typed, TypeOK, States
  <2>2. CASE Handled(Plain("NO_ROOM"), AfterRefusal) /\ UNCHANGED myRoom
    BY <1>3, <2>2, HandledTypes DEF HandleRoomResponse, AfterRefusal, Typed, TypeOK, States
  <2> QED  BY <1>3, <2>1, <2>2 DEF HandleRoomResponse, InRoom
<1>4. ASSUME HandleGameStarting PROVE TypeOK'
  BY <1>4, HandledTypes DEF HandleGameStarting, Typed, TypeOK
<1>5. ASSUME StartPlaying PROVE TypeOK'
  BY <1>5 DEF StartPlaying, Typed, TypeOK, States, server
<1>6. ASSUME HandlePlayerEvent PROVE TypeOK'
  BY <1>6, HandledTypes DEF HandlePlayerEvent, Typed, TypeOK, States
<1>7. TypeOK'
  BY <1>2, <1>3, <1>4, <1>5, <1>6 DEF NetworkThread
<1> QED  BY <1>1, <1>7 DEF Typed, NobodyBefore

LEMMA JoinRepliesType ==
  ASSUME NEW r \in Rooms
  PROVE  JoinReplies(r) \in Seq(Replies)
<1>1. Plain("GAME_STARTING") \in Replies /\ InRoom(r) \in Replies
  BY RepliesAre
<1> QED  BY <1>1 DEF JoinReplies, InRoom

LEMMA TypedServer ==
  ASSUME Typed, ServerThread \/ Expire
  PROVE  Typed'
<1> USE DEF Typed
<1>1. others' = others /\ (\A r \in Rooms : stage'[r] = "none" => stage[r] = "none")
  BY StageLeftType
  DEF ServerThread, Expire, ServeConnect, ServeStranger, ServeCreate, ServeJoin, RefuseJoin,
      ServeLeave, ServeDisconnect, Serve, TypeOK
<1>2. ASSUME ServeConnect PROVE TypeOK'
  <2>1. <<>> \in Seq(Replies) /\ <<Plain("ACCEPTED")>> \in Seq(Replies)
        /\ <<Plain("REJECTED")>> \in Seq(Replies)
    BY RepliesAre
  <2> QED  BY <1>2, <2>1, ServeTypes DEF ServeConnect, TypeOK, Stages
<1>3. ASSUME ServeStranger PROVE TypeOK'
  <2>1. <<>> \in Seq(Replies)
    OBVIOUS
  <2> QED  BY <1>3, <2>1, ServeTypes DEF ServeStranger, TypeOK, Stages
<1>4. ASSUME NEW r \in Rooms, ServeCreate(r) PROVE TypeOK'
  <2>1. <<InRoom(r)>> \in Seq(Replies)
    BY RepliesAre
  <2>2. stage' \in [Rooms -> Stages]
    BY <1>4, StageLeftType DEF ServeCreate, Stages
  <2> QED  BY <1>4, <2>1, <2>2, ServeTypes DEF ServeCreate, TypeOK, InRoom
<1>5. ASSUME NEW r \in Rooms, ServeJoin(r) PROVE TypeOK'
  <2>1. stage' \in [Rooms -> Stages]
    BY <1>5, StageLeftType DEF ServeJoin, Stages
  <2> QED  BY <1>5, <2>1, JoinRepliesType, ServeTypes DEF ServeJoin, TypeOK
<1>6. ASSUME NEW r \in Rooms, RefuseJoin(r) PROVE TypeOK'
  <2>1. <<Plain("NO_ROOM")>> \in Seq(Replies)
    BY RepliesAre
  <2> QED  BY <1>6, <2>1, StageLeftType, ServeTypes DEF RefuseJoin, TypeOK
<1>7. ASSUME ServeLeave PROVE TypeOK'
  <2>1. <<>> \in Seq(Replies)
    OBVIOUS
  <2> QED  BY <1>7, <2>1, StageLeftType, ServeTypes DEF ServeLeave, TypeOK, Stages
<1>8. ASSUME ServeDisconnect PROVE TypeOK'
  <2>1. <<>> \in Seq(Replies)
    OBVIOUS
  <2> QED  BY <1>8, <2>1, StageLeftType, ServeTypes DEF ServeDisconnect, TypeOK, Stages
<1>9. ASSUME Expire PROVE TypeOK'
  BY <1>9, StageLeftType DEF Expire, TypeOK, client, Stages
<1>10. TypeOK'
  BY <1>2, <1>3, <1>4, <1>5, <1>6, <1>7, <1>8, <1>9 DEF ServerThread
<1> QED  BY <1>1, <1>10 DEF NobodyBefore

LEMMA TypedRooms ==
  ASSUME Typed, RoomEvents \/ \E r \in Rooms : AnnounceEnd(r)
  PROVE  Typed'
<1> USE DEF Typed
<1>1. PICK r \in Rooms : \/ OtherEnters(r) \/ OtherLeaves(r) \/ StartGame(r) \/ LoseGame(r)
                         \/ ForceEnd(r) \/ AnnounceEnd(r)
  BY DEF RoomEvents
<1>2. others[r] \in Nat /\ Population(r) \in Nat /\ others[r] <= Population(r)
      /\ Cap \in Nat /\ Cap >= 2 /\ others[r] <= Cap
  BY SeatsForTwo DEF TypeOK, Population
<1>3. CASE OtherEnters(r)
  <2>1. others[r] + 1 \in 0..Cap
    BY <1>2, <1>3 DEF OtherEnters, NobodyBefore
  <2>2. others' \in [Rooms -> 0..Cap] /\ stage' \in [Rooms -> Stages] /\ stage'[r] # "none"
    BY <1>3, <2>1 DEF OtherEnters, TypeOK, Stages, Live
  <2>3. \A q \in Rooms : q # r => others'[q] = others[q] /\ stage'[q] = stage[q]
    BY <1>3 DEF OtherEnters, TypeOK
  <2> QED  BY <1>3, <2>2, <2>3 DEF OtherEnters, TypeOK, NobodyBefore, client, Stages
<1>4. CASE OtherLeaves(r)
  <2>1. others[r] - 1 \in 0..Cap
    BY <1>2, <1>4 DEF OtherLeaves
  <2> QED  BY <1>4, <2>1 DEF OtherLeaves, TypeOK, NobodyBefore, client
<1>5. <<Plain("GAME_STARTING")>> \in Seq(Replies) /\ <<Plain("GAME_OVER")>> \in Seq(Replies)
      /\ <<Plain("GAME_OVER"), Plain("GAME_OVER")>> \in Seq(Replies)
  BY RepliesAre
<1>6. CASE StartGame(r)
  BY <1>5, <1>6, BroadcastTypes DEF StartGame, TypeOK, NobodyBefore, Stages
<1>7. CASE LoseGame(r)
  BY <1>5, <1>7, BroadcastTypes DEF LoseGame, TypeOK, NobodyBefore, Stages
<1>8. CASE ForceEnd(r)
  BY <1>8 DEF ForceEnd, TypeOK, NobodyBefore, client
<1>9. CASE AnnounceEnd(r)
  BY <1>5, <1>9, BroadcastTypes DEF AnnounceEnd, TypeOK, NobodyBefore, Stages
<1> QED  BY <1>1, <1>3, <1>4, <1>6, <1>7, <1>8, <1>9

LEMMA TypedAlways == Spec => []Typed
<1>1. Typed /\ [Next]_vars => Typed'
  <2> SUFFICES ASSUME Typed, [Next]_vars PROVE Typed'
    OBVIOUS
  <2>1. CASE UNCHANGED vars
    BY <2>1 DEF Typed, TypeOK, NobodyBefore, vars, client, server
  <2> QED
    BY <2>1, TypedUi, TypedNetwork, TypedServer, TypedRooms DEF Next
<1> QED  BY <1>1, TypedInit, PTL DEF Spec

\* Every variable of the client, the channels and the server keeps its type: with
\* whatever a message was read as, m_currentRoomId is a room.
THEOREM TypeCorrect == Spec => []TypeOK
BY TypedAlways, PTL DEF Typed

(***************************************************************************)
(* The mail of the client.                                                 *)
(***************************************************************************)
LEMMA TailIs ==
  ASSUME NEW s \in Seq(Replies), s # <<>>
  PROVE  /\ Tail(s) \in Seq(Replies)
         /\ Len(s) \in Nat /\ Len(s) > 0 /\ Len(Tail(s)) = Len(s) - 1
         /\ \A i \in 1..Len(Tail(s)) : Tail(s)[i] = s[i + 1]
         /\ Head(s) = s[1]
OBVIOUS

LEMMA CatIs ==
  ASSUME NEW s \in Seq(Replies), NEW t \in Seq(Replies)
  PROVE  /\ s \o t \in Seq(Replies)
         /\ Len(s) \in Nat /\ Len(t) \in Nat /\ Len(s \o t) = Len(s) + Len(t)
         /\ \A i \in 1..Len(s) : (s \o t)[i] = s[i]
         /\ \A i \in 1..Len(t) : (s \o t)[Len(s) + i] = t[i]
OBVIOUS

(***************************************************************************)
(* RoomIsKnown.  With room taken down and the mail s still to be read, the *)
(* client will take down place last.                                       *)
(***************************************************************************)
Knows(s, room, place) ==
    place \in Rooms =>
        \/ room = place /\ \A i \in 1..Len(s) : s[i].type # "IN_ROOM"
        \/ \E i \in 1..Len(s) :
              /\ s[i] = InRoom(place)
              /\ \A j \in 1..Len(s) : j > i => s[j].type # "IN_ROOM"

LEMMA KnowsRead ==
  ASSUME NEW s \in Seq(Replies), s # <<>>, NEW room, NEW place, Knows(s, room, place),
         NEW new, \A r \in Rooms : Head(s) = InRoom(r) => new = r,
         Head(s).type # "IN_ROOM" => new = room
  PROVE  Knows(Tail(s), new, place)
<1> SUFFICES ASSUME place \in Rooms
             PROVE  \/ new = place /\ \A i \in 1..Len(Tail(s)) : Tail(s)[i].type # "IN_ROOM"
                    \/ \E i \in 1..Len(Tail(s)) :
                          /\ Tail(s)[i] = InRoom(place)
                          /\ \A j \in 1..Len(Tail(s)) : j > i => Tail(s)[j].type # "IN_ROOM"
  BY DEF Knows
<1>1. /\ Len(s) \in Nat /\ Len(s) > 0 /\ Len(Tail(s)) = Len(s) - 1
      /\ \A i \in 1..Len(Tail(s)) : Tail(s)[i] = s[i + 1]
      /\ Head(s) = s[1]
  BY TailIs
<1> DEFINE n == Len(s)
           t == Tail(s)
<1> HIDE DEF n, t
<1>2. /\ n \in Nat /\ n > 0 /\ Len(t) = n - 1
      /\ \A i \in 1..n - 1 : t[i] = s[i + 1]
  BY <1>1 DEF n, t
<1>3. CASE room = place /\ \A i \in 1..n : s[i].type # "IN_ROOM"
  <2>1. s[1].type # "IN_ROOM"
    BY <1>2, <1>3
  <2> QED  BY <1>1, <1>2, <1>3, <2>1 DEF t
<1>4. CASE \E i \in 1..n :
             /\ s[i] = InRoom(place)
             /\ \A j \in 1..n : j > i => s[j].type # "IN_ROOM"
  <2>1. PICK i \in 1..n :
             /\ s[i] = InRoom(place)
             /\ \A j \in 1..n : j > i => s[j].type # "IN_ROOM"
    BY <1>4
  <2>2. CASE i = 1
    BY <1>1, <1>2, <2>1, <2>2 DEF t
  <2>3. CASE i # 1
    <3>1. i - 1 \in 1..n - 1 /\ t[i - 1] = InRoom(place)
      BY <1>2, <2>1, <2>3
    <3>2. \A j \in 1..n - 1 : j > i - 1 => t[j].type # "IN_ROOM"
      BY <1>2, <2>1, <2>3
    <3> QED  BY <1>2, <3>1, <3>2 DEF t
  <2> QED  BY <2>2, <2>3
<1> QED  BY <1>3, <1>4 DEF Knows, n

LEMMA KnowsMore ==
  ASSUME NEW s \in Seq(Replies), NEW t \in Seq(Replies), NEW room, NEW place,
         Knows(s, room, place), \A i \in 1..Len(t) : t[i].type # "IN_ROOM"
  PROVE  Knows(s \o t, room, place)
<1> DEFINE u == s \o t
           n == Len(s)
<1>1. /\ n \in Nat /\ Len(t) \in Nat /\ Len(u) = n + Len(t)
      /\ \A i \in 1..n : u[i] = s[i]
      /\ \A i \in 1..Len(t) : u[n + i] = t[i]
  BY CatIs
<1> HIDE DEF u
<1>2. \A i \in 1..Len(u) : i > n => u[i].type # "IN_ROOM"
  <2> SUFFICES ASSUME NEW i \in 1..Len(u), i > n PROVE u[i].type # "IN_ROOM"
    OBVIOUS
  <2>1. i - n \in 1..Len(t) /\ n + (i - n) = i
    BY <1>1
  <2> QED  BY <1>1, <2>1
<1>3. CASE \E i \in 1..n :
             /\ s[i] = InRoom(place)
             /\ \A j \in 1..n : j > i => s[j].type # "IN_ROOM"
  <2>1. PICK i \in 1..n :
             /\ s[i] = InRoom(place)
             /\ \A j \in 1..n : j > i => s[j].type # "IN_ROOM"
    BY <1>3
  <2>2. i \in 1..Len(u) /\ u[i] = InRoom(place)
    BY <1>1, <2>1
  <2>3. \A j \in 1..Len(u) : j > i => u[j].type # "IN_ROOM"
    BY <1>1, <1>2, <2>1
  <2> QED  BY <2>2, <2>3 DEF Knows, u
<1>4. CASE room = place /\ \A i \in 1..n : s[i].type # "IN_ROOM"
  <2>1. \A i \in 1..Len(u) : u[i].type # "IN_ROOM"
    BY <1>1, <1>2, <1>4
  <2> QED  BY <1>4, <2>1 DEF Knows, u
<1> QED  BY <1>3, <1>4 DEF Knows

LEMMA KnowsNew ==
  ASSUME NEW s \in Seq(Replies), NEW t \in Seq(Replies), NEW room, NEW r \in Rooms,
         Len(t) > 0, t[1] = InRoom(r), \A i \in 2..Len(t) : t[i].type # "IN_ROOM"
  PROVE  Knows(s \o t, room, r)
<1> DEFINE u == s \o t
           n == Len(s)
<1>1. /\ n \in Nat /\ Len(t) \in Nat /\ Len(u) = n + Len(t)
      /\ \A i \in 1..Len(t) : u[n + i] = t[i]
  BY CatIs
<1> HIDE DEF u
<1>2. n + 1 \in 1..Len(u) /\ u[n + 1] = InRoom(r)
  BY <1>1
<1>3. \A j \in 1..Len(u) : j > n + 1 => u[j].type # "IN_ROOM"
  <2> SUFFICES ASSUME NEW j \in 1..Len(u), j > n + 1 PROVE u[j].type # "IN_ROOM"
    OBVIOUS
  <2>1. j - n \in 2..Len(t) /\ j - n \in 1..Len(t) /\ n + (j - n) = j
    BY <1>1
  <2> QED  BY <1>1, <2>1
<1>4. Knows(u, room, r)
  BY <1>2, <1>3 DEF Knows
<1> QED  BY <1>4 DEF u

NoneSays(t) == \A i \in 1..Len(t) : t[i].type # "IN_ROOM"

\* An answer that names no room.
LEMMA KnowsServed ==
  ASSUME Typed, NEW type, NEW t \in Seq(Replies), Serve(type, t), NoneSays(t),
         Knows(toClient, myRoom, seat), seat' \in {seat, NoRoom}
  PROVE  Knows(toClient', myRoom', seat')
<1>1. toClient' = toClient \o t /\ myRoom' = myRoom /\ toClient \in Seq(Replies)
  BY DEF Serve, client, Typed, TypeOK
<1>2. CASE seat' = seat
  BY <1>1, <1>2, KnowsMore DEF NoneSays
<1>3. CASE seat' = NoRoom
  BY <1>3, NoRoomIsNoRoom DEF Knows
<1> QED  BY <1>2, <1>3

LEMMA KnowsBroadcast ==
  ASSUME Typed, NEW r, NEW t \in Seq(Replies), Broadcast(r, t), NoneSays(t),
         UNCHANGED <<client, seat>>, Knows(toClient, myRoom, seat)
  PROVE  Knows(toClient', myRoom', seat')
<1>1. Heard(r, t) \in Seq(Replies) /\ NoneSays(Heard(r, t))
  BY DEF Heard, NoneSays
<1>2. toClient' = toClient \o Heard(r, t) /\ toClient \in Seq(Replies)
      /\ myRoom' = myRoom /\ seat' = seat
  BY DEF Broadcast, client, Typed, TypeOK
<1> QED  BY <1>1, <1>2, KnowsMore DEF NoneSays

LEMMA Quietly ==
  /\ \A t \in {"ACCEPTED", "REJECTED", "NO_ROOM", "GAME_STARTING", "GAME_OVER"} :
       <<Plain(t)>> \in Seq(Replies) /\ NoneSays(<<Plain(t)>>)
  /\ <<Plain("GAME_OVER"), Plain("GAME_OVER")>> \in Seq(Replies)
  /\ NoneSays(<<Plain("GAME_OVER"), Plain("GAME_OVER")>>)
  /\ <<>> \in Seq(Replies) /\ NoneSays(<<>>)
BY RepliesAre DEF NoneSays, Plain

LEMMA KnowsClient ==
  ASSUME Typed, Knows(toClient, myRoom, seat), Press \/ Close \/ UiThread \/ NetworkThread
  PROVE  Knows(toClient', myRoom', seat')
<1> DEFINE s == toClient
<1>1. s \in Seq(Replies)
  BY DEF Typed, TypeOK
<1>2. CASE UNCHANGED <<toClient, myRoom, seat>>
  BY <1>2 DEF Knows
<1>3. CASE Press \/ Close \/ UiThread
  BY <1>2, <1>3 DEF Press, Close, UiThread, SubmitNickname, JoinRoom, CreateRoom,
                    RequestLeaveRoom, BackToLobby, SetState, Request, server
<1>4. CASE StartPlaying
  BY <1>2, <1>4 DEF StartPlaying, server
<1>5. ASSUME NEW m, NEW st, Handled(m, st), m.type # "IN_ROOM", UNCHANGED myRoom
      PROVE  Knows(toClient', myRoom', seat')
  <2>1. s # <<>> /\ Head(s) = m /\ toClient' = Tail(s) /\ seat' = seat
    BY <1>5 DEF Handled, server
  <2>2. \A r \in Rooms : Head(s) # InRoom(r)
    BY <1>5, <2>1 DEF InRoom
  <2> QED  BY <1>1, <1>5, <2>1, <2>2, KnowsRead
<1>6. ASSUME NEW r \in Rooms, Handled(InRoom(r), "WAITING_IN_ROOM"), myRoom' = RoomRead[InRoom(r)]
      PROVE  Knows(toClient', myRoom', seat')
  <2>1. s # <<>> /\ Head(s) = InRoom(r) /\ toClient' = Tail(s) /\ seat' = seat
    BY <1>6 DEF Handled, server
  <2>2. myRoom' = r
    BY <1>6, RoomIsRead DEF Handled
  <2>3. (\A q \in Rooms : Head(s) = InRoom(q) => myRoom' = q) /\ Head(s).type = "IN_ROOM"
    BY <2>1, <2>2 DEF InRoom
  <2> QED  BY <1>1, <2>1, <2>3, KnowsRead
<1>7. CASE HandleWelcome
  BY <1>5, <1>7 DEF HandleWelcome, Plain
<1>8. CASE HandleRoomResponse
  BY <1>5, <1>6, <1>8 DEF HandleRoomResponse, Plain, InRoom
<1>9. CASE HandleGameStarting
  BY <1>5, <1>9 DEF HandleGameStarting, Plain
<1>10. CASE HandlePlayerEvent
  BY <1>5, <1>10 DEF HandlePlayerEvent, Plain
<1> QED  BY <1>3, <1>4, <1>7, <1>8, <1>9, <1>10 DEF NetworkThread

LEMMA KnowsServer ==
  ASSUME Typed, Knows(toClient, myRoom, seat), ServerThread \/ Expire
  PROVE  Knows(toClient', myRoom', seat')
<1>1. CASE ServeConnect
  BY <1>1, KnowsServed, Quietly DEF ServeConnect
<1>2. CASE ServeStranger
  BY <1>2, KnowsServed, Quietly DEF ServeStranger
<1>3. ASSUME NEW r \in Rooms, ServeCreate(r)
      PROVE  Knows(toClient', myRoom', seat')
  <2> DEFINE t == <<InRoom(r)>>
  <2>1. t \in Seq(Replies) /\ Len(t) > 0 /\ t[1] = InRoom(r)
        /\ \A i \in 2..Len(t) : t[i].type # "IN_ROOM"
    BY RepliesAre
  <2>2. toClient' = toClient \o t /\ seat' = r /\ toClient \in Seq(Replies)
    BY <1>3 DEF ServeCreate, Serve, Typed, TypeOK, InRoom
  <2> HIDE DEF t
  <2> QED  BY <2>1, <2>2, KnowsNew
<1>4. ASSUME NEW r \in Rooms, ServeJoin(r)
      PROVE  Knows(toClient', myRoom', seat')
  <2> DEFINE t == JoinReplies(r)
  <2>1. t \in Seq(Replies) /\ Len(t) > 0 /\ t[1] = InRoom(r)
        /\ \A i \in 2..Len(t) : t[i].type # "IN_ROOM"
    BY JoinRepliesType DEF JoinReplies, InRoom, Plain
  <2>2. toClient' = toClient \o t /\ seat' = r /\ toClient \in Seq(Replies)
    BY <1>4 DEF ServeJoin, Serve, Typed, TypeOK
  <2> HIDE DEF t
  <2> QED  BY <2>1, <2>2, KnowsNew
<1>5. ASSUME NEW r \in Rooms, RefuseJoin(r)
      PROVE  Knows(toClient', myRoom', seat')
  BY <1>5, KnowsServed, Quietly DEF RefuseJoin
<1>6. CASE ServeLeave
  BY <1>6, KnowsServed, Quietly DEF ServeLeave
<1>7. CASE ServeDisconnect
  BY <1>7, KnowsServed, Quietly DEF ServeDisconnect
<1>8. CASE Expire
  BY <1>8, NoRoomIsNoRoom DEF Expire, Knows
<1> QED  BY <1>1, <1>2, <1>3, <1>4, <1>5, <1>6, <1>7, <1>8 DEF ServerThread

LEMMA KnowsRooms ==
  ASSUME Typed, Knows(toClient, myRoom, seat), RoomEvents \/ \E r \in Rooms : AnnounceEnd(r)
  PROVE  Knows(toClient', myRoom', seat')
<1>1. PICK r \in Rooms : \/ OtherEnters(r) \/ OtherLeaves(r) \/ StartGame(r) \/ LoseGame(r)
                         \/ ForceEnd(r) \/ AnnounceEnd(r)
  BY DEF RoomEvents
<1>2. CASE OtherEnters(r) \/ OtherLeaves(r) \/ ForceEnd(r)
  BY <1>2 DEF OtherEnters, OtherLeaves, ForceEnd, client
<1>3. CASE StartGame(r)
  BY <1>3, KnowsBroadcast, Quietly DEF StartGame
<1>4. CASE LoseGame(r)
  BY <1>4, KnowsBroadcast, Quietly DEF LoseGame
<1>5. CASE AnnounceEnd(r)
  BY <1>5, KnowsBroadcast, Quietly DEF AnnounceEnd
<1> QED  BY <1>1, <1>2, <1>3, <1>4, <1>5

\* Once its mail is read, the room the client took down last is the one it is in.
THEOREM RoomsKnown == Spec => []RoomIsKnown
<1> DEFINE Inv == Knows(toClient, myRoom, seat)
<1>1. Init => Inv
  BY NoRoomIsNoRoom DEF Init, Knows
<1>2. Typed /\ Inv /\ [Next]_vars => Inv'
  <2> SUFFICES ASSUME Typed, Inv, [Next]_vars PROVE Inv'
    OBVIOUS
  <2>1. CASE UNCHANGED vars
    BY <2>1 DEF vars, client, server
  <2> QED
    BY <2>1, KnowsClient, KnowsServer, KnowsRooms DEF Next
<1>3. Inv => RoomIsKnown
  BY DEF Knows, RoomIsKnown, InRoom
<1> HIDE DEF Inv
<1> QED  BY <1>1, <1>2, <1>3, TypedAlways, PTL DEF Spec

(***************************************************************************)
(* ScreenIsTrue.  Every message but GAME_STARTING decides on the screen    *)
(* whatever it is; so the screen that the client comes to, if its user     *)
(* does nothing, is decided by the last of these in the mail s, or by the  *)
(* screen st and the step nt of the network thread if there is none.  The  *)
(* user only ever changes it to one that shows no room.                    *)
(***************************************************************************)
Starts(m) == m.type = "GAME_STARTING"

Decides(s, i) == ~Starts(s[i]) /\ \A j \in 1..Len(s) : j > i => Starts(s[j])

Undecided(s) == \A i \in 1..Len(s) : Starts(s[i])

\* The room r is shown, with its game if it has started.
ShowsRoom(r, started, place, stg) ==
    /\ r \in Rooms
    /\ place = r
    /\ stg[r] \in {"starting", "ending"} \cup (IF started THEN {"playing"} ELSE {"waiting"})

ShowsEnd(place, stg) == place \in Rooms /\ stg[place] \in {"ending", "over"}

MailIsTrue(s, place, stg) ==
    \A i \in 1..Len(s) : Decides(s, i) =>
        /\ s[i].type = "IN_ROOM" => ShowsRoom(s[i].room, i < Len(s), place, stg)
        /\ s[i].type = "GAME_OVER" => ShowsEnd(place, stg)

ViewIsTrue(started, st, nt, room, place, stg) ==
    /\ nt = "start" \/ st = "PLAYING" => ShowsRoom(room, TRUE, place, stg)
    /\ nt = "idle" /\ st = "WAITING_IN_ROOM" => ShowsRoom(room, started, place, stg)
    /\ nt = "idle" /\ st = "GAME_OVER" => ShowsEnd(place, stg)

Settles(s, st, nt, room, place, stg) ==
    /\ MailIsTrue(s, place, stg)
    /\ Undecided(s) => ViewIsTrue(Len(s) > 0, st, nt, room, place, stg)

\* A room's stage that only a message changes: an administrator's end, unannounced.
Unannounced(place, stg, stg2) ==
    place \in Rooms =>
        \/ stg2[place] = stg[place]
        \/ stg2[place] = "ending"
        \/ stg[place] = "waiting" /\ stg2[place] = "starting"
        \/ stg[place] = "none"

LEMMA SettlesStill ==
  ASSUME NEW s, NEW st, NEW nt, NEW room, NEW place, NEW stg, NEW stg2,
         Settles(s, st, nt, room, place, stg), Unannounced(place, stg, stg2)
  PROVE  Settles(s, st, nt, room, place, stg2)
<1>1. \A r, b : ShowsRoom(r, b, place, stg) => ShowsRoom(r, b, place, stg2)
  BY DEF ShowsRoom, Unannounced
<1>2. ShowsEnd(place, stg) => ShowsEnd(place, stg2)
  BY DEF ShowsEnd, Unannounced
<1>3. MailIsTrue(s, place, stg2)
  BY <1>1, <1>2 DEF Settles, MailIsTrue
<1>4. Undecided(s) => ViewIsTrue(Len(s) > 0, st, nt, room, place, stg2)
  BY <1>1, <1>2 DEF Settles, ViewIsTrue
<1> QED  BY <1>3, <1>4 DEF Settles

\* The user's steps.
LEMMA SettlesUser ==
  ASSUME NEW s, NEW st, NEW st2, NEW nt, NEW room, NEW place, NEW stg,
         Settles(s, st, nt, room, place, stg),
         st2 = st \/ st2 \in {"CONNECTING", "CREATING_ROOM", "LOBBY"}
  PROVE  Settles(s, st2, nt, room, place, stg)
BY DEF Settles, ViewIsTrue

\* A message is read.
LEMMA SettlesRead ==
  ASSUME NEW s \in Seq(Replies), s # <<>>,
         NEW st, NEW nt, NEW room, NEW st2, NEW nt2, NEW room2, NEW place, NEW stg,
         MailIsTrue(s, place, stg),
         Starts(Head(s)) /\ Undecided(s) => ViewIsTrue(Len(s) > 1, st2, nt2, room2, place, stg),
         ~Starts(Head(s)) =>
            /\ nt2 = "idle"
            /\ Head(s).type = "IN_ROOM" => st2 = "WAITING_IN_ROOM" /\ room2 = Head(s).room
            /\ Head(s).type # "IN_ROOM" => st2 \notin {"WAITING_IN_ROOM", "PLAYING"}
            /\ st2 = "GAME_OVER" => Head(s).type = "GAME_OVER"
  PROVE  Settles(Tail(s), st2, nt2, room2, place, stg)
<1> DEFINE n == Len(s)
           t == Tail(s)
<1>1. /\ n \in Nat /\ n > 0 /\ Len(t) = n - 1
      /\ \A i \in 1..Len(t) : t[i] = s[i + 1]
      /\ Head(s) = s[1]
  BY TailIs
<1> HIDE DEF t, n
<1>2. \A i \in 1..Len(t) : Decides(t, i) => i + 1 \in 1..n /\ Decides(s, i + 1) /\ (i < Len(t) <=> i + 1 < n)
  <2> SUFFICES ASSUME NEW i \in 1..Len(t), Decides(t, i)
               PROVE  i + 1 \in 1..n /\ Decides(s, i + 1) /\ (i < Len(t) <=> i + 1 < n)
    OBVIOUS
  <2>1. i + 1 \in 1..n /\ (i < Len(t) <=> i + 1 < n) /\ t[i] = s[i + 1]
    BY <1>1
  <2>2. \A j \in 1..n : j > i + 1 => Starts(s[j])
    <3> SUFFICES ASSUME NEW j \in 1..n, j > i + 1 PROVE Starts(s[j])
      OBVIOUS
    <3>1. j - 1 \in 1..Len(t) /\ j - 1 > i /\ t[j - 1] = s[j]
      BY <1>1
    <3> QED  BY <3>1 DEF Decides
  <2> QED  BY <2>1, <2>2 DEF Decides, n
<1>3. MailIsTrue(t, place, stg)
  BY <1>1, <1>2 DEF MailIsTrue, n
<1>4. ASSUME Undecided(t)
      PROVE  ViewIsTrue(Len(t) > 0, st2, nt2, room2, place, stg)
  <2>1. \A j \in 1..n : j > 1 => Starts(s[j])
    <3> SUFFICES ASSUME NEW j \in 1..n, j > 1 PROVE Starts(s[j])
      OBVIOUS
    <3>1. j - 1 \in 1..Len(t) /\ t[j - 1] = s[j]
      BY <1>1
    <3> QED  BY <1>4, <3>1 DEF Undecided
  <2>2. (Len(t) > 0) = (n > 1)
    BY <1>1
  <2>3. CASE Starts(Head(s))
    <3>1. Undecided(s)
      BY <1>1, <2>1, <2>3 DEF Undecided, n
    <3> QED  BY <2>2, <2>3, <3>1 DEF n
  <2>4. CASE ~Starts(Head(s))
    <3>1. 1 \in 1..n /\ Decides(s, 1)
      BY <1>1, <2>1, <2>4 DEF Decides, n
    <3>2. /\ s[1].type = "IN_ROOM" => ShowsRoom(s[1].room, n > 1, place, stg)
          /\ s[1].type = "GAME_OVER" => ShowsEnd(place, stg)
      BY <3>1 DEF MailIsTrue, n
    <3> QED  BY <1>1, <2>2, <2>4, <3>2 DEF ViewIsTrue
  <2> QED  BY <2>3, <2>4
<1> QED  BY <1>3, <1>4 DEF Settles, t

\* Only the last message that decides counts.
LEMMA SettlesNew ==
  ASSUME NEW s \in Seq(Replies), NEW t \in Seq(Replies), ~Undecided(t),
         NEW st, NEW nt, NEW room, NEW place, NEW stg, MailIsTrue(t, place, stg)
  PROVE  Settles(s \o t, st, nt, room, place, stg)
<1> DEFINE u == s \o t
           n == Len(s)
<1>1. /\ n \in Nat /\ Len(t) \in Nat /\ Len(u) = n + Len(t)
      /\ \A i \in 1..Len(t) : n + i \in 1..Len(u) /\ u[n + i] = t[i]
  BY CatIs
<1> HIDE DEF u, n
<1>2. PICK k \in 1..Len(t) : ~Starts(t[k])
  BY DEF Undecided
<1>3. n + k \in 1..Len(u) /\ ~Starts(u[n + k])
  BY <1>1, <1>2
<1>4. \A i \in 1..Len(u) : Decides(u, i) =>
        i - n \in 1..Len(t) /\ u[i] = t[i - n] /\ Decides(t, i - n) /\ (i < Len(u) <=> i - n < Len(t))
  <2> SUFFICES ASSUME NEW i \in 1..Len(u), Decides(u, i)
               PROVE  /\ i - n \in 1..Len(t) /\ u[i] = t[i - n]
                      /\ Decides(t, i - n) /\ (i < Len(u) <=> i - n < Len(t))
    OBVIOUS
  <2>1. i >= n + k
    BY <1>1, <1>3 DEF Decides
  <2>2. i - n \in 1..Len(t) /\ n + (i - n) = i /\ (i < Len(u) <=> i - n < Len(t))
    BY <1>1, <2>1
  <2>3. u[i] = t[i - n]
    BY <1>1, <2>2
  <2>4. \A j \in 1..Len(t) : j > i - n => Starts(t[j])
    BY <1>1, <2>2 DEF Decides
  <2> QED  BY <2>2, <2>3, <2>4 DEF Decides
<1>5. MailIsTrue(u, place, stg)
  BY <1>4 DEF MailIsTrue
<1>6. ~Undecided(u)
  BY <1>3 DEF Undecided
<1> QED  BY <1>5, <1>6 DEF Settles, u

\* A GAME_STARTING is sent to a room that plays now.
LEMMA SettlesStart ==
  ASSUME NEW s \in Seq(Replies), NEW m \in Replies, Starts(m),
         NEW st, NEW nt, NEW room, NEW place, NEW stg, NEW stg2,
         Settles(s, st, nt, room, place, stg),
         place \in Rooms => stg[place] = "starting" /\ stg2[place] = "playing"
  PROVE  Settles(s \o <<m>>, st, nt, room, place, stg2)
<1> DEFINE u == s \o <<m>>
           n == Len(s)
<1>1. /\ n \in Nat /\ Len(u) = n + 1
      /\ \A i \in 1..n : u[i] = s[i]
      /\ u[n + 1] = m
  OBVIOUS
<1> HIDE DEF u, n
<1>2. \A r, b : ShowsRoom(r, b, place, stg) => ShowsRoom(r, TRUE, place, stg2)
  BY DEF ShowsRoom
<1>3. ~ShowsEnd(place, stg)
  BY DEF ShowsEnd
<1>4. \A i \in 1..Len(u) : Decides(u, i) => i \in 1..n /\ Decides(s, i) /\ u[i] = s[i]
  BY <1>1 DEF Decides, n
<1>5. MailIsTrue(u, place, stg2)
  <2> SUFFICES ASSUME NEW i \in 1..Len(u), Decides(u, i)
               PROVE  /\ u[i].type = "IN_ROOM" => ShowsRoom(u[i].room, i < Len(u), place, stg2)
                      /\ u[i].type = "GAME_OVER" => ShowsEnd(place, stg2)
    BY DEF MailIsTrue
  <2>1. i \in 1..n /\ Decides(s, i) /\ u[i] = s[i]
    BY <1>4
  <2>2. /\ s[i].type = "IN_ROOM" => ShowsRoom(s[i].room, i < n, place, stg)
        /\ s[i].type = "GAME_OVER" => ShowsEnd(place, stg)
    BY <2>1 DEF Settles, MailIsTrue, n
  <2>3. (i < Len(u)) = TRUE
    BY <1>1, <2>1
  <2> QED  BY <1>2, <1>3, <2>1, <2>2, <2>3
<1>6. ASSUME Undecided(u)
      PROVE  ViewIsTrue(Len(u) > 0, st, nt, room, place, stg2)
  <2>1. Undecided(s)
    BY <1>1, <1>6 DEF Undecided, n
  <2>2. ViewIsTrue(n > 0, st, nt, room, place, stg)
    BY <2>1 DEF Settles, n
  <2>3. (Len(u) > 0) = TRUE
    BY <1>1
  <2> QED  BY <1>2, <1>3, <2>2, <2>3 DEF ViewIsTrue
<1> QED  BY <1>5, <1>6 DEF Settles, u

WhenRegistered(s, st, nt, room, reg, place, stg) == reg => Settles(s, st, nt, room, place, stg)

InTheEnd ==
    WhenRegistered(toClient, state, net, myRoom, registered, seat, stage)

LEMMA EndClient ==
  ASSUME Typed, InTheEnd, Press \/ Close \/ UiThread \/ NetworkThread
  PROVE  InTheEnd'
<1> DEFINE s == toClient
<1>1. s \in Seq(Replies) /\ net \in {"idle", "start"}
  BY DEF Typed, TypeOK
<1>2. CASE Press \/ Close \/ UiThread
  <2>1. /\ UNCHANGED <<toClient, net, myRoom, registered, seat, stage>>
        /\ state' = state \/ state' \in {"CONNECTING", "CREATING_ROOM", "LOBBY"}
    BY <1>2 DEF Press, Close, UiThread, SubmitNickname, JoinRoom, CreateRoom,
                RequestLeaveRoom, BackToLobby, SetState, Request, server
  <2> QED  BY <2>1, SettlesUser DEF InTheEnd, WhenRegistered
<1>3. CASE StartPlaying
  <2>1. UNCHANGED <<toClient, myRoom, registered, seat, stage>>
        /\ net = "start" /\ state' = "PLAYING" /\ net' = "idle"
    BY <1>3 DEF StartPlaying, server
  <2> QED  BY <2>1 DEF InTheEnd, WhenRegistered, Settles, ViewIsTrue
<1>4. ASSUME NEW m, NEW st, Handled(m, st), ~Starts(m), net' = net,
             m.type = "IN_ROOM" => st = "WAITING_IN_ROOM" /\ myRoom' = m.room,
             m.type # "IN_ROOM" => st \in {"LOBBY", "ENTERING_NICKNAME", "GAME_OVER"},
             st = "GAME_OVER" => m.type = "GAME_OVER"
      PROVE  InTheEnd'
  <2>1. /\ s # <<>> /\ Head(s) = m /\ toClient' = Tail(s) /\ state' = st
        /\ net' = "idle" /\ UNCHANGED <<registered, seat, stage>>
    BY <1>4 DEF Handled, server
  <2> SUFFICES ASSUME registered PROVE Settles(Tail(s), st, "idle", myRoom', seat, stage)
    BY <2>1 DEF InTheEnd, WhenRegistered
  <2>2. MailIsTrue(s, seat, stage)
    BY DEF InTheEnd, WhenRegistered, Settles
  <2> QED  BY <1>1, <1>4, <2>1, <2>2, SettlesRead
<1>5. CASE HandleWelcome
  BY <1>4, <1>5 DEF HandleWelcome, Plain, Starts
<1>6. CASE HandleRoomResponse
  <2>1. CASE \E r \in Rooms : Handled(InRoom(r), "WAITING_IN_ROOM") /\ myRoom' = RoomRead[InRoom(r)]
    <3>1. PICK r \in Rooms : Handled(InRoom(r), "WAITING_IN_ROOM") /\ myRoom' = RoomRead[InRoom(r)]
      BY <2>1
    <3>2. myRoom' = r
      BY <3>1, RoomIsRead DEF Handled
    <3> QED  BY <1>4, <1>6, <3>1, <3>2 DEF HandleRoomResponse, InRoom, Starts
  <2>2. CASE Handled(Plain("NO_ROOM"), AfterRefusal) /\ UNCHANGED myRoom
    BY <1>4, <1>6, <2>2 DEF HandleRoomResponse, AfterRefusal, Plain, Starts
  <2> QED  BY <1>6, <2>1, <2>2 DEF HandleRoomResponse, InRoom
<1>7. CASE HandleGameStarting
  <2> DEFINE m == Plain("GAME_STARTING")
  <2>1. /\ s # <<>> /\ Head(s) = m /\ toClient' = Tail(s) /\ state' = state /\ net = "idle"
        /\ net' = (IF state = "WAITING_IN_ROOM" THEN "start" ELSE "idle")
        /\ UNCHANGED <<myRoom, registered, seat, stage>>
    BY <1>7 DEF HandleGameStarting, Handled, server
  <2>2. Starts(Head(s))
    BY <2>1 DEF Starts, Plain
  <2> SUFFICES ASSUME registered PROVE Settles(Tail(s), state, net', myRoom, seat, stage)
    BY <2>1 DEF InTheEnd, WhenRegistered
  <2>3. MailIsTrue(s, seat, stage)
        /\ (Undecided(s) => ViewIsTrue(Len(s) > 0, state, "idle", myRoom, seat, stage))
    BY <2>1 DEF InTheEnd, WhenRegistered, Settles
  <2>4. (Len(s) > 0) = TRUE
    BY <1>1, <2>1, TailIs
  <2>5. ASSUME Undecided(s)
        PROVE  ViewIsTrue(Len(s) > 1, state, net', myRoom, seat, stage)
    BY <2>1, <2>3, <2>4, <2>5 DEF ViewIsTrue
  <2> QED  BY <1>1, <2>1, <2>2, <2>3, <2>5, SettlesRead
<1>8. CASE HandlePlayerEvent
  BY <1>4, <1>8 DEF HandlePlayerEvent, Plain, Starts
<1> QED  BY <1>2, <1>3, <1>5, <1>6, <1>7, <1>8 DEF NetworkThread

LEMMA LeaveIsDropped == Plain("LEAVE_ROOM") \notin Accepted
<1> DEFINE p == Packet(Plain("LEAVE_ROOM"))
<1>1. Written("LEAVE_ROOM_REQUEST") = WritesLeave.LEAVE_ROOM_REQUEST
  BY WriteDomains, WrittenIs
<1>2. p.announced = 8 /\ p.length = 7
  BY <1>1 DEF Packet, Plain, WireType, Serialize, WritesLeave, Writes, HeaderSize, Size
<1>3. ~Accepts(p)
  BY <1>2 DEF Accepts, Consistent
<1> QED  BY <1>3 DEF Accepted

LEMMA MailOfOne ==
  ASSUME NEW m, NEW place, NEW stg, ~Starts(m),
         m.type = "IN_ROOM" => ShowsRoom(m.room, FALSE, place, stg),
         m.type = "GAME_OVER" => ShowsEnd(place, stg)
  PROVE  MailIsTrue(<<m>>, place, stg) /\ ~Undecided(<<m>>)
<1> DEFINE t == <<m>>
<1>1. Len(t) = 1 /\ t[1] = m
  OBVIOUS
<1> HIDE DEF t
<1>2. ~Undecided(t)
  BY <1>1 DEF Undecided
<1>3. MailIsTrue(t, place, stg)
  <2> SUFFICES ASSUME NEW i \in 1..Len(t)
               PROVE  /\ t[i].type = "IN_ROOM" => ShowsRoom(t[i].room, i < Len(t), place, stg)
                      /\ t[i].type = "GAME_OVER" => ShowsEnd(place, stg)
    BY DEF MailIsTrue
  <2>1. t[i] = m /\ (i < Len(t)) = FALSE
    BY <1>1
  <2> QED  BY <2>1
<1> QED  BY <1>2, <1>3 DEF t

LEMMA EndServer ==
  ASSUME Typed, InTheEnd, ServerThread \/ Expire
  PROVE  InTheEnd'
<1> DEFINE s == toClient
<1>1. s \in Seq(Replies) /\ s \o <<>> = s /\ stage \in [Rooms -> Stages]
  BY DEF Typed, TypeOK, Stages
<1>2. ASSUME registered' = FALSE PROVE InTheEnd'
  BY <1>2 DEF InTheEnd, WhenRegistered
<1>3. ASSUME NEW type, Serve(type, <<>>), UNCHANGED <<registered, seat, stage>>
      PROVE  InTheEnd'
  <2>1. UNCHANGED <<toClient, state, net, myRoom>>
    BY <1>1, <1>3 DEF Serve, client
  <2> QED  BY <1>3, <2>1 DEF InTheEnd
<1>4. ASSUME NEW type, NEW t \in Seq(Replies), Serve(type, t), ~Undecided(t),
             MailIsTrue(t, seat', stage')
      PROVE  InTheEnd'
  <2>1. toClient' = s \o t
    BY <1>4 DEF Serve
  <2> QED  BY <1>1, <1>4, <2>1, SettlesNew DEF InTheEnd, WhenRegistered
<1>5. ASSUME NEW type, NEW a \in {"ACCEPTED", "REJECTED", "NO_ROOM"}, Serve(type, <<Plain(a)>>)
      PROVE  InTheEnd'
  <2>1. MailIsTrue(<<Plain(a)>>, seat', stage') /\ ~Undecided(<<Plain(a)>>)
    BY MailOfOne DEF Plain, Starts
  <2> QED  BY <1>4, <1>5, <2>1, Quietly
<1>6. CASE ServeConnect
  BY <1>3, <1>5, <1>6 DEF ServeConnect
<1>7. CASE ServeStranger
  BY <1>3, <1>7 DEF ServeStranger
<1>8. ASSUME NEW r \in Rooms, ServeCreate(r) PROVE InTheEnd'
  <2>1. Serve("CREATE_ROOM", <<InRoom(r)>>) /\ seat' = r /\ stage'[r] = "waiting"
    BY <1>8, StageLeftType DEF ServeCreate, InRoom, Typed
  <2>2. MailIsTrue(<<InRoom(r)>>, seat', stage') /\ ~Undecided(<<InRoom(r)>>)
    BY <2>1, MailOfOne DEF InRoom, Starts, ShowsRoom
  <2>3. <<InRoom(r)>> \in Seq(Replies)
    BY RepliesAre
  <2> QED  BY <1>4, <2>1, <2>2, <2>3
<1>9. ASSUME NEW r \in Rooms, ServeJoin(r) PROVE InTheEnd'
  <2> DEFINE t == JoinReplies(r)
  <2>1. /\ Serve("JOIN_ROOM", t) /\ seat' = r /\ Joinable(r)
        /\ stage'[r] = (IF StageLeft[r] = "waiting" /\ others[r] > 0 THEN "starting" ELSE StageLeft[r])
    BY <1>9, StageLeftType DEF ServeJoin, Typed
  <2>2. CASE StageLeft[r] \in Live
    <3>1. JoinReplies(r) = <<InRoom(r)>> \o <<Plain("GAME_STARTING")>>
      BY <2>2 DEF JoinReplies, InRoom
    <3>2. ShowsRoom(r, TRUE, seat', stage')
      BY <2>1, <2>2 DEF ShowsRoom, Live
    <3>3. Len(t) = 2 /\ t[1] = InRoom(r) /\ t[2] = Plain("GAME_STARTING")
      BY <3>1
    <3> HIDE DEF t
    <3>4. ~Undecided(t)
      BY <3>3 DEF Undecided, Starts, InRoom
    <3>5. MailIsTrue(t, seat', stage')
      <4> SUFFICES ASSUME NEW i \in 1..Len(t), Decides(t, i)
                   PROVE  /\ t[i].type = "IN_ROOM" => ShowsRoom(t[i].room, i < Len(t), seat', stage')
                          /\ t[i].type = "GAME_OVER" => ShowsEnd(seat', stage')
        BY DEF MailIsTrue
      <4>1. i = 1 /\ (i < Len(t)) = TRUE
        BY <3>3 DEF Decides, Starts, Plain
      <4>2. t[i].type = "IN_ROOM" /\ t[i].room = r
        BY <3>3, <4>1 DEF InRoom
      <4> QED  BY <3>2, <4>1, <4>2
    <3> USE DEF t
    <3> QED  BY <1>4, <2>1, <3>4, <3>5, JoinRepliesType
  <2>3. CASE StageLeft[r] \notin Live
    <3>1. t = <<InRoom(r)>>
      BY <2>3 DEF JoinReplies, InRoom
    <3>2. ShowsRoom(r, FALSE, seat', stage')
      BY <2>1, <2>3 DEF ShowsRoom, Joinable
    <3>3. MailIsTrue(t, seat', stage') /\ ~Undecided(t)
      BY <3>1, <3>2, MailOfOne DEF InRoom, Starts
    <3> QED  BY <1>4, <2>1, <3>3, JoinRepliesType
  <2> QED  BY <2>2, <2>3
<1>10. ASSUME NEW r \in Rooms, RefuseJoin(r) PROVE InTheEnd'
  BY <1>5, <1>10 DEF RefuseJoin
<1>11. CASE ServeLeave
  BY <1>3, <1>11, LeaveIsDropped DEF ServeLeave
<1>12. CASE ServeDisconnect
  BY <1>2, <1>12 DEF ServeDisconnect
<1>13. CASE Expire
  BY <1>2, <1>13 DEF Expire
<1> QED  BY <1>6, <1>7, <1>8, <1>9, <1>10, <1>11, <1>12, <1>13 DEF ServerThread

LEMMA EndRooms ==
  ASSUME Typed, InTheEnd, RoomEvents \/ \E r \in Rooms : AnnounceEnd(r)
  PROVE  InTheEnd'
<1> DEFINE s == toClient
<1>1. s \in Seq(Replies) /\ s \o <<>> = s /\ stage \in [Rooms -> Stages]
      /\ others \in [Rooms -> Nat]
  BY DEF Typed, TypeOK, Stages
<1>2. PICK r \in Rooms : \/ OtherEnters(r) \/ OtherLeaves(r) \/ StartGame(r) \/ LoseGame(r)
                         \/ ForceEnd(r) \/ AnnounceEnd(r)
  BY DEF RoomEvents
<1>3. UNCHANGED <<state, net, myRoom, registered, seat>>
  BY <1>2 DEF OtherEnters, OtherLeaves, StartGame, LoseGame, ForceEnd, AnnounceEnd, client
<1>4. ASSUME toClient' = toClient, Unannounced(seat, stage, stage') PROVE InTheEnd'
  BY <1>3, <1>4, SettlesStill DEF InTheEnd, WhenRegistered
<1>5. ASSUME NEW t \in Seq(Replies), Broadcast(r, t), seat # r, \A q \in Rooms : q # r => stage'[q] = stage[q]
      PROVE  InTheEnd'
  BY <1>1, <1>4, <1>5 DEF Broadcast, Heard, Unannounced
<1>6. ASSUME NEW t \in Seq(Replies), Broadcast(r, t), seat = r, ~Undecided(t), MailIsTrue(t, seat, stage')
      PROVE  InTheEnd'
  <2>1. toClient' = s \o t
    BY <1>6 DEF Broadcast, Heard
  <2> QED  BY <1>1, <1>3, <1>6, <2>1, SettlesNew DEF InTheEnd, WhenRegistered
<1>7. CASE OtherEnters(r)
  BY <1>1, <1>4, <1>7 DEF OtherEnters, client, Unannounced, Live, Population
<1>8. CASE OtherLeaves(r)
  <2>1. seat = r => Population(r) # 1
    BY <1>1, <1>8 DEF OtherLeaves, Population
  <2> QED  BY <1>1, <1>4, <1>8, <2>1 DEF OtherLeaves, client, Unannounced
<1>9. CASE ForceEnd(r)
  BY <1>1, <1>4, <1>9 DEF ForceEnd, client, Unannounced
<1>10. CASE StartGame(r)
  <2> DEFINE m == Plain("GAME_STARTING")
  <2>1. m \in Replies /\ Starts(m) /\ <<m>> \in Seq(Replies) /\ Broadcast(r, <<m>>)
        /\ stage[r] = "starting" /\ stage'[r] = "playing"
        /\ \A q \in Rooms : q # r => stage'[q] = stage[q]
    BY <1>1, <1>10, RepliesAre DEF StartGame, Starts, Plain
  <2>2. CASE seat # r
    BY <1>5, <2>1, <2>2
  <2>3. CASE seat = r
    <3>1. toClient' = s \o <<m>>
      BY <2>1, <2>3 DEF Broadcast, Heard
    <3> HIDE DEF m
    <3> QED  BY <1>1, <1>3, <2>1, <2>3, <3>1, SettlesStart DEF InTheEnd, WhenRegistered
  <2> QED  BY <2>2, <2>3
<1>11. CASE LoseGame(r)
  <2> DEFINE t == <<Plain("GAME_OVER"), Plain("GAME_OVER")>>
  <2>1. t \in Seq(Replies) /\ Broadcast(r, t) /\ stage'[r] = "over"
        /\ \A q \in Rooms : q # r => stage'[q] = stage[q]
    BY <1>1, <1>11, Quietly DEF LoseGame
  <2>2. ~Undecided(t) /\ (seat = r => MailIsTrue(t, seat, stage'))
    BY <2>1 DEF Undecided, MailIsTrue, ShowsEnd, Starts, Plain
  <2> HIDE DEF t
  <2> QED  BY <1>5, <1>6, <2>1, <2>2
<1>12. CASE AnnounceEnd(r)
  <2> DEFINE t == <<Plain("GAME_OVER")>>
  <2>1. t \in Seq(Replies) /\ Broadcast(r, t) /\ stage'[r] = "over"
        /\ \A q \in Rooms : q # r => stage'[q] = stage[q]
    BY <1>1, <1>12, Quietly DEF AnnounceEnd
  <2>2. ~Undecided(t) /\ (seat = r => MailIsTrue(t, seat, stage'))
    BY <2>1 DEF Undecided, MailIsTrue, ShowsEnd, Starts, Plain
  <2> HIDE DEF t
  <2> QED  BY <1>5, <1>6, <2>1, <2>2
<1> QED  BY <1>2, <1>7, <1>8, <1>9, <1>10, <1>11, <1>12

\* Whatever the two threads, the other players and the administrator did: once
\* nothing is under way, what the client shows is where the server has it.
THEOREM ScreensAreTrue == Spec => []ScreenIsTrue
<1>1. Init => InTheEnd
  BY DEF Init, InTheEnd, WhenRegistered
<1>2. Typed /\ InTheEnd /\ [Next]_vars => InTheEnd'
  <2> SUFFICES ASSUME Typed, InTheEnd, [Next]_vars PROVE InTheEnd'
    OBVIOUS
  <2>1. CASE UNCHANGED vars
    BY <2>1 DEF vars, client, server, InTheEnd
  <2> QED
    BY <2>1, EndClient, EndServer, EndRooms DEF Next
<1>3. InTheEnd => ScreenIsTrue
  <2> SUFFICES ASSUME InTheEnd, Quiet PROVE ScreenIsTrue
    BY DEF ScreenIsTrue
  <2>1. Len(toClient) = 0 /\ registered /\ net = "idle"
    BY DEF Quiet
  <2>2. Undecided(toClient) /\ (Len(toClient) > 0) = FALSE
    BY <2>1 DEF Undecided
  <2>3. ViewIsTrue(FALSE, state, net, myRoom, seat, stage)
    BY <2>1, <2>2 DEF InTheEnd, WhenRegistered, Settles
  <2> QED  BY <2>1, <2>3 DEF ScreenIsTrue, ViewIsTrue, ShowsRoom, ShowsEnd
<1> QED  BY <1>1, <1>2, <1>3, TypedAlways, PTL DEF Spec

=============================================================================
