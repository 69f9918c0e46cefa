-------------------------------- MODULE Wire --------------------------------
(***************************************************************************)
(* The packets of the game protocol: what each message's serialize()       *)
(* writes, and what MessageFactory::deserialize makes of it.               *)
(*                                                                         *)
(* A packet is a header, with the size of the whole and the type, and a    *)
(* packed structure.  Of a structure the model keeps its size and its      *)
(* 32-bit ids, which the sender has to put into network order and the      *)
(* receiver back: an id that only one of them converts is Garbled (hosts   *)
(* are little-endian).  Names, flags and floats travel byte by byte, in    *)
(* one piece (rest).  DELTA_SNAPSHOT, which nothing sends, is left out.    *)
(***************************************************************************)
EXTENDS Integers, Sequences

\* What deserialize answers by an exception, and an id whose bytes are in the wrong
\* order, which is nobody's.
Refused == "refused"
Garbled == "garbled"

\* sizeof of the packed structures.
HeaderSize == 3

Size == [none |-> 0, ConnectRequest |-> 21, PlayerInput |-> 5, Welcome |-> 90,
         PlayerEvent |-> 5, CreateRoomRequest |-> 39, RoomResponse |-> 5,
         JoinRoomRequest |-> 4, LeaveRoomRequest |-> 4, PlayerRoomNotification |-> 29,
         RoomInfo |-> 7, entity_state |-> 29, Snapshot |-> 24]

-----------------------------------------------------------------------------
(* serialize(): the size the header announces, the size of the buffer, and     *)
(* the ids put into network order                                              *)

Writes(announced, s, ids) ==
    [announced |-> HeaderSize + Size[announced], length |-> HeaderSize + Size[s], ids |-> ids]

WritesPlayer == [
    CONNECT    |-> Writes("ConnectRequest", "ConnectRequest", {}),
    DISCONNECT |-> Writes("none", "none", {}),
    INPUT      |-> Writes("PlayerInput", "PlayerInput", {"playerId"}),
    WELCOME    |-> Writes("Welcome", "Welcome", {"playerId"})]

\* Its header announces the size of another message.
WritesLeave == [
    LEAVE_ROOM_REQUEST |-> Writes("PlayerInput", "LeaveRoomRequest", {"roomId"})]

WritesEvents == [
    PLAYER_EVENT |-> Writes("PlayerEvent", "PlayerEvent", {"playerId"}),
    ERROR        |-> Writes("none", "none", {})]

WritesRooms == [
    CREATE_ROOM_REQUEST  |-> Writes("CreateRoomRequest", "CreateRoomRequest", {}),
    CREATE_ROOM_RESPONSE |-> Writes("RoomResponse", "RoomResponse", {"roomId"}),
    JOIN_ROOM_REQUEST    |-> Writes("JoinRoomRequest", "JoinRoomRequest", {"roomId"}),
    JOIN_ROOM_RESPONSE   |-> Writes("RoomResponse", "RoomResponse", {"roomId"})]

WritesNotices == [
    PLAYER_JOINED_ROOM |-> Writes("PlayerRoomNotification", "PlayerRoomNotification",
                                  {"roomId", "playerId"}),
    PLAYER_LEFT_ROOM   |-> Writes("PlayerRoomNotification", "PlayerRoomNotification",
                                  {"roomId", "playerId"}),
    GAME_STARTING      |-> Writes("none", "none", {})]

WritesListRequest == [LIST_ROOMS_REQUEST |-> Writes("none", "none", {})]

Written(t) ==
    CASE t \in DOMAIN WritesPlayer      -> WritesPlayer[t]
      [] t \in DOMAIN WritesLeave       -> WritesLeave[t]
      [] t \in DOMAIN WritesEvents      -> WritesEvents[t]
      [] t \in DOMAIN WritesRooms       -> WritesRooms[t]
      [] t \in DOMAIN WritesNotices     -> WritesNotices[t]
      [] t \in DOMAIN WritesListRequest -> WritesListRequest[t]

\* The messages without a list.
Types == DOMAIN WritesPlayer \cup DOMAIN WritesLeave \cup DOMAIN WritesEvents
         \cup DOMAIN WritesRooms \cup DOMAIN WritesNotices \cup DOMAIN WritesListRequest

Serialize(m) ==
    [type |-> m.type, announced |-> Written(m.type).announced,
     length |-> Written(m.type).length, converted |-> Written(m.type).ids,
     ids |-> m.ids, rest |-> m.rest]

-----------------------------------------------------------------------------
(* MessageFactory::deserialize: the least size it demands, the size it copies,  *)
(* and the ids it converts                                                      *)

Reads(least, s, ids) == [least |-> Size[least], copied |-> Size[s], ids |-> ids]

ReadsPlayer == [
    CONNECT            |-> Reads("ConnectRequest", "ConnectRequest", {}),
    DISCONNECT         |-> Reads("none", "none", {}),
    INPUT              |-> Reads("none", "PlayerInput", {"playerId"}),
    LEAVE_ROOM_REQUEST |-> Reads("none", "LeaveRoomRequest", {"roomId"}),
    WELCOME            |-> Reads("Welcome", "Welcome", {"playerId"})]

ReadsEvents == [
    PLAYER_EVENT       |-> Reads("none", "PlayerEvent", {"playerId"}),
    LIST_ROOMS_REQUEST |-> Reads("none", "none", {})]

\* Regression: the ids of answers are not converted back, as they once were not.
ReadsRoomsRaw == [
    CREATE_ROOM_REQUEST  |-> Reads("CreateRoomRequest", "CreateRoomRequest", {}),
    CREATE_ROOM_RESPONSE |-> Reads("RoomResponse", "RoomResponse", {}),
    JOIN_ROOM_REQUEST    |-> Reads("JoinRoomRequest", "JoinRoomRequest", {"roomId"}),
    JOIN_ROOM_RESPONSE   |-> Reads("RoomResponse", "RoomResponse", {}),
    PLAYER_JOINED_ROOM   |-> Reads("PlayerRoomNotification", "PlayerRoomNotification", {}),
    PLAYER_LEFT_ROOM     |-> Reads("PlayerRoomNotification", "PlayerRoomNotification", {}),
    GAME_STARTING        |-> Reads("none", "none", {}),
    ERROR                |-> Reads("none", "none", {})]

ReadsRooms == [
    CREATE_ROOM_REQUEST  |-> Reads("CreateRoomRequest", "CreateRoomRequest", {}),
    CREATE_ROOM_RESPONSE |-> Reads("RoomResponse", "RoomResponse", {"roomId"}),
    JOIN_ROOM_REQUEST    |-> Reads("JoinRoomRequest", "JoinRoomRequest", {"roomId"}),
    JOIN_ROOM_RESPONSE   |-> Reads("RoomResponse", "RoomResponse", {"roomId"}),
    PLAYER_JOINED_ROOM   |-> Reads("PlayerRoomNotification", "PlayerRoomNotification",
                                   {"roomId", "playerId"}),
    PLAYER_LEFT_ROOM     |-> Reads("PlayerRoomNotification", "PlayerRoomNotification",
                                   {"roomId", "playerId"}),
    GAME_STARTING        |-> Reads("none", "none", {}),
    ERROR                |-> Reads("none", "none", {})]

Read(t) ==
    CASE t \in DOMAIN ReadsPlayer -> ReadsPlayer[t]
      [] t \in DOMAIN ReadsEvents -> ReadsEvents[t]
      [] t \in DOMAIN ReadsRooms  -> ReadsRooms[t]

\* The header gives the size of the packet.
Consistent(p) == p.length >= HeaderSize /\ p.announced = p.length

Accepts(p) == Consistent(p) /\ p.length - HeaderSize >= Read(p.type).least

Deserialize(p) ==
    IF ~Accepts(p) THEN Refused
    ELSE [type |-> p.type, rest |-> p.rest,
          ids |-> [f \in DOMAIN p.ids |->
                     IF f \in p.converted <=> f \in Read(p.type).ids THEN p.ids[f] ELSE Garbled]]

-----------------------------------------------------------------------------
(* ROOM_LIST_RESPONSE: a count of one byte, then the rooms                     *)

Count8(rooms) == Len(rooms) % 256

RoomListLength(count) == HeaderSize + 1 + count * Size.RoomInfo

\* The buffer is made for count rooms, and every room is written (written).
SerializeRoomList(rooms) ==
    [announced |-> RoomListLength(Count8(rooms)), length |-> RoomListLength(Count8(rooms)),
     count |-> Count8(rooms), written |-> RoomListLength(Len(rooms)), rooms |-> rooms]

\* The ids of all rooms are converted on both sides.
DeserializeRoomList(p) ==
    IF Consistent(p) /\ p.length - HeaderSize - 1 = p.count * Size.RoomInfo
    THEN SubSeq(p.rooms, 1, p.count) ELSE Refused

-----------------------------------------------------------------------------
(* SNAPSHOT: a count of four bytes, then the entities, without their scores.    *)
(* The size in the header has two bytes; it counts the scores.                  *)

\* An entity as it is written: its score is not.
EntitySize == Size.entity_state - 4

Sent(entity) == [f \in DOMAIN entity \ {"score"} |-> entity[f]]

SnapshotLength(count) == (HeaderSize + 4 + count * Size.entity_state) % 65536

SerializeSnapshot(entities) ==
    [announced |-> SnapshotLength(Len(entities)), length |-> SnapshotLength(Len(entities)),
     count |-> Len(entities), written |-> HeaderSize + 4 + Len(entities) * EntitySize,
     entities |-> [i \in 1..Len(entities) |-> Sent(entities[i])]]

\* The least size is that of a C++ vector, which one entity exceeds and none does not.
DeserializeSnapshot(p) ==
    IF Consistent(p) /\ p.length - HeaderSize >= Size.Snapshot
    THEN SubSeq(p.entities, 1, p.count) ELSE Refused

=============================================================================
