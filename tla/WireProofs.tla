----------------------------- MODULE WireProofs -----------------------------
(***************************************************************************)
(* Proofs about the packets: whatever a message's serialize() writes, the  *)
(* factory reads back as it was, but for LEAVE_ROOM_REQUEST, which it      *)
(* refuses, and for lists of rooms and entities beyond the sizes that      *)
(* their counts and the header can hold.                                   *)
(***************************************************************************)
EXTENDS Wire, TLAPS

\* What the factory should make of a message: itself.
Understood(m) == Deserialize(Serialize(m)) = [type |-> m.type, rest |-> m.rest, ids |-> m.ids]

\* The tables agree on every type but one: the header gives the size of the buffer,
\* the factory demands and copies no more than was written, and converts the ids
\* that were converted.
Agree(t) ==
    /\ Written(t).announced = Written(t).length
    /\ Written(t).length >= HeaderSize
    /\ Written(t).length - HeaderSize >= Read(t).least
    /\ Written(t).length - HeaderSize = Read(t).copied
    /\ Written(t).ids = Read(t).ids

LEMMA TypesAre ==
  Types = {"CONNECT", "DISCONNECT", "INPUT", "WELCOME", "LEAVE_ROOM_REQUEST",
           "PLAYER_EVENT", "ERROR", "CREATE_ROOM_REQUEST", "CREATE_ROOM_RESPONSE",
           "JOIN_ROOM_REQUEST", "JOIN_ROOM_RESPONSE", "PLAYER_JOINED_ROOM",
           "PLAYER_LEFT_ROOM", "GAME_STARTING", "LIST_ROOMS_REQUEST"}
  BY DEF Types, WritesPlayer, WritesLeave, WritesEvents, WritesRooms, WritesNotices,
         WritesListRequest

LEMMA WriteDomains ==
  /\ DOMAIN WritesPlayer = {"CONNECT", "DISCONNECT", "INPUT", "WELCOME"}
  /\ DOMAIN WritesLeave = {"LEAVE_ROOM_REQUEST"}
  /\ DOMAIN WritesEvents = {"PLAYER_EVENT", "ERROR"}
  /\ DOMAIN WritesRooms = {"CREATE_ROOM_REQUEST", "CREATE_ROOM_RESPONSE",
                           "JOIN_ROOM_REQUEST", "JOIN_ROOM_RESPONSE"}
  /\ DOMAIN WritesNotices = {"PLAYER_JOINED_ROOM", "PLAYER_LEFT_ROOM", "GAME_STARTING"}
  /\ DOMAIN WritesListRequest = {"LIST_ROOMS_REQUEST"}
  BY DEF WritesPlayer, WritesLeave, WritesEvents, WritesRooms, WritesNotices, WritesListRequest

LEMMA ReadDomains ==
  /\ DOMAIN ReadsPlayer = {"CONNECT", "DISCONNECT", "INPUT", "LEAVE_ROOM_REQUEST", "WELCOME"}
  /\ DOMAIN ReadsEvents = {"PLAYER_EVENT", "LIST_ROOMS_REQUEST"}
  /\ DOMAIN ReadsRooms = {"CREATE_ROOM_REQUEST", "CREATE_ROOM_RESPONSE",
                          "JOIN_ROOM_REQUEST", "JOIN_ROOM_RESPONSE", "PLAYER_JOINED_ROOM",
                          "PLAYER_LEFT_ROOM", "GAME_STARTING", "ERROR"}
  BY DEF ReadsPlayer, ReadsEvents, ReadsRooms

\* The domains are disjoint: each type has one row in the tables of either side.
LEMMA WrittenIs ==
  ASSUME NEW t
  PROVE  /\ t \in DOMAIN WritesPlayer => Written(t) = WritesPlayer[t]
         /\ t \in DOMAIN WritesLeave => Written(t) = WritesLeave[t]
         /\ t \in DOMAIN WritesEvents => Written(t) = WritesEvents[t]
         /\ t \in DOMAIN WritesRooms => Written(t) = WritesRooms[t]
         /\ t \in DOMAIN WritesNotices => Written(t) = WritesNotices[t]
         /\ t \in DOMAIN WritesListRequest => Written(t) = WritesListRequest[t]
  BY WriteDomains DEF Written

LEMMA ReadIs ==
  ASSUME NEW t
  PROVE  /\ t \in DOMAIN ReadsPlayer => Read(t) = ReadsPlayer[t]
         /\ t \in DOMAIN ReadsEvents => Read(t) = ReadsEvents[t]
         /\ t \in DOMAIN ReadsRooms => Read(t) = ReadsRooms[t]
  BY ReadDomains DEF Read

LEMMA PlayerTablesAgree ==
  /\ Agree("CONNECT")
  /\ Agree("DISCONNECT")
  /\ Agree("INPUT")
  /\ Agree("WELCOME")
<1>1. Agree("CONNECT")
  <2>1. Written("CONNECT") = WritesPlayer.CONNECT /\ Read("CONNECT") = ReadsPlayer.CONNECT
    BY WriteDomains, WrittenIs, ReadDomains, ReadIs
  <2>2. WritesPlayer.CONNECT = [announced |-> 24, length |-> 24,
                                ids |-> {}]
    BY DEF WritesPlayer, Writes, HeaderSize, Size
  <2>3. ReadsPlayer.CONNECT = [least |-> 21, copied |-> 21, ids |-> {}]
    BY DEF ReadsPlayer, Reads, Size
  <2> QED  BY <2>1, <2>2, <2>3 DEF Agree, HeaderSize
<1>2. Agree("DISCONNECT")
  <2>1. Written("DISCONNECT") = WritesPlayer.DISCONNECT /\ Read("DISCONNECT") = ReadsPlayer.DISCONNECT
    BY WriteDomains, WrittenIs, ReadDomains, ReadIs
  <2>2. WritesPlayer.DISCONNECT = [announced |-> 3, length |-> 3,
                                   ids |-> {}]
    BY DEF WritesPlayer, Writes, HeaderSize, Size
  <2>3. ReadsPlayer.DISCONNECT = [least |-> 0, copied |-> 0, ids |-> {}]
    BY DEF ReadsPlayer, Reads, Size
  <2> QED  BY <2>1, <2>2, <2>3 DEF Agree, HeaderSize
<1>3. Agree("INPUT")
  <2>1. Written("INPUT") = WritesPlayer.INPUT /\ Read("INPUT") = ReadsPlayer.INPUT
    BY WriteDomains, WrittenIs, ReadDomains, ReadIs
  <2>2. WritesPlayer.INPUT = [announced |-> 8, length |-> 8,
                              ids |-> {"playerId"}]
    BY DEF WritesPlayer, Writes, HeaderSize, Size
  <2>3. ReadsPlayer.INPUT = [least |-> 0, copied |-> 5, ids |-> {"playerId"}]
    BY DEF ReadsPlayer, Reads, Size
  <2> QED  BY <2>1, <2>2, <2>3 DEF Agree, HeaderSize
<1>4. Agree("WELCOME")
  <2>1. Written("WELCOME") = WritesPlayer.WELCOME /\ Read("WELCOME") = ReadsPlayer.WELCOME
    BY WriteDomains, WrittenIs, ReadDomains, ReadIs
  <2>2. WritesPlayer.WELCOME = [announced |-> 93, length |-> 93,
                                ids |-> {"playerId"}]
    BY DEF WritesPlayer, Writes, HeaderSize, Size
  <2>3. ReadsPlayer.WELCOME = [least |-> 90, copied |-> 90, ids |-> {"playerId"}]
    BY DEF ReadsPlayer, Reads, Size
  <2> QED  BY <2>1, <2>2, <2>3 DEF Agree, HeaderSize
<1> QED  BY <1>1, <1>2, <1>3, <1>4

LEMMA EventTablesAgree == Agree("PLAYER_EVENT") /\ Agree("ERROR") /\ Agree("LIST_ROOMS_REQUEST")
<1>1. /\ Written("PLAYER_EVENT") = WritesEvents.PLAYER_EVENT
      /\ Written("ERROR") = WritesEvents.ERROR
      /\ Written("LIST_ROOMS_REQUEST") = WritesListRequest.LIST_ROOMS_REQUEST
  BY WriteDomains, WrittenIs
<1>2. /\ Read("PLAYER_EVENT") = ReadsEvents.PLAYER_EVENT
      /\ Read("ERROR") = ReadsRooms.ERROR
      /\ Read("LIST_ROOMS_REQUEST") = ReadsEvents.LIST_ROOMS_REQUEST
  BY ReadDomains, ReadIs
<1> QED
  BY <1>1, <1>2 DEF Agree, WritesEvents, WritesListRequest, ReadsEvents, ReadsRooms,
                    Writes, Reads, HeaderSize, Size

LEMMA RoomTablesAgree ==
  /\ Agree("CREATE_ROOM_REQUEST")
  /\ Agree("CREATE_ROOM_RESPONSE")
  /\ Agree("JOIN_ROOM_REQUEST")
  /\ Agree("JOIN_ROOM_RESPONSE")
<1>1. Agree("CREATE_ROOM_REQUEST")
  <2>1. Written("CREATE_ROOM_REQUEST") = WritesRooms.CREATE_ROOM_REQUEST /\ Read("CREATE_ROOM_REQUEST") = ReadsRooms.CREATE_ROOM_REQUEST
    BY WriteDomains, WrittenIs, ReadDomains, ReadIs
  <2>2. WritesRooms.CREATE_ROOM_REQUEST = [announced |-> 42, length |-> 42,
                                           ids |-> {}]
    BY DEF WritesRooms, Writes, HeaderSize, Size
  <2>3. ReadsRooms.CREATE_ROOM_REQUEST = [least |-> 39, copied |-> 39, ids |-> {}]
    BY DEF ReadsRooms, Reads, Size
  <2> QED  BY <2>1, <2>2, <2>3 DEF Agree, HeaderSize
<1>2. Agree("CREATE_ROOM_RESPONSE")
  <2>1. Written("CREATE_ROOM_RESPONSE") = WritesRooms.CREATE_ROOM_RESPONSE /\ Read("CREATE_ROOM_RESPONSE") = ReadsRooms.CREATE_ROOM_RESPONSE
    BY WriteDomains, WrittenIs, ReadDomains, ReadIs
  <2>2. WritesRooms.CREATE_ROOM_RESPONSE = [announced |-> 8, length |-> 8,
                                            ids |-> {"roomId"}]
    BY DEF WritesRooms, Writes, HeaderSize, Size
  <2>3. ReadsRooms.CREATE_ROOM_RESPONSE = [least |-> 5, copied |-> 5, ids |-> {"roomId"}]
    BY DEF ReadsRooms, Reads, Size
  <2> QED  BY <2>1, <2>2, <2>3 DEF Agree, HeaderSize
<1>3. Agree("JOIN_ROOM_REQUEST")
  <2>1. Written("JOIN_ROOM_REQUEST") = WritesRooms.JOIN_ROOM_REQUEST /\ Read("JOIN_ROOM_REQUEST") = ReadsRooms.JOIN_ROOM_REQUEST
    BY WriteDomains, WrittenIs, ReadDomains, ReadIs
  <2>2. WritesRooms.JOIN_ROOM_REQUEST = [announced |-> 7, length |-> 7,
                                         ids |-> {"roomId"}]
    BY DEF WritesRooms, Writes, HeaderSize, Size
  <2>3. ReadsRooms.JOIN_ROOM_REQUEST = [least |-> 4, copied |-> 4, ids |-> {"roomId"}]
    BY DEF ReadsRooms, Reads, Size
  <2> QED  BY <2>1, <2>2, <2>3 DEF Agree, HeaderSize
<1>4. Agree("JOIN_ROOM_RESPONSE")
  <2>1. Written("JOIN_ROOM_RESPONSE") = WritesRooms.JOIN_ROOM_RESPONSE /\ Read("JOIN_ROOM_RESPONSE") = ReadsRooms.JOIN_ROOM_RESPONSE
    BY WriteDomains, WrittenIs, ReadDomains, ReadIs
  <2>2. WritesRooms.JOIN_ROOM_RESPONSE = [announced |-> 8, length |-> 8,
                                          ids |-> {"roomId"}]
    BY DEF WritesRooms, Writes, HeaderSize, Size
  <2>3. ReadsRooms.JOIN_ROOM_RESPONSE = [least |-> 5, copied |-> 5, ids |-> {"roomId"}]
    BY DEF ReadsRooms, Reads, Size
  <2> QED  BY <2>1, <2>2, <2>3 DEF Agree, HeaderSize
<1> QED  BY <1>1, <1>2, <1>3, <1>4

LEMMA NoticeTablesAgree ==
  /\ Agree("PLAYER_JOINED_ROOM")
  /\ Agree("PLAYER_LEFT_ROOM")
  /\ Agree("GAME_STARTING")
<1>1. Agree("PLAYER_JOINED_ROOM")
  <2>1. Written("PLAYER_JOINED_ROOM") = WritesNotices.PLAYER_JOINED_ROOM /\ Read("PLAYER_JOINED_ROOM") = ReadsRooms.PLAYER_JOINED_ROOM
    BY WriteDomains, WrittenIs, ReadDomains, ReadIs
  <2>2. WritesNotices.PLAYER_JOINED_ROOM = [announced |-> 32, length |-> 32,
                                            ids |-> {"roomId", "playerId"}]
    BY DEF WritesNotices, Writes, HeaderSize, Size
  <2>3. ReadsRooms.PLAYER_JOINED_ROOM = [least |-> 29, copied |-> 29, ids |-> {"roomId", "playerId"}]
    BY DEF ReadsRooms, Reads, Size
  <2> QED  BY <2>1, <2>2, <2>3 DEF Agree, HeaderSize
<1>2. Agree("PLAYER_LEFT_ROOM")
  <2>1. Written("PLAYER_LEFT_ROOM") = WritesNotices.PLAYER_LEFT_ROOM /\ Read("PLAYER_LEFT_ROOM") = ReadsRooms.PLAYER_LEFT_ROOM
    BY WriteDomains, WrittenIs, ReadDomains, ReadIs
  <2>2. WritesNotices.PLAYER_LEFT_ROOM = [announced |-> 32, length |-> 32,
                                          ids |-> {"roomId", "playerId"}]
    BY DEF WritesNotices, Writes, HeaderSize, Size
  <2>3. ReadsRooms.PLAYER_LEFT_ROOM = [least |-> 29, copied |-> 29, ids |-> {"roomId", "playerId"}]
    BY DEF ReadsRooms, Reads, Size
  <2> QED  BY <2>1, <2>2, <2>3 DEF Agree, HeaderSize
<1>3. Agree("GAME_STARTING")
  <2>1. Written("GAME_STARTING") = WritesNotices.GAME_STARTING /\ Read("GAME_STARTING") = ReadsRooms.GAME_STARTING
    BY WriteDomains, WrittenIs, ReadDomains, ReadIs
  <2>2. WritesNotices.GAME_STARTING = [announced |-> 3, length |-> 3,
                                       ids |-> {}]
    BY DEF WritesNotices, Writes, HeaderSize, Size
  <2>3. ReadsRooms.GAME_STARTING = [least |-> 0, copied |-> 0, ids |-> {}]
    BY DEF ReadsRooms, Reads, Size
  <2> QED  BY <2>1, <2>2, <2>3 DEF Agree, HeaderSize
<1> QED  BY <1>1, <1>2, <1>3

LEMMA TablesAgree ==
  ASSUME NEW t \in Types \ {"LEAVE_ROOM_REQUEST"}
  PROVE  Agree(t)
  BY TypesAre, PlayerTablesAgree, EventTablesAgree, RoomTablesAgree, NoticeTablesAgree

-----------------------------------------------------------------------------

\* Every message without a list but LEAVE_ROOM_REQUEST is read as it was written,
\* whatever its ids and the rest of it.
THEOREM MessagesAreUnderstood ==
  ASSUME NEW t \in Types \ {"LEAVE_ROOM_REQUEST"},
         NEW F, NEW D, NEW ids \in [F -> D], NEW rest
  PROVE  Understood([type |-> t, ids |-> ids, rest |-> rest])
<1> DEFINE m == [type |-> t, ids |-> ids, rest |-> rest]
           p == Serialize(m)
<1>1. /\ p.type = t /\ p.ids = ids /\ p.rest = rest
      /\ p.announced = Written(t).announced
      /\ p.length = Written(t).length
      /\ p.converted = Written(t).ids
  BY DEF Serialize
<1>2. Agree(t)
  BY TablesAgree
<1> HIDE DEF p
<1>3. Accepts(p)
  BY <1>1, <1>2 DEF Agree, Accepts, Consistent
<1>4. p.converted = Read(p.type).ids
  BY <1>1, <1>2 DEF Agree
<1>5. [f \in DOMAIN p.ids |-> IF f \in p.converted <=> f \in Read(p.type).ids
                              THEN p.ids[f] ELSE Garbled] = ids
  BY <1>1, <1>4
<1>6. Deserialize(p) = [type |-> t, rest |-> rest, ids |-> ids]
  BY <1>1, <1>3, <1>5 DEF Deserialize
<1> QED  BY <1>6 DEF Understood, p

\* LEAVE_ROOM_REQUEST is refused, whatever it says.
THEOREM LeaveIsRefused ==
  ASSUME NEW ids, NEW rest
  PROVE  Deserialize(Serialize([type |-> "LEAVE_ROOM_REQUEST", ids |-> ids, rest |-> rest]))
            = Refused
<1> DEFINE p == Serialize([type |-> "LEAVE_ROOM_REQUEST", ids |-> ids, rest |-> rest])
<1> Written("LEAVE_ROOM_REQUEST") = WritesLeave.LEAVE_ROOM_REQUEST
  BY WriteDomains, WrittenIs
<1>1. p.announced = 8 /\ p.length = 7
  BY DEF Serialize, WritesLeave, Writes, HeaderSize, Size
<1> HIDE DEF p
<1>2. ~Accepts(p)
  BY <1>1 DEF Accepts, Consistent
<1>3. Deserialize(p) = Refused
  BY <1>2 DEF Deserialize
<1> QED  BY <1>3 DEF p

\* "Limited to 255 rooms": up to there the whole list is written inside its buffer and
\* read back; one room more, and the list is written beyond a buffer made for none.
THEOREM RoomListsAreUnderstood ==
  ASSUME NEW D, NEW rooms \in Seq(D)
  PROVE  LET p == SerializeRoomList(rooms) IN
         /\ Len(rooms) <= 255 => p.written = p.length /\ DeserializeRoomList(p) = rooms
         /\ Len(rooms) = 256 => p.length = RoomListLength(0) /\ p.written > p.length
<1> DEFINE p == SerializeRoomList(rooms)
           n == Len(rooms)
<1>1. n \in Nat
  OBVIOUS
<1>2. /\ p.count = n % 256
      /\ p.length = 4 + (n % 256) * 7
      /\ p.announced = 4 + (n % 256) * 7
      /\ p.written = 4 + n * 7
      /\ p.rooms = rooms
  BY DEF SerializeRoomList, RoomListLength, Count8, HeaderSize, Size
<1> HIDE DEF p
<1>3. ASSUME n <= 255
      PROVE  p.written = p.length /\ DeserializeRoomList(p) = rooms
  <2>1. n % 256 = n
    BY <1>1, <1>3
  <2>2. Consistent(p) /\ p.length - HeaderSize - 1 = p.count * Size.RoomInfo
    BY <1>1, <1>2, <2>1 DEF Consistent, HeaderSize, Size
  <2>3. SubSeq(p.rooms, 1, p.count) = rooms
    BY <1>2, <2>1
  <2> QED  BY <1>2, <2>1, <2>2, <2>3 DEF DeserializeRoomList
<1>4. ASSUME n = 256
      PROVE  p.length = RoomListLength(0) /\ p.written > p.length
  BY <1>2, <1>4 DEF RoomListLength, HeaderSize, Size
<1> QED  BY <1>3, <1>4 DEF p

\* A snapshot of one entity or more, up to what two bytes can announce, is read back
\* without its scores, and is written inside its buffer; one of none is refused.
THEOREM SnapshotsAreUnderstood ==
  ASSUME NEW E, NEW entities \in Seq(E)
  PROVE  LET p == SerializeSnapshot(entities) IN
         /\ Len(entities) \in 1..2259 =>
              /\ p.written <= p.length
              /\ DeserializeSnapshot(p) = [i \in 1..Len(entities) |-> Sent(entities[i])]
         /\ Len(entities) = 0 => DeserializeSnapshot(p) = Refused
<1> DEFINE p == SerializeSnapshot(entities)
           n == Len(entities)
           s == [i \in 1..n |-> Sent(entities[i])]
<1>1. n \in Nat
  OBVIOUS
<1>2. /\ p.count = n
      /\ p.length = (7 + n * 29) % 65536
      /\ p.announced = (7 + n * 29) % 65536
      /\ p.written = 7 + n * 25
      /\ p.entities = s
  BY DEF SerializeSnapshot, SnapshotLength, EntitySize, HeaderSize, Size
<1> HIDE DEF p
<1>3. ASSUME n \in 1..2259
      PROVE  p.written <= p.length /\ DeserializeSnapshot(p) = s
  <2> HIDE DEF n, s
  <2>1. n \in Nat /\ n >= 1 /\ n <= 2259 /\ 7 + n * 29 < 65536
    BY <1>3
  <2>2. (7 + n * 29) % 65536 = 7 + n * 29
    BY <2>1
  <2>3. Consistent(p) /\ p.length - HeaderSize >= Size.Snapshot
    BY <1>2, <2>1, <2>2 DEF Consistent, HeaderSize, Size
  <2>4. SubSeq(p.entities, 1, p.count) = s
    <3>1. s \in Seq({Sent(entities[i]) : i \in 1..n}) /\ Len(s) = n
      BY <1>1 DEF s
    <3> QED  BY <1>2, <3>1
  <2> QED  BY <1>2, <2>1, <2>2, <2>3, <2>4 DEF DeserializeSnapshot
<1>4. ASSUME n = 0
      PROVE  DeserializeSnapshot(p) = Refused
  BY <1>2, <1>4 DEF DeserializeSnapshot, HeaderSize, Size
<1> QED  BY <1>3, <1>4 DEF p

=============================================================================
