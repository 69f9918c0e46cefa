---------------------------- MODULE LobbyProofs ----------------------------
(* Theorems about Lobby, for every value of its constants. *)
EXTENDS Lobby, FiniteSetTheorems, TLAPS

(***************************************************************************)
(* Types of the operators that describe a departure.                       *)
(***************************************************************************)
LEMMA WithoutTypes ==
    ASSUME TypeOK, NEW P
    PROVE  /\ CrewWithout(P) \in [RoomIds -> SUBSET Seat]
           /\ AliveWithout(P) \in [RoomIds -> SUBSET PlayerIds]
           /\ PhaseWithout(P) \in [RoomIds -> Phases]
<1>1. CrewWithout(P) \in [RoomIds -> SUBSET Seat]
  BY DEF TypeOK, CrewWithout
<1>2. AliveWithout(P) \in [RoomIds -> SUBSET PlayerIds]
  BY DEF TypeOK, AliveWithout
<1>3. PhaseWithout(P) \in [RoomIds -> Phases]
  BY DEF TypeOK, PhaseWithout, Phases
<1> QED BY <1>1, <1>2, <1>3

LEMMA RoomOfTypes ==
    ASSUME TypeOK, NEW P, NEW w \in RoomIds \cup {InLobby, Untracked}
    PROVE  RoomOfWithout(P, w) \in [PlayerIds -> RoomIds \cup {InLobby, Untracked}]
BY DEF TypeOK, RoomOfWithout

LEMMA PhaseWithType ==
    ASSUME NEW f \in Phases, NEW C
    PROVE  PhaseWith(f, C) \in Phases
BY DEF PhaseWith, Phases

(* The id of a connected player. *)
LEMMA ConnectedId ==
    ASSUME TypeOK, NEW e \in Connected
    PROVE  e \in Endpoints /\ idOf[e] \in PlayerIds
BY DEF TypeOK, Connected

(***************************************************************************)
(* Type correctness: every variable of the lobby keeps its type.           *)
(***************************************************************************)
THEOREM TypeCorrect == Spec => []TypeOK
<1>1. Init => TypeOK
  BY BoundsAreNat DEF Init, TypeOK, PlayerIds, RoomIds, Phases, Stages, InLobby, Untracked
<1>2. ASSUME TypeOK, [Next]_vars
      PROVE  TypeOK'
  <2> USE <1>2
  <2>1. ASSUME NEW e \in Endpoints, NEW raw \in RawNames, Connect(e, raw)
        PROVE  TypeOK'
    <3>1. nextId \in PlayerIds /\ nextId + 1 \in 1..(MaxPlayerId + 1)
      BY <2>1, BoundsAreNat DEF Connect, TypeOK, PlayerIds
    <3>2. StoredNickname(raw) \in Names
      BY DEF StoredNickname, Names
    <3> QED BY <2>1, <3>1, <3>2 DEF Connect, TypeOK, rooms, Stages
  <2>2. ASSUME NEW e \in Endpoints, Refresh(e)
        PROVE  TypeOK'
    BY <2>2 DEF Refresh, Touched, TypeOK, registry, rooms, views
  <2>3. ASSUME NEW e \in Endpoints, Disconnect(e)
        PROVE  TypeOK'
    <3>1. Untracked \in RoomIds \cup {InLobby, Untracked}
      OBVIOUS
    <3> QED
      BY <2>3, <3>1, WithoutTypes, RoomOfTypes DEF Disconnect, Forget, TypeOK, views
  <2>4. ASSUME NEW e \in Endpoints, LeaveRoom(e)
        PROVE  TypeOK'
    <3>1. InLobby \in RoomIds \cup {InLobby, Untracked}
      OBVIOUS
    <3> QED
      BY <2>4, <3>1, WithoutTypes, RoomOfTypes
      DEF LeaveRoom, Touched, TypeOK, registry, Stages
  <2>5. ASSUME NEW e \in Endpoints, NEW k \in Capacities, CreateRoom(e, k)
        PROVE  TypeOK'
    <3> DEFINE p == idOf[e]
               r == nRooms + 1
               C == IF k > 0 THEN {[id |-> p, ep |-> e]} ELSE {}
    <3>1. r \in RoomIds /\ r \in 0..MaxRooms /\ k \in 0..255
      BY <2>5, BoundsAreNat, CapacitiesAreBytes DEF CreateRoom, TypeOK, RoomIds
    <3>2. p \in PlayerIds
      BY <2>5, ConnectedId DEF CreateRoom
    <3>3. C \in SUBSET Seat /\ {m.id : m \in C} \in SUBSET PlayerIds
      BY <3>2 DEF Seat
    <3>4. "WAITING" \in Phases /\ "waiting" \in Stages
      BY DEF Phases, Stages
    <3> HIDE DEF C
    <3>5. /\ crew' = [CrewWithout({p}) EXCEPT ![r] = C]
          /\ alive' = [AliveWithout({p}) EXCEPT ![r] = {m.id : m \in C}]
      BY <2>5 DEF CreateRoom, C
    <3> QED
      BY <2>5, <3>1, <3>2, <3>3, <3>4, <3>5, WithoutTypes
      DEF CreateRoom, Touched, TypeOK, registry
  <2>6. ASSUME NEW e \in Endpoints, NEW r \in RoomIds, JoinRoom(e, r)
        PROVE  TypeOK'
    <3> DEFINE p == idOf[e]
               C == CrewWithout({p})[r] \cup {[id |-> p, ep |-> e]}
               f == PhaseWithout({p})[r]
    <3>1. p \in PlayerIds
      BY <2>6, ConnectedId DEF JoinRoom
    <3>2. C \in SUBSET Seat
      BY <3>1, WithoutTypes DEF Seat
    <3>3. PhaseWith(f, C) \in Phases /\ StageOnJoin(f) \in Stages
      BY WithoutTypes, PhaseWithType DEF StageOnJoin, Stages
    <3> HIDE DEF C, f
    <3>4. /\ crew' = [CrewWithout({p}) EXCEPT ![r] = C]
          /\ phase' = [PhaseWithout({p}) EXCEPT ![r] = PhaseWith(f, C)]
          /\ told' = [told EXCEPT ![e] = StageOnJoin(f)]
      BY <2>6 DEF JoinRoom, C, f
    <3> QED
      BY <2>6, <3>1, <3>2, <3>3, <3>4, WithoutTypes
      DEF JoinRoom, Touched, TypeOK, registry
  <2>7. ASSUME NEW e \in Endpoints, NEW r \in RoomIds, JoinRefused(e, r)
        PROVE  TypeOK'
    <3>1. InLobby \in RoomIds \cup {InLobby, Untracked}
      OBVIOUS
    <3> QED
      BY <2>7, <3>1, WithoutTypes, RoomOfTypes
      DEF JoinRefused, Touched, TypeOK, registry, Stages
  <2>8. CASE EndInputs
    BY <2>8 DEF EndInputs, TypeOK, registry, rooms, views
  <2>9. ASSUME NEW due \in SUBSET RoomIds, NEW killed \in SUBSET PlayerIds,
               UpdateGame(due, killed)
        PROVE  TypeOK'
    <3>1. phase' \in [RoomIds -> Phases]
      BY <2>9 DEF UpdateGame, TypeOK, Phases
    <3>2. alive' \in [RoomIds -> SUBSET PlayerIds]
      BY <2>9 DEF UpdateGame, TypeOK
    <3>3. told' \in [Endpoints -> Stages]
      BY <2>9 DEF UpdateGame, TypeOK, ToldAfter, Stages
    <3> QED BY <2>9, <3>1, <3>2, <3>3 DEF UpdateGame, TypeOK, registry
  <2>10. CASE BroadcastGameEvents
    <3>1. phase' \in [RoomIds -> Phases]
      BY <2>10 DEF BroadcastGameEvents, PhaseAnnounced, TypeOK, Phases
    <3>2. told' \in [Endpoints -> Stages]
      BY <2>10 DEF BroadcastGameEvents, TypeOK, ToldAfter, Stages
    <3> QED BY <2>10, <3>1, <3>2 DEF BroadcastGameEvents, TypeOK, registry
  <2>11. CASE CleanupPlayers
    <3>1. Untracked \in RoomIds \cup {InLobby, Untracked}
      OBVIOUS
    <3> QED
      BY <2>11, <3>1, WithoutTypes, RoomOfTypes DEF CleanupPlayers, Forget, TypeOK, views
  <2>12. CASE SkipCleanup
    BY <2>12 DEF SkipCleanup, TypeOK, registry, rooms, views
  <2>13. ASSUME NEW e \in Endpoints, GoSilent(e)
         PROVE  TypeOK'
    BY <2>13 DEF GoSilent, TypeOK, registry, rooms, views
  <2>14. ASSUME NEW r \in RoomIds, ForceEnd(r)
         PROVE  TypeOK'
    BY <2>14 DEF ForceEnd, TypeOK, registry, views, Phases
  <2>15. ASSUME NEW p \in PlayerIds, Kick(p)
         PROVE  TypeOK'
    <3>1. Untracked \in RoomIds \cup {InLobby, Untracked}
      OBVIOUS
    <3> QED
      BY <2>15, <3>1, WithoutTypes, RoomOfTypes DEF Kick, TypeOK, registry, views
  <2>16. CASE UNCHANGED vars
    BY <2>16 DEF vars, registry, rooms, views, TypeOK
  <2> QED
    BY <2>1, <2>2, <2>3, <2>4, <2>5, <2>6, <2>7, <2>8, <2>9, <2>10, <2>11, <2>12,
       <2>13, <2>14, <2>15, <2>16
    DEF Next, HandlePacket, Tick, Admin
<1> QED BY <1>1, <1>2, PTL DEF Spec

(***************************************************************************)
(* Identities: two connected players never share an id or a name, ids are  *)
(* fresh, and m_playerToRoomMap holds no player that has gone.             *)
(***************************************************************************)
THEOREM IdentitiesUnique == Spec => []UniqueIdentity
<1>1. Init => UniqueIdentity
  BY DEF Init, UniqueIdentity, Connected
<1>2. ASSUME TypeOK, UniqueIdentity, [Next]_vars
      PROVE  UniqueIdentity'
  <2> USE <1>2
  <2>0. \A r \in RoomIds : r # Untracked
    BY DEF RoomIds, Untracked
  <2>1. ASSUME NEW e \in Endpoints, NEW raw \in RawNames, Connect(e, raw)
        PROVE  UniqueIdentity'
    <3>1. /\ Connected' = Connected \cup {e}
          /\ e \notin Connected
          /\ nextId \in Nat
          /\ \A f \in Connected : idOf'[f] = idOf[f] /\ nickOf'[f] = nickOf[f]
          /\ idOf'[e] = nextId /\ nickOf'[e] = Sanitized[raw]
          /\ nextId' = nextId + 1
      BY <2>1, BoundsAreNat DEF Connect, Connected, TypeOK, StoredNickname
    <3>2. \A f \in Connected : /\ idOf[f] \in Nat /\ idOf[f] < nextId
                               /\ nickOf[f] # NoName
                               /\ Folded[nickOf[f]] # Folded[Sanitized[raw]]
      BY <2>1, NoNameIsNoName
      DEF Connect, UniqueIdentity, NicknameAvailable, TypeOK, PlayerIds, Connected
    <3>3. Sanitized[raw] \in Names \ TooShort
      BY <2>1 DEF Connect, Names
    <3>4. \A f, g \in Connected' : f # g =>
              idOf'[f] # idOf'[g] /\ Folded[nickOf'[f]] # Folded[nickOf'[g]]
      BY <3>1, <3>2 DEF UniqueIdentity
    <3>5. \A f \in Connected' : idOf'[f] < nextId' /\ nickOf'[f] \in Names \ TooShort
      BY <3>1, <3>2, <3>3 DEF UniqueIdentity
    <3>6. ASSUME NEW q \in PlayerIds, roomOf'[q] # Untracked
          PROVE  q \in IdsAt(Endpoints)'
      <4>1. CASE q = nextId
        BY <4>1, <3>1 DEF IdsAt, PlayerIds
      <4>2. CASE q # nextId
        <5>1. roomOf[q] # Untracked
          BY <2>1, <3>6, <4>2 DEF Connect, TypeOK
        <5>2. PICK f \in Endpoints : idOf[f] = q /\ q # 0
          BY <5>1 DEF UniqueIdentity, IdsAt
        <5>3. idOf'[f] = q
          BY <5>2, <3>1 DEF Connected
        <5> QED BY <5>2, <5>3 DEF IdsAt
      <4> QED BY <4>1, <4>2
    <3> QED BY <3>4, <3>5, <3>6 DEF UniqueIdentity
  <2>2. ASSUME NEW S \in SUBSET Endpoints, Forget(S),
               roomOf' = RoomOfWithout(IdsAt(S), Untracked)
        PROVE  UniqueIdentity'
    <3>1. /\ Connected' = Connected \ S
          /\ \A f \in Connected' : idOf'[f] = idOf[f] /\ nickOf'[f] = nickOf[f]
          /\ nextId' = nextId
      BY <2>2 DEF Forget, Connected
    <3>2. ASSUME NEW q \in PlayerIds, roomOf'[q] # Untracked
          PROVE  q \in IdsAt(Endpoints)'
      <4>1. q \notin IdsAt(S) /\ roomOf[q] # Untracked
        BY <2>2, <3>2 DEF RoomOfWithout
      <4>2. PICK f \in Endpoints : idOf[f] = q /\ q # 0
        BY <4>1 DEF UniqueIdentity, IdsAt
      <4>3. f \in Connected \ S
        BY <4>1, <4>2 DEF Connected, IdsAt
      <4> QED BY <3>1, <4>2, <4>3 DEF IdsAt
    <3> QED BY <3>1, <3>2 DEF UniqueIdentity
  <2>3. ASSUME UNCHANGED registry,
               \A q \in PlayerIds :
                  roomOf'[q] # Untracked => roomOf[q] # Untracked \/ q \in IdsAt(Endpoints)
        PROVE  UniqueIdentity'
    BY <2>3 DEF UniqueIdentity, registry, Connected, IdsAt
  <2>4. ASSUME NEW e \in Endpoints, Disconnect(e)
        PROVE  UniqueIdentity'
    <3>1. IdsAt({e}) = {idOf[e]}
      BY <2>4 DEF Disconnect, IdsAt, Connected
    <3> QED BY <2>4, <3>1, <2>2 DEF Disconnect
  <2>5. CASE CleanupPlayers
    BY <2>5, <2>2 DEF CleanupPlayers, TypeOK
  <2>6. ASSUME NEW e \in Endpoints,
               \/ LeaveRoom(e)
               \/ \E k \in Capacities : CreateRoom(e, k)
               \/ \E r \in RoomIds : JoinRoom(e, r) \/ JoinRefused(e, r)
        PROVE  UniqueIdentity'
    <3>1. idOf[e] \in IdsAt(Endpoints)
      BY <2>6 DEF LeaveRoom, CreateRoom, JoinRoom, JoinRefused, Connected, IdsAt
    <3>2. \A q \in PlayerIds : q # idOf[e] => roomOf'[q] = roomOf[q]
      BY <2>6 DEF LeaveRoom, CreateRoom, JoinRoom, JoinRefused, RoomOfWithout, TypeOK
    <3>3. UNCHANGED registry
      BY <2>6 DEF LeaveRoom, CreateRoom, JoinRoom, JoinRefused
    <3> QED BY <3>1, <3>2, <3>3, <2>3
  <2>7. ASSUME NEW p \in PlayerIds, Kick(p)
        PROVE  UniqueIdentity'
    BY <2>7, <2>3 DEF Kick, RoomOfWithout
  <2>8. ASSUME UNCHANGED <<registry, roomOf>>
        PROVE  UniqueIdentity'
    BY <2>8, <2>3
  <2> QED
    BY <2>1, <2>4, <2>5, <2>6, <2>7, <2>8
    DEF Next, HandlePacket, Tick, Admin, vars, Refresh, EndInputs, UpdateGame,
        BroadcastGameEvents, SkipCleanup, GoSilent, ForceEnd
<1> QED BY <1>1, <1>2, TypeCorrect, PTL DEF Spec

(***************************************************************************)
(* Membership.  A step either makes players leave, or puts one player into *)
(* one room, or keeps the crews and the map of rooms.                      *)
(***************************************************************************)
\* The rooms that players are in have been created.
Created == \A p \in PlayerIds : roomOf[p] \in RoomIds => roomOf[p] <= nRooms

Members1 == TypeOK /\ UniqueIdentity /\ MembershipAgrees /\ Created

\* handlePlayerLeft for every player of P, and what becomes of their map entries.
Departure(P, where) ==
    /\ crew' = CrewWithout(P)
    /\ alive' = AliveWithout(P)
    /\ phase' = PhaseWithout(P)
    /\ roomOf' = RoomOfWithout(P, where)

LEMMA Departures ==
    ASSUME TypeOK
    PROVE  /\ \A e \in Endpoints : Disconnect(e) => Departure({idOf[e]}, Untracked)
           /\ \A e \in Endpoints : LeaveRoom(e) => Departure({idOf[e]}, InLobby)
           /\ \A e \in Endpoints, r \in RoomIds :
                  JoinRefused(e, r) => Departure({idOf[e]}, InLobby)
           /\ CleanupPlayers => Departure(IdsAt(silent), Untracked)
           /\ \A p \in PlayerIds : Kick(p) => Departure({p}, Untracked)
BY DEF Disconnect, LeaveRoom, JoinRefused, CleanupPlayers, Kick, Departure

LEMMA NoPlaces ==
    /\ InLobby \notin RoomIds /\ Untracked \notin RoomIds
    /\ InLobby # Untracked /\ 0 \notin PlayerIds
BY DEF InLobby, Untracked, RoomIds, PlayerIds

LEMMA SeatIs ==
    ASSUME TypeOK, NEW r \in RoomIds, NEW m \in crew[r]
    PROVE  m \in Seat /\ m.id \in PlayerIds /\ m.ep \in Endpoints /\ m = [id |-> m.id, ep |-> m.ep]
BY DEF TypeOK, Seat

\* The players who stay keep their seats and their entries in the map.
LEMMA MembersDepart ==
    ASSUME Members1, NEW P, NEW w \in {InLobby, Untracked}, Departure(P, w),
           cap' = cap, nRooms' = nRooms,
           \A m \in Seat : idOf[m.ep] = m.id /\ m.id \notin P => idOf'[m.ep] = m.id
    PROVE  MembershipAgrees' /\ Created'
<1>1. ASSUME NEW r \in RoomIds, NEW m \in crew'[r]
      PROVE  idOf'[m.ep] = m.id /\ roomOf'[m.id] = r
  <2>1. m \in crew[r] /\ m.id \notin Leaving(r, P)
    BY <1>1 DEF Departure, CrewWithout
  <2>2. m \in Seat /\ m.id \in PlayerIds /\ idOf[m.ep] = m.id /\ roomOf[m.id] = r
    BY <2>1, SeatIs DEF Members1, MembershipAgrees
  <2>3. m.id \notin P
    BY <2>1, <2>2 DEF Leaving
  <2> QED BY <2>2, <2>3 DEF Departure, RoomOfWithout
<1>2. ASSUME NEW p \in PlayerIds, roomOf'[p] \in RoomIds
      PROVE  /\ Aboard(crew'[roomOf'[p]], p) \/ cap'[roomOf'[p]] = 0
             /\ roomOf'[p] <= nRooms'
  <2>1. p \notin P /\ roomOf'[p] = roomOf[p]
    BY <1>2, NoPlaces DEF Departure, RoomOfWithout
  <2>2. Aboard(crew[roomOf[p]], p) \/ cap[roomOf[p]] = 0
    BY <1>2, <2>1 DEF Members1, MembershipAgrees
  <2>3. Aboard(crew[roomOf[p]], p) => Aboard(crew'[roomOf[p]], p)
    BY <1>2, <2>1 DEF Departure, CrewWithout, Leaving, Aboard
  <2> QED BY <1>2, <2>1, <2>2, <2>3 DEF Members1, Created
<1> QED BY <1>1, <1>2 DEF MembershipAgrees, Created

\* One player takes a seat in one room, and none elsewhere: C is what becomes of the
\* crew of that room.
LEMMA MembersArrive ==
    ASSUME Members1, NEW e \in Connected, NEW r \in RoomIds, NEW C,
           \A m \in C : m = [id |-> idOf[e], ep |-> e] \/ m \in CrewWithout({idOf[e]})[r],
           \/ [id |-> idOf[e], ep |-> e] \in C /\ CrewWithout({idOf[e]})[r] \subseteq C
           \/ cap'[r] = 0 /\ \A p \in PlayerIds : roomOf[p] = r => p = idOf[e],
           crew' = [CrewWithout({idOf[e]}) EXCEPT ![r] = C],
           roomOf' = [roomOf EXCEPT ![idOf[e]] = r],
           \A s \in RoomIds : s # r => cap'[s] = cap[s],
           r <= nRooms', nRooms' >= nRooms, nRooms' \in Nat, idOf' = idOf,
           cap'[r] = cap[r] \/ \A p \in PlayerIds : roomOf[p] # r
    PROVE  MembershipAgrees' /\ Created'
<1> DEFINE i == idOf[e]
<1>1. i \in PlayerIds /\ e \in Endpoints
  BY ConnectedId DEF Members1
<1>2. /\ crew'[r] = C
      /\ \A s \in RoomIds : s # r => crew'[s] = CrewWithout({i})[s]
      /\ roomOf'[i] = r /\ \A p \in PlayerIds : p # i => roomOf'[p] = roomOf[p]
  BY <1>1 DEF Members1, TypeOK, CrewWithout
<1>3. ASSUME NEW s \in RoomIds, NEW m \in CrewWithout({i})[s]
      PROVE  idOf[m.ep] = m.id /\ roomOf'[m.id] = s
  <2>1. m \in crew[s] /\ m.id \notin Leaving(s, {i})
    BY <1>3 DEF CrewWithout
  <2>2. m.id \in PlayerIds /\ idOf[m.ep] = m.id /\ roomOf[m.id] = s
    BY <2>1, SeatIs DEF Members1, MembershipAgrees
  <2>3. m.id # i
    BY <2>1, <2>2 DEF Leaving
  <2> QED BY <1>2, <2>2, <2>3
<1>4. ASSUME NEW s \in RoomIds, NEW m \in crew'[s]
      PROVE  idOf'[m.ep] = m.id /\ roomOf'[m.id] = s
  <2>1. CASE m = [id |-> i, ep |-> e] /\ s = r
    <3>1. m.id = i /\ m.ep = e
      BY <2>1
    <3> QED BY <1>2, <2>1, <3>1
  <2>2. CASE m \in CrewWithout({i})[s]
    BY <1>3, <2>2
  <2>3. s = r => m \in C
    BY <1>2, <1>4
  <2>4. s # r => m \in CrewWithout({i})[s]
    BY <1>2, <1>4
  <2> QED BY <2>1, <2>2, <2>3, <2>4
<1>5. ASSUME NEW p \in PlayerIds, roomOf'[p] \in RoomIds
      PROVE  /\ Aboard(crew'[roomOf'[p]], p) \/ cap'[roomOf'[p]] = 0
             /\ roomOf'[p] <= nRooms'
  <2>1. CASE p = i
    BY <1>2, <2>1 DEF Aboard
  <2>2. CASE p # i
    <3>1. roomOf'[p] = roomOf[p] /\ roomOf[p] \in RoomIds
      BY <1>2, <1>5, <2>2
    <3>2. Aboard(crew[roomOf[p]], p) \/ cap[roomOf[p]] = 0
      BY <3>1 DEF Members1, MembershipAgrees
    <3>3. Aboard(crew[roomOf[p]], p) => Aboard(CrewWithout({i})[roomOf[p]], p)
      BY <2>2, <3>1 DEF CrewWithout, Leaving, Aboard
    <3>4. roomOf[p] <= nRooms /\ nRooms \in Nat /\ roomOf[p] \in Nat
      BY <3>1 DEF Members1, Created, TypeOK, RoomIds
    <3>5. CASE roomOf[p] # r
      BY <1>2, <3>1, <3>2, <3>3, <3>4, <3>5
    <3>6. CASE roomOf[p] = r
      <4>1. CrewWithout({i})[r] \subseteq C \/ cap'[r] = 0
        OBVIOUS
      <4>2. cap'[r] = cap[r]
        BY <3>6
      <4> QED BY <1>2, <3>1, <3>2, <3>3, <3>4, <3>6, <4>1, <4>2 DEF Aboard
    <3> QED BY <3>5, <3>6
  <2> QED BY <2>1, <2>2
<1> QED BY <1>4, <1>5 DEF MembershipAgrees, Created

LEMMA MembersInit == Init => MembershipAgrees /\ Created
BY NoPlaces DEF Init, MembershipAgrees, Created

LEMMA MembersNext ==
    ASSUME Members1, TypeOK', [Next]_vars
    PROVE  MembershipAgrees' /\ Created'
<1> TypeOK /\ UniqueIdentity
  BY DEF Members1
<1>1. ASSUME NEW e \in Endpoints, NEW raw \in RawNames, Connect(e, raw)
      PROVE  MembershipAgrees' /\ Created'
  <2>1. /\ nextId \in PlayerIds /\ idOf[e] = 0
        /\ idOf'[e] = nextId /\ \A f \in Endpoints : f # e => idOf'[f] = idOf[f]
        /\ roomOf'[nextId] = InLobby
        /\ \A p \in PlayerIds : p # nextId => roomOf'[p] = roomOf[p]
        /\ crew' = crew /\ cap' = cap /\ nRooms' = nRooms
    BY <1>1, BoundsAreNat DEF Connect, TypeOK, Connected, PlayerIds, rooms
  <2>2. ASSUME NEW r \in RoomIds, NEW m \in crew[r]
        PROVE  m.ep \in Endpoints /\ m.ep # e /\ m.id \in PlayerIds /\ m.id # nextId
               /\ idOf[m.ep] = m.id /\ roomOf[m.id] = r
    <3>1. m.id \in PlayerIds /\ m.ep \in Endpoints /\ idOf[m.ep] = m.id /\ roomOf[m.id] = r
      BY <2>2, SeatIs DEF Members1, MembershipAgrees
    <3>2. m.ep \in Connected
      BY <3>1, NoPlaces DEF Connected
    <3>3. m.id < nextId /\ nextId \in Int
      BY <3>1, <3>2, <2>1 DEF UniqueIdentity, PlayerIds
    <3> QED BY <2>1, <3>1, <3>3, NoPlaces
  <2>3. \A r \in RoomIds : \A m \in crew'[r] : idOf'[m.ep] = m.id /\ roomOf'[m.id] = r
    BY <2>1, <2>2
  <2>4. \A p \in PlayerIds : roomOf'[p] \in RoomIds => p # nextId /\ roomOf'[p] = roomOf[p]
    BY <2>1, NoPlaces
  <2> QED BY <2>1, <2>3, <2>4 DEF Members1, MembershipAgrees, Created
<1>2. ASSUME NEW e \in Endpoints, Disconnect(e)
      PROVE  MembershipAgrees' /\ Created'
  <2>1. \A m \in Seat : idOf[m.ep] = m.id /\ m.id \notin {idOf[e]} => idOf'[m.ep] = m.id
    BY <1>2 DEF Disconnect, Forget, TypeOK, Seat
  <2>2. cap' = cap /\ nRooms' = nRooms /\ Departure({idOf[e]}, Untracked)
    BY <1>2, Departures DEF Disconnect
  <2> QED BY <2>1, <2>2, MembersDepart
<1>3. ASSUME NEW e \in Endpoints, NEW r \in RoomIds, JoinRefused(e, r)
      PROVE  MembershipAgrees' /\ Created'
  <2>1. cap' = cap /\ nRooms' = nRooms /\ Departure({idOf[e]}, InLobby) /\ idOf' = idOf
    BY <1>3, Departures DEF JoinRefused, registry
  <2> QED BY <2>1, MembersDepart
<1>4. ASSUME NEW e \in Endpoints, LeaveRoom(e)
      PROVE  MembershipAgrees' /\ Created'
  <2>1. cap' = cap /\ nRooms' = nRooms /\ Departure({idOf[e]}, InLobby) /\ idOf' = idOf
    BY <1>4, Departures DEF LeaveRoom, registry
  <2> QED BY <2>1, MembersDepart
<1>5. ASSUME NEW e \in Endpoints, NEW k \in Capacities, CreateRoom(e, k)
      PROVE  MembershipAgrees' /\ Created'
  <2> DEFINE i == idOf[e]
             r == nRooms + 1
             C == IF k > 0 THEN {[id |-> i, ep |-> e]} ELSE {}
  <2>1. /\ e \in Connected /\ i \in PlayerIds
        /\ r \in RoomIds /\ nRooms \in Nat /\ nRooms' = r /\ k \in 0..255
    BY <1>5, BoundsAreNat, CapacitiesAreBytes, ConnectedId DEF CreateRoom, TypeOK, RoomIds
  <2>2. /\ crew' = [CrewWithout({i}) EXCEPT ![r] = C]
        /\ roomOf' = [roomOf EXCEPT ![i] = r]
        /\ cap' = [cap EXCEPT ![r] = k] /\ idOf' = idOf
    <3> HIDE DEF C
    <3>1. crew' = [CrewWithout({i}) EXCEPT ![r] = C]
      BY <1>5, Zenon DEF CreateRoom, C
    <3>2. roomOf' = [roomOf EXCEPT ![i] = r]
      BY <1>5, Zenon DEF CreateRoom
    <3>3. cap' = [cap EXCEPT ![r] = k]
      BY <1>5, Zenon DEF CreateRoom
    <3>4. idOf' = idOf
      BY <1>5, Zenon DEF CreateRoom, registry
    <3> QED BY <3>1, <3>2, <3>3, <3>4
  <2>3. \A p \in PlayerIds : roomOf[p] # r
    BY <2>1 DEF Members1, Created
  <2>4. \A m \in C : m = [id |-> i, ep |-> e]
    OBVIOUS
  <2>5. CrewWithout({i})[r] = {}
    <3>1. crew[r] = {}
      BY <2>1, <2>3, SeatIs DEF Members1, MembershipAgrees
    <3> QED BY <2>1, <3>1 DEF CrewWithout
  <2>6. [id |-> i, ep |-> e] \in C \/ k = 0
    BY <2>1
  <2>7. cap'[r] = k /\ \A s \in RoomIds : s # r => cap'[s] = cap[s]
    BY <2>1, <2>2 DEF TypeOK
  <2>8. r <= nRooms' /\ nRooms' >= nRooms /\ nRooms' \in Nat
    BY <2>1
  <2> HIDE DEF C, r, i
  <2>9. \/ [id |-> idOf[e], ep |-> e] \in C /\ CrewWithout({idOf[e]})[r] \subseteq C
        \/ cap'[r] = 0 /\ \A p \in PlayerIds : roomOf[p] = r => p = idOf[e]
    BY <2>3, <2>5, <2>6, <2>7 DEF i
  <2>10. \A m \in C : m = [id |-> idOf[e], ep |-> e] \/ m \in CrewWithout({idOf[e]})[r]
    BY <2>4 DEF i
  <2>11. /\ crew' = [CrewWithout({idOf[e]}) EXCEPT ![r] = C]
         /\ roomOf' = [roomOf EXCEPT ![idOf[e]] = r]
    BY <2>2 DEF i
  <2>12. e \in Connected /\ r \in RoomIds /\ idOf' = idOf
    BY <2>1, <2>2
  <2>13. \A s \in RoomIds : s # r => cap'[s] = cap[s]
    BY <2>7
  <2>14. cap'[r] = cap[r] \/ \A p \in PlayerIds : roomOf[p] # r
    BY <2>3
  <2> QED
    BY <2>8, <2>9, <2>10, <2>11, <2>12, <2>13, <2>14, MembersArrive, Zenon
<1>6. ASSUME NEW e \in Endpoints, NEW r \in RoomIds, JoinRoom(e, r)
      PROVE  MembershipAgrees' /\ Created'
  <2> DEFINE C == CrewWithout({idOf[e]})[r] \cup {[id |-> idOf[e], ep |-> e]}
  <2>1. e \in Connected /\ r <= nRooms /\ nRooms \in Nat
    BY <1>6 DEF JoinRoom, Joinable, TypeOK
  <2>2. /\ crew' = [CrewWithout({idOf[e]}) EXCEPT ![r] = C]
        /\ roomOf' = [roomOf EXCEPT ![idOf[e]] = r]
        /\ cap' = cap /\ nRooms' = nRooms /\ idOf' = idOf
    BY <1>6 DEF JoinRoom, registry
  <2>3. /\ \A m \in C : m = [id |-> idOf[e], ep |-> e] \/ m \in CrewWithout({idOf[e]})[r]
        /\ [id |-> idOf[e], ep |-> e] \in C /\ CrewWithout({idOf[e]})[r] \subseteq C
    OBVIOUS
  <2> HIDE DEF C
  <2>4. nRooms' >= nRooms /\ r <= nRooms' /\ nRooms' \in Nat
    BY <2>1, <2>2
  <2> QED BY <2>1, <2>2, <2>3, <2>4, MembersArrive
<1>7. CASE CleanupPlayers
  <2>1. \A m \in Seat : idOf[m.ep] = m.id /\ m.id \notin IdsAt(silent) => idOf'[m.ep] = m.id
    BY <1>7, NoPlaces DEF CleanupPlayers, Forget, TypeOK, Seat, IdsAt
  <2>2. cap' = cap /\ nRooms' = nRooms /\ Departure(IdsAt(silent), Untracked)
    BY <1>7, Departures DEF CleanupPlayers
  <2> QED BY <2>1, <2>2, MembersDepart
<1>8. ASSUME NEW p \in PlayerIds, Kick(p)
      PROVE  MembershipAgrees' /\ Created'
  <2>1. cap' = cap /\ nRooms' = nRooms /\ Departure({p}, Untracked) /\ idOf' = idOf
    BY <1>8, Departures DEF Kick, registry
  <2> QED BY <2>1, MembersDepart
<1>9. ASSUME UNCHANGED <<idOf, roomOf, crew, cap, nRooms>>
      PROVE  MembershipAgrees' /\ Created'
  BY <1>9 DEF Members1, MembershipAgrees, Created, Aboard
<1> QED
  BY <1>1, <1>2, <1>3, <1>4, <1>5, <1>6, <1>7, <1>8, <1>9
  DEF Next, HandlePacket, Tick, Admin, vars, registry, rooms, Refresh, EndInputs, UpdateGame,
      BroadcastGameEvents, SkipCleanup, GoSilent, ForceEnd

LEMMA Members1Always == Spec => []Members1
<1>1. Init => MembershipAgrees /\ Created
  BY MembersInit
<1>2. TypeOK /\ TypeOK' /\ UniqueIdentity /\ MembershipAgrees /\ Created /\ [Next]_vars
        => MembershipAgrees' /\ Created'
  BY MembersNext DEF Members1
<1>3. TypeOK /\ UniqueIdentity /\ MembershipAgrees /\ Created => Members1
  BY DEF Members1
<1> QED BY <1>1, <1>2, <1>3, TypeCorrect, IdentitiesUnique, PTL DEF Spec

(***************************************************************************)
(* Seats, the map of rooms and the registry of players tell one story, for *)
(* any number of players, rooms and seats.                                 *)
(***************************************************************************)
THEOREM MembersAgree == Spec => []MembershipAgrees
<1>1. Members1 => MembershipAgrees
  BY DEF Members1
<1> QED BY <1>1, Members1Always, PTL

(***************************************************************************)
(* Population and ships.  What they say of one room, whose crew is C, of   *)
(* c seats, whose ships are A, in phase f, created or not.  A departure    *)
(* only makes crews smaller; an arrival adds one seat to a room that is    *)
(* not full.                                                               *)
(***************************************************************************)
Populated(C, c, f, created) ==
    /\ IsFiniteSet(C) /\ Cardinality(C) <= c
    /\ f = "WAITING" => Cardinality(C) <= 1
    /\ f \in Live => C # {}
    /\ f = "none" <=> ~created
    /\ f = "none" => C = {}

Ids(C) == {m.id : m \in C}

Shipped(C, A, f) ==
    /\ A \subseteq Ids(C)
    /\ f \in {"WAITING", "STARTING"} => A = Ids(C)

Members2 == \A r \in RoomIds : /\ Populated(crew[r], cap[r], phase[r], r <= nRooms)
                               /\ Shipped(crew[r], alive[r], phase[r])

LEMMA Members2Says ==
    ASSUME TypeOK, Members2
    PROVE  RoomPopulation /\ ShipsMatchCrew
<1>1. \A r \in RoomIds : r > nRooms <=> ~(r <= nRooms)
  BY DEF TypeOK, RoomIds
<1> QED BY <1>1 DEF Members2, Populated, Shipped, Ids, RoomPopulation, ShipsMatchCrew

LEMMA Members2Init == Init => Members2
<1> SUFFICES ASSUME Init, NEW r \in RoomIds
             PROVE  /\ Populated(crew[r], cap[r], phase[r], r <= nRooms)
                    /\ Shipped(crew[r], alive[r], phase[r])
  BY DEF Members2
<1>1. crew[r] = {} /\ cap[r] = 0 /\ phase[r] = "none" /\ alive[r] = {} /\ ~(r <= nRooms)
  BY DEF Init, RoomIds
<1>2. IsFiniteSet({}) /\ Cardinality({}) = 0
  BY FS_EmptySet
<1> QED BY <1>1, <1>2 DEF Populated, Shipped, Ids, Live

\* What departures leave of a room.
LEMMA Without2 ==
    ASSUME TypeOK, Members2, NEW P, NEW r \in RoomIds
    PROVE  /\ Populated(CrewWithout(P)[r], cap[r], PhaseWithout(P)[r], r <= nRooms)
           /\ Shipped(CrewWithout(P)[r], AliveWithout(P)[r], PhaseWithout(P)[r])
<1> DEFINE C == CrewWithout(P)[r]
           f == PhaseWithout(P)[r]
           A == AliveWithout(P)[r]
<1>1. C = {m \in crew[r] : m.id \notin Leaving(r, P)} /\ C \subseteq crew[r]
  BY DEF CrewWithout
<1>2. A = alive[r] \ {p \in Leaving(r, P) : Aboard(crew[r], p)}
  BY DEF AliveWithout
<1>3. /\ f = phase[r] \/ (f = "GAME_OVER" /\ phase[r] \in Live)
      /\ Leaving(r, P) # {} /\ C = {} => f \notin Live
  BY DEF PhaseWithout, Live
<1>4. Leaving(r, P) = {} => C = crew[r]
  BY <1>1
<1> HIDE DEF C, f, A
<1>5. Populated(crew[r], cap[r], phase[r], r <= nRooms) /\ Shipped(crew[r], alive[r], phase[r])
  BY DEF Members2
<1>6. /\ IsFiniteSet(C) /\ Cardinality(C) <= Cardinality(crew[r])
      /\ Cardinality(C) \in Nat /\ Cardinality(crew[r]) \in Nat /\ cap[r] \in Nat
  <2>1. IsFiniteSet(crew[r])
    BY <1>5 DEF Populated
  <2>2. IsFiniteSet(C) /\ Cardinality(C) <= Cardinality(crew[r])
    BY <1>1, <2>1, FS_Subset
  <2>3. cap[r] \in Nat
    BY DEF TypeOK
  <2> QED BY <2>1, <2>2, <2>3, FS_CardinalityType
<1>7. f \in Live => C # {}
  BY <1>3, <1>4, <1>5 DEF Populated, Live
<1>8. Populated(C, cap[r], f, r <= nRooms)
  <2>1. IsFiniteSet(C) /\ Cardinality(C) <= cap[r]
    BY <1>5, <1>6 DEF Populated
  <2>2. f = "WAITING" => Cardinality(C) <= 1
    BY <1>3, <1>5, <1>6 DEF Populated
  <2>3. f = "none" <=> ~(r <= nRooms)
    BY <1>3, <1>5 DEF Populated, Live
  <2>4. f = "none" => C = {}
    BY <1>1, <1>3, <1>5 DEF Populated
  <2> QED BY <1>7, <2>1, <2>2, <2>3, <2>4 DEF Populated
<1>9. A \subseteq Ids(C)
  BY <1>1, <1>2, <1>5 DEF Shipped, Ids, Aboard
<1>10. f \in {"WAITING", "STARTING"} => Ids(C) \subseteq A
  BY <1>1, <1>2, <1>3, <1>5 DEF Shipped, Ids, Live
<1> QED BY <1>8, <1>9, <1>10 DEF Shipped, C, f, A

LEMMA Create2 ==
    ASSUME TypeOK, Members2, NEW e \in Endpoints, NEW k \in Capacities, CreateRoom(e, k)
    PROVE  Members2'
<1> DEFINE n == nRooms + 1
           C == IF k > 0 THEN {[id |-> idOf[e], ep |-> e]} ELSE {}
           i == idOf[e]
<1>1. n \in RoomIds /\ nRooms \in Nat /\ nRooms' = n /\ k \in 0..255
  BY BoundsAreNat, CapacitiesAreBytes DEF CreateRoom, TypeOK, RoomIds
<1>2. IsFiniteSet(C) /\ Cardinality(C) <= k /\ Cardinality(C) <= 1
  <2>1. CASE k > 0
    <3>1. C = {[id |-> i, ep |-> e]}
      BY <2>1
    <3>2. IsFiniteSet(C) /\ Cardinality(C) = 1
      BY <3>1, FS_Singleton
    <3> QED BY <1>1, <2>1, <3>2
  <2>2. CASE ~(k > 0)
    <3>1. C = {}
      BY <2>2
    <3>2. IsFiniteSet(C) /\ Cardinality(C) = 0
      BY <3>1, FS_EmptySet
    <3> QED BY <1>1, <3>2
  <2> QED BY <2>1, <2>2
<1>3. /\ crew' = [CrewWithout({i}) EXCEPT ![n] = C]
      /\ alive' = [AliveWithout({i}) EXCEPT ![n] = {m.id : m \in C}]
      /\ phase' = [PhaseWithout({i}) EXCEPT ![n] = "WAITING"]
      /\ cap' = [cap EXCEPT ![n] = k]
  BY DEF CreateRoom
<1> HIDE DEF C, n, i
<1>4. crew'[n] = C /\ phase'[n] = "WAITING" /\ cap'[n] = k /\ alive'[n] = Ids(C)
  BY <1>1, <1>3 DEF TypeOK, CrewWithout, PhaseWithout, AliveWithout, Ids
<1>5. \A r \in RoomIds : r # n => /\ crew'[r] = CrewWithout({i})[r]
                                  /\ phase'[r] = PhaseWithout({i})[r]
                                  /\ alive'[r] = AliveWithout({i})[r]
                                  /\ cap'[r] = cap[r]
  BY <1>3 DEF TypeOK, CrewWithout, PhaseWithout, AliveWithout
<1> SUFFICES ASSUME NEW r \in RoomIds
             PROVE  /\ Populated(crew'[r], cap'[r], phase'[r], r <= nRooms')
                    /\ Shipped(crew'[r], alive'[r], phase'[r])
  BY DEF Members2
<1>6. CASE r = n
  <2>1. r <= nRooms'
    BY <1>1, <1>6 DEF RoomIds
  <2> QED BY <1>2, <1>4, <1>6, <2>1 DEF Populated, Shipped, Live
<1>7. CASE r # n
  <2>1. (r <= nRooms') <=> (r <= nRooms)
    BY <1>1, <1>7 DEF RoomIds, n
  <2>2. /\ Populated(CrewWithout({i})[r], cap[r], PhaseWithout({i})[r], r <= nRooms)
        /\ Shipped(CrewWithout({i})[r], AliveWithout({i})[r], PhaseWithout({i})[r])
    BY Without2
  <2> QED BY <1>5, <1>7, <2>1, <2>2 DEF Populated, Shipped
<1> QED BY <1>6, <1>7

LEMMA Join2 ==
    ASSUME TypeOK, Members2, NEW e \in Endpoints, NEW n \in RoomIds, JoinRoom(e, n)
    PROVE  Members2'
<1> DEFINE i == idOf[e]
           D == CrewWithout({idOf[e]})[n]
           C == D \cup {[id |-> i, ep |-> e]}
           f == PhaseWithout({i})[n]
           A == AliveWithout({i})[n]
<1>1. /\ crew' = [CrewWithout({i}) EXCEPT ![n] = C]
      /\ alive' = [AliveWithout({i}) EXCEPT ![n] = A \cup {i}]
      /\ phase' = [PhaseWithout({i}) EXCEPT ![n] = PhaseWith(f, C)]
      /\ cap' = cap /\ nRooms' = nRooms
      /\ n <= nRooms /\ ~(Cardinality(D) >= cap[n]) /\ f \in {"WAITING"} \cup Live
  BY DEF JoinRoom, Joinable, Full, AliveWithout
<1>2. Populated(D, cap[n], f, n <= nRooms) /\ Shipped(D, A, f)
  BY Without2
<1>3. C = D \cup {[id |-> i, ep |-> e]}
  OBVIOUS
<1> HIDE DEF C, D, f, A, i
<1>4. /\ crew'[n] = C /\ phase'[n] = PhaseWith(f, C) /\ cap'[n] = cap[n] /\ alive'[n] = A \cup {i}
  BY <1>1 DEF CrewWithout, PhaseWithout, AliveWithout
<1>5. \A r \in RoomIds : r # n => /\ crew'[r] = CrewWithout({i})[r]
                                  /\ phase'[r] = PhaseWithout({i})[r]
                                  /\ alive'[r] = AliveWithout({i})[r]
                                  /\ cap'[r] = cap[r]
  BY <1>1 DEF CrewWithout, PhaseWithout, AliveWithout
<1>6. /\ IsFiniteSet(C) /\ Cardinality(C) \in Nat /\ Cardinality(D) \in Nat
      /\ Cardinality(C) <= Cardinality(D) + 1
  <2> DEFINE x == [id |-> i, ep |-> e]
  <2>1. IsFiniteSet(D)
    BY <1>2 DEF Populated
  <2>2. C = D \cup {x}
    BY <1>3
  <2> HIDE DEF x
  <2>3. /\ IsFiniteSet(D \cup {x})
        /\ Cardinality(D \cup {x}) = IF x \in D THEN Cardinality(D) ELSE Cardinality(D) + 1
    BY <2>1, FS_AddElement
  <2>4. Cardinality(D) \in Nat
    BY <2>1, FS_CardinalityType
  <2> QED BY <2>2, <2>3, <2>4
<1>7. Cardinality(C) <= cap[n] /\ C # {}
  <2>1. C # {}
    BY <1>3
  <2>2. cap[n] \in Nat
    BY DEF TypeOK
  <2> QED BY <1>1, <1>6, <2>1, <2>2
<1>8. Populated(C, cap[n], PhaseWith(f, C), n <= nRooms)
  <2>1. PhaseWith(f, C) = "WAITING" => Cardinality(C) <= 1
    BY <1>6 DEF PhaseWith
  <2>2. PhaseWith(f, C) # "none"
    BY <1>1 DEF PhaseWith, Live
  <2> QED BY <1>1, <1>6, <1>7, <2>1, <2>2 DEF Populated
<1>9. Ids(C) = Ids(D) \cup {i}
  <2>1. \A m : m \in C <=> m \in D \/ m = [id |-> i, ep |-> e]
    BY <1>3
  <2>2. [id |-> i, ep |-> e].id = i
    OBVIOUS
  <2> QED BY <2>1, <2>2 DEF Ids
<1>10. PhaseWith(f, C) \in {"WAITING", "STARTING"} => f \in {"WAITING", "STARTING"}
  BY DEF PhaseWith
<1>11. Shipped(C, A \cup {i}, PhaseWith(f, C))
  BY <1>2, <1>9, <1>10 DEF Shipped
<1> SUFFICES ASSUME NEW r \in RoomIds
             PROVE  /\ Populated(crew'[r], cap'[r], phase'[r], r <= nRooms')
                    /\ Shipped(crew'[r], alive'[r], phase'[r])
  BY DEF Members2
<1>12. CASE r = n
  BY <1>1, <1>4, <1>8, <1>11, <1>12
<1>13. CASE r # n
  BY <1>1, <1>5, <1>13, Without2
<1> QED BY <1>12, <1>13

LEMMA Members2Next ==
    ASSUME TypeOK, Members2, [Next]_vars
    PROVE  Members2'
<1>1. ASSUME NEW P, NEW w, Departure(P, w), cap' = cap, nRooms' = nRooms
      PROVE  Members2'
  BY <1>1, Without2 DEF Departure, Members2
<1>2. ASSUME NEW e \in Endpoints, Disconnect(e)
      PROVE  Members2'
  BY <1>2, <1>1, Departures DEF Disconnect
<1>3. ASSUME NEW e \in Endpoints, LeaveRoom(e)
      PROVE  Members2'
  BY <1>3, <1>1, Departures DEF LeaveRoom
<1>4. ASSUME NEW e \in Endpoints, NEW r \in RoomIds, JoinRefused(e, r)
      PROVE  Members2'
  BY <1>4, <1>1, Departures DEF JoinRefused
<1>5. CASE CleanupPlayers
  BY <1>5, <1>1, Departures DEF CleanupPlayers
<1>6. ASSUME NEW p \in PlayerIds, Kick(p)
      PROVE  Members2'
  BY <1>6, <1>1, Departures DEF Kick
<1>7. ASSUME NEW due \in SUBSET RoomIds, NEW killed \in SUBSET PlayerIds, UpdateGame(due, killed)
      PROVE  Members2'
  <2> SUFFICES ASSUME NEW r \in RoomIds
               PROVE  /\ Populated(crew'[r], cap'[r], phase'[r], r <= nRooms')
                      /\ Shipped(crew'[r], alive'[r], phase'[r])
    BY DEF Members2
  <2>1. /\ crew' = crew /\ cap' = cap /\ nRooms' = nRooms
        /\ \/ phase'[r] = phase[r]
           \/ phase[r] = "STARTING" /\ phase'[r] = "PLAYING"
           \/ phase[r] = "PLAYING" /\ phase'[r] = "GAME_OVER"
        /\ alive'[r] \subseteq alive[r]
        /\ phase[r] # "PLAYING" => alive'[r] = alive[r]
    BY <1>7 DEF UpdateGame, Playing, Starts, Lost
  <2>2. Populated(crew[r], cap[r], phase[r], r <= nRooms) /\ Shipped(crew[r], alive[r], phase[r])
    BY DEF Members2
  <2> QED BY <2>1, <2>2 DEF Populated, Shipped, Live
<1>8. ASSUME UNCHANGED <<crew, cap, nRooms, alive>>,
             \A r \in RoomIds : \/ phase'[r] = phase[r]
                                \/ phase[r] # "none" /\ phase'[r] \in {"GAME_OVER", "FINISHED"}
      PROVE  Members2'
  BY <1>8 DEF Members2, Populated, Shipped, Live
<1>9. ASSUME NEW r \in RoomIds, ForceEnd(r)
      PROVE  Members2'
  <2>1. phase[r] # "none"
    BY <1>9 DEF ForceEnd, Members2, Populated, TypeOK
  <2>2. \A s \in RoomIds : s # r => phase'[s] = phase[s]
    BY <1>9 DEF ForceEnd, TypeOK
  <2>3. phase'[r] = "GAME_OVER"
    BY <1>9 DEF ForceEnd, TypeOK
  <2> QED BY <1>8, <1>9, <2>1, <2>2, <2>3 DEF ForceEnd
<1>10. CASE BroadcastGameEvents
  BY <1>8, <1>10 DEF BroadcastGameEvents, PhaseAnnounced
<1>11. ASSUME UNCHANGED rooms
       PROVE  Members2'
  BY <1>8, <1>11 DEF rooms
<1> QED
  BY <1>2, <1>3, <1>4, <1>5, <1>6, <1>7, <1>9, <1>10, <1>11, Create2, Join2
  DEF Next, HandlePacket, Tick, Admin, vars, Connect, Refresh, EndInputs, SkipCleanup, GoSilent

LEMMA Members2Always == Spec => [](TypeOK /\ Members2)
<1>1. Init => Members2
  BY Members2Init
<1>2. TypeOK /\ Members2 /\ [Next]_vars => Members2'
  BY Members2Next
<1> QED BY <1>1, <1>2, TypeCorrect, PTL DEF Spec

(***************************************************************************)
(* Population: no room holds more players than it has seats, a waiting     *)
(* room never has the two that start it, and none runs empty.              *)
(***************************************************************************)
THEOREM PopulationKept == Spec => []RoomPopulation
<1>1. TypeOK /\ Members2 => RoomPopulation
  BY Members2Says
<1> QED BY <1>1, Members2Always, PTL

(***************************************************************************)
(* Ships: a room's engine flies ships of its players only, and one of each *)
(* until the game runs.                                                    *)
(***************************************************************************)
THEOREM ShipsKept == Spec => []ShipsMatchCrew
<1>1. TypeOK /\ Members2 => ShipsMatchCrew
  BY Members2Says
<1> QED BY <1>1, Members2Always, PTL

(***************************************************************************)
(* What clients know.  ViewOf is what a client must have been told of the  *)
(* stage of its room, of c seats and in phase f.                           *)
(***************************************************************************)
ViewOf(f, c, t) ==
    /\ f = "WAITING"  => t = "waiting"
    /\ f = "STARTING" => t \in {"waiting", "playing"}
    /\ f = "PLAYING"  => t = "playing"
    /\ f = "FINISHED" /\ c > 0 => t = "over"

Knows(e) ==
    LET r == roomOf[idOf[e]] IN
    /\ r = InLobby => toldRoom[e] = 0 /\ told[e] = "lobby"
    /\ r \in RoomIds => toldRoom[e] = r /\ ViewOf(phase[r], cap[r], told[e])

LEMMA KnowsIs == ClientsKnow <=> \A e \in Connected : Knows(e)
BY DEF ClientsKnow, Knows, ViewOf

\* A broadcast to a room reaches the players that the map has in it, if the room has
\* any seat, and nobody else.
LEMMA Reached ==
    ASSUME Members1, NEW e \in Connected, NEW r \in RoomIds
    PROVE  /\ e \in Members(r) => roomOf[idOf[e]] = r
           /\ roomOf[idOf[e]] = r /\ cap[r] # 0 => e \in Members(r)
<1> TypeOK
  BY DEF Members1
<1>1. ASSUME e \in Members(r)
      PROVE  roomOf[idOf[e]] = r
  BY <1>1 DEF Members, Members1, MembershipAgrees
<1>2. ASSUME roomOf[idOf[e]] = r, cap[r] # 0
      PROVE  e \in Members(r)
  <2>1. idOf[e] \in PlayerIds
    BY ConnectedId
  <2>2. PICK m \in crew[r] : m.id = idOf[e]
    BY <1>2, <2>1 DEF Members1, MembershipAgrees, Aboard
  <2>3. m.ep \in Connected /\ idOf[m.ep] = idOf[e]
    BY <2>1, <2>2, SeatIs, NoPlaces DEF Members1, MembershipAgrees, Connected
  <2>4. m.ep = e
    BY <2>3 DEF Members1, UniqueIdentity
  <2> QED BY <2>2, <2>4 DEF Members
<1> QED BY <1>1, <1>2

LEMMA LiveHasSeats ==
    ASSUME TypeOK, Members2, NEW r \in RoomIds, phase[r] \in Live
    PROVE  cap[r] # 0
<1>1. IsFiniteSet(crew[r]) /\ Cardinality(crew[r]) <= cap[r] /\ crew[r] # {}
  BY DEF Members2, Populated
<1>2. Cardinality(crew[r]) \in Nat /\ Cardinality(crew[r]) # 0
  BY <1>1, FS_EmptySet, FS_CardinalityType
<1> QED BY <1>1, <1>2

LEMMA KnowsDepart ==
    ASSUME TypeOK, NEW P, NEW w \in {InLobby, Untracked}, Departure(P, w), cap' = cap,
           NEW e \in Connected, Knows(e), idOf'[e] = idOf[e],
           toldRoom'[e] = toldRoom[e], told'[e] = told[e],
           idOf[e] \notin P \/ w = Untracked
    PROVE  Knows(e)'
<1>1. idOf[e] \in PlayerIds
  BY ConnectedId
<1>2. roomOf'[idOf[e]] = IF idOf[e] \in P THEN w ELSE roomOf[idOf[e]]
  BY <1>1 DEF Departure, RoomOfWithout
<1>3. CASE idOf[e] \in P
  BY <1>2, <1>3, NoPlaces DEF Knows
<1>4. CASE idOf[e] \notin P
  <2>1. ASSUME NEW r \in RoomIds, ViewOf(phase[r], cap[r], told[e])
        PROVE  ViewOf(phase'[r], cap[r], told[e])
    BY <2>1 DEF Departure, PhaseWithout, ViewOf
  <2> QED BY <1>2, <1>4, <2>1 DEF Knows
<1> QED BY <1>3, <1>4

\* A client that goes to its lobby, or is refused, is told so; the others know what
\* they knew.
LEMMA KnowsLeave ==
    ASSUME Members1, ClientsKnow, NEW e \in Connected, Departure({idOf[e]}, InLobby),
           cap' = cap, idOf' = idOf,
           toldRoom' = [toldRoom EXCEPT ![e] = 0], told' = [told EXCEPT ![e] = "lobby"]
    PROVE  ClientsKnow'
<1> TypeOK
  BY DEF Members1
<1> SUFFICES ASSUME NEW f \in Connected
             PROVE  Knows(f)'
  BY KnowsIs DEF ClientsKnow, Knows, ViewOf, Connected
<1>1. f \in Endpoints /\ idOf[f] \in PlayerIds
  BY ConnectedId
<1>2. CASE f = e
  <2>1. roomOf'[idOf[e]] = InLobby
    BY <1>1, <1>2 DEF Departure, RoomOfWithout
  <2>2. toldRoom'[e] = 0 /\ told'[e] = "lobby"
    BY <1>1, <1>2 DEF TypeOK
  <2> QED BY <1>2, <2>1, <2>2, NoPlaces DEF Knows
<1>3. CASE f # e
  <2>1. idOf[f] # idOf[e] /\ toldRoom'[f] = toldRoom[f] /\ told'[f] = told[f] /\ Knows(f)
    BY <1>1, <1>3, KnowsIs DEF Members1, UniqueIdentity, TypeOK
  <2> QED BY <2>1, KnowsDepart
<1> QED BY <1>2, <1>3

\* A client that enters a room is told its number and its stage t; the others know
\* what they knew.
Arrival(e, n, g, c, t) ==
    /\ phase' = [PhaseWithout({idOf[e]}) EXCEPT ![n] = g]
    /\ cap' = [cap EXCEPT ![n] = c] /\ idOf' = idOf
    /\ roomOf' = [roomOf EXCEPT ![idOf[e]] = n]
    /\ toldRoom' = [toldRoom EXCEPT ![e] = n]
    /\ told' = [told EXCEPT ![e] = t]

LEMMA KnowsArrive ==
    ASSUME Members1, ClientsKnow, NEW e \in Connected, NEW n \in RoomIds, NEW g, NEW c, NEW t,
           Arrival(e, n, g, c, t),
           ViewOf(g, c, t),
           \A f \in Connected : f # e /\ roomOf[idOf[f]] = n => ViewOf(g, c, told[f])
    PROVE  ClientsKnow'
<1> TypeOK
  BY DEF Members1
<1> USE DEF Arrival
<1> SUFFICES ASSUME NEW f \in Connected
             PROVE  Knows(f)'
  BY KnowsIs DEF ClientsKnow, Knows, ViewOf, Connected
<1>1. f \in Endpoints /\ idOf[f] \in PlayerIds /\ e \in Endpoints /\ idOf[e] \in PlayerIds
  BY ConnectedId
<1>2. /\ phase'[n] = g /\ cap'[n] = c
      /\ \A s \in RoomIds : s # n => phase'[s] = PhaseWithout({idOf[e]})[s] /\ cap'[s] = cap[s]
  BY DEF TypeOK, PhaseWithout
<1>3. CASE f = e
  <2>1. roomOf'[idOf'[e]] = n /\ toldRoom'[e] = n /\ told'[e] = t
    BY <1>1 DEF TypeOK
  <2> QED BY <1>2, <1>3, <2>1, NoPlaces DEF Knows
<1>4. CASE f # e
  <2>1. /\ idOf[f] # idOf[e] /\ idOf'[f] = idOf[f] /\ roomOf'[idOf[f]] = roomOf[idOf[f]]
        /\ toldRoom'[f] = toldRoom[f] /\ told'[f] = told[f] /\ Knows(f)
    BY <1>1, <1>4, KnowsIs DEF Members1, UniqueIdentity, TypeOK
  <2>2. CASE roomOf[idOf[f]] = n
    BY <1>2, <1>4, <2>1, <2>2, NoPlaces DEF Knows
  <2>3. ASSUME NEW s \in RoomIds, s # n, ViewOf(phase[s], cap[s], told[f])
        PROVE  ViewOf(phase'[s], cap'[s], told[f])
    <3>1. phase'[s] = phase[s] \/ phase'[s] = "GAME_OVER"
      BY <1>2, <2>3 DEF PhaseWithout
    <3> QED BY <1>2, <2>3, <3>1 DEF ViewOf
  <2> QED BY <2>1, <2>2, <2>3 DEF Knows
<1> QED BY <1>3, <1>4

LEMMA KnowNext ==
    ASSUME Members1, Members2, ClientsKnow, [Next]_vars
    PROVE  ClientsKnow'
<1> TypeOK /\ UniqueIdentity
  BY DEF Members1
<1>0. ASSUME \A f \in Connected' : Knows(f)'
      PROVE  ClientsKnow'
  BY <1>0 DEF ClientsKnow, Knows, ViewOf, Connected
<1>1. ASSUME NEW e \in Endpoints, NEW raw \in RawNames, Connect(e, raw)
      PROVE  ClientsKnow'
  <2> SUFFICES ASSUME NEW f \in Connected'
               PROVE  Knows(f)'
    BY <1>0
  <2>1. CASE f = e
    <3>1. idOf'[e] = nextId /\ nextId \in PlayerIds
      BY <1>1, BoundsAreNat DEF Connect, TypeOK, PlayerIds
    <3>2. roomOf'[idOf'[e]] = InLobby /\ toldRoom'[e] = 0 /\ told'[e] = "lobby"
      BY <1>1, <3>1 DEF Connect, TypeOK
    <3> QED BY <2>1, <3>2, NoPlaces DEF Knows
  <2>2. CASE f # e
    <3>1. f \in Connected /\ idOf'[f] = idOf[f]
      BY <1>1, <2>2 DEF Connect, TypeOK, Connected
    <3>2. idOf[f] \in PlayerIds /\ idOf[f] < nextId /\ nextId \in Int
      BY <3>1, ConnectedId DEF UniqueIdentity, TypeOK
    <3>3. roomOf'[idOf[f]] = roomOf[idOf[f]]
      BY <1>1, <3>2 DEF Connect, TypeOK, PlayerIds
    <3>4. toldRoom'[f] = toldRoom[f] /\ told'[f] = told[f] /\ phase' = phase /\ cap' = cap
      BY <1>1, <2>2, <3>1, ConnectedId DEF Connect, TypeOK, rooms
    <3>5. Knows(f)
      BY <3>1, KnowsIs
    <3> QED BY <3>1, <3>3, <3>4, <3>5 DEF Knows
  <2> QED BY <2>1, <2>2
<1>2. ASSUME NEW P, Departure(P, Untracked), cap' = cap,
             UNCHANGED views, \A f \in Connected' : f \in Connected /\ idOf'[f] = idOf[f]
      PROVE  ClientsKnow'
  <2>1. ASSUME NEW f \in Connected'
        PROVE  Knows(f)'
    <3>1. f \in Connected /\ idOf'[f] = idOf[f] /\ Knows(f)
      BY <1>2, KnowsIs
    <3>2. toldRoom'[f] = toldRoom[f] /\ told'[f] = told[f]
      BY <1>2 DEF views
    <3> QED BY <1>2, <3>1, <3>2, KnowsDepart
  <2> QED BY <2>1, <1>0
<1>3. ASSUME NEW e \in Endpoints, Disconnect(e)
      PROVE  ClientsKnow'
  <2>1. \A f \in Connected' : f \in Connected /\ idOf'[f] = idOf[f]
    BY <1>3 DEF Disconnect, Forget, Connected
  <2> QED BY <1>2, <1>3, <2>1, Departures DEF Disconnect
<1>4. CASE CleanupPlayers
  <2>1. \A f \in Connected' : f \in Connected /\ idOf'[f] = idOf[f]
    BY <1>4 DEF CleanupPlayers, Forget, Connected
  <2> QED BY <1>2, <1>4, <2>1, Departures DEF CleanupPlayers
<1>5. ASSUME NEW p \in PlayerIds, Kick(p)
      PROVE  ClientsKnow'
  <2>1. \A f \in Connected' : f \in Connected /\ idOf'[f] = idOf[f]
    BY <1>5 DEF Kick, Connected, registry
  <2> QED BY <1>2, <1>5, <2>1, Departures DEF Kick
<1>6. ASSUME NEW e \in Endpoints, LeaveRoom(e)
      PROVE  ClientsKnow'
  BY <1>6, KnowsLeave, Departures DEF LeaveRoom, registry
<1>7. ASSUME NEW e \in Endpoints, NEW r \in RoomIds, JoinRefused(e, r)
      PROVE  ClientsKnow'
  BY <1>7, KnowsLeave, Departures DEF JoinRefused, registry
<1>8. ASSUME NEW e \in Endpoints, NEW k \in Capacities, CreateRoom(e, k)
      PROVE  ClientsKnow'
  <2> DEFINE n == nRooms + 1
  <2>1. n \in RoomIds /\ e \in Connected
    BY <1>8, BoundsAreNat DEF CreateRoom, TypeOK, RoomIds
  <2>2. Arrival(e, n, "WAITING", k, "waiting")
    BY <1>8 DEF CreateRoom, registry, Arrival
  <2>3. ViewOf("WAITING", k, "waiting")
    BY DEF ViewOf
  <2>4. \A f \in Connected : roomOf[idOf[f]] # n
    BY <2>1, ConnectedId DEF Members1, Created, TypeOK
  <2> HIDE DEF n
  <2> QED BY <2>1, <2>2, <2>3, <2>4, KnowsArrive
<1>9. ASSUME NEW e \in Endpoints, NEW n \in RoomIds, JoinRoom(e, n)
      PROVE  ClientsKnow'
  <2> DEFINE f == PhaseWithout({idOf[e]})[n]
             C == CrewWithout({idOf[e]})[n] \cup {[id |-> idOf[e], ep |-> e]}
             g == PhaseWith(f, C)
  <2>1. /\ phase' = [PhaseWithout({idOf[e]}) EXCEPT ![n] = g]
        /\ cap' = cap /\ idOf' = idOf /\ e \in Connected
        /\ roomOf' = [roomOf EXCEPT ![idOf[e]] = n]
        /\ toldRoom' = [toldRoom EXCEPT ![e] = n]
        /\ told' = [told EXCEPT ![e] = StageOnJoin(f)]
    BY <1>9 DEF JoinRoom, registry
  <2>2. f \in {"WAITING"} \cup Live /\ f = phase[n]
    BY <1>9 DEF JoinRoom, Joinable, PhaseWithout, Live
  <2>0. \A x, D : PhaseWith(x, D) = x \/ (x = "WAITING" /\ PhaseWith(x, D) = "STARTING")
    BY DEF PhaseWith
  <2>3. g = f \/ (f = "WAITING" /\ g = "STARTING")
    BY <2>0
  <2> HIDE DEF f, g, C
  <2>4. ViewOf(g, cap[n], StageOnJoin(f))
    BY <2>2, <2>3 DEF ViewOf, StageOnJoin, Live
  <2>5. \A h \in Connected : roomOf[idOf[h]] = n => ViewOf(g, cap[n], told[h])
    BY <2>2, <2>3, KnowsIs DEF Knows, ViewOf, Live
  <2> DEFINE c == cap[n]
             t == StageOnJoin(f)
  <2>6. Arrival(e, n, g, c, t)
    BY <2>1 DEF TypeOK, Arrival
  <2>7. /\ ViewOf(g, c, t)
        /\ \A h \in Connected : h # e /\ roomOf[idOf[h]] = n => ViewOf(g, c, told[h])
    BY <2>4, <2>5
  <2> HIDE DEF c, t
  <2> QED BY <2>1, <2>6, <2>7, KnowsArrive
<1>10. ASSUME NEW due \in SUBSET RoomIds, NEW killed \in SUBSET PlayerIds, UpdateGame(due, killed)
       PROVE  ClientsKnow'
  <2> SUFFICES ASSUME NEW e \in Connected
               PROVE  Knows(e)'
    BY <1>0, <1>10 DEF UpdateGame, registry, Connected
  <2> DEFINE r == roomOf[idOf[e]]
             S == Starts(due)
             O == Lost(killed)
  <2>1. /\ idOf' = idOf /\ roomOf' = roomOf /\ toldRoom' = toldRoom /\ cap' = cap
        /\ told'[e] = IF \E o \in O : e \in Members(o) THEN "over"
                      ELSE IF \E s \in S : e \in Members(s) THEN "playing" ELSE told[e]
        /\ \A s \in RoomIds : phase'[s] = IF s \in S THEN "PLAYING"
                                          ELSE IF s \in O THEN "GAME_OVER" ELSE phase[s]
    BY <1>10, ConnectedId DEF UpdateGame, registry, ToldAfter
  <2>2. S \subseteq RoomIds /\ O \subseteq RoomIds
        /\ (\A s \in S : phase[s] = "STARTING") /\ (\A o \in O : phase[o] = "PLAYING")
    BY DEF Starts, Lost, Playing
  <2> HIDE DEF S, O
  <2>3. \A s \in S \cup O : e \in Members(s) <=> s = r
    BY <2>2, Reached, LiveHasSeats DEF Live
  <2>4. Knows(e)
    BY KnowsIs
  <2>5. CASE r \in S
    <3>1. r \notin O /\ told'[e] = "playing" /\ phase'[r] = "PLAYING"
      BY <2>1, <2>2, <2>3, <2>5
    <3>2. ViewOf(phase'[r], cap[r], told'[e])
      BY <3>1 DEF ViewOf
    <3> QED BY <2>1, <2>2, <2>4, <2>5, <3>2, NoPlaces DEF Knows
  <2>6. CASE r \in O
    <3>1. phase'[r] = "GAME_OVER"
      BY <2>1, <2>2, <2>6
    <3>2. ViewOf(phase'[r], cap[r], told'[e])
      BY <3>1 DEF ViewOf
    <3> QED BY <2>1, <2>2, <2>4, <2>6, <3>2, NoPlaces DEF Knows
  <2>7. CASE r \notin S \cup O
    <3>1. told'[e] = told[e] /\ (r \in RoomIds => phase'[r] = phase[r])
      BY <2>1, <2>2, <2>3, <2>7
    <3> QED BY <2>1, <2>4, <3>1 DEF Knows
  <2> QED BY <2>5, <2>6, <2>7
<1>11. CASE BroadcastGameEvents
  <2> SUFFICES ASSUME NEW e \in Connected
               PROVE  Knows(e)'
    BY <1>0, <1>11 DEF BroadcastGameEvents, registry, Connected
  <2> DEFINE r == roomOf[idOf[e]]
             O == {o \in RoomIds : phase[o] = "GAME_OVER"}
  <2>1. /\ idOf' = idOf /\ roomOf' = roomOf /\ toldRoom' = toldRoom /\ cap' = cap
        /\ told'[e] = IF \E o \in O : e \in Members(o) THEN "over" ELSE told[e]
        /\ \A s \in RoomIds : phase'[s] = IF s \in O THEN "FINISHED" ELSE phase[s]
    BY <1>11, ConnectedId DEF BroadcastGameEvents, PhaseAnnounced, registry, ToldAfter
  <2>2. O \subseteq RoomIds /\ Knows(e)
    BY KnowsIs
  <2> HIDE DEF O
  <2>3. \A o \in O : /\ e \in Members(o) => o = r
                     /\ o = r /\ cap[o] # 0 => e \in Members(o)
    BY <2>2, Reached
  <2>4. CASE r \in O
    <3>1. cap[r] > 0 => told'[e] = "over"
      BY <2>1, <2>2, <2>3, <2>4 DEF TypeOK
    <3>2. ViewOf(phase'[r], cap[r], told'[e])
      BY <2>1, <2>2, <2>4, <3>1 DEF ViewOf
    <3> QED BY <2>1, <2>2, <2>4, <3>2, NoPlaces DEF Knows
  <2>5. CASE r \notin O
    <3>1. told'[e] = told[e] /\ (r \in RoomIds => phase'[r] = phase[r])
      BY <2>1, <2>3, <2>5
    <3> QED BY <2>1, <2>2, <3>1 DEF Knows
  <2> QED BY <2>4, <2>5
<1>12. ASSUME UNCHANGED <<idOf, roomOf, cap, views>>,
              \A r \in RoomIds : phase'[r] = phase[r] \/ phase'[r] = "GAME_OVER"
       PROVE  ClientsKnow'
  BY <1>12 DEF ClientsKnow, Connected, views
<1>13. ASSUME NEW r \in RoomIds, ForceEnd(r)
       PROVE  ClientsKnow'
  BY <1>12, <1>13 DEF ForceEnd, registry, TypeOK
<1>14. ASSUME UNCHANGED <<registry, roomOf, rooms, views>>
       PROVE  ClientsKnow'
  BY <1>12, <1>14 DEF registry, rooms
<1> QED
  BY <1>1, <1>3, <1>4, <1>5, <1>6, <1>7, <1>8, <1>9, <1>10, <1>11, <1>13, <1>14
  DEF Next, HandlePacket, Tick, Admin, vars, Refresh, EndInputs, SkipCleanup, GoSilent

(***************************************************************************)
(* Clients: whatever moves, refusals, starts and ends a player lives       *)
(* through, its client has been told the room and the stage it is at.      *)
(***************************************************************************)
THEOREM ClientsAlwaysKnow == Spec => []ClientsKnow
<1>1. Init => ClientsKnow
  BY DEF Init, ClientsKnow, Connected
<1>2. Members1 /\ TypeOK /\ Members2 /\ ClientsKnow /\ [Next]_vars => ClientsKnow'
  BY KnowNext
<1> QED BY <1>1, <1>2, Members1Always, Members2Always, PTL DEF Spec

(***************************************************************************)
(* The lobby implements RoomService.  Stage and Ids are what the service   *)
(* sees of a room in phase f with crew C; Moves is RoomService's RoomStep  *)
(* on what it sees before (f, C) and after (g, D).                         *)
(***************************************************************************)
Stage(f) ==
    IF f = "none" THEN "none"
    ELSE IF f = "WAITING" THEN "open"
    ELSE IF f \in Live THEN "live"
    ELSE "over"

Opens(f, C, g, D) ==
    /\ Stage(f) = "none" /\ Stage(g) = "open"
    /\ Ids(D) = {} \/ \E p \in PlayerIds : Ids(D) = {p}

Boards(f, C, g, D) ==
    /\ Stage(f) \in {"open", "live"}
    /\ \E p \in PlayerIds \ Ids(C) : Ids(D) = Ids(C) \cup {p}
    /\ Stage(g) = IF Ids(C) = {} THEN Stage(f) ELSE "live"

Departs(f, C, g, D) ==
    /\ Ids(D) \subseteq Ids(C)
    /\ Stage(g) = IF Stage(f) = "live" /\ Ids(D) = {} THEN "over" ELSE Stage(f)

Closes(f, C, g, D) ==
    Stage(f) \in {"open", "live"} /\ Stage(g) = "over" /\ Ids(D) = Ids(C)

Stays(f, C, g, D) == Stage(g) = Stage(f) /\ Ids(D) = Ids(C)

Moves(f, C, g, D) ==
    Opens(f, C, g, D) \/ Boards(f, C, g, D) \/ Departs(f, C, g, D)
    \/ Closes(f, C, g, D) \/ Stays(f, C, g, D)

LEMMA IdsAndStages ==
    /\ \A C : Ids(C) = {} <=> C = {}
    /\ \A C, D : C \subseteq D => Ids(C) \subseteq Ids(D)
    /\ \A f : Stage(f) \in {"none", "open", "live", "over"}
    /\ \A f : Stage(f) = "live" <=> f \in Live
BY DEF Ids, Stage, Live

\* A room that players leave departs, whoever of them was in it.
LEMMA DepartureDeparts ==
    ASSUME TypeOK, Members2, NEW P, NEW r \in RoomIds
    PROVE  Moves(phase[r], crew[r], PhaseWithout(P)[r], CrewWithout(P)[r])
<1> DEFINE D == CrewWithout(P)[r]
           g == PhaseWithout(P)[r]
<1>1. D \subseteq crew[r] /\ (Leaving(r, P) = {} => D = crew[r])
  BY DEF CrewWithout
<1>2. g = IF Leaving(r, P) # {} /\ D = {} /\ phase[r] \in Live THEN "GAME_OVER" ELSE phase[r]
  BY DEF PhaseWithout
<1>3. phase[r] \in Live => crew[r] # {}
  BY DEF Members2, Populated
<1> HIDE DEF D, g
<1>4. Stage("GAME_OVER") = "over"
  BY DEF Stage, Live
<1>5. CASE phase[r] \in Live /\ D = {}
  <2>1. g = "GAME_OVER" /\ Stage(phase[r]) = "live"
    BY <1>1, <1>2, <1>3, <1>5, IdsAndStages
  <2> QED BY <1>1, <1>4, <1>5, <2>1, IdsAndStages DEF Departs, Moves, D, g
<1>6. CASE ~(phase[r] \in Live /\ D = {})
  <2>1. g = phase[r]
    BY <1>2, <1>6
  <2> QED BY <1>1, <1>6, <2>1, IdsAndStages DEF Departs, Moves, D, g
<1> QED BY <1>5, <1>6

\* The player e, whose id is i, joins the room n.
LEMMA JoinMoves ==
    ASSUME Members1, Members2, NEW e \in Endpoints, NEW n \in RoomIds, JoinRoom(e, n)
    PROVE  Moves(phase[n], crew[n], phase'[n], crew'[n])
<1> DEFINE i == idOf[e]
           x == [id |-> idOf[e], ep |-> e]
           D == CrewWithout({idOf[e]})[n]
           C == D \cup {x}
           f == phase[n]
           g == PhaseWith(PhaseWithout({idOf[e]})[n], C)
<1> TypeOK
  BY DEF Members1
<1>1. i \in PlayerIds
  BY ConnectedId DEF JoinRoom
<1>2. /\ crew'[n] = C /\ phase'[n] = g /\ f \in {"WAITING"} \cup Live
      /\ PhaseWithout({idOf[e]})[n] = f
  BY DEF JoinRoom, Joinable, CrewWithout, PhaseWithout, Live
<1>3. D = {m \in crew[n] : m.id \notin Leaving(n, {i})}
  BY DEF CrewWithout
<1>4. \A m \in crew[n] : roomOf[m.id] = n /\ m.id \in PlayerIds
  BY SeatIs DEF Members1, MembershipAgrees
<1>5. \A m \in crew[n] : m \in D <=> m.id # i
  BY <1>1, <1>3, <1>4 DEF Leaving
<1>6. x.id = i /\ Ids({x}) = {i}
  BY DEF Ids
<1>7. g = IF f = "WAITING" /\ Cardinality(C) >= 2 THEN "STARTING" ELSE f
  BY <1>2 DEF PhaseWith
<1>8. IsFiniteSet(crew[n]) /\ Cardinality(crew[n]) \in Nat
      /\ (f = "WAITING" => Cardinality(crew[n]) <= 1) /\ (f \in Live => crew[n] # {})
  BY FS_CardinalityType DEF Members2, Populated
<1>9. D \subseteq crew[n] /\ C = D \cup {x}
  BY <1>3
<1>10. Ids(C) = Ids(D) \cup {i}
  <2>1. \A m : m \in C <=> m \in D \/ m = x
    BY <1>9
  <2> HIDE DEF C, D, x, i
  <2> QED BY <1>6, <2>1 DEF Ids
<1> HIDE DEF i, x, D, C, f, g
<1>11. CASE i \in Ids(crew[n])
  <2>1. PICK m \in crew[n] : m.id = i
    BY <1>11 DEF Ids
  <2>2. Ids(C) = Ids(crew[n])
    BY <1>5, <1>9, <1>10, <1>11 DEF Ids
  <2>3. f = "WAITING" => Cardinality(C) = 1
    <3> HAVE f = "WAITING"
    <3>1. Cardinality(crew[n]) = 1
      BY <1>8, <2>1, FS_EmptySet
    <3>2. PICK y : crew[n] = {y}
      BY <1>8, <3>1, FS_Singleton
    <3>3. D = {}
      BY <1>5, <1>9, <2>1, <3>2
    <3>4. C = {x}
      BY <1>9, <3>3
    <3> QED BY <3>4, FS_Singleton
  <2>4. g = f
    BY <1>7, <2>3
  <2> QED BY <1>2, <2>2, <2>4 DEF Stays, Moves, f
<1>12. CASE i \notin Ids(crew[n])
  <2>1. D = crew[n]
    BY <1>5, <1>9, <1>12 DEF Ids
  <2>2. Ids(C) = Ids(crew[n]) \cup {i}
    BY <1>10, <2>1
  <2>3. x \notin crew[n]
    BY <1>6, <1>12 DEF Ids
  <2>4. Cardinality(C) = Cardinality(crew[n]) + 1
    BY <1>8, <1>9, <2>1, <2>3, FS_AddElement
  <2>5. CASE crew[n] = {}
    <3>1. f = "WAITING" /\ Cardinality(C) = 1
      BY <1>2, <1>8, <2>4, <2>5, FS_EmptySet
    <3>2. g = f
      BY <1>7, <3>1
    <3>3. Stage(f) = "open" /\ Ids(crew[n]) = {}
      BY <2>5, <3>1, IdsAndStages DEF Stage
    <3> QED BY <1>1, <1>2, <2>2, <3>2, <3>3 DEF Boards, Moves, f
  <2>6. CASE crew[n] # {}
    <3>1. Cardinality(C) >= 2
      BY <1>8, <2>4, <2>6, FS_EmptySet
    <3>2. g \in Live /\ Stage(f) \in {"open", "live"}
      BY <1>2, <1>7, <3>1 DEF Live, Stage
    <3>3. Stage(g) = "live" /\ Ids(crew[n]) # {}
      BY <2>6, <3>2, IdsAndStages
    <3> QED BY <1>1, <1>2, <1>12, <2>2, <3>2, <3>3 DEF Boards, Moves, f
  <2> QED BY <2>5, <2>6
<1> QED BY <1>11, <1>12

LEMMA EveryStepMoves ==
    ASSUME Members1, Members2, [Next]_vars, NEW r \in RoomIds
    PROVE  Moves(phase[r], crew[r], phase'[r], crew'[r])
<1> TypeOK
  BY DEF Members1
<1>1. ASSUME NEW P, NEW w, Departure(P, w)
      PROVE  Moves(phase[r], crew[r], phase'[r], crew'[r])
  BY <1>1, DepartureDeparts DEF Departure
<1>2. ASSUME NEW e \in Endpoints, Disconnect(e) \/ LeaveRoom(e)
      PROVE  Moves(phase[r], crew[r], phase'[r], crew'[r])
  BY <1>1, <1>2, Departures
<1>3. ASSUME NEW e \in Endpoints, NEW s \in RoomIds, JoinRefused(e, s)
      PROVE  Moves(phase[r], crew[r], phase'[r], crew'[r])
  BY <1>1, <1>3, Departures
<1>4. CleanupPlayers => Moves(phase[r], crew[r], phase'[r], crew'[r])
  BY <1>1, Departures
<1>5. ASSUME NEW p \in PlayerIds, Kick(p)
      PROVE  Moves(phase[r], crew[r], phase'[r], crew'[r])
  BY <1>1, <1>5, Departures
<1>6. ASSUME NEW e \in Endpoints, NEW k \in Capacities, CreateRoom(e, k)
      PROVE  Moves(phase[r], crew[r], phase'[r], crew'[r])
  <2> DEFINE n == nRooms + 1
             C == IF k > 0 THEN {[id |-> idOf[e], ep |-> e]} ELSE {}
  <2>1. n \in RoomIds /\ nRooms \in Nat /\ idOf[e] \in PlayerIds
    BY <1>6, BoundsAreNat, ConnectedId DEF CreateRoom, TypeOK, RoomIds
  <2>2. /\ crew' = [CrewWithout({idOf[e]}) EXCEPT ![n] = C]
        /\ phase' = [PhaseWithout({idOf[e]}) EXCEPT ![n] = "WAITING"]
    BY <1>6 DEF CreateRoom
  <2>3. CASE r = n
    <3>1. phase[r] = "none"
      BY <2>1, <2>3 DEF Members2, Populated
    <3>2. crew'[r] = C /\ phase'[r] = "WAITING"
      BY <2>1, <2>2, <2>3 DEF CrewWithout, PhaseWithout
    <3>3. Ids(C) = {} \/ Ids(C) = {idOf[e]}
      BY DEF Ids
    <3> HIDE DEF C
    <3> QED BY <2>1, <3>1, <3>2, <3>3 DEF Opens, Moves, Stage
  <2>4. CASE r # n
    <3>1. crew'[r] = CrewWithout({idOf[e]})[r] /\ phase'[r] = PhaseWithout({idOf[e]})[r]
      BY <2>2, <2>4 DEF CrewWithout, PhaseWithout
    <3> QED BY <3>1, DepartureDeparts
  <2> QED BY <2>3, <2>4
<1>7. ASSUME NEW e \in Endpoints, NEW n \in RoomIds, JoinRoom(e, n)
      PROVE  Moves(phase[r], crew[r], phase'[r], crew'[r])
  <2>1. CASE r = n
    BY <1>7, <2>1, JoinMoves
  <2>2. CASE r # n
    <3>1. crew'[r] = CrewWithout({idOf[e]})[r] /\ phase'[r] = PhaseWithout({idOf[e]})[r]
      BY <1>7, <2>2 DEF JoinRoom, CrewWithout, PhaseWithout
    <3> QED BY <3>1, DepartureDeparts
  <2> QED BY <2>1, <2>2
<1>8. ASSUME crew'[r] = crew[r],
             \/ phase'[r] = phase[r]
             \/ phase[r] \in Live /\ phase'[r] \in Live
             \/ phase[r] # "none" /\ phase'[r] = "GAME_OVER"
             \/ phase[r] = "GAME_OVER" /\ phase'[r] = "FINISHED"
      PROVE  Moves(phase[r], crew[r], phase'[r], crew'[r])
  BY <1>8 DEF Moves, Stays, Closes, Stage, Live
<1>9. ASSUME NEW due \in SUBSET RoomIds, NEW killed \in SUBSET PlayerIds, UpdateGame(due, killed)
      PROVE  Moves(phase[r], crew[r], phase'[r], crew'[r])
  BY <1>8, <1>9 DEF UpdateGame, Playing, Starts, Lost, Live
<1>10. BroadcastGameEvents => Moves(phase[r], crew[r], phase'[r], crew'[r])
  BY <1>8 DEF BroadcastGameEvents, PhaseAnnounced
<1>11. ASSUME NEW s \in RoomIds, ForceEnd(s)
       PROVE  Moves(phase[r], crew[r], phase'[r], crew'[r])
  <2>1. phase[s] # "none" /\ crew' = crew
    BY <1>11 DEF ForceEnd, Members2, Populated, TypeOK
  <2>2. IF r = s THEN phase'[r] = "GAME_OVER" ELSE phase'[r] = phase[r]
    BY <1>11 DEF ForceEnd, TypeOK
  <2> QED BY <1>8, <2>1, <2>2
<1>12. UNCHANGED rooms => Moves(phase[r], crew[r], phase'[r], crew'[r])
  BY <1>8 DEF rooms
<1> QED
  BY <1>2, <1>3, <1>4, <1>5, <1>6, <1>7, <1>9, <1>10, <1>11, <1>12
  DEF Next, HandlePacket, Tick, Admin, vars, Connect, Refresh, EndInputs, SkipCleanup, GoSilent

LEMMA ServiceInit == Init => Service!Init
BY DEF Init, Service!Init, StageOf

LEMMA StageOfIs == \A r \in RoomIds : StageOf(r) = Stage(phase[r]) /\ StageOf(r)' = Stage(phase'[r])
BY DEF StageOf, Stage, Live

LEMMA ServiceNext ==
    ASSUME Members1, Members2, Members1', [Next]_vars
    PROVE  Service!Next
<1> DEFINE st == [r \in RoomIds |-> StageOf(r)]
           ab == [r \in RoomIds |-> {m.id : m \in crew[r]}]
<1>1. \A r \in RoomIds : /\ st[r] = Stage(phase[r]) /\ st'[r] = Stage(phase'[r])
                         /\ ab[r] = Ids(crew[r]) /\ ab'[r] = Ids(crew'[r])
  BY StageOfIs DEF Ids
<1>2. st' \in [RoomIds -> {"none", "open", "live", "over"}]
  BY DEF StageOf
<1>3. ab' \in [RoomIds -> SUBSET PlayerIds]
  BY DEF Members1, TypeOK, Seat
<1>4. \A r \in RoomIds : Moves(phase[r], crew[r], phase'[r], crew'[r])
  BY EveryStepMoves
<1>5. \A r, s \in RoomIds : r # s => ab'[r] \cap ab'[s] = {}
  <2> SUFFICES ASSUME NEW r \in RoomIds, NEW s \in RoomIds, NEW p \in ab'[r], p \in ab'[s]
               PROVE  r = s
    OBVIOUS
  <2>1. roomOf'[p] = r /\ roomOf'[p] = s
    BY <1>1 DEF Ids, Members1, MembershipAgrees
  <2> QED BY <2>1
<1>6. \A r \in RoomIds : Service!RoomStep(r)
  <2> SUFFICES ASSUME NEW r \in RoomIds
               PROVE  Service!RoomStep(r)
    OBVIOUS
  <2>1. CASE Opens(phase[r], crew[r], phase'[r], crew'[r])
    <3>1. Service!Open(r)
      BY <1>1, <2>1 DEF Opens, Service!Open
    <3> QED BY <3>1 DEF Service!RoomStep
  <2>2. CASE Boards(phase[r], crew[r], phase'[r], crew'[r])
    <3>1. Service!Board(r)
      BY <1>1, <2>2 DEF Boards, Service!Board
    <3> QED BY <3>1 DEF Service!RoomStep
  <2>3. CASE Departs(phase[r], crew[r], phase'[r], crew'[r])
    <3>1. Service!Depart(r)
      BY <1>1, <2>3 DEF Departs, Service!Depart
    <3> QED BY <3>1 DEF Service!RoomStep
  <2>4. CASE Closes(phase[r], crew[r], phase'[r], crew'[r])
    <3>1. Service!Close(r)
      BY <1>1, <2>4 DEF Closes, Service!Close
    <3> QED BY <3>1 DEF Service!RoomStep
  <2>5. CASE Stays(phase[r], crew[r], phase'[r], crew'[r])
    <3>1. Service!Stay(r)
      BY <1>1, <2>5 DEF Stays, Service!Stay
    <3> QED BY <3>1 DEF Service!RoomStep
  <2> QED BY <1>4, <2>1, <2>2, <2>3, <2>4, <2>5 DEF Moves
<1> QED BY <1>2, <1>3, <1>5, <1>6 DEF Service!Next, Service!OnePlaceEach

(***************************************************************************)
(* Refinement: the lobby implements RoomService, for any number of         *)
(* players, rooms and seats.                                               *)
(***************************************************************************)
THEOREM LobbyImplementsService == Spec => ImplementsService
<1>1. Init => Service!Init
  BY ServiceInit
<1>2. Members1 /\ Members2 /\ Members1' /\ [Next]_vars => Service!Next
  BY ServiceNext
<1> QED BY <1>1, <1>2, Members1Always, Members2Always, PTL DEF Spec, ImplementsService, Service!Spec

-----------------------------------------------------------------------------
(***************************************************************************)
(* Refinement of PlayersOnline, which the chat thread reads.  The nickname *)
(* seen of an id is that of the one endpoint that has it.                  *)
(***************************************************************************)
NicksSeen ==
    /\ \A e \in Connected :
        /\ idOf[e] \in PlayerIds /\ nickOf[e] \in Names /\ nickOf[e] # NoName
        /\ NickSeen[idOf[e]] = nickOf[e]
        /\ \A f \in Connected : idOf[f] = idOf[e] => f = e
    /\ \A p \in PlayerIds : p \notin IdsAt(Endpoints) => NickSeen[p] = NoName
    /\ NickSeen = [p \in PlayerIds |-> NickSeen[p]]
    /\ IdsAt(Endpoints) = {idOf[e] : e \in Connected}
    /\ Players!Online = IdsAt(Endpoints)

LEMMA NicksSeenIs == TypeOK /\ UniqueIdentity => NicksSeen
<1> SUFFICES ASSUME TypeOK, UniqueIdentity PROVE NicksSeen
  OBVIOUS
<1>1. ASSUME NEW e \in Connected
      PROVE  /\ idOf[e] \in PlayerIds /\ nickOf[e] \in Names /\ nickOf[e] # NoName
             /\ NickSeen[idOf[e]] = nickOf[e]
             /\ \A f \in Connected : idOf[f] = idOf[e] => f = e
  <2>1. idOf[e] \in PlayerIds /\ e \in Endpoints
    BY ConnectedId
  <2>2. nickOf[e] \in Names /\ nickOf[e] # NoName
    BY NoNameIsNoName DEF UniqueIdentity
  <2>3. ASSUME NEW f \in Endpoints, idOf[f] = idOf[e] PROVE f = e
    BY <2>3 DEF UniqueIdentity, Connected
  <2>4. (CHOOSE f \in Endpoints : idOf[f] = idOf[e]) = e
    BY <2>1, <2>3
  <2> QED BY <2>1, <2>2, <2>3, <2>4 DEF NickSeen, Connected
<1>2. \A p \in PlayerIds : p \notin IdsAt(Endpoints) => NickSeen[p] = NoName
  BY DEF NickSeen, IdsAt, PlayerIds
<1>3. NickSeen = [p \in PlayerIds |-> NickSeen[p]]
  BY DEF NickSeen
<1>4. IdsAt(Endpoints) = {idOf[e] : e \in Connected}
  BY DEF IdsAt, Connected
<1>5. Players!Online = IdsAt(Endpoints)
  BY <1>1, <1>2, <1>4 DEF Players!Online, Players!Ids, PlayerIds
<1> QED BY <1>1, <1>2, <1>3, <1>4, <1>5 DEF NicksSeen

LEMMA PlayersStay ==
    ASSUME UNCHANGED <<registry, roomOf>>
    PROVE  UNCHANGED Players!players
BY DEF registry, NickSeen, RoomSeen, IdsAt, Players!players

(* Players are forgotten at the endpoints S, and those of Q lose their rooms.  *)
LEMMA PlayersGo ==
    ASSUME TypeOK, NicksSeen, NicksSeen',
           NEW S \in SUBSET Endpoints, NEW Q \in SUBSET PlayerIds,
           NEW w \in {InLobby, Untracked},
           idOf' = [e \in Endpoints |-> IF e \in S THEN 0 ELSE idOf[e]],
           \A e \in Endpoints \ S : nickOf'[e] = nickOf[e],
           UNCHANGED nextId,
           roomOf' = RoomOfWithout(Q, w)
    PROVE  Players!PlayersNext
<1> DEFINE R == {p \in Q : RoomSeen[p] # InLobby}
<1>1. Players!Ids = PlayerIds
  BY DEF Players!Ids, PlayerIds
<1>2. IdsAt(S) \in SUBSET Players!Online
  BY DEF NicksSeen, IdsAt
<1>3. ASSUME NEW p \in PlayerIds
      PROVE  NickSeen'[p] = IF p \in IdsAt(S) THEN NoName ELSE NickSeen[p]
  <2>1. CASE p \in IdsAt(S)
    <3>1. PICK e \in S : idOf[e] = p /\ e \in Connected
      BY <2>1 DEF IdsAt, Connected
    <3>2. ASSUME NEW f \in Connected', idOf'[f] = p PROVE FALSE
      <4>1. f \in Connected /\ f \notin S /\ idOf[f] = p
        BY <3>2 DEF Connected
      <4> QED BY <3>1, <4>1 DEF NicksSeen
    <3>3. p \notin IdsAt(Endpoints)'
      BY <3>2 DEF NicksSeen
    <3> QED BY <2>1, <3>3 DEF NicksSeen
  <2>2. CASE p \notin IdsAt(S) /\ p \in IdsAt(Endpoints)
    <3>1. PICK e \in Connected : idOf[e] = p
      BY <2>2 DEF NicksSeen
    <3>2. e \in Endpoints \ S
      BY <2>2, <3>1 DEF IdsAt, Connected
    <3>3. idOf'[e] = p /\ nickOf'[e] = nickOf[e]
      BY <3>1, <3>2
    <3>4. e \in Connected'
      BY <3>1, <3>2, <3>3 DEF Connected
    <3>5. NickSeen'[p] = nickOf'[e]
      BY <3>3, <3>4 DEF NicksSeen
    <3>6. NickSeen[p] = nickOf[e]
      BY <3>1 DEF NicksSeen
    <3> QED BY <2>2, <3>3, <3>5, <3>6
  <2>3. CASE p \notin IdsAt(Endpoints)
    <3>1. p \notin IdsAt(S)
      BY <2>3 DEF IdsAt
    <3>2. p \notin IdsAt(Endpoints)'
      BY <2>3 DEF IdsAt
    <3> QED BY <2>3, <3>1, <3>2 DEF NicksSeen
  <2> QED BY <2>1, <2>2, <2>3
<1>4. NickSeen' = [p \in PlayerIds |-> IF p \in IdsAt(S) THEN NoName ELSE NickSeen[p]]
  BY <1>3 DEF NicksSeen
<1>5. RoomSeen' = [p \in PlayerIds |-> IF p \in Q THEN InLobby ELSE RoomSeen[p]]
  BY DEF RoomSeen, RoomOfWithout, RoomIds, InLobby, Untracked
<1>6. Players!Go(IdsAt(S), R)
  <2>1. RoomSeen' = [p \in PlayerIds |-> IF p \in R THEN InLobby ELSE RoomSeen[p]]
    BY <1>5 DEF RoomSeen
  <2> QED BY <1>1, <1>4, <2>1 DEF Players!Go
<1>7. R \in SUBSET {p \in Players!Ids : RoomSeen[p] # InLobby}
  BY <1>1
<1> QED BY <1>2, <1>6, <1>7 DEF Players!PlayersNext

LEMMA PlayersLeaveRooms ==
    ASSUME TypeOK, NicksSeen, NicksSeen', UNCHANGED registry,
           NEW Q \in SUBSET PlayerIds, NEW w \in {InLobby, Untracked},
           roomOf' = RoomOfWithout(Q, w)
    PROVE  Players!PlayersNext
<1>1. idOf' = [e \in Endpoints |-> IF e \in {} THEN 0 ELSE idOf[e]]
  BY DEF registry, TypeOK
<1>2. /\ {} \in SUBSET Endpoints
      /\ \A e \in Endpoints \ {} : nickOf'[e] = nickOf[e]
      /\ UNCHANGED nextId
  BY DEF registry
<1> QED BY <1>1, <1>2, PlayersGo

LEMMA PlayerEnrols ==
    ASSUME TypeOK, UniqueIdentity, NicksSeen, NicksSeen',
           NEW e \in Endpoints, NEW raw \in RawNames, Connect(e, raw)
    PROVE  Players!PlayersNext
<1> DEFINE n == Sanitized[raw]
<1>1. /\ e \notin Connected /\ e \in Endpoints /\ nextId \in PlayerIds
      /\ idOf' = [idOf EXCEPT ![e] = nextId] /\ nickOf' = [nickOf EXCEPT ![e] = n]
      /\ nextId' = nextId + 1
      /\ roomOf' = [roomOf EXCEPT ![nextId] = InLobby]
  BY BoundsAreNat DEF Connect, StoredNickname, TypeOK, PlayerIds
<1>2. n \in Names
  BY DEF Names
<1>3. \A f \in Connected : nickOf[f] # n
  BY DEF Connect, NicknameAvailable, NicksSeen
<1> HIDE DEF n
<1>4. \A p \in Players!Online : NickSeen[p] # n
  BY <1>3 DEF NicksSeen
<1>5. /\ e \in Connected' /\ idOf'[e] = nextId /\ nickOf'[e] = n
      /\ \A f \in Connected : f \in Connected' /\ idOf'[f] = idOf[f] /\ nickOf'[f] = nickOf[f]
  BY <1>1 DEF Connected, TypeOK, PlayerIds
<1>6. ASSUME NEW p \in PlayerIds
      PROVE  NickSeen'[p] = IF p = nextId THEN n ELSE NickSeen[p]
  <2>1. CASE p = nextId
    BY <1>5, <2>1 DEF NicksSeen
  <2>2. CASE p # nextId /\ p \in IdsAt(Endpoints)
    <3>1. PICK f \in Connected : idOf[f] = p
      BY <2>2 DEF NicksSeen
    <3> QED BY <1>5, <2>2, <3>1 DEF NicksSeen
  <2>3. CASE p # nextId /\ p \notin IdsAt(Endpoints)
    <3>1. p \notin IdsAt(Endpoints)'
      BY <1>1, <2>3 DEF IdsAt, TypeOK
    <3> QED BY <2>3, <3>1 DEF NicksSeen
  <2> QED BY <2>1, <2>2, <2>3
<1>7. NickSeen' = [NickSeen EXCEPT ![nextId] = n]
  BY <1>6, <1>1 DEF NicksSeen
<1>8. roomOf[nextId] = Untracked
  <2>1. nextId \notin IdsAt(Endpoints)
    BY <1>1 DEF NicksSeen, UniqueIdentity, PlayerIds
  <2> QED BY <1>1, <2>1 DEF UniqueIdentity
<1>9. RoomSeen' = RoomSeen
  BY <1>1, <1>8 DEF RoomSeen, TypeOK, RoomIds, InLobby, Untracked
<1>10. Players!Enrol(n)
  BY <1>1, <1>4, <1>7, <1>9 DEF Players!Enrol, Players!Ids, PlayerIds
<1> QED BY <1>2, <1>10 DEF Players!PlayersNext

LEMMA PlayerEnters ==
    ASSUME TypeOK, NicksSeen, UNCHANGED registry,
           NEW e \in Connected, NEW r \in RoomIds, roomOf' = [roomOf EXCEPT ![idOf[e]] = r]
    PROVE  Players!PlayersNext
<1>1. idOf[e] \in PlayerIds /\ idOf[e] \in Players!Online
  BY DEF NicksSeen
<1>2. RoomSeen' = [RoomSeen EXCEPT ![idOf[e]] = r]
  BY <1>1 DEF RoomSeen, TypeOK
<1>3. UNCHANGED <<NickSeen, nextId>>
  BY DEF registry, NickSeen, IdsAt
<1>4. Players!Enter(idOf[e], r)
  BY <1>1, <1>2, <1>3 DEF Players!Enter
<1> QED BY <1>1, <1>4 DEF Players!PlayersNext, Players!Ids, PlayerIds

LEMMA PlayersStep ==
    ASSUME TypeOK, UniqueIdentity, NicksSeen, NicksSeen', [Next]_vars
    PROVE  Players!PlayersNext \/ UNCHANGED Players!players
<1>1. ASSUME NEW e \in Endpoints, NEW raw \in RawNames, Connect(e, raw)
      PROVE  Players!PlayersNext
  BY <1>1, PlayerEnrols
<1>2. ASSUME NEW e \in Endpoints, Disconnect(e) PROVE Players!PlayersNext
  <2>1. idOf[e] \in PlayerIds
    BY <1>2, ConnectedId DEF Disconnect
  <2> QED BY <1>2, <2>1, PlayersGo DEF Disconnect, Forget
<1>3. ASSUME NEW e \in Endpoints, LeaveRoom(e) \/ \E r \in RoomIds : JoinRefused(e, r)
      PROVE  Players!PlayersNext
  <2>1. e \in Connected /\ UNCHANGED registry /\ roomOf' = RoomOfWithout({idOf[e]}, InLobby)
    BY <1>3 DEF LeaveRoom, JoinRefused
  <2> QED BY <2>1, ConnectedId, PlayersLeaveRooms
<1>4. ASSUME NEW e \in Endpoints, NEW k \in Capacities, CreateRoom(e, k)
      PROVE  Players!PlayersNext
  <2>1. nRooms + 1 \in RoomIds
    BY <1>4, BoundsAreNat DEF CreateRoom, TypeOK, RoomIds
  <2> QED BY <1>4, <2>1, PlayerEnters DEF CreateRoom
<1>5. ASSUME NEW e \in Endpoints, NEW r \in RoomIds, JoinRoom(e, r)
      PROVE  Players!PlayersNext
  BY <1>5, PlayerEnters DEF JoinRoom
<1>6. CASE CleanupPlayers
  <2>1. silent \in SUBSET Endpoints /\ IdsAt(silent) \in SUBSET PlayerIds
    BY DEF TypeOK, IdsAt
  <2> QED BY <1>6, <2>1, PlayersGo DEF CleanupPlayers, Forget
<1>7. ASSUME NEW p \in PlayerIds, Kick(p) PROVE Players!PlayersNext
  BY <1>7, PlayersLeaveRooms DEF Kick
<1>8. \/ EndInputs \/ BroadcastGameEvents \/ SkipCleanup \/ UNCHANGED vars
      \/ \E due \in SUBSET RoomIds, killed \in SUBSET PlayerIds : UpdateGame(due, killed)
      \/ \E r \in RoomIds : ForceEnd(r)
      \/ \E e \in Endpoints : Refresh(e) \/ GoSilent(e)
      => UNCHANGED <<registry, roomOf>>
  BY DEF EndInputs, BroadcastGameEvents, SkipCleanup, UpdateGame, ForceEnd, Refresh, GoSilent, vars
<1> QED
  BY <1>1, <1>2, <1>3, <1>4, <1>5, <1>6, <1>7, <1>8, PlayersStay
  DEF Next, HandlePacket, Tick, Admin

(***************************************************************************)
(* The lobby gives the chat the players it reckons with: Chat's theorems   *)
(* hold of what the game thread really does.                               *)
(***************************************************************************)
THEOREM LobbyProvidesPlayers == Spec => ProvidesPlayers
<1>1. Init => Players!PlayersInit
  BY DEF Init, Players!PlayersInit, Players!Ids, PlayerIds, NickSeen, RoomSeen, IdsAt,
         RoomIds, InLobby, Untracked
<1>2. TypeOK /\ UniqueIdentity /\ NicksSeen /\ NicksSeen' /\ [Next]_vars =>
        [Players!PlayersNext]_(Players!players)
  BY PlayersStep
<1> QED
  BY <1>1, <1>2, NicksSeenIs, TypeCorrect, IdentitiesUnique, PTL
  DEF Spec, ProvidesPlayers, Players!PlayersSpec

=============================================================================
