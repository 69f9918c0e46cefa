-------------------------- MODULE RoomRaceProofs --------------------------
(* Theorems about RoomRace, for every set of players and every capacity. *)
EXTENDS RoomRace, FiniteSetTheorems, TLAPS

THEOREM TypeCorrect == Spec => []TypeOK
<1>1. Init => TypeOK
  BY BoundIsNat DEF Init, TypeOK, States
<1>2. ASSUME TypeOK, [Next]_vars
      PROVE  TypeOK'
  <2> USE <1>2 DEF TypeOK
  <2>1. ASSUME NEW p \in Players, Join(p) \/ Leave(p)
        PROVE  TypeOK'
    BY <2>1 DEF Join, Leave
  <2>2. CASE JoinLoad \/ JoinStore \/ LeaveLoad \/ LeaveStore
    BY <2>2 DEF JoinLoad, MustStart, JoinStore, LeaveLoad, LeaveStore, States
  <2>3. CASE UpdateLoad \/ StartStore \/ AnnounceStart \/ LostSwap \/ AnnounceEnd
    BY <2>3 DEF UpdateLoad, Starts, StartStore, AnnounceStart, LostSwap, AnnounceEnd, TellAll,
                States
  <2>4. ASSUME NEW killed \in SUBSET Players, Fly(killed)
        PROVE  TypeOK'
    BY <2>4 DEF Fly
  <2>5. CASE Events
    BY <2>5 DEF Events, EventsLoad, EventsAnnounce, EventsStore, TellAll, AfterEndSeen,
                States
  <2>6. CASE ForceEnd
    BY <2>6, BoundIsNat DEF ForceEnd, States
  <2>7. CASE UNCHANGED vars
    BY <2>7 DEF vars
  <2> QED BY <2>1, <2>2, <2>3, <2>4, <2>5, <2>6, <2>7 DEF Next, Going, Update
<1> QED BY <1>1, <1>2, PTL DEF Spec

(***************************************************************************)
(* Between a load and a store the game thread acts on a state that may be  *)
(* stale: what it holds on to at each point is part of the invariant.      *)
(***************************************************************************)
ToldSoFar ==
    /\ gpc = "seated" => newcomer \in players
    /\ state = "FINISHED" => gpc \in {"inputs", "emptied", "events"}
    /\ gpc = "announceStart" => state \in {"PLAYING", "GAME_OVER"}
    /\ gpc \in {"announceEnd", "announce", "finish"} => state = "GAME_OVER"
    /\ \A p \in players :
        /\ state = "WAITING" \/ gpc = "schedule" => told[p] = "waiting"
        /\ state = "STARTING" => told[p] \in {"waiting", "playing"}
        /\ state = "PLAYING" => \/ told[p] = "playing"
                                \/ gpc = "announceStart"
                                \/ gpc = "seated" /\ p = newcomer
        /\ state = "FINISHED" \/ gpc = "finish" => told[p] = "over"

LEMMA ToldSoFarHolds == Spec => []ToldSoFar
<1>1. Init => ToldSoFar
  BY DEF Init, ToldSoFar
<1>2. ASSUME TypeOK, ToldSoFar, [Next]_vars
      PROVE  ToldSoFar'
  <2> USE <1>2 DEF ToldSoFar, TypeOK
  <2>1. ASSUME NEW p \in Players, Join(p)
        PROVE  ToldSoFar'
    BY <2>1 DEF Join, Live
  <2>2. ASSUME NEW p \in Players, Leave(p)
        PROVE  ToldSoFar'
    BY <2>2 DEF Leave
  <2>3. CASE JoinLoad
    BY <2>3 DEF JoinLoad, MustStart, Live
  <2>4. CASE JoinStore \/ LeaveLoad \/ LeaveStore
    BY <2>4 DEF JoinStore, LeaveLoad, LeaveStore, EndsEmpty, Live
  <2>5. CASE UpdateLoad \/ StartStore \/ AnnounceStart \/ LostSwap \/ AnnounceEnd
    BY <2>5 DEF UpdateLoad, Starts, StartStore, AnnounceStart, LostSwap, AnnounceEnd, TellAll
  <2>6. ASSUME NEW killed \in SUBSET Players, Fly(killed)
        PROVE  ToldSoFar'
    BY <2>6 DEF Fly, Lost
  <2>7. CASE Events
    BY <2>7 DEF Events, EventsLoad, EventsAnnounce, EventsStore, TellAll, AfterEndSeen
  <2>8. CASE ForceEnd
    BY <2>8 DEF ForceEnd
  <2>9. CASE UNCHANGED vars
    BY <2>9 DEF vars
  <2> QED BY <2>1, <2>2, <2>3, <2>4, <2>5, <2>6, <2>7, <2>8, <2>9 DEF Next, Going, Update
<1> QED BY <1>1, <1>2, TypeCorrect, PTL DEF Spec

(***************************************************************************)
(* No forced end, wherever it falls between the game thread's loads and    *)
(* stores, leaves a player with another stage of the game than its room's. *)
(***************************************************************************)
THEOREM PlayersAlwaysFollow == Spec => []PlayersFollow
<1>1. ToldSoFar => PlayersFollow
  BY DEF ToldSoFar, PlayersFollow
<1> QED BY <1>1, ToldSoFarHolds, PTL

Peopled ==
    /\ gpc \in {"seated", "schedule", "start"} => players # {}
    /\ gpc \in {"emptied", "endEmpty"} => players = {}
    /\ NoGameWithoutPlayers

LEMMA PeopledHolds == Spec => []Peopled
<1>1. Init => Peopled
  <2> SUFFICES ASSUME NEW c \in Players, players = {c}, gpc = "inputs", state = "WAITING"
               PROVE  Peopled
    BY DEF Init
  <2>1. Cardinality({c}) = 1
    BY FS_Singleton
  <2> QED BY <2>1 DEF Peopled, NoGameWithoutPlayers, Live
<1>2. ASSUME TypeOK, Peopled, [Next]_vars
      PROVE  Peopled'
  <2> USE <1>2 DEF Peopled, NoGameWithoutPlayers, TypeOK, Live
  <2>0. /\ IsFiniteSet(players)
        /\ Cardinality(players) \in Nat
    BY PlayersAreFinite, FS_Subset, FS_CardinalityType
  <2>1. ASSUME NEW p \in Players, Join(p)
        PROVE  Peopled'
    BY <2>1 DEF Join
  <2>2. ASSUME NEW p \in Players, Leave(p)
        PROVE  Peopled'
    <3>1. Cardinality(players') \in Nat /\ Cardinality(players') <= Cardinality(players)
      BY <2>2, <2>0, FS_Subset, FS_CardinalityType DEF Leave
    <3>2. CASE players' = {}
      BY <2>2, <2>0, <3>1, <3>2 DEF Leave
    <3>3. CASE players' # {}
      BY <2>2, <2>0, <3>1, <3>3 DEF Leave
    <3> QED BY <3>2, <3>3
  <2>3. CASE JoinLoad
    BY <2>3, <2>0 DEF JoinLoad, MustStart
  <2>4. CASE JoinStore \/ LeaveLoad \/ LeaveStore
    BY <2>4 DEF JoinStore, LeaveLoad, LeaveStore, EndsEmpty
  <2>5. CASE UpdateLoad \/ StartStore \/ AnnounceStart \/ LostSwap \/ AnnounceEnd
    BY <2>5 DEF UpdateLoad, Starts, StartStore, AnnounceStart, LostSwap, AnnounceEnd
  <2>6. ASSUME NEW killed \in SUBSET Players, Fly(killed)
        PROVE  Peopled'
    BY <2>6 DEF Fly, Lost
  <2>7. CASE Events
    BY <2>7 DEF Events, EventsLoad, EventsAnnounce, EventsStore, AfterEndSeen
  <2>8. CASE ForceEnd
    BY <2>8 DEF ForceEnd
  <2>9. CASE UNCHANGED vars
    BY <2>9 DEF vars
  <2> QED BY <2>1, <2>2, <2>3, <2>4, <2>5, <2>6, <2>7, <2>8, <2>9 DEF Next, Going, Update
<1> QED BY <1>1, <1>2, TypeCorrect, PTL DEF Spec

(***************************************************************************)
(* No game goes on in an empty room, even one that a race with a forced    *)
(* end has put back to STARTING or PLAYING.                                *)
(***************************************************************************)
THEOREM NoGameIsEmpty == Spec => []NoGameWithoutPlayers
<1>1. Peopled => NoGameWithoutPlayers
  BY DEF Peopled
<1> QED BY <1>1, PeopledHolds, PTL

Settled == IsOver /\ gpc \notin {"schedule", "start"}

(***************************************************************************)
(* An end is undone only by a store that follows an older load of the      *)
(* state: once it is over and no start is on its way, a room stays over,   *)
(* whatever comes.                                                         *)
(***************************************************************************)
THEOREM EndsAreForGood == Spec => OverForGood
<1>1. ASSUME Settled, [Next]_vars
      PROVE  Settled'
  <2> USE <1>1 DEF Settled, IsOver
  <2>1. ASSUME NEW p \in Players, Join(p) \/ Leave(p)
        PROVE  Settled'
    BY <2>1 DEF Join, Leave, Live
  <2>2. CASE JoinLoad \/ JoinStore \/ LeaveLoad \/ LeaveStore
    BY <2>2 DEF JoinLoad, MustStart, JoinStore, LeaveLoad, LeaveStore, EndsEmpty, Live
  <2>3. CASE UpdateLoad \/ StartStore \/ AnnounceStart \/ LostSwap \/ AnnounceEnd
    BY <2>3 DEF UpdateLoad, Starts, StartStore, AnnounceStart, LostSwap, AnnounceEnd
  <2>4. ASSUME NEW killed \in SUBSET Players, Fly(killed)
        PROVE  Settled'
    BY <2>4 DEF Fly
  <2>5. CASE Events
    BY <2>5 DEF Events, EventsLoad, EventsAnnounce, EventsStore, AfterEndSeen
  <2>6. CASE ForceEnd
    BY <2>6 DEF ForceEnd
  <2>7. CASE UNCHANGED vars
    BY <2>7 DEF vars
  <2> QED BY <2>1, <2>2, <2>3, <2>4, <2>5, <2>6, <2>7 DEF Next, Going, Update
<1>2. Settled => IsOver
  BY DEF Settled
<1>3. Settled <=> IsOver /\ gpc \notin {"schedule", "start"}
  BY DEF Settled
<1> QED BY <1>1, <1>2, <1>3, PTL DEF Spec, OverForGood

-----------------------------------------------------------------------------
(***************************************************************************)
(* RoomService's moves, for the one room there is here.                    *)
(***************************************************************************)
LEMMA OneRoomMoves ==
    ASSUME TypeOK, TypeOK',
           \/ /\ Stage \in {"open", "live"}
              /\ \E p \in Players \ players : players' = players \cup {p}
              /\ Stage' = IF players = {} THEN Stage ELSE "live"
           \/ /\ players' \subseteq players
              /\ Stage' = IF Stage = "live" /\ players' = {} THEN "over" ELSE Stage
           \/ /\ Stage \in {"open", "live"} /\ Stage' = "over" /\ players' = players
           \/ Stage' = Stage /\ players' = players
    PROVE  Service!Next
<1>1. Service!RoomStep("room")
  BY DEF Service!RoomStep, Service!Board, Service!Depart, Service!Close, Service!Stay
<1>2. Stage' \in {"none", "open", "live", "over"} /\ players' \subseteq Players
  BY DEF Stage, TypeOK
<1>3. [r \in {"room"} |-> Stage]' \in [{"room"} -> {"none", "open", "live", "over"}]
  BY <1>2
<1>4. [r \in {"room"} |-> players]' \in [{"room"} -> SUBSET Players]
  BY <1>2
<1>5. Service!OnePlaceEach'
  BY DEF Service!OnePlaceEach
<1> QED BY <1>1, <1>3, <1>4, <1>5 DEF Service!Next

LEMMA JoinServes ==
    ASSUME TypeOK, TypeOK', Peopled, NEW p \in Players, Join(p)
    PROVE  Service!Next
<1>1. /\ gpc = "inputs" /\ p \notin players /\ players' = players \cup {p}
      /\ state \in {"WAITING"} \cup Live /\ state' = state
  BY DEF Join
<1>2. IsFiniteSet(players) /\ Cardinality(players) \in Nat
  BY PlayersAreFinite, FS_Subset, FS_CardinalityType DEF TypeOK
<1>3. Cardinality(players') = Cardinality(players) + 1
  BY <1>1, <1>2, FS_AddElement
<1>4. Cardinality(players) = 0 <=> players = {}
  BY <1>2, FS_EmptySet
<1>5. CASE state = "WAITING"
  <2>1. Cardinality(players) < 2
    BY <1>1, <1>5 DEF Peopled, NoGameWithoutPlayers
  <2>2. Stage = "open" /\ Stage' = IF Cardinality(players') < 2 THEN "open" ELSE "live"
    <3>1. Stage = "open"
      BY <1>5, <2>1 DEF Stage
    <3> QED BY <1>1, <1>5, <3>1 DEF Stage
  <2>3. Stage' = IF players = {} THEN Stage ELSE "live"
    BY <1>2, <1>3, <1>4, <2>1, <2>2
  <2> QED BY <1>1, <2>2, <2>3, OneRoomMoves
<1>6. CASE state \in Live
  <2>1. players # {}
    BY <1>1, <1>6 DEF Peopled, NoGameWithoutPlayers
  <2>2. Stage = "live" /\ Stage' = "live"
    BY <1>1, <1>6, <2>1 DEF Stage, Live
  <2> QED BY <1>1, <2>1, <2>2, OneRoomMoves
<1> QED BY <1>1, <1>5, <1>6

LEMMA LeaveServes ==
    ASSUME TypeOK, TypeOK', Peopled, NEW p \in Players, Leave(p)
    PROVE  Service!Next
<1>1. gpc = "inputs" /\ p \in players /\ players' = players \ {p} /\ state' = state
  BY DEF Leave
<1>2. /\ IsFiniteSet(players) /\ Cardinality(players) \in Nat
      /\ Cardinality(players') \in Nat /\ Cardinality(players') <= Cardinality(players)
  BY <1>1, PlayersAreFinite, FS_Subset, FS_CardinalityType DEF TypeOK
<1>3. state = "WAITING" => Cardinality(players) < 2 /\ Cardinality(players') < 2
  BY <1>1, <1>2 DEF Peopled, NoGameWithoutPlayers
<1>4. Stage' = IF Stage = "live" /\ players' = {} THEN "over" ELSE Stage
  <2>1. CASE state = "WAITING"
    <3>1. Stage = "open" /\ Stage' = "open"
      BY <1>1, <1>3, <2>1 DEF Stage
    <3> QED BY <3>1
  <2>2. CASE state # "WAITING"
    BY <1>1, <2>2 DEF Stage, Live
  <2> QED BY <2>1, <2>2
<1> QED BY <1>1, <1>4, OneRoomMoves

\* Players who stay where they are, in a room that goes on or ends.
LEMMA OthersServe ==
    ASSUME TypeOK, TypeOK', players' = players,
           \/ state' = state
           \/ state \in Live /\ state' \in Live
           \/ state = "WAITING" /\ Cardinality(players) >= 2 /\ players # {} /\ state' \in Live
           \/ IsOver'
    PROVE  Service!Next
<1>1. Stage \in {"open", "live", "over"}
  BY DEF Stage
<1>2. CASE state' = state
  <2>1. Stage' = Stage
    BY <1>2 DEF Stage
  <2> QED BY <2>1, OneRoomMoves
<1>3. CASE state \in Live /\ state' \in Live
  <2>1. Stage' = Stage
    BY <1>3 DEF Stage, Live
  <2> QED BY <2>1, OneRoomMoves
<1>4. CASE state = "WAITING" /\ Cardinality(players) >= 2 /\ players # {} /\ state' \in Live
  <2>0. Cardinality(players) \in Nat
    BY PlayersAreFinite, FS_Subset, FS_CardinalityType DEF TypeOK
  <2>1. Stage = "live" /\ Stage' = "live"
    BY <1>4, <2>0 DEF Stage, Live
  <2> QED BY <2>1, OneRoomMoves
<1>5. CASE IsOver'
  <2>1. Stage' = "over"
    BY <1>5 DEF Stage, IsOver, Live
  <2> QED BY <1>1, <2>1, OneRoomMoves
<1> QED BY <1>2, <1>3, <1>4, <1>5

\* What the game thread knows of the state it loaded: only a forced end can have
\* come in between.
Loaded ==
    /\ gpc = "schedule" =>
          \/ state = "WAITING" /\ Cardinality(players) >= 2
          \/ state = "GAME_OVER" /\ forced > 0
    /\ gpc = "start" => state = "STARTING" \/ (state = "GAME_OVER" /\ forced > 0)

LEMMA LoadedHolds == Spec => []Loaded
<1>1. Init => Loaded
  BY DEF Init, Loaded
<1>2. ASSUME TypeOK, Loaded, [Next]_vars
      PROVE  Loaded'
  <2> USE <1>2 DEF Loaded
  <2>1. ASSUME NEW p \in Players, Join(p) \/ Leave(p)
        PROVE  Loaded'
    BY <2>1 DEF Join, Leave
  <2>2. CASE JoinLoad \/ JoinStore \/ LeaveLoad \/ LeaveStore
    BY <2>2 DEF JoinLoad, MustStart, JoinStore, LeaveLoad, LeaveStore
  <2>3. CASE UpdateLoad \/ StartStore \/ AnnounceStart \/ LostSwap \/ AnnounceEnd
    BY <2>3 DEF UpdateLoad, Starts, StartStore, AnnounceStart, LostSwap, AnnounceEnd
  <2>4. ASSUME NEW killed \in SUBSET Players, Fly(killed)
        PROVE  Loaded'
    BY <2>4 DEF Fly
  <2>5. CASE Events
    BY <2>5 DEF Events, EventsLoad, EventsAnnounce, EventsStore, AfterEndSeen
  <2>6. CASE ForceEnd
    BY <2>6, BoundIsNat DEF ForceEnd, TypeOK
  <2>7. CASE UNCHANGED vars
    BY <2>7 DEF vars
  <2> QED BY <2>1, <2>2, <2>3, <2>4, <2>5, <2>6, <2>7 DEF Next, Going, Update
<1> QED BY <1>1, <1>2, TypeCorrect, PTL DEF Spec

(***************************************************************************)
(* The loads and stores of a room, with any number of forced ends between  *)
(* them, take RoomService's steps, but for the stores that undo an end.    *)
(***************************************************************************)
THEOREM LoadsAndStoresServe == Spec => ServesUnlessUndone
<1>1. ASSUME TypeOK, TypeOK', Peopled, Loaded, Next
      PROVE  Service!Next \/ Undo
  <2>1. ASSUME NEW p \in Players, Join(p) \/ Leave(p)
        PROVE  Service!Next
    BY <1>1, <2>1, JoinServes, LeaveServes
  <2>2. CASE JoinLoad \/ LeaveLoad \/ UpdateLoad \/ AnnounceStart \/ AnnounceEnd
    BY <1>1, <2>2, OthersServe DEF JoinLoad, LeaveLoad, UpdateLoad, AnnounceStart, AnnounceEnd
  <2>3. CASE JoinStore
    BY <1>1, <2>3, OthersServe DEF JoinStore, Loaded, Undo, Live, Peopled
  <2>4. CASE StartStore
    BY <1>1, <2>4, OthersServe DEF StartStore, Loaded, Undo, Live
  <2>5. CASE LeaveStore \/ LostSwap \/ ForceEnd
    BY <1>1, <2>5, OthersServe DEF LeaveStore, LostSwap, ForceEnd, IsOver
  <2>6. ASSUME NEW killed \in SUBSET Players, Fly(killed)
        PROVE  Service!Next
    BY <1>1, <2>6, OthersServe DEF Fly
  <2>7. CASE Events
    BY <1>1, <2>7, OthersServe
       DEF Events, EventsLoad, EventsAnnounce, EventsStore, IsOver
  <2> QED BY <1>1, <2>1, <2>2, <2>3, <2>4, <2>5, <2>6, <2>7 DEF Next, Going, Update
<1> QED BY <1>1, TypeCorrect, PeopledHolds, LoadedHolds, PTL DEF Spec, ServesUnlessUndone

=============================================================================
